------------------------------ MODULE Framing -------------------------------
(***************************************************************************)
(* MessageProtocol (protocol.py): messages are written as a header and a   *)
(* payload, travel as a stream in pieces of any size, and are cut out of   *)
(* it again by _read_buf and __anext__.  A cell of the stream stands for   *)
(* one 32-bit field of the header or for one byte of a payload; the result *)
(* and flag fields of the header, which the protocol passes on unread, are *)
(* left out.                                                               *)
(***************************************************************************)
EXTENDS Integers, Sequences, SequencesExt, FiniteSets, FiniteSetsExt

CONSTANTS Messages,   \* what the peer may write: records as in Encode
          MaxLength,  \* MessageProtocol.MAX_LENGTH
          MaxChunk,   \* the 4096 of stream.receive
          MaxSent,    \* bound: messages in a behaviour
          None        \* no header read; a payload of None

HeaderLen == 4

Headers == [version : Int, len : Int, dlen : Int, offset : Int]

\* A message without data has the length -1, any other that of its data.
ASSUME FramingAssumption ==
    /\ MaxLength \in Nat /\ MaxChunk \in Nat \ {0} /\ MaxSent \in Nat
    /\ None \notin Headers
    /\ \A m \in Messages :
         /\ m \in [version : Int, len : Int, dlen : Int, offset : Int,
                  data : Seq(Int) \cup {None}]
         /\ m.len = IF m.data = None THEN -1 ELSE Len(m.data)

VARIABLES
    sent,     \* history: the messages written
    wire,     \* written and not yet received
    closed,   \* the peer has gone
    buf,      \* MessageProtocol._buf
    hdr,      \* the header whose payload __anext__ reads
    out,      \* history: what __anext__ returned, or Busy
    status,   \* how reading ended
    astray    \* history: a length made no sense

vars == <<sent, wire, closed, buf, hdr, out, status, astray>>

Busy == "busy"
Cells == UNION {{m.version, m.len, m.dlen, m.offset} \cup
                   (IF m.data = None THEN {} ELSE Range(m.data)) : m \in Messages}

TypeOK ==
    /\ sent \in Seq(Messages) /\ Len(sent) <= MaxSent
    /\ wire \in Seq(Cells) /\ buf \in Seq(Cells)
    /\ closed \in BOOLEAN /\ astray \in BOOLEAN
    /\ hdr \in Headers \cup {None}
    /\ hdr # None => hdr.len \in Cells /\ hdr.len <= MaxLength
    /\ status \in {"reading", "eof", "broken", "error"}

Init ==
    /\ sent = <<>> /\ wire = <<>> /\ closed = FALSE
    /\ buf = <<>> /\ hdr = None /\ out = <<>>
    /\ status = "reading" /\ astray = FALSE

-----------------------------------------------------------------------------
(* The format.                                                             *)

\* Python's s[:n] and s[n:].
Upto(s, n) ==
    SubSeq(s, 1, IF n >= 0 THEN Min({n, Len(s)}) ELSE Max({0, Len(s) + n}))
From(s, n) == SubSeq(s, Len(Upto(s, n)) + 1, Len(s))

\* write(): a message without data, which the server sends when it is busy,
\* has the length -1.
Encode(m) ==
    <<m.version, m.len, m.dlen, m.offset>> \o (IF m.data = None THEN <<>> ELSE m.data)

\* unpack; an offset with bit 15 set counts as none.
Decode(h) ==
    [version |-> h[1], len |-> h[2], dlen |-> IF h[2] = 0 THEN 0 ELSE h[3],
     offset |-> IF (h[4] \div 32768) % 2 = 1 THEN 0 ELSE h[4]]

IsBusy(h) == h.version = 0 /\ h.len = -1 /\ h.dlen = 0 /\ h.offset = 0
IsWrong(h) == h.version # 0 \/ (~IsBusy(h) /\ h.len > MaxLength)

\* A payload as the client gets it, without what follows the data.
Result(h, data) == Upto(data, h.dlen)

-----------------------------------------------------------------------------
(* The peer.                                                               *)

Write(m) ==
    /\ ~closed /\ status = "reading" /\ Len(sent) < MaxSent
    /\ sent' = Append(sent, m)
    /\ wire' = wire \o Encode(m)
    /\ UNCHANGED <<closed, buf, hdr, out, status, astray>>

\* The connection ends, maybe inside a message.
Close ==
    /\ ~closed /\ status = "reading"
    /\ closed' = TRUE
    /\ \E n \in 0..Len(wire) : wire' = SubSeq(wire, 1, n)
    /\ UNCHANGED <<sent, buf, hdr, out, status, astray>>

-----------------------------------------------------------------------------
(* _read_buf and __anext__.                                                *)

Need == IF hdr = None THEN HeaderLen ELSE hdr.len

Receive ==
    /\ status = "reading" /\ Len(buf) < Need /\ wire # <<>>
    /\ \E n \in 1..Min({MaxChunk, Len(wire)}) :
         /\ buf' = buf \o SubSeq(wire, 1, n)
         /\ wire' = SubSeq(wire, n + 1, Len(wire))
    /\ UNCHANGED <<sent, closed, hdr, out, status, astray>>

\* Mutant: the end of the stream is taken for an empty piece of it.
EndSwallowed ==
    /\ status = "reading" /\ Len(buf) < Need /\ wire = <<>> /\ closed
    /\ UNCHANGED vars

\* The end is StopAsyncIteration if it meets the header, else EndOfStream.
EndOfStream ==
    /\ status = "reading" /\ Len(buf) < Need /\ wire = <<>> /\ closed
    /\ status' = IF hdr = None THEN "eof" ELSE "broken"
    /\ UNCHANGED <<sent, wire, closed, buf, hdr, out, astray>>

\* Mutant: the length is not checked.
HeaderUnchecked ==
    /\ status = "reading" /\ hdr = None /\ Len(buf) >= HeaderLen
    /\ LET h == Decode(Upto(buf, HeaderLen)) IN
         IF IsBusy(h) THEN out' = Append(out, Busy) /\ UNCHANGED <<hdr, status, astray>>
         ELSE /\ hdr' = h /\ astray' = (astray \/ h.len < 0)
              /\ UNCHANGED <<out, status>>
    /\ buf' = From(buf, HeaderLen)
    /\ UNCHANGED <<sent, wire, closed>>

Header ==
    /\ status = "reading" /\ hdr = None /\ Len(buf) >= HeaderLen
    /\ LET h == Decode(Upto(buf, HeaderLen)) IN
         \/ /\ IsBusy(h)
            /\ out' = Append(out, Busy)
            /\ UNCHANGED <<hdr, status, astray>>
         \/ /\ IsWrong(h)
            /\ status' = "error"
            /\ UNCHANGED <<hdr, out, astray>>
         \/ /\ ~IsBusy(h) /\ ~IsWrong(h)
            /\ hdr' = h /\ astray' = (astray \/ h.len < 0)
            /\ UNCHANGED <<out, status>>
    /\ buf' = From(buf, HeaderLen)
    /\ UNCHANGED <<sent, wire, closed>>

\* Mutant: what was received beyond the payload is dropped.
PayloadClears ==
    /\ status = "reading" /\ hdr # None /\ Len(buf) >= hdr.len
    /\ out' = Append(out, Result(hdr, Upto(buf, hdr.len)))
    /\ buf' = <<>>
    /\ hdr' = None
    /\ UNCHANGED <<sent, wire, closed, status, astray>>

\* With a negative length this takes all but the last cells of the buffer.
Payload ==
    /\ status = "reading" /\ hdr # None /\ Len(buf) >= hdr.len
    /\ out' = Append(out, Result(hdr, Upto(buf, hdr.len)))
    /\ buf' = From(buf, hdr.len)
    /\ hdr' = None
    /\ UNCHANGED <<sent, wire, closed, status, astray>>

-----------------------------------------------------------------------------
\* The reader's loop has ended, or waits for a peer that writes no more.
Done ==
    /\ status # "reading" \/ (wire = <<>> /\ Len(buf) < Need /\ Len(sent) = MaxSent)
    /\ UNCHANGED vars

Read == Receive \/ Header \/ Payload \/ EndOfStream

Next == Read \/ Close \/ Done \/ \E m \in Messages : Write(m)

\* The reader task runs when there is something to read.
Spec == Init /\ [][Next]_vars /\ WF_vars(Read)

-----------------------------------------------------------------------------
(* Properties.                                                             *)

\* The memory a connection takes is bounded by the longest message and one
\* piece of the stream, however the stream is cut and whatever is left over
\* from earlier messages.
BufferBounded == Len(buf) < Max({HeaderLen, MaxLength}) + MaxChunk

Fields(m) == Decode(SubSeq(Encode(m), 1, HeaderLen))

Wrong == {m \in Messages : IsWrong(Fields(m))}
Sane == {m \in Messages : IsBusy(Fields(m)) \/ m \in Wrong \/ m.len >= 0}
Seen == [m \in Sane \ Wrong |->
            IF IsBusy(Fields(m)) THEN Busy ELSE Result(Fields(m), m.data)]

\* How much of a message the reader needs: of one it cannot read, the header.
Size == [m \in Messages |-> IF m \in Sane \ Wrong THEN Len(Encode(m)) ELSE HeaderLen]

\* Where the first n messages end, counting of each what the reader needs.
Ends[n \in 0..Len(sent)] == IF n = 0 THEN 0 ELSE Ends[n - 1] + Size[sent[n]]

Pending == (IF hdr = None THEN 0 ELSE HeaderLen) + Len(buf) + Len(wire)

\* The messages that are complete in what is still to be read.
Complete ==
    LET read == Len(out)
    IN SubSeq(sent, read + 1,
              Max({n \in read..Len(sent) : Ends[n] - Ends[read] <= Pending}))

Channel == INSTANCE FrameChannel WITH
    transit <- IF astray \/ status = "error" THEN <<>> ELSE Complete,
    received <- IF astray THEN <<>> ELSE out,
    over <- IF astray THEN "astray"
            ELSE IF status # "reading" THEN status
            ELSE IF closed THEN "closing" ELSE "no"

\* However the stream is cut into pieces, and wherever it ends, the reader
\* gets the messages that were written, whole, once and in order, until the
\* connection ends or one of them cannot be read.
ChannelOfMessages == Channel!Safety

\* What is complete is read, and the end of the connection is noticed.
EachIsDelivered == Channel!Fairness
=============================================================================
