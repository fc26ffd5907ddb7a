---------------------------- MODULE FrameChannel ----------------------------
(***************************************************************************)
(* What MessageProtocol promises its user: a channel of whole messages.    *)
(* ServerConn relies on it.                                                *)
(***************************************************************************)
EXTENDS Naturals, Sequences

CONSTANTS Messages,  \* what the peer may write
          Sane,      \* the messages whose length means something
          Wrong,     \* the sane messages the reader rejects
          Seen       \* what the reader makes of each of the others

VARIABLES transit,   \* written and not yet read
          received,  \* what __anext__ returned or raised as busy
          over       \* "no", "closing", or how reading ended

vars == <<transit, received, over>>

Init == transit = <<>> /\ received = <<>> /\ over = "no"

Send(m) ==
    /\ over = "no"
    /\ transit' = Append(transit, m)
    /\ UNCHANGED <<received, over>>

\* The connection ends.  What it had not carried yet is lost.
Cut ==
    /\ over = "no"
    /\ over' = "closing"
    /\ \E n \in 0..Len(transit) : transit' = SubSeq(transit, 1, n)
    /\ UNCHANGED received

Deliver ==
    /\ over \in {"no", "closing"}
    /\ transit # <<>> /\ Head(transit) \in Sane \ Wrong
    /\ transit' = Tail(transit)
    /\ received' = Append(received, Seen[Head(transit)])
    /\ UNCHANGED over

Reject ==
    /\ over \in {"no", "closing"}
    /\ transit # <<>> /\ Head(transit) \in Wrong
    /\ transit' = <<>> /\ over' = "error"
    /\ UNCHANGED received

\* An end between two messages and one inside a message differ in what is
\* raised; an end inside a header counts as between.
End ==
    /\ over = "closing" /\ transit = <<>>
    /\ over' \in {"eof", "broken"}
    /\ UNCHANGED <<transit, received>>

\* After a length that means nothing the channel promises nothing, not even
\* about what it has delivered.
Stray ==
    /\ over \in {"no", "closing"}
    /\ transit # <<>> /\ Head(transit) \notin Sane
    /\ over' = "astray" /\ transit' = <<>> /\ received' = <<>>

Next == Cut \/ Deliver \/ Reject \/ End \/ Stray \/ \E m \in Messages : Send(m)

Safety == Init /\ [][Next]_vars

\* The reader keeps reading, and notices the end.
Fairness == WF_vars(Deliver) /\ WF_vars(Reject) /\ WF_vars(End)

Spec == Safety /\ Fairness
=============================================================================
