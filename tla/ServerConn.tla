----------------------------- MODULE ServerConn -----------------------------
(***************************************************************************)
(* One connection to an owserver: class Server of src/asyncowfs/server.py  *)
(* with the Message and ValueEvent objects it completes.                   *)
(*                                                                         *)
(* Tasks of the code and where they are here:                              *)
(*   main    Server._run_reconnected and the _run_one it calls             *)
(*   reader  Server._reader                                                *)
(*   writer  Server._writer                                                *)
(*   callers Server.chat, one per message of Msgs                          *)
(*   closer  Server.aclose                                                 *)
(*   peer    the owserver process (external)                               *)
(*                                                                         *)
(* The code is cooperative: a task is interrupted only where it awaits     *)
(* something that is not ready.  Every action is the code from one such    *)
(* point to the next.  A memory object stream suspends its sender only     *)
(* when it is full, so the re-send loop of _run_one is a sequence of steps *)
(* no other task can enter (main = "resend", MainYields).                   *)
(*                                                                         *)
(* Cancelling a scope takes effect in a task at its next suspension.  A    *)
(* task that was already runnable takes one more step; that step commutes  *)
(* with the cancellation, so it is taken before it here and every step of  *)
(* a connection's tasks requires tg = "running", except the ones that      *)
(* handle the cancellation.                                                *)
(***************************************************************************)
EXTENDS Integers, Sequences, SequencesExt, FiniteSets

CONSTANTS Msgs,        \* the calls: one Message object each
          Nop,         \* any NOPMsg of the writer's idle timer
          NoMsg,       \* "no message"
          QueueSize,   \* capacity of _wqueue_w (100 in the code)
          MaxConn,     \* bound: TCP connections made during a behaviour
          MaxNop       \* bound: idle NOPMsg objects alive at the same time

Handshake(n) == [nop |-> n]     \* the NOPMsg that opens connection n
Handshakes == {Handshake(n) : n \in 1..MaxConn}
AllMsgs == Msgs \cup Handshakes \cup {Nop}

ASSUME ConstantsAssumption ==
    /\ QueueSize \in Nat \ {0}
    /\ MaxConn \in Nat
    /\ MaxNop \in Nat
    /\ Nop \notin Msgs
    /\ NoMsg \notin Msgs \cup {Nop}
    /\ \A n \in 1..MaxConn : Handshake(n) \notin Msgs \cup {Nop, NoMsg}

VARIABLES
    call,       \* state of each chat() call
    answer,     \* the request whose answer completed the call
    hsAnswer,   \* the same for the current connection's handshake
    wqueue,     \* _wqueue: the buffer, then the items of blocked senders
    requests,   \* self.requests: taken by the writer, not yet answered
    ml,         \* local of _run_one: still to be sent again
    cur,        \* the message the re-send loop is blocked on
    wmsg,       \* local of _writer: the message being written
    main,       \* where _run_reconnected / _run_one is
    reader,     \* whether _reader runs
    writer,     \* where _writer is
    tg,         \* the connection's task group, and why it is going down
    val,        \* the ValueEvent start() waits for
    closer,     \* where aclose() is
    epoch,      \* number of connections made
    peer,       \* the server's end of the current connection; "cut" when it
                \* went away in the middle of a frame
    c2s, s2c,   \* requests and answers in transit
    busy,       \* number of "server busy" frames in transit
    late,       \* <<n, m>>: the server still holds m from lost connection n
    execs       \* how often the server executed each message

callVars == <<call, answer, hsAnswer>>
holders  == <<wqueue, requests, ml, cur, wmsg>>
tasks    == <<main, reader, writer, tg, val, closer>>
wire     == <<peer, c2s, s2c, busy, late, execs>>
vars     == <<callVars, holders, tasks, epoch, wire>>

MainStates == {"connecting", "waitTasks", "resend", "blocked", "handshake",
               "serving", "joining", "backoff", "ended", "crashed"}

TypeOK ==
    /\ call \in [Msgs -> {"idle", "pending", "replied", "failed", "left"}]
    /\ answer \in [Msgs -> AllMsgs \cup {NoMsg}]
    /\ hsAnswer \in AllMsgs \cup {NoMsg}
    /\ wqueue \in Seq(AllMsgs)
    /\ requests \in Seq(AllMsgs)
    /\ ml \in Seq(AllMsgs)
    /\ cur \in AllMsgs \cup {NoMsg}
    /\ wmsg \in AllMsgs \cup {NoMsg}
    /\ main \in MainStates
    /\ reader \in {"off", "on"}
    /\ writer \in {"off", "recv", "writing"}
    /\ tg \in {"off", "running", "cancelled", "timeout", "broken"}
    /\ val \in {"unset", "set", "error"}
    /\ closer \in {"idle", "cancelling", "done"}
    /\ epoch \in 0..MaxConn
    /\ peer \in {"none", "open", "closed", "cut"}
    /\ c2s \in Seq(AllMsgs)
    /\ s2c \in Seq(AllMsgs)
    /\ busy \in {0, 1}
    /\ late \subseteq (1..MaxConn) \X Msgs
    /\ execs \in [Msgs -> Nat]

Init ==
    /\ call = [m \in Msgs |-> "idle"]
    /\ answer = [m \in Msgs |-> NoMsg]
    /\ hsAnswer = NoMsg
    /\ wqueue = <<>> /\ requests = <<>> /\ ml = <<>>
    /\ cur = NoMsg /\ wmsg = NoMsg
    /\ main = "connecting" /\ reader = "off" /\ writer = "off"
    /\ tg = "off" /\ val = "unset" /\ closer = "idle"
    /\ epoch = 0
    /\ peer = "none" /\ c2s = <<>> /\ s2c = <<>> /\ busy = 0
    /\ late = {}
    /\ execs = [m \in Msgs |-> 0]

-----------------------------------------------------------------------------
(* The write queue: the first QueueSize items are the stream's buffer, the *)
(* items behind them belong to senders suspended in send().                *)

\* The sender of m is suspended.
Waiting(m) == \E i \in 1..Len(wqueue) : i > QueueSize /\ wqueue[i] = m

\* The queue after the suspended sender of m was cancelled.
Withdraw(m) ==
    RemoveAt(wqueue,
             CHOOSE i \in 1..Len(wqueue) : i > QueueSize /\ wqueue[i] = m)

\* Message.cancelled: set when the caller of chat() was interrupted while it
\* waited for the answer, and by aclose().  A handshake of an earlier
\* connection was abandoned by the main task the same way.
Cancelled(m) ==
    IF m \in Msgs THEN call[m] \in {"failed", "left"}
                  ELSE m \in Handshakes

\* The other tasks of the event loop run only while main is suspended.
MainYields == main # "resend"

Count(m, s) == Cardinality({i \in 1..Len(s) : s[i] = m})

\* Idle NOPMsg objects that exist.
Nops == Count(Nop, wqueue) + Count(Nop, requests) + Count(Nop, ml)
          + (IF cur = Nop THEN 1 ELSE 0)

-----------------------------------------------------------------------------
(* Main task, outside a connection.                                        *)

\* Mutant of Connect: self.requests is copied, not replaced.
ConnectKeepsRequests ==
    /\ main = "connecting" /\ closer = "idle" /\ epoch < MaxConn
    /\ ml' = requests
    /\ reader' = "on" /\ writer' = "recv" /\ tg' = "running"
    /\ main' = "waitTasks"
    /\ epoch' = epoch + 1
    /\ peer' = "open"
    /\ UNCHANGED <<callVars, wqueue, requests, cur, wmsg, val, closer,
                   c2s, s2c, busy, late, execs>>

\* A connection is established; the requests of the last one move to ml and
\* reader and writer are spawned.
Connect ==
    /\ main = "connecting" /\ closer = "idle" /\ epoch < MaxConn
    /\ ml' = requests /\ requests' = <<>>
    /\ reader' = "on" /\ writer' = "recv" /\ tg' = "running"
    /\ main' = "waitTasks"
    /\ epoch' = epoch + 1
    /\ peer' = "open"
    /\ UNCHANGED <<callVars, wqueue, cur, wmsg, val, closer,
                   c2s, s2c, busy, late, execs>>

\* Where an exception that _run_reconnected handles leads.
AfterError ==
    IF val = "unset" THEN main' = "ended" /\ val' = "error"
                     ELSE main' = "backoff" /\ UNCHANGED val

ConnectFails ==
    /\ main = "connecting" /\ closer = "idle"
    /\ AfterError
    /\ UNCHANGED <<callVars, holders, reader, writer, tg, closer, epoch, wire>>

Backoff ==
    /\ main = "backoff" /\ closer = "idle"
    /\ main' = "connecting"
    /\ UNCHANGED <<callVars, holders, reader, writer, tg, val, closer,
                   epoch, wire>>

\* aclose() cancelled the run: it ends where it next suspends.
Stop ==
    /\ main \in {"connecting", "backoff"} /\ closer # "idle"
    /\ main' = "ended"
    /\ UNCHANGED <<callVars, holders, reader, writer, tg, val, closer,
                   epoch, wire>>

-----------------------------------------------------------------------------
(* Main task, inside a connection.                                         *)

\* Both tasks have set their start events.
TasksUp ==
    /\ main = "waitTasks" /\ tg = "running"
    /\ main' = "resend"
    /\ UNCHANGED <<callVars, holders, reader, writer, tg, val, closer,
                   epoch, wire>>

\* except BaseException: self.requests = ml
CancelledWaiting ==
    /\ main = "waitTasks" /\ tg # "running"
    /\ requests' = ml /\ ml' = <<>>
    /\ main' = "joining"
    /\ UNCHANGED <<callVars, wqueue, cur, wmsg, reader, writer, tg, val,
                   closer, epoch, wire>>

ResendSkip ==
    /\ main = "resend" /\ ml # <<>> /\ Cancelled(Head(ml))
    /\ ml' = Tail(ml)
    /\ UNCHANGED <<callVars, wqueue, requests, cur, wmsg, tasks, epoch, wire>>

\* The message enters the queue: at once, or main is suspended in send().
ResendSend ==
    /\ main = "resend" /\ ml # <<>> /\ ~Cancelled(Head(ml))
    /\ wqueue' = Append(wqueue, Head(ml))
    /\ ml' = Tail(ml)
    /\ IF Len(wqueue) < QueueSize
          THEN UNCHANGED <<main, cur>>
          ELSE main' = "blocked" /\ cur' = Head(ml)
    /\ UNCHANGED <<callVars, requests, wmsg, reader, writer, tg, val, closer,
                   epoch, wire>>

\* The writer made room and the suspended send() returns.
ResendAdmitted ==
    /\ main = "blocked" /\ ~Waiting(cur)
    /\ main' = "resend" /\ cur' = NoMsg
    /\ UNCHANGED <<callVars, wqueue, requests, ml, wmsg, reader, writer, tg,
                   val, closer, epoch, wire>>

\* Mutants of ResendRetry: the message is put back without being withdrawn
\* from the queue; cur is cleared before it is put back.
ResendRetryNoWithdraw ==
    /\ main = "blocked" /\ Waiting(cur) /\ tg # "running"
    /\ ml' = <<cur>> \o ml
    /\ main' = "resend" /\ cur' = NoMsg
    /\ UNCHANGED <<callVars, wqueue, requests, wmsg, reader, writer, tg, val,
                   closer, epoch, wire>>

ResendRetryClearedFirst ==
    /\ main = "blocked" /\ Waiting(cur) /\ tg # "running"
    /\ wqueue' = Withdraw(cur)
    /\ main' = "resend" /\ cur' = NoMsg
    /\ ml' = <<cur'>> \o ml
    /\ UNCHANGED <<callVars, requests, wmsg, reader, writer, tg, val, closer,
                   epoch, wire>>

\* The suspended send() is cancelled.  The handler of the loop puts the
\* message back and goes on: the cancellation is swallowed.
ResendRetry ==
    /\ main = "blocked" /\ Waiting(cur) /\ tg # "running"
    /\ wqueue' = Withdraw(cur)
    /\ ml' = <<cur>> \o ml
    /\ main' = "resend" /\ cur' = NoMsg
    /\ UNCHANGED <<callVars, requests, wmsg, reader, writer, tg, val, closer,
                   epoch, wire>>

\* All re-sent: chat(NOPMsg()).
SendHandshake ==
    /\ main = "resend" /\ ml = <<>>
    /\ wqueue' = Append(wqueue, Handshake(epoch))
    /\ hsAnswer' = NoMsg
    /\ main' = "handshake"
    /\ UNCHANGED <<call, answer, requests, ml, cur, wmsg, reader, writer, tg,
                   val, closer, epoch, wire>>

\* Mutant of HandshakeDone: only the first connection gets past it.
HandshakeDoneOnce ==
    /\ main = "handshake" /\ hsAnswer # NoMsg /\ val = "unset"
    /\ main' = "serving"
    /\ val' = "set"
    /\ UNCHANGED <<callVars, holders, reader, writer, tg, closer, epoch, wire>>

\* The handshake was answered; start() is released.
HandshakeDone ==
    /\ main = "handshake" /\ hsAnswer # NoMsg
    /\ main' = "serving"
    /\ val' = "set"
    /\ UNCHANGED <<callVars, holders, reader, writer, tg, closer, epoch, wire>>

\* The task group is going down while chat(NOPMsg()) waits.
CancelledHandshake ==
    /\ main = "handshake" /\ hsAnswer = NoMsg /\ tg # "running"
    /\ wqueue' = IF Waiting(Handshake(epoch)) THEN Withdraw(Handshake(epoch))
                                              ELSE wqueue
    /\ main' = "joining"
    /\ UNCHANGED <<callVars, requests, ml, cur, wmsg, reader, writer, tg, val,
                   closer, epoch, wire>>

\* Where the end of _run_one leads.  A cancelled task group ends silently;
\* a TimeoutError is handled; anyio.BrokenResourceError and EndOfStream are
\* not.
AfterJoin ==
    CASE tg = "cancelled" -> main' = "connecting" /\ UNCHANGED val
      [] tg = "timeout"   -> AfterError
      [] tg = "broken"    -> main' = "crashed" /\ UNCHANGED val

\* Mutant of Join: leaving the connection forgets what is unanswered.
JoinClearsRequests ==
    /\ main \in {"serving", "joining"} /\ reader = "off" /\ writer = "off"
    /\ tg \in {"cancelled", "timeout", "broken"}
    /\ AfterJoin
    /\ tg' = "off"
    /\ late' = late \cup
                 {<<epoch, m>> : m \in {k \in Msgs : Count(k, c2s) > 0}}
    /\ peer' = "none" /\ c2s' = <<>> /\ s2c' = <<>> /\ busy' = 0
    /\ requests' = <<>>
    /\ UNCHANGED <<callVars, wqueue, ml, cur, wmsg, reader, writer, closer,
                   epoch, execs>>

\* Reader and writer are gone: the task group is left and the stream closed.
\* The server may still hold requests it has received on this connection.
Join ==
    /\ main \in {"serving", "joining"} /\ reader = "off" /\ writer = "off"
    /\ tg \in {"cancelled", "timeout", "broken"}
    /\ AfterJoin
    /\ tg' = "off"
    /\ late' = late \cup
                 {<<epoch, m>> : m \in {k \in Msgs : Count(k, c2s) > 0}}
    /\ peer' = "none" /\ c2s' = <<>> /\ s2c' = <<>> /\ busy' = 0
    /\ UNCHANGED <<callVars, holders, reader, writer, closer, epoch, execs>>

-----------------------------------------------------------------------------
(* _reader                                                                 *)

\* Mutant of ReaderReply: pop() for popleft().
ReaderReplyNewest ==
    /\ MainYields
    /\ reader = "on" /\ tg = "running" /\ s2c # <<>> /\ requests # <<>>
    /\ LET m == Last(requests)
           f == Head(s2c)
       IN /\ answer' = IF m \in Msgs THEN [answer EXCEPT ![m] = f] ELSE answer
          /\ call' = IF m \in Msgs /\ call[m] = "pending"
                        THEN [call EXCEPT ![m] = "replied"] ELSE call
          /\ hsAnswer' = IF m = Handshake(epoch) THEN f ELSE hsAnswer
    /\ requests' = Front(requests)
    /\ s2c' = Tail(s2c)
    /\ UNCHANGED <<wqueue, ml, cur, wmsg, tasks, epoch, peer, c2s, busy, late,
                   execs>>

\* An answer arrives: it completes the oldest outstanding request.
ReaderReply ==
    /\ MainYields
    /\ reader = "on" /\ tg = "running" /\ s2c # <<>> /\ requests # <<>>
    /\ LET m == Head(requests)
           f == Head(s2c)
       IN /\ answer' = IF m \in Msgs THEN [answer EXCEPT ![m] = f] ELSE answer
          /\ call' = IF m \in Msgs /\ call[m] = "pending"
                        THEN [call EXCEPT ![m] = "replied"] ELSE call
          /\ hsAnswer' = IF m = Handshake(epoch) THEN f ELSE hsAnswer
    /\ requests' = Tail(requests)
    /\ s2c' = Tail(s2c)
    /\ UNCHANGED <<wqueue, ml, cur, wmsg, tasks, epoch, peer, c2s, busy, late,
                   execs>>

\* Mutant of ReaderBusy: a busy frame is taken for an answer.
ReaderBusyPops ==
    /\ MainYields
    /\ reader = "on" /\ tg = "running" /\ busy = 1 /\ requests # <<>>
    /\ busy' = 0
    /\ requests' = Tail(requests)
    /\ UNCHANGED <<callVars, wqueue, ml, cur, wmsg, tasks, epoch, peer, c2s,
                   s2c, late, execs>>

\* "Server busy" completes nothing.
ReaderBusy ==
    /\ MainYields
    /\ reader = "on" /\ tg = "running" /\ busy = 1
    /\ busy' = 0
    /\ UNCHANGED <<callVars, holders, tasks, epoch, peer, c2s, s2c, late,
                   execs>>

\* Mutant of ReaderEof: the reader ends without cancelling the task group.
ReaderEofAlone ==
    /\ MainYields
    /\ reader = "on" /\ tg = "running"
    /\ peer = "closed" /\ s2c = <<>> /\ busy = 0
    /\ reader' = "off"
    /\ UNCHANGED <<callVars, holders, main, writer, tg, val, closer, epoch,
                   wire>>

\* End of stream: the reader cancels the task group it runs in.
ReaderEof ==
    /\ MainYields
    /\ reader = "on" /\ tg = "running"
    /\ peer = "closed" /\ s2c = <<>> /\ busy = 0
    /\ reader' = "off" /\ tg' = "cancelled"
    /\ UNCHANGED <<callVars, holders, main, writer, val, closer, epoch, wire>>

\* End of stream inside a frame: _read_buf's EndOfStream reaches nobody who
\* handles it and takes the task group down.
ReaderCut ==
    /\ MainYields
    /\ reader = "on" /\ tg = "running"
    /\ peer = "cut" /\ s2c = <<>> /\ busy = 0
    /\ reader' = "off" /\ tg' = "broken"
    /\ UNCHANGED <<callVars, holders, main, writer, val, closer, epoch, wire>>

\* No frame within 15 s, whether or not one is on its way.
ReaderTimeout ==
    /\ MainYields
    /\ reader = "on" /\ tg = "running" /\ epoch < MaxConn
    /\ reader' = "off" /\ tg' = "timeout"
    /\ UNCHANGED <<callVars, holders, main, writer, val, closer, epoch, wire>>

ReaderCancelled ==
    /\ MainYields
    /\ reader = "on" /\ tg # "running"
    /\ reader' = "off"
    /\ UNCHANGED <<callVars, holders, main, writer, tg, val, closer, epoch,
                   wire>>

-----------------------------------------------------------------------------
(* _writer                                                                 *)

WriterReceive ==
    /\ MainYields
    /\ writer = "recv" /\ tg = "running" /\ wqueue # <<>>
    /\ requests' = Append(requests, Head(wqueue))
    /\ wmsg' = Head(wqueue)
    /\ wqueue' = Tail(wqueue)
    /\ writer' = "writing"
    /\ UNCHANGED <<callVars, ml, cur, main, reader, tg, val, closer, epoch,
                   wire>>

\* Nothing to send for 10 s.
WriterIdle ==
    /\ MainYields
    /\ writer = "recv" /\ tg = "running" /\ wqueue = <<>> /\ Nops < MaxNop
    /\ requests' = Append(requests, Nop)
    /\ wmsg' = Nop
    /\ writer' = "writing"
    /\ UNCHANGED <<callVars, wqueue, ml, cur, main, reader, tg, val, closer,
                   epoch, wire>>

\* The bytes are on their way; nobody will see them if the peer has closed.
WriterWritten ==
    /\ MainYields
    /\ writer = "writing" /\ tg = "running"
    /\ c2s' = IF peer = "open" THEN Append(c2s, wmsg) ELSE c2s
    /\ wmsg' = NoMsg
    /\ writer' = "recv"
    /\ UNCHANGED <<callVars, wqueue, requests, ml, cur, main, reader, tg, val,
                   closer, epoch, peer, s2c, busy, late, execs>>

\* The stream reports that the peer is gone: anyio.BrokenResourceError
\* leaves the writer and takes the task group down.
WriterBroken ==
    /\ MainYields
    /\ writer = "writing" /\ tg = "running" /\ peer \in {"closed", "cut"}
    /\ writer' = "off" /\ wmsg' = NoMsg
    /\ tg' = "broken"
    /\ UNCHANGED <<callVars, wqueue, requests, ml, cur, main, reader, val,
                   closer, epoch, wire>>

WriterCancelled ==
    /\ MainYields
    /\ writer # "off" /\ tg # "running"
    /\ writer' = "off" /\ wmsg' = NoMsg
    /\ UNCHANGED <<callVars, wqueue, requests, ml, cur, main, reader, tg, val,
                   closer, epoch, wire>>

-----------------------------------------------------------------------------
(* The peer: requests are executed and answered in the order received.     *)

\* execs after m was executed once more (only calls are counted).
Executed(m) == IF m \in Msgs THEN [execs EXCEPT ![m] = @ + 1] ELSE execs

PeerExecute ==
    /\ peer = "open" /\ c2s # <<>>
    /\ execs' = Executed(Head(c2s))
    /\ s2c' = Append(s2c, Head(c2s))
    /\ c2s' = Tail(c2s)
    /\ UNCHANGED <<callVars, holders, tasks, epoch, peer, busy, late>>

PeerBusy ==
    /\ peer = "open" /\ c2s # <<>> /\ busy = 0
    /\ busy' = 1
    /\ UNCHANGED <<callVars, holders, tasks, epoch, peer, c2s, s2c, late,
                   execs>>

\* The connection breaks: unread requests are lost, and any tail of the
\* answers, the first of which may still arrive in part.
PeerClose ==
    /\ peer = "open" /\ epoch < MaxConn
    /\ c2s' = <<>>
    /\ \E k \in 0..Len(s2c) :
         /\ s2c' = SubSeq(s2c, 1, k)
         /\ peer' \in IF k < Len(s2c) THEN {"closed", "cut"} ELSE {"closed"}
    /\ UNCHANGED <<callVars, holders, tasks, epoch, busy, late, execs>>

\* The server works off a request of a connection the client gave up.
PeerLate ==
    \E p \in late :
        /\ execs' = Executed(p[2])
        /\ late' = late \ {p}
        /\ UNCHANGED <<callVars, holders, tasks, epoch, peer, c2s, s2c, busy>>

-----------------------------------------------------------------------------
(* Callers.  The Server object is handed out when start() has returned.    *)

Chat(m) ==
    /\ MainYields
    /\ call[m] = "idle" /\ val = "set" /\ main # "crashed"
    /\ call' = [call EXCEPT ![m] = "pending"]
    /\ wqueue' = Append(wqueue, m)
    /\ UNCHANGED <<answer, hsAnswer, requests, ml, cur, wmsg, tasks, epoch,
                   wire>>

\* The caller is cancelled or times out: in send(), where the message is
\* withdrawn, or waiting for the answer, where only the flag is set.
Leave(m) ==
    /\ MainYields
    /\ call[m] = "pending" /\ main # "crashed"
    /\ call' = [call EXCEPT ![m] = "left"]
    /\ wqueue' = IF Waiting(m) /\ cur # m THEN Withdraw(m) ELSE wqueue
    /\ UNCHANGED <<answer, hsAnswer, requests, ml, cur, wmsg, tasks, epoch,
                   wire>>

-----------------------------------------------------------------------------
(* aclose(): cancel the run and the connection, report, free the buses,    *)
(* and later fail what is in self.requests.                                *)

AcloseCancel ==
    /\ MainYields
    /\ closer = "idle" /\ val = "set" /\ main \notin {"ended", "crashed"}
    /\ closer' = "cancelling"
    /\ tg' = IF tg = "running" THEN "cancelled" ELSE tg
    /\ UNCHANGED <<callVars, holders, main, reader, writer, val, epoch, wire>>

AcloseFail ==
    /\ MainYields
    /\ closer = "cancelling" /\ main # "crashed"
    /\ closer' = "done"
    /\ call' = [m \in Msgs |->
                  IF call[m] = "pending" /\ Count(m, requests) > 0
                     THEN "failed" ELSE call[m]]
    /\ UNCHANGED <<answer, hsAnswer, holders, main, reader, writer, tg, val,
                   epoch, wire>>

-----------------------------------------------------------------------------
MainStep ==
    \/ Connect \/ ConnectFails \/ Backoff \/ Stop
    \/ TasksUp \/ CancelledWaiting
    \/ ResendAdmitted \/ ResendRetry
    \/ HandshakeDone \/ CancelledHandshake \/ Join

ReaderStep == ReaderReply \/ ReaderBusy \/ ReaderEof \/ ReaderCut
                \/ ReaderTimeout \/ ReaderCancelled

WriterStep == WriterReceive \/ WriterIdle \/ WriterWritten \/ WriterBroken
                \/ WriterCancelled

PeerStep == PeerExecute \/ PeerBusy \/ PeerClose \/ PeerLate

CallerStep == \E m \in Msgs : Chat(m) \/ Leave(m)

CloserStep == AcloseCancel \/ AcloseFail

\* The re-send loop: main keeps the processor until it suspends.
ResendStep == ResendSkip \/ ResendSend \/ SendHandshake

\* Nothing is left to do for the connection once main is gone.
Terminated == main \in {"ended", "crashed"} /\ UNCHANGED vars

Next == ResendStep \/ MainStep \/ ReaderStep \/ WriterStep \/ PeerStep
          \/ CallerStep \/ CloserStep \/ Terminated

Spec == Init /\ [][Next]_vars

-----------------------------------------------------------------------------
(* Safety.                                                                 *)

\* The requests whose answers are still to come, oldest first, as the wire
\* and the writer hold them.
Outstanding == s2c \o c2s \o (IF wmsg = NoMsg THEN <<>> ELSE <<wmsg>>)

\* OWFS answers carry no identification, so _reader gives each answer to the
\* oldest entry of self.requests (server.py:87).  That is right only while
\* self.requests lists exactly what is on the wire, in the same order: also
\* across reconnects, lost connections and calls that were given up.
Fifo ==
    tg = "running" =>
        IF peer = "open" THEN requests = Outstanding
                         ELSE /\ Len(s2c) <= Len(requests)
                              /\ \A i \in 1..Len(s2c) : s2c[i] = requests[i]

\* What Fifo is for: a call is completed by the answer to its own request,
\* and a connection counts as established by the answer to its own
\* handshake, never by a late answer to something sent before.
ReplyMatches ==
    /\ \A m \in Msgs : answer[m] \in {NoMsg, m}
    /\ main = "handshake" => hsAnswer \in {NoMsg, Handshake(epoch)}
    /\ main = "serving" => hsAnswer = Handshake(epoch)

\* Whether the client side still has the message anywhere.
Held(m) == Count(m, wqueue) + Count(m, requests) + Count(m, ml) > 0

\* The queue, self.requests and ml hand messages to each other at every
\* reconnect (server.py:101-123) and at every retry of a cancelled send.
\* No message is ever in two of them, or twice in one: it would be executed
\* twice on one connection.
HeldOnce ==
    \A m \in Msgs \cup Handshakes :
        Count(m, wqueue) + Count(m, requests) + Count(m, ml) <= 1

\* Re-sending makes chat() an at-least-once call.  The server executes a
\* message at most once for each connection, counting the requests it still
\* holds from connections the client has given up.
ExecsBounded ==
    \A m \in Msgs :
        execs[m] + Cardinality({p \in late : p[2] = m}) + Count(m, c2s)
            <= epoch

\* A call that still waits loses its message in one place only: where
\* _run_one, interrupted before its tasks are up, replaces self.requests
\* (server.py:121-123).  No other reconnect, retry, withdrawal or answer
\* drops it.
LostOnlyWhileStarting ==
    [][\A m \in Msgs :
         /\ call[m] = "pending" /\ Held(m)
         /\ call'[m] = "pending" /\ ~Held(m)'
         => main = "waitTasks" /\ tg # "running"]_vars

-----------------------------------------------------------------------------
(* chat() as its callers see it.                                           *)

\* Transmissions the server may still execute: those it has not read yet,
\* and those it holds from lost connections.
OutstandingCopies ==
    [m \in Msgs |-> Count(m, c2s) + Cardinality({p \in late : p[2] = m})]

Promise == INSTANCE Rpc WITH outstanding <- OutstandingCopies

\* chat() is an at-least-once remote call: an answer is delivered only for a
\* request the server executed, and an answered call is never transmitted
\* again, whatever reconnects, withdrawals and late executions do.
AtLeastOnceCall == Promise!Spec

-----------------------------------------------------------------------------
(* Liveness.                                                               *)

(* Every task of the event loop runs when it can.  The environment: the    *)
(* network lets a connection through if it is tried often enough, and a    *)
(* peer that stays connected answers.  Faults, idle NOPs, callers and      *)
(* aclose() owe nothing.                                                   *)
Fairness ==
    /\ WF_vars(ResendStep)
    /\ SF_vars(Connect)
    /\ WF_vars(Backoff) /\ WF_vars(Stop)
    /\ WF_vars(TasksUp) /\ WF_vars(CancelledWaiting)
    /\ WF_vars(ResendAdmitted) /\ WF_vars(ResendRetry)
    /\ WF_vars(HandshakeDone) /\ WF_vars(CancelledHandshake) /\ WF_vars(Join)
    /\ WF_vars(ReaderReply) /\ WF_vars(ReaderBusy) /\ WF_vars(ReaderEof)
    /\ WF_vars(ReaderCut) /\ WF_vars(ReaderCancelled)
    /\ WF_vars(WriterReceive) /\ WF_vars(WriterWritten)
    /\ WF_vars(WriterCancelled)
    /\ WF_vars(PeerExecute)
    /\ WF_vars(AcloseFail)

FairSpec == Spec /\ Fairness

Down == main \in {"ended", "crashed"}

\* "The connection to the server is kept alive and will automatically be
\* re-established" (introduction.rst:41): after a connection goes down its
\* successor answers its handshake, unless the server is closed or the
\* service has crashed.
Reestablished == tg # "running" ~> main = "serving" \/ Down

\* A call ends unless its message was dropped (LostOnlyWhileStarting says
\* where) or the connection is gone for good.
CallsEnd ==
    \A m \in Msgs :
        call[m] = "pending" /\ Held(m) ~>
            call[m] # "pending" \/ ~Held(m) \/ Down

-----------------------------------------------------------------------------
(* What the repository says, and the code does not do.                     *)

\* "The connection to the server is kept alive and will automatically be
\* re-established until you leave the context" (introduction.rst:41): a lost
\* connection does not take the service down.
StaysUp == main # "crashed"

=============================================================================
