----------------------------- MODULE KeepAlive ------------------------------
(***************************************************************************)
(* The clocks of one connection (server.py, _reader and _writer): the      *)
(* writer sends a no-op when it had nothing to write for Idle seconds, the *)
(* reader gives the connection up when no message came for Limit seconds.  *)
(* The server handles one request after the other and answers each within  *)
(* Delay seconds of having answered the one before it.  A write does not   *)
(* block.  Time advances by steps of one; several things may happen        *)
(* between two steps, and what is due happens before time goes on.         *)
(***************************************************************************)
EXTENDS Integers

CONSTANTS Idle,    \* fail_after(10) in _writer
          Limit,   \* fail_after(15) in _reader
          Delay,   \* how long the server takes for a request
          MaxOut   \* bound: requests in flight

ASSUME KeepAliveAssumption ==
    /\ Idle \in Nat \ {0} /\ Limit \in Nat /\ Delay \in Nat /\ MaxOut \in Nat \ {0}
    /\ Idle + Delay < Limit

VARIABLES
    idle,      \* time the writer has waited for a message
    silence,   \* time the reader has waited for a message
    out,       \* requests on the wire: Len(self.requests)
    work,      \* time the server has had for the first of them
    alive,     \* the server is there
    gone,      \* time since it is not
    state      \* "up", or "timeout" when the reader has given up

vars == <<idle, silence, out, work, alive, gone, state>>

TypeOK ==
    /\ idle \in 0..Idle /\ silence \in 0..Limit
    /\ out \in 0..MaxOut /\ work \in 0..Delay
    /\ alive \in BOOLEAN /\ gone \in Nat
    /\ state \in {"up", "timeout"}

Init ==
    /\ idle = 0 /\ silence = 0 /\ out = 0 /\ work = 0
    /\ alive = TRUE /\ gone = 0 /\ state = "up"

\* Mutant: what is sent restarts the reader's clock too.
WriteRearms ==
    /\ out' = out + 1
    /\ idle' = 0 /\ silence' = 0
    /\ work' = IF out = 0 THEN 0 ELSE work
    /\ UNCHANGED <<alive, gone, state>>

\* A message goes out.  The server starts on it when it has nothing else.
Write ==
    /\ out' = out + 1
    /\ idle' = 0
    /\ work' = IF out = 0 THEN 0 ELSE work
    /\ UNCHANGED <<silence, alive, gone, state>>

\* The writer finds a message in its queue.
Request == state = "up" /\ out < MaxOut /\ Write

\* receive() times out: the writer makes up a message.
Nop == state = "up" /\ idle = Idle /\ out < MaxOut /\ Write

\* Mutant: an answer is taken without a request it could belong to.
AnswerUnasked ==
    /\ state = "up" /\ alive
    /\ out' = out - 1 /\ work' = 0 /\ silence' = 0
    /\ UNCHANGED <<idle, alive, gone, state>>

\* An answer: the reader's next receive has the whole of its time again.
Answer ==
    /\ state = "up" /\ alive /\ out > 0
    /\ out' = out - 1 /\ work' = 0 /\ silence' = 0
    /\ UNCHANGED <<idle, alive, gone, state>>

\* ServerBusy: a message, but no answer.
Busy ==
    /\ state = "up" /\ alive /\ out > 0
    /\ silence' = 0
    /\ UNCHANGED <<idle, out, work, alive, gone, state>>

\* The server dies, or the network does, without a word.
Die ==
    /\ state = "up" /\ alive
    /\ alive' = FALSE
    /\ UNCHANGED <<idle, silence, out, work, gone, state>>

\* Mutant: the reader's time is no longer than the writer's.
TimeoutEarly ==
    /\ state = "up" /\ silence >= Idle
    /\ state' = "timeout"
    /\ UNCHANGED <<idle, silence, out, work, alive, gone>>

\* Mutant: the time counts only while nothing is asked.
TimeoutUnasked ==
    /\ state = "up" /\ silence = Limit /\ out = 0
    /\ state' = "timeout"
    /\ UNCHANGED <<idle, silence, out, work, alive, gone>>

\* fail_after raises TimeoutError, which ends the connection.
Timeout ==
    /\ state = "up" /\ silence = Limit
    /\ state' = "timeout"
    /\ UNCHANGED <<idle, silence, out, work, alive, gone>>

\* The server is not late.  With MaxOut requests in flight nothing is due from
\* the writer: the bound stands for a server that has died.
Tick ==
    /\ state = "up" /\ silence < Limit
    /\ idle < Idle \/ out = MaxOut
    /\ alive /\ out > 0 => work < Delay
    /\ idle' = IF idle < Idle THEN idle + 1 ELSE idle
    /\ silence' = silence + 1
    /\ work' = IF alive /\ out > 0 THEN work + 1 ELSE work
    /\ gone' = IF alive THEN gone ELSE gone + 1
    /\ UNCHANGED <<out, alive, state>>

Done == state = "timeout" /\ UNCHANGED vars

Next == Request \/ Nop \/ Answer \/ Busy \/ Die \/ Timeout \/ Tick \/ Done

\* Time goes on, and the reader notices when its time is up.
Spec == Init /\ [][Next]_vars /\ WF_vars(Tick) /\ WF_vars(Timeout) /\ WF_vars(Nop)

-----------------------------------------------------------------------------
(* Properties.                                                             *)

\* A server that is there and answers in time is never taken for dead,
\* however long the user has nothing to say: the no-ops keep it talking.
NoFalseAlarm == state = "timeout" => ~alive

\* A server that has died is noticed within the reader's limit, whatever the
\* user and the writer still send.
NoticedInTime == gone <= Limit

\* ... and it is noticed.
DeathNoticed == ~alive ~> state = "timeout"
=============================================================================
