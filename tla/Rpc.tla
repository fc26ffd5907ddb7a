-------------------------------- MODULE Rpc --------------------------------
(***************************************************************************)
(* What Server.chat() promises its callers, without queues, connections or *)
(* tasks: a remote call that is transmitted any number of times while it   *)
(* is unanswered, executed at most once per transmission, and answered     *)
(* only after it was executed.  Reconnecting makes the promise             *)
(* "at least once"; nothing makes it "exactly once".                       *)
(***************************************************************************)
EXTENDS Integers

CONSTANT Msgs

VARIABLES call,         \* "idle", "pending", "replied", "failed", "left"
          outstanding,  \* transmissions the server may still execute
          execs         \* executions

vars == <<call, outstanding, execs>>

Init ==
    /\ call = [m \in Msgs |-> "idle"]
    /\ outstanding = [m \in Msgs |-> 0]
    /\ execs = [m \in Msgs |-> 0]

Call(m) ==
    /\ call[m] = "idle"
    /\ call' = [call EXCEPT ![m] = "pending"]
    /\ UNCHANGED <<outstanding, execs>>

\* A call that was given up may already be on its way to the wire.
Transmit(m) ==
    /\ call[m] \in {"pending", "left"}
    /\ outstanding' = [outstanding EXCEPT ![m] = @ + 1]
    /\ UNCHANGED <<call, execs>>

Execute(m) ==
    /\ outstanding[m] > 0
    /\ outstanding' = [outstanding EXCEPT ![m] = @ - 1]
    /\ execs' = [execs EXCEPT ![m] = @ + 1]
    /\ UNCHANGED call

\* A connection breaks and what was on it is lost.
Lose ==
    /\ outstanding' \in [Msgs -> Nat]
    /\ \A m \in Msgs : outstanding'[m] <= outstanding[m]
    /\ UNCHANGED <<call, execs>>

Reply(m) ==
    /\ call[m] = "pending" /\ execs[m] > 0
    /\ call' = [call EXCEPT ![m] = "replied"]
    /\ UNCHANGED <<outstanding, execs>>

Leave(m) ==
    /\ call[m] = "pending"
    /\ call' = [call EXCEPT ![m] = "left"]
    /\ UNCHANGED <<outstanding, execs>>

\* The connection is closed for good: the calls it is working on fail.
Close(S) ==
    /\ \A m \in S : call[m] = "pending"
    /\ call' = [m \in Msgs |-> IF m \in S THEN "failed" ELSE call[m]]
    /\ UNCHANGED <<outstanding, execs>>

Next ==
    \/ \E m \in Msgs : \/ Call(m) \/ Transmit(m) \/ Execute(m)
                       \/ Reply(m) \/ Leave(m)
    \/ Lose
    \/ \E S \in SUBSET Msgs : Close(S)

Spec == Init /\ [][Next]_vars
=============================================================================
