-------------------------- MODULE KeepAliveProofs ---------------------------
(***************************************************************************)
(* The two bounds of KeepAlive, for every choice of the times that leaves  *)
(* the reader more than the writer and the server take together.           *)
(***************************************************************************)
EXTENDS KeepAlive, TLAPS

\* What makes them inductive: while the server is there, the silence is
\* covered by the time the writer has been idle, or by that and the time the
\* server works on the first request; the death of the server is younger
\* than the silence.
Covered ==
    /\ alive /\ out = 0 => silence <= idle
    /\ alive /\ out > 0 => silence <= Idle + work
    /\ gone <= silence
    /\ alive => gone = 0

IInv == TypeOK /\ Covered /\ NoFalseAlarm

LEMMA InitInv == Init => IInv
BY KeepAliveAssumption DEF Init, IInv, TypeOK, Covered, NoFalseAlarm

LEMMA NextInv == IInv /\ [Next]_vars => IInv'
<1> SUFFICES ASSUME IInv, [Next]_vars PROVE IInv'
    OBVIOUS
<1> USE KeepAliveAssumption DEF IInv, TypeOK, Covered, NoFalseAlarm
<1>1. CASE Request
    BY <1>1 DEF Request, Write
<1>2. CASE Nop
    BY <1>2 DEF Nop, Write
<1>3. CASE Answer
    BY <1>3 DEF Answer
<1>4. CASE Busy
    BY <1>4 DEF Busy
<1>5. CASE Die
    BY <1>5 DEF Die
<1>6. CASE Timeout
    BY <1>6 DEF Timeout
<1>7. CASE Tick
    BY <1>7 DEF Tick
<1>8. CASE UNCHANGED vars
    BY <1>8 DEF vars
<1>9. CASE Done
    BY <1>9 DEF Done, vars
<1>10. QED
    BY <1>1, <1>2, <1>3, <1>4, <1>5, <1>6, <1>7, <1>8, <1>9 DEF Next

\* A server that is there and answers in time is never taken for dead: the
\* reader's limit, the writer's and the server's time only have to leave room.
THEOREM NeverTakenForDead == Spec => []NoFalseAlarm
<1>1. IInv => NoFalseAlarm
    BY DEF IInv
<1>2. QED
    BY <1>1, InitInv, NextInv, PTL DEF Spec

\* A server that is gone is noticed within the reader's limit.
THEOREM AlwaysNoticedInTime == Spec => []NoticedInTime
<1>1. IInv => NoticedInTime
    BY KeepAliveAssumption DEF IInv, TypeOK, Covered, NoticedInTime
<1>2. QED
    BY <1>1, InitInv, NextInv, PTL DEF Spec

\* The clocks stay within their limits.
THEOREM ClocksInRange == Spec => []TypeOK
<1>1. IInv => TypeOK
    BY DEF IInv
<1>2. QED
    BY <1>1, InitInv, NextInv, PTL DEF Spec
=============================================================================
