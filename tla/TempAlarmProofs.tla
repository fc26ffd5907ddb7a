-------------------------- MODULE TempAlarmProofs ---------------------------
(***************************************************************************)
(* What TempAlarm does to the limits, for any temperatures and any number  *)
(* of devices, changes and errors.                                         *)
(***************************************************************************)
EXTENDS TempAlarm, TLAPS

\* int(t + 2) is above t and int(t - 1) below, although int() cuts toward zero.
LEMMA Encloses ==
    ASSUME NEW x \in Int
    PROVE  /\ Truncated(x + 2 * Quarters) \in Int /\ x < Truncated(x + 2 * Quarters)
           /\ Truncated(x - 1 * Quarters) \in Int /\ Truncated(x - 1 * Quarters) < x
<1>1. \A y \in Int : Truncated(y) \in Int /\ y - 4 < Truncated(y) /\ Truncated(y) < y + 4
    <2>1. ASSUME NEW y \in Int PROVE (y \div 4) * 4 \in Int /\ (y \div 4) * 4 <= y /\ y < (y \div 4) * 4 + 4
        BY SMT
    <2>2. QED
        BY <2>1, SMT DEF Truncated, Quarters
<1>2. QED
    BY <1>1, SMT DEF Quarters

\* A limit is about to be set only because the temperature in hand is beyond it.
Reasons ==
    /\ pc = "setHigh" => t > high[dev]
    /\ pc = "setLow" => t < low[dev]

IInv == TypeOK /\ Reasons /\ LimitsOrdered

LEMMA InitInv == Init => IInv
BY TempAlarmAssumption DEF Init, IInv, TypeOK, Reasons, LimitsOrdered

LEMMA NextInv == IInv /\ [Next]_vars => IInv'
<1> SUFFICES ASSUME IInv, [Next]_vars PROVE IInv'
    OBVIOUS
<1> USE TempAlarmAssumption DEF IInv, TypeOK, Reasons, LimitsOrdered
<1>1. CASE List
    BY <1>1 DEF List, world, limits
<1>2. CASE NextDevice
    BY <1>2 DEF NextDevice, world, limits
<1>3. CASE ReadTemp
    BY <1>3 DEF ReadTemp, world, limits
<1>4. CASE ReadHigh
    BY <1>4 DEF ReadHigh, world, limits
<1>5. CASE SetHigh
    <2>1. dev \in Devices /\ t < Truncated(t + 2 * Quarters) /\ Truncated(t + 2 * Quarters) \in Int
        BY <1>5, Encloses DEF SetHigh
    <2>2. QED
        BY <1>5, <2>1 DEF SetHigh, world
<1>6. CASE ReadLow
    BY <1>6 DEF ReadLow, Handled, world, limits
<1>7. CASE SetLow
    <2>1. dev \in Devices /\ Truncated(t - 1 * Quarters) < t /\ Truncated(t - 1 * Quarters) \in Int
        BY <1>7, Encloses DEF SetLow
    <2>2. QED
        BY <1>7, <2>1 DEF SetLow, Handled, world
<1>8. CASE Error
    BY <1>8 DEF Error, world, limits
<1>9. CASE Change
    BY <1>9 DEF Change, limits, poll
<1>10. CASE UNCHANGED vars
    BY <1>10 DEF vars, world, limits, poll
<1>11. QED
    BY <1>1, <1>2, <1>3, <1>4, <1>5, <1>6, <1>7, <1>8, <1>9, <1>10 DEF Next, PollStep

\* The upper limit stays above the lower one, on both sides of zero, whatever
\* the temperatures do between the requests of a poll.
THEOREM LimitsStayOrdered == Spec => []LimitsOrdered
<1>1. IInv => LimitsOrdered
    BY DEF IInv
<1>2. QED
    BY <1>1, InitInv, NextInv, PTL DEF Spec

\* The poll's state and the limits keep their types.
THEOREM PollInRange == Spec => []TypeOK
<1>1. IInv => TypeOK
    BY DEF IInv
<1>2. QED
    BY <1>1, InitInv, NextInv, PTL DEF Spec
=============================================================================
