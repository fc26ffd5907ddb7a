----------------------------- MODULE TempAlarm ------------------------------
(***************************************************************************)
(* A bus's poll for alarms and what it does about a thermometer that       *)
(* raises one: Bus._poll, Bus.poll, Bus.poll_alarm and                     *)
(* TemperatureDevice.poll_alarm, which widens the limits until they        *)
(* enclose the temperature (bus.py, device.py).                            *)
(*                                                                         *)
(* Every request suspends; the temperature changes meanwhile, and an error *)
(* answer ends the poll.  Temperatures are in quarters of a degree: int()  *)
(* cuts them toward zero.  Limits are changed by this poll only.           *)
(***************************************************************************)
EXTENDS Integers, FiniteSets

CONSTANTS Devices,     \* thermometers on the bus
          Temps,       \* what they may show
          Low, High,   \* the limits they start with
          Nobody,      \* no device
          MaxChanges,  \* bound: changes of a temperature
          MaxErrors    \* bound: error answers

ASSUME TempAlarmAssumption ==
    /\ Temps \subseteq Int /\ Low \in Int /\ High \in Int /\ Low < High
    /\ Nobody \notin Devices
    /\ MaxChanges \in Nat /\ MaxErrors \in Nat

VARIABLES
    temp,     \* of each device; owserver's latesttemp
    low,      \* templow
    high,     \* temphigh
    listed,   \* devices of the alarm listing the poll has yet to look at
    dev, t,   \* the device in hand and the temperature it gave
    pc,       \* the next request of the poll
    changes, errors

world  == <<temp, changes>>
limits == <<low, high>>
poll   == <<listed, dev, t, pc>>
vars   == <<world, limits, poll, errors>>

Quarters == 4

\* int() of a number of quarters, as quarters.
Truncated(x) ==
    IF x >= 0 THEN (x \div Quarters) * Quarters ELSE -(((-x) \div Quarters) * Quarters)

TypeOK ==
    /\ temp \in [Devices -> Temps] /\ low \in [Devices -> Int] /\ high \in [Devices -> Int]
    /\ listed \subseteq Devices /\ dev \in Devices \cup {Nobody} /\ t \in Int
    /\ pc \in {"sleep", "next", "temp", "high", "setHigh", "low", "setLow"}
    /\ (dev = Nobody <=> pc \in {"sleep", "next"}) /\ (pc = "sleep" => listed = {})
    /\ changes \in 0..MaxChanges /\ errors \in 0..MaxErrors

Init ==
    /\ temp \in [Devices -> Temps]
    /\ low = [d \in Devices |-> Low] /\ high = [d \in Devices |-> High]
    /\ listed = {} /\ dev = Nobody /\ t = 0 /\ pc = "sleep"
    /\ changes = 0 /\ errors = 0

\* The condition poll_alarm looks for and removes.
Alarmed(d) == temp[d] > high[d] \/ temp[d] < low[d]

Change ==
    /\ changes < MaxChanges /\ changes' = changes + 1
    /\ \E d \in Devices, v \in Temps : v # temp[d] /\ temp' = [temp EXCEPT ![d] = v]
    /\ UNCHANGED <<limits, poll, errors>>

-----------------------------------------------------------------------------
(* Bus.poll_alarm.                                                         *)

\* The interval is over: the alarm directory is listed.
List ==
    /\ pc = "sleep"
    /\ listed' = {d \in Devices : Alarmed(d)} /\ pc' = "next"
    /\ UNCHANGED <<world, limits, dev, t, errors>>

NextDevice ==
    /\ pc = "next"
    /\ \/ /\ listed = {} /\ pc' = "sleep" /\ UNCHANGED <<listed, dev>>
       \/ \E d \in listed : dev' = d /\ listed' = listed \ {d} /\ pc' = "temp"
    /\ UNCHANGED <<world, limits, t, errors>>

\* Mutant: the poll goes on with the device that gave an error.
ErrorStays ==
    /\ pc # "next" /\ errors < MaxErrors /\ errors' = errors + 1
    /\ listed' = {} /\ pc' = "sleep"
    /\ UNCHANGED <<world, limits, dev, t>>

\* Bus.poll logs an error answer and the task sleeps.
Error ==
    /\ pc # "next" /\ errors < MaxErrors /\ errors' = errors + 1
    /\ listed' = {} /\ dev' = Nobody /\ pc' = "sleep" /\ t' = 0
    /\ UNCHANGED <<world, limits>>

-----------------------------------------------------------------------------
(* TemperatureDevice.poll_alarm, one request after the other.              *)

ReadTemp ==
    /\ pc = "temp" /\ t' = temp[dev] /\ pc' = "high"
    /\ UNCHANGED <<world, limits, listed, dev, errors>>

ReadHigh ==
    /\ pc = "high" /\ pc' = IF t > high[dev] THEN "setHigh" ELSE "low"
    /\ UNCHANGED <<world, limits, listed, dev, t, errors>>

\* Mutant: int(t).
SetHighTruncated ==
    /\ pc = "setHigh" /\ pc' = "low"
    /\ high' = [high EXCEPT ![dev] = Truncated(t)]
    /\ UNCHANGED <<world, low, listed, dev, t, errors>>

\* Mutant: the amounts of the two limits are swapped.
SetHighSwapped ==
    /\ pc = "setHigh" /\ pc' = "low"
    /\ high' = [high EXCEPT ![dev] = Truncated(t - 1 * Quarters)]
    /\ UNCHANGED <<world, low, listed, dev, t, errors>>

SetHigh ==
    /\ pc = "setHigh" /\ pc' = "low"
    /\ high' = [high EXCEPT ![dev] = Truncated(t + 2 * Quarters)]
    /\ UNCHANGED <<world, low, listed, dev, t, errors>>

\* The device has been looked at; its event is pushed.
Handled == dev' = Nobody /\ t' = 0 /\ pc' = "next"

ReadLow ==
    /\ pc = "low"
    /\ IF t < low[dev] THEN pc' = "setLow" /\ UNCHANGED <<dev, t>> ELSE Handled
    /\ UNCHANGED <<world, limits, listed, errors>>

SetLow ==
    /\ pc = "setLow" /\ Handled
    /\ low' = [low EXCEPT ![dev] = Truncated(t - 1 * Quarters)]
    /\ UNCHANGED <<world, high, listed, errors>>

-----------------------------------------------------------------------------
PollStep == List \/ NextDevice \/ ReadTemp \/ ReadHigh \/ SetHigh \/ ReadLow \/ SetLow

Next == PollStep \/ Error \/ Change

\* The poll task comes round again and its requests are answered.
Spec == Init /\ [][Next]_vars /\ WF_vars(PollStep)

-----------------------------------------------------------------------------
(* Properties.                                                             *)

\* Adapting a limit never turns the two round, whatever the temperature does
\* between the request that reads it and the one that sets the limit, on both
\* sides of zero (int(t + 2), int(t - 1)).
LimitsOrdered == \A d \in Devices : low[d] < high[d]

\* "this method must disable the alarm" (device.py:565): once the temperatures
\* stand still and no more errors come, no device is left in alarm. (An error
\* answer of one device ends the poll of all, until the next round.)
AlarmsEnd == <>[](\A d \in Devices : ~Alarmed(d))
=============================================================================
