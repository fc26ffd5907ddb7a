---------------------------- MODULE MCTempAlarm -----------------------------
(* Instances of TempAlarm for TLC. *)
EXTENDS TempAlarm, TLC

\* On both sides of zero, with and without a fraction.
MCTemps == {-9, -5, -4, -1, 0, 2, 3, 7}
=============================================================================
