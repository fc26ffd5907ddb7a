---------------------------- MODULE MCKeepAlive -----------------------------
(* Instances of KeepAlive for TLC. *)
EXTENDS KeepAlive, TLC
=============================================================================
