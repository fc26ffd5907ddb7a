---------------------------- MODULE MCServerConn ----------------------------
(* Instances of ServerConn for TLC. *)
EXTENDS ServerConn, TLC

\* Calls are interchangeable.
CallSymmetry == Permutations(Msgs)
=============================================================================
