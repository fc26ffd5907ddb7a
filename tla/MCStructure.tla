---------------------------- MODULE MCStructure -----------------------------
(* The structure of the tests' family F0, made smaller: arrays of both       *)
(* kinds, a directory in a directory, entries before and after them.         *)
EXTENDS Structure, TLC

MCItems == "F0" :> <<"family", "foo", "temphigh">>
             @@ "foo" :> <<"bar", "baz", "plugh.A", "plugh.B">>
             @@ "baz" :> <<"quux">>
MCLeaves == {"family", "temphigh", "bar", "plugh.A", "plugh.B", "quux"}
MCAccess == [i \in MCLeaves |-> CASE i = "family" -> "ro"
                                  [] i = "quux" -> "wo"
                                  [] OTHER -> "rw"]
MCKind == [i \in MCLeaves |-> CASE i = "plugh.A" -> "array"
                                [] i = "plugh.B" -> "other"
                                [] OTHER -> "simple"]
=============================================================================
