----------------------------- MODULE Structure ------------------------------
(***************************************************************************)
(* Loading the structure of one device class: Service.ensure_struct,       *)
(* Device.setup_struct and the walk of setup_accessors over the server's   *)
(* /structure directory (device.py, service.py).                           *)
(*                                                                         *)
(* Every scan that meets a device of the class asks for its structure.     *)
(* The walk suspends at each request; a request fails or the scan is       *)
(* cancelled there, and what was loaded so far stays with the class.       *)
(***************************************************************************)
EXTENDS Naturals, Sequences, SequencesExt, FiniteSets

CONSTANTS Tasks,    \* scans, of one server each
          Dirs,     \* directories of the structure
          Root,     \* the directory of the family
          Leaves,   \* the other entries
          Items,    \* what the listing of each directory says, in order
          Access,   \* of each leaf: "ro", "wo" or "rw"
          Kind,     \* "simple"; "array": element 0; "other": further elements
          Own,      \* leaves whose name is an attribute of the class already
          MaxFails  \* bound: walks that fail

ASSUME StructureAssumption ==
    /\ Root \in Dirs /\ Dirs \cap Leaves = {} /\ Own \subseteq Leaves
    /\ Items \in [Dirs -> Seq(Dirs \cup Leaves)]
    /\ Access \in [Leaves -> {"ro", "wo", "rw"}]
    /\ Kind \in [Leaves -> {"simple", "array", "other"}]
    /\ MaxFails \in Nat

VARIABLES
    did,     \* cls._did_setup: "no", "loading" (None) or "yes"
    attrs,   \* accessors set on the class, and on the classes of its directories
    pc,      \* where each task is: "dir" and "attr" wait for an answer
    walk,    \* its activations of setup_accessors: the entries left of each
    fails

vars == <<did, attrs, pc, walk, fails>>

Accessor == [at : Leaves \cup Dirs,
             form : {"dir", "value", "get", "set", "value_all", "get_all", "set_all"}]

TypeOK ==
    /\ did \in {"no", "loading", "yes"}
    /\ attrs \subseteq Accessor
    /\ pc \in [Tasks -> {"idle", "dir", "attr"}]
    /\ walk \in [Tasks -> Seq(Seq(Dirs \cup Leaves))]
    /\ \A t \in Tasks : pc[t] = "idle" <=> walk[t] = <<>>
    /\ \A t \in Tasks : pc[t] = "dir" => Head(Last(walk[t])) \in Dirs
    /\ fails \in 0..MaxFails

Init ==
    /\ did = "no" /\ attrs = {} /\ fails = 0
    /\ pc = [t \in Tasks |-> "idle"] /\ walk = [t \in Tasks |-> <<>>]

-----------------------------------------------------------------------------
(* What an entry of the structure adds to the class.                       *)

Reads(i) == Access[i] \in {"ro", "rw"}
Writes(i) == Access[i] \in {"wo", "rw"}

\* An attribute the class has already is not overwritten.
New(i) ==
    LET one == (IF Reads(i) THEN {"get"} \cup (IF i \in Own THEN {} ELSE {"value"}) ELSE {})
                 \cup (IF Writes(i) THEN {"set"} ELSE {})
        all == (IF Reads(i) THEN {"get_all", "value_all"} ELSE {})
                 \cup (IF Writes(i) THEN {"set_all"} ELSE {})
    IN [at : {i}, form : CASE Kind[i] = "simple" -> one
                           [] Kind[i] = "array" -> one \cup all
                           [] Kind[i] = "other" -> {}]

\* What lies below a directory: the least set that has the entries of its
\* listing and, with a directory, those of that directory's listing.
Below == [d \in Dirs |->
    {e \in Dirs \cup Leaves : \A S \in SUBSET (Dirs \cup Leaves) :
        /\ Range(Items[d]) \subseteq S
        /\ \A s \in S \cap Dirs : Range(Items[s]) \subseteq S
        => e \in S}]

-----------------------------------------------------------------------------
(* The walk.                                                               *)

Top(t) == Last(walk[t])
WithTop(t, s) == Append(Front(walk[t]), s)

Load(t) ==
    /\ did' = "loading"
    /\ pc' = [pc EXCEPT ![t] = "dir"] /\ walk' = [walk EXCEPT ![t] = << <<Root>> >>]

\* Mutant: only a class that is loaded completely is marked.
EnsureUnmarked(t) ==
    /\ pc[t] = "idle"
    /\ \/ did # "no" /\ UNCHANGED <<did, pc, walk>>
       \/ /\ did = "no" /\ UNCHANGED did
          /\ pc' = [pc EXCEPT ![t] = "dir"] /\ walk' = [walk EXCEPT ![t] = << <<Root>> >>]
    /\ UNCHANGED <<attrs, fails>>

\* A class that another task is loading is taken for loaded.
Ensure(t) ==
    /\ pc[t] = "idle"
    /\ \/ did # "no" /\ UNCHANGED <<did, pc, walk>>
       \/ did = "no" /\ Load(t)
    /\ UNCHANGED <<attrs, fails>>

Listing(t) ==
    /\ pc[t] = "dir"
    /\ walk' = [walk EXCEPT ![t] = Append(WithTop(t, Tail(Top(t))), Items[Head(Top(t))])]
    /\ pc' = [pc EXCEPT ![t] = "attr"]
    /\ UNCHANGED <<did, attrs, fails>>

Leaf(t) ==
    /\ pc[t] = "attr" /\ Top(t) # <<>>
    /\ LET i == Head(Top(t)) IN i \in Leaves /\ attrs' = attrs \cup New(i)
    /\ walk' = [walk EXCEPT ![t] = WithTop(t, Tail(Top(t)))]
    /\ UNCHANGED <<did, pc, fails>>

\* A directory gets a new class, in place of the one an earlier walk made.
Enter(t) ==
    /\ pc[t] = "attr" /\ Top(t) # <<>>
    /\ LET i == Head(Top(t)) IN
         /\ i \in Dirs
         /\ attrs' = {a \in attrs : a.at \notin Below[i]} \cup {[at |-> i, form |-> "dir"]}
    /\ pc' = [pc EXCEPT ![t] = "dir"]
    /\ UNCHANGED <<did, walk, fails>>

\* Mutant: the end of a directory marks the class.
LeaveMarks(t) ==
    /\ pc[t] = "attr" /\ Top(t) = <<>>
    /\ did' = "yes"
    /\ walk' = [walk EXCEPT ![t] = Front(@)] /\ pc' = [pc EXCEPT ![t] = "idle"]
    /\ UNCHANGED <<attrs, fails>>

\* The listing is worked off; the outermost one ends the load.
Leave(t) ==
    /\ pc[t] = "attr" /\ Top(t) = <<>>
    /\ \/ /\ Len(walk[t]) > 1
          /\ walk' = [walk EXCEPT ![t] = Front(@)] /\ UNCHANGED <<did, pc>>
       \/ /\ Len(walk[t]) = 1
          /\ did' = "yes"
          /\ walk' = [walk EXCEPT ![t] = <<>>] /\ pc' = [pc EXCEPT ![t] = "idle"]
    /\ UNCHANGED <<attrs, fails>>

\* Mutant: "except Exception": a cancelled load stays marked.
FailMarked(t) ==
    /\ pc[t] # "idle" /\ fails < MaxFails /\ fails' = fails + 1
    /\ did' \in {"no", "loading"}
    /\ walk' = [walk EXCEPT ![t] = <<>>] /\ pc' = [pc EXCEPT ![t] = "idle"]
    /\ UNCHANGED attrs

\* Mutant: the class is marked "finally".
FailLoaded(t) ==
    /\ pc[t] # "idle" /\ fails < MaxFails /\ fails' = fails + 1
    /\ did' = "yes"
    /\ walk' = [walk EXCEPT ![t] = <<>>] /\ pc' = [pc EXCEPT ![t] = "idle"]
    /\ UNCHANGED attrs

\* A request fails, or the task is cancelled.
Fail(t) ==
    /\ pc[t] # "idle" /\ fails < MaxFails /\ fails' = fails + 1
    /\ did' = "no"
    /\ walk' = [walk EXCEPT ![t] = <<>>] /\ pc' = [pc EXCEPT ![t] = "idle"]
    /\ UNCHANGED attrs

-----------------------------------------------------------------------------
Walk(t) == Listing(t) \/ Leaf(t) \/ Enter(t) \/ Leave(t)

Next == \E t \in Tasks : Ensure(t) \/ Walk(t) \/ Fail(t)

\* Scans come again and again, and every request is answered.
Spec == Init /\ [][Next]_vars /\ \A t \in Tasks : WF_vars(Ensure(t)) /\ WF_vars(Walk(t))

-----------------------------------------------------------------------------
(* Properties.                                                             *)

\* The accessors the structure describes, all of it: the elements of an array
\* share those of element 0.
Described ==
    LET found == Below[Root]
        use == {i \in found \cap Leaves : Kind[i] # "other"}
        forms(i) == {f \in {"value", "value_all", "get", "get_all"} : Reads(i)}
                      \cup {f \in {"set", "set_all"} : Writes(i)}
    IN {a \in Accessor :
          \/ a.at \in found \cap Dirs /\ a.form = "dir"
          \/ /\ a.at \in use /\ a.form \in forms(a.at)
             /\ a.form \in {"value_all", "get_all", "set_all"} => Kind[a.at] = "array"
             /\ a.form = "value" => a.at \notin Own}

\* A class that counts as loaded has every accessor the structure describes
\* and no other, whoever loaded it and however many walks failed before half
\* way through (setup_struct, setup_accessors).
CompleteWhenLoaded == did = "yes" => attrs = Described

\* Two scans never build the classes of one structure at a time: the later
\* one would replace what the earlier one goes on filling (setup_struct).
OneLoader == \A t, u \in Tasks : pc[t] # "idle" /\ pc[u] # "idle" => t = u

\* After any failures the class is loaded in the end: none leaves it marked
\* as being loaded with nobody at work (setup_struct).
LoadedInTheEnd == <>[](did = "yes")
=============================================================================
