--------------------------- MODULE TopologyProofs ---------------------------
(***************************************************************************)
(* Theorems about Topology, for every set of adapters, couplers, ports and *)
(* devices and any number of changes of the wiring.                        *)
(***************************************************************************)
EXTENDS Topology, TLAPS, SequenceTheorems

-----------------------------------------------------------------------------
(* The stack of a scan.                                                    *)

\* The last item of a sequence and the ones before it.
LEMMA LastFront ==
    ASSUME NEW S, NEW s \in Seq(S), s # <<>>
    PROVE  /\ Len(s) \in Nat /\ Len(s) >= 1
           /\ Last(s) = s[Len(s)] /\ Last(s) \in S
           /\ Front(s) \in Seq(S) /\ Len(Front(s)) = Len(s) - 1
           /\ \A i \in 1..(Len(s) - 1) : Front(s)[i] = s[i]
<1>1. Len(s) \in Nat /\ Len(s) >= 1 OBVIOUS
<1>2. Last(s) = s[Len(s)] /\ Last(s) \in S BY <1>1 DEF Last
<1>3. /\ SubSeq(s, 1, Len(s) - 1) \in Seq(S)
      /\ Len(SubSeq(s, 1, Len(s) - 1)) = Len(s) - 1
      /\ \A i \in 1..(Len(s) - 1) : SubSeq(s, 1, Len(s) - 1)[i] = s[i]
  <2> DEFINE n == Len(s) - 1
  <2>1. n \in Int /\ n >= 0 /\ \A i \in 1..n : s[i] \in S BY <1>1
  <2> HIDE DEF n
  <2>2. /\ SubSeq(s, 1, n) \in Seq(S)
        /\ Len(SubSeq(s, 1, n)) = IF 1 <= n THEN n - 1 + 1 ELSE 0
        /\ \A i \in 1..(n - 1 + 1) : SubSeq(s, 1, n)[i] = s[1 + i - 1]
    BY ONLY <2>1, SubSeqProperties, 1 \in Int
  <2>3. /\ Len(SubSeq(s, 1, n)) = n
        /\ \A i \in 1..n : SubSeq(s, 1, n)[i] = s[i]
    BY ONLY <2>1, <2>2
  <2> QED BY <2>2, <2>3 DEF n
<1> QED BY <1>1, <1>2, <1>3 DEF Front

\* Replacing the last item.
LEMMA ReplaceLast ==
    ASSUME NEW S, NEW s \in Seq(S), s # <<>>, NEW f \in S
    PROVE  /\ Append(Front(s), f) \in Seq(S)
           /\ Len(Append(Front(s), f)) = Len(s)
           /\ Append(Front(s), f)[Len(s)] = f
           /\ \A i \in 1..(Len(s) - 1) : Append(Front(s), f)[i] = s[i]
           /\ Last(Append(Front(s), f)) = f
<1>1. /\ Len(s) \in Nat /\ Len(s) >= 1
      /\ Front(s) \in Seq(S) /\ Len(Front(s)) = Len(s) - 1
      /\ \A i \in 1..(Len(s) - 1) : Front(s)[i] = s[i]
  BY LastFront
<1>2. /\ Append(Front(s), f) \in Seq(S)
      /\ Len(Append(Front(s), f)) = Len(s)
      /\ Append(Front(s), f)[Len(s)] = f
  BY <1>1
<1>3. \A i \in 1..(Len(s) - 1) : Append(Front(s), f)[i] = s[i]
  BY <1>1
<1> QED BY <1>2, <1>3 DEF Last

\* Top-level buses, and the buses of couplers.
TopLevel == {<<b>> : b \in TopBuses}
Nested == TopBuses \X Couplers \X Ports

LEMMA BusKinds ==
    /\ Buses = TopLevel \cup Nested
    /\ \A b \in TopLevel : Len(b) = 1 /\ b # <<>> /\ b # None
    /\ \A b \in Nested : Len(b) = 3 /\ b # <<>> /\ b # None
    /\ TopLevel \cap Nested = {}
    /\ \A b \in TopLevel, d \in Couplers, p \in Ports : b \o <<d, p>> \in Nested
    /\ <<>> \notin Buses
<1>1. Buses = TopLevel \cup Nested BY DEF Buses, TopLevel, Nested
<1>2. \A b \in TopLevel : Len(b) = 1 /\ b # <<>> BY DEF TopLevel
<1>3. \A b \in Nested : Len(b) = 3 /\ b # <<>>
  <2>1. \A x, y, z : Len(<<x, y, z>>) = 3 /\ <<x, y, z>> # <<>> OBVIOUS
  <2>2. \A b \in Nested : \E x, y, z : b = <<x, y, z>> BY DEF Nested
  <2> QED BY ONLY <2>1, <2>2
<1>4. \A b \in TopLevel, d \in Couplers, p \in Ports : b \o <<d, p>> \in Nested
  <2> SUFFICES ASSUME NEW a \in TopBuses, NEW d \in Couplers, NEW p \in Ports
               PROVE  <<a>> \o <<d, p>> \in Nested
    BY DEF TopLevel
  <2> DEFINE S == {a, d, p}
             t == <<a>> \o <<d, p>>
  <2>1. <<a>> \in Seq(S) /\ <<d, p>> \in Seq(S) /\ <<a, d, p>> \in Seq(S)
    OBVIOUS
  <2>2. /\ t \in Seq(S) /\ Len(t) = 3
        /\ t[1] = a /\ t[2] = d /\ t[3] = p
    BY ONLY <2>1
  <2> DEFINE u == <<a, d, p>>
  <2>3. u \in Seq(S) /\ Len(u) = 3 /\ u[1] = a /\ u[2] = d /\ u[3] = p
    BY <2>1
  <2> HIDE DEF t, u, S
  <2>4. \A i \in 1..Len(t) : t[i] = u[i]
    BY ONLY <2>2, <2>3
  <2>5. t = u
    BY ONLY <2>2, <2>3, <2>4, SeqEqual
  <2> QED BY <2>5 DEF Nested, t, u
<1>5. None \notin Buses BY TopologyAssumption
<1> QED BY <1>1, <1>2, <1>3, <1>4, <1>5

\* What the i-th activation of _scan_one works on: the server, an adapter's
\* bus, a coupler's bus.
FrameAt(i, f) ==
    \/ /\ i = 1 /\ f.bus = <<>> /\ f.todo = {} /\ f.old = {}
       /\ f.subs \subseteq TopLevel
    \/ /\ i = 2 /\ f.bus \in TopLevel /\ f.subs \subseteq Nested
    \/ /\ i = 3 /\ f.bus \in Nested /\ f.subs = {} /\ f.todo \subseteq Plain

StackOK == \A i \in 1..Len(frames) : FrameAt(i, frames[i])

\* A stack exists while a scan is under way; couplers are on adapters.
Shape ==
    /\ frames = <<>> <=> pc = "idle"
    /\ \A c \in Couplers : plug[c] \in TopBuses \cup {None}

TypeInv == TypeOK /\ StackOK /\ Shape

\* The innermost activation.
LEMMA TopIs ==
    ASSUME TypeInv, pc # "idle"
    PROVE  /\ frames \in Seq(FrameType) /\ frames # <<>>
           /\ Len(frames) \in 1..3 /\ Top = frames[Len(frames)]
           /\ Top \in FrameType /\ FrameAt(Len(frames), Top)
<1>1. frames \in Seq(FrameType) /\ frames # <<>>
  BY DEF TypeInv, TypeOK, Shape
<1>2. Len(frames) \in 1..3
  <2>1. Len(frames) \in Nat /\ Len(frames) >= 1 BY ONLY <1>1
  <2>2. Len(frames) <= 3 BY DEF TypeInv, TypeOK
  <2> DEFINE n == Len(frames)
  <2>3. n \in Nat /\ n >= 1 /\ n <= 3 BY <2>1, <2>2
  <2> HIDE DEF n
  <2>4. n \in 1..3 BY ONLY <2>3
  <2> QED BY <2>4 DEF n
<1>3. Top = frames[Len(frames)] /\ Top \in FrameType
  BY <1>1, LastFront DEF Top
<1> QED BY <1>1, <1>2, <1>3 DEF TypeInv, StackOK

\* The innermost activation goes on.
LEMMA TopGoesOn ==
    ASSUME TypeInv, pc # "idle", NEW f \in FrameType, FrameAt(Len(frames), f),
           frames' = WithTop(f)
    PROVE  /\ frames' \in Seq(FrameType) /\ frames' # <<>> /\ StackOK'
           /\ Len(frames') = Len(frames) /\ frames'[Len(frames)] = f
           /\ \A i \in 1..(Len(frames) - 1) : frames'[i] = frames[i]
           /\ Top' = f
<1>1. frames \in Seq(FrameType) /\ frames # <<>> /\ Len(frames) \in 1..3 BY TopIs
<1>2. /\ frames' \in Seq(FrameType)
      /\ Len(frames') = Len(frames) /\ frames'[Len(frames)] = f
      /\ \A i \in 1..(Len(frames) - 1) : frames'[i] = frames[i]
      /\ Last(frames') = f
  BY <1>1, ReplaceLast DEF WithTop
<1>3. ASSUME NEW i \in 1..Len(frames') PROVE FrameAt(i, frames'[i])
  BY <1>1, <1>2 DEF TypeInv, StackOK
<1>4. frames' # <<>> BY <1>1, <1>2
<1> QED BY <1>2, <1>3, <1>4 DEF StackOK, Top

\* It calls another one.
LEMMA TopCalls ==
    ASSUME TypeInv, pc # "idle", NEW f \in FrameType, FrameAt(Len(frames), f),
           NEW g \in FrameType, FrameAt(Len(frames) + 1, g),
           frames' = Append(WithTop(f), g)
    PROVE  /\ frames' \in Seq(FrameType) /\ frames' # <<>> /\ StackOK'
           /\ Len(frames') = Len(frames) + 1 /\ frames'[Len(frames)] = f
           /\ frames'[Len(frames) + 1] = g
           /\ \A i \in 1..(Len(frames) - 1) : frames'[i] = frames[i]
           /\ Top' = g
<1>1. frames \in Seq(FrameType) /\ frames # <<>> /\ Len(frames) \in 1..3 BY TopIs
<1>2. /\ WithTop(f) \in Seq(FrameType)
      /\ Len(WithTop(f)) = Len(frames) /\ WithTop(f)[Len(frames)] = f
      /\ \A i \in 1..(Len(frames) - 1) : WithTop(f)[i] = frames[i]
  BY <1>1, ReplaceLast DEF WithTop
<1> HIDE DEF WithTop
<1>3. /\ frames' \in Seq(FrameType) /\ Len(frames') = Len(frames) + 1
      /\ \A i \in 1..Len(frames) : frames'[i] = WithTop(f)[i]
      /\ frames'[Len(frames) + 1] = g
  BY <1>1, <1>2
<1>4. ASSUME NEW i \in 1..Len(frames') PROVE FrameAt(i, frames'[i])
  BY <1>1, <1>2, <1>3 DEF TypeInv, StackOK
<1>5. frames' # <<>> BY <1>1, <1>3
<1> QED BY <1>1, <1>2, <1>3, <1>4, <1>5 DEF StackOK, Top, Last

\* It returns.
LEMMA TopReturns ==
    ASSUME TypeInv, pc # "idle", Top.bus # <<>>, frames' = Front(frames)
    PROVE  /\ frames' \in Seq(FrameType) /\ frames' # <<>> /\ StackOK'
           /\ Len(frames') = Len(frames) - 1
           /\ \A i \in 1..(Len(frames) - 1) : frames'[i] = frames[i]
<1>1. /\ frames \in Seq(FrameType) /\ frames # <<>> /\ Len(frames) \in 1..3
      /\ FrameAt(Len(frames), Top)
  BY TopIs
<1>2. /\ frames' \in Seq(FrameType) /\ Len(frames') = Len(frames) - 1
      /\ \A i \in 1..(Len(frames) - 1) : frames'[i] = frames[i]
  BY <1>1, LastFront
<1>3. Len(frames) # 1 BY <1>1 DEF FrameAt
<1>4. frames' # <<>> BY <1>1, <1>2, <1>3
<1>5. ASSUME NEW i \in 1..Len(frames') PROVE FrameAt(i, frames'[i])
  BY <1>1, <1>2 DEF TypeInv, StackOK
<1> QED BY <1>2, <1>4, <1>5 DEF StackOK

-----------------------------------------------------------------------------
(* Types.                                                                  *)

\* The end of a scan leaves no stack.
LEMMA EndsEmpty ==
    ASSUME NEW how \in {"ok", "error", "internal"}, EndScan(how)
    PROVE  /\ lock' \in {None, "user", "periodic"} /\ pc' = "idle"
           /\ outcome' \in {"none", "ok", "error", "internal"}
           /\ frames' \in Seq(FrameType) /\ Len(frames') = 0 /\ frames' = <<>>
           /\ StackOK'
<1>1. lock' = None /\ pc' = "idle" /\ outcome' = how /\ frames' = <<>>
  BY DEF EndScan
<1>2. frames' \in Seq(FrameType) /\ Len(frames') = 0 BY <1>1
<1>3. StackOK' BY <1>2 DEF StackOK
<1> QED BY <1>1, <1>2, <1>3

\* A coupler is not listed by a coupler's bus.
LEMMA NestedListsPlain ==
    ASSUME TypeInv, NEW b \in Nested
    PROVE  Listing(b) \subseteq Plain
<1> SUFFICES ASSUME NEW d \in Devices, Seen(d) = b PROVE d \in Plain
  BY DEF Listing
<1>1. CASE d \in Couplers
  <2>1. plug[d] \in TopBuses \cup {None} /\ None \notin TopBuses
    BY <1>1, TopologyAssumption DEF TypeInv, Shape
  <2>2. Seen(d) \in TopLevel \cup {None}
    BY <2>1 DEF Seen, PathOf, TopLevel
  <2> QED BY <2>2, BusKinds
<1> QED BY <1>1 DEF Devices

\* A frame with nothing done yet.
LEMMA FreshFrame ==
    ASSUME NEW b \in Buses \cup {<<>>}
    PROVE  /\ Frame(b) \in FrameType /\ Frame(b).bus = b /\ Frame(b).todo = {}
           /\ Frame(b).old = {} /\ Frame(b).subs = {}
BY DEF Frame, FrameType

\* What one entry of a listing does to the innermost activation.
LEMMA FoundIs ==
    ASSUME TypeInv, pc = "loop", NEW d \in Top.todo, Found(d)
    PROVE  \E f \in FrameType :
             /\ frames' = WithTop(f) /\ FrameAt(Len(frames), f)
             /\ f.bus = Top.bus /\ f.todo = Top.todo \ {d}
             /\ f.old = IF busOf[d] = Top.bus THEN Top.old \ {d} ELSE Top.old
<1> DEFINE s == IF d \in Couplers THEN {Top.bus \o <<d, p>> : p \in Ports}
                                  ELSE {}
           o == IF busOf[d] = Top.bus THEN Top.old \ {d} ELSE Top.old
           f == [Top EXCEPT !.todo = Top.todo \ {d}, !.old = o, !.subs = s]
<1>1. Top \in FrameType /\ FrameAt(Len(frames), Top) /\ Len(frames) \in 1..3
  BY TopIs
<1>2. frames' = WithTop(f) BY DEF Found
<1>3. \/ Len(frames) = 2 /\ s \subseteq Nested
      \/ Len(frames) = 3 /\ s = {}
  <2>1. Len(frames) # 1 BY <1>1 DEF FrameAt
  <2>2. CASE Len(frames) = 2
    <3>1. Top.bus \in TopLevel BY <1>1, <2>2 DEF FrameAt
    <3> QED BY <2>2, <3>1, BusKinds
  <2>3. CASE Len(frames) = 3
    <3>1. Top.todo \subseteq Plain BY <1>1, <2>3 DEF FrameAt
    <3> QED BY <2>3, <3>1, TopologyAssumption
  <2>4. Len(frames) = 1 \/ Len(frames) = 2 \/ Len(frames) = 3
    BY ONLY <1>1
  <2> HIDE DEF s
  <2> QED BY <2>1, <2>2, <2>3, <2>4
<1>4. /\ s \in SUBSET Buses /\ o \in SUBSET Devices
      /\ Top.todo \ {d} \in SUBSET Devices
  <2>1. s \in SUBSET Buses
    <3> HIDE DEF s
    <3> QED BY <1>3, BusKinds
  <2> QED BY <1>1, <2>1 DEF FrameType
<1> HIDE DEF s, o
<1>5. f = [Top EXCEPT !.todo = Top.todo \ {d}, !.old = o, !.subs = s]
  OBVIOUS
<1> HIDE DEF f
<1>6. /\ f \in FrameType /\ f.bus = Top.bus /\ f.todo = Top.todo \ {d}
      /\ f.old = o /\ f.subs = s
  <2>1. Top \in FrameType BY <1>1
  <2> HIDE DEF Top
  <2> QED BY ONLY <2>1, <1>4, <1>5 DEF FrameType
<1>7. FrameAt(Len(frames), f)
  <2>1. CASE Len(frames) = 2 BY <1>1, <1>3, <1>6, <2>1 DEF FrameAt
  <2>2. CASE Len(frames) = 3 BY <1>1, <1>3, <1>6, <2>2 DEF FrameAt
  <2> QED BY <1>3, <2>1, <2>2
<1> QED BY <1>2, <1>6, <1>7 DEF o

\* The variables of the scanner have their types and a stack exists exactly
\* while a scan is under way.
ScannerOK ==
    /\ lock \in {None, "user", "periodic"}
    /\ pc \in {"idle", "dir", "answered", "loop"}
    /\ frames \in Seq(FrameType) /\ Len(frames) <= 3
    /\ outcome \in {"none", "ok", "error", "internal"}
    /\ StackOK
    /\ frames = <<>> <=> pc = "idle"

LEMMA ScannerStays == TypeInv /\ UNCHANGED scanner => ScannerOK'
BY DEF TypeInv, TypeOK, Shape, ScannerOK, scanner, StackOK

LEMMA ScannerEnds ==
    ASSUME NEW how \in {"ok", "error", "internal"}, EndScan(how)
    PROVE  ScannerOK'
BY EndsEmpty DEF ScannerOK

LEMMA ScannerGoesOn ==
    ASSUME TypeInv, pc # "idle", NEW f \in FrameType, FrameAt(Len(frames), f),
           frames' = WithTop(f), pc' \in {"answered", "loop"},
           UNCHANGED <<lock, outcome>>
    PROVE  ScannerOK'
<1>1. /\ frames' \in Seq(FrameType) /\ frames' # <<>> /\ StackOK'
      /\ Len(frames') = Len(frames)
  BY TopGoesOn
<1>2. Len(frames') <= 3 BY <1>1 DEF TypeInv, TypeOK
<1> QED BY <1>1, <1>2 DEF ScannerOK, TypeInv, TypeOK

LEMMA TypeInit == Init => TypeInv
<1> SUFFICES ASSUME Init PROVE TypeInv OBVIOUS
<1>1. frames \in Seq(FrameType) /\ Len(frames) = 0 BY DEF Init
<1>2. StackOK BY <1>1 DEF StackOK
<1>3. Shape BY DEF Init, Shape, Devices
<1>4. TypeOK BY <1>1, TopologyAssumption DEF Init, TypeOK
<1> QED BY <1>2, <1>3, <1>4 DEF TypeInv

LEMMA TypeStarts ==
    ASSUME TypeInv, ScanNow \/ PeriodicScan
    PROVE  TypeInv'
<1>1. CASE ScanNow
  <2>1. /\ frames' = <<Frame(<<>>)>> /\ pc' = "dir" /\ lock' = "user"
        /\ outcome' = "none" /\ UNCHANGED <<world, tree, poller, closing>>
    BY <1>1 DEF ScanNow
  <2> DEFINE g == Frame(<<>>)
  <2>2. g \in FrameType /\ FrameAt(1, g) BY FreshFrame DEF FrameAt
  <2> HIDE DEF g
  <2>3. /\ frames' \in Seq(FrameType) /\ Len(frames') = 1 /\ frames'[1] = g
        /\ frames' # <<>>
    BY <2>1, <2>2 DEF g
  <2>4. StackOK' BY <2>2, <2>3 DEF StackOK
  <2> QED BY <2>1, <2>3, <2>4
       DEF TypeInv, TypeOK, Shape, world, tree, poller
<1>2. CASE PeriodicScan
  BY <1>2 DEF PeriodicScan, TypeInv, TypeOK, Shape, StackOK, world, tree, poller
<1> QED BY <1>1, <1>2

LEMMA TypeWorld ==
    ASSUME TypeInv, Move \/ AdapterChange
    PROVE  TypeInv'
<1>1. moves' \in 0..MaxMoves
  BY TopologyAssumption DEF Move, AdapterChange, TypeInv, TypeOK
<1>2. ScannerOK' BY ScannerStays DEF Move, AdapterChange
<1>3. plug' \in [Devices -> TopBuses \cup (Couplers \X Ports) \cup {None}]
  BY DEF Move, AdapterChange, TypeInv, TypeOK
<1>4. \A c \in Couplers : plug'[c] \in TopBuses \cup {None}
  BY DEF Move, AdapterChange, TypeInv, TypeOK, Shape, Devices
<1>5. up' \subseteq TopBuses
  BY DEF Move, AdapterChange, TypeInv, TypeOK
<1> QED BY <1>1, <1>2, <1>3, <1>4, <1>5
     DEF Move, AdapterChange, TypeInv, TypeOK, ScannerOK, Shape, tree, poller

\* Everything but the scanner.
RestOK ==
    /\ known \subseteq Devices
    /\ busOf \in [Devices -> Buses \cup {None}]
    /\ unseen \in [Devices -> 0..3]
    /\ devs \in [Buses -> (SUBSET Devices) \cup {None}]
    /\ made \subseteq Buses
    /\ subsGone \subseteq Buses \cup {<<>>}
    /\ polls \subseteq Buses
    /\ alarm \in [Buses -> SUBSET Devices]
    /\ closing \in {"open", "cancelled", "freed", "closed"}

LEMMA RestStays == TypeInv /\ UNCHANGED <<tree, poller, closing>> => RestOK'
BY DEF TypeInv, TypeOK, RestOK, tree, poller

LEMMA TypeParts ==
    ASSUME TypeInv, UNCHANGED world, ScannerOK', RestOK'
    PROVE  TypeInv'
<1>1. /\ plug' \in [Devices -> TopBuses \cup (Couplers \X Ports) \cup {None}]
      /\ up' \subseteq TopBuses /\ moves' \in 0..MaxMoves
      /\ \A c \in Couplers : plug'[c] \in TopBuses \cup {None}
  BY DEF TypeInv, TypeOK, Shape, world
<1>2. TypeOK' BY <1>1 DEF ScannerOK, RestOK, TypeOK
<1> QED BY <1>1, <1>2 DEF ScannerOK, TypeInv, Shape

\* What dir() answers fits the activation it is for.
LEMMA AnswerIs ==
    ASSUME TypeInv, DirAnswer
    PROVE  \E f \in FrameType :
             /\ frames' = WithTop(f) /\ FrameAt(Len(frames), f)
             /\ f.bus = Top.bus /\ f.old = Top.old
             /\ f.bus # <<>> => f.todo = Listing(f.bus)
<1>1. pc = "dir" BY DEF DirAnswer
<1>2. Top \in FrameType /\ FrameAt(Len(frames), Top) /\ Len(frames) \in 1..3
  BY <1>1, TopIs
<1>3. CASE Top.bus = <<>> /\ frames' = WithTop([Top EXCEPT !.subs = {<<a>> : a \in up}])
  <2> DEFINE s == {<<a>> : a \in up}
             f == [Top EXCEPT !.subs = s]
  <2>1. s \subseteq TopLevel /\ s \subseteq Buses
    BY DEF TypeInv, TypeOK, TopLevel, Buses
  <2>2. Len(frames) = 1 BY <1>2, <1>3, BusKinds DEF FrameAt
  <2>3. frames' = WithTop(f) BY <1>3
  <2> HIDE DEF s
  <2>4. f = [Top EXCEPT !.subs = s] OBVIOUS
  <2> HIDE DEF f
  <2>5. /\ f \in FrameType /\ f.bus = Top.bus /\ f.todo = Top.todo
        /\ f.old = Top.old /\ f.subs = s
    <3> HIDE DEF Top
    <3> QED BY ONLY <1>2, <2>1, <2>4 DEF FrameType
  <2>6. FrameAt(Len(frames), f)
    BY <1>2, <1>3, <2>1, <2>2, <2>5 DEF FrameAt
  <2> QED BY <1>3, <2>3, <2>5, <2>6
<1>4. CASE Top.bus # <<>> /\ frames' = WithTop([Top EXCEPT !.todo = Listing(Top.bus)])
  <2> DEFINE t == Listing(Top.bus)
             f == [Top EXCEPT !.todo = t]
  <2>1. t \subseteq Devices BY DEF Listing
  <2>2. \/ Len(frames) = 2 /\ Top.bus \in TopLevel
        \/ Len(frames) = 3 /\ Top.bus \in Nested /\ t \subseteq Plain
    <3>1. \/ Len(frames) = 2 /\ Top.bus \in TopLevel
          \/ Len(frames) = 3 /\ Top.bus \in Nested
      BY <1>2, <1>4 DEF FrameAt
    <3> QED BY <3>1, NestedListsPlain
  <2>3. frames' = WithTop(f) BY <1>4
  <2> HIDE DEF t
  <2>4. f = [Top EXCEPT !.todo = t] OBVIOUS
  <2> HIDE DEF f
  <2>5. /\ f \in FrameType /\ f.bus = Top.bus /\ f.todo = t
        /\ f.old = Top.old /\ f.subs = Top.subs
    <3> HIDE DEF Top
    <3> QED BY ONLY <1>2, <2>1, <2>4 DEF FrameType
  <2>6. FrameAt(Len(frames), f)
    <3>1. CASE Len(frames) = 2 BY <1>2, <2>2, <2>5, <3>1 DEF FrameAt
    <3>2. CASE Len(frames) = 3 BY <1>2, <2>2, <2>5, <3>2 DEF FrameAt
    <3> QED BY <2>2, <3>1, <3>2
  <2> QED BY <2>3, <2>5, <2>6 DEF t
<1> QED BY <1>3, <1>4 DEF DirAnswer

\* Reading old_devs.
LEMMA ResumeIs ==
    ASSUME TypeInv, Resume, Top.bus # <<>>, devs[Top.bus] # None
    PROVE  \E f \in FrameType :
             /\ frames' = WithTop(f) /\ FrameAt(Len(frames), f)
             /\ f.bus = Top.bus /\ f.todo = Top.todo /\ f.old = devs[Top.bus]
<1>1. pc = "answered" BY DEF Resume
<1>2. Top \in FrameType /\ FrameAt(Len(frames), Top) /\ Len(frames) \in 1..3
  BY <1>1, TopIs
<1> DEFINE o == devs[Top.bus]
           f == [Top EXCEPT !.old = o]
<1>3. o \in SUBSET Devices
  <2>1. Top.bus \in Buses BY <1>2 DEF FrameType
  <2>2. o \in (SUBSET Devices) \cup {None} BY <2>1 DEF TypeInv, TypeOK
  <2>3. o # None OBVIOUS
  <2> HIDE DEF o
  <2> QED BY <2>2, <2>3
<1>4. frames' = WithTop(f) BY DEF Resume
<1> HIDE DEF o
<1>5. f = [Top EXCEPT !.old = o] OBVIOUS
<1> HIDE DEF f
<1>6. /\ f \in FrameType /\ f.bus = Top.bus /\ f.todo = Top.todo
      /\ f.old = o /\ f.subs = Top.subs
  <2> HIDE DEF Top
  <2> QED BY ONLY <1>2, <1>3, <1>5 DEF FrameType
<1>7. FrameAt(Len(frames), f) BY <1>2, <1>6 DEF FrameAt
<1> QED BY <1>4, <1>6, <1>7 DEF o

LEMMA TypeAnswers ==
    ASSUME TypeInv, DirAnswer \/ DirError \/ Resume \/ FinishScan
    PROVE  TypeInv'
<1>1. UNCHANGED world /\ RestOK'
  BY RestStays DEF DirAnswer, DirError, Resume, FinishScan
<1>2. ScannerOK'
  <2>1. CASE DirAnswer
    <3>1. PICK f \in FrameType :
               frames' = WithTop(f) /\ FrameAt(Len(frames), f)
      BY <2>1, AnswerIs
    <3>2. /\ pc = "dir" /\ pc' = "answered" /\ UNCHANGED <<lock, outcome>>
      BY <2>1 DEF DirAnswer
    <3> QED BY <3>1, <3>2, ScannerGoesOn
  <2>2. CASE DirError BY <2>2, ScannerEnds DEF DirError
  <2>3. CASE Resume
    <3>1. CASE Top.bus = <<>>
      BY <2>3, <3>1 DEF Resume, ScannerOK, TypeInv, TypeOK, StackOK, Shape
    <3>2. CASE Top.bus # <<>> /\ devs[Top.bus] = None
      BY <2>3, <3>2, ScannerEnds DEF Resume
    <3>3. CASE Top.bus # <<>> /\ devs[Top.bus] # None
      <4>1. PICK f \in FrameType :
                 frames' = WithTop(f) /\ FrameAt(Len(frames), f)
        BY <2>3, <3>3, ResumeIs
      <4>2. /\ pc = "answered" /\ pc' = "loop" /\ UNCHANGED <<lock, outcome>>
        BY <2>3, <3>3 DEF Resume
      <4> QED BY <4>1, <4>2, ScannerGoesOn
    <3> QED BY <3>1, <3>2, <3>3
  <2>4. CASE FinishScan BY <2>4, ScannerEnds DEF FinishScan
  <2> QED BY <2>1, <2>2, <2>3, <2>4
<1> QED BY <1>1, <1>2, TypeParts

\* get_bus and the recursive call.
LEMMA VisitIs ==
    ASSUME TypeInv, NEW s \in Buses, VisitBus(s)
    PROVE  \E f \in FrameType :
             /\ FrameAt(Len(frames), f) /\ f.bus = Top.bus
             /\ f.todo = Top.todo /\ f.old = Top.old
             /\ \/ /\ Top.bus \notin subsGone
                   /\ frames' = Append(WithTop(f), Frame(s))
                   /\ FrameAt(Len(frames) + 1, Frame(s))
                   /\ pc' = "dir" /\ UNCHANGED <<lock, outcome>>
                \/ /\ frames' = WithTop(f) /\ UNCHANGED <<pc, lock, outcome>>
                \/ Top.bus \in subsGone /\ EndScan("internal")
<1>1. pc = "loop" /\ s \in Top.subs BY DEF VisitBus
<1>2. Top \in FrameType /\ FrameAt(Len(frames), Top) /\ Len(frames) \in 1..3
  BY <1>1, TopIs
<1> DEFINE r == Top.subs \ {s}
           f == [Top EXCEPT !.subs = r]
<1>3. r \in SUBSET Buses /\ r \subseteq Top.subs BY <1>2 DEF FrameType
<1>4. \/ /\ Top.bus \notin subsGone
         /\ frames' = Append(WithTop(f), Frame(s))
         /\ pc' = "dir" /\ UNCHANGED <<lock, outcome>>
      \/ /\ frames' = WithTop(f) /\ UNCHANGED <<pc, lock, outcome>>
      \/ Top.bus \in subsGone /\ EndScan("internal")
  BY DEF VisitBus
<1> HIDE DEF r
<1>5. f = [Top EXCEPT !.subs = r] OBVIOUS
<1> HIDE DEF f
<1>6. /\ f \in FrameType /\ f.bus = Top.bus /\ f.todo = Top.todo
      /\ f.old = Top.old /\ f.subs = r
  <2> HIDE DEF Top
  <2> QED BY ONLY <1>2, <1>3, <1>5 DEF FrameType
<1>7. FrameAt(Len(frames), f) BY <1>2, <1>3, <1>6 DEF FrameAt
<1>8. FrameAt(Len(frames) + 1, Frame(s))
  <2>1. \/ Len(frames) = 1 /\ s \in TopLevel
        \/ Len(frames) = 2 /\ s \in Nested
    BY <1>1, <1>2 DEF FrameAt
  <2>2. /\ Frame(s).bus = s /\ Frame(s).todo = {} /\ Frame(s).old = {}
        /\ Frame(s).subs = {}
    BY FreshFrame
  <2>3. CASE Len(frames) = 1 BY <2>1, <2>2, <2>3 DEF FrameAt
  <2>4. CASE Len(frames) = 2 BY <2>1, <2>2, <2>4 DEF FrameAt
  <2> QED BY <2>1, <2>3, <2>4
<1> QED BY <1>4, <1>6, <1>7, <1>8

LEMMA TypeVisits ==
    ASSUME TypeInv, NEW s \in Buses, VisitBus(s)
    PROVE  TypeInv'
<1>1. UNCHANGED world /\ RestOK'
  BY DEF VisitBus, RestOK, TypeInv, TypeOK, poller
<1>2. pc = "loop" BY DEF VisitBus
<1>3. PICK f \in FrameType :
        /\ FrameAt(Len(frames), f)
        /\ \/ /\ frames' = Append(WithTop(f), Frame(s))
              /\ FrameAt(Len(frames) + 1, Frame(s))
              /\ pc' = "dir" /\ UNCHANGED <<lock, outcome>>
           \/ frames' = WithTop(f) /\ UNCHANGED <<pc, lock, outcome>>
           \/ EndScan("internal")
  BY VisitIs
<1>4. ScannerOK'
  <2>1. CASE /\ frames' = Append(WithTop(f), Frame(s))
             /\ FrameAt(Len(frames) + 1, Frame(s))
             /\ pc' = "dir" /\ UNCHANGED <<lock, outcome>>
    <3>1. Frame(s) \in FrameType BY FreshFrame
    <3>2. /\ frames' \in Seq(FrameType) /\ frames' # <<>> /\ StackOK'
          /\ Len(frames') = Len(frames) + 1
      BY <1>2, <1>3, <2>1, <3>1, TopCalls
    <3>3. Len(frames') <= 3
      <4>1. Len(frames) \in 1..3 BY <1>2, TopIs
      <4>2. Len(frames) + 1 = 1 \/ Len(frames) + 1 = 2 \/ Len(frames) + 1 = 3
        BY <2>1 DEF FrameAt
      <4> QED BY <3>2, <4>1, <4>2
    <3> QED BY <2>1, <3>2, <3>3 DEF ScannerOK, TypeInv, TypeOK
  <2>2. CASE frames' = WithTop(f) /\ UNCHANGED <<pc, lock, outcome>>
    BY <1>2, <1>3, <2>2, ScannerGoesOn
  <2>3. CASE EndScan("internal") BY <2>3, ScannerEnds
  <2> QED BY <1>3, <2>1, <2>2, <2>3
<1> QED BY <1>1, <1>4, TypeParts

LEMMA TypeFinds ==
    ASSUME TypeInv, NEW d \in Devices, FindDevice(d)
    PROVE  TypeInv'
<1>1. pc = "loop" /\ d \in Top.todo BY DEF FindDevice
<1>2. Top \in FrameType /\ FrameAt(Len(frames), Top) /\ Len(frames) \in 1..3
  BY <1>1, TopIs
<1>3. Top.bus \in Buses
  <2>1. Top.bus \in TopLevel \/ Top.bus \in Nested BY <1>1, <1>2 DEF FrameAt
  <2> QED BY <2>1, BusKinds
<1>4. RestOK'
  <2>1. known' \subseteq Devices BY DEF FindDevice, TypeInv, TypeOK
  <2>2. busOf' \in [Devices -> Buses \cup {None}]
    BY <1>3 DEF FindDevice, LocateAt, TypeInv, TypeOK
  <2>3. unseen' \in [Devices -> 0..3]
    BY DEF FindDevice, TypeInv, TypeOK
  <2>4. devs' \in [Buses -> (SUBSET Devices) \cup {None}]
    <3>1. CASE devs' = devs BY <3>1 DEF TypeInv, TypeOK
    <3>2. CASE devs[Top.bus] # None /\ AddTo(d, Top.bus)
      <4>1. devs[Top.bus] \cup {d} \in SUBSET Devices
        <5>1. devs[Top.bus] \in (SUBSET Devices) \cup {None}
          BY <1>3 DEF TypeInv, TypeOK
        <5> QED BY <3>2, <5>1
      <4> QED BY <3>2, <4>1 DEF AddTo, TypeInv, TypeOK
    <3> QED BY <3>1, <3>2 DEF FindDevice
  <2> QED BY <2>1, <2>2, <2>3, <2>4
       DEF FindDevice, RestOK, TypeInv, TypeOK, poller
<1>5. ScannerOK'
  <2>1. CASE Found(d) /\ UNCHANGED <<pc, lock, outcome>>
    <3>1. PICK f \in FrameType :
               frames' = WithTop(f) /\ FrameAt(Len(frames), f)
      BY <1>1, <2>1, FoundIs
    <3> QED BY <1>1, <2>1, <3>1, ScannerGoesOn
  <2>2. CASE EndScan("internal") BY <2>2, ScannerEnds
  <2> QED BY <2>1, <2>2 DEF FindDevice
<1>6. UNCHANGED world BY DEF FindDevice
<1> QED BY <1>4, <1>5, <1>6, TypeParts

LEMMA TypeFinishes ==
    ASSUME TypeInv, FinishBus
    PROVE  TypeInv'
<1>1. pc = "loop" /\ Top.bus # <<>> BY DEF FinishBus
<1>2. Top \in FrameType BY <1>1, TopIs
<1>3. Top.bus \in Buses BY <1>1, <1>2 DEF FrameType
<1> DEFINE b == Top.bus
           lost == {d \in Top.old : unseen[d] = 3 /\ busOf[d] = b}
<1>4. \/ EndScan("internal") /\ UNCHANGED <<unseen, busOf, devs, poller>>
      \/ /\ Top.old = {} \/ devs[b] # None
         /\ unseen' = [d \in Devices |->
              IF d \in Top.old /\ unseen[d] < 3 THEN unseen[d] + 1
                                                ELSE unseen[d]]
         /\ busOf' = [d \in Devices |-> IF d \in lost THEN None ELSE busOf[d]]
         /\ devs' = IF lost = {} THEN devs
                    ELSE [devs EXCEPT ![b] = @ \ lost]
         /\ UpdatePoll(b, devs'[b])
         /\ frames' = Front(frames)
         /\ UNCHANGED <<pc, lock, outcome>>
  BY DEF FinishBus
<1>5. /\ UNCHANGED <<world, known, made, subsGone, closing>>
  BY DEF FinishBus
<1>6. CASE EndScan("internal") /\ UNCHANGED <<unseen, busOf, devs, poller>>
  <2>1. RestOK' BY <1>5, <1>6 DEF RestOK, TypeInv, TypeOK, poller
  <2>2. ScannerOK' BY <1>6, ScannerEnds
  <2> QED BY <1>5, <2>1, <2>2, TypeParts
<1>7. CASE ~(EndScan("internal") /\ UNCHANGED <<unseen, busOf, devs, poller>>)
  <2>1. ScannerOK'
    <3>1. /\ frames' \in Seq(FrameType) /\ frames' # <<>> /\ StackOK'
          /\ Len(frames') = Len(frames) - 1
      BY <1>1, <1>4, <1>7, TopReturns
    <3>2. Len(frames') <= 3
      <4>1. Len(frames) \in 1..3 BY <1>1, TopIs
      <4> QED BY <3>1, <4>1
    <3> QED BY <1>1, <1>4, <1>7, <3>1, <3>2 DEF ScannerOK, TypeInv, TypeOK
  <2>2. lost \subseteq Top.old /\ Top.old \in SUBSET Devices
    BY <1>2 DEF FrameType
  <2>3. devs' \in [Buses -> (SUBSET Devices) \cup {None}]
    <3>1. CASE lost = {} BY <1>4, <1>7, <3>1 DEF TypeInv, TypeOK
    <3>2. CASE lost # {}
      <4>1. devs[b] \in (SUBSET Devices) \cup {None}
        BY <1>3 DEF TypeInv, TypeOK
      <4>2. devs[b] # None BY <1>4, <1>7, <2>2, <3>2
      <4>3. devs' = [devs EXCEPT ![b] = @ \ lost] BY <1>4, <1>7, <3>2
      <4> HIDE DEF b, lost
      <4> QED BY <4>1, <4>2, <4>3 DEF TypeInv, TypeOK
    <3> QED BY <3>1, <3>2
  <2>4. unseen' \in [Devices -> 0..3]
    BY <1>4, <1>7 DEF TypeInv, TypeOK
  <2>5. busOf' \in [Devices -> Buses \cup {None}]
    <3> HIDE DEF lost
    <3> QED BY <1>4, <1>7 DEF TypeInv, TypeOK
  <2>6. polls' \subseteq Buses /\ alarm' \in [Buses -> SUBSET Devices]
    BY <1>3, <1>4, <1>7 DEF UpdatePoll, TypeInv, TypeOK
  <2>7. RestOK'
    BY <1>5, <2>3, <2>4, <2>5, <2>6 DEF RestOK, TypeInv, TypeOK
  <2> QED BY <1>5, <2>1, <2>7, TypeParts
<1> QED BY <1>6, <1>7

LEMMA TypeAlarms ==
    ASSUME TypeInv, NEW b \in Buses,
           AlarmListing(b) \/ (\E d \in Devices : AlarmDevice(b, d))
    PROVE  TypeInv'
<1>1. CASE AlarmListing(b)
  <2>1. UNCHANGED world /\ ScannerOK'
    BY <1>1, ScannerStays DEF AlarmListing
  <2>2. alarm' \in [Buses -> SUBSET Devices]
    <3>1. Listing(b) \subseteq Devices BY DEF Listing
    <3> QED BY <1>1, <3>1 DEF AlarmListing, TypeInv, TypeOK
  <2>3. RestOK'
    BY <1>1, <2>2 DEF AlarmListing, RestOK, TypeInv, TypeOK, tree
  <2> QED BY <2>1, <2>3, TypeParts
<1>2. ASSUME NEW d \in Devices, AlarmDevice(b, d) PROVE TypeInv'
  <2>1. UNCHANGED world /\ ScannerOK'
    BY <1>2, ScannerStays DEF AlarmDevice
  <2>2. known' \subseteq Devices /\ busOf' \in [Devices -> Buses \cup {None}]
    BY <1>2 DEF AlarmDevice, LocateAt, TypeInv, TypeOK
  <2>3. devs' \in [Buses -> (SUBSET Devices) \cup {None}]
    <3>1. CASE devs' = devs BY <3>1 DEF TypeInv, TypeOK
    <3>2. CASE devs[b] # None /\ AddTo(d, b)
      <4>1. devs[b] \cup {d} \in SUBSET Devices
        BY <3>2 DEF TypeInv, TypeOK
      <4> QED BY <3>2, <4>1 DEF AddTo, TypeInv, TypeOK
    <3> QED BY <1>2, <3>1, <3>2 DEF AlarmDevice
  <2>4. polls' \subseteq Buses /\ alarm' \in [Buses -> SUBSET Devices]
    <3>1. PICK r \in SUBSET Devices : alarm' = [alarm EXCEPT ![b] = r]
      <4>1. alarm[b] \ {d} \in SUBSET Devices /\ {} \in SUBSET Devices
        BY DEF TypeInv, TypeOK
      <4> QED BY <1>2, <4>1 DEF AlarmDevice
    <3> QED BY <1>2, <3>1 DEF AlarmDevice, TypeInv, TypeOK
  <2>5. RestOK'
    BY <1>2, <2>2, <2>3, <2>4 DEF AlarmDevice, RestOK, TypeInv, TypeOK
  <2> QED BY <2>1, <2>5, TypeParts
<1> QED BY <1>1, <1>2

LEMMA TypeCloses ==
    ASSUME TypeInv, CloseStep
    PROVE  TypeInv'
<1>1. CASE CloseCancel
  <2>1. ScannerOK'
    BY <1>1 DEF CloseCancel, ScannerOK, StackOK, TypeInv, TypeOK, Shape
  <2>2. RestOK' BY <1>1 DEF CloseCancel, RestOK, TypeInv, TypeOK, tree, poller
  <2> QED BY <1>1, <2>1, <2>2, TypeParts DEF CloseCancel
<1>2. CASE CloseFree
  <2>1. ScannerOK' BY <1>2, ScannerStays DEF CloseFree
  <2>2. busOf' \in [Devices -> Buses \cup {None}]
    BY <1>2 DEF CloseFree, TypeInv, TypeOK
  <2>3. devs' \in [Buses -> (SUBSET Devices) \cup {None}]
    BY <1>2 DEF CloseFree, TypeInv, TypeOK
  <2>4. subsGone' \subseteq Buses \cup {<<>>}
    BY <1>2 DEF CloseFree, TypeInv, TypeOK
  <2>5. RestOK'
    BY <1>2, <2>2, <2>3, <2>4 DEF CloseFree, RestOK, TypeInv, TypeOK, poller
  <2> QED BY <1>2, <2>1, <2>5, TypeParts DEF CloseFree
<1>3. CASE CloseFail
  <2>1. ScannerOK' BY <1>3, ScannerStays, ScannerEnds DEF CloseFail
  <2>2. RestOK' BY <1>3 DEF CloseFail, RestOK, TypeInv, TypeOK, tree, poller
  <2> QED BY <1>3, <2>1, <2>2, TypeParts DEF CloseFail
<1> QED BY <1>1, <1>2, <1>3 DEF CloseStep

LEMMA TypeStep == TypeInv /\ [Next]_vars => TypeInv'
<1> SUFFICES ASSUME TypeInv, [Next]_vars PROVE TypeInv' OBVIOUS
<1>1. CASE ScanNow \/ PeriodicScan BY <1>1, TypeStarts
<1>2. CASE Move \/ AdapterChange BY <1>2, TypeWorld
<1>3. CASE ScanStep
  <2>1. CASE DirAnswer \/ DirError \/ Resume \/ FinishScan
    BY <2>1, TypeAnswers
  <2>2. CASE FinishBus BY <2>2, TypeFinishes
  <2>3. CASE \E d \in Devices : FindDevice(d) BY <2>3, TypeFinds
  <2>4. CASE \E s \in Buses : VisitBus(s) BY <2>4, TypeVisits
  <2> QED BY <1>3, <2>1, <2>2, <2>3, <2>4 DEF ScanStep
<1>4. CASE AlarmStep BY <1>4, TypeAlarms DEF AlarmStep
<1>5. CASE CloseStep BY <1>5, TypeCloses
<1>6. CASE UNCHANGED vars
  BY <1>6, ScannerStays, RestStays, TypeParts
     DEF vars, world, tree, scanner, poller
<1> QED BY <1>1, <1>2, <1>3, <1>4, <1>5, <1>6 DEF Next, Done

\* Every variable keeps its type, and the stack of a scan is a chain of
\* activations: the server, an adapter's bus, a bus of a coupler on it.
THEOREM TypeCorrect == Spec => []TypeOK
<1>1. TypeInv => TypeOK BY DEF TypeInv
<1> QED BY <1>1, TypeInit, TypeStep, PTL DEF Spec

-----------------------------------------------------------------------------
(* Devices are listed by their buses.                                      *)

\* aclose() is the only one to free the dicts of a bus.
NotFreed ==
    closing \in {"open", "cancelled"} =>
        subsGone = {} /\ \A b \in Buses : devs[b] # None

ListInv == NotFreed /\ ListedByItsBus

LEMMA ListInit == Init => ListInv
BY TopologyAssumption DEF Init, ListInv, NotFreed, ListedByItsBus

LEMMA NotFreedStep == TypeInv /\ NotFreed /\ [Next]_vars => NotFreed'
<1> SUFFICES ASSUME TypeInv, NotFreed, [Next]_vars PROVE NotFreed' OBVIOUS
<1>1. CASE UNCHANGED <<devs, subsGone>> /\ closing' = closing
  BY <1>1 DEF NotFreed
<1>2. CASE CloseStep
  BY <1>2 DEF CloseStep, CloseCancel, CloseFree, CloseFail, NotFreed, tree
<1>3. CASE /\ UNCHANGED <<subsGone, closing>>
           /\ \/ devs' = devs
              \/ \E b \in Buses, s \in SUBSET Devices :
                   devs' = [devs EXCEPT ![b] = s]
  <2>1. \A s \in SUBSET Devices : s # None BY TopologyAssumption
  <2> QED BY <1>3, <2>1 DEF NotFreed, TypeInv, TypeOK
<1>4. CASE ScanStep
  <2>1. CASE DirAnswer \/ DirError \/ Resume \/ FinishScan \/ \E s \in Buses : VisitBus(s)
    BY <1>1, <2>1 DEF DirAnswer, DirError, Resume, FinishScan, VisitBus, tree
  <2>2. ASSUME NEW d \in Devices, FindDevice(d) PROVE NotFreed'
    <3>1. Top.bus \in Buses /\ d \in Devices
      <4>1. pc = "loop" /\ d \in Top.todo BY <2>2 DEF FindDevice
      <4>2. FrameAt(Len(frames), Top) BY <4>1, TopIs
      <4>3. Top.bus \in TopLevel \/ Top.bus \in Nested
        BY <4>1, <4>2 DEF FrameAt
      <4> QED BY <4>3, BusKinds
    <3>2. devs' = devs \/ (devs[Top.bus] # None /\ AddTo(d, Top.bus))
      BY <2>2 DEF FindDevice
    <3>3. devs[Top.bus] # None => devs[Top.bus] \cup {d} \in SUBSET Devices
      BY <3>1 DEF TypeInv, TypeOK
    <3>4. UNCHANGED <<subsGone, closing>> BY <2>2 DEF FindDevice
    <3> QED BY <1>3, <3>1, <3>2, <3>3, <3>4 DEF AddTo
  <2>3. CASE FinishBus
    <3>1. pc = "loop" /\ Top.bus # <<>> BY <2>3 DEF FinishBus
    <3>2. Top.bus \in Buses BY <3>1, TopIs DEF FrameType
    <3>3. UNCHANGED <<subsGone, closing>> BY <2>3 DEF FinishBus
    <3>4. \/ devs' = devs
          \/ \E l : /\ devs[Top.bus] # None
                    /\ devs' = [devs EXCEPT ![Top.bus] = @ \ l]
      <4> DEFINE lost == {d \in Top.old : unseen[d] = 3 /\ busOf[d] = Top.bus}
      <4>1. \/ devs' = devs
            \/ /\ Top.old = {} \/ devs[Top.bus] # None
               /\ lost # {} /\ devs' = [devs EXCEPT ![Top.bus] = @ \ lost]
        BY <2>3 DEF FinishBus
      <4>2. lost # {} => Top.old # {} OBVIOUS
      <4> HIDE DEF lost
      <4> QED BY <4>1, <4>2
    <3>5. \A l : devs[Top.bus] # None => devs[Top.bus] \ l \in SUBSET Devices
      BY <3>2 DEF TypeInv, TypeOK
    <3> QED BY <1>3, <3>2, <3>3, <3>4, <3>5
  <2> QED BY <1>4, <2>1, <2>2, <2>3 DEF ScanStep
<1>5. ASSUME NEW b \in Buses, NEW d \in Devices, AlarmDevice(b, d)
      PROVE  NotFreed'
  <2>1. devs' = devs \/ (devs[b] # None /\ AddTo(d, b))
    BY <1>5 DEF AlarmDevice
  <2>2. devs[b] # None => devs[b] \cup {d} \in SUBSET Devices
    BY DEF TypeInv, TypeOK
  <2>3. UNCHANGED <<subsGone, closing>> BY <1>5 DEF AlarmDevice
  <2> QED BY <1>3, <2>1, <2>2, <2>3 DEF AddTo
<1>6. CASE \E b \in Buses : AlarmListing(b)
  BY <1>1, <1>6 DEF AlarmListing, tree
<1>7. CASE ScanNow \/ PeriodicScan \/ Move \/ AdapterChange \/ UNCHANGED vars
  BY <1>1, <1>7 DEF ScanNow, PeriodicScan, Move, AdapterChange, vars, tree
<1> QED BY <1>2, <1>4, <1>5, <1>6, <1>7 DEF Next, AlarmStep, Done

LEMMA ListStep == TypeInv /\ ListInv /\ [Next]_vars => ListInv'
<1> SUFFICES ASSUME TypeInv, ListInv, [Next]_vars PROVE ListInv' OBVIOUS
<1>1. NotFreed' BY NotFreedStep DEF ListInv
<1> SUFFICES ASSUME closing' = "open" PROVE ListedByItsBus'
  BY <1>1 DEF ListInv, ListedByItsBus
<1>2. closing = "open" /\ ~CloseStep
  BY DEF Next, vars, CloseStep, CloseCancel, CloseFree, CloseFail, ScanNow,
         PeriodicScan, ScanStep, DirAnswer, DirError, Resume, FinishBus,
         FinishScan, FindDevice, VisitBus, AlarmStep, AlarmListing,
         AlarmDevice, Move, AdapterChange, Done
<1>3. /\ \A b \in Buses : devs[b] # None /\ devs'[b] # None
      /\ \A d \in Devices : busOf[d] # None => d \in devs[busOf[d]]
  BY <1>1, <1>2 DEF ListInv, NotFreed, ListedByItsBus
<1>4. CASE UNCHANGED <<busOf, devs>>
  BY <1>2, <1>4 DEF ListInv, ListedByItsBus
<1>5. ASSUME NEW d \in Devices, NEW b \in Buses, LocateAt(d, b), AddTo(d, b)
      PROVE  ListedByItsBus'
  <2> SUFFICES ASSUME NEW k \in Devices, busOf'[k] # None
               PROVE  k \in devs'[busOf'[k]] /\ devs'[busOf'[k]] # None
    BY DEF ListedByItsBus
  <2>1. busOf'[k] \in Buses BY TypeStep DEF TypeInv, TypeOK
  <2>2. CASE k = d BY <1>3, <1>5, <2>1, <2>2 DEF LocateAt, AddTo, TypeInv, TypeOK
  <2>3. CASE k # d
    BY <1>3, <1>5, <2>1, <2>3 DEF LocateAt, AddTo, TypeInv, TypeOK
  <2> QED BY <2>2, <2>3
<1>6. ASSUME NEW d \in Devices, FindDevice(d) PROVE ListedByItsBus'
  <2>1. Top.bus \in Buses
    <3>1. pc = "loop" /\ d \in Top.todo BY <1>6 DEF FindDevice
    <3>2. FrameAt(Len(frames), Top) BY <3>1, TopIs
    <3>3. Top.bus \in TopLevel \/ Top.bus \in Nested BY <3>1, <3>2 DEF FrameAt
    <3> QED BY <3>3, BusKinds
  <2>2. \/ UNCHANGED <<busOf, devs>>
        \/ LocateAt(d, Top.bus) /\ AddTo(d, Top.bus)
    BY <1>3, <1>6, <2>1 DEF FindDevice
  <2> QED BY <1>4, <1>5, <2>1, <2>2
<1>7. CASE FinishBus
  <2>1. pc = "loop" /\ Top.bus # <<>> BY <1>7 DEF FinishBus
  <2>2. Top.bus \in Buses BY <2>1, TopIs DEF FrameType
  <2> DEFINE b == Top.bus
             lost == {d \in Top.old : unseen[d] = 3 /\ busOf[d] = b}
  <2>3. \/ UNCHANGED <<busOf, devs>>
        \/ /\ busOf' = [d \in Devices |-> IF d \in lost THEN None ELSE busOf[d]]
           /\ devs' = IF lost = {} THEN devs
                      ELSE [devs EXCEPT ![b] = @ \ lost]
    BY <1>7 DEF FinishBus
  <2> SUFFICES ASSUME NEW k \in Devices, busOf'[k] # None,
                      busOf' = [d \in Devices |-> IF d \in lost THEN None ELSE busOf[d]],
                      devs' = IF lost = {} THEN devs
                              ELSE [devs EXCEPT ![b] = @ \ lost]
               PROVE  k \in devs'[busOf'[k]]
    <3> HIDE DEF lost
    <3>1. \A k \in Devices : busOf'[k] # None => busOf'[k] \in Buses
      BY TypeStep DEF TypeInv, TypeOK
    <3> QED BY <1>3, <1>4, <2>3, <3>1 DEF ListedByItsBus
  <2>4. k \notin lost /\ busOf'[k] = busOf[k] /\ busOf[k] \in Buses
    <3> HIDE DEF lost
    <3> QED BY DEF TypeInv, TypeOK
  <2>5. k \in devs[busOf[k]] BY <1>3, <2>4
  <2> HIDE DEF lost
  <2>6. devs'[busOf[k]] = devs[busOf[k]] \/ devs'[busOf[k]] = devs[busOf[k]] \ lost
    BY <2>2, <2>4 DEF TypeInv, TypeOK
  <2> QED BY <2>4, <2>5, <2>6
<1>8. ASSUME NEW b \in Buses, NEW d \in Devices, AlarmDevice(b, d)
      PROVE  ListedByItsBus'
  <2>1. LocateAt(d, b) /\ AddTo(d, b)
    BY <1>3, <1>8 DEF AlarmDevice
  <2> QED BY <1>5, <2>1
<1>9. CASE \/ ScanNow \/ PeriodicScan \/ Move \/ AdapterChange \/ UNCHANGED vars
           \/ DirAnswer \/ DirError \/ Resume \/ FinishScan
           \/ \E s \in Buses : VisitBus(s)
           \/ \E b \in Buses : AlarmListing(b)
  BY <1>4, <1>9 DEF ScanNow, PeriodicScan, Move, AdapterChange, vars, tree,
                    DirAnswer, DirError, Resume, FinishScan, VisitBus, AlarmListing
<1> QED BY <1>2, <1>6, <1>7, <1>8, <1>9 DEF Next, ScanStep, AlarmStep, Done

\* A located device is in the list of its bus, from which delocate() will
\* take it and over which polls iterate, as long as the server is open.
THEOREM LocatedIsListed == Spec => []ListedByItsBus
<1>1. ListInv => ListedByItsBus BY DEF ListInv
<1> QED BY <1>1, TypeInit, TypeStep, ListInit, ListStep, PTL DEF Spec

-----------------------------------------------------------------------------
(* What breaks a scan.                                                     *)

\* A poll that has devices left to look at has a task.
PollsWork == \A b \in Buses : alarm[b] # {} => b \in polls

\* While the server is open: once an activation of _scan_one has read
\* old_devs, every listed device that is on the bus is one of old_devs, or
\* alarms are polled on that bus.
Expected(f) ==
    \A k \in f.todo : busOf[k] = f.bus => k \in f.old \/ f.bus \in polls

OldCovers ==
    closing = "open" =>
        \A i \in 1..Len(frames) :
            i < Len(frames) \/ pc = "loop" => Expected(frames[i])

ExpectInv == PollsWork /\ OldCovers

LEMMA ExpectInit == Init => ExpectInv
<1> SUFFICES ASSUME Init PROVE ExpectInv OBVIOUS
<1>1. Len(frames) = 0 BY DEF Init
<1>2. PollsWork BY DEF Init, PollsWork
<1>3. OldCovers BY <1>1 DEF OldCovers
<1> QED BY <1>2, <1>3 DEF ExpectInv

\* Activations on the same stack work on different buses.
LEMMA OtherBuses ==
    ASSUME TypeInv, pc # "idle", NEW i \in 1..(Len(frames) - 1)
    PROVE  /\ frames[i].bus # Top.bus
           /\ frames[i].todo # {} => frames[i].bus # None
<1>1. /\ Len(frames) \in 1..3 /\ FrameAt(Len(frames), Top)
      /\ frames \in Seq(FrameType)
  BY TopIs
<1>2. \A n \in 1..3 : \A j \in 1..(n - 1) :
        /\ j \in 1..n
        /\ (j = 1 /\ n = 2) \/ (j = 1 /\ n = 3) \/ (j = 2 /\ n = 3)
  OBVIOUS
<1>3. /\ i \in 1..Len(frames)
      /\ \/ i = 1 /\ Len(frames) = 2
         \/ i = 1 /\ Len(frames) = 3
         \/ i = 2 /\ Len(frames) = 3
  BY <1>1, <1>2
<1>4. FrameAt(i, frames[i]) BY <1>3 DEF TypeInv, StackOK
<1>5. CASE i = 1 /\ Len(frames) = 2 BY <1>1, <1>4, <1>5, BusKinds DEF FrameAt
<1>6. CASE i = 1 /\ Len(frames) = 3 BY <1>1, <1>4, <1>6, BusKinds DEF FrameAt
<1>7. CASE i = 2 /\ Len(frames) = 3 BY <1>1, <1>4, <1>7, BusKinds DEF FrameAt
<1> QED BY <1>3, <1>5, <1>6, <1>7

\* The bus whose listing is being worked off.
LEMMA EntryBus ==
    ASSUME TypeInv, NEW d, FindDevice(d)
    PROVE  pc = "loop" /\ d \in Top.todo /\ Top.bus \in Buses
<1>1. pc = "loop" /\ d \in Top.todo BY DEF FindDevice
<1>2. FrameAt(Len(frames), Top) BY <1>1, TopIs
<1>3. Top.bus \in TopLevel \/ Top.bus \in Nested BY <1>1, <1>2 DEF FrameAt
<1> QED BY <1>1, <1>3, BusKinds

LEMMA PollsWorkStep == TypeInv /\ PollsWork /\ [Next]_vars => PollsWork'
<1> SUFFICES ASSUME TypeInv, PollsWork, [Next]_vars PROVE PollsWork' OBVIOUS
<1>1. CASE UNCHANGED poller BY <1>1 DEF poller, PollsWork
<1>2. CASE FinishBus
  <2>1. Top.bus \in Buses
    <3>1. pc = "loop" /\ Top.bus # <<>> BY <1>2 DEF FinishBus
    <3> QED BY <3>1, TopIs DEF FrameType
  <2>2. \/ UNCHANGED poller
        \/ polls' = polls \cup {Top.bus} /\ UNCHANGED alarm
        \/ polls' = polls \ {Top.bus} /\ alarm' = [alarm EXCEPT ![Top.bus] = {}]
    BY <1>2 DEF FinishBus, UpdatePoll
  <2> QED BY <1>1, <2>1, <2>2 DEF PollsWork, TypeInv, TypeOK
<1>3. ASSUME NEW b \in Buses, AlarmListing(b) PROVE PollsWork'
  BY <1>3 DEF AlarmListing, PollsWork, TypeInv, TypeOK
<1>4. ASSUME NEW b \in Buses, NEW d \in Devices, AlarmDevice(b, d)
      PROVE  PollsWork'
  <2>1. b \in polls BY <1>4 DEF AlarmDevice, PollsWork
  <2>2. \/ polls' = polls /\ \E r : alarm' = [alarm EXCEPT ![b] = r]
        \/ polls' = polls \ {b} /\ alarm' = [alarm EXCEPT ![b] = {}]
    BY <1>4 DEF AlarmDevice
  <2> QED BY <2>1, <2>2 DEF PollsWork, TypeInv, TypeOK
<1>5. CASE \/ ScanNow \/ PeriodicScan \/ Move \/ AdapterChange \/ UNCHANGED vars
           \/ DirAnswer \/ DirError \/ Resume \/ FinishScan \/ CloseStep
           \/ \E s \in Buses : VisitBus(s)
           \/ \E d \in Devices : FindDevice(d)
  BY <1>1, <1>5 DEF ScanNow, PeriodicScan, Move, AdapterChange, vars, CloseStep,
      CloseCancel, CloseFree, CloseFail, DirAnswer, DirError, Resume, FinishScan,
      VisitBus, FindDevice
<1> QED BY <1>2, <1>3, <1>4, <1>5 DEF Next, ScanStep, AlarmStep, Done

\* Expected(f) after the step.
ExpectedNext(f) ==
    \A k \in f.todo : busOf'[k] = f.bus => k \in f.old \/ f.bus \in polls'

LEMMA CoversAfter ==
    ASSUME closing' = "open" =>
             \A i \in 1..Len(frames') :
               i < Len(frames') \/ pc' = "loop" => ExpectedNext(frames'[i])
    PROVE  OldCovers'
BY DEF OldCovers, Expected, ExpectedNext

\* The activations under the innermost one.
LEMMA LowerCovered ==
    ASSUME TypeInv, OldCovers, closing = "open", pc # "idle",
           NEW i \in 1..(Len(frames) - 1)
    PROVE  Expected(frames[i]) /\ \A k \in frames[i].todo : k \in Devices
<1>1. Len(frames) \in Nat /\ frames \in Seq(FrameType) BY TopIs
<1>2. i \in 1..Len(frames) /\ i < Len(frames) BY <1>1
<1>3. frames[i] \in FrameType BY <1>1, <1>2
<1> QED BY <1>2, <1>3 DEF OldCovers, FrameType

\* A step that ends the scan, or leaves what is expected alone.
LEMMA CoversEnds ==
    ASSUME frames' = <<>> PROVE OldCovers'
<1>1. Len(frames') = 0 OBVIOUS
<1> QED BY <1>1, CoversAfter

LEMMA CoversQuiet ==
    ASSUME TypeInv, OldCovers,
           UNCHANGED <<frames, pc, busOf, polls, closing>>
    PROVE  OldCovers'
BY DEF OldCovers, Expected

\* The innermost activation goes on; what is on its bus may have changed.
LEMMA CoversGoesOn ==
    ASSUME TypeInv, OldCovers, closing = "open", pc # "idle",
           NEW f \in FrameType, FrameAt(Len(frames), f), frames' = WithTop(f),
           \A i \in 1..(Len(frames) - 1) :
             Expected(frames[i]) => ExpectedNext(frames[i]),
           pc' = "loop" => ExpectedNext(f)
    PROVE  OldCovers'
<1>1. /\ Len(frames') = Len(frames) /\ frames'[Len(frames)] = f
      /\ \A i \in 1..(Len(frames) - 1) : frames'[i] = frames[i]
  BY TopGoesOn
<1>2. Len(frames) \in Nat BY TopIs
<1>3. \A i \in 1..Len(frames') : i = Len(frames) \/ i \in 1..(Len(frames) - 1)
  BY ONLY <1>1, <1>2
<1>4. ASSUME NEW i \in 1..Len(frames'), i < Len(frames') \/ pc' = "loop"
      PROVE  ExpectedNext(frames'[i])
  <2>1. CASE i = Len(frames)
    <3>1. pc' = "loop" BY <1>1, <1>2, <1>4, <2>1
    <3> QED BY <1>1, <2>1, <3>1
  <2>2. CASE i \in 1..(Len(frames) - 1)
    <3>1. Expected(frames[i]) BY <2>2, LowerCovered
    <3> QED BY <1>1, <2>2, <3>1
  <2> QED BY <1>3, <2>1, <2>2
<1> QED BY <1>4, CoversAfter

LEMMA CoversFind ==
    ASSUME TypeInv, ListInv, OldCovers, closing = "open",
           NEW d \in Devices, FindDevice(d)
    PROVE  OldCovers'
<1>1. pc = "loop" /\ d \in Top.todo /\ Top.bus \in Buses BY EntryBus
<1>2. CASE EndScan("internal") BY <1>2, CoversEnds DEF EndScan
<1>3. CASE Found(d) /\ (busOf' = busOf \/ LocateAt(d, Top.bus))
  <2>1. PICK f \in FrameType :
             /\ frames' = WithTop(f) /\ FrameAt(Len(frames), f)
             /\ f.bus = Top.bus /\ f.todo = Top.todo \ {d}
             /\ f.old = IF busOf[d] = Top.bus THEN Top.old \ {d} ELSE Top.old
    BY <1>1, <1>3, FoundIs
  <2>2. \A k \in Devices : k # d => busOf'[k] = busOf[k]
    BY <1>3 DEF LocateAt, TypeInv, TypeOK
  <2>3. busOf'[d] = busOf[d] \/ busOf'[d] = Top.bus
    BY <1>3 DEF LocateAt, TypeInv, TypeOK
  <2>4. polls' = polls BY DEF FindDevice, poller
  <2>5. ASSUME NEW i \in 1..(Len(frames) - 1), Expected(frames[i])
        PROVE  ExpectedNext(frames[i])
    <3>1. frames[i].bus # Top.bus BY <1>1, OtherBuses
    <3>2. \A k \in frames[i].todo : k \in Devices BY <1>1, LowerCovered
    <3> QED BY <2>2, <2>3, <2>4, <2>5, <3>1, <3>2 DEF Expected, ExpectedNext
  <2>6. Expected(Top)
    <3>1. Top = frames[Len(frames)] /\ Len(frames) \in 1..3 BY <1>1, TopIs
    <3>2. Len(frames) \in 1..Len(frames) BY <3>1
    <3> QED BY <1>1, <3>1, <3>2 DEF OldCovers
  <2>7. ExpectedNext(f)
    <3>1. Top.todo \subseteq Devices BY <1>1, TopIs DEF FrameType
    <3> QED BY <2>1, <2>2, <2>4, <2>6, <3>1 DEF Expected, ExpectedNext
  <2> QED BY <1>1, <2>1, <2>5, <2>7, CoversGoesOn
<1> QED BY <1>2, <1>3 DEF FindDevice

LEMMA CoversResume ==
    ASSUME TypeInv, ListInv, OldCovers, closing = "open", Resume
    PROVE  OldCovers'
<1>1. pc = "answered" /\ UNCHANGED <<busOf, polls>>
  BY DEF Resume, tree, poller
<1>2. \A g : Expected(g) => ExpectedNext(g)
  BY <1>1 DEF Expected, ExpectedNext
<1>3. Top \in FrameType /\ FrameAt(Len(frames), Top)
  BY <1>1, TopIs
<1>4. CASE Top.bus = <<>>
  <2>1. Top.todo = {} BY <1>3, <1>4, BusKinds DEF FrameAt
  <2>2. frames' = frames /\ pc' = "loop" BY <1>4 DEF Resume
  <2>3. /\ Len(frames) \in Nat /\ Top = frames[Len(frames)]
    BY <1>1, TopIs
  <2>4. \A i \in 1..Len(frames) : i = Len(frames) \/ i \in 1..(Len(frames) - 1)
    BY ONLY <2>3
  <2>5. ExpectedNext(Top) BY <2>1 DEF ExpectedNext
  <2>6. \A i \in 1..(Len(frames) - 1) : Expected(frames[i])
    BY <1>1, LowerCovered
  <2>7. \A i \in 1..Len(frames) : ExpectedNext(frames[i])
    BY <1>2, <2>3, <2>4, <2>5, <2>6
  <2> QED BY <2>2, <2>7, CoversAfter
<1>5. CASE Top.bus # <<>> /\ devs[Top.bus] = None
  BY <1>5, CoversEnds DEF Resume, EndScan
<1>6. CASE Top.bus # <<>> /\ devs[Top.bus] # None
  <2>1. PICK f \in FrameType :
             /\ frames' = WithTop(f) /\ FrameAt(Len(frames), f)
             /\ f.bus = Top.bus /\ f.todo = Top.todo /\ f.old = devs[Top.bus]
    BY <1>6, ResumeIs
  <2>2. ExpectedNext(f)
    <3>1. Top.todo \subseteq Devices /\ Top.bus \in Buses
      BY <1>3, <1>6 DEF FrameType
    <3>2. \A k \in Devices : busOf[k] = Top.bus => k \in devs[Top.bus]
      <4>1. Top.bus # None BY <3>1, BusKinds
      <4> QED BY <4>1 DEF ListInv, ListedByItsBus
    <3> QED BY <1>1, <2>1, <3>1, <3>2 DEF ExpectedNext
  <2> QED BY <1>1, <1>2, <2>1, <2>2, CoversGoesOn
<1> QED BY <1>4, <1>5, <1>6

LEMMA CoversAnswer ==
    ASSUME TypeInv, OldCovers, closing = "open", DirAnswer
    PROVE  OldCovers'
<1>1. pc = "dir" /\ pc' = "answered" /\ UNCHANGED <<busOf, polls>>
  BY DEF DirAnswer, tree, poller
<1>2. \A g : Expected(g) => ExpectedNext(g)
  BY <1>1 DEF Expected, ExpectedNext
<1>3. PICK f \in FrameType : frames' = WithTop(f) /\ FrameAt(Len(frames), f)
  BY AnswerIs
<1> QED BY <1>1, <1>2, <1>3, CoversGoesOn

LEMMA CoversVisit ==
    ASSUME TypeInv, OldCovers, closing = "open", NEW s \in Buses, VisitBus(s)
    PROVE  OldCovers'
<1>1. pc = "loop" /\ UNCHANGED <<busOf, polls>>
  BY DEF VisitBus, poller
<1>2. \A g : Expected(g) => ExpectedNext(g)
  BY <1>1 DEF Expected, ExpectedNext
<1>3. PICK f \in FrameType :
        /\ FrameAt(Len(frames), f) /\ f.bus = Top.bus
        /\ f.todo = Top.todo /\ f.old = Top.old
        /\ \/ /\ frames' = Append(WithTop(f), Frame(s))
              /\ FrameAt(Len(frames) + 1, Frame(s)) /\ pc' = "dir"
           \/ frames' = WithTop(f) /\ UNCHANGED <<pc, lock, outcome>>
           \/ EndScan("internal")
  BY VisitIs
<1>4. Expected(Top) /\ Len(frames) \in Nat
  <2>1. Top = frames[Len(frames)] /\ Len(frames) \in 1..3 BY <1>1, TopIs
  <2>2. Len(frames) \in 1..Len(frames) BY <2>1
  <2> QED BY <1>1, <2>1, <2>2 DEF OldCovers
<1>5. ExpectedNext(f) BY <1>1, <1>3, <1>4 DEF Expected, ExpectedNext
<1>6. CASE EndScan("internal") BY <1>6, CoversEnds DEF EndScan
<1>7. CASE frames' = WithTop(f) /\ UNCHANGED <<pc, lock, outcome>>
  BY <1>1, <1>2, <1>3, <1>5, <1>7, CoversGoesOn
<1>8. CASE /\ frames' = Append(WithTop(f), Frame(s))
           /\ FrameAt(Len(frames) + 1, Frame(s)) /\ pc' = "dir"
  <2>1. Frame(s) \in FrameType BY FreshFrame
  <2>2. /\ Len(frames') = Len(frames) + 1 /\ frames'[Len(frames)] = f
        /\ \A i \in 1..(Len(frames) - 1) : frames'[i] = frames[i]
    BY <1>1, <1>3, <1>8, <2>1, TopCalls
  <2>3. \A n \in Nat : \A i \in 1..(n + 1) : i < n + 1 => i = n \/ i \in 1..(n - 1)
    OBVIOUS
  <2>4. ASSUME NEW i \in 1..Len(frames'), i < Len(frames')
        PROVE  ExpectedNext(frames'[i])
    <3>1. i = Len(frames) \/ i \in 1..(Len(frames) - 1)
      BY <1>4, <2>2, <2>3, <2>4
    <3>2. CASE i = Len(frames) BY <1>5, <2>2, <3>2
    <3>3. CASE i \in 1..(Len(frames) - 1)
      BY <1>1, <1>2, <2>2, <3>3, LowerCovered
    <3> QED BY <3>1, <3>2, <3>3
  <2> QED BY <1>8, <2>4, CoversAfter
<1> QED BY <1>3, <1>6, <1>7, <1>8

LEMMA CoversFinish ==
    ASSUME TypeInv, OldCovers, closing = "open", FinishBus
    PROVE  OldCovers'
<1>1. pc = "loop" /\ Top.bus # <<>> BY DEF FinishBus
<1>2. CASE EndScan("internal") BY <1>2, CoversEnds DEF EndScan
<1>3. CASE ~EndScan("internal")
  <2>1. /\ frames' = Front(frames)
        /\ \A k \in Devices : busOf'[k] = busOf[k] \/ busOf'[k] = None
        /\ polls' = polls \cup {Top.bus} \/ polls' = polls \ {Top.bus}
    BY <1>3 DEF FinishBus, UpdatePoll
  <2>2. /\ Len(frames') = Len(frames) - 1
        /\ \A i \in 1..(Len(frames) - 1) : frames'[i] = frames[i]
    BY <1>1, <2>1, TopReturns
  <2>3. ASSUME NEW i \in 1..(Len(frames) - 1) PROVE ExpectedNext(frames[i])
    <3>1. Expected(frames[i]) /\ \A k \in frames[i].todo : k \in Devices
      BY <1>1, LowerCovered
    <3>2. /\ frames[i].bus # Top.bus
          /\ frames[i].todo # {} => frames[i].bus # None
      BY <1>1, OtherBuses
    <3> QED BY <2>1, <3>1, <3>2 DEF Expected, ExpectedNext
  <2> QED BY <2>2, <2>3, CoversAfter
<1> QED BY <1>2, <1>3

LEMMA CoversAlarm ==
    ASSUME TypeInv, NotFreed, PollsWork, OldCovers, closing = "open",
           NEW b \in Buses, NEW d \in Devices, AlarmDevice(b, d)
    PROVE  OldCovers'
<1>1. b \in polls /\ polls' = polls /\ UNCHANGED <<frames, pc>>
  BY DEF AlarmDevice, PollsWork, NotFreed, scanner
<1>2. \A k \in Devices : k # d => busOf'[k] = busOf[k]
  BY DEF AlarmDevice, LocateAt, TypeInv, TypeOK
<1>3. busOf'[d] = b BY DEF AlarmDevice, LocateAt, TypeInv, TypeOK
<1>4. ASSUME NEW i \in 1..Len(frames), Expected(frames[i])
      PROVE  ExpectedNext(frames[i])
  <2>1. frames[i] \in FrameType BY DEF TypeInv, TypeOK
  <2>2. frames[i].todo \subseteq Devices BY <2>1 DEF FrameType
  <2> QED BY <1>1, <1>2, <1>3, <1>4, <2>2 DEF Expected, ExpectedNext
<1> QED BY <1>1, <1>4, CoversAfter DEF OldCovers

LEMMA ExpectStep == TypeInv /\ ListInv /\ ExpectInv /\ [Next]_vars => ExpectInv'
<1> SUFFICES ASSUME TypeInv, ListInv, ExpectInv, [Next]_vars PROVE OldCovers'
  BY PollsWorkStep DEF ExpectInv
<1> USE DEF ExpectInv
<1>1. CASE closing' # "open" BY <1>1, CoversAfter
<1>2. CASE closing' = "open"
  <2>1. closing = "open" /\ ~CloseStep
    BY <1>2 DEF Next, vars, CloseStep, CloseCancel, CloseFree, CloseFail, ScanNow,
         PeriodicScan, ScanStep, DirAnswer, DirError, Resume, FinishBus,
         FinishScan, FindDevice, VisitBus, AlarmStep, AlarmListing,
         AlarmDevice, Move, AdapterChange, Done
  <2>2. CASE ScanStep
    <3>1. CASE DirAnswer BY <2>1, <3>1, CoversAnswer
    <3>2. CASE DirError BY <3>2, CoversEnds DEF DirError, EndScan
    <3>3. CASE Resume BY <2>1, <3>3, CoversResume
    <3>4. CASE FinishBus BY <2>1, <3>4, CoversFinish
    <3>5. CASE FinishScan BY <3>5, CoversEnds DEF FinishScan, EndScan
    <3>6. CASE \E d \in Devices : FindDevice(d) BY <2>1, <3>6, CoversFind
    <3>7. CASE \E s \in Buses : VisitBus(s) BY <2>1, <3>7, CoversVisit
    <3> QED BY <2>2, <3>1, <3>2, <3>3, <3>4, <3>5, <3>6, <3>7 DEF ScanStep
  <2>3. CASE AlarmStep
    <3>1. ASSUME NEW b \in Buses, AlarmListing(b) PROVE OldCovers'
      BY <3>1, CoversQuiet DEF AlarmListing, tree, scanner
    <3>2. ASSUME NEW b \in Buses, NEW d \in Devices, AlarmDevice(b, d)
          PROVE  OldCovers'
      BY <2>1, <3>2, CoversAlarm DEF ListInv
    <3> QED BY <2>3, <3>1, <3>2 DEF AlarmStep
  <2>4. CASE ScanNow
    <3>1. frames' = <<Frame(<<>>)>> /\ pc' = "dir" BY <2>4 DEF ScanNow
    <3>2. Len(frames') = 1 BY <3>1
    <3>3. \A i \in 1..1 : ~(i < 1) OBVIOUS
    <3> QED BY <3>1, <3>2, <3>3, CoversAfter
  <2>5. CASE PeriodicScan \/ Move \/ AdapterChange \/ UNCHANGED vars
    BY <2>5, CoversQuiet
       DEF PeriodicScan, Move, AdapterChange, vars, world, tree, scanner, poller
  <2> QED BY <2>1, <2>2, <2>3, <2>4, <2>5 DEF Next, Done
<1> QED BY <1>1, <1>2

\* A scan fails for a reason of its own only if alarms are polled, as long as
\* the server is open: no change of the wiring makes it fail.
THEOREM ScansBreakOnAlarms == Spec => OnlyAlarmsBreakScans
<1> DEFINE A == outcome' = "internal" /\ outcome # "internal" =>
                  closing # "open" \/ polls # {}
<1>1. TypeInv /\ ListInv /\ ExpectInv /\ [Next]_vars => [A]_vars
  <2> SUFFICES ASSUME TypeInv, ListInv, ExpectInv, [Next]_vars,
                      outcome' = "internal", outcome # "internal",
                      closing = "open"
               PROVE  polls # {}
    OBVIOUS
  <2>1. subsGone = {} /\ \A b \in Buses : devs[b] # None
    BY DEF ListInv, NotFreed
  <2>2. CASE Resume
    <3>1. pc = "answered" BY <2>2 DEF Resume
    <3>2. Top \in FrameType BY <3>1, TopIs
    <3>3. Top.bus = <<>> \/ devs[Top.bus] # None BY <2>1, <3>2 DEF FrameType
    <3> QED BY <2>2, <3>3 DEF Resume
  <2>3. CASE FinishBus
    <3>1. pc = "loop" /\ Top.bus # <<>> BY <2>3 DEF FinishBus
    <3>2. Top \in FrameType BY <3>1, TopIs
    <3>3. devs[Top.bus] # None BY <2>1, <3>1, <3>2 DEF FrameType
    <3> QED BY <2>3, <3>3 DEF FinishBus
  <2>4. ASSUME NEW d \in Devices, FindDevice(d) PROVE polls # {}
    <3>1. pc = "loop" /\ d \in Top.todo /\ Top.bus \in Buses BY <2>4, EntryBus
    <3>2. busOf[d] = Top.bus /\ d \notin Top.old
      BY <2>1, <2>4, <3>1 DEF FindDevice
    <3>3. Top = frames[Len(frames)] /\ Len(frames) \in 1..3 BY <3>1, TopIs
    <3>4. Len(frames) \in 1..Len(frames) BY <3>3
    <3>5. Expected(Top) BY <3>1, <3>3, <3>4 DEF ExpectInv, OldCovers
    <3> QED BY <3>1, <3>2, <3>5 DEF Expected
  <2>5. ASSUME NEW s \in Buses, VisitBus(s) PROVE polls # {}
    BY <2>1, <2>5 DEF VisitBus
  <2>6. ~DirAnswer /\ ~DirError /\ ~FinishScan /\ ~ScanNow /\ ~PeriodicScan
    BY DEF DirAnswer, DirError, FinishScan, ScanNow, PeriodicScan, EndScan
  <2>7. ~Move /\ ~AdapterChange /\ ~UNCHANGED vars /\ ~AlarmStep /\ ~CloseStep
    BY DEF Move, AdapterChange, AlarmStep, AlarmListing, AlarmDevice,
           CloseStep, CloseCancel, CloseFree, CloseFail, EndScan, vars, scanner
  <2> QED BY <2>2, <2>3, <2>4, <2>5, <2>6, <2>7 DEF Next, ScanStep, Done
<1> HIDE DEF A
<1>2. Spec => [][A]_vars
  BY <1>1, TypeInit, TypeStep, ListInit, ListStep, ExpectInit, ExpectStep, PTL
     DEF Spec
<1> QED BY <1>2 DEF OnlyAlarmsBreakScans, A

-----------------------------------------------------------------------------
(* Nothing moves while nobody touches the wiring.                          *)

\* An activation works off devices that are plugged in where it looks; those
\* in old_devs are listed and located there.
Settled(f) ==
    /\ \A k \in f.todo : <<plug[k]>> = f.bus
    /\ \A k \in f.old : k \in f.todo /\ busOf[k] = f.bus

\* Every adapter is there, every device is on one, and a located device is
\* located there.
Wired ==
    /\ up = TopBuses
    /\ \A k \in Devices : plug[k] \in TopBuses
    /\ \A k \in Devices : busOf[k] # None => busOf[k] = <<plug[k]>>
    /\ \A b \in Buses : \A k \in devs[b] : busOf[k] = b
    /\ \A b \in Buses : \A k \in alarm[b] : <<plug[k]>> = b

ScanSettled ==
    /\ \A i \in 1..Len(frames) : Settled(frames[i])
    /\ pc = "dir" => Top.old = {}
    /\ pc = "answered" =>
         \A b \in Buses, k \in Devices :
           Top.bus = b /\ <<plug[k]>> = b => k \in Top.todo

StillInv == moves = 0 /\ closing = "open" => Wired /\ ScanSettled

LEMMA StillInit == Init => StillInv
<1> SUFFICES ASSUME Init PROVE StillInv OBVIOUS
<1>1. Len(frames) = 0 BY DEF Init
<1>2. Wired BY DEF Init, Wired
<1>3. ScanSettled BY <1>1 DEF Init, ScanSettled
<1> QED BY <1>2, <1>3 DEF StillInv

\* With every adapter there, a listing shows what is plugged in.
LEMMA ListingIs ==
    ASSUME Wired, NEW b
    PROVE  Listing(b) = {k \in Devices : <<plug[k]>> = b}
<1>1. ASSUME NEW k \in Devices PROVE Seen(k) = <<plug[k]>>
  BY DEF Wired, Seen, PathOf
<1> QED BY <1>1 DEF Listing

\* A step of an undisturbed system.
Undisturbed == moves' = 0 /\ closing' = "open"

LEMMA UndisturbedBefore ==
    ASSUME TypeInv, [Next]_vars, Undisturbed
    PROVE  moves = 0 /\ closing = "open" /\ UNCHANGED <<plug, up>> /\ ~CloseStep
<1>1. ~Move /\ ~AdapterChange
  BY DEF Move, AdapterChange, Undisturbed, TypeInv, TypeOK
<1>2. ~CloseStep
  BY DEF CloseStep, CloseCancel, CloseFree, CloseFail, Undisturbed
<1> QED BY <1>1, <1>2
     DEF Next, vars, ScanNow, PeriodicScan, ScanStep, DirAnswer, DirError, Resume,
         FinishBus, FinishScan, FindDevice, VisitBus, AlarmStep, AlarmListing,
         AlarmDevice, Done, world, Undisturbed

\* The innermost activation is one of the stack.
LEMMA TopSettled ==
    ASSUME TypeInv, pc # "idle", ScanSettled
    PROVE  Settled(Top)
<1>1. Top = frames[Len(frames)] /\ Len(frames) \in 1..3 BY TopIs
<1>2. Len(frames) \in 1..Len(frames) BY <1>1
<1> QED BY <1>1, <1>2 DEF ScanSettled

\* Where the step may locate a device.
LEMMA Relocates ==
    ASSUME TypeInv, ListInv, StillInv, [Next]_vars, Undisturbed
    PROVE  \/ busOf' = busOf
           \/ \E d \in Devices : /\ busOf[d] = None \/ busOf[d] = <<plug[d]>>
                                 /\ <<plug[d]>> \in Buses
                                 /\ busOf' = [busOf EXCEPT ![d] = <<plug[d]>>]
<1>1. moves = 0 /\ closing = "open" /\ ~CloseStep /\ Wired /\ ScanSettled
  BY UndisturbedBefore DEF StillInv
<1>2. ASSUME NEW d \in Devices, FindDevice(d)
      PROVE  busOf' = busOf \/ (LocateAt(d, <<plug[d]>>) /\ <<plug[d]>> \in Buses)
  <2>1. pc = "loop" /\ d \in Top.todo /\ Top.bus \in Buses BY <1>2, EntryBus
  <2>2. <<plug[d]>> = Top.bus BY <1>1, <2>1, TopSettled DEF Settled
  <2> QED BY <1>2, <2>1, <2>2 DEF FindDevice
<1>3. ASSUME NEW b \in Buses, NEW d \in Devices, AlarmDevice(b, d)
      PROVE  LocateAt(d, <<plug[d]>>) /\ <<plug[d]>> \in Buses
  <2>1. <<plug[d]>> = b BY <1>1, <1>3 DEF AlarmDevice, Wired
  <2> QED BY <1>3, <2>1 DEF AlarmDevice
<1>4. CASE FinishBus
  <2>1. pc = "loop" /\ Top.todo = {} BY <1>4 DEF FinishBus
  <2>2. Top.old = {} BY <1>1, <2>1, TopSettled DEF Settled
  <2>3. busOf' = busOf \/ busOf' = [k \in Devices |-> busOf[k]]
    <3> DEFINE lost == {d \in Top.old : unseen[d] = 3 /\ busOf[d] = Top.bus}
    <3>1. \/ busOf' = busOf
          \/ busOf' = [d \in Devices |-> IF d \in lost THEN None ELSE busOf[d]]
      BY <1>4 DEF FinishBus
    <3>2. lost = {} BY <2>2
    <3> HIDE DEF lost
    <3> QED BY <3>1, <3>2
  <2> QED BY <2>3 DEF TypeInv, TypeOK
<1>5. CASE \/ ScanNow \/ PeriodicScan \/ Move \/ AdapterChange \/ UNCHANGED vars
           \/ DirAnswer \/ DirError \/ Resume \/ FinishScan
           \/ \E s \in Buses : VisitBus(s)
           \/ \E b \in Buses : AlarmListing(b)
  BY <1>5 DEF ScanNow, PeriodicScan, Move, AdapterChange, vars, tree,
              DirAnswer, DirError, Resume, FinishScan, VisitBus, AlarmListing
<1> QED BY <1>1, <1>2, <1>3, <1>4, <1>5
     DEF Next, ScanStep, AlarmStep, Done, LocateAt, Wired

LEMMA Stays ==
    ASSUME TypeInv, ListInv, StillInv, [Next]_vars, Undisturbed
    PROVE  /\ \A d \in Devices : busOf[d] # None => busOf'[d] = busOf[d]
           /\ \A d \in Devices : busOf'[d] # None => busOf'[d] = <<plug'[d]>>
<1>1. Wired /\ plug' = plug BY UndisturbedBefore DEF StillInv
<1> QED BY <1>1, Relocates DEF Wired, TypeInv, TypeOK

\* Without changes of the wiring no device is relocated or delocated.
LEMMA WiredStep ==
    ASSUME TypeInv, ListInv, StillInv, [Next]_vars, Undisturbed
    PROVE  Wired'
<1>1. /\ moves = 0 /\ closing = "open" /\ Wired /\ ScanSettled
      /\ UNCHANGED <<plug, up>> /\ ~CloseStep
  BY UndisturbedBefore DEF StillInv
<1>2. ASSUME NEW b \in Buses, NEW k \in devs'[b] PROVE busOf'[k] = b
  <2>1. CASE k \in devs[b]
    <3>1. busOf[k] = b /\ b # None /\ k \in Devices
      BY <1>1, <2>1, BusKinds DEF Wired, ListInv, NotFreed, TypeInv, TypeOK
    <3> QED BY <3>1, Stays
  <2>2. CASE k \notin devs[b]
    <3>1. ASSUME NEW d \in Devices, FindDevice(d) PROVE busOf'[k] = b
      <4>1. Top.bus \in Buses BY <3>1, EntryBus
      <4>2. LocateAt(d, Top.bus) /\ AddTo(d, Top.bus)
        BY <2>2, <3>1, <1>1, <4>1 DEF FindDevice
      <4>3. k = d /\ b = Top.bus
        BY <2>2, <4>1, <4>2 DEF AddTo, TypeInv, TypeOK
      <4> QED BY <4>2, <4>3 DEF LocateAt, TypeInv, TypeOK
    <3>2. ASSUME NEW c \in Buses, NEW d \in Devices, AlarmDevice(c, d)
          PROVE  busOf'[k] = b
      <4>1. LocateAt(d, c) /\ AddTo(d, c) BY <2>2, <3>2 DEF AlarmDevice
      <4>2. k = d /\ b = c BY <2>2, <4>1 DEF AddTo, TypeInv, TypeOK
      <4> QED BY <4>1, <4>2 DEF LocateAt, TypeInv, TypeOK
    <3>3. CASE FinishBus
      <4>1. \/ devs' = devs
            \/ \E l : devs' = [devs EXCEPT ![Top.bus] = @ \ l]
        <5> DEFINE lost == {d \in Top.old : unseen[d] = 3 /\ busOf[d] = Top.bus}
        <5>1. \/ devs' = devs
              \/ devs' = [devs EXCEPT ![Top.bus] = @ \ lost]
          BY <3>3 DEF FinishBus
        <5> HIDE DEF lost
        <5> QED BY <5>1
      <4> QED BY <2>2, <4>1 DEF TypeInv, TypeOK
    <3>4. CASE \/ ScanNow \/ PeriodicScan \/ Move \/ AdapterChange \/ UNCHANGED vars
               \/ DirAnswer \/ DirError \/ Resume \/ FinishScan
               \/ \E s \in Buses : VisitBus(s)
               \/ \E c \in Buses : AlarmListing(c)
      BY <2>2, <3>4 DEF ScanNow, PeriodicScan, Move, AdapterChange, vars, tree,
           DirAnswer, DirError, Resume, FinishScan, VisitBus, AlarmListing
    <3> QED BY <1>1, <3>1, <3>2, <3>3, <3>4 DEF Next, ScanStep, AlarmStep, Done
  <2> QED BY <2>1, <2>2
<1>3. ASSUME NEW b \in Buses, NEW k \in alarm'[b] PROVE <<plug[k]>> = b
  <2>1. CASE k \in alarm[b] BY <1>1, <2>1 DEF Wired
  <2>2. CASE k \notin alarm[b]
    <3>1. ASSUME NEW c \in Buses, AlarmListing(c) PROVE <<plug[k]>> = b
      <4>1. \E s \in SUBSET Listing(c) : alarm' = [alarm EXCEPT ![c] = s]
        BY <3>1 DEF AlarmListing
      <4>2. b = c /\ k \in Listing(c) BY <2>2, <4>1 DEF TypeInv, TypeOK
      <4> QED BY <1>1, <4>2, ListingIs
    <3>2. ASSUME NEW c \in Buses, NEW d \in Devices, AlarmDevice(c, d)
          PROVE  FALSE
      BY <2>2, <3>2 DEF AlarmDevice, TypeInv, TypeOK
    <3>3. CASE FinishBus
      <4>1. alarm' = alarm \/ alarm' = [alarm EXCEPT ![Top.bus] = {}]
        BY <3>3 DEF FinishBus, UpdatePoll, poller
      <4> QED BY <2>2, <4>1 DEF TypeInv, TypeOK
    <3>4. CASE \/ ScanNow \/ PeriodicScan \/ Move \/ AdapterChange \/ UNCHANGED vars
               \/ DirAnswer \/ DirError \/ Resume \/ FinishScan
               \/ \E s \in Buses : VisitBus(s)
               \/ \E d \in Devices : FindDevice(d)
      BY <2>2, <3>4 DEF ScanNow, PeriodicScan, Move, AdapterChange, vars, poller,
           DirAnswer, DirError, Resume, FinishScan, VisitBus, FindDevice
    <3> QED BY <1>1, <3>1, <3>2, <3>3, <3>4 DEF Next, ScanStep, AlarmStep, Done
  <2> QED BY <2>1, <2>2
<1>4. \A k \in Devices : busOf'[k] # None => busOf'[k] = <<plug'[k]>>
  BY Stays
<1> QED BY <1>1, <1>2, <1>3, <1>4 DEF Wired

\* Settled(f) after the step.
SettledNext(f) ==
    /\ \A k \in f.todo : <<plug'[k]>> = f.bus
    /\ \A k \in f.old : k \in f.todo /\ busOf'[k] = f.bus

\* What is left to show of a step: the activations, and what holds of the
\* innermost one while its listing is fetched.
SettledAfter(top) ==
    /\ pc' = "dir" => top.old = {}
    /\ pc' = "answered" =>
         \A b \in Buses, k \in Devices :
           top.bus = b /\ <<plug'[k]>> = b => k \in top.todo

LEMMA ScanSettledAfter ==
    ASSUME \A i \in 1..Len(frames') : SettledNext(frames'[i]),
           pc' \in {"dir", "answered"} => SettledAfter(Top')
    PROVE  ScanSettled'
BY DEF ScanSettled, Settled, SettledNext, SettledAfter

LEMMA KeepsSettled ==
    ASSUME TypeInv, ListInv, StillInv, [Next]_vars, Undisturbed,
           NEW f \in FrameType, Settled(f),
           f.bus = <<>> => f.old = {}
    PROVE  SettledNext(f)
<1>1. plug' = plug BY UndisturbedBefore
<1>2. f.old # {} => f.bus # None
  <2>1. f.old # {} => f.bus \in Buses BY DEF FrameType
  <2> QED BY <2>1, BusKinds
<1>3. f.old \subseteq Devices BY DEF FrameType
<1>4. \A d \in Devices : busOf[d] # None => busOf'[d] = busOf[d] BY Stays
<1> QED BY <1>1, <1>2, <1>3, <1>4 DEF Settled, SettledNext

LEMMA StackSettled ==
    ASSUME TypeInv, ListInv, StillInv, [Next]_vars, Undisturbed,
           NEW i \in 1..Len(frames)
    PROVE  SettledNext(frames[i])
<1>1. ScanSettled BY UndisturbedBefore DEF StillInv
<1>2. frames[i] \in FrameType /\ FrameAt(i, frames[i])
  BY DEF TypeInv, TypeOK, StackOK
<1>3. frames[i].bus = <<>> => frames[i].old = {}
  BY <1>2, BusKinds DEF FrameAt
<1> QED BY <1>1, <1>2, <1>3, KeepsSettled DEF ScanSettled

LEMMA SettledGoesOn ==
    ASSUME TypeInv, ListInv, StillInv, [Next]_vars, Undisturbed, pc # "idle",
           NEW f \in FrameType, FrameAt(Len(frames), f), frames' = WithTop(f),
           SettledNext(f), SettledAfter(f)
    PROVE  ScanSettled'
<1>1. /\ Len(frames') = Len(frames) /\ frames'[Len(frames)] = f
      /\ \A i \in 1..(Len(frames) - 1) : frames'[i] = frames[i]
      /\ Top' = f
  BY TopGoesOn
<1>2. Len(frames) \in Nat BY TopIs
<1>3. \A i \in 1..Len(frames') : i = Len(frames) \/ i \in 1..(Len(frames) - 1)
  BY ONLY <1>1, <1>2
<1>4. \A i \in 1..(Len(frames) - 1) : i \in 1..Len(frames) BY ONLY <1>2
<1>5. ASSUME NEW i \in 1..Len(frames') PROVE SettledNext(frames'[i])
  <2>1. CASE i = Len(frames) BY <1>1, <2>1
  <2>2. CASE i \in 1..(Len(frames) - 1) BY <1>1, <1>4, <2>2, StackSettled
  <2> QED BY <1>3, <2>1, <2>2
<1> QED BY <1>1, <1>5, ScanSettledAfter

LEMMA SettledEnds ==
    ASSUME NEW how, EndScan(how) PROVE ScanSettled'
<1>1. Len(frames') = 0 /\ pc' = "idle" BY DEF EndScan
<1> QED BY <1>1, ScanSettledAfter

LEMMA SettledQuiet ==
    ASSUME TypeInv, ListInv, StillInv, [Next]_vars, Undisturbed,
           UNCHANGED <<frames, pc>>
    PROVE  ScanSettled'
<1>1. ScanSettled /\ plug' = plug BY UndisturbedBefore DEF StillInv
<1>2. Top' = Top BY DEF Top
<1>3. \A i \in 1..Len(frames') : SettledNext(frames'[i])
  BY StackSettled
<1>4. SettledAfter(Top) BY <1>1 DEF ScanSettled, SettledAfter
<1> QED BY <1>2, <1>3, <1>4, ScanSettledAfter

LEMMA SettledAnswer ==
    ASSUME TypeInv, ListInv, StillInv, [Next]_vars, Undisturbed,
           DirAnswer \/ Resume
    PROVE  ScanSettled'
<1>1. Wired /\ ScanSettled /\ plug' = plug BY UndisturbedBefore DEF StillInv
<1>2. pc # "idle" BY DEF DirAnswer, Resume
<1>3. Top \in FrameType /\ FrameAt(Len(frames), Top) /\ Settled(Top)
  BY <1>1, <1>2, TopIs, TopSettled
<1>4. CASE DirAnswer
  <2>1. PICK f \in FrameType :
             /\ frames' = WithTop(f) /\ FrameAt(Len(frames), f)
             /\ f.bus = Top.bus /\ f.old = Top.old
             /\ f.bus # <<>> => f.todo = Listing(f.bus)
    BY <1>4, AnswerIs
  <2>2. f.old = {} BY <1>1, <1>4, <2>1 DEF DirAnswer, ScanSettled
  <2>3. CASE f.bus = <<>>
    <3>1. f.todo = {} BY <2>1, <2>3, BusKinds DEF FrameAt
    <3>2. SettledNext(f) BY <2>2, <3>1 DEF SettledNext
    <3>3. SettledAfter(f) BY <2>2, <2>3, BusKinds DEF SettledAfter
    <3> QED BY <1>2, <2>1, <3>2, <3>3, SettledGoesOn
  <2>4. CASE f.bus # <<>>
    <3>1. f.todo = {k \in Devices : <<plug[k]>> = f.bus}
      BY <1>1, <2>1, <2>4, ListingIs
    <3>2. SettledNext(f) BY <1>1, <2>2, <3>1 DEF SettledNext
    <3>3. SettledAfter(f) BY <1>1, <2>2, <3>1 DEF SettledAfter
    <3> QED BY <1>2, <2>1, <3>2, <3>3, SettledGoesOn
  <2> QED BY <2>3, <2>4
<1>5. CASE Resume
  <2>1. CASE Top.bus = <<>>
    <3>1. frames' = frames /\ pc' = "loop" BY <1>5, <2>1 DEF Resume
    <3> QED BY <3>1, StackSettled, ScanSettledAfter
  <2>2. CASE Top.bus # <<>> /\ devs[Top.bus] = None
    BY <1>5, <2>2, SettledEnds DEF Resume
  <2>3. CASE Top.bus # <<>> /\ devs[Top.bus] # None
    <3>1. PICK f \in FrameType :
               /\ frames' = WithTop(f) /\ FrameAt(Len(frames), f)
               /\ f.bus = Top.bus /\ f.todo = Top.todo
               /\ f.old = devs[Top.bus]
      BY <1>5, <2>3, ResumeIs
    <3>2. Top.bus \in Buses /\ Top.bus # None
      BY <1>3, <2>3, BusKinds DEF FrameType
    <3>3. devs[Top.bus] \subseteq Devices
      BY <2>3, <3>2 DEF TypeInv, TypeOK
    <3>4. ASSUME NEW k \in devs[Top.bus]
          PROVE  busOf[k] = Top.bus /\ k \in Top.todo
      <4>1. busOf[k] = Top.bus /\ k \in Devices
        BY <1>1, <3>2, <3>3 DEF Wired
      <4>2. <<plug[k]>> = Top.bus BY <1>1, <3>2, <4>1 DEF Wired
      <4>3. pc = "answered" BY <1>5 DEF Resume
      <4> QED BY <1>1, <3>2, <4>1, <4>2, <4>3 DEF ScanSettled
    <3>5. Settled(f) BY <1>3, <3>1, <3>4 DEF Settled
    <3>6. SettledNext(f) BY <2>3, <3>1, <3>5, KeepsSettled
    <3>7. pc' = "loop" BY <1>5, <2>3 DEF Resume
    <3>8. SettledAfter(f) BY <3>7 DEF SettledAfter
    <3> QED BY <1>2, <3>1, <3>6, <3>8, SettledGoesOn
  <2> QED BY <2>1, <2>2, <2>3
<1> QED BY <1>4, <1>5

LEMMA SettledFind ==
    ASSUME TypeInv, ListInv, StillInv, [Next]_vars, Undisturbed,
           NEW d \in Devices, FindDevice(d)
    PROVE  ScanSettled'
<1>1. pc = "loop" /\ d \in Top.todo /\ Top.bus \in Buses BY EntryBus
<1>2. Wired /\ ScanSettled BY UndisturbedBefore DEF StillInv
<1>3. Settled(Top) BY <1>1, <1>2, TopSettled
<1>4. CASE EndScan("internal") BY <1>4, SettledEnds
<1>5. CASE Found(d) /\ pc' = pc
  <2>1. PICK f \in FrameType :
             /\ frames' = WithTop(f) /\ FrameAt(Len(frames), f)
             /\ f.bus = Top.bus /\ f.todo = Top.todo \ {d}
             /\ f.old = IF busOf[d] = Top.bus THEN Top.old \ {d} ELSE Top.old
    BY <1>1, <1>5, FoundIs
  <2>2. Settled(f) BY <1>3, <2>1 DEF Settled
  <2>3. SettledNext(f) BY <1>1, <2>1, <2>2, BusKinds, KeepsSettled
  <2>4. SettledAfter(f) BY <1>1, <1>5 DEF SettledAfter
  <2> QED BY <1>1, <2>1, <2>3, <2>4, SettledGoesOn
<1> QED BY <1>4, <1>5 DEF FindDevice

LEMMA SettledVisit ==
    ASSUME TypeInv, ListInv, StillInv, [Next]_vars, Undisturbed,
           NEW s \in Buses, VisitBus(s)
    PROVE  ScanSettled'
<1>1. pc = "loop" BY DEF VisitBus
<1>2. ScanSettled BY UndisturbedBefore DEF StillInv
<1>3. Settled(Top) /\ FrameAt(Len(frames), Top) BY <1>1, <1>2, TopIs, TopSettled
<1>4. PICK f \in FrameType :
        /\ FrameAt(Len(frames), f) /\ f.bus = Top.bus
        /\ f.todo = Top.todo /\ f.old = Top.old
        /\ \/ /\ frames' = Append(WithTop(f), Frame(s))
              /\ FrameAt(Len(frames) + 1, Frame(s)) /\ pc' = "dir"
           \/ frames' = WithTop(f) /\ UNCHANGED <<pc, lock, outcome>>
           \/ EndScan("internal")
  BY VisitIs
<1>5. SettledNext(f)
  <2>1. Settled(f) BY <1>3, <1>4 DEF Settled
  <2>2. f.bus = <<>> => f.old = {} BY <1>4, BusKinds DEF FrameAt
  <2> QED BY <2>1, <2>2, KeepsSettled
<1>6. CASE EndScan("internal") BY <1>6, SettledEnds
<1>7. CASE frames' = WithTop(f) /\ UNCHANGED <<pc, lock, outcome>>
  <2>1. SettledAfter(f) BY <1>1, <1>7 DEF SettledAfter
  <2> QED BY <1>1, <1>4, <1>5, <1>7, <2>1, SettledGoesOn
<1>8. CASE /\ frames' = Append(WithTop(f), Frame(s))
           /\ FrameAt(Len(frames) + 1, Frame(s)) /\ pc' = "dir"
  <2> DEFINE g == Frame(s)
  <2>1. /\ g \in FrameType /\ g.bus = s /\ g.todo = {} /\ g.old = {}
    BY FreshFrame
  <2> HIDE DEF g
  <2>2. /\ Len(frames') = Len(frames) + 1 /\ frames'[Len(frames)] = f
        /\ frames'[Len(frames) + 1] = g
        /\ \A i \in 1..(Len(frames) - 1) : frames'[i] = frames[i]
        /\ Top' = g
    BY <1>1, <1>4, <1>8, <2>1, TopCalls DEF g
  <2>3. Len(frames) \in Nat BY <1>1, TopIs
  <2>4. \A n \in Nat : \A i \in 1..(n + 1) : i = n + 1 \/ i = n \/ i \in 1..(n - 1)
    OBVIOUS
  <2>5. \A n \in Nat : \A i \in 1..(n - 1) : i \in 1..n OBVIOUS
  <2>6. SettledNext(g) BY <2>1 DEF SettledNext
  <2>7. ASSUME NEW i \in 1..Len(frames') PROVE SettledNext(frames'[i])
    <3>1. i = Len(frames) + 1 \/ i = Len(frames) \/ i \in 1..(Len(frames) - 1)
      BY <2>2, <2>3, <2>4
    <3>2. CASE i = Len(frames) + 1 BY <2>2, <2>6, <3>2
    <3>3. CASE i = Len(frames) BY <1>5, <2>2, <3>3
    <3>4. CASE i \in 1..(Len(frames) - 1)
      BY <2>2, <2>3, <2>5, <3>4, StackSettled
    <3> QED BY <3>1, <3>2, <3>3, <3>4
  <2>8. SettledAfter(g) BY <1>8, <2>1 DEF SettledAfter
  <2> QED BY <2>2, <2>7, <2>8, ScanSettledAfter
<1> QED BY <1>4, <1>6, <1>7, <1>8

LEMMA SettledFinish ==
    ASSUME TypeInv, ListInv, StillInv, [Next]_vars, Undisturbed, FinishBus
    PROVE  ScanSettled'
<1>1. pc = "loop" /\ Top.bus # <<>> BY DEF FinishBus
<1>2. CASE EndScan("internal") BY <1>2, SettledEnds
<1>3. CASE frames' = Front(frames) /\ pc' = pc
  <2>1. /\ Len(frames') = Len(frames) - 1
        /\ \A i \in 1..(Len(frames) - 1) : frames'[i] = frames[i]
    BY <1>1, <1>3, TopReturns
  <2>2. Len(frames) \in Nat BY <1>1, TopIs
  <2>3. \A n \in Nat : \A i \in 1..(n - 1) : i \in 1..n OBVIOUS
  <2>4. \A i \in 1..Len(frames') : SettledNext(frames'[i])
    BY <2>1, <2>2, <2>3, StackSettled
  <2> QED BY <1>1, <1>3, <2>4, ScanSettledAfter
<1> QED BY <1>2, <1>3 DEF FinishBus

LEMMA StillStep == TypeInv /\ ListInv /\ StillInv /\ [Next]_vars => StillInv'
<1> SUFFICES ASSUME TypeInv, ListInv, StillInv, [Next]_vars, Undisturbed
             PROVE  Wired' /\ ScanSettled'
  BY DEF StillInv, Undisturbed
<1> SUFFICES ScanSettled' BY WiredStep
<1>1. ~CloseStep /\ ~Move /\ ~AdapterChange
  BY UndisturbedBefore DEF Move, AdapterChange, Undisturbed, TypeInv, TypeOK
<1>2. CASE ScanStep
  <2>1. CASE DirAnswer \/ Resume BY <2>1, SettledAnswer
  <2>2. CASE DirError \/ FinishScan
    BY <2>2, SettledEnds DEF DirError, FinishScan
  <2>3. CASE FinishBus BY <2>3, SettledFinish
  <2>4. CASE \E d \in Devices : FindDevice(d) BY <2>4, SettledFind
  <2>5. CASE \E s \in Buses : VisitBus(s) BY <2>5, SettledVisit
  <2> QED BY <1>2, <2>1, <2>2, <2>3, <2>4, <2>5 DEF ScanStep
<1>3. CASE ScanNow
  <2> DEFINE g == Frame(<<>>)
  <2>1. g \in FrameType /\ g.bus = <<>> /\ g.todo = {} /\ g.old = {}
    BY FreshFrame
  <2> HIDE DEF g
  <2>2. frames' = <<g>> /\ pc' = "dir" BY <1>3 DEF ScanNow, g
  <2>3. Len(frames') = 1 /\ frames'[1] = g BY <2>2
  <2>4. Top' = g BY <2>3 DEF Top, Last
  <2>5. SettledNext(g) /\ SettledAfter(g)
    BY <2>1, <2>2 DEF SettledNext, SettledAfter
  <2>6. \A i \in 1..Len(frames') : SettledNext(frames'[i])
    BY <2>3, <2>5
  <2> QED BY <2>4, <2>5, <2>6, ScanSettledAfter
<1>4. CASE PeriodicScan \/ AlarmStep \/ UNCHANGED vars
  BY <1>4, SettledQuiet
     DEF PeriodicScan, AlarmStep, AlarmListing, AlarmDevice, vars, scanner
<1> QED BY <1>1, <1>2, <1>3, <1>4 DEF Next, Done

\* As long as nobody touches the wiring, a device that has been located is
\* neither relocated nor delocated, however scans and alarm polls interleave.
THEOREM LocatedStays == Spec => StaysLocated
<1> DEFINE A == \A d \in Devices :
                  moves' = 0 /\ closing' = "open" /\ busOf[d] # None =>
                    busOf'[d] = busOf[d]
<1>1. TypeInv /\ ListInv /\ StillInv /\ [Next]_vars => [A]_vars
  BY Stays DEF Undisturbed
<1> HIDE DEF A
<1>2. Spec => [][A]_vars
  BY <1>1, TypeInit, TypeStep, ListInit, ListStep, StillInit, StillStep, PTL
     DEF Spec
<1> QED BY <1>2 DEF StaysLocated, A
=============================================================================
