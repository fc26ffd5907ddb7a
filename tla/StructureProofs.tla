-------------------------- MODULE StructureProofs ---------------------------
(***************************************************************************)
(* Theorems about Structure, for every structure and any number of scans   *)
(* and of walks that fail.                                                 *)
(***************************************************************************)
EXTENDS Structure, TLAPS, SequenceTheorems

-----------------------------------------------------------------------------
(* What lies below a directory.                                            *)

Entry == Dirs \cup Leaves

\* A set of entries and what lies below its directories.
Reach(E) == E \cup {e \in Entry : \E d \in E \cap Dirs : e \in Below[d]}

\* A set that has, with a directory, the entries of the directory's listing.
Closed(S) == \A s \in S \cap Dirs : Range(Items[s]) \subseteq S

LEMMA ItemsAre == \A d \in Dirs : Items[d] \in Seq(Entry) /\ Range(Items[d]) \subseteq Entry
<1> SUFFICES ASSUME NEW d \in Dirs
             PROVE  Items[d] \in Seq(Entry) /\ Range(Items[d]) \subseteq Entry
  OBVIOUS
<1>1. Items[d] \in Seq(Entry) BY StructureAssumption DEF Entry
<1> QED BY <1>1 DEF Range

LEMMA BelowIs ==
    ASSUME NEW d \in Dirs
    PROVE  Below[d] = {e \in Entry : \A S \in SUBSET Entry :
                         Range(Items[d]) \subseteq S /\ Closed(S) => e \in S}
BY DEF Below, Entry, Closed

\* The entries of a listing lie below the directory, and so do, with a
\* directory, those of its listing.
LEMMA BelowClosed ==
    ASSUME NEW d \in Dirs
    PROVE  /\ Below[d] \subseteq Entry /\ Range(Items[d]) \subseteq Below[d]
           /\ Closed(Below[d])
<1>1. Below[d] \subseteq Entry /\ Range(Items[d]) \subseteq Below[d]
  BY BelowIs, ItemsAre
<1>2. ASSUME NEW s \in Below[d] \cap Dirs, NEW e \in Range(Items[s])
      PROVE  e \in Below[d]
  <2>1. e \in Entry BY <1>2, ItemsAre
  <2>2. ASSUME NEW S \in SUBSET Entry, Range(Items[d]) \subseteq S, Closed(S)
        PROVE  e \in S
    <3>1. s \in S BY <1>2, <2>2, BelowIs
    <3> QED BY <1>2, <2>2, <3>1 DEF Closed
  <2> QED BY <2>1, <2>2, BelowIs
<1> QED BY <1>1, <1>2 DEF Closed

\* What lies below one of them lies below the directory.
LEMMA BelowLower ==
    ASSUME NEW d \in Dirs, NEW c \in Below[d] \cap Dirs
    PROVE  Below[c] \subseteq Below[d]
<1>1. /\ Below[d] \in SUBSET Entry /\ Closed(Below[d])
      /\ Range(Items[c]) \subseteq Below[d]
  BY BelowClosed DEF Closed
<1>2. \A e \in Below[c] : \A S \in SUBSET Entry :
        Range(Items[c]) \subseteq S /\ Closed(S) => e \in S
  BY BelowIs
<1> QED BY <1>1, <1>2

\* Nothing else does.
LEMMA BelowReached ==
    ASSUME NEW d \in Dirs PROVE Below[d] = Reach(Range(Items[d]))
<1> DEFINE R == Reach(Range(Items[d]))
<1>1. R \subseteq Entry /\ Range(Items[d]) \subseteq R
  BY ItemsAre DEF Reach
<1>2. ASSUME NEW s \in R \cap Dirs, NEW e \in Range(Items[s]) PROVE e \in R
  <2>1. e \in Entry BY <1>2, ItemsAre
  <2>2. CASE s \in Range(Items[d])
    <3>1. e \in Below[s] BY <1>2, BelowClosed
    <3> QED BY <1>2, <2>1, <2>2, <3>1 DEF Reach
  <2>3. CASE s \notin Range(Items[d])
    <3>1. PICK c \in Range(Items[d]) \cap Dirs : s \in Below[c]
      BY <1>2, <2>3 DEF Reach
    <3>2. e \in Below[c] BY <1>2, <3>1, BelowClosed DEF Closed
    <3> QED BY <2>1, <3>1, <3>2 DEF Reach
  <2> QED BY <2>2, <2>3
<1>3. Closed(R) BY <1>2 DEF Closed
<1>4. Below[d] \subseteq R
  <2> HIDE DEF R
  <2> QED BY <1>1, <1>3, BelowIs
<1>5. R \subseteq Below[d]
  <2> SUFFICES ASSUME NEW c \in Range(Items[d]) \cap Dirs, NEW e \in Below[c]
               PROVE  e \in Below[d]
    BY BelowClosed DEF Reach
  <2>1. c \in Below[d] BY BelowClosed
  <2> QED BY <2>1, BelowLower
<1> QED BY <1>4, <1>5

-----------------------------------------------------------------------------
(* The entries left of a walk.                                             *)

Lists == Seq(Entry)

\* The entries that the activations of a walk have yet to look at.
Entries(w) == {e \in Entry : \E j \in 1..Len(w) : e \in Range(w[j])}

\* The last item of a sequence and the ones before it.
LEMMA LastFront ==
    ASSUME NEW S, NEW s \in Seq(S), s # <<>>
    PROVE  /\ Len(s) \in Nat /\ Len(s) >= 1
           /\ Last(s) = s[Len(s)] /\ Last(s) \in S
           /\ Front(s) \in Seq(S) /\ Len(Front(s)) = Len(s) - 1
           /\ \A i \in 1..(Len(s) - 1) : Front(s)[i] = s[i]
<1>1. Len(s) \in Nat /\ Len(s) >= 1 OBVIOUS
<1>2. Last(s) = s[Len(s)] /\ Last(s) \in S BY <1>1 DEF Last
<1>3. /\ SubSeq(s, 1, Len(s) - 1) \in Seq(S)
      /\ Len(SubSeq(s, 1, Len(s) - 1)) = Len(s) - 1
      /\ \A i \in 1..(Len(s) - 1) : SubSeq(s, 1, Len(s) - 1)[i] = s[i]
  <2> DEFINE n == Len(s) - 1
  <2>1. n \in Int /\ n >= 0 /\ \A i \in 1..n : s[i] \in S BY <1>1
  <2> HIDE DEF n
  <2>2. /\ SubSeq(s, 1, n) \in Seq(S)
        /\ Len(SubSeq(s, 1, n)) = IF 1 <= n THEN n - 1 + 1 ELSE 0
        /\ \A i \in 1..(n - 1 + 1) : SubSeq(s, 1, n)[i] = s[1 + i - 1]
    BY ONLY <2>1, SubSeqProperties, 1 \in Int
  <2>3. /\ Len(SubSeq(s, 1, n)) = n
        /\ \A i \in 1..n : SubSeq(s, 1, n)[i] = s[i]
    BY ONLY <2>1, <2>2
  <2> QED BY <2>2, <2>3 DEF n
<1> QED BY <1>1, <1>2, <1>3 DEF Front

\* The entries of the last activation and of the ones before it.
LEMMA EntriesLast ==
    ASSUME NEW w \in Seq(Lists), w # <<>>
    PROVE  Entries(w) = Entries(Front(w)) \cup Range(Last(w))
<1>1. /\ Len(w) \in Nat /\ Len(w) >= 1 /\ Last(w) = w[Len(w)]
      /\ Last(w) \in Lists /\ Len(Front(w)) = Len(w) - 1
      /\ \A i \in 1..(Len(w) - 1) : Front(w)[i] = w[i]
  BY LastFront
<1>2. Range(Last(w)) \subseteq Entry BY <1>1 DEF Range, Lists
<1>3. \A n \in Nat : n >= 1 =>
        /\ n \in 1..n /\ \A i \in 1..n : i = n \/ i \in 1..(n - 1)
        /\ \A i \in 1..(n - 1) : i \in 1..n
  OBVIOUS
<1>4. Entries(w) \subseteq Entries(Front(w)) \cup Range(Last(w))
  <2> SUFFICES ASSUME NEW e \in Entry, NEW j \in 1..Len(w), e \in Range(w[j])
               PROVE  e \in Entries(Front(w)) \cup Range(Last(w))
    BY DEF Entries
  <2>1. j = Len(w) \/ j \in 1..(Len(w) - 1) BY <1>1, <1>3
  <2> QED BY <1>1, <2>1 DEF Entries
<1>5. Range(Last(w)) \subseteq Entries(w)
  <2>1. Len(w) \in 1..Len(w) BY <1>1, <1>3
  <2> QED BY <1>1, <1>2, <2>1 DEF Entries
<1>6. Entries(Front(w)) \subseteq Entries(w)
  <2> SUFFICES ASSUME NEW e \in Entry, NEW j \in 1..(Len(w) - 1),
                      e \in Range(w[j])
               PROVE  e \in Entries(w)
    BY <1>1 DEF Entries
  <2>1. j \in 1..Len(w) BY <1>1, <1>3
  <2> QED BY <2>1 DEF Entries
<1> QED BY <1>4, <1>5, <1>6

\* One more activation.
LEMMA EntriesAppend ==
    ASSUME NEW w \in Seq(Lists), NEW s \in Lists
    PROVE  Entries(Append(w, s)) = Entries(w) \cup Range(s)
<1> DEFINE v == Append(w, s)
<1>1. /\ Len(w) \in Nat /\ Len(v) = Len(w) + 1 /\ v[Len(w) + 1] = s
      /\ \A i \in 1..Len(w) : v[i] = w[i]
  OBVIOUS
<1> HIDE DEF v
<1>2. Range(s) \subseteq Entry BY DEF Range, Lists
<1>3. \A n \in Nat : /\ n + 1 \in 1..(n + 1)
                     /\ \A i \in 1..(n + 1) : i = n + 1 \/ i \in 1..n
                     /\ \A i \in 1..n : i \in 1..(n + 1)
  OBVIOUS
<1>4. Entries(v) \subseteq Entries(w) \cup Range(s)
  <2> SUFFICES ASSUME NEW e \in Entry, NEW j \in 1..(Len(w) + 1), e \in Range(v[j])
               PROVE  e \in Entries(w) \cup Range(s)
    BY <1>1 DEF Entries
  <2>1. j = Len(w) + 1 \/ j \in 1..Len(w) BY <1>1, <1>3
  <2> QED BY <1>1, <2>1 DEF Entries
<1>5. Range(s) \subseteq Entries(v)
  <2>1. Len(w) + 1 \in 1..(Len(w) + 1) BY <1>1, <1>3
  <2> QED BY <1>1, <1>2, <2>1 DEF Entries
<1>6. Entries(w) \subseteq Entries(v)
  <2> SUFFICES ASSUME NEW e \in Entry, NEW j \in 1..Len(w), e \in Range(w[j])
               PROVE  e \in Entries(v)
    BY DEF Entries
  <2>1. j \in 1..(Len(w) + 1) BY <1>1, <1>3
  <2> QED BY <1>1, <2>1 DEF Entries
<1> QED BY <1>4, <1>5, <1>6 DEF v

\* The first entry of a listing and the rest.
LEMMA RangeHead ==
    ASSUME NEW S, NEW s \in Seq(S), s # <<>>
    PROVE  /\ Head(s) \in S /\ Tail(s) \in Seq(S)
           /\ Range(s) = {Head(s)} \cup Range(Tail(s))
<1>1. /\ Head(s) = s[1] /\ Head(s) \in S /\ Tail(s) \in Seq(S)
      /\ Len(s) \in Nat /\ Len(s) >= 1 /\ Len(Tail(s)) = Len(s) - 1
      /\ \A i \in 1..(Len(s) - 1) : Tail(s)[i] = s[i + 1]
  OBVIOUS
<1>2. \A n \in Nat : n >= 1 =>
        /\ 1 \in 1..n
        /\ \A i \in 1..n : i = 1 \/ (i - 1 \in 1..(n - 1) /\ (i - 1) + 1 = i)
        /\ \A i \in 1..(n - 1) : i + 1 \in 1..n
  OBVIOUS
<1>3. DOMAIN s = 1..Len(s) /\ DOMAIN Tail(s) = 1..(Len(s) - 1) BY <1>1
<1>4. ASSUME NEW i \in 1..Len(s) PROVE s[i] = Head(s) \/ s[i] \in Range(Tail(s))
  <2>1. i = 1 \/ (i - 1 \in 1..(Len(s) - 1) /\ (i - 1) + 1 = i)
    BY <1>1, <1>2
  <2>2. CASE i = 1 BY <1>1, <2>2
  <2>3. CASE i - 1 \in 1..(Len(s) - 1) /\ (i - 1) + 1 = i
    <3>1. Tail(s)[i - 1] = s[i] BY <1>1, <2>3
    <3> QED BY <1>3, <2>3, <3>1 DEF Range
  <2> QED BY <2>1, <2>2, <2>3
<1>5. ASSUME NEW i \in 1..(Len(s) - 1) PROVE Tail(s)[i] \in Range(s)
  <2>1. i + 1 \in 1..Len(s) /\ Tail(s)[i] = s[i + 1] BY <1>1, <1>2
  <2> QED BY <1>3, <2>1 DEF Range
<1>6. Head(s) \in Range(s) BY <1>1, <1>2, <1>3 DEF Range
<1> QED BY <1>1, <1>3, <1>4, <1>5, <1>6 DEF Range

-----------------------------------------------------------------------------
(* Types, and one walk at a time.                                          *)

\* A walk is at a directory only with that directory's entry ahead of it.
AtEntry == \A t \in Tasks : pc[t] = "dir" => Top(t) # <<>>

\* Only the task that marked the class walks.
Marked == \A t \in Tasks : pc[t] # "idle" => did = "loading"

WalkInv == TypeOK /\ AtEntry /\ Marked /\ OneLoader

LEMMA WalkTypes ==
    ASSUME WalkInv, NEW t \in Tasks, pc[t] # "idle"
    PROVE  /\ walk[t] \in Seq(Lists) /\ walk[t] # <<>>
           /\ Top(t) \in Lists /\ Front(walk[t]) \in Seq(Lists)
<1>1. walk[t] \in Seq(Lists) /\ walk[t] # <<>>
  BY DEF WalkInv, TypeOK, Lists, Entry
<1> QED BY <1>1, LastFront DEF Top

\* The innermost listing is replaced.
LEMMA NewTop ==
    ASSUME WalkInv, NEW t \in Tasks, pc[t] # "idle", NEW s \in Lists
    PROVE  /\ WithTop(t, s) \in Seq(Lists) /\ WithTop(t, s) # <<>>
           /\ Entries(WithTop(t, s)) = Entries(Front(walk[t])) \cup Range(s)
<1>1. Front(walk[t]) \in Seq(Lists) BY WalkTypes
<1> DEFINE w == Front(walk[t])
<1>2. w \in Seq(Lists) BY <1>1
<1> HIDE DEF w
<1>3. Append(w, s) \in Seq(Lists) /\ Append(w, s) # <<>>
  <2>1. Append(w, s) \in Seq(Lists) /\ Len(Append(w, s)) = Len(w) + 1 /\ Len(w) \in Nat
    BY <1>2
  <2> QED BY <2>1
<1>4. Entries(Append(w, s)) = Entries(w) \cup Range(s) BY <1>2, EntriesAppend
<1> QED BY <1>3, <1>4 DEF WithTop, w

\* What a step of task t leaves of the invariant to show.
LEMMA WalkAfter ==
    ASSUME WalkInv, NEW t \in Tasks,
           did' \in {"no", "loading", "yes"}, attrs' \subseteq Accessor,
           fails' \in 0..MaxFails,
           NEW p \in {"idle", "dir", "attr"}, pc' = [pc EXCEPT ![t] = p],
           NEW w \in Seq(Lists), walk' = [walk EXCEPT ![t] = w],
           p = "idle" <=> w = <<>>,
           p = "dir" => Last(w) # <<>> /\ Head(Last(w)) \in Dirs,
           p # "idle" => did' = "loading",
           \A u \in Tasks : u # t => pc[u] = "idle"
    PROVE  WalkInv'
<1>1. /\ pc'[t] = p /\ walk'[t] = w
      /\ \A u \in Tasks : u # t => pc'[u] = pc[u] /\ walk'[u] = walk[u]
  BY DEF WalkInv, TypeOK
<1>2. pc' \in [Tasks -> {"idle", "dir", "attr"}] BY DEF WalkInv, TypeOK
<1>3. walk' \in [Tasks -> Seq(Lists)]
  BY DEF WalkInv, TypeOK, Lists, Entry
<1>4. \A u \in Tasks : pc'[u] = "idle" <=> walk'[u] = <<>>
  BY <1>1 DEF WalkInv, TypeOK
<1>5. \A u \in Tasks : pc'[u] = "dir" =>
        Last(walk'[u]) # <<>> /\ Head(Last(walk'[u])) \in Dirs
  BY <1>1
<1>6. TypeOK'
  BY <1>2, <1>3, <1>4, <1>5 DEF TypeOK, Lists, Entry
<1>7. AtEntry' BY <1>5 DEF AtEntry, Top
<1>8. Marked' /\ OneLoader' BY <1>1 DEF Marked, OneLoader
<1> QED BY <1>6, <1>7, <1>8 DEF WalkInv

\* Whoever walks is alone.
LEMMA Alone ==
    ASSUME WalkInv, NEW t \in Tasks, pc[t] # "idle" \/ did # "loading"
    PROVE  \A u \in Tasks : u # t => pc[u] = "idle"
BY DEF WalkInv, Marked, OneLoader

LEMMA WalkInit == Init => WalkInv
<1> SUFFICES ASSUME Init PROVE WalkInv OBVIOUS
<1>1. <<>> \in Seq(Seq(Dirs \cup Leaves)) OBVIOUS
<1> QED BY <1>1, StructureAssumption
     DEF Init, WalkInv, TypeOK, AtEntry, Marked, OneLoader

\* The entries New adds are accessors.
LEMMA NewAre == \A i \in Leaves : New(i) \subseteq Accessor
BY StructureAssumption DEF New, Accessor

LEMMA WalkLoad ==
    ASSUME WalkInv, NEW t \in Tasks, pc[t] = "idle", did = "no", Load(t),
           UNCHANGED <<attrs, fails>>
    PROVE  WalkInv'
<1> DEFINE w == << <<Root>> >>
<1>1. /\ w \in Seq(Lists) /\ w # <<>> /\ Last(w) = <<Root>>
      /\ <<Root>> # <<>> /\ Head(<<Root>>) = Root
  BY StructureAssumption DEF Last, Lists, Entry
<1>2. did' = "loading" /\ pc' = [pc EXCEPT ![t] = "dir"] /\ walk' = [walk EXCEPT ![t] = w]
  BY DEF Load
<1> HIDE DEF w
<1>3. Root \in Dirs BY StructureAssumption
<1>4. \A u \in Tasks : u # t => pc[u] = "idle" BY Alone
<1>5. attrs' \subseteq Accessor /\ fails' \in 0..MaxFails
  BY DEF WalkInv, TypeOK
<1> QED BY <1>1, <1>2, <1>3, <1>4, <1>5, WalkAfter

\* The head of the innermost listing, and what its removal leaves.
LEMMA HeadIs ==
    ASSUME WalkInv, NEW t \in Tasks, pc[t] # "idle", Top(t) # <<>>
    PROVE  /\ Head(Top(t)) \in Entry /\ Tail(Top(t)) \in Lists
           /\ Entries(walk[t]) = Entries(WithTop(t, Tail(Top(t)))) \cup {Head(Top(t))}
<1>1. Top(t) \in Lists /\ walk[t] \in Seq(Lists) /\ walk[t] # <<>>
  BY WalkTypes
<1>2. /\ Head(Top(t)) \in Entry /\ Tail(Top(t)) \in Lists
      /\ Range(Top(t)) = {Head(Top(t))} \cup Range(Tail(Top(t)))
  <2> HIDE DEF Top
  <2> QED BY <1>1, RangeHead DEF Lists
<1>3. Entries(walk[t]) = Entries(Front(walk[t])) \cup Range(Top(t))
  BY <1>1, EntriesLast DEF Top
<1> QED BY <1>2, <1>3, NewTop

LEMMA WalkListing ==
    ASSUME WalkInv, NEW t \in Tasks, Listing(t)
    PROVE  WalkInv'
<1>1. pc[t] = "dir" /\ Top(t) # <<>> /\ Head(Top(t)) \in Dirs
  BY DEF Listing, WalkInv, AtEntry, TypeOK, Top
<1> DEFINE v == WithTop(t, Tail(Top(t)))
           s == Items[Head(Top(t))]
           w == Append(v, s)
<1>2. v \in Seq(Lists) /\ s \in Lists
  BY <1>1, HeadIs, NewTop, ItemsAre DEF Lists
<1>3. walk' = [walk EXCEPT ![t] = w] /\ pc' = [pc EXCEPT ![t] = "attr"]
      /\ UNCHANGED <<did, attrs, fails>>
  BY DEF Listing
<1> HIDE DEF v, s
<1>4. w \in Seq(Lists) /\ w # <<>>
  <2>1. w \in Seq(Lists) /\ Len(w) = Len(v) + 1 /\ Len(v) \in Nat BY <1>2
  <2> QED BY <2>1
<1> HIDE DEF w
<1>5. /\ did \in {"no", "loading", "yes"} /\ did = "loading"
      /\ attrs \subseteq Accessor /\ fails \in 0..MaxFails
  BY <1>1 DEF WalkInv, TypeOK, Marked
<1> QED BY <1>1, <1>3, <1>4, <1>5, Alone, WalkAfter

LEMMA WalkLeaf ==
    ASSUME WalkInv, NEW t \in Tasks, Leaf(t)
    PROVE  WalkInv'
<1>1. /\ pc[t] = "attr" /\ Top(t) # <<>> /\ Head(Top(t)) \in Leaves
      /\ attrs' = attrs \cup New(Head(Top(t))) /\ UNCHANGED <<did, pc, fails>>
      /\ walk' = [walk EXCEPT ![t] = WithTop(t, Tail(Top(t)))]
  BY DEF Leaf
<1> DEFINE w == WithTop(t, Tail(Top(t)))
<1>2. w \in Seq(Lists) /\ w # <<>> BY <1>1, HeadIs, NewTop
<1>3. walk' = [walk EXCEPT ![t] = w] BY <1>1
<1> HIDE DEF w
<1>4. attrs' \subseteq Accessor BY <1>1, NewAre DEF WalkInv, TypeOK
<1>5. /\ did \in {"no", "loading", "yes"} /\ did = "loading"
      /\ fails \in 0..MaxFails /\ pc' = [pc EXCEPT ![t] = "attr"]
  BY <1>1 DEF WalkInv, TypeOK, Marked
<1> QED BY <1>1, <1>2, <1>3, <1>4, <1>5, Alone, WalkAfter

LEMMA WalkEnter ==
    ASSUME WalkInv, NEW t \in Tasks, Enter(t)
    PROVE  WalkInv'
<1>1. /\ pc[t] = "attr" /\ Top(t) # <<>> /\ Head(Top(t)) \in Dirs
      /\ pc' = [pc EXCEPT ![t] = "dir"] /\ UNCHANGED <<did, walk, fails>>
      /\ \A a \in attrs' : a \in attrs \/ a = [at |-> Head(Top(t)), form |-> "dir"]
  BY DEF Enter
<1>2. attrs' \subseteq Accessor BY <1>1 DEF WalkInv, TypeOK, Accessor
<1>3. /\ walk[t] \in Seq(Lists) /\ walk[t] # <<>>
      /\ walk' = [walk EXCEPT ![t] = walk[t]]
  BY <1>1, WalkTypes DEF WalkInv, TypeOK
<1>4. /\ did \in {"no", "loading", "yes"} /\ did = "loading"
      /\ fails \in 0..MaxFails
  BY <1>1 DEF WalkInv, TypeOK, Marked
<1>5. Last(walk[t]) # <<>> /\ Head(Last(walk[t])) \in Dirs BY <1>1 DEF Top
<1> QED BY <1>1, <1>2, <1>3, <1>4, <1>5, Alone, WalkAfter

LEMMA WalkLeave ==
    ASSUME WalkInv, NEW t \in Tasks, Leave(t)
    PROVE  WalkInv'
<1>1. /\ pc[t] = "attr" /\ attrs' \subseteq Accessor /\ fails' \in 0..MaxFails
      /\ did = "loading"
  BY DEF Leave, WalkInv, TypeOK, Marked
<1>2. walk[t] \in Seq(Lists) /\ walk[t] # <<>> /\ Front(walk[t]) \in Seq(Lists)
  BY <1>1, WalkTypes
<1>3. \A u \in Tasks : u # t => pc[u] = "idle" BY <1>1, Alone
<1> DEFINE n == Len(walk[t])
           m == Len(Front(walk[t]))
<1>4. n \in Nat /\ m = n - 1 BY <1>2, LastFront
<1>5. Front(walk[t]) = <<>> => m = 0 OBVIOUS
<1>6. \/ /\ n > 1 /\ walk' = [walk EXCEPT ![t] = Front(walk[t])]
         /\ UNCHANGED <<did, pc>>
      \/ /\ did' = "yes" /\ walk' = [walk EXCEPT ![t] = <<>>]
         /\ pc' = [pc EXCEPT ![t] = "idle"]
  BY DEF Leave
<1> HIDE DEF n, m
<1>7. CASE /\ n > 1 /\ walk' = [walk EXCEPT ![t] = Front(walk[t])]
           /\ UNCHANGED <<did, pc>>
  <2>1. pc' = [pc EXCEPT ![t] = "attr"] BY <1>1, <1>7 DEF WalkInv, TypeOK
  <2>2. m # 0 BY ONLY <1>4, <1>7
  <2>3. Front(walk[t]) # <<>> BY <1>5, <2>2
  <2> QED BY <1>1, <1>2, <1>3, <1>7, <2>1, <2>3, WalkAfter
<1>8. CASE /\ did' = "yes" /\ walk' = [walk EXCEPT ![t] = <<>>]
           /\ pc' = [pc EXCEPT ![t] = "idle"]
  <2>1. <<>> \in Seq(Lists) OBVIOUS
  <2> QED BY <1>1, <1>3, <1>8, <2>1, WalkAfter
<1> QED BY <1>6, <1>7, <1>8

LEMMA WalkFail ==
    ASSUME WalkInv, NEW t \in Tasks, Fail(t)
    PROVE  WalkInv'
<1>1. /\ pc[t] # "idle" /\ did' = "no" /\ attrs' \subseteq Accessor
      /\ walk' = [walk EXCEPT ![t] = <<>>] /\ pc' = [pc EXCEPT ![t] = "idle"]
  BY DEF Fail, WalkInv, TypeOK
<1>2. fails' \in 0..MaxFails
  BY StructureAssumption DEF Fail, WalkInv, TypeOK
<1>3. <<>> \in Seq(Lists) OBVIOUS
<1> QED BY <1>1, <1>2, <1>3, Alone, WalkAfter

LEMMA WalkStep == WalkInv /\ [Next]_vars => WalkInv'
<1> SUFFICES ASSUME WalkInv, [Next]_vars PROVE WalkInv' OBVIOUS
<1>1. CASE UNCHANGED vars
  BY <1>1 DEF vars, WalkInv, TypeOK, AtEntry, Marked, OneLoader, Top
<1>2. ASSUME NEW t \in Tasks, Ensure(t) PROVE WalkInv'
  <2>1. CASE did # "no" BY <1>1, <1>2, <2>1 DEF Ensure, Load, vars
  <2>2. CASE did = "no" BY <1>2, <2>2, WalkLoad DEF Ensure
  <2> QED BY <2>1, <2>2
<1>3. ASSUME NEW t \in Tasks, Walk(t) \/ Fail(t) PROVE WalkInv'
  BY <1>3, WalkListing, WalkLeaf, WalkEnter, WalkLeave, WalkFail DEF Walk
<1> QED BY <1>1, <1>2, <1>3 DEF Next

\* Every variable keeps its type.
THEOREM TypeCorrect == Spec => []TypeOK
<1>1. WalkInv => TypeOK BY DEF WalkInv
<1> QED BY <1>1, WalkInit, WalkStep, PTL DEF Spec

\* Two scans never build the classes of one structure at a time.
THEOREM LoaderIsAlone == Spec => []OneLoader
<1>1. WalkInv => OneLoader BY DEF WalkInv
<1> QED BY <1>1, WalkInit, WalkStep, PTL DEF Spec

-----------------------------------------------------------------------------
(* A loaded class is complete.                                             *)

\* Of the accessors a class needs, those missing from as belong to entries
\* in E.
MissingIn(as, E) == \A a \in Described : a \in as \/ a.at \in E

\* What a walk at w, which asks for an entry or for a listing, may rely on:
\* it is inside the structure, and what is missing is ahead of it.
EntriesSound(w, as) ==
    Entries(w) \subseteq Below[Root] /\ MissingIn(as, Reach(Entries(w)))

ListingSound(v, h, as) ==
    /\ Entries(v) \subseteq Below[Root] /\ h \in Below[Root] \cup {Root}
    /\ MissingIn(as, Reach(Entries(v)) \cup Below[h])

LoadInv ==
    /\ attrs \subseteq Described
    /\ did = "yes" => Described \subseteq attrs
    /\ \A t \in Tasks : pc[t] = "attr" => EntriesSound(walk[t], attrs)
    /\ \A t \in Tasks : pc[t] = "dir" =>
         ListingSound(WithTop(t, Tail(Top(t))), Head(Top(t)), attrs)

\* Root is a directory, and Below a set of entries.
LEMMA RootBelow ==
    /\ Root \in Dirs /\ Below[Root] \subseteq Entry /\ Closed(Below[Root])
    /\ \A d \in Dirs : Below[d] \subseteq Entry
BY StructureAssumption, BelowClosed

\* What an entry adds is what the class needs of it.
LEMMA NewIsNeeded ==
    ASSUME NEW i \in Leaves, i \in Below[Root]
    PROVE  /\ New(i) \subseteq Described
           /\ \A a \in Described : a.at = i => a \in New(i)
<1>1. i \notin Dirs /\ Kind[i] \in {"simple", "array", "other"}
      /\ Access[i] \in {"ro", "wo", "rw"}
  BY StructureAssumption
<1>2. \A a : a \in New(i) <=>
        /\ a \in Accessor /\ a.at = i /\ Kind[i] # "other"
        /\ \/ a.form = "get" /\ Reads(i)
           \/ a.form = "value" /\ Reads(i) /\ i \notin Own
           \/ a.form = "set" /\ Writes(i)
           \/ a.form \in {"get_all", "value_all"} /\ Reads(i) /\ Kind[i] = "array"
           \/ a.form = "set_all" /\ Writes(i) /\ Kind[i] = "array"
  BY <1>1 DEF New, Accessor
<1>3. \A a \in Accessor : a.at = i =>
        (a \in Described <=>
           /\ Kind[i] # "other"
           /\ \/ a.form = "get" /\ Reads(i)
              \/ a.form = "value" /\ Reads(i) /\ i \notin Own
              \/ a.form = "set" /\ Writes(i)
              \/ a.form \in {"get_all", "value_all"} /\ Reads(i) /\ Kind[i] = "array"
              \/ a.form = "set_all" /\ Writes(i) /\ Kind[i] = "array")
  BY <1>1 DEF Described, Accessor
<1>4. Described \subseteq Accessor BY DEF Described
<1> QED BY <1>2, <1>3, <1>4

\* Of a directory it needs the attribute that leads there.
LEMMA DirIsNeeded ==
    ASSUME NEW i \in Dirs, i \in Below[Root]
    PROVE  /\ [at |-> i, form |-> "dir"] \in Described
           /\ \A a \in Described : a.at = i => a = [at |-> i, form |-> "dir"]
<1>1. i \notin Leaves BY StructureAssumption
<1>2. \A a \in Described : a.at = i => a.form = "dir" /\ a \in Accessor
  BY <1>1 DEF Described
<1> QED BY <1>2 DEF Described, Accessor

\* It needs nothing but what lies below the root.
LEMMA NeededBelow == \A a \in Described : a.at \in Below[Root]
BY DEF Described

LEMMA ReachParts ==
    /\ \A E, F : E \subseteq F => Reach(E) \subseteq Reach(F)
    /\ \A E, h : Reach(E \cup {h}) \subseteq
                   Reach(E) \cup {h} \cup (IF h \in Dirs THEN Below[h] ELSE {})
    /\ Reach({}) = {}
BY RootBelow DEF Reach

\* What a step of task t leaves of the invariant to show.
LEMMA LoadAfter ==
    ASSUME WalkInv, NEW t \in Tasks, \A u \in Tasks : u # t => pc[u] = "idle",
           NEW p \in {"idle", "dir", "attr"}, pc' = [pc EXCEPT ![t] = p],
           NEW w, walk' = [walk EXCEPT ![t] = w],
           attrs' \subseteq Described,
           did' = "yes" => Described \subseteq attrs',
           p = "attr" => EntriesSound(w, attrs'),
           p = "dir" => ListingSound(Append(Front(w), Tail(Last(w))),
                                     Head(Last(w)), attrs')
    PROVE  LoadInv'
<1>1. /\ pc'[t] = p /\ walk'[t] = w
      /\ \A u \in Tasks : u # t => pc'[u] = "idle"
  BY DEF WalkInv, TypeOK
<1>2. ASSUME NEW u \in Tasks, pc'[u] = "attr" PROVE EntriesSound(walk'[u], attrs')
  BY <1>1, <1>2
<1>3. ASSUME NEW u \in Tasks, pc'[u] = "dir"
      PROVE  ListingSound(Append(Front(walk'[u]), Tail(Last(walk'[u]))),
                          Head(Last(walk'[u])), attrs')
  BY <1>1, <1>3
<1> QED BY <1>2, <1>3 DEF LoadInv, EntriesSound, ListingSound, MissingIn, WithTop, Top

LEMMA LoadInit == Init => LoadInv
BY DEF Init, LoadInv

LEMMA LoadLoad ==
    ASSUME WalkInv, LoadInv, NEW t \in Tasks, pc[t] = "idle", did = "no", Load(t),
           UNCHANGED <<attrs, fails>>
    PROVE  LoadInv'
<1> DEFINE w == << <<Root>> >>
           v == Append(Front(w), Tail(Last(w)))
<1>1. Last(w) = <<Root>> /\ Head(Last(w)) = Root BY DEF Last
<1>2. Entries(v) = {}
  <2>1. Front(w) \in Seq(Lists) /\ Len(Front(w)) = 0
    <3>1. w \in Seq(Lists) /\ w # <<>> /\ Len(w) = 1
      BY RootBelow DEF Lists, Entry
    <3> HIDE DEF w
    <3> QED BY <3>1, LastFront
  <2>2. Entries(Front(w)) = {} BY <2>1 DEF Entries
  <2>3. Tail(Last(w)) = <<>> /\ Tail(Last(w)) \in Lists
    <3>1. Tail(<<Root>>) = <<>> OBVIOUS
    <3>2. <<>> \in Lists BY DEF Lists
    <3> QED BY <1>1, <3>1, <3>2
  <2>4. Range(Tail(Last(w))) = {} BY <2>3 DEF Range
  <2> HIDE DEF w
  <2> QED BY <2>1, <2>2, <2>3, <2>4, EntriesAppend
<1>3. did' = "loading" /\ pc' = [pc EXCEPT ![t] = "dir"] /\ walk' = [walk EXCEPT ![t] = w]
  BY DEF Load
<1> HIDE DEF w, v
<1>4. ListingSound(v, Head(Last(w)), attrs')
  BY <1>1, <1>2, NeededBelow DEF ListingSound, MissingIn
<1>5. attrs' \subseteq Described BY DEF LoadInv
<1> QED BY <1>3, <1>4, <1>5, Alone, LoadAfter DEF v

LEMMA LoadListing ==
    ASSUME WalkInv, LoadInv, NEW t \in Tasks, Listing(t)
    PROVE  LoadInv'
<1>1. pc[t] = "dir" /\ Top(t) # <<>> /\ Head(Top(t)) \in Dirs
  BY DEF Listing, WalkInv, AtEntry, TypeOK, Top
<1> DEFINE h == Head(Top(t))
           v == WithTop(t, Tail(Top(t)))
           w == Append(v, Items[h])
<1>2. v \in Seq(Lists) /\ Items[h] \in Lists
  BY <1>1, HeadIs, NewTop, ItemsAre DEF Lists
<1>3. ListingSound(v, h, attrs) BY <1>1 DEF LoadInv
<1>4. walk' = [walk EXCEPT ![t] = w] /\ pc' = [pc EXCEPT ![t] = "attr"]
      /\ UNCHANGED <<did, attrs, fails>> /\ did = "loading"
  BY <1>1 DEF Listing, WalkInv, Marked
<1>5. h \in Dirs BY <1>1
<1> HIDE DEF v, h
<1>6. Entries(w) = Entries(v) \cup Range(Items[h]) BY <1>2, EntriesAppend
<1> HIDE DEF w
<1>7. Range(Items[h]) \subseteq Below[Root]
  BY <1>3, <1>5, RootBelow, BelowClosed DEF ListingSound, Closed
<1>8. Reach(Entries(v)) \cup Below[h] \subseteq Reach(Entries(w))
  BY <1>5, <1>6, BelowReached, ReachParts
<1>9. EntriesSound(w, attrs')
  BY <1>3, <1>4, <1>6, <1>7, <1>8 DEF EntriesSound, ListingSound, MissingIn
<1> QED BY <1>1, <1>4, <1>9, Alone, LoadAfter DEF LoadInv

LEMMA LoadLeaf ==
    ASSUME WalkInv, LoadInv, NEW t \in Tasks, Leaf(t)
    PROVE  LoadInv'
<1> DEFINE h == Head(Top(t))
           w == WithTop(t, Tail(Top(t)))
<1>1. /\ pc[t] = "attr" /\ Top(t) # <<>> /\ h \in Leaves
      /\ attrs' = attrs \cup New(h) /\ UNCHANGED <<did, pc, fails>>
      /\ walk' = [walk EXCEPT ![t] = w] /\ did = "loading"
  BY DEF Leaf, WalkInv, Marked
<1>2. Entries(walk[t]) = Entries(w) \cup {h} BY <1>1, HeadIs
<1>3. EntriesSound(walk[t], attrs) BY <1>1 DEF LoadInv
<1>4. pc' = [pc EXCEPT ![t] = "attr"] BY <1>1 DEF WalkInv, TypeOK
<1> HIDE DEF h, w
<1>5. h \in Below[Root] /\ h \notin Dirs
  BY <1>1, <1>2, <1>3, StructureAssumption DEF EntriesSound
<1>6. attrs' \subseteq Described BY <1>1, <1>5, NewIsNeeded DEF LoadInv
<1>7. Reach(Entries(walk[t])) \subseteq Reach(Entries(w)) \cup {h}
  BY <1>2, <1>5, ReachParts
<1>8. MissingIn(attrs', Reach(Entries(w)))
  BY <1>1, <1>3, <1>5, <1>7, NewIsNeeded DEF EntriesSound, MissingIn
<1>9. EntriesSound(w, attrs') BY <1>2, <1>3, <1>8 DEF EntriesSound
<1> QED BY <1>1, <1>4, <1>6, <1>9, Alone, LoadAfter

LEMMA LoadEnter ==
    ASSUME WalkInv, LoadInv, NEW t \in Tasks, Enter(t)
    PROVE  LoadInv'
<1> DEFINE h == Head(Top(t))
           v == WithTop(t, Tail(Top(t)))
<1>1. /\ pc[t] = "attr" /\ Top(t) # <<>> /\ h \in Dirs
      /\ pc' = [pc EXCEPT ![t] = "dir"] /\ UNCHANGED <<did, walk, fails>>
      /\ attrs' = {a \in attrs : a.at \notin Below[h]} \cup {[at |-> h, form |-> "dir"]}
      /\ did = "loading"
  BY DEF Enter, WalkInv, Marked
<1>2. Entries(walk[t]) = Entries(v) \cup {h} BY <1>1, HeadIs
<1>3. EntriesSound(walk[t], attrs) BY <1>1 DEF LoadInv
<1>4. /\ walk' = [walk EXCEPT ![t] = walk[t]]
      /\ v = Append(Front(walk[t]), Tail(Last(walk[t]))) /\ h = Head(Last(walk[t]))
  BY <1>1 DEF WalkInv, TypeOK, WithTop, Top
<1> HIDE DEF h, v
<1>5. h \in Below[Root] BY <1>2, <1>3 DEF EntriesSound
<1>6. attrs' \subseteq Described BY <1>1, <1>5, DirIsNeeded DEF LoadInv
<1>7. Reach(Entries(walk[t])) \subseteq Reach(Entries(v)) \cup {h} \cup Below[h]
  BY <1>1, <1>2, ReachParts
<1>8. MissingIn(attrs', Reach(Entries(v)) \cup Below[h])
  BY <1>1, <1>3, <1>5, <1>7, DirIsNeeded DEF EntriesSound, MissingIn
<1>9. ListingSound(v, h, attrs')
  BY <1>2, <1>3, <1>5, <1>8 DEF EntriesSound, ListingSound
<1> QED BY <1>1, <1>4, <1>6, <1>9, Alone, LoadAfter

LEMMA LoadLeave ==
    ASSUME WalkInv, LoadInv, NEW t \in Tasks, Leave(t)
    PROVE  LoadInv'
<1>1. pc[t] = "attr" /\ Top(t) = <<>> /\ attrs' = attrs /\ did = "loading"
  BY DEF Leave, WalkInv, Marked
<1>2. walk[t] \in Seq(Lists) /\ walk[t] # <<>> BY <1>1, WalkTypes
<1>3. Entries(walk[t]) = Entries(Front(walk[t]))
  <2>1. Range(Top(t)) = {} BY <1>1 DEF Range
  <2> QED BY <1>2, <2>1, EntriesLast DEF Top
<1>4. EntriesSound(Front(walk[t]), attrs)
  BY <1>1, <1>3 DEF LoadInv, EntriesSound
<1>5. \A u \in Tasks : u # t => pc[u] = "idle" BY <1>1, Alone
<1>6. attrs' \subseteq Described BY <1>1 DEF LoadInv
<1> DEFINE n == Len(walk[t])
<1>7. \/ /\ walk' = [walk EXCEPT ![t] = Front(walk[t])] /\ UNCHANGED <<did, pc>>
      \/ /\ n = 1 /\ did' = "yes" /\ walk' = [walk EXCEPT ![t] = <<>>]
         /\ pc' = [pc EXCEPT ![t] = "idle"]
  BY DEF Leave
<1> HIDE DEF n
<1>8. CASE walk' = [walk EXCEPT ![t] = Front(walk[t])] /\ UNCHANGED <<did, pc>>
  <2>1. pc' = [pc EXCEPT ![t] = "attr"] BY <1>1, <1>8 DEF WalkInv, TypeOK
  <2> QED BY <1>1, <1>4, <1>5, <1>6, <1>8, <2>1, LoadAfter
<1>9. CASE /\ n = 1 /\ did' = "yes" /\ walk' = [walk EXCEPT ![t] = <<>>]
           /\ pc' = [pc EXCEPT ![t] = "idle"]
  <2>1. Len(Front(walk[t])) = 0 BY <1>2, <1>9, LastFront DEF n
  <2>2. Entries(Front(walk[t])) = {} BY <2>1 DEF Entries
  <2>3. Described \subseteq attrs
    BY <1>4, <2>2, ReachParts DEF EntriesSound, MissingIn
  <2> QED BY <1>1, <1>5, <1>6, <1>9, <2>3, LoadAfter
<1> QED BY <1>7, <1>8, <1>9

LEMMA LoadStep == WalkInv /\ LoadInv /\ [Next]_vars => LoadInv'
<1> SUFFICES ASSUME WalkInv, LoadInv, [Next]_vars PROVE LoadInv' OBVIOUS
<1>1. CASE UNCHANGED vars
  BY <1>1 DEF vars, LoadInv, EntriesSound, ListingSound, MissingIn, WithTop, Top
<1>2. ASSUME NEW t \in Tasks, Ensure(t) PROVE LoadInv'
  <2>1. CASE did # "no" BY <1>1, <1>2, <2>1 DEF Ensure, Load, vars
  <2>2. CASE did = "no" BY <1>2, <2>2, LoadLoad DEF Ensure
  <2> QED BY <2>1, <2>2
<1>3. ASSUME NEW t \in Tasks, Fail(t) PROVE LoadInv'
  <2>1. /\ pc[t] # "idle" /\ did' = "no" /\ attrs' = attrs
        /\ walk' = [walk EXCEPT ![t] = <<>>] /\ pc' = [pc EXCEPT ![t] = "idle"]
    BY <1>3 DEF Fail
  <2> QED BY <2>1, Alone, LoadAfter DEF LoadInv
<1>4. ASSUME NEW t \in Tasks, Walk(t) PROVE LoadInv'
  BY <1>4, LoadListing, LoadLeaf, LoadEnter, LoadLeave DEF Walk
<1> QED BY <1>1, <1>2, <1>3, <1>4 DEF Next

\* A class that counts as loaded has every accessor the structure describes
\* and no other, whatever the structure and however many walks failed half way
\* through.
THEOREM LoadedIsComplete == Spec => []CompleteWhenLoaded
<1>1. LoadInv => CompleteWhenLoaded BY DEF LoadInv, CompleteWhenLoaded
<1> QED BY <1>1, WalkInit, WalkStep, LoadInit, LoadStep, PTL DEF Spec
=============================================================================
