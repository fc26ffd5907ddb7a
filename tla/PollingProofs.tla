--------------------------- MODULE PollingProofs ----------------------------
(***************************************************************************)
(* The lock of a device keeps its poll tasks apart, and the interval set   *)
(* last is the one polled at, for any number of users, attributes and      *)
(* intervals.                                                              *)
(***************************************************************************)
EXTENDS Polling, SequenceTheorems, TLAPS

AtLock(c) == pc[c] \in {"lock", "store"}
Places == 1..Len(lock)

\* Who is in the queue of the lock, once each, and who may start a task.
Queue ==
    /\ \A i \in Places : AtLock(lock[i])
    /\ \A i, j \in Places : lock[i] = lock[j] => i = j
    /\ \A c \in Callers : AtLock(c) => \E i \in Places : lock[i] = c
    /\ \A c \in Callers : pc[c] = "store" => lock[1] = c

\* The table has no task of a name while a new one is being started.
Fresh == \A c \in Callers : pc[c] = "store" => poll[job[c].name] = 0 /\ job[c].name \in Names

\* A scan half way through locate() is with a device that is located.
ScanLocated == pc[Scan] \in {"push", "locate", "lock", "store"} => located

\* update_poll deals with polls of the bus.
BusStarts ==
    \A c \in Callers :
        /\ pc[c] \in {"bus", "busStore"} => todo[c] \subseteq BusNames
        /\ pc[c] = "busStore" => job[c].name \in BusNames

IInv == TypeOK /\ Queue /\ Fresh /\ ScanLocated /\ BusStarts

-----------------------------------------------------------------------------
(* The queue.                                                              *)

\* One that is taken out of a sequence: the others move up.
LEMMA TakenOut ==
    ASSUME NEW S, NEW s \in Seq(S), NEW i \in 1..Len(s),
           NEW r, r = SubSeq(s, 1, i - 1) \o SubSeq(s, i + 1, Len(s))
    PROVE  /\ r \in Seq(S) /\ Len(r) = Len(s) - 1
           /\ \A k \in 1..Len(r) : r[k] = IF k < i THEN s[k] ELSE s[k + 1]
<1> DEFINE a == SubSeq(s, 1, i - 1)
           b == SubSeq(s, i + 1, Len(s))
<1>1. a \in Seq(S) /\ Len(a) = i - 1 /\ \A k \in 1..(i - 1) : a[k] = s[k]
    OBVIOUS
<1>2. b \in Seq(S) /\ Len(b) = Len(s) - i /\ \A k \in 1..(Len(s) - i) : b[k] = s[k + i]
    OBVIOUS
<1> HIDE DEF a, b
<1>3. r = a \o b
    BY DEF a, b
<1>4. a \o b \in Seq(S) /\ Len(a \o b) = Len(s) - 1
    <2>1. Len(s) \in Nat /\ i \in Nat
        OBVIOUS
    <2>2. a \o b \in Seq(S) /\ Len(a \o b) = Len(a) + Len(b)
        BY <1>1, <1>2, ConcatProperties
    <2>3. QED
        BY <1>1, <1>2, <2>1, <2>2
<1>5. ASSUME NEW k \in 1..(Len(s) - 1) PROVE (a \o b)[k] = IF k < i THEN s[k] ELSE s[k + 1]
    <2>1. CASE k < i
        <3>1. k \in 1..(i - 1) /\ k \in 1..(Len(a) + Len(b)) /\ k <= Len(a)
            BY <1>1, <1>2, <2>1
        <3>2. (a \o b)[k] = a[k]
            BY <1>1, <1>2, <3>1, ConcatProperties
        <3>3. QED
            BY ONLY <1>1, <2>1, <3>1, <3>2
    <2>2. CASE k >= i
        <3>1. (a \o b)[k] = b[k - (i - 1)] /\ k - (i - 1) \in 1..(Len(s) - i)
            BY <1>1, <1>2, <2>2, ConcatProperties
        <3>2. QED
            BY <1>2, <2>2, <3>1
    <2>3. k \in Int /\ i \in Int
        OBVIOUS
    <2>4. k < i \/ k >= i
        BY <2>3
    <2>5. QED
        BY ONLY <2>1, <2>2, <2>3, <2>4, Zenon
<1>6. QED
    BY <1>3, <1>4, <1>5

\* A caller goes to the end of the queue.
LEMMA Queued ==
    ASSUME TypeOK, Queue, NEW c \in Callers, ~AtLock(c),
           lock' = Append(lock, c), pc' = [pc EXCEPT ![c] = "lock"]
    PROVE  Queue'
<1>1. lock \in Seq(Callers) /\ Len(lock') = Len(lock) + 1 /\ Len(lock) \in Nat
    BY DEF TypeOK
<1>2. \A i \in Places : lock'[i] = lock[i] /\ lock[i] \in Callers /\ lock[i] # c
    BY DEF TypeOK, Queue, Places, AtLock
<1>3. lock'[Len(lock) + 1] = c
    BY DEF TypeOK
<1>4. Places' = Places \cup {Len(lock) + 1}
    BY <1>1 DEF Places
<1>5. \A d \in Callers : pc'[d] = IF d = c THEN "lock" ELSE pc[d]
    BY DEF TypeOK
<1>6. \A i \in Places' : pc'[lock'[i]] \in {"lock", "store"}
    <2>1. SUFFICES ASSUME NEW i \in Places' PROVE pc'[lock'[i]] \in {"lock", "store"}
        OBVIOUS
    <2>2. CASE i \in Places
        <3>1. pc[lock[i]] \in {"lock", "store"}
            BY <2>2 DEF Queue, AtLock
        <3>2. QED
            BY <1>2, <1>5, <2>2, <3>1
    <2>3. CASE i = Len(lock) + 1
        BY <1>3, <1>5, <2>3
    <2>4. QED
        BY <1>4, <2>1, <2>2, <2>3
<1>7. \A i, j \in Places' : lock'[i] = lock'[j] => i = j
    <2>1. SUFFICES ASSUME NEW i \in Places', NEW j \in Places', lock'[i] = lock'[j] PROVE i = j
        OBVIOUS
    <2>2. CASE i \in Places /\ j \in Places
        <3>1. lock[i] = lock[j]
            BY <1>2, <2>1, <2>2
        <3>2. QED
            BY <2>2, <3>1 DEF Queue
    <2>3. CASE i = Len(lock) + 1
        BY <1>2, <1>3, <1>4, <2>1, <2>3
    <2>4. CASE j = Len(lock) + 1
        BY <1>2, <1>3, <1>4, <2>1, <2>4
    <2>5. QED
        BY <1>4, <2>2, <2>3, <2>4
<1>8. \A d \in Callers : pc'[d] \in {"lock", "store"} => \E i \in Places' : lock'[i] = d
    <2>1. SUFFICES ASSUME NEW d \in Callers, pc'[d] \in {"lock", "store"}
                   PROVE  \E i \in Places' : lock'[i] = d
        OBVIOUS
    <2>2. CASE d = c
        BY <1>3, <1>4, <2>2
    <2>3. CASE d # c
        <3>1. PICK i \in Places : lock[i] = d
            BY <1>5, <2>1, <2>3 DEF Queue, AtLock
        <3>2. QED
            BY <1>2, <1>4, <3>1
    <2>4. QED
        BY <2>2, <2>3
<1>9. (\A d \in Callers : pc[d] = "store" => lock[1] = d)'
    <2>1. SUFFICES ASSUME NEW d \in Callers, pc[d] = "store" PROVE lock'[1] = d
        BY <1>5
    <2>2. lock[1] = d /\ 1 \in Places
        BY <1>1, <2>1 DEF Queue, AtLock, Places
    <2>3. QED
        BY <1>2, <2>2
<1>10. QED
    BY <1>6, <1>7, <1>8, <1>9 DEF Queue, AtLock

\* The first of the queue goes.
LEMMA Released ==
    ASSUME TypeOK, Queue, NEW c \in Callers, lock # <<>>, lock[1] = c,
           NEW w, w \notin {"lock", "store"},
           lock' = Tail(lock), pc' = [pc EXCEPT ![c] = w]
    PROVE  Queue'
<1>1. lock \in Seq(Callers) /\ Len(lock) \in Nat \ {0} /\ Len(lock') = Len(lock) - 1
    BY DEF TypeOK
<1>2. Places' = 1..(Len(lock) - 1)
    BY <1>1 DEF Places
<1>3. \A i \in Places' : lock'[i] = lock[i + 1] /\ i + 1 \in Places /\ i \in Nat
    BY <1>1, <1>2 DEF Places
<1>4. \A i \in Places : lock[i] \in Callers
    BY <1>1 DEF Places
<1>5. \A d \in Callers : pc'[d] = IF d = c THEN w ELSE pc[d]
    BY DEF TypeOK
<1>6. \A i \in Places' : lock[i + 1] # c
    <2>1. 1 \in Places
        BY <1>1 DEF Places
    <2>2. QED
        BY <1>2, <1>3, <2>1 DEF Queue
<1>7. \A i \in Places' : pc'[lock'[i]] \in {"lock", "store"}
    <2>1. SUFFICES ASSUME NEW i \in Places' PROVE pc'[lock'[i]] \in {"lock", "store"}
        OBVIOUS
    <2>2. lock[i + 1] \in Callers /\ lock[i + 1] # c /\ AtLock(lock[i + 1])
        BY <1>3, <1>4, <1>6 DEF Queue
    <2>3. QED
        BY <1>3, <1>5, <2>2 DEF AtLock
<1>8. (\A i, j \in Places : lock[i] = lock[j] => i = j)'
    BY <1>2, <1>3 DEF Queue
<1>9. (\A d \in Callers : AtLock(d) => \E i \in Places : lock[i] = d)'
    <2>1. SUFFICES ASSUME NEW d \in Callers, AtLock(d), d # c PROVE \E i \in Places' : lock'[i] = d
        BY <1>5 DEF AtLock
    <2>2. PICK j \in Places : lock[j] = d
        BY <2>1 DEF Queue
    <2>3. j # 1
        BY <2>1, <2>2
    <2>4. j - 1 \in Places' /\ (j - 1) + 1 = j
        BY <1>1, <1>2, <2>3 DEF Places
    <2>5. QED
        BY <1>3, <2>2, <2>4
<1>10. (\A d \in Callers : pc[d] = "store" => lock[1] = d)'
    BY <1>5 DEF Queue
<1>11. QED
    BY <1>7, <1>8, <1>9, <1>10 DEF Queue, AtLock

\* One of those who wait goes.
LEMMA GivenUp ==
    ASSUME TypeOK, Queue, NEW i \in 2..Len(lock), NEW w, w \notin {"lock", "store"},
           lock' = SubSeq(lock, 1, i - 1) \o SubSeq(lock, i + 1, Len(lock)),
           pc' = [pc EXCEPT ![lock[i]] = w]
    PROVE  Queue'
<1>1. lock \in Seq(Callers) /\ Len(lock) \in Nat /\ i \in Places /\ 1 \in Places
    BY DEF TypeOK, Places
<1>2. /\ Len(lock') = Len(lock) - 1
      /\ \A k \in 1..Len(lock') : lock'[k] = IF k < i THEN lock[k] ELSE lock[k + 1]
    BY <1>1, TakenOut DEF Places
<1>3. Places' = 1..(Len(lock) - 1)
    BY <1>2 DEF Places
<1> DEFINE old(k) == IF k < i THEN k ELSE k + 1
<1>4. \A k \in Places' : old(k) \in Places /\ old(k) # i /\ lock'[k] = lock[old(k)]
    BY <1>1, <1>2, <1>3 DEF Places
<1>5. \A k, m \in Places' : old(k) = old(m) => k = m
    BY <1>1, <1>3
<1>6. \A k \in Places : lock[k] \in Callers
    BY <1>1 DEF Places
<1>7. \A d \in Callers : pc'[d] = IF d = lock[i] THEN w ELSE pc[d]
    BY DEF TypeOK
<1> HIDE DEF old
<1>8. \A k \in Places' : pc'[lock'[k]] \in {"lock", "store"}
    <2>1. SUFFICES ASSUME NEW k \in Places' PROVE pc'[lock'[k]] \in {"lock", "store"}
        OBVIOUS
    <2>2. lock[old(k)] # lock[i] /\ lock[old(k)] \in Callers /\ AtLock(lock[old(k)])
        BY <1>1, <1>4, <1>6 DEF Queue
    <2>3. QED
        BY <1>4, <1>7, <2>2 DEF AtLock
<1>9. \A k, m \in Places' : lock'[k] = lock'[m] => k = m
    <2>1. SUFFICES ASSUME NEW k \in Places', NEW m \in Places', lock'[k] = lock'[m] PROVE k = m
        OBVIOUS
    <2>2. old(k) = old(m)
        <3>1. lock[old(k)] = lock[old(m)] /\ old(k) \in Places /\ old(m) \in Places
            BY <1>4, <2>1
        <3>2. QED
            BY <3>1 DEF Queue
    <2>3. QED
        BY <1>5, <2>2
<1>10. (\A d \in Callers : AtLock(d) => \E k \in Places : lock[k] = d)'
    <2>1. SUFFICES ASSUME NEW d \in Callers, AtLock(d), d # lock[i]
                   PROVE  \E k \in Places' : lock'[k] = d
        BY <1>7 DEF AtLock
    <2>2. PICK j \in Places : lock[j] = d
        BY <2>1 DEF Queue
    <2> DEFINE k == IF j < i THEN j ELSE j - 1
    <2>3. k \in Places' /\ old(k) = j
        BY <1>1, <1>3, <2>1, <2>2 DEF Places, old
    <2>4. QED
        BY <1>4, <2>2, <2>3
<1>11. (\A d \in Callers : pc[d] = "store" => lock[1] = d)'
    <2>1. SUFFICES ASSUME NEW d \in Callers, pc[d] = "store" PROVE lock'[1] = d
        BY <1>7
    <2>2. lock[1] = d
        BY <2>1 DEF Queue
    <2>3. 1 \in 1..Len(lock') /\ 1 < i
        BY <1>1, <1>2
    <2>4. QED
        BY <1>2, <2>2, <2>3
<1>12. QED
    BY <1>8, <1>9, <1>10, <1>11 DEF Queue, AtLock

-----------------------------------------------------------------------------
(* The invariant.                                                          *)

LEMMA InitInv == Init => IInv
<1> SUFFICES ASSUME Init PROVE IInv
    OBVIOUS
<1>1. TypeOK
    <2>1. lock \in Seq(Callers) /\ task \subseteq BusNames
        BY DEF Init
    <2>2. NoJob \in Job
        BY DEF NoJob, Job
    <2>3. job \in [Callers -> Job] /\ todo \in [Callers -> SUBSET Names]
        BY <2>2 DEF Init
    <2>4. QED
        BY <2>1, <2>3 DEF Init, TypeOK
<1>2. Queue
    BY DEF Init, Queue, AtLock, Places
<1>3. Fresh /\ ScanLocated /\ BusStarts
    BY DEF Init, Fresh, ScanLocated, BusStarts, Callers
<1>4. QED
    BY <1>1, <1>2, <1>3 DEF IInv

\* A caller that is not at the lock moves elsewhere: the queue is not touched.
LEMMA Untouched ==
    ASSUME TypeOK, Queue, NEW c \in Callers, ~AtLock(c), lock' = lock,
           NEW w, w \notin {"lock", "store"}, pc' = [pc EXCEPT ![c] = w]
    PROVE  Queue'
<1>1. \A d \in Callers : pc'[d] = IF d = c THEN w ELSE pc[d]
    BY DEF TypeOK
<1>2. \A i \in Places : lock[i] \in Callers /\ lock[i] # c
    BY DEF TypeOK, Queue, Places
<1>3. QED
    BY <1>1, <1>2 DEF Queue, AtLock, Places

\* Who holds the lock is the first of the queue.
LEMMA Holder ==
    ASSUME TypeOK, Queue, NEW c \in Callers, Holds(c) \/ pc[c] = "store"
    PROVE  lock # <<>> /\ lock[1] = c /\ AtLock(c) /\ 1 \in Places
<1>1. AtLock(c)
    BY DEF Holds, AtLock
<1>2. Len(lock) \in Nat /\ Len(lock) > 0
    BY <1>1 DEF Queue, Places, TypeOK
<1>3. QED
    BY <1>1, <1>2 DEF Queue, Holds, TypeOK, Places

\* The only one that stores is the first of the queue.
LEMMA OneStores ==
    ASSUME Queue, NEW c \in Callers, NEW d \in Callers, lock[1] = c, c # d
    PROVE  pc[d] # "store"
BY DEF Queue

\* No caller begins to store and no task is entered: the table stays fresh.
LEMMA FreshKept ==
    ASSUME Fresh,
           \A c \in Callers : pc'[c] = "store" => pc[c] = "store" /\ job'[c] = job[c],
           \A n \in Names : poll[n] = 0 => poll'[n] = 0
    PROVE  Fresh'
BY DEF Fresh

\* A variable that a step leaves alone, as a step that leaves the caller's part alone.
LEMMA Same ==
    ASSUME TypeOK, NEW c \in Callers
    PROVE  /\ pc = [pc EXCEPT ![c] = pc[c]] /\ job = [job EXCEPT ![c] = job[c]]
           /\ todo = [todo EXCEPT ![c] = todo[c]]
BY DEF TypeOK

\* The steps of update_poll.
LEMMA StartBusInv ==
    ASSUME IInv, NEW c \in Callers, StartBus(c)
    PROVE  IInv'
<1>1. PICK n \in todo[c], w \in {"bus", "busStore"}, j \in Job :
         /\ todo' = [todo EXCEPT ![c] = @ \ {n}]
         /\ pc' = [pc EXCEPT ![c] = w] /\ job' = [job EXCEPT ![c] = j]
         /\ w = "busStore" => j.name = n
    <2>1. PICK n \in todo[c] :
             /\ todo' = [todo EXCEPT ![c] = @ \ {n}]
             /\ \/ UNCHANGED <<pc, job>>
                \/ At(c, "busStore") /\ job' = [job EXCEPT ![c] = [name |-> n, value |-> 0]]
        BY DEF StartBus
    <2>2. n \in Names /\ [name |-> n, value |-> 0] \in Job /\ job[c] \in Job
        BY DEF IInv, TypeOK, Job
    <2>3. CASE UNCHANGED <<pc, job>>
        BY <2>1, <2>2, <2>3, Same DEF IInv, StartBus
    <2>4. CASE At(c, "busStore") /\ job' = [job EXCEPT ![c] = [name |-> n, value |-> 0]]
        BY <2>1, <2>2, <2>4 DEF At
    <2>5. QED
        BY <2>1, <2>3, <2>4
<1>2. pc[c] = "bus" /\ UNCHANGED <<interval, located, listed, poll, task, lock, seen>>
    BY DEF StartBus, tables
<1>3. todo[c] \subseteq BusNames
    BY <1>2 DEF IInv, BusStarts
<1>4. \A d \in Callers : /\ pc'[d] = IF d = c THEN w ELSE pc[d]
                         /\ job'[d] = IF d = c THEN j ELSE job[d]
                         /\ todo'[d] = IF d = c THEN todo[c] \ {n} ELSE todo[d]
    BY <1>1 DEF IInv, TypeOK
<1>5. TypeOK'
    BY <1>1, <1>2 DEF IInv, TypeOK
<1>6. Queue'
    BY <1>1, <1>2, Untouched DEF IInv, AtLock
<1>7. Fresh'
    BY <1>2, <1>4, FreshKept DEF IInv
<1>8. ScanLocated' /\ BusStarts'
    BY <1>1, <1>2, <1>3, <1>4 DEF IInv, ScanLocated, BusStarts, Callers
<1>9. QED
    BY <1>5, <1>6, <1>7, <1>8 DEF IInv

LEMMA StoreBusInv ==
    ASSUME IInv, NEW c \in Callers, StoreBus(c) \/ EndBus(c)
    PROVE  IInv'
<1>1. PICK w \in {"bus", "idle"}, j \in Job :
         /\ pc' = [pc EXCEPT ![c] = w] /\ job' = [job EXCEPT ![c] = j]
         /\ todo' = [todo EXCEPT ![c] = todo[c]]
    BY Same DEF StoreBus, EndBus, At, NoJob, Job, IInv, TypeOK
<1>2. /\ pc[c] \in {"bus", "busStore"} /\ UNCHANGED <<interval, located, listed, poll, lock, seen>>
      /\ task' \subseteq BusNames
    BY DEF StoreBus, EndBus, tables, IInv, TypeOK, BusStarts
<1>3. \A d \in Callers : /\ pc'[d] = IF d = c THEN w ELSE pc[d]
                         /\ job'[d] = IF d = c THEN j ELSE job[d]
                         /\ todo'[d] = todo[d]
    BY <1>1 DEF IInv, TypeOK
<1>4. TypeOK'
    BY <1>1, <1>2 DEF IInv, TypeOK
<1>5. Queue'
    BY <1>1, <1>2, Untouched DEF IInv, AtLock
<1>6. Fresh'
    BY <1>1, <1>2, <1>3, FreshKept DEF IInv
<1>7. ScanLocated' /\ BusStarts'
    BY <1>1, <1>2, <1>3 DEF IInv, ScanLocated, BusStarts, Callers
<1>8. QED
    BY <1>4, <1>5, <1>6, <1>7 DEF IInv

\* The lock is taken: the caller at the head replaces the task.
LEMMA ReplaceInv ==
    ASSUME IInv, NEW c \in Callers, Replace(c)
    PROVE  IInv'
<1>1. /\ pc' = [pc EXCEPT ![c] = "store"] /\ poll' = [poll EXCEPT ![job[c].name] = 0]
      /\ UNCHANGED <<interval, located, listed, task, lock, job, todo, seen>>
      /\ Holds(c) /\ job[c].name \in Names
    BY PollingAssumption DEF Replace, At
<1>2. lock # <<>> /\ lock[1] = c /\ AtLock(c) /\ 1 \in Places
    BY <1>1, Holder DEF IInv
<1>3. \A d \in Callers : pc'[d] = IF d = c THEN "store" ELSE pc[d]
    BY <1>1 DEF IInv, TypeOK
<1>4. \A n \in Names : poll'[n] = IF n = job[c].name THEN 0 ELSE poll[n]
    BY <1>1 DEF IInv, TypeOK
<1>5. TypeOK'
    BY <1>1 DEF IInv, TypeOK
<1>6. Queue'
    <2>1. Places' = Places /\ lock' = lock /\ \A i \in Places : lock[i] \in Callers
        BY <1>1 DEF Places, IInv, TypeOK
    <2>2. \A d \in Callers : pc'[d] \in {"lock", "store"} <=> AtLock(d)
        BY <1>2, <1>3 DEF AtLock
    <2>3. \A d \in Callers : pc'[d] = "store" => lock[1] = d
        BY <1>2, <1>3 DEF IInv, Queue
    <2>4. QED
        BY <2>1, <2>2, <2>3 DEF IInv, Queue, AtLock
<1>7. Fresh'
    BY <1>1, <1>3, <1>4 DEF IInv, Fresh
<1>8. ScanLocated' /\ BusStarts'
    BY <1>1, <1>2, <1>3 DEF IInv, ScanLocated, BusStarts, AtLock, Callers
<1>9. QED
    BY <1>5, <1>6, <1>7, <1>8 DEF IInv

\* The lock is given back.
LEMMA ReturnInv ==
    ASSUME IInv, NEW c \in Callers, Store(c) \/ Remove(c) \/ NoPoll(c)
    PROVE  IInv'
<1>1. lock # <<>> /\ lock[1] = c /\ AtLock(c)
    BY Holder DEF IInv, Store, Remove, NoPoll
<1>2. PICK w \in {"locate", "idle"}, j \in Job, s \in SUBSET Names :
         /\ pc' = [pc EXCEPT ![c] = w] /\ job' = [job EXCEPT ![c] = j]
         /\ todo' = [todo EXCEPT ![c] = s]
         /\ w = "locate" => c = Scan
    <2>1. NoJob \in Job /\ todo[c] \in SUBSET Names
        BY DEF NoJob, Job, IInv, TypeOK
    <2>2. QED
        BY <2>1, Same DEF Store, Remove, NoPoll, Return, At, IInv
<1>3. lock' = Tail(lock) /\ UNCHANGED <<interval, located, listed, task>>
    BY DEF Store, Remove, NoPoll, Return
<1>4. \A d \in Callers : /\ pc'[d] = IF d = c THEN w ELSE pc[d]
                         /\ job'[d] = IF d = c THEN j ELSE job[d]
                         /\ todo'[d] = IF d = c THEN s ELSE todo[d]
    BY <1>2 DEF IInv, TypeOK
<1>5. \A d \in Callers : pc'[d] # "store"
    BY <1>1, <1>2, <1>4 DEF IInv, Queue
<1>6. TypeOK'
    <2>1. poll' \in [Names -> Values \cup {0}]
        BY DEF IInv, TypeOK, Store, Remove, NoPoll, Job
    <2>2. seen' \in [Names -> Values \cup {0}]
        BY DEF IInv, TypeOK, Store, Remove, NoPoll
    <2>3. lock' \in Seq(Callers)
        BY <1>1, <1>3 DEF IInv, TypeOK
    <2>4. QED
        BY <1>2, <1>3, <2>1, <2>2, <2>3 DEF IInv, TypeOK
<1>7. Queue'
    BY <1>1, <1>2, <1>3, Released DEF IInv
<1>8. Fresh'
    BY <1>5 DEF Fresh
<1>9. ScanLocated' /\ BusStarts'
    BY <1>1, <1>2, <1>3, <1>4 DEF IInv, ScanLocated, BusStarts, AtLock, Callers
<1>10. QED
    BY <1>6, <1>7, <1>8, <1>9 DEF IInv

\* A user gives up.
LEMMA CancelledInv ==
    ASSUME IInv, NEW u \in Users, Cancelled(u)
    PROVE  IInv'
<1>1. /\ pc' = [pc EXCEPT ![u] = "gone"]
      /\ UNCHANGED <<interval, located, listed, poll, task, job, todo, seen>>
      /\ u \in Callers /\ u # Scan
    BY PollingAssumption DEF Cancelled, At, tables, Callers
<1>2. \A d \in Callers : pc'[d] = IF d = u THEN "gone" ELSE pc[d]
    BY <1>1 DEF IInv, TypeOK
<1>3. Queue' /\ lock' \in Seq(Callers)
    <2>1. CASE \E i \in 2..Len(lock) :
                 lock[i] = u /\ lock' = SubSeq(lock, 1, i - 1) \o SubSeq(lock, i + 1, Len(lock))
        <3>1. PICK i \in 2..Len(lock) :
                 lock[i] = u /\ lock' = SubSeq(lock, 1, i - 1) \o SubSeq(lock, i + 1, Len(lock))
            BY <2>1
        <3>2. Queue'
            <4>1. TypeOK /\ Queue /\ "gone" \notin {"lock", "store"}
                BY DEF IInv
            <4>2. /\ lock' = SubSeq(lock, 1, i - 1) \o SubSeq(lock, i + 1, Len(lock))
                  /\ pc' = [pc EXCEPT ![lock[i]] = "gone"]
                BY <1>1, <3>1
            <4>3. QED
                BY ONLY <4>1, <4>2, i \in 2..Len(lock), GivenUp
        <3>3. lock \in Seq(Callers) /\ i \in 1..Len(lock)
            BY DEF IInv, TypeOK
        <3>4. lock' \in Seq(Callers)
            BY <3>1, <3>3, TakenOut
        <3>5. QED
            BY <3>2, <3>4
    <2>2. CASE pc[u] = "store" /\ lock' = Tail(lock)
        <3>1. lock # <<>> /\ lock[1] = u
            BY <1>1, <2>2, Holder DEF IInv
        <3>2. Queue'
            BY <1>1, <2>2, <3>1, Released DEF IInv
        <3>3. QED
            BY <2>2, <3>1, <3>2 DEF IInv, TypeOK
    <2>3. CASE pc[u] = "busStore" /\ lock' = lock
        BY <1>1, <2>3, Untouched DEF IInv, AtLock, TypeOK
    <2>4. QED
        BY <2>1, <2>2, <2>3 DEF Cancelled
<1>4. TypeOK'
    BY <1>1, <1>3 DEF IInv, TypeOK
<1>5. Fresh'
    BY <1>1, <1>2, FreshKept DEF IInv
<1>6. ScanLocated' /\ BusStarts'
    BY <1>1, <1>2 DEF IInv, ScanLocated, BusStarts, Callers
<1>7. QED
    BY <1>3, <1>4, <1>5, <1>6 DEF IInv

\* update_poll begins; what else the step does is to lose or find the device.
LEMMA UpdateInv ==
    ASSUME IInv, NEW c \in Callers, ~AtLock(c), NEW lists, NEW ivl, UpdatePoll(c, lists, ivl),
           interval' \in [Names -> Values \cup {0}], UNCHANGED <<located, listed, poll, lock, job, seen>>
    PROVE  IInv'
<1>1. PICK s \in SUBSET BusNames : todo' = [todo EXCEPT ![c] = s]
    BY DEF UpdatePoll, Wanted
<1>2. pc' = [pc EXCEPT ![c] = "bus"] /\ task' \subseteq BusNames
    BY DEF UpdatePoll, At, IInv, TypeOK
<1>3. \A d \in Callers : /\ pc'[d] = IF d = c THEN "bus" ELSE pc[d]
                         /\ todo'[d] = IF d = c THEN s ELSE todo[d]
    BY <1>1, <1>2 DEF IInv, TypeOK
<1>4. TypeOK'
    <2>1. todo' \in [Callers -> SUBSET Names]
        BY <1>1 DEF IInv, TypeOK, Names
    <2>2. QED
        BY <1>2, <2>1 DEF IInv, TypeOK
<1>5. Queue'
    BY <1>2, Untouched DEF IInv
<1>6. Fresh'
    BY <1>3, FreshKept DEF IInv
<1>7. ScanLocated' /\ BusStarts'
    BY <1>3 DEF IInv, ScanLocated, BusStarts, Callers
<1>8. QED
    BY <1>4, <1>5, <1>6, <1>7 DEF IInv

\* A caller goes to the lock.
LEMMA RequestInv ==
    ASSUME IInv, NEW c \in Callers, ~AtLock(c), NEW n \in Names, NEW v \in Values \cup {0},
           Request(c, n, v), c = Scan => located,
           interval' \in [Names -> Values \cup {0}], seen' \in [Names -> Values \cup {0}],
           NEW s \in SUBSET Names, todo' = [todo EXCEPT ![c] = s],
           UNCHANGED <<located, listed, poll, task>>
    PROVE  IInv'
<1>1. /\ lock' = Append(lock, c) /\ pc' = [pc EXCEPT ![c] = "lock"]
      /\ job' = [job EXCEPT ![c] = [name |-> n, value |-> v]]
      /\ [name |-> n, value |-> v] \in Job
    BY DEF Request, At, Job
<1>2. \A d \in Callers : /\ pc'[d] = IF d = c THEN "lock" ELSE pc[d]
                         /\ d # c => job'[d] = job[d] /\ todo'[d] = todo[d]
    BY <1>1 DEF IInv, TypeOK
<1>3. TypeOK'
    BY <1>1 DEF IInv, TypeOK
<1>4. Queue'
    BY <1>1, Queued DEF IInv
<1>5. Fresh'
    BY <1>2, FreshKept DEF IInv
<1>6. ScanLocated' /\ BusStarts'
    BY <1>2 DEF IInv, ScanLocated, BusStarts, Callers
<1>7. QED
    BY <1>3, <1>4, <1>5, <1>6 DEF IInv

LEMMA SetIntervalInv ==
    ASSUME IInv, NEW u \in Users, NEW n \in Names, NEW v \in Values \cup {0}, SetInterval(u, n, v)
    PROVE  IInv'
<1>1. /\ u \in Callers /\ u # Scan /\ pc[u] = "idle" /\ ~AtLock(u)
      /\ interval' \in [Names -> Values \cup {0}] /\ UNCHANGED <<located, listed>>
    BY PollingAssumption DEF SetInterval, Callers, AtLock, IInv, TypeOK
<1>2. CASE UNCHANGED <<tables, calls>>
    BY <1>1, <1>2 DEF tables, calls, IInv, TypeOK, Queue, AtLock, Places, Fresh, ScanLocated, BusStarts
<1>3. CASE UpdatePoll(u, listed, interval') /\ UNCHANGED <<poll, lock, job, seen>>
    BY <1>1, <1>3, UpdateInv
<1>4. CASE Request(u, n, v) /\ UNCHANGED <<tables, todo, seen>>
    <2>1. todo' = [todo EXCEPT ![u] = todo[u]] /\ todo[u] \in SUBSET Names
        BY <1>1, <1>4 DEF IInv, TypeOK
    <2>2. seen' \in [Names -> Values \cup {0}]
        BY <1>4 DEF IInv, TypeOK
    <2>3. QED
        BY <1>1, <1>4, <2>1, <2>2, RequestInv DEF tables
<1>5. QED
    BY <1>2, <1>3, <1>4 DEF SetInterval

\* The scan goes on, away from the lock; it may find or lose the device.
LEMMA ScanInv ==
    ASSUME IInv, ~AtLock(Scan), NEW w \in {"push", "update", "idle"}, pc' = [pc EXCEPT ![Scan] = w],
           NEW s \in SUBSET Names, todo' = [todo EXCEPT ![Scan] = s],
           located' \in BOOLEAN, listed' \in BOOLEAN, listed' => located', w = "push" => located',
           poll' \in [Names -> Values \cup {0}], \A n \in Names : poll[n] = 0 => poll'[n] = 0,
           seen' \in [Names -> Values \cup {0}], UNCHANGED <<interval, task, lock, job>>
    PROVE  IInv'
<1>1. \A d \in Callers : /\ pc'[d] = IF d = Scan THEN w ELSE pc[d]
                         /\ d # Scan => todo'[d] = todo[d]
    BY DEF IInv, TypeOK
<1>2. Scan \in Callers
    BY DEF Callers
<1>3. TypeOK'
    BY <1>2 DEF IInv, TypeOK
<1>4. Queue'
    BY <1>2, Untouched DEF IInv
<1>5. Fresh'
    BY <1>1, FreshKept DEF IInv
<1>6. ScanLocated' /\ BusStarts'
    BY <1>1, <1>2 DEF IInv, ScanLocated, BusStarts
<1>7. QED
    BY <1>3, <1>4, <1>5, <1>6 DEF IInv

LEMMA NextIntervalInv ==
    ASSUME IInv, NextInterval
    PROVE  IInv'
<1>1. /\ Scan \in Callers /\ ~AtLock(Scan) /\ located
      /\ UNCHANGED <<interval, located, listed, poll, task>>
    BY DEF NextInterval, Looping, Callers, AtLock, IInv, ScanLocated, tables
<1>2. CASE /\ seen' = Began
           /\ \E n \in Wanted(todo[Scan], interval) :
                 /\ todo' = [todo EXCEPT ![Scan] = @ \ {n}]
                 /\ Request(Scan, n, interval[n])
    <2>1. PICK n \in Wanted(todo[Scan], interval) :
             /\ todo' = [todo EXCEPT ![Scan] = @ \ {n}]
             /\ Request(Scan, n, interval[n])
        BY <1>2
    <2>2. n \in Names /\ todo[Scan] \ {n} \in SUBSET Names
        BY <1>1 DEF Wanted, IInv, TypeOK
    <2>3. interval[n] \in Values \cup {0} /\ interval' \in [Names -> Values \cup {0}]
          /\ seen' \in [Names -> Values \cup {0}]
        BY <1>1, <1>2, <2>2 DEF IInv, TypeOK, Began
    <2>4. todo' = [todo EXCEPT ![Scan] = todo[Scan] \ {n}]
        BY <2>1
    <2>5. QED
        BY <1>1, <2>1, <2>2, <2>3, <2>4, RequestInv
<1>3. CASE At(Scan, "idle") /\ EndLoop /\ UNCHANGED <<lock, job>>
    <2>1. seen' \in [Names -> Values \cup {0}] /\ {} \in SUBSET Names
        BY <1>3 DEF EndLoop
    <2>2. poll' \in [Names -> Values \cup {0}] /\ located' \in BOOLEAN /\ listed' \in BOOLEAN
        BY <1>1 DEF IInv, TypeOK
    <2>3. QED
        BY <1>1, <1>3, <2>1, <2>2, ScanInv DEF At, EndLoop
<1>4. QED
    BY <1>2, <1>3 DEF NextInterval

LEMMA FindOrLoseInv ==
    ASSUME IInv, Locate \/ Enlist \/ Rescan \/ Delocate
    PROVE  IInv'
<1>1. Scan \in Callers /\ ~AtLock(Scan)
    BY DEF Callers, AtLock, Locate, Enlist, Looping, Rescan, Delocate
<1>2. PICK w \in {"push", "update"} :
         pc' = [pc EXCEPT ![Scan] = w] /\ (w = "push" => located')
    BY DEF Locate, Enlist, Rescan, Delocate, At
<1>3. PICK s \in SUBSET Names : todo' = [todo EXCEPT ![Scan] = s]
    <2>1. todo[Scan] \in SUBSET Names /\ Names \in SUBSET Names /\ {} \in SUBSET Names
        BY <1>1 DEF IInv, TypeOK
    <2>2. QED
        BY <1>1, <2>1, Same DEF Locate, Enlist, EndLoop, Rescan, Delocate, IInv
<1>4. /\ located' \in BOOLEAN /\ listed' \in BOOLEAN /\ (listed' => located')
      /\ UNCHANGED <<interval, task, lock, job>>
    BY DEF Locate, Enlist, Looping, Rescan, Delocate, tables, IInv, TypeOK, ScanLocated
<1>5. poll' \in [Names -> Values \cup {0}] /\ \A n \in Names : poll[n] = 0 => poll'[n] = 0
    BY DEF Locate, Enlist, Rescan, Delocate, tables, IInv, TypeOK
<1>6. seen' \in [Names -> Values \cup {0}]
    BY DEF Locate, Enlist, EndLoop, Rescan, Delocate, IInv, TypeOK
<1>7. QED
    BY <1>1, <1>2, <1>3, <1>4, <1>5, <1>6, ScanInv

LEMMA ScanUpdateInv ==
    ASSUME IInv, Update
    PROVE  IInv'
<1>1. Scan \in Callers /\ ~AtLock(Scan)
    BY DEF Callers, AtLock, Update
<1>2. interval' \in [Names -> Values \cup {0}] /\ UNCHANGED <<located, listed, poll, lock, job, seen>>
    BY DEF Update, IInv, TypeOK
<1>3. QED
    BY <1>1, <1>2, UpdateInv DEF Update

LEMMA NextInv == IInv /\ [Next]_vars => IInv'
<1> SUFFICES ASSUME IInv, [Next]_vars PROVE IInv'
    OBVIOUS
<1>1. ASSUME NEW c \in Callers, Step(c) PROVE IInv'
    BY <1>1, StartBusInv, StoreBusInv, ReplaceInv, ReturnInv DEF Step
<1>2. CASE \E u \in Users : Cancelled(u)
    BY <1>2, CancelledInv
<1>3. CASE \E u \in Users, n \in Names, v \in Values \cup {0} : SetInterval(u, n, v)
    BY <1>3, SetIntervalInv
<1>4. CASE NextInterval \/ Update \/ Locate \/ Enlist \/ Rescan \/ Delocate
    BY <1>4, NextIntervalInv, ScanUpdateInv, FindOrLoseInv
<1>5. CASE UNCHANGED vars
    BY <1>5 DEF vars, tables, calls, IInv, TypeOK, Queue, AtLock, Places, Fresh, ScanLocated, BusStarts
<1>6. QED
    BY <1>1, <1>2, <1>3, <1>4, <1>5 DEF Next, ScanStep, RescanFails, Callers

-----------------------------------------------------------------------------
(* The theorems.                                                           *)

\* The tables, the queue of the lock and the callers keep their types: only
\* polls of the bus are in the table of the bus, and a device that is listed
\* is located (Bus.update_poll, Device.locate, delocate).
THEOREM TypesKept == Spec => []TypeOK
<1>1. IInv => TypeOK
    BY DEF IInv
<1>2. QED
    BY <1>1, InitInv, NextInv, PTL DEF Spec

\* An attribute is never polled twice: while a task for it is being started
\* the table has no other, for any number of users and attributes, although
\* delocate() empties the table without the lock (Device._set_poll_task).
THEOREM NeverTwoPolls == Spec => []OnePoll
<1>1. IInv => OnePoll
    BY DEF IInv, Fresh, OnePoll
<1>2. QED
    BY <1>1, InitInv, NextInv, PTL DEF Spec

-----------------------------------------------------------------------------
(* What is due.                                                            *)

\* The scan is in the loop of locate().
InLoop == pc[Scan] \in {"push", "locate", "lock", "store"}

\* What those who were cancelled were about to start.
IsLeft(n) == \E u \in Users : pc[u] = "gone" /\ (n \in todo[u] \/ job[u].name = n)

\* Caller d is in the queue of the lock before caller c.
Before(d, c) == \E i, j \in Places : i < j /\ lock[i] = d /\ lock[j] = c

\* Nobody is about to change the task of an attribute, which is the right one;
Settled(n) ==
    poll[n] = interval[n] /\ \A c \in Callers : AtLock(c) => job[c].name # n

\* or the last one in the queue who is brings the interval set last;
Coming(n) ==
    \E c \in Callers :
        /\ AtLock(c) /\ job[c].name = n /\ job[c].value = interval[n]
        /\ \A d \in Callers : AtLock(d) /\ job[d].name = n => d = c \/ Before(d, c)

\* or the scan has yet to look at it.
Provided(n) == (InLoop /\ n \in todo[Scan]) \/ Settled(n) \/ Coming(n)

PollDue ==
    /\ InLoop => ~listed
    /\ listed \/ InLoop => \A n \in DevNames : interval[n] # 0 => IsLeft(n) \/ Provided(n)

\* A caller in update_poll has a poll of the bus yet to start, or to enter.
OnItsWay(n) ==
    \E c \in Callers : \/ pc[c] \in {"bus", "busStore"} /\ n \in todo[c]
                       \/ pc[c] = "busStore" /\ job[c].name = n

BusDue ==
    listed => \A n \in BusNames :
        interval[n] # 0 => n \in task \/ pc[Scan] = "update" \/ OnItsWay(n) \/ IsLeft(n)

\* A step of one caller.
OnlyMoves(c) ==
    /\ pc[c] # "gone"
    /\ \A d \in Callers \ {c} : pc'[d] = pc[d] /\ job'[d] = job[d] /\ todo'[d] = todo[d]

LEMMA LeftKept ==
    ASSUME NEW c \in Callers, OnlyMoves(c), NEW n, IsLeft(n)
    PROVE  IsLeft(n)'
BY DEF OnlyMoves, IsLeft, Callers

LEMMA BeforeQueued ==
    ASSUME TypeOK, Queue, NEW c \in Callers, lock' = Append(lock, c)
    PROVE  /\ \A x, y : Before(x, y) => Before(x, y)'
           /\ \A x \in Callers : AtLock(x) => Before(x, c)'
<1>1. lock \in Seq(Callers) /\ Len(lock) \in Nat /\ Len(lock') = Len(lock) + 1
    BY DEF TypeOK
<1>2. \A i \in Places : i \in Places' /\ lock'[i] = lock[i]
    BY <1>1 DEF Places
<1>3. Len(lock) + 1 \in Places' /\ lock'[Len(lock) + 1] = c
    BY <1>1 DEF Places
<1>4. \A i \in Places : i < Len(lock) + 1
    BY <1>1 DEF Places
<1>5. \A x, y : Before(x, y) => Before(x, y)'
    BY <1>2 DEF Before
<1>6. ASSUME NEW x \in Callers, AtLock(x) PROVE Before(x, c)'
    <2>1. PICK i \in Places : lock[i] = x
        BY <1>6 DEF Queue
    <2>2. i \in Places' /\ lock'[i] = x /\ i < Len(lock) + 1
        BY <1>2, <1>4, <2>1
    <2>3. QED
        BY <1>3, <2>2 DEF Before
<1>7. QED
    BY <1>5, <1>6

LEMMA BeforeReleased ==
    ASSUME TypeOK, lock # <<>>, lock' = Tail(lock)
    PROVE  \A x, y : x # lock[1] /\ Before(x, y) => Before(x, y)'
<1>1. lock \in Seq(Callers) /\ Len(lock) \in Nat \ {0} /\ Len(lock') = Len(lock) - 1
    BY DEF TypeOK
<1>2. Places' = 1..(Len(lock) - 1)
    BY <1>1 DEF Places
<1>3. \A i \in Places : i # 1 => i - 1 \in Places' /\ lock'[i - 1] = lock[i]
    <2>1. SUFFICES ASSUME NEW i \in Places, i # 1 PROVE i - 1 \in Places' /\ lock'[i - 1] = lock[i]
        OBVIOUS
    <2>2. i - 1 \in 1..(Len(lock) - 1) /\ (i - 1) + 1 = i
        BY <1>1, <2>1 DEF Places
    <2>3. \A k \in 1..(Len(lock) - 1) : Tail(lock)[k] = lock[k + 1]
        BY <1>1
    <2>4. QED
        BY <1>2, <2>2, <2>3
<1>4. SUFFICES ASSUME NEW x, NEW y, x # lock[1], Before(x, y) PROVE Before(x, y)'
    OBVIOUS
<1>5. PICK i \in Places, j \in Places : i < j /\ lock[i] = x /\ lock[j] = y
    BY <1>4 DEF Before
<1>6. i # 1 /\ j # 1 /\ i \in Int /\ j \in Int
    BY <1>1, <1>4, <1>5 DEF Places
<1>7. i - 1 < j - 1
    BY <1>5, <1>6
<1>8. QED
    BY <1>3, <1>5, <1>6, <1>7 DEF Before

LEMMA BeforeGivenUp ==
    ASSUME TypeOK, NEW i \in 2..Len(lock),
           lock' = SubSeq(lock, 1, i - 1) \o SubSeq(lock, i + 1, Len(lock))
    PROVE  \A x, y : x # lock[i] /\ y # lock[i] /\ Before(x, y) => Before(x, y)'
<1>1. lock \in Seq(Callers) /\ Len(lock) \in Nat /\ i \in 1..Len(lock)
    BY DEF TypeOK
<1>2. /\ Len(lock') = Len(lock) - 1
      /\ \A k \in 1..Len(lock') : lock'[k] = IF k < i THEN lock[k] ELSE lock[k + 1]
    BY <1>1, TakenOut
<1> DEFINE new(k) == IF k < i THEN k ELSE k - 1
<1>3. \A k \in Places : k # i => new(k) \in Places' /\ lock'[new(k)] = lock[k]
    <2>1. SUFFICES ASSUME NEW k \in Places, k # i
                   PROVE  new(k) \in Places' /\ lock'[new(k)] = lock[k]
        OBVIOUS
    <2>2. k \in 1..Len(lock) /\ Places' = 1..(Len(lock) - 1)
        BY <1>2 DEF Places
    <2>3. new(k) \in 1..(Len(lock) - 1)
        BY <1>1, <2>1, <2>2
    <2>4. lock'[new(k)] = IF new(k) < i THEN lock[new(k)] ELSE lock[new(k) + 1]
        BY <1>2, <2>3
    <2>5. (IF new(k) < i THEN new(k) ELSE new(k) + 1) = k
        BY <1>1, <2>1, <2>2
    <2>6. QED
        BY <2>2, <2>3, <2>4, <2>5
<1>4. \A k, m \in Places : k < m /\ k # i /\ m # i => new(k) < new(m)
    BY <1>1 DEF Places
<1> HIDE DEF new
<1>5. QED
    BY <1>3, <1>4 DEF Before

\* What is right, or on its way, for an attribute stays so when a caller that
\* is not about to change it goes elsewhere.
LEMMA ElseKept ==
    ASSUME NEW c \in Callers, OnlyMoves(c), pc'[c] \notin {"lock", "store"},
           \A x, y \in Callers \ {c} : Before(x, y) => Before(x, y)',
           NEW n, AtLock(c) => job[c].name # n,
           poll'[n] = poll[n], interval'[n] = interval[n]
    PROVE  (Settled(n) => Settled(n)') /\ (Coming(n) => Coming(n)')
<1>1. \A d \in Callers : AtLock(d)' => d # c /\ AtLock(d) /\ job'[d] = job[d]
    BY DEF AtLock, OnlyMoves
<1>2. \A d \in Callers : AtLock(d) /\ d # c => AtLock(d)' /\ job'[d] = job[d]
    BY DEF AtLock, OnlyMoves
<1>3. Settled(n) => Settled(n)'
    BY <1>1 DEF Settled
<1>4. ASSUME Coming(n) PROVE Coming(n)'
    <2>1. PICK w \in Callers :
             /\ AtLock(w) /\ job[w].name = n /\ job[w].value = interval[n]
             /\ \A d \in Callers : AtLock(d) /\ job[d].name = n => d = w \/ Before(d, w)
        BY <1>4 DEF Coming
    <2>2. w # c
        BY <2>1
    <2>3. AtLock(w)' /\ job'[w].name = n /\ job'[w].value = interval'[n]
        BY <1>2, <2>1, <2>2
    <2>4. ASSUME NEW d \in Callers, AtLock(d)', job'[d].name = n PROVE d = w \/ Before(d, w)'
        BY <1>1, <2>1, <2>2, <2>4
    <2>5. QED
        BY <2>3, <2>4 DEF Coming
<1>5. QED
    BY <1>3, <1>4

\* A step away from the lock and from the loop of locate().
LEMMA DueElsewhere ==
    ASSUME PollDue, NEW c \in Callers, OnlyMoves(c), ~AtLock(c), c = Scan => ~InLoop,
           pc'[c] \notin {"push", "locate", "lock", "store"}, UNCHANGED <<listed, lock>>,
           \A n \in DevNames : poll'[n] = poll[n] /\ interval'[n] = interval[n]
    PROVE  PollDue'
<1>1. InLoop' <=> InLoop
    BY DEF InLoop, OnlyMoves, Callers
<1>2. InLoop => todo'[Scan] = todo[Scan]
    BY DEF OnlyMoves, Callers
<1>3. \A x, y : Before(x, y) => Before(x, y)'
    BY DEF Before, Places
<1>4. \A n \in DevNames : (Settled(n) => Settled(n)') /\ (Coming(n) => Coming(n)')
    BY <1>3, ElseKept
<1>5. \A n : IsLeft(n) => IsLeft(n)'
    BY LeftKept
<1>6. QED
    BY <1>1, <1>2, <1>4, <1>5 DEF PollDue, Provided

\* A caller that goes to the lock brings the interval it is to poll at.
LEMMA RequestDue ==
    ASSUME IInv, PollDue, NEW c \in Callers, pc[c] # "gone", ~AtLock(c),
           NEW n \in Names, NEW v, Request(c, n, v), interval'[n] = v,
           \A m \in Names \ {n} : interval'[m] = interval[m], UNCHANGED <<listed, poll>>,
           \A d \in Callers \ {c} : todo'[d] = todo[d],
           c = Scan => InLoop /\ todo[Scan] \ {n} \subseteq todo'[Scan]
    PROVE  PollDue'
<1>1. /\ lock' = Append(lock, c) /\ pc' = [pc EXCEPT ![c] = "lock"]
      /\ job' = [job EXCEPT ![c] = [name |-> n, value |-> v]]
    BY DEF Request, At
<1>2. \A d \in Callers : /\ pc'[d] = IF d = c THEN "lock" ELSE pc[d]
                         /\ job'[d] = IF d = c THEN [name |-> n, value |-> v] ELSE job[d]
    BY <1>1 DEF IInv, TypeOK
<1>3. OnlyMoves(c)
    BY <1>2 DEF OnlyMoves
<1>4. InLoop' <=> InLoop
    BY <1>2 DEF InLoop, Callers
<1>5. \A d \in Callers : AtLock(d)' <=> (d = c \/ AtLock(d))
    BY <1>2 DEF AtLock
<1>6. /\ \A x, y : Before(x, y) => Before(x, y)'
      /\ \A x \in Callers : AtLock(x) => Before(x, c)'
    BY <1>1, BeforeQueued DEF IInv
<1>7. Coming(n)'
    BY <1>2, <1>5, <1>6 DEF Coming
<1>8. ASSUME NEW m \in Names \ {n} PROVE (Settled(m) => Settled(m)') /\ (Coming(m) => Coming(m)')
    <2>1. interval'[m] = interval[m] /\ poll'[m] = poll[m]
        OBVIOUS
    <2>2. \A d \in Callers : AtLock(d)' /\ job'[d].name = m => d # c /\ AtLock(d) /\ job[d].name = m
        BY <1>2, <1>5
    <2>3. Settled(m) => Settled(m)'
        BY <2>1, <2>2 DEF Settled
    <2>4. ASSUME Coming(m) PROVE Coming(m)'
        <3>1. PICK w \in Callers :
                 /\ AtLock(w) /\ job[w].name = m /\ job[w].value = interval[m]
                 /\ \A d \in Callers : AtLock(d) /\ job[d].name = m => d = w \/ Before(d, w)
            BY <2>4 DEF Coming
        <3>2. w # c /\ AtLock(w)' /\ job'[w] = job[w]
            BY <1>2, <1>5, <3>1
        <3>3. \A d \in Callers : AtLock(d)' /\ job'[d].name = m => d = w \/ Before(d, w)'
            BY <1>6, <2>2, <3>1
        <3>4. QED
            BY <2>1, <3>1, <3>2, <3>3 DEF Coming
    <2>5. QED
        BY <2>3, <2>4
<1>9. \A m : IsLeft(m) => IsLeft(m)'
    BY <1>3, LeftKept
<1>10. \A m \in Names \ {n} : m \in todo[Scan] => m \in todo'[Scan]
    BY DEF Callers
<1>11. DevNames \subseteq Names
    BY DEF Names
<1>12. QED
    BY <1>4, <1>7, <1>8, <1>9, <1>10, <1>11 DEF PollDue, Provided

\* A caller that leaves the lock without a change to the attribute it came for,
\* having given up or having nothing more to change.
LEMMA LeavesDue ==
    ASSUME IInv, PollDue, NEW c \in Users, OnlyMoves(c), AtLock(c), pc'[c] = "gone",
           job'[c] = job[c], UNCHANGED <<listed, poll, interval>>,
           \A x, y \in Callers \ {c} : Before(x, y) => Before(x, y)'
    PROVE  PollDue'
<1>1. c \in Callers /\ c # Scan
    BY PollingAssumption DEF Callers
<1>2. InLoop' <=> InLoop
    BY <1>1 DEF InLoop, OnlyMoves, Callers
<1>3. todo'[Scan] = todo[Scan]
    BY <1>1 DEF OnlyMoves, Callers
<1>4. \A n : IsLeft(n) => IsLeft(n)'
    BY <1>1, LeftKept
<1>5. \A n \in DevNames : job[c].name = n => IsLeft(n)'
    BY DEF IsLeft
<1>6. \A n \in DevNames : job[c].name # n => (Settled(n) => Settled(n)') /\ (Coming(n) => Coming(n)')
    BY <1>1, ElseKept
<1>7. QED
    BY <1>2, <1>3, <1>4, <1>5, <1>6 DEF PollDue, Provided

LEMMA CancelledDue ==
    ASSUME IInv, PollDue, NEW u \in Users, Cancelled(u)
    PROVE  PollDue'
<1>1. /\ pc' = [pc EXCEPT ![u] = "gone"]
      /\ UNCHANGED <<interval, located, listed, poll, task, job, todo, seen>>
      /\ u \in Callers /\ u # Scan
    BY PollingAssumption DEF Cancelled, At, tables, Callers
<1>2. \A d \in Callers : pc'[d] = IF d = u THEN "gone" ELSE pc[d]
    BY <1>1 DEF IInv, TypeOK
<1>3. OnlyMoves(u)
    BY <1>1, <1>2 DEF OnlyMoves, Cancelled
<1>4. CASE pc[u] = "busStore" /\ lock' = lock
    BY <1>1, <1>2, <1>3, <1>4, DueElsewhere DEF AtLock
<1>5. CASE AtLock(u) /\ \A x, y \in Callers \ {u} : Before(x, y) => Before(x, y)'
    BY <1>1, <1>2, <1>3, <1>5, LeavesDue
<1>6. CASE pc[u] = "lock" /\ \E i \in 2..Len(lock) :
             lock[i] = u /\ lock' = SubSeq(lock, 1, i - 1) \o SubSeq(lock, i + 1, Len(lock))
    <2>1. \A x, y \in Callers \ {u} : Before(x, y) => Before(x, y)'
        BY <1>6, BeforeGivenUp DEF IInv
    <2>2. QED
        BY <1>5, <1>6, <2>1 DEF AtLock
<1>7. CASE pc[u] = "store" /\ lock' = Tail(lock)
    <2>1. lock # <<>> /\ lock[1] = u
        BY <1>1, <1>7, Holder DEF IInv
    <2>2. \A x, y \in Callers \ {u} : Before(x, y) => Before(x, y)'
        BY <1>7, <2>1, BeforeReleased DEF IInv
    <2>3. QED
        BY <1>5, <1>7, <2>2 DEF AtLock
<1>8. QED
    BY <1>4, <1>6, <1>7 DEF Cancelled

LEMMA ReplaceDue ==
    ASSUME IInv, PollDue, NEW c \in Callers, Replace(c)
    PROVE  PollDue'
<1>1. /\ pc' = [pc EXCEPT ![c] = "store"] /\ poll' = [poll EXCEPT ![job[c].name] = 0]
      /\ UNCHANGED <<interval, located, listed, task, lock, job, todo, seen>>
      /\ pc[c] = "lock" /\ job[c].name \in Names
    BY PollingAssumption DEF Replace, At, Holds
<1>2. \A d \in Callers : pc'[d] = IF d = c THEN "store" ELSE pc[d]
    BY <1>1 DEF IInv, TypeOK
<1>3. \A n \in Names : n # job[c].name => poll'[n] = poll[n]
    BY <1>1 DEF IInv, TypeOK
<1>4. InLoop' <=> InLoop
    BY <1>1, <1>2 DEF InLoop, Callers
<1>5. \A d \in Callers : AtLock(d)' <=> AtLock(d)
    BY <1>1, <1>2 DEF AtLock
<1>6. \A n : IsLeft(n) => IsLeft(n)'
    BY <1>1, <1>2 DEF IsLeft, Callers
<1>7. \A x, y : Before(x, y)' <=> Before(x, y)
    BY <1>1 DEF Before, Places
<1>8. \A n \in DevNames : Settled(n) => Settled(n)'
    <2>1. SUFFICES ASSUME NEW n \in DevNames, Settled(n) PROVE Settled(n)'
        OBVIOUS
    <2>2. n # job[c].name
        BY <1>1, <2>1 DEF Settled, AtLock
    <2>3. poll'[n] = interval'[n] /\ \A d \in Callers : AtLock(d)' => job'[d].name # n
        BY <1>1, <1>3, <1>5, <2>1, <2>2 DEF Settled, Names
    <2>4. QED
        BY <2>3 DEF Settled
<1>9. \A n \in DevNames : Coming(n) => Coming(n)'
    BY <1>1, <1>5, <1>7 DEF Coming
<1>10. QED
    BY <1>1, <1>4, <1>6, <1>8, <1>9 DEF PollDue, Provided

\* The lock is given back: the interval that was on its way has arrived.
LEMMA ReturnDue ==
    ASSUME IInv, PollDue, NEW c \in Callers, Store(c) \/ Remove(c) \/ NoPoll(c)
    PROVE  PollDue'
<1>1. lock # <<>> /\ lock[1] = c /\ AtLock(c) /\ pc[c] # "gone"
    BY Holder DEF IInv, Store, Remove, NoPoll, Holds
<1>2. lock' = Tail(lock) /\ UNCHANGED <<interval, located, listed, task>>
    BY DEF Store, Remove, NoPoll, Return
<1>3. /\ pc'[c] = IF c = Scan /\ ~NoPoll(c) THEN "locate" ELSE "idle"
      /\ \A d \in Callers \ {c} : pc'[d] = pc[d] /\ job'[d] = job[d] /\ todo'[d] = todo[d]
      /\ ~NoPoll(c) => todo'[c] = todo[c]
    BY DEF Store, Remove, NoPoll, Return, At, IInv, TypeOK
<1>4. OnlyMoves(c) /\ pc'[c] \notin {"lock", "store"}
    BY <1>1, <1>3 DEF OnlyMoves
<1>5. \A x, y \in Callers \ {c} : Before(x, y) => Before(x, y)'
    BY <1>1, <1>2, BeforeReleased DEF IInv
<1>6. \A n \in Names : n # job[c].name => poll'[n] = poll[n]
    BY DEF Store, Remove, NoPoll, IInv, TypeOK
<1>7. \A x : ~Before(x, c)
    <2>1. SUFFICES ASSUME NEW x, NEW i \in Places, NEW j \in Places, i < j, lock[j] = c
                   PROVE FALSE
        BY DEF Before
    <2>2. 1 \in Places /\ Len(lock) \in Nat
        BY <2>1 DEF Places, IInv, TypeOK
    <2>3. j = 1
        BY <1>1, <2>1, <2>2 DEF IInv, Queue
    <2>4. QED
        BY <2>1, <2>2, <2>3 DEF Places
<1>8. \A n : IsLeft(n) => IsLeft(n)'
    BY <1>4, LeftKept
<1>9. ASSUME NEW n \in DevNames, interval[n] # 0 PROVE Settled(n) \/ Coming(n) => Settled(n)' \/ Coming(n)'
    <2>1. n \in Names /\ n \in Getter
        BY PollingAssumption DEF Names
    <2>2. CASE job[c].name # n
        <3>1. poll'[n] = poll[n] /\ interval'[n] = interval[n]
            BY <1>2, <1>6, <2>1, <2>2
        <3>2. QED
            BY <1>4, <1>5, <2>2, <3>1, ElseKept
    <2>3. CASE job[c].name = n
        <3>1. SUFFICES ASSUME Coming(n) PROVE Settled(n)' \/ Coming(n)'
            BY <1>1, <2>3 DEF Settled
        <3>2. PICK w \in Callers :
                 /\ AtLock(w) /\ job[w].name = n /\ job[w].value = interval[n]
                 /\ \A d \in Callers : AtLock(d) /\ job[d].name = n => d = w \/ Before(d, w)
            BY <3>1 DEF Coming
        <3>3. CASE w = c
            <4>1. \A d \in Callers \ {c} : AtLock(d) => job[d].name # n
                BY <1>7, <3>2, <3>3
            <4>2. Store(c)
                BY <1>9, <2>1, <2>3, <3>2, <3>3 DEF Remove, NoPoll
            <4>3. poll'[n] = interval'[n]
                BY <1>2, <2>1, <2>3, <3>2, <3>3, <4>2 DEF Store, IInv, TypeOK
            <4>4. \A d \in Callers : AtLock(d)' => job'[d].name # n
                BY <1>3, <1>4, <4>1 DEF AtLock
            <4>5. QED
                BY <4>3, <4>4 DEF Settled
        <3>4. CASE w # c
            <4>1. AtLock(w)' /\ job'[w].name = n /\ job'[w].value = interval'[n]
                BY <1>2, <1>3, <3>2, <3>4 DEF AtLock
            <4>2. \A d \in Callers : AtLock(d)' /\ job'[d].name = n => d = w \/ Before(d, w)'
                BY <1>3, <1>4, <1>5, <3>2, <3>4 DEF AtLock
            <4>3. QED
                BY <4>1, <4>2 DEF Coming
        <3>5. QED
            BY <3>3, <3>4
    <2>4. QED
        BY <2>2, <2>3
<1>10. CASE c = Scan /\ NoPoll(c)
    <2>1. InLoop /\ ~InLoop'
        BY <1>1, <1>3, <1>10 DEF InLoop, AtLock
    <2>2. QED
        BY <1>2, <2>1 DEF PollDue
<1>11. CASE ~(c = Scan /\ NoPoll(c))
    <2>1. (InLoop' <=> InLoop) /\ (InLoop => todo'[Scan] = todo[Scan])
        BY <1>1, <1>3, <1>11 DEF InLoop, AtLock, Callers
    <2>2. QED
        BY <1>2, <1>8, <1>9, <2>1 DEF PollDue, Provided
<1>12. QED
    BY <1>10, <1>11

\* The steps of update_poll.
LEMMA BusStepsDue ==
    ASSUME IInv, PollDue, NEW c \in Callers, StartBus(c) \/ StoreBus(c) \/ EndBus(c)
    PROVE  PollDue'
<1>1. /\ pc[c] \in {"bus", "busStore"} /\ UNCHANGED <<interval, located, listed, poll, lock>>
      /\ \A d \in Callers \ {c} : pc'[d] = pc[d] /\ job'[d] = job[d] /\ todo'[d] = todo[d]
      /\ pc'[c] \in {"bus", "busStore", "idle"}
    BY DEF StartBus, StoreBus, EndBus, tables, At, IInv, TypeOK
<1>2. OnlyMoves(c) /\ ~AtLock(c) /\ (c = Scan => ~InLoop)
    BY <1>1 DEF OnlyMoves, AtLock, InLoop
<1>3. QED
    BY <1>1, <1>2, DueElsewhere

LEMMA UpdateDue ==
    ASSUME IInv, PollDue, NEW c \in Callers, pc[c] \in {"idle", "update"},
           NEW lists, NEW ivl, UpdatePoll(c, lists, ivl),
           UNCHANGED <<listed, poll, lock, job>>, \A n \in DevNames : interval'[n] = interval[n]
    PROVE  PollDue'
<1>1. /\ \A d \in Callers \ {c} : pc'[d] = pc[d] /\ job'[d] = job[d] /\ todo'[d] = todo[d]
      /\ pc'[c] = "bus"
    BY DEF UpdatePoll, At, IInv, TypeOK
<1>2. OnlyMoves(c) /\ ~AtLock(c) /\ (c = Scan => ~InLoop)
    BY <1>1 DEF OnlyMoves, AtLock, InLoop
<1>3. QED
    BY <1>1, <1>2, DueElsewhere

LEMMA SetIntervalDue ==
    ASSUME IInv, PollDue, NEW u \in Users, NEW n \in Names, NEW v \in Values \cup {0},
           SetInterval(u, n, v)
    PROVE  PollDue'
<1>1. /\ u \in Callers /\ u # Scan /\ pc[u] = "idle" /\ ~AtLock(u) /\ UNCHANGED listed
      /\ interval'[n] = v /\ \A m \in Names \ {n} : interval'[m] = interval[m]
    BY PollingAssumption DEF SetInterval, Callers, AtLock, IInv, TypeOK
<1>2. CASE ~located /\ UNCHANGED <<tables, calls>>
    <2>1. ~listed /\ ~InLoop
        BY <1>2 DEF IInv, TypeOK, ScanLocated, InLoop
    <2>2. ~listed' /\ ~InLoop'
        BY <1>1, <1>2, <2>1 DEF InLoop, calls
    <2>3. QED
        BY <2>2 DEF PollDue
<1>3. CASE n \in BusNames /\ UpdatePoll(u, listed, interval') /\ UNCHANGED <<poll, lock, job, seen>>
    <2>1. \A m \in DevNames : interval'[m] = interval[m]
        BY <1>1, <1>3, PollingAssumption DEF Names
    <2>2. QED
        BY <1>1, <1>3, <2>1, UpdateDue
<1>4. CASE Request(u, n, v) /\ UNCHANGED <<tables, todo, seen>>
    <2>1. UNCHANGED <<poll, todo>>
        BY <1>4 DEF tables
    <2>2. QED
        BY <1>1, <1>4, <2>1, RequestDue
<1>5. QED
    BY <1>2, <1>3, <1>4 DEF SetInterval

LEMMA NextIntervalDue ==
    ASSUME IInv, PollDue, NextInterval
    PROVE  PollDue'
<1>1. /\ Scan \in Callers /\ ~AtLock(Scan) /\ InLoop /\ pc[Scan] # "gone" /\ ~listed
      /\ UNCHANGED <<interval, located, listed, poll, task>>
    BY DEF NextInterval, Looping, Callers, AtLock, InLoop, PollDue, tables
<1>2. CASE \E n \in Wanted(todo[Scan], interval) :
                 /\ todo' = [todo EXCEPT ![Scan] = @ \ {n}]
                 /\ Request(Scan, n, interval[n])
    <2>1. PICK n \in Wanted(todo[Scan], interval) :
             /\ todo' = [todo EXCEPT ![Scan] = @ \ {n}]
             /\ Request(Scan, n, interval[n])
        BY <1>2
    <2>2. n \in Names
        BY <1>1 DEF Wanted, IInv, TypeOK
    <2>3. todo'[Scan] = todo[Scan] \ {n} /\ \A d \in Callers \ {Scan} : todo'[d] = todo[d]
        BY <1>1, <2>1 DEF IInv, TypeOK
    <2>4. QED
        BY <1>1, <2>1, <2>2, <2>3, RequestDue
<1>3. CASE At(Scan, "idle")
    <2>1. ~InLoop' /\ ~listed'
        BY <1>1, <1>3 DEF At, InLoop, IInv, TypeOK
    <2>2. QED
        BY <2>1 DEF PollDue
<1>4. QED
    BY <1>2, <1>3 DEF NextInterval

LEMMA FindOrLoseDue ==
    ASSUME IInv, PollDue, Locate \/ Enlist \/ Rescan \/ Delocate \/ Update
    PROVE  PollDue'
<1>1. Scan \in Callers /\ ~AtLock(Scan) /\ pc[Scan] # "gone"
    BY DEF Callers, AtLock, Locate, Enlist, Looping, Rescan, Delocate, Update
<1>2. CASE Locate
    <2>1. ~listed' /\ todo'[Scan] = Names /\ InLoop'
        BY <1>1, <1>2 DEF Locate, At, IInv, TypeOK, InLoop
    <2>2. QED
        BY <2>1 DEF PollDue, Provided, Names
<1>3. CASE Enlist
    <2>1. /\ InLoop /\ Wanted(todo[Scan], interval) = {} /\ lock' = lock
          /\ UNCHANGED <<interval, poll>>
          /\ \A d \in Callers : pc'[d] = IF d = Scan THEN "update" ELSE pc[d]
          /\ \A d \in Callers \ {Scan} : job'[d] = job[d] /\ todo'[d] = todo[d]
        BY <1>3 DEF Enlist, Looping, InLoop, At, EndLoop, tables, IInv, TypeOK
    <2>2. OnlyMoves(Scan) /\ ~InLoop'
        BY <1>1, <2>1 DEF OnlyMoves, InLoop, Callers
    <2>3. \A x, y : Before(x, y) => Before(x, y)'
        BY <2>1 DEF Before, Places
    <2>4. \A n \in DevNames : (Settled(n) => Settled(n)') /\ (Coming(n) => Coming(n)')
        BY <1>1, <2>1, <2>2, <2>3, ElseKept
    <2>5. \A n \in DevNames : interval[n] # 0 => n \notin todo[Scan]
        BY <2>1 DEF Wanted
    <2>6. \A n : IsLeft(n) => IsLeft(n)'
        BY <1>1, <2>2, LeftKept
    <2>7. QED
        BY <2>1, <2>2, <2>4, <2>5, <2>6 DEF PollDue, Provided
<1>4. CASE Rescan
    <2>1. /\ \A d \in Callers : pc'[d] = IF d = Scan THEN "update" ELSE pc[d]
          /\ UNCHANGED <<interval, listed, poll, lock, job, todo>> /\ ~InLoop
        BY <1>4 DEF Rescan, At, tables, InLoop, IInv, TypeOK
    <2>2. OnlyMoves(Scan)
        BY <1>1, <2>1 DEF OnlyMoves
    <2>3. QED
        BY <1>1, <2>1, <2>2, DueElsewhere
<1>5. CASE Delocate
    <2>1. ~listed' /\ ~InLoop'
        BY <1>1, <1>5 DEF Delocate, At, InLoop, IInv, TypeOK
    <2>2. QED
        BY <2>1 DEF PollDue
<1>6. CASE Update
    BY <1>1, <1>6, UpdateDue DEF Update
<1>7. QED
    BY <1>2, <1>3, <1>4, <1>5, <1>6

LEMMA DueNext == IInv /\ PollDue /\ [Next]_vars => PollDue'
<1> SUFFICES ASSUME IInv, PollDue, [Next]_vars PROVE PollDue'
    OBVIOUS
<1>1. ASSUME NEW c \in Callers, Step(c) PROVE PollDue'
    BY <1>1, BusStepsDue, ReplaceDue, ReturnDue DEF Step
<1>2. CASE \E u \in Users : Cancelled(u)
    BY <1>2, CancelledDue
<1>3. CASE \E u \in Users, n \in Names, v \in Values \cup {0} : SetInterval(u, n, v)
    BY <1>3, SetIntervalDue
<1>4. CASE NextInterval \/ Update \/ Locate \/ Enlist \/ Rescan \/ Delocate
    BY <1>4, NextIntervalDue, FindOrLoseDue
<1>5. CASE UNCHANGED vars
    BY <1>5 DEF vars, tables, calls, PollDue, InLoop, Provided, Settled, Coming, IsLeft,
                AtLock, Before, Places
<1>6. QED
    BY <1>1, <1>2, <1>3, <1>4, <1>5 DEF Next, ScanStep, RescanFails, Callers

\* A step elsewhere than in update_poll leaves alone what is on its way there.
LEMMA BusElsewhere ==
    ASSUME BusDue, NEW c \in Callers, OnlyMoves(c), pc[c] \notin {"bus", "busStore"},
           c = Scan => pc[c] # "update", UNCHANGED <<listed, task>>,
           \A n \in BusNames : interval'[n] = interval[n]
    PROVE  BusDue'
<1>1. \A n : OnItsWay(n) => OnItsWay(n)'
    BY DEF OnItsWay, OnlyMoves
<1>2. \A n : IsLeft(n) => IsLeft(n)'
    BY LeftKept
<1>3. pc[Scan] = "update" => pc'[Scan] = "update"
    BY DEF OnlyMoves, Callers
<1>4. QED
    BY <1>1, <1>2, <1>3 DEF BusDue

\* update_poll() starts, or finds, a task for every poll the device wants.
LEMMA UpdateBus ==
    ASSUME IInv, NEW c \in Callers, UpdatePoll(c, listed, interval'), UNCHANGED listed
    PROVE  BusDue'
<1>1. pc'[c] = "bus" /\ (listed => todo'[c] = {n \in BusNames : interval'[n] # 0})
    BY DEF UpdatePoll, At, Wanted, IInv, TypeOK
<1>2. QED
    BY <1>1 DEF BusDue, OnItsWay

LEMMA StartBusBus ==
    ASSUME IInv, BusDue, NEW c \in Callers, StartBus(c)
    PROVE  BusDue'
<1>1. PICK n \in todo[c] :
         /\ todo' = [todo EXCEPT ![c] = @ \ {n}]
         /\ IF n \in task THEN UNCHANGED <<pc, job>>
            ELSE At(c, "busStore") /\ job' = [job EXCEPT ![c] = [name |-> n, value |-> 0]]
    BY DEF StartBus
<1>2. pc[c] = "bus" /\ UNCHANGED <<interval, listed, task>>
    BY DEF StartBus, tables
<1>3. /\ todo'[c] = todo[c] \ {n} /\ pc'[c] \in {"bus", "busStore"}
      /\ n \in task \/ (pc'[c] = "busStore" /\ job'[c].name = n)
      /\ \A d \in Callers \ {c} : pc'[d] = pc[d] /\ job'[d] = job[d] /\ todo'[d] = todo[d]
    BY <1>1, <1>2 DEF At, IInv, TypeOK
<1>4. OnlyMoves(c)
    BY <1>2, <1>3 DEF OnlyMoves
<1>5. \A m : IsLeft(m) => IsLeft(m)'
    BY <1>4, LeftKept
<1>6. ASSUME NEW m, OnItsWay(m) PROVE m \in task' \/ OnItsWay(m)'
    <2>1. PICK d \in Callers : \/ pc[d] \in {"bus", "busStore"} /\ m \in todo[d]
                               \/ pc[d] = "busStore" /\ job[d].name = m
        BY <1>6 DEF OnItsWay
    <2>2. CASE d = c
        <3>1. m = n \/ m \in todo'[c]
            BY <1>2, <1>3, <2>1, <2>2
        <3>2. QED
            BY <1>2, <1>3, <3>1 DEF OnItsWay
    <2>3. CASE d # c
        BY <1>3, <2>1, <2>3 DEF OnItsWay
    <2>4. QED
        BY <2>2, <2>3
<1>7. pc[Scan] = "update" => pc'[Scan] = "update"
    BY <1>2, <1>3 DEF Callers
<1>8. QED
    BY <1>2, <1>5, <1>6, <1>7 DEF BusDue

LEMMA StoreBusBus ==
    ASSUME IInv, BusDue, NEW c \in Callers, StoreBus(c) \/ EndBus(c)
    PROVE  BusDue'
<1>1. /\ pc[c] \in {"bus", "busStore"} /\ UNCHANGED <<interval, listed, todo>>
      /\ pc[c] = "busStore" => pc'[c] = "bus" /\ task' = task \cup {job[c].name}
      /\ pc[c] = "bus" => todo[c] = {} /\ pc'[c] = "idle" /\ task' = task
      /\ \A d \in Callers \ {c} : pc'[d] = pc[d] /\ job'[d] = job[d]
    BY DEF StoreBus, EndBus, tables, At, IInv, TypeOK
<1>2. OnlyMoves(c)
    BY <1>1 DEF OnlyMoves
<1>3. \A m : IsLeft(m) => IsLeft(m)'
    BY <1>2, LeftKept
<1>4. ASSUME NEW m, OnItsWay(m) PROVE m \in task' \/ OnItsWay(m)'
    <2>1. PICK d \in Callers : \/ pc[d] \in {"bus", "busStore"} /\ m \in todo[d]
                               \/ pc[d] = "busStore" /\ job[d].name = m
        BY <1>4 DEF OnItsWay
    <2>2. CASE d = c
        BY <1>1, <2>1, <2>2 DEF OnItsWay
    <2>3. CASE d # c
        BY <1>1, <2>1, <2>3 DEF OnItsWay
    <2>4. QED
        BY <2>2, <2>3
<1>5. pc[Scan] = "update" => pc'[Scan] = "update"
    BY <1>1 DEF Callers
<1>6. task \subseteq task'
    BY <1>1
<1>7. QED
    BY <1>1, <1>3, <1>4, <1>5, <1>6 DEF BusDue

\* The steps at the lock.
LEMMA LockBus ==
    ASSUME IInv, BusDue, NEW c \in Callers, Replace(c) \/ Store(c) \/ Remove(c) \/ NoPoll(c)
    PROVE  BusDue'
<1>1. /\ pc[c] \in {"lock", "store"} /\ UNCHANGED <<interval, listed, task>>
      /\ \A d \in Callers \ {c} : pc'[d] = pc[d] /\ job'[d] = job[d] /\ todo'[d] = todo[d]
    BY DEF Replace, Store, Remove, NoPoll, Holds, Return, At, IInv, TypeOK
<1>2. OnlyMoves(c)
    BY <1>1 DEF OnlyMoves
<1>3. QED
    BY <1>1, <1>2, BusElsewhere

LEMMA CancelledBus ==
    ASSUME IInv, BusDue, NEW u \in Users, Cancelled(u)
    PROVE  BusDue'
<1>1. /\ pc'[u] = "gone" /\ UNCHANGED <<interval, listed, task, job, todo>>
      /\ \A d \in Callers \ {u} : pc'[d] = pc[d]
      /\ u \in Callers /\ u # Scan /\ pc[u] \in {"lock", "store", "busStore"}
    BY PollingAssumption DEF Cancelled, At, tables, Callers, IInv, TypeOK
<1>2. OnlyMoves(u)
    BY <1>1 DEF OnlyMoves
<1>3. \A m : IsLeft(m) => IsLeft(m)'
    BY <1>1, <1>2, LeftKept
<1>4. \A m : OnItsWay(m) => OnItsWay(m)' \/ IsLeft(m)'
    BY <1>1 DEF OnItsWay, IsLeft
<1>5. pc[Scan] = "update" => pc'[Scan] = "update"
    BY <1>1 DEF Callers
<1>6. QED
    BY <1>1, <1>3, <1>4, <1>5 DEF BusDue

LEMMA SetIntervalBus ==
    ASSUME IInv, BusDue, NEW u \in Users, NEW n \in Names, NEW v \in Values \cup {0},
           SetInterval(u, n, v)
    PROVE  BusDue'
<1>1. /\ u \in Callers /\ u # Scan /\ pc[u] = "idle" /\ UNCHANGED listed
      /\ \A m \in Names \ {n} : interval'[m] = interval[m]
    BY PollingAssumption DEF SetInterval, Callers, IInv, TypeOK
<1>2. CASE ~located
    BY <1>1, <1>2 DEF BusDue, IInv, TypeOK
<1>3. CASE UpdatePoll(u, listed, interval')
    BY <1>1, <1>3, UpdateBus
<1>4. CASE n \notin BusNames /\ Request(u, n, v) /\ UNCHANGED <<tables, todo, seen>>
    <2>1. \A d \in Callers \ {u} : pc'[d] = pc[d] /\ job'[d] = job[d] /\ todo'[d] = todo[d]
        BY <1>4 DEF Request, At, IInv, TypeOK
    <2>2. OnlyMoves(u)
        BY <1>1, <2>1 DEF OnlyMoves
    <2>3. \A m \in BusNames : interval'[m] = interval[m]
        BY <1>1, <1>4 DEF Names
    <2>4. task' = task
        BY <1>4 DEF tables
    <2>5. QED
        BY <1>1, <2>2, <2>3, <2>4, BusElsewhere
<1>5. QED
    BY <1>2, <1>3, <1>4 DEF SetInterval

LEMMA ScanBus ==
    ASSUME IInv, BusDue, NextInterval \/ Update \/ Locate \/ Enlist \/ Rescan \/ Delocate
    PROVE  BusDue'
<1>1. Scan \in Callers
    BY DEF Callers
<1>2. CASE NextInterval
    <2>1. /\ pc[Scan] \in {"push", "locate"} /\ UNCHANGED <<interval, listed, task>>
          /\ \A d \in Callers \ {Scan} : pc'[d] = pc[d] /\ job'[d] = job[d] /\ todo'[d] = todo[d]
        BY <1>2 DEF NextInterval, Looping, Request, EndLoop, tables, At, IInv, TypeOK
    <2>2. OnlyMoves(Scan)
        BY <2>1 DEF OnlyMoves
    <2>3. QED
        BY <1>1, <2>1, <2>2, BusElsewhere
<1>3. CASE Update
    BY <1>1, <1>3, UpdateBus DEF Update
<1>4. CASE Locate \/ Delocate
    BY <1>4 DEF Locate, Delocate, BusDue, IInv, TypeOK
<1>5. CASE Enlist \/ Rescan
    <2>1. pc'[Scan] = "update"
        BY <1>1, <1>5 DEF Enlist, Rescan, At, IInv, TypeOK
    <2>2. QED
        BY <2>1 DEF BusDue
<1>6. QED
    BY <1>2, <1>3, <1>4, <1>5

LEMMA BusNext == IInv /\ BusDue /\ [Next]_vars => BusDue'
<1> SUFFICES ASSUME IInv, BusDue, [Next]_vars PROVE BusDue'
    OBVIOUS
<1>1. ASSUME NEW c \in Callers, Step(c) PROVE BusDue'
    BY <1>1, StartBusBus, StoreBusBus, LockBus DEF Step
<1>2. CASE \E u \in Users : Cancelled(u)
    BY <1>2, CancelledBus
<1>3. CASE \E u \in Users, n \in Names, v \in Values \cup {0} : SetInterval(u, n, v)
    BY <1>3, SetIntervalBus
<1>4. CASE NextInterval \/ Update \/ Locate \/ Enlist \/ Rescan \/ Delocate
    BY <1>4, ScanBus
<1>5. CASE UNCHANGED vars
    BY <1>5 DEF vars, tables, calls, BusDue, OnItsWay, IsLeft
<1>6. QED
    BY <1>1, <1>2, <1>3, <1>4, <1>5 DEF Next, ScanStep, RescanFails, Callers

-----------------------------------------------------------------------------
(* The theorems about what is polled in the end.                           *)

LEMMA InLeft == \A n : IsLeft(n) => n \in Left
BY DEF IsLeft, Left

\* When all calls have returned and the bus lists the device, an attribute is
\* polled at the interval set last, for any number of users, attributes and
\* intervals: the queue of the lock ends with the caller that brings it
\* (Device.set_polling_interval, locate, _set_poll_task).
THEOREM LastSettingHolds == Spec => []LastIntervalWins
<1>1. Init => PollDue
    <2>1. Init => ~InLoop /\ ~listed
        BY DEF Init, InLoop, Callers
    <2>2. QED
        BY <2>1 DEF PollDue
<1>2. IInv /\ PollDue => LastIntervalWins
    <2>1. SUFFICES ASSUME IInv, PollDue, Quiet, listed, NEW n \in DevNames \ Left, interval[n] # 0
                   PROVE  poll[n] = interval[n]
        BY DEF LastIntervalWins
    <2>2. ~InLoop /\ \A c \in Callers : ~AtLock(c)
        BY <2>1 DEF Quiet, InLoop, AtLock, Callers
    <2>3. Settled(n)
        BY <2>1, <2>2, InLeft DEF PollDue, Provided, Coming
    <2>4. QED
        BY <2>3 DEF Settled
<1>3. QED
    BY <1>1, <1>2, InitInv, NextInv, DueNext, PTL DEF Spec

\* Then, too, every poll the device wants of its bus has its task there,
\* although update_poll() runs for several callers at once and lets them run
\* between the start of a task and its entry (Bus.update_poll).
THEOREM WantedHasTask == Spec => []WantedOnBus
<1>1. Init => BusDue
    BY DEF Init, BusDue
<1>2. IInv /\ BusDue => WantedOnBus
    <2>1. SUFFICES ASSUME IInv, BusDue, Quiet, listed, NEW n \in BusNames \ Left, interval[n] # 0
                   PROVE  n \in task
        BY DEF WantedOnBus
    <2>2. pc[Scan] # "update" /\ ~OnItsWay(n)
        BY <2>1 DEF Quiet, OnItsWay, Callers
    <2>3. QED
        BY <2>1, <2>2, InLeft DEF BusDue
<1>3. QED
    BY <1>1, <1>2, InitInv, NextInv, BusNext, PTL DEF Spec
=============================================================================
