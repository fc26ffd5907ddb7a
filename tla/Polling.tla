------------------------------ MODULE Polling -------------------------------
(***************************************************************************)
(* Polling one device: the tasks of its bus, one per kind of poll          *)
(* (Bus.update_poll), and the device's own tasks, one per attribute        *)
(* (Device._set_poll_task), while users change intervals and scans find    *)
(* and lose the device (device.py, bus.py, Service.add_task).              *)
(*                                                                         *)
(* add_task() starts a task and then waits for its scope: other callers    *)
(* run between the start of a task and its entry in the table of tasks.    *)
(* A task that falls out of its table goes on polling: it is not followed. *)
(* The lock of the device is handed on in the order of the requests.       *)
(* A user names an attribute always in the same form.                      *)
(***************************************************************************)
EXTENDS Naturals, Sequences, FiniteSets

CONSTANTS Users,      \* tasks that call set_polling_interval
          Scan,       \* the scan of the bus
          BusNames,   \* kinds of poll a device has a method poll_<kind> for
          DevNames,   \* other attributes
          Getter,     \* the names with a get_<name> accessor
          Values,     \* intervals
          Nothing     \* no name

Names == BusNames \cup DevNames
Callers == Users \cup {Scan}

ASSUME PollingAssumption ==
    /\ Scan \notin Users /\ Nothing \notin Names
    /\ BusNames \cap DevNames = {} /\ DevNames \subseteq Getter /\ Getter \subseteq Names
    /\ Values \subseteq Nat \ {0}

VARIABLES
    interval,  \* Device._intervals; 0: no entry
    located,   \* Device.bus is the bus
    listed,    \* the bus has the device in _devices
    poll,      \* Device._poll: the interval of the task of each name, or 0
    task,      \* Bus._tasks: the names that have one
    lock,      \* Device._task_lock: its holder and those who wait
    pc, job,   \* where each caller is, and what it starts
    todo,      \* names a caller has yet to start, or locate() to look at
    seen       \* _intervals when locate() began its loop over it

tables == <<poll, task>>
calls  == <<lock, pc, job, todo, seen>>
vars   == <<interval, located, listed, tables, calls>>

Job == [name : Names \cup {Nothing}, value : Values \cup {0}]
NoJob == [name |-> Nothing, value |-> 0]

TypeOK ==
    /\ interval \in [Names -> Values \cup {0}]
    /\ located \in BOOLEAN /\ listed \in BOOLEAN /\ (listed => located)
    /\ poll \in [Names -> Values \cup {0}] /\ task \subseteq BusNames
    /\ lock \in Seq(Callers)
    /\ pc \in [Callers -> {"idle", "locate", "lock", "store", "bus", "busStore",
                         "push", "update", "gone"}]
    /\ job \in [Callers -> Job] /\ todo \in [Callers -> SUBSET Names]
    /\ seen \in [Names -> Values \cup {0}]

Init ==
    /\ interval = [n \in Names |-> 0]
    /\ located = FALSE /\ listed = FALSE
    /\ poll = [n \in Names |-> 0] /\ task = {}
    /\ lock = <<>> /\ pc = [c \in Callers |-> "idle"]
    /\ job = [c \in Callers |-> NoJob] /\ todo = [c \in Callers |-> {}]
    /\ seen = [n \in Names |-> 0]

Wanted(names, ivl) == {n \in names : ivl[n] # 0}

At(c, where) == pc' = [pc EXCEPT ![c] = where]

-----------------------------------------------------------------------------
(* Bus.update_poll.                                                        *)

\* What the device wants is read, and tasks nobody wants are cancelled.
UpdatePoll(c, lists, ivl) ==
    LET items == IF lists THEN Wanted(BusNames, ivl) ELSE {} IN
      /\ task' = task \cap items
      /\ todo' = [todo EXCEPT ![c] = items]
      /\ At(c, "bus")

\* The next name: its task is started unless there is one.
StartBus(c) ==
    /\ pc[c] = "bus"
    /\ \E n \in todo[c] :
         /\ todo' = [todo EXCEPT ![c] = @ \ {n}]
         /\ IF n \in task THEN UNCHANGED <<pc, job>>
            ELSE At(c, "busStore") /\ job' = [job EXCEPT ![c] = [name |-> n, value |-> 0]]
    /\ UNCHANGED <<interval, located, listed, tables, lock, seen>>

\* Mutant: a starter that finds the name taken takes it out and cancels both tasks.
StoreBusCancels(c) ==
    /\ pc[c] = "busStore"
    /\ task' = IF job[c].name \in task THEN task \ {job[c].name} ELSE task \cup {job[c].name}
    /\ At(c, "bus") /\ job' = [job EXCEPT ![c] = NoJob]
    /\ UNCHANGED <<interval, located, listed, poll, lock, todo, seen>>

\* A task that another caller has entered meanwhile is forgotten.
StoreBus(c) ==
    /\ pc[c] = "busStore"
    /\ task' = task \cup {job[c].name}
    /\ At(c, "bus") /\ job' = [job EXCEPT ![c] = NoJob]
    /\ UNCHANGED <<interval, located, listed, poll, lock, todo, seen>>

EndBus(c) ==
    /\ pc[c] = "bus" /\ todo[c] = {} /\ At(c, "idle")
    /\ UNCHANGED <<interval, located, listed, tables, lock, job, todo, seen>>

-----------------------------------------------------------------------------
(* Device._set_poll_task.                                                  *)

\* The caller waits for the lock.
Request(c, n, v) ==
    /\ lock' = Append(lock, c) /\ At(c, "lock")
    /\ job' = [job EXCEPT ![c] = [name |-> n, value |-> v]]

Holds(c) == pc[c] = "lock" /\ Head(lock) = c

\* The lock is given back and the caller goes on.
Return(c) ==
    /\ lock' = Tail(lock) /\ At(c, IF c = Scan THEN "locate" ELSE "idle")
    /\ job' = [job EXCEPT ![c] = NoJob]

\* Mutant: the lock is not waited for.
ReplaceUnlocked(c) ==
    /\ pc[c] = "lock" /\ job[c].value # 0 /\ job[c].name \in Getter
    /\ poll' = [poll EXCEPT ![job[c].name] = 0]
    /\ At(c, "store")
    /\ UNCHANGED <<interval, located, listed, task, lock, job, todo, seen>>

\* The old task is cancelled and the new one started.
Replace(c) ==
    /\ Holds(c) /\ job[c].value # 0 /\ job[c].name \in Getter
    /\ poll' = [poll EXCEPT ![job[c].name] = 0]
    /\ At(c, "store")
    /\ UNCHANGED <<interval, located, listed, task, lock, job, todo, seen>>

Store(c) ==
    /\ pc[c] = "store"
    /\ poll' = [poll EXCEPT ![job[c].name] = job[c].value]
    /\ Return(c)
    /\ UNCHANGED <<interval, located, listed, task, todo, seen>>

\* No interval: the old task is cancelled, no other started.
Remove(c) ==
    /\ Holds(c) /\ job[c].value = 0
    /\ poll' = [poll EXCEPT ![job[c].name] = 0]
    /\ Return(c)
    /\ UNCHANGED <<interval, located, listed, task, todo, seen>>

\* Mutant: the error leaves the lock taken.
NoPollKeepsLock(c) ==
    /\ Holds(c) /\ job[c].value # 0 /\ job[c].name \notin Getter
    /\ poll' = [poll EXCEPT ![job[c].name] = 0]
    /\ At(c, "idle") /\ job' = [job EXCEPT ![c] = NoJob] /\ todo' = [todo EXCEPT ![c] = {}]
    /\ UNCHANGED <<interval, located, listed, task, lock, seen>>

\* There is nothing to read: RuntimeError, also out of locate(), which leaves
\* the device located and not on the list of its bus: every later scan fails.
NoPoll(c) ==
    /\ Holds(c) /\ job[c].value # 0 /\ job[c].name \notin Getter
    /\ poll' = [poll EXCEPT ![job[c].name] = 0]
    /\ lock' = Tail(lock) /\ At(c, "idle")
    /\ job' = [job EXCEPT ![c] = NoJob] /\ todo' = [todo EXCEPT ![c] = {}]
    /\ seen' = IF c = Scan THEN [n \in Names |-> 0] ELSE seen
    /\ UNCHANGED <<interval, located, listed, task>>

\* A user is cancelled where it waits: for the lock, or for the scope of the
\* task it has started, which goes on without being known.
Cancelled(u) ==
    /\ \/ /\ pc[u] = "lock"
          /\ \E i \in 2..Len(lock) :
               lock[i] = u /\ lock' = SubSeq(lock, 1, i - 1) \o SubSeq(lock, i + 1, Len(lock))
       \/ /\ pc[u] \in {"store", "busStore"}
          /\ lock' = IF pc[u] = "store" THEN Tail(lock) ELSE lock
    /\ At(u, "gone")
    /\ UNCHANGED <<interval, located, listed, tables, job, todo, seen>>

-----------------------------------------------------------------------------
(* Device.set_polling_interval.                                            *)

SetInterval(u, n, v) ==
    /\ pc[u] = "idle"
    /\ interval' = [interval EXCEPT ![n] = v]
    /\ \/ /\ ~located
          /\ UNCHANGED <<tables, calls>>
       \/ /\ located /\ n \in BusNames
          /\ UpdatePoll(u, listed, interval')
          /\ UNCHANGED <<poll, lock, job, seen>>
       \/ /\ located /\ n \notin BusNames
          /\ Request(u, n, v)
          /\ UNCHANGED <<tables, todo, seen>>
    /\ UNCHANGED <<located, listed>>

-----------------------------------------------------------------------------
(* The scan.                                                               *)

\* Device.locate: its event is pushed,
Locate ==
    /\ pc[Scan] = "idle" /\ ~located
    /\ located' = TRUE /\ At(Scan, "push")
    /\ todo' = [todo EXCEPT ![Scan] = Names]
    /\ UNCHANGED <<interval, listed, tables, lock, job, seen>>

\* and a task started for every interval, one after the other.
Looping == pc[Scan] \in {"push", "locate"}
Began == IF pc[Scan] = "push" THEN interval ELSE seen

SameSize == Cardinality(Wanted(Names, interval)) = Cardinality(Wanted(Names, Began))

EndLoop ==
    /\ todo' = [todo EXCEPT ![Scan] = {}] /\ seen' = [n \in Names |-> 0]

\* The loop goes over the dict itself, and fails when its size has changed;
\* then the device is located but not entered in the list of the bus.
NextInterval ==
    /\ Looping
    /\ \/ /\ SameSize /\ seen' = Began
          /\ \E n \in Wanted(todo[Scan], interval) :
               /\ todo' = [todo EXCEPT ![Scan] = @ \ {n}]
               /\ Request(Scan, n, interval[n])
       \/ /\ ~SameSize
          /\ At(Scan, "idle") /\ EndLoop
          /\ UNCHANGED <<lock, job>>
    /\ UNCHANGED <<interval, located, listed, tables>>

\* The end of the loop: the bus lists the device.
Enlist ==
    /\ Looping /\ SameSize /\ Wanted(todo[Scan], interval) = {}
    /\ listed' = TRUE /\ At(Scan, "update") /\ EndLoop
    /\ UNCHANGED <<interval, located, tables, lock, job>>

\* A scan that sees the device where it is.
Rescan ==
    /\ pc[Scan] = "idle" /\ listed /\ At(Scan, "update")
    /\ UNCHANGED <<interval, located, listed, tables, lock, job, todo, seen>>

\* One that finds the device located but not on the list ends with a KeyError.
RescanFails == pc[Scan] = "idle" /\ located /\ ~listed /\ UNCHANGED vars

\* Mutant: the bus keeps the device on its list.
DelocateKeepsEntry ==
    /\ pc[Scan] = "idle" /\ listed
    /\ located' = FALSE /\ poll' = [n \in Names |-> 0] /\ At(Scan, "update")
    /\ UNCHANGED <<interval, listed, task, lock, job, todo, seen>>

\* Device.delocate, without the lock.
Delocate ==
    /\ pc[Scan] = "idle" /\ listed
    /\ located' = FALSE /\ listed' = FALSE
    /\ poll' = [n \in Names |-> 0] /\ At(Scan, "update")
    /\ UNCHANGED <<interval, task, lock, job, todo, seen>>

\* The scan of the bus ends with its polls.
Update ==
    /\ pc[Scan] = "update"
    /\ UpdatePoll(Scan, listed, interval)
    /\ UNCHANGED <<interval, located, listed, poll, lock, job, seen>>

-----------------------------------------------------------------------------
Step(c) == StartBus(c) \/ StoreBus(c) \/ EndBus(c) \/ Replace(c) \/ Store(c)
             \/ Remove(c) \/ NoPoll(c)
ScanStep == Step(Scan) \/ NextInterval \/ Enlist \/ Update

Next ==
    \/ ScanStep \/ Locate \/ Rescan \/ RescanFails \/ Delocate
    \/ \E u \in Users : Step(u) \/ Cancelled(u)
         \/ \E n \in Names, v \in Values \cup {0} : SetInterval(u, n, v)

\* Every caller runs when it can.
Spec == Init /\ [][Next]_vars /\ WF_vars(ScanStep) /\ \A u \in Users : WF_vars(Step(u))

-----------------------------------------------------------------------------
(* Properties.                                                             *)

\* While a new task of an attribute is being started no other is in the table:
\* an attribute is never polled twice, however the users' changes and the
\* scan's overlap, and whoever loses and finds the device meanwhile.
OnePoll ==
    \A n \in DevNames : \A c \in Callers :
        pc[c] = "store" /\ job[c].name = n => poll[n] = 0

Quiet == \A c \in Callers : pc[c] \in {"idle", "gone"}

\* What those who were cancelled half way were about to start.
Left == UNION {todo[c] \cup {job[c].name} : c \in {u \in Users : pc[u] = "gone"}}

\* When every call has returned and the bus lists the device, an attribute is
\* polled at the interval set last: not at one a scan, or an earlier call,
\* was still carrying. (set_polling_interval, locate)
LastIntervalWins ==
    Quiet /\ listed => \A n \in DevNames \ Left : interval[n] # 0 => poll[n] = interval[n]

\* And every poll the device wants of its bus has its task there, although
\* update_poll() may run for several callers at once. (update_poll)
WantedOnBus ==
    Quiet /\ listed => \A n \in BusNames \ Left : interval[n] # 0 => n \in task

\* Every call returns, also when it fails while it holds the lock, and every
\* scan ends. (_set_poll_task, locate)
CallsReturn == \A c \in Callers : pc[c] # "idle" ~> pc[c] \in {"idle", "gone"}
=============================================================================
