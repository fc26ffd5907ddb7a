------------------------------ MODULE Topology ------------------------------
(***************************************************************************)
(* Finding buses and devices: Server.scan_now and _scan_base, the          *)
(* recursive Bus._scan_one, Device.locate and delocate, the part of        *)
(* Bus.poll_alarm that locates devices, and what Server.aclose does to the *)
(* tree.  One server.                                                      *)
(*                                                                         *)
(* A scan suspends at every directory request and possibly between two     *)
(* entries of a listing (loading a device class, a full event queue);      *)
(* alarm polls, aclose() and the world act meanwhile.  Posting an event    *)
(* and starting a poll task inside locate() and delocate() are taken not   *)
(* to suspend.  Couplers are plugged into top-level buses only.            *)
(***************************************************************************)
EXTENDS Integers, Sequences, SequencesExt, FiniteSets

CONSTANTS TopBuses,   \* names of the adapters: "bus.0", ...
          Plain,      \* devices without buses of their own
          Couplers,   \* devices of family 1F
          Ports,      \* a coupler's buses: "main", "aux"
          None,       \* no place; also Python's None
          Periodic,   \* whether background scans are configured
          MaxMoves    \* bound: changes of the world in a behaviour

Devices == Plain \cup Couplers
Buses == {<<b>> : b \in TopBuses} \cup TopBuses \X Couplers \X Ports

ASSUME TopologyAssumption ==
    /\ Plain \cap Couplers = {}
    /\ None \notin TopBuses \cup (Couplers \X Ports) \cup Buses
    /\ \A s \in SUBSET Devices : None # s
    /\ Periodic \in BOOLEAN
    /\ MaxMoves \in Nat

VARIABLES
    plug,      \* the world: where each device is plugged in
    up,        \* the world: adapters the server has
    moves,     \* changes of the world so far
    known,     \* Service._devices
    busOf,     \* Device.bus
    unseen,    \* Device._unseen, 3 standing for every larger value
    devs,      \* Bus._devices; None once freed
    made,      \* buses that exist (Server._buses and Bus._buses)
    subsGone,  \* buses whose _buses is None; <<>> is the server itself
    lock,      \* holder of Server._scan_lock
    pc,        \* where the scan is
    frames,    \* its stack of _scan_one activations, innermost last
    outcome,   \* how the last scan ended, if none is under way
    polls,     \* buses with a poll task for alarms
    alarm,     \* alarmed devices poll_alarm has yet to look at, per bus
    closing    \* where aclose() is

world   == <<plug, up, moves>>
tree    == <<known, busOf, unseen, devs, made, subsGone>>
scanner == <<lock, pc, frames, outcome>>
poller  == <<polls, alarm>>
vars    == <<world, tree, scanner, poller, closing>>

FrameType == [bus : Buses \cup {<<>>}, todo : SUBSET Devices,
              old : SUBSET Devices, subs : SUBSET Buses]

TypeOK ==
    /\ plug \in [Devices -> TopBuses \cup (Couplers \X Ports) \cup {None}]
    /\ up \subseteq TopBuses
    /\ moves \in 0..MaxMoves
    /\ known \subseteq Devices
    /\ busOf \in [Devices -> Buses \cup {None}]
    /\ unseen \in [Devices -> 0..3]
    /\ devs \in [Buses -> (SUBSET Devices) \cup {None}]
    /\ made \subseteq Buses
    /\ subsGone \subseteq Buses \cup {<<>>}
    /\ lock \in {None, "user", "periodic"}
    /\ pc \in {"idle", "dir", "answered", "loop"}
    /\ frames \in Seq(FrameType) /\ Len(frames) <= 3
    /\ outcome \in {"none", "ok", "error", "internal"}
    /\ polls \subseteq Buses
    /\ alarm \in [Buses -> SUBSET Devices]
    /\ closing \in {"open", "cancelled", "freed", "closed"}

Init ==
    /\ plug \in [Devices -> TopBuses]
    /\ up = TopBuses
    /\ moves = 0
    /\ known = {} /\ busOf = [d \in Devices |-> None]
    /\ unseen = [d \in Devices |-> 0]
    /\ devs = [b \in Buses |-> {}] /\ made = {} /\ subsGone = {}
    /\ lock = None /\ pc = "idle" /\ frames = <<>> /\ outcome = "none"
    /\ polls = {} /\ alarm = [b \in Buses |-> {}]
    /\ closing = "open"

-----------------------------------------------------------------------------
(* The world, as the owserver reports it.                                  *)

\* The path of bus <<c, p>> of coupler c, if the server sees it.
PathOf(place) ==
    IF place \in TopBuses
       THEN IF place \in up THEN <<place>> ELSE None
       ELSE IF place # None /\ plug[place[1]] \in up
               THEN <<plug[place[1]]>> \o place ELSE None

\* Where the server sees the device.
Seen(d) == PathOf(plug[d])

\* The server answers a listing of this bus.
Reachable(b) == b[1] \in up /\ (Len(b) > 1 => plug[b[2]] = b[1])

Listing(b) == {d \in Devices : Seen(d) = b}

Move ==
    /\ moves < MaxMoves
    /\ \E d \in Devices, p \in TopBuses \cup (Couplers \X Ports) \cup {None} :
         /\ p # plug[d] /\ (d \in Couplers => p \in TopBuses \cup {None})
         /\ plug' = [plug EXCEPT ![d] = p]
    /\ moves' = moves + 1
    /\ UNCHANGED <<up, tree, scanner, poller, closing>>

\* An adapter is unplugged or comes back.
AdapterChange ==
    /\ moves < MaxMoves
    /\ \E b \in TopBuses : up' = IF b \in up THEN up \ {b} ELSE up \cup {b}
    /\ moves' = moves + 1
    /\ UNCHANGED <<plug, tree, scanner, poller, closing>>

-----------------------------------------------------------------------------
(* Device.locate and Bus.add_device.                                       *)

\* dev.bus is bus already, or becomes it; the old bus is not told.
LocateAt(d, b) == busOf' = [busOf EXCEPT ![d] = b]

\* self._devices[dev.id] = dev, unless the bus was freed.
AddTo(d, b) == devs' = [devs EXCEPT ![b] = @ \cup {d}]

-----------------------------------------------------------------------------
(* Scanning.                                                               *)

Top == Last(frames)
Frame(b) == [bus |-> b, todo |-> {}, old |-> {}, subs |-> {}]
WithTop(f) == Append(Front(frames), f)

EndScan(how) ==
    /\ frames' = <<>> /\ pc' = "idle" /\ lock' = None /\ outcome' = how

\* scan_now with the lock free.  With the lock taken it only waits for it.
ScanNow ==
    /\ lock = None /\ closing = "open"
    /\ lock' = "user" /\ pc' = "dir" /\ frames' = <<Frame(<<>>)>>
    /\ outcome' = "none"
    /\ UNCHANGED <<world, tree, poller, closing>>

\* The background task takes the lock and calls scan_now, which finds it
\* taken and waits for it to be released (trio raises RuntimeError instead).
PeriodicScan ==
    /\ Periodic /\ lock = None /\ closing = "open"
    /\ lock' = "periodic"
    /\ UNCHANGED <<world, tree, pc, frames, outcome, poller, closing>>

\* The answer to dir() arrives; the scan is runnable.
DirAnswer ==
    /\ pc = "dir" /\ closing = "open"
    /\ LET b == Top.bus IN
         \/ /\ b = <<>>
            /\ frames' = WithTop([Top EXCEPT !.subs = {<<a>> : a \in up}])
         \/ /\ b # <<>> /\ Reachable(b)
            /\ frames' = WithTop([Top EXCEPT !.todo = Listing(b)])
    /\ pc' = "answered"
    /\ UNCHANGED <<world, tree, lock, outcome, poller, closing>>

\* Mutant: the lock is not released on the way out.
DirErrorKeepsLock ==
    /\ pc = "dir" /\ closing = "open"
    /\ Top.bus # <<>> /\ ~Reachable(Top.bus)
    /\ frames' = <<>> /\ pc' = "idle" /\ outcome' = "error"
    /\ UNCHANGED <<world, tree, lock, poller, closing>>

\* An error answer leaves scan_now as an OWFSReplyError.
DirError ==
    /\ pc = "dir" /\ closing = "open"
    /\ Top.bus # <<>> /\ ~Reachable(Top.bus)
    /\ EndScan("error")
    /\ UNCHANGED <<world, tree, poller, closing>>

\* Mutant: old_devs is empty.
ResumeForgets ==
    /\ pc = "answered" /\ pc' = "loop"
    /\ UNCHANGED <<world, tree, frames, lock, outcome, poller, closing>>

\* old_devs is read after the await: the bus may have been freed.
Resume ==
    /\ pc = "answered"
    /\ IF Top.bus = <<>>
          THEN pc' = "loop" /\ UNCHANGED <<frames, lock, outcome>>
       ELSE IF devs[Top.bus] = None
          THEN EndScan("internal")
          ELSE /\ frames' = WithTop([Top EXCEPT !.old = devs[Top.bus]])
               /\ pc' = "loop" /\ UNCHANGED <<lock, outcome>>
    /\ UNCHANGED <<world, tree, poller, closing>>

\* Mutant: the paths of a coupler's buses lack the path of its own bus.
FoundWithoutParent(d) ==
    frames' = WithTop([Top EXCEPT
        !.todo = @ \ {d},
        !.old = IF busOf[d] = Top.bus THEN @ \ {d} ELSE @,
        !.subs = IF d \in Couplers THEN {<<d, p>> : p \in Ports} ELSE {}])

\* A coupler's buses are visited next.
Found(d) ==
    frames' = WithTop([Top EXCEPT
        !.todo = @ \ {d},
        !.old = IF busOf[d] = Top.bus THEN @ \ {d} ELSE @,
        !.subs = IF d \in Couplers THEN {Top.bus \o <<d, p>> : p \in Ports}
                                   ELSE {}])

\* Mutant: nothing is done for a device that is on this bus already.
FindDeviceSkips(d) ==
    /\ pc = "loop" /\ Top.subs = {} /\ d \in Top.todo
    /\ known' = known \cup {d}
    /\ LET b == Top.bus IN
         \/ /\ busOf[d] = b
            /\ frames' = WithTop([Top EXCEPT !.todo = @ \ {d}])
            /\ UNCHANGED <<busOf, devs, unseen>>
         \/ /\ busOf[d] # b /\ devs[b] # None
            /\ LocateAt(d, b) /\ AddTo(d, b) /\ Found(d)
            /\ unseen' = [unseen EXCEPT ![d] = 0]
    /\ UNCHANGED <<world, made, subsGone, pc, lock, outcome, poller, closing>>

\* Mutant: dev.locate(self) in place of self.add_device(dev).
FindDeviceLocates(d) ==
    /\ pc = "loop" /\ Top.subs = {} /\ d \in Top.todo
    /\ known' = known \cup {d}
    /\ LocateAt(d, Top.bus) /\ unseen' = [unseen EXCEPT ![d] = 0]
    /\ Found(d)
    /\ UNCHANGED <<world, devs, made, subsGone, pc, lock, outcome, poller, closing>>

\* One entry of the listing: the device is known here, or is located here.
\* set.remove fails if it got here after old_devs was read, and
\* self._devices[...] if the bus was freed.
FindDevice(d) ==
    /\ pc = "loop" /\ Top.subs = {} /\ d \in Top.todo
    /\ known' = known \cup {d}
    /\ LET b == Top.bus IN
         \/ /\ busOf[d] = b /\ d \in Top.old
            /\ unseen' = [unseen EXCEPT ![d] = 0]
            /\ Found(d)
            /\ UNCHANGED <<busOf, devs, pc, lock, outcome>>
         \/ /\ busOf[d] = b /\ d \notin Top.old
            /\ EndScan("internal")
            /\ UNCHANGED <<busOf, devs, unseen>>
         \/ /\ busOf[d] # b /\ devs[b] # None
            /\ LocateAt(d, b) /\ AddTo(d, b)
            /\ unseen' = [unseen EXCEPT ![d] = 0]
            /\ Found(d)
            /\ UNCHANGED <<pc, lock, outcome>>
         \/ /\ busOf[d] # b /\ devs[b] = None
            /\ LocateAt(d, b)
            /\ EndScan("internal")
            /\ UNCHANGED <<devs, unseen>>
    /\ UNCHANGED <<world, made, subsGone, poller, closing>>

\* get_bus and the recursive _scan_one.  Server.get_bus fails when aclose()
\* has run, Bus.get_bus returns None.
VisitBus(s) ==
    /\ pc = "loop" /\ s \in Top.subs
    /\ \/ /\ Top.bus \notin subsGone
          /\ made' = made \cup {s}
          /\ frames' = Append(WithTop([Top EXCEPT !.subs = @ \ {s}]), Frame(s))
          /\ pc' = "dir"
          /\ UNCHANGED <<lock, outcome>>
       \/ /\ Top.bus \in subsGone /\ Top.bus # <<>>
          /\ frames' = WithTop([Top EXCEPT !.subs = @ \ {s}])
          /\ UNCHANGED <<made, pc, lock, outcome>>
       \/ /\ Top.bus \in subsGone /\ Top.bus = <<>>
          /\ EndScan("internal")
          /\ UNCHANGED made
    /\ UNCHANGED <<world, known, busOf, unseen, devs, subsGone, poller, closing>>

\* update_poll: the bus is polled for alarms while it lists a device that
\* wants it.
UpdatePoll(b, listed) ==
    IF listed # None /\ listed \cap Plain # {}
       THEN polls' = polls \cup {b} /\ UNCHANGED alarm
       ELSE polls' = polls \ {b} /\ alarm' = [alarm EXCEPT ![b] = {}]

\* Mutant: the scans that miss a device are not counted.
FinishBusUncounted ==
    /\ pc = "loop" /\ Top.bus # <<>> /\ Top.todo = {} /\ Top.subs = {}
    /\ frames' = Front(frames)
    /\ UpdatePoll(Top.bus, devs[Top.bus])
    /\ UNCHANGED <<world, tree, pc, lock, outcome, closing>>

\* The listing is worked off.  Devices that were on the bus and not listed
\* are delocated if that has happened often enough; delocate() does nothing
\* for a device that is located elsewhere.
FinishBus ==
    /\ pc = "loop" /\ Top.bus # <<>> /\ Top.todo = {} /\ Top.subs = {}
    /\ LET b == Top.bus
           lost == {d \in Top.old : unseen[d] = 3 /\ busOf[d] = b}
       IN \/ /\ Top.old # {} /\ devs[b] = None
             /\ EndScan("internal")
             /\ UNCHANGED <<unseen, busOf, devs, poller>>
          \/ /\ Top.old = {} \/ devs[b] # None
             /\ unseen' = [d \in Devices |->
                  IF d \in Top.old /\ unseen[d] < 3 THEN unseen[d] + 1
                                                    ELSE unseen[d]]
             /\ busOf' = [d \in Devices |-> IF d \in lost THEN None ELSE busOf[d]]
             /\ devs' = IF lost = {} THEN devs
                        ELSE [devs EXCEPT ![b] = @ \ lost]
             /\ UpdatePoll(b, devs'[b])
             /\ frames' = Front(frames)
             /\ UNCHANGED <<pc, lock, outcome>>
    /\ UNCHANGED <<world, known, made, subsGone, closing>>

\* old_paths is always empty: no bus is deregistered.
FinishScan ==
    /\ pc = "loop" /\ Top.bus = <<>> /\ Top.subs = {}
    /\ EndScan("ok")
    /\ UNCHANGED <<world, tree, poller, closing>>

-----------------------------------------------------------------------------
(* Bus.poll_alarm: the listing, then one device at a time, each followed   *)
(* by requests to the device.                                              *)

AlarmListing(b) ==
    /\ b \in polls /\ closing = "open" /\ Reachable(b) /\ alarm[b] = {}
    /\ \E s \in (SUBSET (Listing(b) \cap Plain)) \ {{}} :
         alarm' = [alarm EXCEPT ![b] = s]
    /\ UNCHANGED <<world, tree, scanner, polls, closing>>

\* add_device runs to its end, or fails on a freed bus and takes the poll task
\* with it.  The requests that follow may fail, which ends the poll, and get no
\* answer once aclose() has begun.
AlarmDevice(b, d) ==
    /\ d \in alarm[b]
    /\ known' = known \cup {d}
    /\ LocateAt(d, b)
    /\ \/ /\ devs[b] # None
          /\ AddTo(d, b)
          /\ \E rest \in {alarm[b] \ {d}, {}} :
               /\ closing = "open" \/ rest = {}
               /\ alarm' = [alarm EXCEPT ![b] = rest]
          /\ UNCHANGED polls
       \/ /\ devs[b] = None
          /\ alarm' = [alarm EXCEPT ![b] = {}] /\ polls' = polls \ {b}
          /\ UNCHANGED devs
    /\ UNCHANGED <<world, unseen, made, subsGone, scanner, closing>>

-----------------------------------------------------------------------------
(* aclose().                                                               *)

\* The connection and the tasks in its task group are cancelled; so is the
\* background scan.
CloseCancel ==
    /\ closing = "open"
    /\ closing' = "cancelled"
    /\ lock' = IF lock = "periodic" THEN None ELSE lock
    /\ UNCHANGED <<world, tree, pc, frames, outcome, poller>>

\* Bus.delocate for the whole tree.  An empty dict is left as it is.
CloseFree ==
    /\ closing = "cancelled"
    /\ closing' = "freed"
    /\ busOf' = [d \in Devices |->
         IF busOf[d] # None /\ devs[busOf[d]] # None /\ d \in devs[busOf[d]]
            THEN None ELSE busOf[d]]
    /\ devs' = [b \in Buses |-> IF devs[b] = {} THEN {} ELSE None]
    /\ subsGone' = {<<>>} \cup {b \in made : \E s \in made : Len(s) > 1 /\ <<s[1]>> = b}
    /\ UNCHANGED <<world, known, unseen, made, scanner, poller>>

\* The outstanding directory request is cancelled and the scan returns.
CloseFail ==
    /\ closing = "freed"
    /\ closing' = "closed"
    /\ IF pc = "dir" THEN EndScan("ok") ELSE UNCHANGED scanner
    /\ UNCHANGED <<world, tree, poller>>

-----------------------------------------------------------------------------
ScanStep ==
    \/ DirAnswer \/ DirError \/ Resume \/ FinishBus \/ FinishScan
    \/ \E d \in Devices : FindDevice(d)
    \/ \E s \in Buses : VisitBus(s)

AlarmStep == \E b \in Buses : \/ AlarmListing(b)
                              \/ \E d \in Devices : AlarmDevice(b, d)

CloseStep == CloseCancel \/ CloseFree \/ CloseFail

\* A directory request made on a closed server is never answered.
Done == closing = "closed" /\ pc \in {"idle", "dir"} /\ UNCHANGED vars

Next == ScanNow \/ PeriodicScan \/ ScanStep \/ AlarmStep \/ Move
          \/ AdapterChange \/ CloseStep \/ Done

\* Scans are started again and again, and every task runs when it can.
Fairness == WF_vars(ScanNow) /\ WF_vars(ScanStep)

Spec == Init /\ [][Next]_vars
FairSpec == Spec /\ Fairness

-----------------------------------------------------------------------------
(* Properties.                                                             *)

\* A located device is in the list of its bus, which delocate() removes it
\* from and polls iterate over, whatever scans and alarm polls interleave.
ListedByItsBus ==
    \A d \in Devices : busOf[d] # None /\ closing = "open" =>
        devs[busOf[d]] # None /\ d \in devs[busOf[d]]

\* "Re-scanning will automatically add new buses and devices, relocate moved
\* devices, ... and de-locate devices that can no longer be found"
\* (introduction.rst:79): once the world stands still, a device is located
\* where the server sees it, and nowhere if the server does not see it,
\* provided the bus it was on is still there to be scanned.
Converges ==
    \A d \in Devices : <>[](\/ closing # "open" \/ lock = "periodic"
                            \/ busOf[d] = Seen(d)
                            \/ Seen(d) = None /\ ~Reachable(busOf[d]))

\* As long as nobody touches the wiring, a device that has been located is
\* neither relocated nor delocated, however many scans and alarm polls run
\* and however they interleave.
StaysLocated ==
    [][\A d \in Devices :
         moves' = 0 /\ closing' = "open" /\ busOf[d] # None =>
             busOf'[d] = busOf[d]]_vars

\* A scan of a server that stays open comes to its end, by itself or with an
\* error, and gives the lock back, whatever its listings run into.
ScanEnds == lock = "user" ~> lock # "user" \/ closing # "open"

\* It fails for a reason of its own (KeyError, TypeError) only where an alarm
\* poll may have located a device between its look at a bus and its turn at
\* the device; changes of the wiring and its own errors do not bring it there.
OnlyAlarmsBreakScans ==
    [][outcome' = "internal" /\ outcome # "internal" =>
         closing # "open" \/ polls # {}]_vars

-----------------------------------------------------------------------------
(* What the repository says, and the code does not do.                     *)

\* "Bus enumeration (when starting up, plus periodically in the background if
\* desired) is automatic" (README.rst:33): the background scan, once it holds
\* the lock, lets go of it again.
PeriodicScanRuns == lock = "periodic" ~> lock # "periodic"
=============================================================================
