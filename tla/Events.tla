------------------------------- MODULE Events -------------------------------
(***************************************************************************)
(* The service (service.py): servers are added, scanned and dropped, the   *)
(* service ends, and every change is announced on a queue of events a      *)
(* monitor reads.  A task that announces something while the queue is full *)
(* is suspended in push_event.                                             *)
(*                                                                         *)
(* Servers are added and scanned in the body of the `async with OWFS()`    *)
(* block, which is over when the service ends; the monitor and the user    *)
(* who deletes devices are tasks of their own.  What a scan finds is       *)
(* arbitrary.  A server has one bus.                                       *)
(***************************************************************************)
EXTENDS Naturals, Sequences, FiniteSets

CONSTANTS Servers, Devices,
          None,      \* no server, no device
          User,      \* the task that deletes devices
          Capacity   \* the 1000 of the event queue

ASSUME EventsAssumption ==
    /\ None \notin Servers \cup Devices /\ User \notin Servers
    /\ Capacity \in Nat \ {0}

VARIABLES
    \* what is
    life,      \* how far each server has come
    bus,       \* servers whose bus exists
    known,     \* Service._devices
    at,        \* Device.bus, by its server
    todo,      \* what a scan has yet to look at
    found,     \* the device a scan is about to locate
    \* what is told
    q,         \* _event_queue: "none", "open" or, its sending side, "closed"
    queue,     \* its contents
    blocked,   \* the tasks suspended in push_event, with their events
    stuck,     \* tasks suspended on a queue that nobody reads any more
    mon,       \* the monitor
    view,      \* history: what it has been told, while it reads
    exit       \* how far __aexit__ has come

truth   == <<life, bus, known, at>>
scans   == <<todo, found>>
channel == <<q, queue, blocked, stuck>>
vars    == <<truth, scans, channel, mon, view, exit>>

Tasks == Servers \cup {User}
Event == [kind : {"ServerRegistered", "ServerConnected", "ServerDisconnected",
                  "ServerDeregistered", "BusAdded", "BusDeleted"}, server : Servers]
         \cup [kind : {"DeviceAdded", "DeviceDeleted", "DeviceNotFound"}, device : Devices]
         \cup [kind : {"DeviceLocated"}, device : Devices, server : Servers]

Stages == {"idle", "starting", "started", "up", "scanning", "closing", "freed",
           "dropped", "failed"}

TypeOK ==
    /\ life \in [Servers -> Stages] /\ bus \subseteq Servers
    /\ known \subseteq Devices /\ at \in [Devices -> Servers \cup {None}]
    /\ todo \in [Servers -> SUBSET Devices] /\ found \in [Servers -> Devices \cup {None}]
    /\ q \in {"none", "open", "closed"}
    /\ queue \in Seq(Event) /\ Len(queue) <= Capacity
    /\ blocked \in Seq(Tasks \X Event) /\ stuck \subseteq Tasks
    /\ blocked # <<>> => Len(queue) = Capacity
    /\ mon \in {"away", "reading", "draining", "crashed"}
    /\ exit \in {"no", "dropping", "over"}

\* What a monitor can know: stage of each server, buses, devices, locations.
Picture ==
    [server |-> [s \in Servers |->
        CASE life[s] \in {"idle", "dropped", "failed"} -> "gone"
          [] life[s] = "starting" -> "registered"
          [] life[s] \in {"started", "up", "scanning"} -> "connected"
          [] OTHER -> "disconnected"],
     bus |-> bus, known |-> known, at |-> at]

Init ==
    /\ life = [s \in Servers |-> "idle"] /\ bus = {}
    /\ known = {} /\ at = [d \in Devices |-> None]
    /\ todo = [s \in Servers |-> {}] /\ found = [s \in Servers |-> None]
    /\ q = "none" /\ queue = <<>> /\ blocked = <<>> /\ stuck = {}
    /\ mon = "away" /\ view = None /\ exit = "no"

-----------------------------------------------------------------------------
(* push_event.                                                             *)

Suspended(t) == t \in stuck \/ \E i \in DOMAIN blocked : blocked[i][1] = t

\* Mutant: the queue has no bound.
PushUnbounded(t, e) ==
    /\ queue' = IF q = "open" THEN Append(queue, e) ELSE queue
    /\ UNCHANGED <<q, blocked, stuck>>

\* Mutant: a full queue loses the event, as send_nowait would.
PushDrops(t, e) ==
    /\ queue' = IF q = "open" /\ Len(queue) < Capacity THEN Append(queue, e) ELSE queue
    /\ UNCHANGED <<q, blocked, stuck>>

Push(t, e) ==
    /\ IF q # "open" THEN UNCHANGED <<queue, blocked>>
       ELSE IF Len(queue) < Capacity
          THEN queue' = Append(queue, e) /\ UNCHANGED blocked
          ELSE blocked' = Append(blocked, <<t, e>>) /\ UNCHANGED queue
    /\ UNCHANGED <<q, stuck>>

About(kind, s) == [kind |-> kind, server |-> s]
Of(kind, d) == [kind |-> kind, device |-> d]

\* receive(): the first event; the first suspended task takes the free place.
Receive ==
    /\ queue # <<>>
    /\ IF blocked = <<>>
          THEN queue' = Tail(queue) /\ UNCHANGED blocked
          ELSE queue' = Append(Tail(queue), blocked[1][2]) /\ blocked' = Tail(blocked)
    /\ UNCHANGED <<q, stuck>>

-----------------------------------------------------------------------------
(* A server's life.                                                        *)

Stage(s, from, to) ==
    life[s] = from /\ ~Suspended(s) /\ life' = [life EXCEPT ![s] = to]

Register(s) ==
    /\ exit = "no"
    /\ \E from \in {"idle", "dropped", "failed"} : Stage(s, from, "starting")
    /\ Push(s, About("ServerRegistered", s))
    /\ UNCHANGED <<bus, known, at, scans, mon, view, exit>>

StartFails(s) ==
    /\ Stage(s, "starting", "failed")
    /\ Push(s, About("ServerDeregistered", s))
    /\ UNCHANGED <<bus, known, at, scans, mon, view, exit>>

Start(s) ==
    /\ Stage(s, "starting", "started")
    /\ Push(s, About("ServerConnected", s))
    /\ UNCHANGED <<bus, known, at, scans, mon, view, exit>>

\* self._servers.add(s)
Added(s) ==
    /\ Stage(s, "started", "up")
    /\ UNCHANGED <<bus, known, at, scans, channel, mon, view, exit>>

\* A scan, at start or later; its bus is made when it is first seen.
Scan(s) ==
    /\ exit = "no" /\ Stage(s, "up", "scanning")
    /\ todo' = [todo EXCEPT ![s] = Devices]
    /\ bus' = bus \cup {s}
    /\ IF s \in bus THEN UNCHANGED channel ELSE Push(s, About("BusAdded", s))
    /\ UNCHANGED <<known, at, found, mon, view, exit>>

\* get_device: a new device is entered before it is announced.
GetDevice(s, d) ==
    /\ life[s] = "scanning" /\ ~Suspended(s) /\ found[s] = None /\ d \in todo[s]
    /\ found' = [found EXCEPT ![s] = d]
    /\ known' = known \cup {d}
    /\ IF d \in known THEN UNCHANGED channel ELSE Push(s, Of("DeviceAdded", d))
    /\ UNCHANGED <<life, bus, at, todo, mon, view, exit>>

\* Device.locate, from wherever it was.
Locate(s) ==
    /\ life[s] = "scanning" /\ ~Suspended(s) /\ found[s] # None
    /\ LET d == found[s] IN
         /\ at' = [at EXCEPT ![d] = s]
         /\ IF at[d] = s THEN UNCHANGED channel
            ELSE Push(s, [kind |-> "DeviceLocated", device |-> d, server |-> s])
         /\ todo' = [todo EXCEPT ![s] = @ \ {d}]
    /\ found' = [found EXCEPT ![s] = None]
    /\ UNCHANGED <<life, bus, known, mon, view, exit>>

\* A device the scan does not see is delocated in the end; see Topology.
Miss(s, d) ==
    /\ life[s] = "scanning" /\ ~Suspended(s) /\ found[s] = None /\ d \in todo[s]
    /\ todo' = [todo EXCEPT ![s] = @ \ {d}]
    /\ \/ UNCHANGED <<at, channel>>
       \/ /\ at[d] = s
          /\ at' = [at EXCEPT ![d] = None]
          /\ Push(s, Of("DeviceNotFound", d))
    /\ UNCHANGED <<life, bus, known, found, mon, view, exit>>

EndScan(s) ==
    /\ todo[s] = {} /\ found[s] = None /\ Stage(s, "scanning", "up")
    /\ UNCHANGED <<bus, known, at, scans, channel, mon, view, exit>>

\* Service.delete_device
DeleteDevice(d) ==
    /\ ~Suspended(User) /\ exit # "over" /\ at[d] = None /\ d \in known
    /\ known' = known \ {d}
    /\ Push(User, Of("DeviceDeleted", d))
    /\ UNCHANGED <<life, bus, at, scans, mon, view, exit>>

\* Server.drop, by the user or by __aexit__, which drops one server after
\* the other.
Drop(s) ==
    /\ exit \in {"no", "dropping"}
    /\ exit = "dropping" => \A t \in Servers : life[t] \notin {"closing", "freed"}
    /\ Stage(s, "up", "closing")
    /\ Push(s, About("ServerDisconnected", s))
    /\ UNCHANGED <<bus, known, at, scans, mon, view, exit>>

FreeDevice(s, d) ==
    /\ life[s] = "closing" /\ ~Suspended(s) /\ s \in bus /\ at[d] = s
    /\ at' = [at EXCEPT ![d] = None]
    /\ Push(s, Of("DeviceNotFound", d))
    /\ UNCHANGED <<life, bus, known, scans, mon, view, exit>>

\* Mutant: the server is taken off the list before it is closed.
DeregisterFirst(s) ==
    /\ Stage(s, "closing", "dropped")
    /\ Push(s, About("ServerDeregistered", s))
    /\ UNCHANGED <<bus, known, at, scans, mon, view, exit>>

FreeBus(s) ==
    /\ \A d \in Devices : at[d] # s
    /\ Stage(s, "closing", "freed")
    /\ bus' = bus \ {s}
    /\ IF s \in bus THEN Push(s, About("BusDeleted", s)) ELSE UNCHANGED channel
    /\ UNCHANGED <<known, at, scans, mon, view, exit>>

\* _del_server
Deregister(s) ==
    /\ Stage(s, "freed", "dropped")
    /\ Push(s, About("ServerDeregistered", s))
    /\ UNCHANGED <<bus, known, at, scans, mon, view, exit>>

-----------------------------------------------------------------------------
(* __aexit__.                                                              *)

Exit ==
    /\ exit = "no" /\ exit' = "dropping"
    /\ \A s \in Servers : ~Suspended(s) /\ life[s] \in {"idle", "up", "dropped", "failed"}
    /\ UNCHANGED <<truth, scans, channel, mon, view>>

\* Mutant: the queue stays open.
ExitKeepsQueue ==
    /\ exit = "dropping" /\ exit' = "over"
    /\ \A s \in Servers : ~Suspended(s) /\ life[s] \in {"idle", "dropped", "failed"}
    /\ UNCHANGED <<truth, scans, channel, mon, view>>

\* All servers are dropped: the queue is closed and every task cancelled.
ExitCloses ==
    /\ exit = "dropping" /\ exit' = "over"
    /\ \A s \in Servers : ~Suspended(s) /\ life[s] \in {"idle", "dropped", "failed"}
    /\ q' = IF q = "open" THEN "closed" ELSE q
    /\ blocked' = <<>>
    /\ UNCHANGED <<truth, scans, queue, stuck, mon, view>>

-----------------------------------------------------------------------------
(* The monitor: Service.events.                                            *)

Attach ==
    /\ mon = "away" /\ q = "none" /\ exit # "over"
    /\ mon' = "reading" /\ q' = "open" /\ queue' = <<>>
    /\ view' = Picture
    /\ UNCHANGED <<truth, scans, blocked, stuck, exit>>

\* The picture after an event.
After(pic, e) ==
    CASE e.kind = "ServerRegistered"   -> [pic EXCEPT !.server[e.server] = "registered"]
      [] e.kind = "ServerConnected"    -> [pic EXCEPT !.server[e.server] = "connected"]
      [] e.kind = "ServerDisconnected" -> [pic EXCEPT !.server[e.server] = "disconnected"]
      [] e.kind = "ServerDeregistered" -> [pic EXCEPT !.server[e.server] = "gone"]
      [] e.kind = "BusAdded"           -> [pic EXCEPT !.bus = @ \cup {e.server}]
      [] e.kind = "BusDeleted"         -> [pic EXCEPT !.bus = @ \ {e.server}]
      [] e.kind = "DeviceAdded"        -> [pic EXCEPT !.known = @ \cup {e.device}]
      [] e.kind = "DeviceDeleted"      -> [pic EXCEPT !.known = @ \ {e.device}]
      [] e.kind = "DeviceLocated"      -> [pic EXCEPT !.at[e.device] = e.server]
      [] e.kind = "DeviceNotFound"     -> [pic EXCEPT !.at[e.device] = None]

Handle ==
    /\ mon = "reading" /\ Receive
    /\ view' = After(view, Head(queue))
    /\ UNCHANGED <<truth, scans, mon, exit>>

\* The loop is left by a break, or ends with the queue.
Leave ==
    /\ mon = "reading"
    /\ mon' = "draining" /\ view' = None
    /\ UNCHANGED <<truth, scans, channel, exit>>

\* The loop is left by an exception: nothing is drained.
Interrupt ==
    /\ mon = "reading"
    /\ mon' = "away" /\ q' = "none" /\ queue' = <<>>
    /\ stuck' = stuck \cup {blocked[i][1] : i \in DOMAIN blocked}
    /\ blocked' = <<>> /\ view' = None
    /\ UNCHANGED <<truth, scans, exit>>

\* Mutant: the queue is given up without draining it.
DrainNothing ==
    /\ mon = "draining" /\ q = "open"
    /\ mon' = "away" /\ q' = "none" /\ queue' = <<>>
    /\ UNCHANGED <<truth, scans, blocked, stuck, view, exit>>

Drain ==
    /\ mon = "draining" /\ Receive
    /\ UNCHANGED <<truth, scans, mon, view, exit>>

\* Nothing came for 10 ms.
DrainEnds ==
    /\ mon = "draining" /\ queue = <<>> /\ q = "open"
    /\ mon' = "away" /\ q' = "none"
    /\ UNCHANGED <<truth, scans, queue, blocked, stuck, view, exit>>

\* receive() raises EndOfStream, which only __anext__ handles.
DrainFails ==
    /\ mon = "draining" /\ queue = <<>> /\ q = "closed"
    /\ mon' = "crashed"
    /\ UNCHANGED <<truth, scans, channel, view, exit>>

-----------------------------------------------------------------------------
ServerStep(s) ==
    \/ Start(s) \/ StartFails(s) \/ Added(s) \/ EndScan(s) \/ Locate(s)
    \/ FreeBus(s) \/ Deregister(s)
    \/ \E d \in Devices : GetDevice(s, d) \/ Miss(s, d) \/ FreeDevice(s, d)

MonitorStep == Handle \/ Drain \/ DrainEnds \/ DrainFails
                 \/ (q = "closed" /\ queue = <<>> /\ Leave)

Done == exit = "over" /\ mon \in {"away", "crashed"} /\ UNCHANGED vars

Next ==
    \/ \E s \in Servers : Register(s) \/ Scan(s) \/ Drop(s) \/ ServerStep(s)
    \/ \E d \in Devices : DeleteDevice(d)
    \/ Exit \/ ExitCloses
    \/ Attach \/ Leave \/ Interrupt \/ MonitorStep
    \/ Done

Spec == Init /\ [][Next]_vars

\* Every task runs when it can; the monitor reads on or leaves.
FairSpec ==
    /\ Spec /\ WF_vars(MonitorStep) /\ WF_vars(ExitCloses)
    /\ \A s \in Servers : WF_vars(ServerStep(s)) /\ WF_vars(exit = "dropping" /\ Drop(s))

-----------------------------------------------------------------------------
(* Properties.                                                             *)

\* The events a monitor has yet to see,
News == queue \o [i \in DOMAIN blocked |-> blocked[i][2]]

\* and what it will know when it has seen the first i of them.
Told[i \in 0..Len(News)] == IF i = 0 THEN view ELSE After(Told[i - 1], News[i])

\* When a monitor has seen all that is to come it knows what is: nothing is
\* told twice, out of order or not at all, however long the tasks that tell it
\* have been suspended.
PictureComplete == mon = "reading" /\ exit # "over" => Told[Len(News)] = Picture

\* When the monitor learns that a server is gone it has been told so of the
\* server's bus and of every device located there (the order the tests list:
\* tests/test_example.py, test_basic_server).
GoneWithServer ==
    mon = "reading" => \A s \in Servers : view.server[s] = "gone" =>
        s \notin view.bus /\ \A d \in Devices : view.at[d] # s

\* A full queue only delays: whoever waits for it gets on, unless the monitor
\* is interrupted.
PushersProceed ==
    \A t \in Tasks : Suspended(t) ~> (~Suspended(t) \/ t \in stuck)

\* The service ends: its servers are dropped, its queue and tasks end,
\* unless a task waits for an interrupted monitor.
ExitEnds == exit = "dropping" ~> (stuck # {} \/ (exit = "over" /\ mon \in {"away", "crashed"}))

-----------------------------------------------------------------------------
(* What the repository says, and the code does not do.                     *)

\* The monitor of introduction.rst:29-32, a loop over the events, ends with
\* the service ("auto-cancelled when the service ends", service.py:170).
MonitorSurvives == mon # "crashed"
=============================================================================
