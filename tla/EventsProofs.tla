---------------------------- MODULE EventsProofs ----------------------------
(***************************************************************************)
(* What the events tell is what happens, in order and once, for any number *)
(* of servers and devices and a queue of any length.                       *)
(***************************************************************************)
EXTENDS Events, SequenceTheorems, WellFoundedInduction, TLAPS

-----------------------------------------------------------------------------
(* Types.                                                                  *)

LEMMA EventTypes ==
    ASSUME NEW s \in Servers, NEW d \in Devices
    PROVE  /\ \A k \in {"ServerRegistered", "ServerConnected", "ServerDisconnected",
                        "ServerDeregistered", "BusAdded", "BusDeleted"} : About(k, s) \in Event
           /\ \A k \in {"DeviceAdded", "DeviceDeleted", "DeviceNotFound"} : Of(k, d) \in Event
           /\ [kind |-> "DeviceLocated", device |-> d, server |-> s] \in Event
BY DEF Event, About, Of

ChannelOK ==
    /\ queue \in Seq(Event) /\ Len(queue) <= Capacity
    /\ blocked \in Seq(Tasks \X Event) /\ stuck \subseteq Tasks
    /\ q \in {"none", "open", "closed"}
    /\ blocked # <<>> => Len(queue) = Capacity

LEMMA PushType ==
    ASSUME ChannelOK, NEW t \in Tasks, NEW e \in Event, Push(t, e)
    PROVE  ChannelOK'
<1>1. UNCHANGED <<q, stuck>>
    BY DEF Push
<1>2. CASE UNCHANGED <<queue, blocked>>
    BY <1>1, <1>2 DEF ChannelOK
<1>3. CASE Len(queue) < Capacity /\ queue' = Append(queue, e) /\ UNCHANGED blocked
    <2>1. queue' \in Seq(Event) /\ Len(queue') = Len(queue) + 1 /\ Len(queue) \in Nat
        BY <1>3 DEF ChannelOK
    <2>2. blocked = <<>> /\ Len(queue') <= Capacity
        BY <1>3, <2>1, EventsAssumption DEF ChannelOK
    <2>3. QED
        BY <1>1, <1>3, <2>1, <2>2 DEF ChannelOK
<1>4. CASE ~(Len(queue) < Capacity) /\ blocked' = Append(blocked, <<t, e>>) /\ UNCHANGED queue
    <2>1. Len(queue) = Capacity
        BY <1>4, EventsAssumption DEF ChannelOK
    <2>2. <<t, e>> \in Tasks \X Event
        OBVIOUS
    <2>3. QED
        BY <1>1, <1>4, <2>1, <2>2 DEF ChannelOK
<1>5. QED
    BY <1>2, <1>3, <1>4 DEF Push

LEMMA ReceiveType ==
    ASSUME ChannelOK, Receive
    PROVE  ChannelOK'
<1>1. UNCHANGED <<q, stuck>> /\ queue # <<>>
    BY DEF Receive
<1>2. Tail(queue) \in Seq(Event) /\ Len(Tail(queue)) = Len(queue) - 1 /\ Len(queue) \in Nat
    BY <1>1 DEF ChannelOK
<1>3. CASE blocked = <<>> /\ queue' = Tail(queue) /\ UNCHANGED blocked
    <2>1. Len(queue') <= Capacity
        BY <1>2, <1>3, EventsAssumption DEF ChannelOK
    <2>2. QED
        BY <1>1, <1>2, <1>3, <2>1 DEF ChannelOK
<1>4. CASE /\ blocked # <<>> /\ queue' = Append(Tail(queue), blocked[1][2])
           /\ blocked' = Tail(blocked)
    <2>1. blocked[1] \in Tasks \X Event
        BY <1>4 DEF ChannelOK
    <2>2. blocked[1][2] \in Event
        BY <2>1
    <2>3. queue' \in Seq(Event) /\ Len(queue') = Len(queue)
        BY <1>2, <1>4, <2>2
    <2>4. blocked' \in Seq(Tasks \X Event)
        BY <1>4 DEF ChannelOK
    <2>5. QED
        BY <1>1, <1>4, <2>3, <2>4 DEF ChannelOK
<1>5. QED
    BY <1>3, <1>4 DEF Receive

LEMMA TypesInit == Init => TypeOK
<1> SUFFICES ASSUME Init PROVE TypeOK
    OBVIOUS
<1>1. queue \in Seq(Event) /\ Len(queue) = 0 /\ blocked \in Seq(Tasks \X Event)
    BY DEF Init
<1>2. life \in [Servers -> Stages] /\ at \in [Devices -> Servers \cup {None}]
    BY DEF Init, Stages
<1>3. todo \in [Servers -> SUBSET Devices] /\ found \in [Servers -> Devices \cup {None}]
    BY DEF Init
<1>4. QED
    BY <1>1, <1>2, <1>3, EventsAssumption DEF Init, TypeOK

-----------------------------------------------------------------------------
(* What is, and the picture of it.                                         *)

WorldOK ==
    /\ life \in [Servers -> Stages] /\ bus \subseteq Servers
    /\ known \subseteq Devices /\ at \in [Devices -> Servers \cup {None}]
    /\ todo \in [Servers -> SUBSET Devices] /\ found \in [Servers -> Devices \cup {None}]

\* Only a server that has been entered, and whose bus has not been freed, has
\* a bus and devices.
Bare(s) == s \notin bus /\ \A d \in Devices : at[d] # s

BareServers == \A s \in Servers : life[s] \notin {"up", "scanning", "closing"} => Bare(s)

\* How a monitor sees a stage.
Seen(l) ==
    CASE l \in {"idle", "dropped", "failed"} -> "gone"
      [] l = "starting" -> "registered"
      [] l \in {"started", "up", "scanning"} -> "connected"
      [] OTHER -> "disconnected"

Pictures ==
    [server : [Servers -> {"gone", "registered", "connected", "disconnected"}],
     bus : SUBSET Servers, known : SUBSET Devices, at : [Devices -> Servers \cup {None}]]

LEMMA PictureIs ==
    Picture = [server |-> [s \in Servers |-> Seen(life[s])], bus |-> bus, known |-> known, at |-> at]
BY DEF Picture, Seen

LEMMA SeenIs ==
    /\ Seen("idle") = "gone" /\ Seen("dropped") = "gone" /\ Seen("failed") = "gone"
    /\ Seen("starting") = "registered"
    /\ Seen("started") = "connected" /\ Seen("up") = "connected" /\ Seen("scanning") = "connected"
    /\ Seen("closing") = "disconnected" /\ Seen("freed") = "disconnected"
BY DEF Seen

LEMMA PictureType == ASSUME WorldOK PROVE Picture \in Pictures
<1>1. \A s \in Servers : Seen(life[s]) \in {"gone", "registered", "connected", "disconnected"}
    BY SeenIs DEF WorldOK, Stages
<1>2. QED
    BY <1>1, PictureIs DEF WorldOK, Pictures

\* What the events do to a picture.
LEMMA AfterServer ==
    \A p, s :
        /\ After(p, About("ServerRegistered", s)) = [p EXCEPT !.server[s] = Seen("starting")]
        /\ After(p, About("ServerConnected", s)) = [p EXCEPT !.server[s] = Seen("started")]
        /\ After(p, About("ServerDisconnected", s)) = [p EXCEPT !.server[s] = Seen("closing")]
        /\ After(p, About("ServerDeregistered", s)) = [p EXCEPT !.server[s] = Seen("failed")]
        /\ After(p, About("ServerDeregistered", s)) = [p EXCEPT !.server[s] = Seen("dropped")]
BY SeenIs DEF After, About

LEMMA AfterBus ==
    \A p, s :
        /\ After(p, About("BusAdded", s)) = [p EXCEPT !.bus = @ \cup {s}]
        /\ After(p, About("BusDeleted", s)) = [p EXCEPT !.bus = @ \ {s}]
BY DEF After, About

LEMMA AfterDevice ==
    \A p, d :
        /\ After(p, Of("DeviceAdded", d)) = [p EXCEPT !.known = @ \cup {d}]
        /\ After(p, Of("DeviceDeleted", d)) = [p EXCEPT !.known = @ \ {d}]
        /\ After(p, Of("DeviceNotFound", d)) = [p EXCEPT !.at[d] = None]
BY DEF After, Of

LEMMA AfterLocated ==
    \A p, d, s :
        After(p, [kind |-> "DeviceLocated", device |-> d, server |-> s]) = [p EXCEPT !.at[d] = s]
BY DEF After

LEMMA PictureSame ==
    ASSUME life \in [Servers -> Stages], \A s \in Servers : Seen(life'[s]) = Seen(life[s]),
           UNCHANGED <<bus, known, at>>
    PROVE  Picture' = Picture
<1>1. Picture' = [server |-> [s \in Servers |-> Seen(life'[s])], bus |-> bus', known |-> known', at |-> at']
    BY DEF Picture, Seen
<1>2. QED
    BY <1>1, PictureIs

LEMMA PictureServer ==
    ASSUME WorldOK, NEW s \in Servers, NEW to, life' = [life EXCEPT ![s] = to],
           UNCHANGED <<bus, known, at>>
    PROVE  Picture' = [Picture EXCEPT !.server[s] = Seen(to)]
<1>1. Picture' = [server |-> [t \in Servers |-> Seen(life'[t])], bus |-> bus', known |-> known', at |-> at']
    BY DEF Picture, Seen
<1>2. \A t \in Servers : Seen(life'[t]) = IF t = s THEN Seen(to) ELSE Seen(life[t])
    BY DEF WorldOK
<1>3. [t \in Servers |-> Seen(life'[t])] = [[t \in Servers |-> Seen(life[t])] EXCEPT ![s] = Seen(to)]
    BY <1>2
<1>4. QED
    BY <1>1, <1>3, PictureIs

LEMMA PictureRest ==
    ASSUME life \in [Servers -> Stages], \A s \in Servers : Seen(life'[s]) = Seen(life[s])
    PROVE  Picture' = [server |-> Picture.server, bus |-> bus', known |-> known', at |-> at']
<1>1. Picture' = [server |-> [s \in Servers |-> Seen(life'[s])], bus |-> bus', known |-> known', at |-> at']
    BY DEF Picture, Seen
<1>2. QED
    BY <1>1, PictureIs
\* The other parts of a picture, changed one at a time.
LEMMA PictureParts ==
    \A x : /\ [Picture EXCEPT !.bus = x]
               = [server |-> Picture.server, bus |-> x, known |-> known, at |-> at]
           /\ [Picture EXCEPT !.known = x]
               = [server |-> Picture.server, bus |-> bus, known |-> x, at |-> at]
           /\ [Picture EXCEPT !.at = x]
               = [server |-> Picture.server, bus |-> bus, known |-> known, at |-> x]
           /\ Picture.bus = bus /\ Picture.known = known /\ Picture.at = at
BY PictureIs

\* What a step of the world is to a monitor: nothing, or what it announces.
Truthful ==
    /\ UNCHANGED <<mon, view, exit>>
    /\ \/ UNCHANGED channel /\ Picture' = Picture
       \/ \E t \in Tasks, e \in Event : Push(t, e) /\ Picture' = After(Picture, e)

WorldInv == WorldOK /\ BareServers

\* A server goes on to another stage.
LEMMA StageKept ==
    ASSUME WorldInv, NEW s \in Servers, NEW to \in Stages, life' = [life EXCEPT ![s] = to],
           to \in {"up", "scanning", "closing"} \/ life[s] \notin {"up", "scanning", "closing"},
           UNCHANGED <<bus, known, at, scans>>
    PROVE  WorldInv'
<1>1. WorldOK'
    BY DEF WorldInv, WorldOK, scans
<1>2. \A t \in Servers : life'[t] = IF t = s THEN to ELSE life[t]
    BY DEF WorldInv, WorldOK
<1>3. BareServers'
    BY <1>2 DEF WorldInv, BareServers, Bare
<1>4. QED
    BY <1>1, <1>3 DEF WorldInv

LEMMA Announced ==
    ASSUME WorldInv, NEW s \in Servers, NEW from \in Stages, NEW to \in Stages, Stage(s, from, to),
           to \in {"up", "scanning", "closing"} \/ from \notin {"up", "scanning", "closing"},
           NEW k \in {"ServerRegistered", "ServerConnected", "ServerDisconnected", "ServerDeregistered"},
           \A p : After(p, About(k, s)) = [p EXCEPT !.server[s] = Seen(to)],
           Push(s, About(k, s)), UNCHANGED <<bus, known, at, scans, mon, view, exit>>
    PROVE  WorldInv' /\ Truthful
<1>1. life' = [life EXCEPT ![s] = to] /\ life[s] = from
    BY DEF Stage
<1>2. WorldInv'
    BY <1>1, StageKept
<1>3. Picture' = [Picture EXCEPT !.server[s] = Seen(to)]
    BY <1>1, PictureServer DEF WorldInv
<1>4. s \in Tasks /\ About(k, s) \in Event
    BY DEF Tasks, Event, About
<1>5. Picture' = After(Picture, About(k, s))
    BY <1>3
<1>6. QED
    BY <1>2, <1>4, <1>5 DEF Truthful

LEMMA StagesTold ==
    ASSUME WorldInv, NEW s \in Servers,
           Register(s) \/ StartFails(s) \/ Start(s) \/ Drop(s) \/ Deregister(s)
    PROVE  WorldInv' /\ Truthful
<1>1. CASE Register(s)
    <2>1. PICK from \in {"idle", "dropped", "failed"} : Stage(s, from, "starting")
        BY <1>1 DEF Register
    <2>2. \A p : After(p, About("ServerRegistered", s)) = [p EXCEPT !.server[s] = Seen("starting")]
        BY AfterServer
    <2>3. QED
        BY <1>1, <2>1, <2>2, Announced DEF Register, Stages
<1>2. CASE StartFails(s)
    <2>1. \A p : After(p, About("ServerDeregistered", s)) = [p EXCEPT !.server[s] = Seen("failed")]
        BY AfterServer
    <2>2. QED
        BY <1>2, <2>1, Announced DEF StartFails, Stages
<1>3. CASE Start(s)
    <2>1. \A p : After(p, About("ServerConnected", s)) = [p EXCEPT !.server[s] = Seen("started")]
        BY AfterServer
    <2>2. QED
        BY <1>3, <2>1, Announced DEF Start, Stages
<1>4. CASE Drop(s)
    <2>1. \A p : After(p, About("ServerDisconnected", s)) = [p EXCEPT !.server[s] = Seen("closing")]
        BY AfterServer
    <2>2. QED
        BY <1>4, <2>1, Announced DEF Drop, Stages
<1>5. CASE Deregister(s)
    <2>1. \A p : After(p, About("ServerDeregistered", s)) = [p EXCEPT !.server[s] = Seen("dropped")]
        BY AfterServer
    <2>2. QED
        BY <1>5, <2>1, Announced DEF Deregister, Stages
<1>6. QED
    BY <1>1, <1>2, <1>3, <1>4, <1>5

\* Nobody is told when a scan ends, or when a server that is up is entered.
LEMMA AddedTold ==
    ASSUME WorldInv, NEW s \in Servers, Added(s) \/ EndScan(s)
    PROVE  WorldInv' /\ Truthful
<1>1. /\ life' = [life EXCEPT ![s] = "up"] /\ life[s] \in {"started", "scanning"}
      /\ UNCHANGED <<bus, known, at, scans, channel, mon, view, exit>>
    BY DEF Added, EndScan, Stage
<1>2. WorldInv'
    BY <1>1, StageKept DEF Stages
<1>3. \A t \in Servers : Seen(life'[t]) = Seen(life[t])
    BY <1>1, SeenIs DEF WorldInv, WorldOK
<1>4. Picture' = Picture
    BY <1>1, <1>3, PictureSame DEF WorldInv, WorldOK
<1>5. QED
    BY <1>1, <1>2, <1>4 DEF Truthful

LEMMA ScanTold ==
    ASSUME WorldInv, NEW s \in Servers, Scan(s)
    PROVE  WorldInv' /\ Truthful
<1>1. /\ life' = [life EXCEPT ![s] = "scanning"] /\ life[s] = "up" /\ bus' = bus \cup {s}
      /\ IF s \in bus THEN UNCHANGED channel ELSE Push(s, About("BusAdded", s))
      /\ todo' = [todo EXCEPT ![s] = Devices] /\ UNCHANGED <<known, at, found, mon, view, exit>>
    BY DEF Scan, Stage
<1>2. \A t \in Servers : life'[t] = IF t = s THEN "scanning" ELSE life[t]
    BY <1>1 DEF WorldInv, WorldOK
<1>3. WorldInv'
    <2>1. WorldOK'
        BY <1>1 DEF WorldInv, WorldOK, Stages
    <2>2. BareServers'
        BY <1>1, <1>2 DEF WorldInv, BareServers, Bare
    <2>3. QED
        BY <2>1, <2>2 DEF WorldInv
<1>4. \A t \in Servers : Seen(life'[t]) = Seen(life[t])
    BY <1>1, <1>2, SeenIs
<1>5. CASE s \in bus
    <2>1. bus' = bus
        BY <1>1, <1>5
    <2>2. QED
        BY <1>1, <1>3, <1>4, <1>5, <2>1, PictureSame DEF WorldInv, WorldOK, Truthful
<1>6. CASE s \notin bus
    <2>1. Picture' = [server |-> Picture.server, bus |-> bus \cup {s}, known |-> known, at |-> at]
        BY <1>1, <1>4, PictureRest DEF WorldInv, WorldOK
    <2>2. Picture' = [Picture EXCEPT !.bus = @ \cup {s}]
        BY <2>1, PictureParts
    <2>3. s \in Tasks /\ About("BusAdded", s) \in Event
        BY DEF Tasks, Event, About
    <2>4. Picture' = After(Picture, About("BusAdded", s))
        BY <2>2, AfterBus
    <2>5. QED
        BY <1>1, <1>3, <1>6, <2>3, <2>4 DEF Truthful
<1>7. QED
    BY <1>5, <1>6

LEMMA FreeBusTold ==
    ASSUME WorldInv, NEW s \in Servers, FreeBus(s)
    PROVE  WorldInv' /\ Truthful
<1>1. /\ life' = [life EXCEPT ![s] = "freed"] /\ life[s] = "closing" /\ bus' = bus \ {s}
      /\ IF s \in bus THEN Push(s, About("BusDeleted", s)) ELSE UNCHANGED channel
      /\ UNCHANGED <<known, at, scans, mon, view, exit>> /\ \A d \in Devices : at[d] # s
    BY DEF FreeBus, Stage
<1>2. \A t \in Servers : life'[t] = IF t = s THEN "freed" ELSE life[t]
    BY <1>1 DEF WorldInv, WorldOK
<1>3. WorldInv'
    <2>1. WorldOK'
        BY <1>1 DEF WorldInv, WorldOK, Stages, scans
    <2>2. BareServers'
        BY <1>1, <1>2 DEF WorldInv, BareServers, Bare
    <2>3. QED
        BY <2>1, <2>2 DEF WorldInv
<1>4. \A t \in Servers : Seen(life'[t]) = Seen(life[t])
    BY <1>1, <1>2, SeenIs
<1>5. CASE s \notin bus
    <2>1. bus' = bus
        BY <1>1, <1>5
    <2>2. QED
        BY <1>1, <1>3, <1>4, <1>5, <2>1, PictureSame DEF WorldInv, WorldOK, Truthful
<1>6. CASE s \in bus
    <2>1. Picture' = [server |-> Picture.server, bus |-> bus \ {s}, known |-> known, at |-> at]
        BY <1>1, <1>4, PictureRest DEF WorldInv, WorldOK
    <2>2. Picture' = [Picture EXCEPT !.bus = @ \ {s}]
        BY <2>1, PictureParts
    <2>3. s \in Tasks /\ About("BusDeleted", s) \in Event
        BY DEF Tasks, Event, About
    <2>4. Picture' = After(Picture, About("BusDeleted", s))
        BY <2>2, AfterBus
    <2>5. QED
        BY <1>1, <1>3, <1>6, <2>3, <2>4 DEF Truthful
<1>7. QED
    BY <1>5, <1>6

LEMMA GetDeviceTold ==
    ASSUME WorldInv, NEW s \in Servers, NEW d \in Devices, GetDevice(s, d)
    PROVE  WorldInv' /\ Truthful
<1>1. /\ known' = known \cup {d} /\ found' = [found EXCEPT ![s] = d]
      /\ IF d \in known THEN UNCHANGED channel ELSE Push(s, Of("DeviceAdded", d))
      /\ UNCHANGED <<life, bus, at, todo, mon, view, exit>>
    BY DEF GetDevice
<1>2. WorldInv'
    BY <1>1 DEF WorldInv, WorldOK, BareServers, Bare
<1>3. CASE d \in known
    <2>1. known' = known
        BY <1>1, <1>3
    <2>2. QED
        BY <1>1, <1>2, <1>3, <2>1, PictureSame DEF WorldInv, WorldOK, Truthful
<1>4. CASE d \notin known
    <2>1. Picture' = [server |-> Picture.server, bus |-> bus, known |-> known \cup {d}, at |-> at]
        BY <1>1, PictureRest DEF WorldInv, WorldOK
    <2>2. Picture' = [Picture EXCEPT !.known = @ \cup {d}]
        BY <2>1, PictureParts
    <2>3. s \in Tasks /\ Of("DeviceAdded", d) \in Event
        BY DEF Tasks, Event, Of
    <2>4. Picture' = After(Picture, Of("DeviceAdded", d))
        BY <2>2, AfterDevice
    <2>5. QED
        BY <1>1, <1>2, <1>4, <2>3, <2>4 DEF Truthful
<1>5. QED
    BY <1>3, <1>4

LEMMA DeleteDeviceTold ==
    ASSUME WorldInv, NEW d \in Devices, DeleteDevice(d)
    PROVE  WorldInv' /\ Truthful
<1>1. /\ known' = known \ {d} /\ Push(User, Of("DeviceDeleted", d))
      /\ UNCHANGED <<life, bus, at, scans, mon, view, exit>>
    BY DEF DeleteDevice
<1>2. WorldInv'
    BY <1>1 DEF WorldInv, WorldOK, BareServers, Bare, scans
<1>3. Picture' = [server |-> Picture.server, bus |-> bus, known |-> known \ {d}, at |-> at]
    BY <1>1, PictureRest DEF WorldInv, WorldOK
<1>4. Picture' = [Picture EXCEPT !.known = @ \ {d}]
    BY <1>3, PictureParts
<1>5. User \in Tasks /\ Of("DeviceDeleted", d) \in Event
    BY DEF Tasks, Event, Of
<1>6. Picture' = After(Picture, Of("DeviceDeleted", d))
    BY <1>4, AfterDevice
<1>7. QED
    BY <1>1, <1>2, <1>5, <1>6 DEF Truthful

\* A device comes to a server that is being scanned, or to none.
LEMMA Moved ==
    ASSUME WorldInv, NEW d \in Devices, NEW x \in Servers \cup {None}, at' = [at EXCEPT ![d] = x],
           x # None => life[x] = "scanning",
           UNCHANGED <<life, bus, known>>,
           todo' \in [Servers -> SUBSET Devices], found' \in [Servers -> Devices \cup {None}]
    PROVE  /\ WorldInv'
           /\ Picture' = [Picture EXCEPT !.at[d] = x]
<1>1. \A e \in Devices : at'[e] = IF e = d THEN x ELSE at[e]
    BY DEF WorldInv, WorldOK
<1>2. WorldOK'
    BY DEF WorldInv, WorldOK
<1>3. BareServers'
    <2>1. SUFFICES ASSUME NEW s \in Servers, life[s] \notin {"up", "scanning", "closing"}
                   PROVE  s \notin bus' /\ \A e \in Devices : at'[e] # s
        BY DEF BareServers, Bare
    <2>2. Bare(s) /\ s # None
        BY <2>1, EventsAssumption DEF WorldInv, BareServers
    <2>3. x # s
        BY <2>1, <2>2
    <2>4. QED
        BY <1>1, <2>2, <2>3 DEF Bare
<1>4. Picture' = [server |-> Picture.server, bus |-> bus, known |-> known, at |-> at']
    BY PictureRest DEF WorldInv, WorldOK
<1>5. Picture' = [Picture EXCEPT !.at[d] = x]
    BY <1>4, PictureParts
<1>6. QED
    BY <1>2, <1>3, <1>5 DEF WorldInv

LEMMA LocateTold ==
    ASSUME WorldInv, NEW s \in Servers, Locate(s)
    PROVE  WorldInv' /\ Truthful
<1>1. PICK d \in Devices :
         /\ at' = [at EXCEPT ![d] = s]
         /\ IF at[d] = s THEN UNCHANGED channel
            ELSE Push(s, [kind |-> "DeviceLocated", device |-> d, server |-> s])
         /\ todo' = [todo EXCEPT ![s] = @ \ {d}]
         /\ found' = [found EXCEPT ![s] = None]
    BY DEF Locate, WorldInv, WorldOK
<1>2. life[s] = "scanning" /\ UNCHANGED <<life, bus, known, mon, view, exit>>
    BY DEF Locate
<1>3. todo' \in [Servers -> SUBSET Devices] /\ found' \in [Servers -> Devices \cup {None}]
    BY <1>1 DEF WorldInv, WorldOK
<1>4. WorldInv' /\ Picture' = [Picture EXCEPT !.at[d] = s]
    BY <1>1, <1>2, <1>3, Moved
<1>5. CASE at[d] = s
    <2>1. at' = at
        BY <1>1, <1>5 DEF WorldInv, WorldOK
    <2>2. QED
        BY <1>1, <1>2, <1>4, <1>5, <2>1, PictureSame DEF WorldInv, WorldOK, Truthful
<1>6. CASE at[d] # s
    <2>1. s \in Tasks /\ [kind |-> "DeviceLocated", device |-> d, server |-> s] \in Event
        BY DEF Tasks, Event
    <2>2. Picture' = After(Picture, [kind |-> "DeviceLocated", device |-> d, server |-> s])
        BY <1>4, AfterLocated
    <2>3. QED
        BY <1>1, <1>2, <1>4, <1>6, <2>1, <2>2 DEF Truthful
<1>7. QED
    BY <1>5, <1>6

LEMMA LostTold ==
    ASSUME WorldInv, NEW s \in Servers, NEW d \in Devices, at' = [at EXCEPT ![d] = None],
           Push(s, Of("DeviceNotFound", d)), UNCHANGED <<life, bus, known, found, mon, view, exit>>,
           todo' \in [Servers -> SUBSET Devices]
    PROVE  WorldInv' /\ Truthful
<1>1. WorldInv' /\ Picture' = [Picture EXCEPT !.at[d] = None]
    BY Moved DEF WorldInv, WorldOK
<1>2. s \in Tasks /\ Of("DeviceNotFound", d) \in Event
    BY DEF Tasks, Event, Of
<1>3. Picture' = After(Picture, Of("DeviceNotFound", d))
    BY <1>1, AfterDevice
<1>4. QED
    BY <1>1, <1>2, <1>3 DEF Truthful

LEMMA MissTold ==
    ASSUME WorldInv, NEW s \in Servers, NEW d \in Devices, Miss(s, d) \/ FreeDevice(s, d)
    PROVE  WorldInv' /\ Truthful
<1>1. todo' \in [Servers -> SUBSET Devices] /\ UNCHANGED <<life, bus, known, found, mon, view, exit>>
    BY DEF Miss, FreeDevice, scans, WorldInv, WorldOK
<1>2. CASE UNCHANGED <<at, channel>>
    <2>1. WorldInv'
        BY <1>1, <1>2 DEF WorldInv, WorldOK, BareServers, Bare
    <2>2. Picture' = Picture
        BY <1>1, <1>2, PictureSame DEF WorldInv, WorldOK
    <2>3. QED
        BY <1>1, <1>2, <2>1, <2>2 DEF Truthful
<1>3. CASE at' = [at EXCEPT ![d] = None] /\ Push(s, Of("DeviceNotFound", d))
    BY <1>1, <1>3, LostTold
<1>4. QED
    BY <1>2, <1>3 DEF Miss, FreeDevice

WorldStep ==
    \/ \E s \in Servers : Register(s) \/ Scan(s) \/ Drop(s) \/ ServerStep(s)
    \/ \E d \in Devices : DeleteDevice(d)

LEMMA WorldTold ==
    ASSUME WorldInv, WorldStep
    PROVE  WorldInv' /\ Truthful
BY StagesTold, AddedTold, ScanTold, FreeBusTold, GetDeviceTold, DeleteDeviceTold, LocateTold, MissTold
   DEF WorldStep, ServerStep

-----------------------------------------------------------------------------
(* The events a monitor has yet to see.                                    *)

\* A queue and the events of those who wait, one after the other.
Join(a, w) == a \o [i \in DOMAIN w |-> w[i][2]]

LEMMA Joined ==
    ASSUME NEW a \in Seq(Event), NEW w \in Seq(Tasks \X Event)
    PROVE  /\ Join(a, w) \in Seq(Event) /\ Len(Join(a, w)) = Len(a) + Len(w)
           /\ Len(a) \in Nat /\ Len(w) \in Nat
           /\ \A i \in 1..Len(a) : Join(a, w)[i] = a[i]
           /\ \A i \in 1..Len(w) : Join(a, w)[Len(a) + i] = w[i][2]
<1> DEFINE b == [i \in DOMAIN w |-> w[i][2]]
<1>1. DOMAIN w = 1..Len(w) /\ Len(w) \in Nat /\ Len(a) \in Nat
    OBVIOUS
<1>2. \A i \in 1..Len(w) : w[i] \in Tasks \X Event
    OBVIOUS
<1>3. b \in [1..Len(w) -> Event]
    BY <1>1, <1>2
<1>4. b \in Seq(Event) /\ Len(b) = Len(w) /\ \A i \in 1..Len(w) : b[i] = w[i][2]
    BY <1>1, <1>3
<1>5. Join(a, w) = a \o b
    BY DEF Join
<1> HIDE DEF b
<1>6. /\ a \o b \in Seq(Event) /\ Len(a \o b) = Len(a) + Len(b)
      /\ \A i \in 1..(Len(a) + Len(b)) :
            (a \o b)[i] = IF i <= Len(a) THEN a[i] ELSE b[i - Len(a)]
    <2>1. a \in Seq(Event) /\ b \in Seq(Event)
        BY <1>4
    <2>2. a \o b \in Seq(Event)
        BY <2>1, ConcatProperties
    <2>3. Len(a \o b) = Len(a) + Len(b)
        BY <2>1, ConcatProperties
    <2>4. \A i \in 1..(Len(a) + Len(b)) :
            (a \o b)[i] = IF i <= Len(a) THEN a[i] ELSE b[i - Len(a)]
        BY <2>1, ConcatProperties
    <2>5. QED
        BY <2>2, <2>3, <2>4
<1>7. ASSUME NEW i \in 1..Len(a) PROVE (a \o b)[i] = a[i]
    BY <1>1, <1>4, <1>6
<1>8. ASSUME NEW i \in 1..Len(w) PROVE (a \o b)[Len(a) + i] = b[i]
    <2>1. /\ Len(a) + i \in 1..(Len(a) + Len(b)) /\ ~(Len(a) + i <= Len(a))
          /\ (Len(a) + i) - Len(a) = i
        BY <1>1, <1>4
    <2>2. QED
        BY <1>6, <2>1
<1>9. QED
    BY <1>1, <1>4, <1>5, <1>6, <1>7, <1>8

LEMMA NewsAre ==
    ASSUME ChannelOK
    PROVE  /\ News \in Seq(Event) /\ Len(News) = Len(queue) + Len(blocked)
           /\ Len(queue) \in Nat /\ Len(blocked) \in Nat
           /\ \A i \in 1..Len(queue) : News[i] = queue[i]
           /\ \A i \in 1..Len(blocked) : News[Len(queue) + i] = blocked[i][2]
<1>1. News = Join(queue, blocked)
    BY DEF News, Join
<1>2. queue \in Seq(Event) /\ blocked \in Seq(Tasks \X Event)
    BY DEF ChannelOK
<1> DEFINE n == Join(queue, blocked)
<1>3. /\ n \in Seq(Event) /\ Len(n) = Len(queue) + Len(blocked)
      /\ Len(queue) \in Nat /\ Len(blocked) \in Nat
      /\ \A i \in 1..Len(queue) : n[i] = queue[i]
      /\ \A i \in 1..Len(blocked) : n[Len(queue) + i] = blocked[i][2]
    BY <1>2, Joined
<1> HIDE DEF n
<1>4. News = n
    BY <1>1 DEF n
<1>5. QED
    BY <1>3, <1>4

LEMMA NewsAreNext ==
    ASSUME ChannelOK'
    PROVE  /\ News' \in Seq(Event) /\ Len(News') = Len(queue') + Len(blocked')
           /\ Len(queue') \in Nat /\ Len(blocked') \in Nat
           /\ \A i \in 1..Len(queue') : News'[i] = queue'[i]
           /\ \A i \in 1..Len(blocked') : News'[Len(queue') + i] = blocked'[i][2]
<1>1. News' = Join(queue', blocked')
    BY DEF News, Join
<1>2. queue' \in Seq(Event) /\ blocked' \in Seq(Tasks \X Event)
    BY DEF ChannelOK
<1> DEFINE n == Join(queue', blocked')
<1>3. /\ n \in Seq(Event) /\ Len(n) = Len(queue') + Len(blocked')
      /\ Len(queue') \in Nat /\ Len(blocked') \in Nat
      /\ \A i \in 1..Len(queue') : n[i] = queue'[i]
      /\ \A i \in 1..Len(blocked') : n[Len(queue') + i] = blocked'[i][2]
    BY <1>2, Joined
<1> HIDE DEF n
<1>4. News' = n
    BY <1>1 DEF n
<1>5. QED
    BY <1>3, <1>4

LEMMA NewsPushed ==
    ASSUME ChannelOK, NEW t \in Tasks, NEW e \in Event, Push(t, e), q = "open"
    PROVE  /\ Len(News') = Len(News) + 1 /\ News'[Len(News) + 1] = e
           /\ \A i \in 1..Len(News) : News'[i] = News[i]
<1>1. ChannelOK'
    BY PushType
<1>2. CASE Len(queue) < Capacity /\ queue' = Append(queue, e) /\ UNCHANGED blocked
    <2>1. blocked = <<>> /\ blocked' = <<>>
        BY <1>2, EventsAssumption DEF ChannelOK
    <2>2. /\ Len(queue') = Len(queue) + 1 /\ queue'[Len(queue) + 1] = e /\ Len(queue) \in Nat
          /\ \A i \in 1..Len(queue) : queue'[i] = queue[i]
        BY <1>2 DEF ChannelOK
    <2>3. Len(News) = Len(queue) /\ \A i \in 1..Len(queue) : News[i] = queue[i]
        BY <2>1, NewsAre
    <2>4. Len(News') = Len(queue') /\ \A i \in 1..Len(queue') : News'[i] = queue'[i]
        <3>1. Len(News') = Len(queue') + Len(blocked') /\ \A i \in 1..Len(queue') : News'[i] = queue'[i]
            BY <1>1, NewsAreNext
        <3>2. QED
            BY <2>1, <2>2, <3>1
    <2>5. QED
        BY <2>2, <2>3, <2>4
<1>3. CASE blocked' = Append(blocked, <<t, e>>) /\ UNCHANGED queue
    <2>1. /\ Len(blocked') = Len(blocked) + 1 /\ blocked'[Len(blocked) + 1] = <<t, e>>
          /\ \A i \in 1..Len(blocked) : blocked'[i] = blocked[i]
        BY <1>3 DEF ChannelOK
    <2>2. /\ Len(News) = Len(queue) + Len(blocked) /\ Len(queue) \in Nat /\ Len(blocked) \in Nat
          /\ \A i \in 1..Len(queue) : News[i] = queue[i]
          /\ \A i \in 1..Len(blocked) : News[Len(queue) + i] = blocked[i][2]
        BY NewsAre
    <2>3. /\ Len(News') = Len(queue) + Len(blocked')
          /\ \A i \in 1..Len(queue) : News'[i] = queue[i]
          /\ \A i \in 1..Len(blocked') : News'[Len(queue) + i] = blocked'[i][2]
        <3>1. /\ Len(News') = Len(queue') + Len(blocked')
              /\ \A i \in 1..Len(queue') : News'[i] = queue'[i]
              /\ \A i \in 1..Len(blocked') : News'[Len(queue') + i] = blocked'[i][2]
            BY <1>1, NewsAreNext
        <3>2. QED
            BY <1>3, <3>1
    <2>4. ASSUME NEW i \in 1..Len(News) PROVE News'[i] = News[i]
        <3>1. CASE i \in 1..Len(queue)
            BY <2>2, <2>3, <3>1
        <3>2. CASE i \notin 1..Len(queue)
            <4>1. i - Len(queue) \in 1..Len(blocked) /\ Len(queue) + (i - Len(queue)) = i
                BY <2>2, <3>2
            <4>2. i - Len(queue) \in 1..Len(blocked')
                BY <2>1, <2>2, <4>1
            <4>3. News[i] = blocked[i - Len(queue)][2] /\ News'[i] = blocked'[i - Len(queue)][2]
                BY <2>2, <2>3, <4>1, <4>2
            <4>4. QED
                BY <2>1, <4>1, <4>3
        <3>3. QED
            BY <3>1, <3>2
    <2>5. News'[Len(News) + 1] = e
        <3>1. Len(blocked) + 1 \in 1..Len(blocked') /\ Len(queue) + (Len(blocked) + 1) = Len(News) + 1
            BY <2>1, <2>2
        <3>2. QED
            BY <2>1, <2>3, <3>1
    <2>6. Len(News') = Len(News) + 1
        BY <2>1, <2>2, <2>3
    <2>7. QED
        BY <2>4, <2>5, <2>6
<1>4. QED
    BY <1>2, <1>3 DEF Push

LEMMA NewsReceived ==
    ASSUME ChannelOK, Receive
    PROVE  /\ Len(News) \in Nat \ {0} /\ Len(News') = Len(News) - 1 /\ News[1] = Head(queue)
           /\ \A i \in 1..Len(News') : News'[i] = News[i + 1]
<1>1. ChannelOK'
    BY ReceiveType
<1>2. /\ Len(News) = Len(queue) + Len(blocked) /\ Len(blocked) \in Nat /\ Len(queue) \in Nat \ {0}
      /\ \A i \in 1..Len(queue) : News[i] = queue[i]
      /\ \A i \in 1..Len(blocked) : News[Len(queue) + i] = blocked[i][2]
    BY NewsAre DEF Receive, ChannelOK
<1>3. /\ Len(News') = Len(queue') + Len(blocked')
      /\ \A i \in 1..Len(queue') : News'[i] = queue'[i]
      /\ \A i \in 1..Len(blocked') : News'[Len(queue') + i] = blocked'[i][2]
    BY <1>1, NewsAreNext
<1>4. /\ Len(Tail(queue)) = Len(queue) - 1 /\ Head(queue) = queue[1] /\ Tail(queue) \in Seq(Event)
      /\ \A i \in 1..(Len(queue) - 1) : Tail(queue)[i] = queue[i + 1]
    BY <1>2 DEF ChannelOK
<1>5. Len(News) \in Nat \ {0} /\ News[1] = Head(queue)
    BY <1>2, <1>4
<1>6. CASE blocked = <<>> /\ queue' = Tail(queue) /\ UNCHANGED blocked
    <2>1. Len(blocked) = 0 /\ Len(blocked') = 0
        BY <1>6
    <2>2. Len(News') = Len(News) - 1 /\ Len(News') = Len(queue) - 1 /\ Len(News) = Len(queue)
        BY <1>2, <1>3, <1>4, <1>6, <2>1
    <2>3. ASSUME NEW i \in 1..Len(News') PROVE News'[i] = News[i + 1]
        <3>1. i \in 1..Len(queue') /\ i \in 1..(Len(queue) - 1) /\ i + 1 \in 1..Len(queue)
            BY <1>2, <1>4, <1>6, <2>2
        <3>2. QED
            BY <1>2, <1>3, <1>4, <1>6, <3>1
    <2>4. QED
        BY <1>5, <2>2, <2>3
<1>7. CASE /\ blocked # <<>> /\ queue' = Append(Tail(queue), blocked[1][2])
           /\ blocked' = Tail(blocked)
    <2>1. /\ Len(blocked) \in Nat \ {0} /\ Len(blocked') = Len(blocked) - 1
          /\ \A i \in 1..(Len(blocked) - 1) : blocked'[i] = blocked[i + 1]
        BY <1>7 DEF ChannelOK
    <2>2. /\ Len(queue') = Len(queue) /\ queue'[Len(queue)] = blocked[1][2]
          /\ \A i \in 1..(Len(queue) - 1) : queue'[i] = queue[i + 1]
        <3>1. blocked[1][2] \in Event
            <4>1. blocked[1] \in Tasks \X Event
                BY <2>1 DEF ChannelOK
            <4>2. QED
                BY <4>1
        <3>2. /\ Len(Append(Tail(queue), blocked[1][2])) = Len(Tail(queue)) + 1
              /\ Append(Tail(queue), blocked[1][2])[Len(Tail(queue)) + 1] = blocked[1][2]
              /\ \A i \in 1..Len(Tail(queue)) : Append(Tail(queue), blocked[1][2])[i] = Tail(queue)[i]
            BY <1>4, <3>1
        <3>3. QED
            BY <1>2, <1>4, <1>7, <3>2
    <2>3. Len(News') = Len(News) - 1 /\ Len(News) = Len(queue) + Len(blocked)
        BY <1>2, <1>3, <2>1, <2>2
    <2>4. ASSUME NEW i \in 1..Len(News') PROVE News'[i] = News[i + 1]
        <3>0. i \in Int /\ 1 <= i /\ i <= Len(queue) + Len(blocked) - 1
            BY <1>2, <2>1, <2>3
        <3>1. CASE i < Len(queue)
            <4>1. i \in 1..(Len(queue) - 1) /\ i \in 1..Len(queue') /\ i + 1 \in 1..Len(queue)
                BY <1>2, <2>2, <3>0, <3>1
            <4>2. QED
                BY <1>2, <1>3, <2>2, <4>1
        <3>2. CASE i = Len(queue)
            <4>1. i \in 1..Len(queue') /\ 1 \in 1..Len(blocked)
                BY <1>2, <2>1, <2>2, <3>0, <3>2
            <4>2. News'[i] = blocked[1][2]
                BY <1>3, <2>2, <3>2, <4>1
            <4>3. News[i + 1] = blocked[1][2]
                BY <1>2, <3>2, <4>1
            <4>4. QED
                BY <4>2, <4>3
        <3>3. CASE i > Len(queue)
            <4>1. /\ i - Len(queue) \in 1..(Len(blocked) - 1)
                  /\ Len(queue) + (i - Len(queue)) = i
                  /\ Len(queue) + ((i - Len(queue)) + 1) = i + 1
                  /\ (i - Len(queue)) + 1 \in 1..Len(blocked)
                BY <1>2, <2>1, <3>0, <3>3
            <4>2. News'[i] = blocked'[i - Len(queue)][2]
                BY <1>3, <2>1, <2>2, <4>1
            <4>3. News[i + 1] = blocked[(i - Len(queue)) + 1][2]
                BY <1>2, <4>1
            <4>4. QED
                BY <2>1, <4>1, <4>2, <4>3
        <3>4. QED
            BY <1>2, <3>0, <3>1, <3>2, <3>3
    <2>5. QED
        BY <1>5, <2>3, <2>4
<1>8. QED
    BY <1>6, <1>7 DEF Receive

-----------------------------------------------------------------------------
(* The channel.                                                            *)

\* While the service lasts a monitor that reads has the queue open; it is
\* closed for good at the end; one that nobody has is empty.
ChannelInv ==
    /\ mon = "reading" /\ exit # "over" => q = "open"
    /\ exit = "over" => q # "open"
    /\ q = "none" => queue = <<>> /\ blocked = <<>>

EInv == TypeOK /\ BareServers /\ ChannelInv

LEMMA TypeParts ==
    TypeOK <=> /\ WorldOK /\ ChannelOK
               /\ mon \in {"away", "reading", "draining", "crashed"}
               /\ exit \in {"no", "dropping", "over"}
BY DEF TypeOK, WorldOK, ChannelOK

LEMMA TypePartsNext ==
    TypeOK' <=> /\ WorldOK' /\ ChannelOK'
                /\ mon' \in {"away", "reading", "draining", "crashed"}
                /\ exit' \in {"no", "dropping", "over"}
BY DEF TypeOK, WorldOK, ChannelOK

LEMMA WorldEInv ==
    ASSUME EInv, WorldStep
    PROVE  EInv'
<1>1. WorldInv' /\ Truthful
    BY WorldTold, TypeParts DEF EInv, WorldInv
<1>2. CASE UNCHANGED channel
    BY <1>1, <1>2, TypeParts, TypePartsNext
       DEF EInv, WorldInv, Truthful, channel, ChannelOK, ChannelInv
<1>3. CASE \E t \in Tasks, e \in Event : Push(t, e)
    <2>1. PICK t \in Tasks, e \in Event : Push(t, e)
        BY <1>3
    <2>2. ChannelOK'
        BY <2>1, PushType, TypeParts DEF EInv
    <2>3. ChannelInv'
        BY <1>1, <2>1 DEF EInv, ChannelInv, Push, Truthful
    <2>4. QED
        BY <1>1, <2>2, <2>3, TypeParts, TypePartsNext DEF EInv, WorldInv, Truthful
<1>4. QED
    BY <1>1, <1>2, <1>3 DEF Truthful

\* The steps of the monitor and of the end of the service leave the world alone.
LEMMA AloneKept ==
    ASSUME EInv, UNCHANGED <<truth, scans>>, ChannelOK', ChannelInv',
           mon' \in {"away", "reading", "draining", "crashed"}, exit' \in {"no", "dropping", "over"}
    PROVE  EInv'
<1>1. WorldOK' /\ BareServers'
    BY TypeParts DEF EInv, truth, scans, WorldOK, BareServers, Bare
<1>2. QED
    BY <1>1, TypePartsNext DEF EInv

LEMMA MonitorEInv ==
    ASSUME EInv, Attach \/ Leave \/ Interrupt \/ MonitorStep
    PROVE  EInv'
<1>1. ChannelOK /\ exit \in {"no", "dropping", "over"}
    BY TypeParts DEF EInv
<1>2. CASE Attach
    <2>1. ChannelOK' /\ ChannelInv'
        BY <1>1, <1>2, EventsAssumption DEF Attach, ChannelOK, ChannelInv, EInv
    <2>2. QED
        BY <1>1, <1>2, <2>1, AloneKept DEF Attach
<1>3. CASE Leave \/ DrainFails
    <2>1. UNCHANGED <<truth, scans, channel, exit>> /\ mon' \in {"draining", "crashed"}
        BY <1>3 DEF Leave, DrainFails
    <2>2. ChannelOK' /\ ChannelInv'
        BY <1>1, <2>1 DEF channel, ChannelOK, ChannelInv, EInv
    <2>3. QED
        BY <1>1, <2>1, <2>2, AloneKept
<1>4. CASE Interrupt
    <2>1. {blocked[i][1] : i \in DOMAIN blocked} \subseteq Tasks
        <3>1. \A i \in DOMAIN blocked : blocked[i] \in Tasks \X Event
            BY <1>1 DEF ChannelOK
        <3>2. QED
            BY <3>1
    <2>2. stuck' \subseteq Tasks
        BY <1>1, <1>4, <2>1 DEF Interrupt, ChannelOK
    <2>3. ChannelOK' /\ ChannelInv'
        BY <1>1, <1>4, <2>2, EventsAssumption DEF Interrupt, ChannelOK, ChannelInv, EInv
    <2>4. QED
        BY <1>1, <1>4, <2>3, AloneKept DEF Interrupt
<1>5. CASE Handle \/ Drain
    <2>1. /\ Receive /\ mon \in {"reading", "draining"} /\ UNCHANGED <<truth, scans, mon, exit>>
        BY <1>5 DEF Handle, Drain
    <2>2. ChannelOK'
        BY <1>1, <2>1, ReceiveType
    <2>3. ChannelInv'
        BY <2>1 DEF Receive, ChannelInv, EInv
    <2>4. QED
        BY <1>1, <2>1, <2>2, <2>3, AloneKept
<1>6. CASE DrainEnds
    <2>1. blocked = <<>>
        BY <1>1, <1>6, EventsAssumption DEF DrainEnds, ChannelOK
    <2>2. ChannelOK' /\ ChannelInv'
        BY <1>1, <1>6, <2>1 DEF DrainEnds, ChannelOK, ChannelInv, EInv
    <2>3. QED
        BY <1>1, <1>6, <2>2, AloneKept DEF DrainEnds
<1>7. QED
    BY <1>2, <1>3, <1>4, <1>5, <1>6 DEF MonitorStep

LEMMA ExitEInv ==
    ASSUME EInv, Exit \/ ExitCloses
    PROVE  EInv'
<1>1. ChannelOK /\ mon \in {"away", "reading", "draining", "crashed"}
    BY TypeParts DEF EInv
<1>2. CASE Exit
    <2>1. ChannelOK' /\ ChannelInv'
        BY <1>1, <1>2 DEF Exit, channel, ChannelOK, ChannelInv, EInv
    <2>2. QED
        BY <1>1, <1>2, <2>1, AloneKept DEF Exit
<1>3. CASE ExitCloses
    <2>1. ChannelOK' /\ ChannelInv'
        BY <1>1, <1>3 DEF ExitCloses, ChannelOK, ChannelInv, EInv
    <2>2. QED
        BY <1>1, <1>3, <2>1, AloneKept DEF ExitCloses
<1>4. QED
    BY <1>2, <1>3

LEMMA EInit == Init => EInv
<1> SUFFICES ASSUME Init PROVE EInv
    OBVIOUS
<1>1. BareServers
    BY EventsAssumption DEF Init, BareServers, Bare
<1>2. ChannelInv
    BY DEF Init, ChannelInv
<1>3. QED
    BY <1>1, <1>2, TypesInit DEF EInv

LEMMA ENext == EInv /\ [Next]_vars => EInv'
<1> SUFFICES ASSUME EInv, [Next]_vars PROVE EInv'
    OBVIOUS
<1>1. CASE WorldStep
    BY <1>1, WorldEInv
<1>2. CASE Attach \/ Leave \/ Interrupt \/ MonitorStep
    BY <1>2, MonitorEInv
<1>3. CASE Exit \/ ExitCloses
    BY <1>3, ExitEInv
<1>4. CASE UNCHANGED vars
    <2>1. UNCHANGED <<truth, scans, channel, mon, exit>>
        BY <1>4 DEF vars
    <2>2. ChannelOK' /\ ChannelInv'
        BY <2>1, TypeParts DEF channel, ChannelOK, ChannelInv, EInv
    <2>3. QED
        BY <2>1, <2>2, AloneKept, TypeParts DEF EInv
<1>5. QED
    BY <1>1, <1>2, <1>3, <1>4 DEF Next, WorldStep, Done

-----------------------------------------------------------------------------
(* The story a monitor is told.                                            *)

\* In a picture a server that is gone has neither bus nor devices.
Orderly(p) == \A s \in Servers : p.server[s] = "gone" => s \notin p.bus /\ \A d \in Devices : p.at[d] # s

\* The pictures after each of the events to come, from what the monitor knows
\* to what is.
IsStory(p) ==
    /\ p \in [0..Len(News) -> Pictures] /\ p[0] = view
    /\ \A i \in 1..Len(News) : p[i] = After(p[i - 1], News[i])
    /\ \A i \in 0..Len(News) : Orderly(p[i])
    /\ exit # "over" => p[Len(News)] = Picture

StoryInv == mon = "reading" => \E p : IsStory(p)

LEMMA PictureOrderly == ASSUME WorldInv PROVE Orderly(Picture)
<1>1. SUFFICES ASSUME NEW s \in Servers, Picture.server[s] = "gone"
               PROVE  s \notin Picture.bus /\ \A d \in Devices : Picture.at[d] # s
    BY DEF Orderly
<1>2. Seen(life[s]) = "gone" /\ Picture.bus = bus /\ Picture.at = at
    BY <1>1, PictureIs
<1>3. life[s] \notin {"up", "scanning", "closing"}
    BY <1>2, SeenIs
<1>4. QED
    BY <1>2, <1>3 DEF WorldInv, BareServers, Bare

LEMMA PictureFits == WorldInv => Orderly(Picture) /\ Picture \in Pictures
BY PictureOrderly, PictureType DEF WorldInv

LEMMA PictureFitsNext == (WorldInv => Orderly(Picture) /\ Picture \in Pictures)'
BY PictureFits, PTL

\* Nothing is announced, or nobody hears it.
LEMMA StorySame ==
    ASSUME NEW p, IsStory(p), News' = News, view' = view,
           exit' # "over" => exit # "over" /\ Picture' = Picture
    PROVE  IsStory(p)'
BY DEF IsStory

\* An event is announced: the story has one more picture.
LEMMA StoryGrows ==
    ASSUME EInv, NEW p, IsStory(p), exit # "over", q = "open", Orderly(Picture'), Picture' \in Pictures,
           NEW t \in Tasks, NEW e \in Event, Push(t, e), Picture' = After(Picture, e),
           UNCHANGED <<view, exit>>
    PROVE  \E r : IsStory(r)'
<1> DEFINE n == Len(News)
<1>1. /\ Len(News') = n + 1 /\ News'[n + 1] = e
      /\ \A i \in 1..n : News'[i] = News[i]
    BY NewsPushed, TypeParts DEF EInv
<1>2. n \in Nat
    BY NewsAre, TypeParts DEF EInv
<1>3. /\ p \in [0..n -> Pictures] /\ p[0] = view
      /\ \A i \in 1..n : p[i] = After(p[i - 1], News[i])
      /\ \A i \in 0..n : Orderly(p[i])
      /\ p[n] = Picture
    BY DEF IsStory
<1> HIDE DEF n
<1>0. PICK r : r = [i \in 0..(n + 1) |-> IF i = n + 1 THEN Picture' ELSE p[i]]
    OBVIOUS
<1>4. /\ \A i \in 0..n : r[i] = p[i] /\ p[i] \in Pictures
      /\ r[n + 1] = Picture'
    BY <1>2, <1>3, <1>0
<1>5. \A i \in 0..(n + 1) : i = n + 1 \/ i \in 0..n
    BY <1>2
<1>6. r \in [0..(n + 1) -> Pictures]
    BY <1>2, <1>3, <1>0
<1>7. r[0] = view
    BY <1>2, <1>3, <1>4
<1>8. ASSUME NEW i \in 1..(n + 1) PROVE r[i] = After(r[i - 1], News'[i])
    <2>1. CASE i = n + 1
        <3>1. i - 1 = n /\ n \in 0..n
            BY <1>2, <2>1
        <3>2. r[i - 1] = Picture
            BY <1>3, <1>4, <3>1
        <3>3. QED
            BY <1>1, <1>4, <2>1, <3>2
    <2>2. CASE i \in 1..n
        <3>1. i - 1 \in 0..n /\ i \in 0..n
            BY <1>2, <2>2
        <3>2. QED
            BY <1>1, <1>3, <1>4, <2>2, <3>1
    <2>3. QED
        BY <1>2, <2>1, <2>2
<1>9. \A i \in 0..(n + 1) : Orderly(r[i])
    BY <1>3, <1>4, <1>5
<1>10. IsStory(r)'
    BY <1>1, <1>4, <1>6, <1>7, <1>8, <1>9 DEF IsStory
<1>11. QED
    BY <1>10

\* The monitor handles the first event.
LEMMA StoryGoesOn ==
    ASSUME EInv, NEW p, IsStory(p), Receive, view' = After(view, Head(queue)), exit' = exit, Picture' = Picture
    PROVE  \E r : IsStory(r)'
<1> DEFINE n == Len(News)
<1>1. /\ n \in Nat \ {0} /\ Len(News') = n - 1 /\ News[1] = Head(queue)
      /\ \A i \in 1..(n - 1) : News'[i] = News[i + 1]
    BY NewsReceived, TypeParts DEF EInv
<1>2. /\ p \in [0..n -> Pictures] /\ p[0] = view
      /\ \A i \in 1..n : p[i] = After(p[i - 1], News[i])
      /\ \A i \in 0..n : Orderly(p[i])
      /\ exit # "over" => p[n] = Picture
    BY DEF IsStory
<1> HIDE DEF n
<1>0. PICK r : r = [i \in 0..(n - 1) |-> p[i + 1]]
    OBVIOUS
<1>3. \A i \in 0..(n - 1) : i + 1 \in 0..n /\ i + 1 \in 1..n /\ r[i] = p[i + 1]
    BY <1>1, <1>0
<1>4. r \in [0..(n - 1) -> Pictures]
    BY <1>2, <1>3, <1>0
<1>5. r[0] = view'
    <2>1. p[1] = After(p[1 - 1], News[1]) /\ 1 - 1 = 0
        BY <1>1, <1>2
    <2>2. r[0] = p[1]
        BY <1>1, <1>3
    <2>3. QED
        BY <1>1, <1>2, <2>1, <2>2
<1>6. exit' # "over" => r[n - 1] = Picture'
    <2>1. r[n - 1] = p[n]
        BY <1>1, <1>3
    <2>2. QED
        BY <1>2, <2>1
<1>7. ASSUME NEW i \in 1..(n - 1) PROVE r[i] = After(r[i - 1], News'[i])
    <2>1. i \in 0..(n - 1) /\ i - 1 \in 0..(n - 1) /\ i + 1 \in 1..n /\ (i - 1) + 1 = i /\ (i + 1) - 1 = i
        BY <1>1
    <2>2. r[i] = p[i + 1] /\ r[i - 1] = p[i]
        BY <1>3, <2>1
    <2>3. p[i + 1] = After(p[i], News[i + 1])
        BY <1>2, <2>1
    <2>4. QED
        BY <1>1, <2>2, <2>3
<1>8. \A i \in 0..(n - 1) : Orderly(r[i])
    BY <1>2, <1>3
<1>9. IsStory(r)'
    BY <1>1, <1>4, <1>5, <1>6, <1>7, <1>8 DEF IsStory
<1>10. QED
    BY <1>9

\* The service ends: who waits to tell more is cancelled.
LEMMA StoryEnds ==
    ASSUME EInv, NEW p, IsStory(p), exit' = "over", view' = view, queue' = queue, blocked' = <<>>, ChannelOK'
    PROVE  \E r : IsStory(r)'
<1> DEFINE n == Len(queue)
<1>1. /\ n \in Nat /\ Len(blocked) \in Nat /\ Len(News) = n + Len(blocked)
      /\ \A i \in 1..n : News[i] = queue[i]
    BY NewsAre, TypeParts DEF EInv
<1>2. Len(News') = n /\ \A i \in 1..n : News'[i] = queue[i]
    <2>1. Len(News') = Len(queue') + Len(blocked') /\ \A i \in 1..Len(queue') : News'[i] = queue'[i]
        BY NewsAreNext
    <2>2. Len(blocked') = 0
        OBVIOUS
    <2>3. QED
        BY <1>1, <2>1, <2>2
<1>3. /\ p \in [0..Len(News) -> Pictures] /\ p[0] = view
      /\ \A i \in 1..Len(News) : p[i] = After(p[i - 1], News[i])
      /\ \A i \in 0..Len(News) : Orderly(p[i])
    BY DEF IsStory
<1> HIDE DEF n
<1>0. PICK r : r = [i \in 0..n |-> p[i]]
    OBVIOUS
<1>4. \A i \in 0..n : i \in 0..Len(News) /\ r[i] = p[i]
    BY <1>1, <1>0
<1>5. r \in [0..n -> Pictures] /\ r[0] = view
    <2>1. \A i \in 0..n : p[i] \in Pictures
        BY <1>3, <1>4
    <2>2. r \in [0..n -> Pictures]
        BY <1>0, <2>1
    <2>3. 0 \in 0..n
        BY <1>1
    <2>4. QED
        BY <1>3, <1>4, <2>2, <2>3
<1>6. ASSUME NEW i \in 1..n PROVE r[i] = After(r[i - 1], News'[i])
    <2>1. i \in 0..n /\ i - 1 \in 0..n /\ i \in 1..Len(News)
        BY <1>1
    <2>2. QED
        BY <1>1, <1>2, <1>3, <1>4, <2>1
<1>7. \A i \in 0..n : Orderly(r[i])
    BY <1>3, <1>4
<1>8. IsStory(r)'
    BY <1>2, <1>5, <1>6, <1>7 DEF IsStory
<1>9. QED
    BY <1>8

LEMMA PictureAlone == UNCHANGED truth => Picture' = Picture
BY DEF truth, Picture

LEMMA NewsAlone == UNCHANGED channel => News' = News
BY DEF channel, News

LEMMA StoryNext == EInv /\ StoryInv /\ [Next]_vars => StoryInv'
<1> SUFFICES ASSUME EInv, StoryInv, [Next]_vars, mon' = "reading" PROVE \E r : IsStory(r)'
    BY DEF StoryInv
<1>0. EInv'
    BY ENext
<1>1. CASE WorldStep
    <2>1. WorldInv' /\ Truthful
        BY <1>1, WorldTold, TypeParts DEF EInv, WorldInv
    <2>2. PICK p : IsStory(p)
        BY <2>1 DEF StoryInv, Truthful
    <2>3. CASE UNCHANGED channel /\ Picture' = Picture
        <3>1. IsStory(p)'
            BY <2>1, <2>2, <2>3, NewsAlone, StorySame DEF Truthful
        <3>2. QED
            BY <3>1
    <2>4. CASE \E t \in Tasks, e \in Event : Push(t, e) /\ Picture' = After(Picture, e)
        <3>1. PICK t \in Tasks, e \in Event : Push(t, e) /\ Picture' = After(Picture, e)
            BY <2>4
        <3>2. CASE exit = "over"
            <4>1. q # "open"
                BY <3>2 DEF EInv, ChannelInv
            <4>2. News' = News
                BY <3>1, <4>1 DEF Push, News
            <4>3. IsStory(p)'
                BY <2>1, <2>2, <3>2, <4>2, StorySame DEF Truthful
            <4>4. QED
                BY <4>3
        <3>3. CASE exit # "over"
            <4>1. q = "open"
                BY <2>1, <3>3 DEF EInv, ChannelInv, Truthful
            <4>2. Orderly(Picture') /\ Picture' \in Pictures
                BY <2>1, PictureFitsNext
            <4>3. QED
                BY <2>1, <2>2, <3>1, <3>3, <4>1, <4>2, StoryGrows DEF Truthful
        <3>4. QED
            BY <3>2, <3>3
    <2>5. QED
        BY <2>1, <2>3, <2>4 DEF Truthful
<1>2. CASE Attach
    <2>1. /\ queue' = <<>> /\ blocked' = <<>> /\ view' = Picture /\ Picture' = Picture
        BY <1>2, PictureAlone DEF Attach, EInv, ChannelInv
    <2>2. Len(News') = 0
        BY <2>1 DEF News
    <2>3. Orderly(Picture) /\ Picture \in Pictures
        BY PictureFits, TypeParts DEF EInv, WorldInv
    <2>0. PICK r : r = [i \in 0..0 |-> Picture]
        OBVIOUS
    <2>4. \A i \in 0..0 : r[i] = Picture
        BY <2>0
    <2>5. r \in [0..0 -> Pictures] /\ r[0] = Picture
        BY <2>3, <2>0
    <2>6. IsStory(r)'
        BY <2>1, <2>2, <2>3, <2>4, <2>5 DEF IsStory
    <2>7. QED
        BY <2>6
<1>3. CASE Leave \/ Interrupt \/ Drain \/ DrainEnds \/ DrainFails
    BY <1>3 DEF Leave, Interrupt, Drain, DrainEnds, DrainFails
<1>4. CASE Handle
    <2>1. PICK p : IsStory(p)
        BY <1>4 DEF StoryInv, Handle
    <2>2. QED
        BY <1>4, <2>1, PictureAlone, StoryGoesOn DEF Handle
<1>5. CASE ExitCloses
    <2>1. PICK p : IsStory(p)
        BY <1>5 DEF StoryInv, ExitCloses
    <2>2. ChannelOK'
        BY <1>0, TypePartsNext DEF EInv
    <2>3. QED
        BY <1>5, <2>1, <2>2, StoryEnds DEF ExitCloses
<1>6. CASE Exit \/ UNCHANGED vars
    <2>1. UNCHANGED <<truth, channel, mon, view>> /\ (exit' # "over" => exit # "over")
        BY <1>6 DEF Exit, vars
    <2>2. PICK p : IsStory(p)
        BY <2>1 DEF StoryInv
    <2>3. IsStory(p)'
        BY <2>1, <2>2, PictureAlone, NewsAlone, StorySame
    <2>4. QED
        BY <2>3
<1>7. QED
    BY <1>1, <1>2, <1>3, <1>4, <1>5, <1>6 DEF Next, WorldStep, MonitorStep, Done

-----------------------------------------------------------------------------
(* What is told step by step is the one story there is.                    *)

\* A set of numbers has a least one.
LEMMA Least ==
    ASSUME NEW T, T \subseteq Nat, T # {}
    PROVE  \E m \in T : \A k \in T : m <= k
<1> DEFINE R == OpToRel(<, Nat)
<1>1. \A a, b \in Nat : a < b => <<a, b>> \in R
    BY DEF OpToRel
<1>2. IsWellFoundedOn(R, Nat)
    BY NatLessThanWellFounded
<1> HIDE DEF R
<1>3. PICK m \in T : \A k \in T : <<k, m>> \notin R
    BY <1>2, WFMin
<1>4. \A k \in T : m <= k
    <2>1. \A a, b \in Nat : ~(b < a) => a <= b
        OBVIOUS
    <2>2. QED
        BY <1>1, <1>3, <2>1
<1>5. QED
    BY <1>4

LEMMA ToldIsStory ==
    ASSUME EInv, NEW p, IsStory(p)
    PROVE  \A i \in 0..Len(News) : Told[i] = p[i]
<1>1. /\ p \in [0..Len(News) -> Pictures] /\ p[0] = view
      /\ \A i \in 1..Len(News) : p[i] = After(p[i - 1], News[i])
    BY DEF IsStory
<1>2. Len(News) \in Nat
    BY NewsAre, TypeParts DEF EInv
<1>3. p = [i \in 0..Len(News) |-> IF i = 0 THEN view ELSE After(p[i - 1], News[i])]
    <2>1. \A i \in 0..Len(News) : p[i] = IF i = 0 THEN view ELSE After(p[i - 1], News[i])
        <3>1. \A i \in 0..Len(News) : i = 0 \/ i \in 1..Len(News)
            BY <1>2
        <3>2. QED
            BY <1>1, <3>1
    <2>2. p = [i \in 0..Len(News) |-> p[i]]
        BY <1>1
    <2>3. QED
        BY <2>1, <2>2
<1>4. Told = [i \in 0..Len(News) |-> IF i = 0 THEN view ELSE After(Told[i - 1], News[i])]
    BY <1>3 DEF Told
<1> DEFINE T == {i \in 0..Len(News) : Told[i] # p[i]}
<1>5. SUFFICES ASSUME T # {} PROVE FALSE
    OBVIOUS
<1>6. T \subseteq Nat
    OBVIOUS
<1>7. \A i \in T : i \in 0..Len(News) /\ Told[i] # p[i]
    OBVIOUS
<1>8. \A i \in 0..Len(News) : i \notin T => Told[i] = p[i]
    OBVIOUS
<1> HIDE DEF T
<1>9. PICK m \in T : \A k \in T : m <= k
    BY <1>5, <1>6, Least
<1>10. Told[m] = IF m = 0 THEN view ELSE After(Told[m - 1], News[m])
    BY <1>4, <1>7
<1>11. CASE m = 0
    BY <1>1, <1>7, <1>10, <1>11
<1>12. CASE m # 0
    <2>1. m - 1 \in 0..Len(News) /\ m \in 1..Len(News) /\ ~(m <= m - 1)
        BY <1>2, <1>7, <1>12
    <2>2. Told[m - 1] = p[m - 1]
        BY <1>8, <1>9, <2>1
    <2>3. QED
        BY <1>1, <1>7, <1>10, <1>12, <2>1, <2>2
<1>13. QED
    BY <1>11, <1>12

-----------------------------------------------------------------------------
(* The theorems.                                                           *)

\* The types of the service, and that tasks wait for the queue only while it
\* is full: it never holds more than its capacity (Service.push_event).
THEOREM TypeCorrect == Spec => []TypeOK
<1>1. EInv => TypeOK
    BY DEF EInv
<1>2. QED
    BY <1>1, EInit, ENext, PTL DEF Spec

LEMMA StoryAlways == Spec => [](EInv /\ StoryInv)
<1>1. Init => StoryInv
    BY DEF Init, StoryInv
<1>2. QED
    BY <1>1, EInit, ENext, StoryNext, PTL DEF Spec

\* What a monitor was told, with what waits in the queue and in the tasks
\* suspended on it, is what is: for any number of servers and devices and any
\* capacity nothing is told twice, out of order or not at all
\* (Service.push_event, the monitor's __anext__).
THEOREM StoryIsComplete == Spec => []PictureComplete
<1>1. EInv /\ StoryInv => PictureComplete
    <2>1. SUFFICES ASSUME EInv, StoryInv, mon = "reading", exit # "over"
                   PROVE  Told[Len(News)] = Picture
        BY DEF PictureComplete
    <2>2. PICK p : IsStory(p)
        BY <2>1 DEF StoryInv
    <2>3. Len(News) \in 0..Len(News)
        BY <2>1, NewsAre, TypeParts DEF EInv
    <2>4. QED
        BY <2>1, <2>2, <2>3, ToldIsStory DEF IsStory
<1>2. QED
    BY <1>1, StoryAlways, PTL

\* A monitor that learns that a server is gone knows of no bus and no device
\* of it, although it reads late and the queue is cut off when the service
\* ends (Server._del_server, Bus.delocate, Service.__aexit__).
THEOREM GoneComesLast == Spec => []GoneWithServer
<1>1. EInv /\ StoryInv => GoneWithServer
    <2>1. SUFFICES ASSUME EInv, StoryInv, mon = "reading" PROVE Orderly(view)
        BY DEF GoneWithServer, Orderly
    <2>2. PICK p : IsStory(p)
        BY <2>1 DEF StoryInv
    <2>3. 0 \in 0..Len(News)
        BY <2>1, NewsAre, TypeParts DEF EInv
    <2>4. QED
        BY <2>2, <2>3 DEF IsStory
<1>2. QED
    BY <1>1, StoryAlways, PTL
=============================================================================
