----------------------------- MODULE FrameStream -----------------------------
(***************************************************************************)
(* The state stream from the state of a session to the state that a client *)
(* shows: the session changes, the publisher captures frames and sends     *)
(* them as full or delta envelopes, the client applies each one, asks for  *)
(* the topology when the project is a new one, and assembles its state.    *)
(* The credit and the retention of the envelopes are the module Stream.    *)
(***************************************************************************)
EXTENDS Frames

CONSTANTS
    Orders,        \* the orders that may be submitted, in their order
    FleetOf,       \* the vehicles of a project, in their order, and those of the demo
    LanesOf,       \* the lanes of each network that a project may have
    MarkersOf,     \* the contract markers of the project with each network
    Scenes,        \* the behaviours explored: the kinds of steps that the session takes and their bound, the orders and
                   \* how many of them wait at the start, the networks of the projects applied, the connections that fail by themselves, whether a delta
                   \* may be too large, whether the publisher has other clients, and whether the scene is fair
    MaxWire        \* the bound on the publications under way

VARIABLES
    scene,         \* the steps of this behaviour
    session,       \* the identity, the project and the simulation of the server
    publisher,     \* the last captured frame, its stream and its sequence
    wire,          \* the publications under way to the client
    client,        \* the connection of the client, its frame and its assembler
    shown,         \* the state that the client shows, or none
    refused,       \* why the client closed its last connection
    drops          \* the connections that failed by themselves

frameVars == <<scene, session, publisher, wire, client, shown, refused, drops>>

Places(fleet) == {FleetOf[fleet][i] : i \in DOMAIN FleetOf[fleet]}

ASSUME FrameStreamAssumption ==
    /\ NoID \notin Stations /\ MaxCounter \in Nat \ {0, 1} /\ Seats \in Nat \ {0}
    /\ \A n \in DOMAIN LanesOf : LanesOf[n] \subseteq Lanes
    /\ NoLane \notin Lanes /\ \A l \in Lanes : LaneTo[l] \in Stations
    /\ Orders \in Seq([from : Stations, to : Stations, shared : BOOLEAN]) /\ \A k \in DOMAIN Orders : Orders[k].from # Orders[k].to
    \* A project with faults or emergencies has interruptions; the pods of a fleet are listed once.
    /\ MarkersOf \in [DOMAIN LanesOf -> [order : BOOLEAN, incident : BOOLEAN, fault : BOOLEAN, emergency : BOOLEAN]]
    /\ \A n \in DOMAIN LanesOf : MarkersOf[n].fault \/ MarkersOf[n].emergency => MarkersOf[n].incident
    /\ 1 \in DOMAIN LanesOf
    /\ \A s \in Scenes : s.networks \subseteq DOMAIN LanesOf /\ s.orders \in Seq(DOMAIN Orders) /\ s.waiting \in 0 .. Len(s.orders)
    /\ \A fleet \in {"own", "demo"} : /\ Len(FleetOf[fleet]) \in Nat /\ DOMAIN FleetOf[fleet] = 1 .. Len(FleetOf[fleet])
                                      /\ \A i, k \in DOMAIN FleetOf[fleet] : FleetOf[fleet][i].id = FleetOf[fleet][k].id => i = k
                                      /\ \A place \in Places(fleet) : place.id # NoID /\ place.station \in Stations \cup {NoID}
    \* The demo keeps the vehicles of the project.
    /\ \A own \in Places("own"), demo \in Places("demo") : own.id = demo.id => own.class = demo.class

-----------------------------------------------------------------------------
(***************************************************************************)
(* The session: what a frame shows of it.                                  *)
(***************************************************************************)
NewVehicle(place) ==
    [id |-> place.id, class |-> place.class, station |-> place.station, lane |-> NoLane, motion |-> 0, activity |-> "Idle",
     riders |-> Nil, records |-> Nil, stops |-> Nil, ridden |-> 0, withdrawn |-> {}, op |-> "service", blockedBy |-> 0,
     identity |-> 0, lanes |-> <<>>, current |-> 0]

NewWorld(network, fleet, serial) ==
    [network |-> network, tick |-> 0, submitted |-> 0, pending |-> <<>>, interrupted |-> 0, serial |-> serial, demo |-> fleet = "demo",
     faults |-> <<>>, emergencies |-> <<>>, started |-> 0, vehicles |-> [i \in DOMAIN FleetOf[fleet] |-> NewVehicle(FleetOf[fleet][i])]]

ListSlice(list) == IF list = <<>> THEN Nil ELSE {list}

\* The records are shown once a part of them differs from the berth and the distance at which the journey began.
LegacyRecords(v) ==
    v.activity \in {"Boarding", "Traveling"} /\ \A k \in DOMAIN Items(v.records) : Items(v.records)[k].meters = 0
ShownRecords(v) == IF Items(v.records) = <<>> \/ LegacyRecords(v) THEN Nil ELSE v.records

VehicleFrame(v) ==
    [pod |-> [id |-> v.id, class |-> v.class, station |-> v.station, berth |-> IF v.station = NoID THEN NoID ELSE Berth[v.station],
              lane |-> v.lane, motion |-> v.motion, activity |-> v.activity, blockedBy |-> v.blockedBy],
     riders |-> v.riders, boardings |-> ShownRecords(v), stops |-> v.stops,
     meta |-> [ridden |-> IF ShownRecords(v) = Nil THEN 0 ELSE v.ridden, withdrawn |-> v.withdrawn, operational |-> v.op]]

RouteFrame(v) ==
    [identity |-> v.identity, lanes |-> v.lanes, origin |-> v.lanes # <<>>, current |-> v.current]

OccupantOf(world, berth) ==
    LET at == {i \in DOMAIN world.vehicles : world.vehicles[i].station # NoID /\ Berth[world.vehicles[i].station] = berth}
    IN  IF at = {} THEN NoID ELSE world.vehicles[CHOOSE i \in at : TRUE].id

Markers == MarkersOf[session.world.network]

PresentationFrame ==
    LET w == session.world
    IN  [source |-> [start |-> session.start, epoch |-> session.epoch, project |-> session.project,
                     generation |-> session.generation, revision |-> session.revision],
         markers |-> Markers,
         groups |-> [controls |-> session.speed, checkpoints |-> session.checkpoints, restore |-> session.restore,
                     global |-> [submitted |-> w.submitted, tick |-> w.tick, demo |-> w.demo],
                     pending |-> ListSlice(w.pending), incident |-> w.interrupted,
                     faults |-> [active |-> ListSlice(w.faults), started |-> w.started],
                     emergencies |-> [active |-> ListSlice(w.emergencies), started |-> 0]],
         vehicles |-> [i \in DOMAIN w.vehicles |-> VehicleFrame(w.vehicles[i])],
         routes |-> [i \in DOMAIN w.vehicles |-> RouteFrame(w.vehicles[i])],
         berths |-> [b \in Berths |-> OccupantOf(w, b)]]

\* Mutant: the answer is the encoding of the first project.
TopologySnapshotKept ==
    [start |-> session.start, epoch |-> session.epoch, project |-> 1, markers |-> MarkersOf[session.networks[1]],
     network |-> session.networks[1], lanes |-> LanesOf[session.networks[1]]]

TopologySnapshot ==
    [start |-> session.start, epoch |-> session.epoch, project |-> session.project, markers |-> Markers,
     network |-> session.world.network, lanes |-> LanesOf[session.world.network]]

-----------------------------------------------------------------------------
(***************************************************************************)
(* The steps of the session that frames show.                              *)
(***************************************************************************)
Vehicles == DOMAIN session.world.vehicles
InScene(step) == step \in scene.steps /\ session.revision < scene.bound
Revised(s) == session' = [s EXCEPT !.revision = @ + 1]
Became(w) == Revised([session EXCEPT !.world = w])
Ticked(w) == Became([w EXCEPT !.tick = @ + 1])
ActiveIn(v) == Active(Items(v.riders))
Without(list, k) == SubSeq(list, 1, k - 1) \o SubSeq(list, k + 1, Len(list))
RequestOf(id, leg, pod) ==
    [id |-> id, from |-> Orders[id].from, to |-> Orders[id].to, shared |-> Orders[id].shared, leg |-> leg, pod |-> pod, done |-> FALSE]

RequestTrip ==
    /\ InScene("order") /\ session.world.submitted < Len(scene.orders)
    /\ LET id == scene.orders[session.world.submitted + 1]
       IN  Became([session.world EXCEPT !.submitted = @ + 1, !.pending = Append(@, RequestOf(id, NoID, NoID))])

\* The first party starts a history; another one at the same origin rides along; one on the way starts the boarding records.
Boarded(v, trip, records) ==
    LET rider == [trip EXCEPT !.pod = v.id]
        journey == IF ActiveIn(v) = {} THEN [v EXCEPT !.riders = {<<>>}, !.records = Nil, !.stops = {<<>>}, !.ridden = 0] ELSE v
    IN  [journey EXCEPT !.riders = {Append(The(@), rider)}, !.records = records, !.activity = "Boarding",
                        !.stops = IF trip.to \in ToSet(Items(@)) THEN @ ELSE {Append(Items(@), trip.to)}]

\* The station at which a party boards: its origin, or where an earlier vehicle left it.
LegOrigin(trip) == IF trip.leg = NoID THEN trip.from ELSE trip.leg

JoinedRecords(v, berth) ==
    IF ActiveIn(v) = {} \/ (v.ridden = 0 /\ Items(v.records) = <<>>) THEN Nil
    ELSE {Append(IF Items(v.records) # <<>> THEN Items(v.records)
                 ELSE [k \in DOMAIN Items(v.riders) |-> [berth |-> Berth[LegOrigin(Items(v.riders)[k])], meters |-> 0]],
                 [berth |-> berth, meters |-> v.ridden])}

Board(i) ==
    LET v == session.world.vehicles[i]
    IN  /\ InScene("board") /\ v.station # NoID /\ v.withdrawn = {} /\ v.activity \in {"Idle", "Boarding", "Continuing"}
        /\ Cardinality(ActiveIn(v)) < Seats
        /\ \E k \in DOMAIN session.world.pending :
               LET trip == session.world.pending[k]
               IN  /\ v.station = LegOrigin(trip)
                   /\ ActiveIn(v) # {} => trip.shared /\ \A j \in ActiveIn(v) : Items(v.riders)[j].shared
                   /\ Ticked([session.world EXCEPT !.pending = Without(@, k),
                                                   !.vehicles[i] = Boarded(v, trip, JoinedRecords(v, Berth[v.station]))])

LaneFrom(station) == {l \in LanesOf[session.world.network] : \E m \in Lanes : LaneTo[m] = station /\ l = (m % Cardinality(Lanes)) + 1}

\* replaceRoute: the identity of a route stays at the largest counter.
NextIdentity(v) == IF v.identity < MaxCounter THEN v.identity + 1 ELSE v.identity

Faulted(i) == \E k \in DOMAIN session.world.faults : session.world.faults[k].pod = session.world.vehicles[i].id

\* A faulted vehicle stays, and one with an emergency unloads.
Depart(i) ==
    LET v == session.world.vehicles[i]
    IN  /\ InScene("drive") /\ v.activity \in {"Boarding", "Continuing"} /\ ActiveIn(v) # {}
        /\ ~Faulted(i) /\ "emergency" \notin v.withdrawn
        /\ \E lane \in LaneFrom(v.station) :
               Ticked([session.world EXCEPT !.vehicles[i] =
                          [v EXCEPT !.activity = "Traveling", !.station = NoID, !.lane = lane, !.motion = 0, !.identity = NextIdentity(v),
                                    !.lanes = <<lane>>, !.current = 0]])

Drive(i) ==
    LET v == session.world.vehicles[i]
    IN  /\ InScene("drive") /\ v.lane # NoLane /\ v.motion = 0 /\ v.blockedBy = 0
        /\ Ticked([session.world EXCEPT !.vehicles[i] = [v EXCEPT !.motion = 1, !.ridden = @ + 1]])

\* The parties for a station leave, but for the one of an order.
Completed(riders, here, order) ==
    [k \in DOMAIN riders |-> [riders[k] EXCEPT !.done = @ \/ (riders[k].to = here /\ riders[k].id # order)]]

\* The parties for the station leave, in an emergency at the end of the unload only; the pod continues with the others. An empty
\* recovery ends, and with it the hold of its fault.
Arrive(i) ==
    LET v == session.world.vehicles[i]
        here == LaneTo[v.lane]
        left == IF v.riders = Nil \/ v.op = "unload" THEN v.riders ELSE {Completed(The(v.riders), here, 0)}
        arrived == [v EXCEPT !.riders = left, !.station = here, !.lane = NoLane, !.motion = 0,
                             !.current = 1, !.stops = ListSlice(Selected(Items(@), {k \in DOMAIN Items(@) : Items(@)[k] # here}))]
    IN  /\ InScene("drive") /\ v.lane # NoLane /\ v.motion = 1 /\ ~Faulted(i) /\ v.blockedBy = 0
        /\ \A j \in Vehicles : session.world.vehicles[j].station # here
        /\ Ticked([session.world EXCEPT !.vehicles[i] =
                      IF ActiveIn(arrived) # {} THEN [arrived EXCEPT !.activity = "Continuing"]
                      ELSE [arrived EXCEPT !.activity = "Idle", !.op = "service", !.stops = Nil, !.withdrawn = @ \ {"fault"}]])

StartFault(i) ==
    LET v == session.world.vehicles[i]
    IN  /\ InScene("fault") /\ Markers.fault /\ ~session.world.demo /\ ~Faulted(i)
        /\ Became([session.world EXCEPT
              !.faults = Append(@, [serial |-> session.world.serial, pod |-> v.id, lane |-> NoLane, start |-> session.world.tick]),
              !.serial = @ + 1, !.started = @ + 1,
              !.vehicles[i] = [v EXCEPT !.withdrawn = @ \cup {"fault"}, !.blockedBy = session.world.serial]])

StartDebris(lane) ==
    /\ InScene("debris") /\ Markers.fault /\ ~session.world.demo /\ Len(session.world.faults) < 2
    /\ Became([session.world EXCEPT
          !.faults = Append(@, [serial |-> session.world.serial, pod |-> NoID, lane |-> lane, start |-> session.world.tick]),
          !.serial = @ + 1, !.started = @ + 1])

\* A healthy pod on the lane waits for the debris.
BlockByDebris(i) ==
    LET v == session.world.vehicles[i]
    IN  /\ InScene("debris") /\ v.lane # NoLane /\ v.blockedBy = 0
        /\ \E k \in DOMAIN session.world.faults :
               /\ session.world.faults[k].lane = v.lane
               /\ Ticked([session.world EXCEPT !.vehicles[i] = [v EXCEPT !.blockedBy = session.world.faults[k].serial]])

EndFaultReports(vehicles, serial) ==
    [i \in DOMAIN vehicles |-> [vehicles[i] EXCEPT !.blockedBy = IF @ = serial THEN 0 ELSE @]]

\* The vehicle of a fault that ends is in service again, or turns to its emergency; an empty recovery keeps the hold.
Recovered(v) ==
    IF v.op = "recovery" THEN v
    ELSE [v EXCEPT !.withdrawn = @ \ {"fault"}, !.op = IF "emergency" \in v.withdrawn THEN "unload" ELSE @]

ClearFault ==
    /\ (InScene("fault") \/ InScene("debris"))
    /\ \E k \in DOMAIN session.world.faults :
           LET record == session.world.faults[k]
               vehicles == session.world.vehicles
               inService == [i \in Vehicles |-> IF vehicles[i].id = record.pod THEN Recovered(vehicles[i]) ELSE vehicles[i]]
           IN  Became([session.world EXCEPT !.faults = Without(@, k), !.vehicles = EndFaultReports(inService, record.serial)])

\* The active parties of a faulted pod are interrupted; the history stays with its records.
Kept(v, list) == Selected(list, DOMAIN list \ ActiveIn(v))

Emptied(v) ==
    LET riders == Kept(v, Items(v.riders))
    IN  [v EXCEPT !.riders = IF riders = <<>> THEN Nil ELSE {riders},
                  !.records = IF riders = <<>> \/ @ = Nil THEN Nil ELSE {Kept(v, The(@))}, !.stops = Nil]

\* settleIdleAtBerth, with a new route, which is empty.
Settled(v) == [v EXCEPT !.activity = "Idle", !.op = "service", !.lanes = <<>>, !.identity = NextIdentity(v), !.current = 0]

\* An empty vehicle has no emergency.
Evacuate(i) ==
    LET v == session.world.vehicles[i]
        empty == [Emptied(v) EXCEPT !.withdrawn = @ \ {"emergency"}]
    IN  /\ InScene("fault") /\ Faulted(i) /\ ActiveIn(v) # {}
        /\ Ticked([session.world EXCEPT
              !.interrupted = @ + Cardinality(ActiveIn(v)), !.emergencies = IF @ # <<>> /\ @[1].pod = v.id THEN <<>> ELSE @,
              !.vehicles[i] = IF v.lane # NoLane THEN [empty EXCEPT !.op = "recovery", !.activity = "Relocating"] ELSE Settled(empty)])

\* The unload of a faulted vehicle waits for the end of its fault.

StartEmergency(i) ==
    LET v == session.world.vehicles[i]
    IN  /\ InScene("emergency") /\ Markers.emergency /\ ~session.world.demo /\ session.world.emergencies = <<>>
        /\ \E k \in ActiveIn(v) :
               Became([session.world EXCEPT
                  !.emergencies = Append(@, [serial |-> session.world.serial, pod |-> v.id, order |-> Items(v.riders)[k].id,
                                                   start |-> session.world.tick]),
                  !.serial = @ + 1,
                  !.vehicles[i] = [v EXCEPT !.withdrawn = @ \cup {"emergency"}, !.op = IF Faulted(i) THEN @ ELSE "unload"]])

\* finishOperationalUnload: the party of the emergency is interrupted, also at its destination; of the others, those at their
\* destination leave and the rest wait at the station.
EmergencyUnload(i) ==
    LET v == session.world.vehicles[i]
        record == session.world.emergencies[1]
        left == [v EXCEPT !.riders = {Completed(Items(@), v.station, record.order)}]
        others == {k \in ActiveIn(left) : Items(v.riders)[k].id # record.order}
    IN  /\ InScene("emergency") /\ session.world.emergencies # <<>> /\ record.pod = v.id /\ v.station # NoID /\ ~Faulted(i)
        /\ Ticked([session.world EXCEPT
              !.interrupted = @ + Cardinality(ActiveIn(left) \ others),
              !.pending = @ \o [n \in 1 .. Cardinality(others) |-> RequestOf(Items(v.riders)[Nth(others, n)].id, v.station, NoID)],
              !.emergencies = <<>>, !.vehicles[i] = Settled([Emptied(left) EXCEPT !.withdrawn = @ \ {"emergency"}])])

-----------------------------------------------------------------------------
(***************************************************************************)
(* Commands that replace the simulation, and a restart.                    *)
(***************************************************************************)
Replace(s, world) == Revised([s EXCEPT !.world = world, !.generation = @ + 1])

ApplyProject ==
    /\ InScene("project")
    /\ \E network \in scene.networks \ {session.world.network} :
           Replace([session EXCEPT !.project = @ + 1, !.networks = Append(@, network)], NewWorld(network, "own", session.world.serial))

SetSpeed == InScene("order") /\ session.speed = 1 /\ Revised([session EXCEPT !.speed = 2])
SavePoint == /\ InScene("controls") /\ session.saved = {}
             /\ Revised([session EXCEPT !.saved = {session.world}, !.checkpoints = {<<session.revision>>}])

\* A save point of another project restores that project, under a new revision.
Rewind ==
    /\ InScene("project") /\ session.saved # {}
    /\ LET world == [The(session.saved) EXCEPT !.serial = session.world.serial]
       IN  Replace(IF world.network = session.world.network THEN session
                   ELSE [session EXCEPT !.project = @ + 1, !.networks = Append(@, world.network)], world)

StartDemo ==
    /\ InScene("demo") /\ session.world.network = 1 /\ ~session.world.demo
    /\ Replace(session, NewWorld(session.world.network, "demo", session.world.serial))
Reset ==
    /\ InScene("demo") /\ session.world.demo
    /\ Replace([session EXCEPT !.restore = "none"], NewWorld(session.world.network, "own", session.world.serial))

NoFrame == [frame |-> {}, stream |-> 0, sequence |-> 0]
Closed == [open |-> FALSE, frame |-> {}, stream |-> 0, sequence |-> 0, assembler |-> NoAssembler, order |-> FALSE, asking |-> {}]

\* The server restarts and restores its state; the connection ends with the process.
Restart ==
    /\ InScene("restart") /\ session.start = 1
    /\ session' = [session EXCEPT !.start = 2, !.revision = @ + 1, !.generation = @ + 1, !.restore = "physical", !.saved = {}, !.checkpoints = Nil]
    /\ publisher' = [NoFrame EXCEPT !.stream = publisher.stream] /\ wire' = <<>> /\ client' = Closed
    /\ UNCHANGED <<scene, shown, refused, drops>>

SessionStep ==
    /\ \/ RequestTrip \/ SetSpeed \/ SavePoint \/ ApplyProject \/ Rewind \/ StartDemo \/ Reset \/ ClearFault
       \/ \E i \in Vehicles : \/ Board(i) \/ Depart(i) \/ Drive(i) \/ Arrive(i)
                              \/ StartFault(i) \/ BlockByDebris(i) \/ Evacuate(i) \/ StartEmergency(i) \/ EmergencyUnload(i)
       \/ \E lane \in LanesOf[session.world.network] : StartDebris(lane)
    /\ UNCHANGED <<scene, publisher, wire, client, shown, refused, drops>>

-----------------------------------------------------------------------------
(***************************************************************************)
(* The publisher.                                                          *)
(***************************************************************************)
\* A delta goes out as a full frame when it is too large for the history.
\* The publisher captures while it has a client, this one or another.  A vehicle whose route identities are used up leaves no frame.
Publish ==
    /\ \A i \in Vehicles : session.world.vehicles[i].identity # MaxCounter
    /\ Len(wire) < MaxWire /\ (client.open \/ (scene.others /\ publisher.sequence # 0))
    /\ publisher.frame # {PresentationFrame}
    /\ LET frame == PresentationFrame
           reset == publisher.sequence \in {0, MaxCounter} \/ ~SameChain(The(publisher.frame), frame)
           next == IF reset THEN [frame |-> {frame}, stream |-> publisher.stream + 1, sequence |-> 1]
                   ELSE [publisher EXCEPT !.frame = {frame}, !.sequence = @ + 1]
       IN  /\ publisher' = next
           /\ \E full \in (IF reset THEN {TRUE} ELSE {FALSE} \cup scene.oversize) :
                  wire' = IF ~client.open THEN wire ELSE Append(wire, IF full THEN FullEnvelope(frame, next.stream, next.sequence)
                                       ELSE DeltaEnvelope(The(publisher.frame), frame, publisher.stream, publisher.sequence))
    /\ UNCHANGED <<scene, session, client, shown, refused, drops>>

-----------------------------------------------------------------------------
(***************************************************************************)
(* The client.                                                             *)
(***************************************************************************)
\* A connection starts with a hello and a full frame of the last publication, if there is one.
Connect ==
    /\ ~client.open
    /\ client' = [Closed EXCEPT !.open = TRUE, !.order = Markers.order]
    /\ wire' = IF publisher.sequence = 0 THEN <<>> ELSE <<FullEnvelope(The(publisher.frame), publisher.stream, publisher.sequence)>>
    /\ UNCHANGED <<scene, session, publisher, shown, refused, drops>>

\* With its last client gone, a publisher forgets its frame; a publisher with other clients keeps it.
CloseWith(reason) ==
    /\ client' = Closed /\ wire' = <<>> /\ refused' = reason
    /\ \/ publisher' = [NoFrame EXCEPT !.stream = publisher.stream]
       \/ scene.others /\ UNCHANGED publisher

Drop ==
    /\ client.open /\ drops < scene.drops
    /\ drops' = drops + 1 /\ CloseWith("none")
    /\ UNCHANGED <<scene, session, shown>>

StateOf(f, assembler) == [source |-> f.source, frame |-> f, routes |-> assembler.expanded]
StaleState(f) == /\ shown # {} /\ The(shown).source.start = f.source.start /\ The(shown).source.epoch = f.source.epoch
                 /\ f.source.revision < The(shown).source.revision

\* The candidate f of envelope e is assembled, shown and acknowledged, or ends the connection.
Accept(e, f, a) ==
    IF ~FrameAccepted(a, f) THEN CloseWith("frame") /\ UNCHANGED shown
    ELSE IF StaleState(f) THEN CloseWith("stale") /\ UNCHANGED shown
    ELSE LET next == Assembled(a, f)
         IN  /\ shown' = {StateOf(f, next)} /\ wire' = Tail(wire)
             /\ client' = [client EXCEPT !.frame = {f}, !.stream = e.stream, !.sequence = e.sequence, !.assembler = next, !.asking = {}]
             /\ UNCHANGED <<publisher, refused>>

KnowsTopology(f) == \E topology \in client.assembler.topology : TopologyMatches(topology, f)

\* Mutant: the routes of the previous frame survive the change of the topology.
FreshAssemblerKeepsRoutes(topology) == [client.assembler EXCEPT !.topology = {topology}]

FreshAssembler(topology) == NewAssembler(topology)

Receive ==
    /\ client.open /\ client.asking = {} /\ wire # <<>>
    /\ LET e == Head(wire)
           candidate == ApplyStream(client.frame, client.stream, client.sequence, e)
       IN  IF e.order # client.order THEN CloseWith("contract") /\ UNCHANGED shown
           ELSE IF candidate = {} THEN CloseWith("envelope") /\ UNCHANGED shown
           ELSE IF KnowsTopology(The(candidate)) THEN Accept(e, The(candidate), client.assembler)
           ELSE /\ client' = [client EXCEPT !.asking = candidate]
                /\ UNCHANGED <<publisher, wire, shown, refused>>
    /\ UNCHANGED <<scene, session, drops>>

\* The answer of the server to the request for the topology.
ReceiveTopology ==
    /\ client.open /\ client.asking # {}
    /\ LET f == The(client.asking)
           topology == TopologySnapshot
       IN  IF ~TopologyMatches(topology, f) THEN CloseWith("topology") /\ UNCHANGED shown
           ELSE IF topology.markers.order # client.order THEN CloseWith("contract") /\ UNCHANGED shown
           ELSE Accept(Head(wire), f, FreshAssembler(topology))
    /\ UNCHANGED <<scene, session, drops>>

-----------------------------------------------------------------------------
FrameInit ==
    /\ scene \in Scenes /\ refused = "none" /\ drops = 0 /\ shown = {} /\ wire = <<>> /\ client = Closed /\ publisher = NoFrame
    /\ session = [start |-> 1, epoch |-> 1, project |-> 1, generation |-> 1, revision |-> 0, speed |-> 1, checkpoints |-> Nil,
                  restore |-> "none", saved |-> {}, networks |-> <<1>>,
                  world |-> [NewWorld(1, "own", 1) EXCEPT !.submitted = scene.waiting,
                                !.pending = [k \in 1 .. scene.waiting |-> RequestOf(scene.orders[k], NoID, NoID)]]]

\* The client connects again after every failure and reads what arrives.
ClientStep == Connect \/ Receive \/ ReceiveTopology
FrameNext == SessionStep \/ Restart \/ Drop \/ Publish \/ ClientStep
FrameSpec == FrameInit /\ [][FrameNext]_frameVars

\* In a fair scene the client and the publisher keep running; the timer of the publisher does not wait for this client, only the
\* bound on the wire does.
FrameFairSpec == FrameSpec /\ WF_frameVars(scene.fair /\ ClientStep) /\ SF_frameVars(scene.fair /\ Publish)

-----------------------------------------------------------------------------
(***************************************************************************)
(* Properties.                                                             *)
(***************************************************************************)
\* makeDelta, applyStreamDelta and the full encoding: a client that is at the
\* sequence of the publisher has the frame of the publisher, along every
\* chain of full and delta envelopes.
FrameMirrored ==
    client.frame # {} /\ client.stream = publisher.stream /\ client.sequence = publisher.sequence
        => Seen(The(client.frame)) = Seen(The(publisher.frame))

\* ApplyStream and StreamAssembler.State: no publication of the server is
\* refused for its content; a connection ends only because the project
\* changed around the request for the topology.
PublicationsAccepted == refused \in {"none", "topology", "contract"}

\* streamTopology.state and presentVehicles: the routes shown are those of the
\* frame on the network of its own project, not of an earlier one.
RoutesOfTheirProject ==
    \A state \in shown :
        \A i \in DOMAIN state.routes :
            state.routes[i] = Expand([network |-> session.networks[state.source.project]], state.frame.routes[i])

\* The retry of stream: once the session stays as it is, the client shows it.
EventuallyShown ==
    scene.fair => <>[](\E state \in shown : state.source = SourceOf(PresentationFrame))
=============================================================================
