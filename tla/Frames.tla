------------------------------- MODULE Frames -------------------------------
(***************************************************************************)
(* The frames of the state stream of internal/session: how a frame is made *)
(* from the state of a session, how one frame becomes a delta of another,  *)
(* how a client applies an envelope, and what it refuses.                  *)
(*                                                                         *)
(* A slice of the program is a set of at most one sequence, so that nil,   *)
(* {}, and the empty slice, {<<>>}, stay different values; a replacement   *)
(* of a delta is a set of at most one value for the same reason.  Sizes,   *)
(* texts and statistics that only travel along are left out.               *)
(***************************************************************************)
EXTENDS Integers, Sequences, FiniteSets, SequencesExt, Lists

CONSTANTS
    Berth,       \* the berth of each passenger station
    LaneTo,      \* the station at the end of each lane of a network
    Seats,       \* the seats of a vehicle
    MaxCounter,  \* the largest counter of a document
    NoID         \* the empty ID

Stations == DOMAIN Berth
Berths == {Berth[s] : s \in Stations}
Lanes == DOMAIN LaneTo
NoLane == 0
Nil == {}
Empty == {<<>>}
The(option) == CHOOSE v \in option : TRUE
Items(slice) == IF slice = Nil THEN <<>> ELSE The(slice)
Ids(vehicles) == [i \in DOMAIN vehicles |-> vehicles[i].pod.id]

-----------------------------------------------------------------------------
(***************************************************************************)
(* Making a frame.                                                         *)
(***************************************************************************)
SourceOf(f) == f.source

\* Mutant: the incident counters belong to no group.
GroupNamesNoIncident(f) ==
    {"controls", "global", "pending", "checkpoints", "restore"}
        \cup (IF f.markers.fault THEN {"faults"} ELSE {}) \cup (IF f.markers.emergency THEN {"emergencies"} ELSE {})

GroupNames(f) ==
    {"controls", "global", "pending", "checkpoints", "restore"}
        \cup (IF f.markers.incident THEN {"incident"} ELSE {})
        \cup (IF f.markers.fault THEN {"faults"} ELSE {})
        \cup (IF f.markers.emergency THEN {"emergencies"} ELSE {})

FrameGroups(f) == [name \in GroupNames(f) |-> f.groups[name]]

\* The markers other than the one of the orders are not compared: they change with the project only.
SameChain(a, b) ==
    /\ a.markers.order = b.markers.order
    /\ [SourceOf(a) EXCEPT !.revision = 0] = [SourceOf(b) EXCEPT !.revision = 0]
    /\ Len(a.routes) = Len(b.routes) /\ Ids(a.vehicles) = Ids(b.vehicles)
    /\ DOMAIN a.berths = DOMAIN b.berths

Changed(a, b) == IF a = b THEN {} ELSE {b}

\* sameStationaryPod: position, lane distance and speed are the motion of a pod.
SameStationaryPod(a, b) == [a EXCEPT !.motion = 0] = [b EXCEPT !.motion = 0]
MotionOf(pod) == pod.motion

\* Riders and boarding records of a vehicle with records are replaced together, the records by an array.
PairedRiders(item, old, new) ==
    IF (Items(old.boardings) # <<>> \/ Items(new.boardings) # <<>>) /\ (item.riders # {} \/ item.boardings # {})
    THEN [item EXCEPT !.riders = {new.riders}, !.boardings = IF Items(new.boardings) = <<>> THEN {Empty} ELSE {new.boardings}]
    ELSE item

\* Mutant: each group of a vehicle is replaced alone.
VehicleDeltaUnpaired(old, new, oldRoute, newRoute) ==
    LET moved == old.pod # new.pod /\ SameStationaryPod(old.pod, new.pod)
    IN  [id |-> new.pod.id, pod |-> IF moved THEN {} ELSE Changed(old.pod, new.pod),
         motion |-> IF moved THEN {MotionOf(new.pod)} ELSE {}, route |-> Changed(oldRoute, newRoute),
         riders |-> Changed(old.riders, new.riders), boardings |-> Changed(old.boardings, new.boardings),
         stops |-> Changed(old.stops, new.stops), meta |-> Changed(old.meta, new.meta)]

VehicleDelta(old, new, oldRoute, newRoute) ==
    LET moved == old.pod # new.pod /\ SameStationaryPod(old.pod, new.pod)
    IN  PairedRiders([id |-> new.pod.id, pod |-> IF moved THEN {} ELSE Changed(old.pod, new.pod),
                      motion |-> IF moved THEN {MotionOf(new.pod)} ELSE {}, route |-> Changed(oldRoute, newRoute),
                      riders |-> Changed(old.riders, new.riders), boardings |-> Changed(old.boardings, new.boardings),
                      stops |-> Changed(old.stops, new.stops), meta |-> Changed(old.meta, new.meta)], old, new)

Changes(item) == \E group \in {"pod", "motion", "route", "riders", "boardings", "stops", "meta"} : item[group] # {}

MakeDelta(a, b) ==
    LET items == [i \in DOMAIN b.vehicles |-> VehicleDelta(a.vehicles[i], b.vehicles[i], a.routes[i], b.routes[i])]
    IN  [groups   |-> [name \in {n \in GroupNames(b) : b.groups[n] # a.groups[n]} |-> b.groups[name]],
         vehicles |-> Selected(items, {i \in DOMAIN items : Changes(items[i])}),
         berths   |-> [berth \in {x \in DOMAIN b.berths : a.berths[x] # b.berths[x]} |-> b.berths[berth]]]

\* The full frame in JSON: the members with omitempty lose the difference between nil and empty.
Omitted(slice) == IF Items(slice) = <<>> THEN Nil ELSE slice

OmittedRecords(incidents) == [incidents EXCEPT !.active = Omitted(@)]
OmittedVehicle(v) == [v EXCEPT !.riders = Omitted(@), !.boardings = Omitted(@), !.stops = Omitted(@)]
FullWire(f) ==
    [f EXCEPT !.vehicles = [i \in DOMAIN @ |-> OmittedVehicle(@[i])],
              !.groups.checkpoints = Omitted(@), !.groups.faults = OmittedRecords(@), !.groups.emergencies = OmittedRecords(@)]

\* What a client can know of a frame.
Seen(f) == [FullWire(f) EXCEPT !.groups.pending = Omitted(@)]

Envelope(kind, f, stream, sequence, base, content) ==
    [kind |-> kind, order |-> f.markers.order, stream |-> stream, sequence |-> sequence, base |-> base,
     source |-> SourceOf(f), content |-> content]
FullEnvelope(f, stream, sequence) == Envelope("full", f, stream, sequence, 0, FullWire(f))
DeltaEnvelope(a, b, stream, base) == Envelope("delta", b, stream, base + 1, base, MakeDelta(a, b))

-----------------------------------------------------------------------------
(***************************************************************************)
(* The checks of a frame.                                                  *)
(***************************************************************************)
CheckIncidentFrame(f) ==
    IF f.markers.incident
    THEN \A i \in DOMAIN f.vehicles : f.vehicles[i].meta.operational # "service" => f.vehicles[i].meta.withdrawn # {}
    ELSE /\ f.groups.incident = 0
         /\ \A k \in DOMAIN Items(f.groups.pending) : Items(f.groups.pending)[k].leg = NoID
         /\ \A i \in DOMAIN f.vehicles : /\ f.vehicles[i].meta.withdrawn = {} /\ f.vehicles[i].meta.operational = "service"
                                         /\ \A k \in DOMAIN Items(f.vehicles[i].riders) : Items(f.vehicles[i].riders)[k].leg = NoID

\* Records in the order of their serials, of vehicles of the frame, one for each pod, started by the tick of the frame.
SerialOrder(records) == \A k \in DOMAIN records : k > 1 => records[k].serial > records[k - 1].serial
RecordOfVehicle(f, records, k) ==
    /\ records[k].pod \in ToSet(Ids(f.vehicles)) /\ records[k].start <= f.groups.global.tick
    /\ \A j \in 1 .. k - 1 : records[j].pod # records[k].pod

CheckDebris(record) == record.lane # NoLane
CheckFaultFrame(f) ==
    LET records == Items(f.groups.faults.active)
    IN  /\ f.markers.fault => f.markers.incident
        /\ ~f.markers.fault => f.groups.faults = [active |-> Nil, started |-> 0]
        /\ SerialOrder(records)
        /\ \A k \in DOMAIN records : IF records[k].pod = NoID THEN CheckDebris(records[k]) ELSE RecordOfVehicle(f, records, k)

CheckEmergencyFrame(f) ==
    LET records == Items(f.groups.emergencies.active)
        faults == Items(f.groups.faults.active)
    IN  /\ f.markers.emergency => f.markers.incident
        /\ ~f.markers.emergency => f.groups.emergencies = [active |-> Nil, started |-> 0]
        /\ SerialOrder(records)
        /\ \A k \in DOMAIN records : /\ records[k].serial > 0 /\ RecordOfVehicle(f, records, k) /\ records[k].order > 0
                                     /\ \A j \in DOMAIN faults : faults[j].serial # records[k].serial

ValidateVehicleBoardings(v) ==
    LET records == Items(v.boardings)
        riders == Items(v.riders)
    IN  IF records = <<>> THEN v.boardings = Nil /\ v.meta.ridden = 0
        ELSE /\ Len(records) = Len(riders)
             /\ \A k \in DOMAIN records : /\ records[k].berth \in Berths /\ records[k].meters <= v.meta.ridden
                                          /\ riders[k].done \/ riders[k].shared

CheckStreamFrame(f) ==
    /\ Len(f.routes) = Len(f.vehicles)
    /\ CheckIncidentFrame(f) /\ CheckFaultFrame(f) /\ CheckEmergencyFrame(f)
    /\ \A i \in DOMAIN f.vehicles : ValidateVehicleBoardings(f.vehicles[i]) /\ f.routes[i].identity <= MaxCounter

-----------------------------------------------------------------------------
(***************************************************************************)
(* Applying an envelope to its predecessor.                                *)
(***************************************************************************)
BoardingsDeltaFits(v, item) ==
    LET records == Items(v.boardings) # <<>> \/ \E slice \in item.boardings : Items(slice) # <<>>
    IN  /\ records => (item.riders = {}) = (item.boardings = {})
        /\ Nil \notin item.boardings

VehicleDeltaFits(v, item) ==
    /\ BoardingsDeltaFits(v, item) /\ (item.motion = {} \/ item.pod = {})
    /\ \A pod \in item.pod : pod.id = item.id

DeltaFits(f, stream, sequence, e) ==
    /\ stream = e.stream /\ sequence = e.base /\ e.sequence = sequence + 1
    /\ DOMAIN e.content.groups \subseteq GroupNames(f)
    /\ DOMAIN e.content.berths \subseteq DOMAIN f.berths
    /\ LET items == e.content.vehicles
       IN  /\ \A k, j \in DOMAIN items : k # j => items[k].id # items[j].id
           /\ \A k \in DOMAIN items : \E i \in DOMAIN f.vehicles : f.vehicles[i].pod.id = items[k].id /\ VehicleDeltaFits(f.vehicles[i], items[k])

ItemOf(e, id) == {e.content.vehicles[k] : k \in {j \in DOMAIN e.content.vehicles : e.content.vehicles[j].id = id}}
Replaced(old, option) == IF option = {} THEN old ELSE The(option)

ReplacedPod(pod, item) == [Replaced(pod, item.pod) EXCEPT !.motion = Replaced(@, item.motion)]
ApplyVehicleDelta(v, item) ==
    [v EXCEPT !.pod = ReplacedPod(@, item),
              !.riders = Replaced(@, item.riders), !.stops = Replaced(@, item.stops), !.meta = Replaced(@, item.meta),
              !.boardings = IF item.boardings = {} THEN @ ELSE Omitted(The(item.boardings))]

ApplyDelta(f, e) ==
    LET items(i) == ItemOf(e, f.vehicles[i].pod.id)
    IN  [f EXCEPT !.groups = [name \in DOMAIN @ |-> IF name \in DOMAIN e.content.groups THEN e.content.groups[name] ELSE @[name]],
                  !.vehicles = [i \in DOMAIN @ |-> IF items(i) = {} THEN @[i] ELSE ApplyVehicleDelta(@[i], The(items(i)))],
                  !.routes = [i \in DOMAIN @ |-> IF items(i) = {} THEN @[i] ELSE Replaced(@[i], The(items(i)).route)],
                  !.berths = [b \in DOMAIN @ |-> IF b \in DOMAIN e.content.berths THEN e.content.berths[b] ELSE @[b]],
                  !.source = e.source]

\* ApplyStream: the candidate frame of an envelope, none when it is refused.
ApplyStream(previous, stream, sequence, e) ==
    LET candidate == IF e.kind = "full" THEN {e.content}
                     ELSE IF previous # {} /\ e.order = The(previous).markers.order /\ DeltaFits(The(previous), stream, sequence, e)
                     THEN {f \in {ApplyDelta(The(previous), e)} : SameChain(The(previous), f)}
                     ELSE {}
    IN  {f \in candidate : CheckStreamFrame(f) /\ e.order = f.markers.order /\ e.sequence \in 1 .. MaxCounter}

-----------------------------------------------------------------------------
(***************************************************************************)
(* Assembling a state from a frame and a topology.                         *)
(***************************************************************************)
\* The lanes of a network change with the project, whose content the lane carries.
Expand(topology, route) == [k \in DOMAIN route.lanes |-> [lane |-> route.lanes[k], network |-> topology.network]]

TopologyMatches(topology, f) ==
    topology.start = f.source.start /\ topology.epoch = f.source.epoch /\ topology.project = f.source.project

FrameBinding(topology, f) == topology.markers = f.markers /\ TopologyMatches(topology, f)

FaultLanes(topology, f) ==
    \A k \in DOMAIN Items(f.groups.faults.active) :
        LET record == Items(f.groups.faults.active)[k] IN record.pod = NoID => record.lane \in topology.lanes

KnownStation(id) == id \in Stations
ValidOrder(f, r) ==
    /\ KnownStation(r.from) /\ KnownStation(r.to) /\ (r.leg = NoID \/ (KnownStation(r.leg) /\ r.leg # r.to))
    /\ r.pod \in {NoID} \cup ToSet(Ids(f.vehicles))

Active(riders) == {k \in DOMAIN riders : ~riders[k].done}
ServiceOrders(f, classes) ==
    \A i \in DOMAIN f.vehicles :
        LET riders == Items(f.vehicles[i].riders)
            id == f.vehicles[i].pod.id
        IN  /\ id \in DOMAIN classes => classes[id] = f.vehicles[i].pod.class
            /\ Cardinality(Active(riders)) <= Seats
            /\ Cardinality(Active(riders)) > 1 => \A k \in Active(riders) : riders[k].shared

VehicleBoardings(f, v) ==
    /\ ValidateVehicleBoardings(v)
    /\ \A k \in DOMAIN Items(v.boardings) :
           LET rider == Items(v.riders)[k] IN Items(v.boardings)[k].berth = Berth[IF rider.leg = NoID THEN rider.from ELSE rider.leg]

References(f) ==
    LET faults == {Items(f.groups.faults.active)[k].serial : k \in DOMAIN Items(f.groups.faults.active)}
        pods == ToSet(Ids(f.vehicles))
    IN  /\ Cardinality(pods) = Len(f.vehicles)
        /\ \A k \in DOMAIN Items(f.groups.pending) : ValidOrder(f, Items(f.groups.pending)[k])
        /\ \A i \in DOMAIN f.vehicles :
               LET v == f.vehicles[i]
               IN  /\ VehicleBoardings(f, v) /\ v.pod.station \in Stations \cup {NoID} /\ v.pod.berth \in Berths \cup {NoID}
                   /\ v.pod.blockedBy \in faults \cup {0}
                   /\ \A k \in DOMAIN Items(v.riders) : ValidOrder(f, Items(v.riders)[k])
                   /\ \A k \in DOMAIN Items(v.stops) : KnownStation(Items(v.stops)[k])
        /\ \A b \in DOMAIN f.berths : b \in Berths /\ f.berths[b] \in {NoID} \cup pods

\* checkRouteWindow, motionPod and presentRoute: the window is in bounds and the pod is on its current lane.
RouteFits(topology, r, pod) ==
    /\ r.current <= Len(r.lanes) /\ ToSet(r.lanes) \subseteq topology.lanes
    /\ r.lanes = <<>> => ~r.origin
    /\ \A k \in 2 .. Len(r.lanes) : r.lanes[k] # r.lanes[k - 1]
    /\ pod.lane # NoLane => r.current < Len(r.lanes) /\ r.lanes[r.current + 1] = pod.lane

NoAssembler == [topology |-> {}, routes |-> <<>>, expanded |-> <<>>, classes |-> <<>>]
NewAssembler(topology) == [NoAssembler EXCEPT !.topology = {topology}]

\* A route that equals the one of the previous frame keeps its expanded lanes.
Present(a, f, i) ==
    IF i \in DOMAIN a.routes /\ a.routes[i] = f.routes[i] THEN a.expanded[i] ELSE Expand(The(a.topology), f.routes[i])

FrameAccepted(a, f) ==
    LET topology == The(a.topology)
    IN  /\ ServiceOrders(f, a.classes) /\ FrameBinding(topology, f)
        /\ CheckIncidentFrame(f) /\ CheckFaultFrame(f) /\ FaultLanes(topology, f) /\ CheckEmergencyFrame(f) /\ References(f)
        /\ \A i \in DOMAIN f.vehicles : RouteFits(topology, f.routes[i], f.vehicles[i].pod)

\* The assembler after the frame f, which it accepted.
Assembled(a, f) ==
    [a EXCEPT !.routes = f.routes, !.expanded = [i \in DOMAIN f.vehicles |-> Present(a, f, i)],
              !.classes = LET class == [i \in DOMAIN f.vehicles |-> f.vehicles[i].pod.class]
                              at(id) == CHOOSE i \in DOMAIN f.vehicles : f.vehicles[i].pod.id = id
                          IN  [id \in DOMAIN @ \cup ToSet(Ids(f.vehicles)) |->
                                  IF id \in ToSet(Ids(f.vehicles)) THEN class[at(id)] ELSE @[id]]]
=============================================================================
