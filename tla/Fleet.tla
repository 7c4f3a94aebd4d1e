-------------------------------- MODULE Fleet --------------------------------
(***************************************************************************)
(* The fleet of internal/sim: the queue of waiting trips, dispatch, the    *)
(* parties aboard each pod, the service holds, faults, emergencies,        *)
(* evacuations, transfers and the restore of a saved state.                *)
(*                                                                         *)
(* Nothing runs between the steps of Step, so the phases of one tick are   *)
(* a stage machine: "idle" is the lock released between two calls, "pass"  *)
(* is the dispatch pass of a tick, "command" the pass of an accepted       *)
(* order, "supply" the swaps and the positioning, "move" the admission and *)
(* the motion.  Where the code compares travel times, detours or reserved  *)
(* track, the model takes every outcome; the track itself is the module    *)
(* Traffic.                                                                *)
(***************************************************************************)
EXTENDS Integers, Sequences, FiniteSets, SequencesExt, Lists

CONSTANTS
    FleetSize,      \* the pods 1 .. FleetSize, in fleet order
    Passenger,      \* the passenger stations
    Parking,        \* the parking-only stations
    NoStation,      \* the empty station ID
    Home,           \* the initial station of each pod
    PartyLimit,     \* the party limit of a shared ride
    MaxStops,       \* the stop limit of a shared ride
    Options,        \* the settings of a project and the bounds of the exploration: the orders in the order of
                    \* their submission, and [reassign, onboard, defer, swaps, positioning, faults, starts, restores, moves]
    EvacuateAfter,  \* the ticks from a fault to its evacuation
    FaultTicks,     \* the ticks of a fault with an end
    Cuts,           \* the sets of stations that a fault may cut off
    MaxEmergencies  \* the limit of active emergency records

VARIABLES
    options,        \* the settings, fixed for the life of a session
    pods,           \* the vehicles, by fleet index
    queue,          \* the waiting trips
    completed,      \* the completed orders
    interrupted,    \* the interrupted orders
    faults,         \* the pod fault record of each pod, or NoFault
    emergencies,    \* the party of the emergency record of each pod, or 0
    submitted,      \* the last order ID
    stage,          \* where the tick is
    index,          \* the trip that the dispatch pass considers next
    used            \* the commands and moves taken so far, for the bounds

fleetVars == <<options, pods, queue, completed, interrupted, faults, emergencies, submitted, stage, index, used>>

Pods == 1 .. FleetSize
Stations == Passenger \cup Parking
NoPod == 0
OpenEnd == FaultTicks + 1
NoFault == [left |-> 0, age |-> 0, cut |-> {}]
Service == [purpose |-> "service", owner |-> "none", interrupt |-> {}]

ASSUME FleetAssumption ==
    /\ FleetSize \in Nat \ {0}
    /\ Passenger \cap Parking = {} /\ NoStation \notin Stations
    /\ Home \in [Pods -> Stations]
    /\ \A o \in Options : /\ o.journey \in Seq([from : Passenger, to : Passenger])
                          /\ \A k \in DOMAIN o.journey : o.journey[k].from # o.journey[k].to
    /\ {PartyLimit, MaxStops, FaultTicks} \subseteq Nat \ {0} /\ {EvacuateAfter, MaxEmergencies} \subseteq Nat
    /\ Cuts \subseteq SUBSET Stations

(***************************************************************************)
(* The state that the operations pass from one to the next.                *)
(***************************************************************************)
Now == [pods |-> pods, queue |-> queue, completed |-> completed, interrupted |-> interrupted,
        faults |-> faults, emergencies |-> emergencies]

Becomes(s) ==
    /\ options' = options /\ pods' = s.pods /\ queue' = s.queue /\ completed' = s.completed /\ interrupted' = s.interrupted
    /\ faults' = s.faults /\ emergencies' = s.emergencies

SetPod(s, p, v) == [s EXCEPT !.pods[p] = v]
SetTrip(s, i, t) == [s EXCEPT !.queue[i] = t]

ActiveRiders(v) == {k \in DOMAIN v.riders : ~v.riders[k].done}
CarriesPassengers(v) == (v.activity = "Boarding" \/ v.occupied) /\ ActiveRiders(v) # {}
InService(v) == v.withdrawn = {}
ToOf(id) == options.journey[id].to
LegOrigin(trip) == IF trip.leg = NoStation THEN options.journey[trip.id].from ELSE trip.leg
Cut(s) == UNION {s.faults[p].cut : p \in Pods}
Faulted(s, p) == s.faults[p] # NoFault
IdleAt(v, station) == v.activity = "Idle" /\ v.at = station
Bound(s, p) == \E i \in DOMAIN s.queue : s.queue[i].pod = p

Releasable(v) == ~v.occupied /\ v.relocatingTo # NoStation /\ ~v.rebalancing /\ v.activity \in {"Traveling", "DepartingEmpty"}
ReleasePickup(v) == IF Releasable(v) THEN [v EXCEPT !.released = TRUE] ELSE v

\* The riders of v without those at the indexes gone.
WithoutRiders(v, gone) == [v EXCEPT !.riders = Selected(@, DOMAIN @ \ gone)]
CompleteRiders(v, which) == [v EXCEPT !.riders = [k \in DOMAIN v.riders |-> [v.riders[k] EXCEPT !.done = @ \/ k \in which]]]
IdsAt(v, which) == {v.riders[k].id : k \in which}

\* A rider that waits again: the wait is recorded, the pod and the exclusion are gone.
RequeuedTrip(id, leg) == [id |-> id, pod |-> NoPod, excluded |-> NoPod, boarded |-> TRUE, leg |-> leg, deferPod |-> NoPod, deferral |-> "none"]

\* Mutant: the requeued rider goes to the end of the queue.
QueueTransferLast(waiting, trip) == Append(waiting, trip)

\* Before the first trip with a larger ID.
QueueTransfer(waiting, trip) ==
    LET later == {i \in DOMAIN waiting : waiting[i].id > trip.id}
    IN  InsertAt(waiting, IF later = {} THEN Len(waiting) + 1 ELSE Min(later), trip)

QueueAll(waiting, trips) ==
    LET order == SetToSeq(trips)
        after[n \in 0 .. Len(order)] == IF n = 0 THEN waiting ELSE QueueTransfer(after[n - 1], order[n])
    IN  after[Len(order)]

\* The step F of the pods 1, 2, ..., one after the other.
InFleetOrder(F(_, _), s) ==
    LET after[p \in 0 .. FleetSize] == IF p = 0 THEN s ELSE F(after[p - 1], p)
    IN  after[FleetSize]

-----------------------------------------------------------------------------
(***************************************************************************)
(* Unloading, transfers and evacuations.                                   *)
(***************************************************************************)
\* settleIdleAtBerth: the idle state at the berth of v; history and holds stay.
SettleIdle(v) ==
    [v EXCEPT !.activity = "Idle", !.occupied = FALSE, !.stops = <<>>, !.destination = v.at, !.relocatingTo = NoStation,
              !.rebalancing = FALSE, !.released = FALSE, !.phase = 0, !.braking = FALSE, !.op = Service,
              !.recorded = @ /\ v.riders # <<>>]

Transfer(s, v, which) ==
    [s EXCEPT !.queue = QueueAll(@, {RequeuedTrip(v.riders[k].id, v.at) : k \in which})]

\* The bits of the interrupt set name the riders by their index before the first outcome.
InterruptMarks(v) == v.op.interrupt

FinishOperationalUnload(s, p) ==
    LET v == s.pods[p]
        marked == ActiveRiders(v) \cap InterruptMarks(v)
        arrived == {k \in ActiveRiders(v) \ marked : ToOf(v.riders[k].id) = v.at}
        others == ActiveRiders(v) \ (marked \cup arrived)
    IN  [Transfer(s, v, others) EXCEPT
            !.pods[p] = SettleIdle(WithoutRiders(CompleteRiders(v, arrived), marked \cup others)),
            !.interrupted = @ \cup IdsAt(v, marked),
            !.completed = @ \cup IdsAt(v, arrived)]

\* The riders without a later stop leave the pod.
Leaving(v) == {k \in ActiveRiders(v) : ToOf(v.riders[k].id) \notin Range(v.stops)}

\* Mutant: the pod keeps waiting at an intermediate stop.
ContinueJourneyStays(s, v) == v

ContinueJourney(s, v) ==
    IF v.stops[1] \in Cut(s) THEN v
    ELSE [v EXCEPT !.activity = "Continuing", !.occupied = TRUE, !.destination = v.stops[1], !.phase = 0]

Alight(s, p) ==
    LET v == s.pods[p]
        left == CompleteRiders(v, Leaving(v))
    IN  [s EXCEPT !.completed = @ \cup IdsAt(v, Leaving(v)),
                  !.pods[p] = IF v.stops # <<>> /\ ActiveRiders(left) # {} THEN ContinueJourney(s, left)
                              ELSE [left EXCEPT !.activity = "Idle", !.occupied = FALSE, !.stops = <<>>]]

PhaseTicked(v) == [v EXCEPT !.phase = IF @ > 0 THEN @ - 1 ELSE 0]

UnloadPod(s, p) ==
    LET ticked == SetPod(s, p, PhaseTicked(s.pods[p]))
        v == ticked.pods[p]
    IN  IF Faulted(s, p) THEN s
        ELSE IF ~(v.activity = "Unloading" /\ v.phase = 0) THEN ticked
        ELSE IF v.op.purpose = "unload" THEN FinishOperationalUnload(ticked, p)
        ELSE Alight(ticked, p)

UnloadPods(s) == InFleetOrder(UnloadPod, s)

-----------------------------------------------------------------------------
(***************************************************************************)
(* Service holds.                                                          *)
(***************************************************************************)
ActiveHold(trip, p) == trip.pod = NoPod /\ trip.deferPod = p /\ trip.deferral # "over"

\* Mutant: a trip with a pod of its own keeps the name of the withdrawn pod that it waited for before.
ReleasedTripKeepsOld(trip, p) ==
    IF trip.pod = p \/ ActiveHold(trip, p)
    THEN [trip EXCEPT !.pod = NoPod, !.deferPod = NoPod, !.excluded = IF trip.boarded THEN @ ELSE p]
    ELSE trip

ReleasedTrip(trip, p) ==
    IF trip.pod = p \/ ActiveHold(trip, p)
    THEN [trip EXCEPT !.pod = NoPod, !.deferPod = NoPod, !.excluded = IF trip.boarded THEN @ ELSE p]
    ELSE IF trip.deferPod = p THEN [trip EXCEPT !.deferPod = NoPod]
    ELSE trip

ReleasePickups(s, p) ==
    [s EXCEPT !.queue = [i \in DOMAIN @ |-> ReleasedTrip(@[i], p)],
              !.pods[p] = IF Bound(s, p) THEN ReleasePickup(@) ELSE @]

WithdrawService(s, p, hold) ==
    IF hold \in s.pods[p].withdrawn THEN s
    ELSE LET held == [s EXCEPT !.pods[p].withdrawn = @ \cup {hold}]
         IN  IF InService(s.pods[p]) THEN ReleasePickups(held, p) ELSE held

RestoreService(s, p, hold) ==
    IF hold \notin s.pods[p].withdrawn \/ s.pods[p].op.owner = hold THEN s
    ELSE [s EXCEPT !.pods[p].withdrawn = @ \ {hold}]

(***************************************************************************)
(* Faults.                                                                 *)
(***************************************************************************)
\* The tick of a fault record: an open-ended one never counts down.
Aged(record) ==
    [record EXCEPT !.left = IF @ \in 1 .. FaultTicks THEN @ - 1 ELSE @, !.age = IF @ < EvacuateAfter THEN @ + 1 ELSE @]

RemoveFault(s, p) == RestoreService([s EXCEPT !.faults[p] = NoFault, !.pods[p].braking = FALSE], p, "fault")

EndFault(s, p) ==
    IF ~Faulted(s, p) THEN s
    ELSE IF Aged(s.faults[p]).left = 0 THEN RemoveFault(s, p)
    ELSE [s EXCEPT !.faults[p] = Aged(@)]

\* evacuateLane: the empty pod goes on to its destination station.
EvacuatedOnLane(v) ==
    [v EXCEPT !.occupied = FALSE, !.stops = <<>>, !.relocatingTo = v.destination, !.rebalancing = FALSE, !.released = FALSE,
              !.recorded = @ /\ v.riders # <<>>, !.op = [Service EXCEPT !.purpose = "recovery", !.owner = "fault"]]

Evacuate(s, p) ==
    LET v == s.pods[p]
        empty == WithoutRiders(v, ActiveRiders(v))
    IN  [s EXCEPT !.interrupted = @ \cup IdsAt(v, ActiveRiders(v)),
                  !.pods[p] = IF v.activity = "Traveling" THEN EvacuatedOnLane(empty) ELSE SettleIdle(empty)]

EvacuationDue(s, p) ==
    /\ Faulted(s, p) /\ s.faults[p].age >= EvacuateAfter /\ ~s.pods[p].braking /\ ActiveRiders(s.pods[p]) # {}

EvacuatePod(s, p) == IF EvacuationDue(s, p) THEN Evacuate(s, p) ELSE s

ReleaseFaultHold(s, p) == IF Faulted(s, p) THEN s ELSE RestoreService(s, p, "fault")

FaultStage(s) == InFleetOrder(ReleaseFaultHold, InFleetOrder(EvacuatePod, InFleetOrder(EndFault, s)))

(***************************************************************************)
(* Emergencies.                                                            *)
(***************************************************************************)
PartyIndex(s, p) == {k \in ActiveRiders(s.pods[p]) : s.pods[p].riders[k].id = s.emergencies[p]}

WithoutStop(stops, station) == Selected(stops, {k \in DOMAIN stops : stops[k] # station})

StartOperationalUnload(v, marks) ==
    [v EXCEPT !.phase = IF v.activity = "Unloading" /\ v.phase >= 1 THEN @ ELSE 1,
              !.activity = "Unloading", !.occupied = TRUE, !.destination = v.at,
              !.stops = WithoutStop(@, v.at),
              !.op = [purpose |-> "unload", owner |-> "emergency", interrupt |-> marks]]

\* chooseEmergencyStation: choice is NoStation off the cadence, when the pod cannot divert and without a route.
BindEmergency(v, marks, choice) ==
    IF choice = NoStation THEN v
    ELSE [v EXCEPT !.destination = choice, !.op = [purpose |-> "unload", owner |-> "emergency", interrupt |-> marks]]

AdvanceEmergency(s, p, choice) ==
    LET held == WithdrawService(s, p, "emergency")
        v == held.pods[p]
        marks == PartyIndex(s, p)
    IN  IF Faulted(s, p) THEN s
        ELSE IF v.op.purpose # "service" \/ marks = {} THEN held
        ELSE IF v.activity \in {"Boarding", "Continuing", "Unloading"} THEN SetPod(held, p, StartOperationalUnload(v, marks))
        ELSE SetPod(held, p, BindEmergency(v, marks, choice))

EmergencyOver(s, p) ==
    \/ ~CarriesPassengers(s.pods[p])
    \/ s.pods[p].op.purpose = "service" /\ PartyIndex(s, p) = {}

\* Mutant: the record ends and the hold stays.
EndEmergencyKeepsHold(s, p) == [s EXCEPT !.emergencies[p] = 0]

EndEmergency(s, p) == RestoreService([s EXCEPT !.emergencies[p] = 0], p, "emergency")

EmergencyStage(s, choice) ==
    InFleetOrder(LAMBDA t, p : IF s.emergencies[p] = 0 THEN t
                               ELSE IF EmergencyOver(t, p) THEN EndEmergency(t, p)
                               ELSE AdvanceEmergency(t, p, choice[p]),
                 s)

\* The stations that the emergency of p may choose: a pod on its way, and a passenger station within reach.
EmergencyChoices(s, p) ==
    IF s.emergencies[p] # 0 /\ s.pods[p].activity = "Traveling" THEN {NoStation} \cup (Passenger \ Cut(s)) ELSE {NoStation}
-----------------------------------------------------------------------------
(***************************************************************************)
(* Dispatch.                                                               *)
(***************************************************************************)
\* Mutant: a pod that another trip has is free.
PickupCandidateClaimed(s, p) ==
    LET v == s.pods[p]
    IN  /\ ~v.occupied /\ InService(v)
        /\ v.activity = "Idle" \/ v.relocatingTo # NoStation

\* Mutant: a withdrawn pod is free.
PickupCandidateWithdrawn(s, p) ==
    LET v == s.pods[p]
    IN  /\ ~v.occupied /\ ~Bound(s, p)
        /\ \/ v.activity = "Idle"
           \/ v.relocatingTo # NoStation /\ (v.relocatingTo \in Parking \/ v.rebalancing \/ v.released)

\* pickupCandidate: an empty unclaimed pod in service that is idle or may divert.
PickupCandidate(s, p) ==
    LET v == s.pods[p]
    IN  /\ ~v.occupied /\ InService(v) /\ ~Bound(s, p)
        /\ \/ v.activity = "Idle"
           \/ v.relocatingTo # NoStation /\ (v.relocatingTo \in Parking \/ v.rebalancing \/ v.released)

\* While stations are cut off, a pod must reach the pickup and a berth with a way on.
PickupAccess(s, p, trip) ==
    \/ IdleAt(s.pods[p], LegOrigin(trip))
    \/ {LegOrigin(trip), ToOf(trip.id)} \cap Cut(s) = {}

HasWayOn(s, trip) == ToOf(trip.id) \notin Cut(s)

KeepTripPod(s, i) ==
    LET p == s.queue[i].pod
    IN  IF p = NoPod \/ PickupAccess(s, p, s.queue[i]) THEN s
        ELSE [s EXCEPT !.pods[p] = ReleasePickup(@), !.queue[i].pod = NoPod]

AssignedPickupFits(s, p, trip) == HasWayOn(s, trip) /\ PickupAccess(s, p, trip)

\* The later trips whose ready pod the trip i may take.
Promotable(s, i) ==
    LET trip == s.queue[i]
        current == trip.pod
    IN  {j \in i + 1 .. Len(s.queue) :
            LET later == s.queue[j]
                ready == later.pod
            IN  /\ LegOrigin(later) = LegOrigin(trip) /\ ready # NoPod
                /\ InService(s.pods[ready]) /\ ready # trip.excluded /\ IdleAt(s.pods[ready], LegOrigin(trip))
                /\ AssignedPickupFits(s, ready, trip)
                /\ current # NoPod => later.excluded # current /\ AssignedPickupFits(s, current, later)}

PromoteReadyPickup(s, i) ==
    LET current == s.queue[i].pod
        j == Min(Promotable(s, i))
    IN  IF (current # NoPod /\ IdleAt(s.pods[current], LegOrigin(s.queue[i]))) \/ Promotable(s, i) = {} THEN s
        ELSE [s EXCEPT !.queue[i].pod = s.queue[j].pod, !.queue[j].pod = current]

\* localPickupForRequest: the first unclaimed pod in service that is idle at the pickup.
LocalPickups(s, trip) ==
    {p \in Pods : /\ IdleAt(s.pods[p], LegOrigin(trip)) /\ InService(s.pods[p]) /\ p # trip.excluded
                  /\ ~Bound(s, p) /\ HasWayOn(s, trip)}

TakeLocalPickup(s, i) ==
    LET trip == s.queue[i]
        v == s.pods[trip.pod]
    IN  IF trip.pod = NoPod \/ LocalPickups(s, trip) = {} THEN s
        ELSE IF IdleAt(v, LegOrigin(trip)) THEN s
        ELSE [s EXCEPT !.pods[trip.pod] = ReleasePickup(v), !.queue[i].pod = Min(LocalPickups(s, trip))]

RemoveTrip(s, i) == [s EXCEPT !.queue = RemoveAt(@, i)]
RiderOf(trip) == [id |-> trip.id, leg |-> trip.leg, done |-> FALSE]

\* The stop lists that take in a new stop: where it goes depends on the routes.
AddedStops(v, to) ==
    IF v.stops = <<>> \/ Len(v.stops) > MaxStops THEN {}
    ELSE {InsertAt(v.stops, k, to) : k \in 1 .. Len(v.stops) + 1}

JoinStops(v, trip) ==
    IF ToOf(trip.id) \in Range(v.stops) THEN {v.stops}
    ELSE IF trip.pod = NoPod THEN AddedStops(v, ToOf(trip.id)) ELSE {}

RoomToJoin(v) == Cardinality(ActiveRiders(v)) < PartyLimit

SharedRidePods(s, trip) ==
    {p \in Pods : LET v == s.pods[p]
                  IN  /\ v.activity = "Boarding" /\ v.at = LegOrigin(trip) /\ InService(v) /\ v.riders # <<>>
                      /\ ~v.occupied /\ ~v.recorded /\ p # trip.excluded /\ RoomToJoin(v)}

OnboardPods(s, trip) ==
    {p \in Pods : LET v == s.pods[p]
                  IN  /\ options.onboard /\ p # trip.excluded /\ InService(v) /\ v.occupied
                      /\ ActiveRiders(v) # {} /\ v.at = LegOrigin(trip) /\ RoomToJoin(v) /\ HasWayOn(s, trip)
                      /\ \/ v.activity = "Continuing"
                         \/ v.activity = "Boarding" /\ v.phase > 0}

\* The pod with the party of the trip: one that boards, and one that is occupied.
JoinedPod(v, trip, stops) == [v EXCEPT !.riders = Append(@, RiderOf(trip)), !.stops = stops, !.destination = stops[1]]
AboardPod(v, trip, stops) ==
    [JoinedPod(v, trip, stops) EXCEPT !.recorded = TRUE, !.activity = "Boarding", !.phase = IF v.activity = "Continuing" THEN 1 ELSE @]

Join(s, i, p, stops) == SetPod(s, p, JoinedPod(s.pods[p], s.queue[i], stops))
JoinAboard(s, i, p, stops) == SetPod(s, p, AboardPod(s.pods[p], s.queue[i], stops))

Reassigns(v) == options.reassign /\ Releasable(v)
MayJoin(s, trip) == IF trip.pod = NoPod THEN TRUE ELSE Reassigns(s.pods[trip.pod])

\* The pods that take the trip for certain, because they already stop at its destination.
SureShares(s, trip) == {p \in SharedRidePods(s, trip) : ToOf(trip.id) \in Range(s.pods[p].stops)}

MustJoin(s, i) == PartyLimit > 1 /\ MayJoin(s, s.queue[i]) /\ SureShares(s, s.queue[i]) # {}

\* The states after the trip i joins a pod: first an occupied one, then the first boarding one with room.
Joined(s, i) ==
    LET trip == s.queue[i]
        shares == {p \in SharedRidePods(s, trip) : \A q \in SureShares(s, trip) : p <= q}
        aboard == UNION {{JoinAboard(s, i, p, stops) : stops \in JoinStops(s.pods[p], trip)} : p \in OnboardPods(s, trip)}
        boarding == UNION {{Join(s, i, p, stops) : stops \in JoinStops(s.pods[p], trip)} : p \in shares}
        released(t) == IF trip.pod = NoPod THEN t ELSE [t EXCEPT !.pods[trip.pod] = ReleasePickup(@)]
    IN  IF PartyLimit > 1 /\ MayJoin(s, trip) THEN {RemoveTrip(released(t), i) : t \in aboard \cup boarding} ELSE {}

\* keepHold: the trip goes on waiting for the pod that finishes, until its next check.
MayKeepHold(s, i) ==
    LET trip == s.queue[i]
    IN  /\ options.defer /\ trip.deferral = "open" /\ trip.deferPod # NoPod /\ trip.deferPod # trip.excluded
        /\ InService(s.pods[trip.deferPod]) /\ PickupAccess(s, trip.deferPod, trip)
        /\ LocalPickups(s, trip) = {}

\* The pods that pickupPodForRequest may choose: an idle pod at the pickup takes no time.
PickupChoices(s, trip) ==
    LET able == {p \in Pods : PickupCandidate(s, p) /\ p # trip.excluded /\ PickupAccess(s, p, trip)}
        there == {p \in able : IdleAt(s.pods[p], LegOrigin(trip))}
    IN  IF there # {} THEN {Min(there)} ELSE able

\* Every candidate may be refused while it finishes a committed maneuver, but an idle one has a route.
PickupCertain(s, trip) == \E p \in PickupChoices(s, trip) : s.pods[p].activity = "Idle"

\* waitForFinishingPod: a busy pod may reach the pickup sooner.
Deferred(s, i, idle) ==
    IF ~options.defer \/ s.queue[i].deferral = "over" THEN {}
    ELSE {[s EXCEPT !.queue[i].deferPod = q, !.queue[i].deferral = "open"] :
             q \in {q \in Pods \ {idle, s.queue[i].excluded} :
                       s.pods[q].activity # "Idle" /\ InService(s.pods[q]) /\ PickupAccess(s, q, s.queue[i])}}

\* installEmptyMove
EmptyMove(v, station, rebalance) ==
    [v EXCEPT !.activity = "DepartingEmpty", !.destination = station, !.relocatingTo = station, !.rebalancing = rebalance,
              !.released = FALSE, !.phase = 0]

\* redirect: a pod that has not left a berth of the station may stay there.
Redirected(v, station) ==
    LET going == [v EXCEPT !.destination = station, !.relocatingTo = station, !.rebalancing = FALSE]
        staying == [going EXCEPT !.activity = "Idle", !.relocatingTo = NoStation, !.released = FALSE]
    IN  {going} \cup (IF v.activity = "DepartingEmpty" /\ v.at = station THEN {staying} ELSE {})

SentToPickup(v, station) ==
    IF IdleAt(v, station) THEN {v}
    ELSE IF v.activity = "Idle" THEN {EmptyMove(v, station, FALSE)}
    ELSE {[w EXCEPT !.released = FALSE] : w \in Redirected(v, station)}


\* board: the pod idle at the pickup takes the party, when it has a route to the destination.
MayBoard(s, trip, p) == trip.excluded # p /\ ToOf(trip.id) \notin Cut(s)
Boards(v, trip) ==
    [v EXCEPT !.activity = "Boarding", !.riders = <<RiderOf(trip)>>, !.recorded = FALSE, !.stops = <<ToOf(trip.id)>>,
              !.destination = ToOf(trip.id), !.phase = 1]

Board(s, i) ==
    LET trip == s.queue[i]
    IN  RemoveTrip([s EXCEPT !.pods[trip.pod] = Boards(@, trip)], i)

ReadyToBoard(s, i) ==
    LET trip == s.queue[i]
    IN  trip.pod # NoPod /\ IdleAt(s.pods[trip.pod], LegOrigin(trip)) /\ MayBoard(s, trip, trip.pod)

(***************************************************************************)
(* Swaps and transfers of pickups.                                         *)
(***************************************************************************)
SwapEligible(s, i) ==
    LET trip == s.queue[i]
        v == s.pods[trip.pod]
    IN  IF trip.pod = NoPod THEN FALSE
        ELSE /\ InService(v) /\ Releasable(v) /\ ~v.released /\ ActiveRiders(v) = {}
             /\ v.relocatingTo = LegOrigin(trip) /\ v.destination = LegOrigin(trip)

Rebound(trip, p) == [trip EXCEPT !.pod = p, !.deferPod = NoPod, !.deferral = "none"]

\* The trips i and j exchange their pods, which become v and w.
Exchange(s, i, j, v, w) ==
    [s EXCEPT !.pods[s.queue[i].pod] = v, !.pods[s.queue[j].pod] = w,
              !.queue[i] = Rebound(@, s.queue[j].pod), !.queue[j] = Rebound(@, s.queue[i].pod)]

SwapStates(s, i, j) ==
    LET a == s.queue[i].pod
        b == s.queue[j].pod
    IN  IF i = j \/ ~SwapEligible(s, i) \/ ~SwapEligible(s, j) \/ LegOrigin(s.queue[i]) = LegOrigin(s.queue[j])
           \/ s.queue[i].excluded = b \/ s.queue[j].excluded = a
           \/ ~PickupAccess(s, a, s.queue[j]) \/ ~PickupAccess(s, b, s.queue[i])
        THEN {}
        ELSE {Exchange(s, i, j, v, w) : v \in Redirected(s.pods[a], LegOrigin(s.queue[j])), w \in Redirected(s.pods[b], LegOrigin(s.queue[i]))}

TransferStates(s, i) ==
    LET trip == s.queue[i]
        free == {p \in Pods : /\ PickupCandidate(s, p) /\ ActiveRiders(s.pods[p]) = {} /\ p # trip.excluded
                              /\ PickupAccess(s, p, trip)}
    IN  IF ~SwapEligible(s, i) THEN {}
        ELSE UNION {{[s EXCEPT !.pods[p] = v, !.pods[trip.pod] = ReleasePickup(@), !.queue[i] = Rebound(@, p)] :
                        v \in SentToPickup(s.pods[p], LegOrigin(trip))} : p \in free}

\* checkPickupPair with the pod of the trip i: only where the estimates improve.
PairStates(s, i) == TransferStates(s, i) \cup UNION {SwapStates(s, i, j) : j \in DOMAIN s.queue}

(***************************************************************************)
(* The rest of the dispatch of a trip.                                     *)
(***************************************************************************)
\* assignPickupPod: the states in which the trip i has a pod.
AssignStates(s, i) ==
    LET trip == s.queue[i]
        sent(p) == {[s EXCEPT !.pods[p] = v, !.queue[i].pod = p] : v \in SentToPickup(s.pods[p], LegOrigin(trip))}
        assigned == UNION {sent(p) : p \in PickupChoices(s, trip)}
    IN  assigned \cup (IF options.swaps THEN UNION {PairStates(t, i) : t \in assigned} ELSE {})

\* The states in which the trip i goes on waiting with no pod.
WaitStates(s, i) ==
    LET away == {p \in PickupChoices(s, s.queue[i]) : ~IdleAt(s.pods[p], LegOrigin(s.queue[i]))}
    IN  (UNION {Deferred(s, i, p) : p \in away}) \cup (IF PickupCertain(s, s.queue[i]) THEN {} ELSE {s})

\* The states after the trip i, which no ride takes along: [state, boarded].
Dispatched(s, i) ==
    LET keep == IF MayKeepHold(s, i) THEN {s} ELSE {}
        bound == IF s.queue[i].pod # NoPod THEN {s} ELSE AssignStates(s, i)
        waiting == IF s.queue[i].pod # NoPod THEN {} ELSE keep \cup WaitStates(s, i)
    IN  {[state |-> IF ReadyToBoard(t, i) THEN Board(t, i) ELSE t, boarded |-> ReadyToBoard(t, i)] : t \in bound}
            \cup {[state |-> t, boarded |-> FALSE] : t \in waiting}

\* dispatchTrip
DispatchTrip ==
    /\ stage \in {"pass", "command"} /\ index <= Len(queue)
    /\ LET s == KeepTripPod(PromoteReadyPickup(Now, index), index)
       IN  \/ \E t \in Joined(s, index) : Becomes(t) /\ index' = index
           \/ /\ ~MustJoin(s, index)
              /\ \E r \in Dispatched(TakeLocalPickup(s, index), index) :
                     Becomes(r.state) /\ index' = IF r.boarded THEN index ELSE index + 1
    /\ UNCHANGED <<submitted, stage, used>>

-----------------------------------------------------------------------------
(***************************************************************************)
(* Released pods, positioning and motion.                                  *)
(***************************************************************************)
\* parkReleased: the nearest free berth is where the pod goes, elsewhere, or where a departing pod still is.
ParkedStates(v) ==
    IF ~(v.released /\ InService(v)) THEN {v} ELSE {v} \cup UNION {Redirected(v, station) : station \in Stations}

ParkUnclaimedReleased(s) ==
    {[s EXCEPT !.pods = parked] :
        parked \in {f \in [Pods -> UNION {ParkedStates(s.pods[p]) : p \in Pods}] : \A p \in Pods : f[p] \in ParkedStates(s.pods[p])}}

EndPass ==
    /\ stage \in {"pass", "command"} /\ index > Len(queue)
    /\ \E s \in ParkUnclaimedReleased(Now) : Becomes(s)
    /\ stage' = IF stage = "pass" THEN "supply" ELSE "idle"
    /\ UNCHANGED <<submitted, index, used>>

SwapPickups ==
    /\ options.swaps /\ stage = "supply"
    /\ \E i \in DOMAIN queue : \E t \in PairStates(Now, i) : \E s \in ParkUnclaimedReleased(t) : Becomes(s)
    /\ stage' = "positions"
    /\ UNCHANGED <<submitted, index, used>>

\* positionGuarded moves idle pods to demand, yieldRelocationClaims gives up a claim, clearBlockedBerths frees a berth.
Positioned(s, p) ==
    LET v == s.pods[p]
        free == v.activity = "Idle" /\ InService(v) /\ ~Bound(s, p)
        yields == v.relocatingTo # NoStation /\ InService(v) /\ v.rebalancing
    IN  IF free THEN {EmptyMove(v, station, guarded) : station \in Stations, guarded \in BOOLEAN}
        ELSE IF yields THEN ParkedStates([v EXCEPT !.rebalancing = FALSE, !.released = TRUE])
        ELSE {}

Position ==
    /\ options.positioning /\ stage \in {"supply", "positions"} /\ used.moves < options.moves
    /\ \E p \in Pods : \E v \in Positioned(Now, p) : pods' = [pods EXCEPT ![p] = v]
    /\ stage' = "positions" /\ used' = [used EXCEPT !.moves = @ + 1]
    /\ UNCHANGED <<options, queue, completed, interrupted, faults, emergencies, submitted, index>>

Departs(v) == v.activity \in {"Boarding", "DepartingEmpty", "Continuing"}
Departure(v) == [v EXCEPT !.occupied = v.activity # "DepartingEmpty", !.activity = "Traveling", !.at = NoStation]

Unloads(v) ==
    [v EXCEPT !.activity = "Unloading", !.at = v.destination, !.occupied = TRUE, !.phase = 1, !.braking = FALSE,
              !.stops = IF v.op.purpose = "unload" THEN WithoutStop(@, v.destination)
                        ELSE IF @ # <<>> /\ Head(@) = v.destination THEN Tail(@) ELSE @]

\* arrive
Arrival(v) ==
    IF v.relocatingTo = NoStation THEN Unloads(v)
    ELSE [Unloads(v) EXCEPT !.activity = "Idle", !.occupied = FALSE, !.phase = 0, !.relocatingTo = NoStation,
                            !.released = FALSE, !.rebalancing = FALSE, !.op = Service]

\* The admission of a departure and the arrival depend on the track: a faulted pod only brakes.
MotionOf(v, faulted) ==
    CASE Departs(v) /\ v.phase = 0 /\ ~faulted -> {v, Departure(v)}
      [] v.activity = "Traveling" /\ ~faulted -> {v, Arrival(v)}
      [] v.activity = "Traveling" /\ faulted /\ v.braking -> {v, Arrival(v), [v EXCEPT !.braking = FALSE]}
      [] OTHER -> {v}

Move ==
    /\ stage \in {"supply", "positions"}
    /\ \E next \in [Pods -> UNION {MotionOf(pods[p], Faulted(Now, p)) : p \in Pods}] :
           /\ \A p \in Pods : next[p] \in MotionOf(pods[p], Faulted(Now, p))
           /\ pods' = next
    /\ stage' = "idle"
    /\ UNCHANGED <<options, queue, completed, interrupted, faults, emergencies, submitted, index, used>>

\* The deadline of a deferral passes.
Expired(s, over) ==
    [s EXCEPT !.queue = [i \in DOMAIN @ |-> IF i \in over THEN [@[i] EXCEPT !.deferral = "over"] ELSE @[i]]]

\* Step up to its dispatch pass.
Tick ==
    /\ stage = "idle"
    /\ \E over \in SUBSET {i \in DOMAIN queue : queue[i].deferral = "open"} :
           LET s == FaultStage(UnloadPods(Expired(Now, over)))
           IN  \E choice \in [Pods -> {NoStation} \cup Passenger] :
                   /\ \A p \in Pods : choice[p] \in EmergencyChoices(s, p)
                   /\ Becomes(EmergencyStage(s, choice))
    /\ stage' = "pass" /\ index' = 1
    /\ UNCHANGED <<submitted, used>>

-----------------------------------------------------------------------------
(***************************************************************************)
(* The commands, taken between two ticks.                                  *)
(***************************************************************************)
\* SubmitTripOptions: the trip joins the queue, and a dispatch pass follows.
Submit ==
    /\ stage = "idle" /\ submitted < Len(options.journey)
    /\ submitted' = submitted + 1
    /\ queue' = Append(queue, [RequeuedTrip(submitted + 1, NoStation) EXCEPT !.boarded = FALSE])
    /\ stage' = "command" /\ index' = 1
    /\ UNCHANGED <<options, pods, completed, interrupted, faults, emergencies, used>>

\* RequestJourneyOptions: the party boards the idle pod at its station, past the queue.
RequestJourney(p) ==
    LET id == submitted + 1
        trip == RequeuedTrip(id, NoStation)
    IN  /\ stage = "idle" /\ submitted < Len(options.journey)
        /\ IdleAt(pods[p], options.journey[id].from) /\ InService(pods[p]) /\ ~Bound(Now, p)
        /\ MayBoard(Now, trip, p)
        /\ pods' = [pods EXCEPT ![p] = Boards(@, trip)]
        /\ submitted' = id
        /\ UNCHANGED <<options, queue, completed, interrupted, faults, emergencies, stage, index, used>>

\* startPodFault
Fault(p, left, cut) ==
    LET held == WithdrawService(Now, p, "fault")
    IN  /\ stage = "idle" /\ used.faults < options.faults /\ ~Faulted(Now, p)
        /\ \E braking \in IF pods[p].activity = "Traveling" THEN BOOLEAN ELSE {FALSE} :
               Becomes([held EXCEPT !.faults[p] = [left |-> left, age |-> 0, cut |-> cut], !.pods[p].braking = braking])
        /\ used' = [used EXCEPT !.faults = @ + 1]
        /\ UNCHANGED <<submitted, stage, index>>

ClearFault(p) ==
    /\ stage = "idle" /\ Faulted(Now, p)
    /\ Becomes(RemoveFault(Now, p))
    /\ UNCHANGED <<submitted, stage, index, used>>

\* The emergency starts at once, with a first choice of its station.
Emergency(p, k) ==
    LET s == [Now EXCEPT !.emergencies[p] = pods[p].riders[k].id]
    IN  /\ stage = "idle" /\ used.starts < options.starts
        /\ CarriesPassengers(pods[p]) /\ emergencies[p] = 0 /\ k \in ActiveRiders(pods[p])
        /\ Cardinality({q \in Pods : emergencies[q] # 0}) < MaxEmergencies
        /\ \E choice \in EmergencyChoices(s, p) : Becomes(AdvanceEmergency(s, p, choice))
        /\ used' = [used EXCEPT !.starts = @ + 1]
        /\ UNCHANGED <<submitted, stage, index>>

-----------------------------------------------------------------------------
(***************************************************************************)
(* Restores.  A save taken between two ticks becomes a fleet again: the    *)
(* physical tier keeps the pods where they are and demotes those it cannot *)
(* place, the logical tier starts with every pod at its first berth.       *)
(***************************************************************************)
ParkedPod(station) ==
    [activity |-> "Idle", at |-> station, destination |-> station, relocatingTo |-> NoStation, occupied |-> FALSE,
     riders |-> <<>>, recorded |-> FALSE, stops |-> <<>>, phase |-> 0, released |-> FALSE, rebalancing |-> FALSE,
     withdrawn |-> {}, op |-> Service, braking |-> FALSE]

RequeuedRiders(v, which) == {RequeuedTrip(v.riders[k].id, v.riders[k].leg) : k \in which}

\* The riders of p that a logical restore ends: marked by its emergency unload, or arrived.
RestoredInterrupted(v) == IF v.op.purpose = "unload" THEN ActiveRiders(v) \cap InterruptMarks(v) ELSE {}
RestoredCompleted(v) ==
    IF v.activity # "Unloading" THEN {}
    ELSE {k \in ActiveRiders(v) \ RestoredInterrupted(v) : v.at \in Passenger /\ ToOf(v.riders[k].id) = v.at}

\* unboundTrip: the deadline of the deferral and the exclusion stay.
UnboundTrip(trip) == [trip EXCEPT !.pod = NoPod, !.deferPod = NoPod]

RestoredLogical(s) ==
    LET waits(v) == RequeuedRiders(v, ActiveRiders(v) \ (RestoredInterrupted(v) \cup RestoredCompleted(v)))
    IN  [pods |-> [p \in Pods |-> ParkedPod(Home[p])],
         queue |-> QueueAll([i \in DOMAIN s.queue |-> UnboundTrip(s.queue[i])], UNION {waits(s.pods[p]) : p \in Pods}),
         completed |-> s.completed \cup UNION {IdsAt(s.pods[p], RestoredCompleted(s.pods[p])) : p \in Pods},
         interrupted |-> s.interrupted \cup UNION {IdsAt(s.pods[p], RestoredInterrupted(s.pods[p])) : p \in Pods},
         faults |-> [p \in Pods |-> NoFault],
         emergencies |-> [p \in Pods |-> 0]]

CountRestore == stage = "idle" /\ used.restores < options.restores /\ used' = [used EXCEPT !.restores = @ + 1]

RestoreLogical ==
    /\ CountRestore
    /\ Becomes(RestoredLogical(Now))
    /\ UNCHANGED <<submitted, stage, index>>

\* A demoted pod drops its purpose; its holds and its history stay.
DemotedAt(v, station) ==
    [SettleIdle(v) EXCEPT !.at = station, !.destination = station, !.stops = v.stops]

\* boardAgain: at a berth of the station where the party boarded.
BoardAgain(v) ==
    LET station == IF v.riders[1].leg = NoStation THEN options.journey[v.riders[1].id].from ELSE v.riders[1].leg
    IN  [DemotedAt(v, station) EXCEPT !.activity = "Boarding", !.destination = v.stops[1],
                                      !.riders = Selected(@, ActiveRiders(v))]

MayBoardAgain(s, v) == IF v.recorded \/ v.stops = <<>> THEN FALSE ELSE v.stops[1] \notin Cut(s)

\* placeDemoted: [pod, requeued]
Placements(s, v) ==
    LET emptied == IF ActiveRiders(v) = {} THEN v ELSE [v EXCEPT !.riders = <<>>, !.stops = <<>>, !.recorded = FALSE]
        waits == RequeuedRiders(v, ActiveRiders(v))
    IN  {[pod |-> DemotedAt(emptied, station), requeued |-> waits] : station \in Stations}
            \cup (IF ActiveRiders(v) # {} /\ MayBoardAgain(s, v) THEN {[pod |-> BoardAgain(v), requeued |-> {}]} ELSE {})

\* restoreTrip: a trip that names a demoted pod loses its bindings.
RestoredTrip(trip, demoted) == IF {trip.pod, trip.deferPod} \cap demoted = {} THEN trip ELSE UnboundTrip(trip)

\* The pods that can be demoted: those with a route, and no record (else the physical tier fails).
Demotable(s) == {p \in Pods : /\ s.pods[p].activity \in {"Boarding", "DepartingEmpty", "Continuing", "Traveling"}
                              /\ ~Faulted(s, p) /\ s.emergencies[p] = 0}

RestoredPhysical(s, demoted, placed) ==
    LET trips == [i \in DOMAIN s.queue |-> RestoredTrip(s.queue[i], demoted)]
        orphans == {s.queue[i].pod : i \in {i \in DOMAIN trips : trips[i].pod # s.queue[i].pod}}
                       \ {trips[i].pod : i \in DOMAIN trips}
        kept(p) == [s.pods[p] EXCEPT !.braking = FALSE, !.released = @ /\ Releasable(s.pods[p])]
    IN  [s EXCEPT !.pods = [p \in Pods |-> IF p \in demoted THEN placed[p].pod
                                           ELSE IF p \in orphans THEN ReleasePickup(kept(p)) ELSE kept(p)],
                  !.queue = QueueAll(trips, UNION {placed[p].requeued : p \in demoted})]

RestorePhysical ==
    /\ CountRestore
    /\ \E demoted \in SUBSET Demotable(Now) :
           \E placed \in [demoted -> UNION {Placements(Now, pods[p]) : p \in demoted}] :
               /\ \A p \in demoted : placed[p] \in Placements(Now, pods[p])
               /\ Becomes(RestoredPhysical(Now, demoted, placed))
    /\ UNCHANGED <<submitted, stage, index>>

-----------------------------------------------------------------------------
Init ==
    /\ pods = [p \in Pods |-> ParkedPod(Home[p])]
    /\ queue = <<>> /\ completed = {} /\ interrupted = {}
    /\ faults = [p \in Pods |-> NoFault] /\ emergencies = [p \in Pods |-> 0]
    /\ submitted = 0 /\ stage = "idle" /\ index = 1
    /\ used = [faults |-> 0, starts |-> 0, restores |-> 0, moves |-> 0]
    /\ options \in Options

Commands ==
    \/ Submit
    \/ \E p \in Pods : RequestJourney(p)
    \/ \E p \in Pods, left \in {FaultTicks, OpenEnd}, cut \in Cuts : Fault(p, left, cut)
    \/ \E p \in Pods : ClearFault(p)
    \/ \E p \in Pods : \E k \in DOMAIN pods[p].riders : Emergency(p, k)

Steps == Tick \/ DispatchTrip \/ EndPass \/ SwapPickups \/ Position \/ Move

Next == Steps \/ Commands \/ RestoreLogical \/ RestorePhysical

Spec == Init /\ [][Next]_fleetVars

-----------------------------------------------------------------------------
(***************************************************************************)
(* Properties.                                                             *)
(***************************************************************************)
Orders == 1 .. Max({Len(o.journey) : o \in Options})
Waiting == {queue[i].id : i \in DOMAIN queue}
Aboard(p) == IdsAt(pods[p], ActiveRiders(pods[p]))

\* Every submitted order is in exactly one place at every point of a tick: the queue, one pod, the completed
\* or the interrupted orders (reconcileOrders and the "unaccounted" count of checkContract). The queue stays
\* in the order of the IDs through transfers and restores.
OrdersAccounted ==
    /\ 1 .. submitted = Waiting \cup completed \cup interrupted \cup UNION {Aboard(p) : p \in Pods}
    /\ Waiting \cap (completed \cup interrupted \cup UNION {Aboard(p) : p \in Pods}) = {}
    /\ completed \cap interrupted = {}
    /\ \A p \in Pods : /\ Aboard(p) \cap (completed \cup interrupted) = {}
                       /\ Cardinality(Aboard(p)) = Cardinality(ActiveRiders(pods[p]))
                       /\ \A q \in Pods \ {p} : Aboard(p) \cap Aboard(q) = {}
    /\ \A i, j \in DOMAIN queue : i < j => queue[i].id < queue[j].id

RiderLeg(rider) == IF rider.leg = NoStation THEN options.journey[rider.id].from ELSE rider.leg
Destinations(v) == {ToOf(id) : id \in IdsAt(v, ActiveRiders(v))}
StopSet(v) == Range(v.stops)
Distinct(stops) == Cardinality(Range(stops)) = Len(stops)

\* The stop rules of state_contract.go, by the phase of the pod.
StopsAgree(v) ==
    IF v.activity = "Unloading" /\ (v.stops # <<>> \/ v.op.purpose = "unload") THEN StopSet(v) = Destinations(v) \ {v.at}
    ELSE IF v.activity = "Unloading" THEN v.stops = <<>> /\ Destinations(v) = {v.at}
    ELSE IF v.activity \in {"Boarding", "Continuing"} \/ v.occupied
         THEN StopSet(v) = Destinations(v) /\ (v.op.purpose = "service" => v.stops[1] = v.destination)
    ELSE v.stops = <<>>

MovesEmpty(v) == v.activity = "DepartingEmpty" \/ (v.activity = "Traveling" /\ ~v.occupied)
BoardsHere(v) == v.activity = "Boarding" /\ ~v.occupied

\* checkPodRiders, with the active and history flags of phaseRules.
RidersAgree(v) ==
    /\ (ActiveRiders(v) = {}) = (v.activity = "Idle" \/ MovesEmpty(v))
    /\ BoardsHere(v) => Len(v.riders) = Cardinality(ActiveRiders(v)) /\ ~v.recorded
    /\ \A k \in DOMAIN v.riders :
           /\ RiderLeg(v.riders[k]) # ToOf(v.riders[k].id)
           /\ ~v.recorded => RiderLeg(v.riders[k]) = RiderLeg(v.riders[1])
           /\ ~v.recorded /\ v.riders[k].done => ToOf(v.riders[k].id) \notin StopSet(v)
           /\ BoardsHere(v) => RiderLeg(v.riders[k]) = v.at

\* checkPodFlags and checkPodPlace, with the flags of phaseRules.
FlagsAgree(v) ==
    /\ v.activity \in {"Unloading", "Continuing"} => v.occupied
    /\ v.activity \in {"Idle", "DepartingEmpty"} => ~v.occupied
    /\ v.phase > 0 => v.activity \in {"Boarding", "Unloading"}
    /\ v.activity = "Unloading" /\ (v.stops = <<>> \/ v.op.purpose = "unload") => v.phase > 0
    /\ IF MovesEmpty(v) THEN v.relocatingTo = v.destination ELSE v.relocatingTo = NoStation /\ ~v.rebalancing
    /\ (v.activity = "Traveling") = (v.at = NoStation)
    /\ v.activity = "Unloading" => v.destination = v.at

\* checkPodOperational and checkOperationalStations
PurposeAgrees(v) ==
    /\ IF v.op.purpose = "service" THEN v.op = Service ELSE v.op.owner \in v.withdrawn
    /\ v.op.purpose = "unload" => v.occupied /\ v.activity \in {"Traveling", "Unloading"} /\ v.destination \in Passenger
    /\ v.op.purpose = "recovery" => MovesEmpty(v) /\ ~v.rebalancing /\ ~v.released

\* The saved form of a pod is one that both restore tiers accept (checkPod).
PodAcceptable(v) == RidersAgree(v) /\ FlagsAgree(v) /\ Distinct(v.stops) /\ StopsAgree(v) /\ PurposeAgrees(v)

\* checkContract between two calls: what the running fleet would save is always a state that a restore
\* accepts, with W2: no waiting trip names a withdrawn pod, as its pod or as the pod it waits for.
SaveContractHolds ==
    stage = "idle" =>
        /\ \A p \in Pods : PodAcceptable(pods[p])
        /\ \A i \in DOMAIN queue :
               /\ LegOrigin(queue[i]) # ToOf(queue[i].id)
               /\ \A p \in {queue[i].pod, queue[i].deferPod} \ {NoPod} : InService(pods[p])

\* checkFaults and checkEmergencies between two calls: a record has its hold, a hold has its record or the
\* purpose that it owns, and an emergency unload interrupts exactly the party of its record.
IncidentsConsistent ==
    stage = "idle" =>
        \A p \in Pods :
            LET v == pods[p]
            IN  /\ Faulted(Now, p) => "fault" \in v.withdrawn
                /\ "emergency" \in v.withdrawn => emergencies[p] # 0
                /\ v.op.purpose = "unload" =>
                       /\ v.op.owner = "emergency" /\ emergencies[p] # 0 /\ CarriesPassengers(v)
                       /\ v.op.interrupt = PartyIndex(Now, p) /\ v.op.interrupt # {}
                /\ emergencies[p] # 0 /\ v.op.purpose = "recovery" => ActiveRiders(v) = {}

\* A trip with a pod can count on it between two calls: no other trip has the pod, it is in service, empty,
\* and idle at the pickup or on its way there, and it is not the pod that failed the trip before.
BoundPodServes ==
    stage = "idle" =>
        \A i \in DOMAIN queue : queue[i].pod # NoPod =>
            LET v == pods[queue[i].pod]
            IN  /\ \A j \in DOMAIN queue \ {i} : queue[j].pod # queue[i].pod
                /\ InService(v) /\ ~v.occupied /\ ActiveRiders(v) = {} /\ queue[i].pod # queue[i].excluded
                /\ IdleAt(v, LegOrigin(queue[i])) \/ (v.relocatingTo = LegOrigin(queue[i]) /\ ~v.released)

\* A pod out of service takes no party: not from the queue, not as a shared ride and not by a direct request.
WithdrawnIsNoSupply == [][\A p \in Pods : ~InService(pods[p]) /\ pods[p].withdrawn \subseteq pods'[p].withdrawn => Aboard(p)' \subseteq Aboard(p)]_fleetVars

-----------------------------------------------------------------------------
\* Ticks go on, the track admits a pod again and again until it has moved, and the deadline of a deferral passes:
\* strong fairness, stated on the variables.  Nothing is assumed of the commands.
StageGoesOn == []<><<stage' # stage>>_stage

CanMove(p) == stage = "supply" /\ ~Faulted(Now, p) /\ (pods[p].activity = "Traveling" \/ (Departs(pods[p]) /\ pods[p].phase = 0))
PodMoves(p) == <>[]~CanMove(p) \/ []<><<stage = "supply" /\ stage' = "idle" /\ pods'[p] # pods[p]>>_<<stage, pods>>

Deferring(id) == \E i \in DOMAIN queue : queue[i].id = id /\ queue[i].deferral = "open"
DeferralPasses(id) == <>[]~Deferring(id) \/ []<><<stage = "idle" /\ stage' = "pass" /\ Deferring(id) /\ ~Deferring(id)'>>_<<stage, queue>>

Fairness ==
    /\ StageGoesOn
    /\ \A p \in Pods : PodMoves(p)
    /\ \A id \in Orders : DeferralPasses(id)
FairSpec == Spec /\ Fairness

\* With the faults over for good, every submitted order ends: no order waits for ever for a pod that lost it, for
\* a withdrawn pod, or aboard a pod that an evacuation, an emergency or a restore left without a next stop.
EveryOrderEnds == \A id \in Orders : (submitted >= id /\ <>[](\A p \in Pods : faults[p] = NoFault)) ~> (id \in completed \cup interrupted)
=============================================================================
