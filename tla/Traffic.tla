------------------------------ MODULE Traffic ------------------------------
(***************************************************************************)
(* The traffic of the simulation (internal/sim): how pods reserve the      *)
(* cells of their routes, share them in platoons, move and give them back, *)
(* one tick of Simulation.Step at a time, with faulted pods, debris and    *)
(* emergency pods.                                                         *)
(*                                                                         *)
(* A lane is a row of cells.  Each cell has resources: its track, the node *)
(* of a lane end, the junctions whose conflict zone meets it, and the      *)
(* berth at its end.  Distances are counted in half cells: a cell is 2     *)
(* long, and Clearance, the retention of a tail and the clearance of a     *)
(* link are 1.  A pod moves by at most 1 in a tick: the motion kernel is   *)
(* replaced by any travel that stays within the limit it computes.         *)
(***************************************************************************)
EXTENDS Integers, FiniteSets, Sequences, FiniteSetsExt, SequencesExt, TLC

CONSTANTS
  PodCount,        \* pods are 1..PodCount, in the order of their IDs
  Lanes, Nodes, LaneFrom, LaneTo, Cells,   \* the network; Cells[l] is the number of cells
  LaneRole,        \* "road", "entry" (a station entry lane), "access" or "departure"
  Junctions,       \* conflict zones, each a set of <<lane, cell>>
  Berths, BerthNode, BerthStation,         \* berths are numbers, in berth order
  Stations, StationEntry,
  RoadTo,          \* [node -> [station -> lanes from the node to the station entry]]
  AccessLane,      \* the lane from the station entry to each berth
  StartBerth,      \* where each pod is at first
  Lookahead,       \* reservation horizon
  AdmissionAge,    \* admissionAgeTicks
  PlatoonLimit,
  Platooning,      \* whether platoons are on
  Scenes           \* what happens in a run: see Scene

Pods == 1..PodCount
NoPod == 0
Debris == PodCount + 1
NoBerth == 0
Clearance == 1

ASSUME TrafficAssumption ==
  /\ PodCount \in Nat \ {0}
  /\ Cells \in [Lanes -> Nat \ {0, 1}]
  /\ LaneFrom \in [Lanes -> Nodes] /\ LaneTo \in [Lanes -> Nodes]
  /\ Berths \subseteq Nat \ {0}
  /\ AdmissionAge \in Nat /\ Lookahead \in Nat
  /\ \A scn \in Scenes :
       /\ scn.trips \subseteq {"passenger", "pickup", "parking"} /\ scn.maxTrips \in Nat
       /\ scn.incidents \subseteq {"fault", "debris", "emergency"} /\ scn.maxIncidents \in Nat
       /\ scn.movers \subseteq 1..PodCount /\ scn.steady \in BOOLEAN

VARIABLES
  scene,      \* the kinds of trips and incidents, how many, the pods that get
              \* trips, and whether every pod that may move moves
  pod,        \* the pods
  owners,     \* the owner of each resource, NoPod for a free one
  debris,     \* the footprint of the debris
  expired,    \* resources of debris that this tick's fault stage cleared
  phase,      \* the stage of Step that is next, "rest" between ticks
  trips, incidents   \* bounds

trafficVars == <<scene, pod, owners, debris, expired, phase, trips, incidents>>

-----------------------------------------------------------------------------
(* Resources, cells and routes.                                            *)

Track(l, c) == <<"track", l, c>>
Node(n) == <<"node", n, 0>>
Junction(z) == <<"junction", z, 0>>
BerthSpace(x) == <<"berth", x, 0>>

\* newLaneCells: what each cell of a lane holds. "@@ <<>>" makes TLC keep the
\* function as a table.
CellResources(l, c) ==
  {Track(l, c)}
    \cup {Node(LaneFrom[l]) : k \in {k \in {1} : c = k}}
    \cup {Node(LaneTo[l]) : k \in {k \in {Cells[l]} : c = k}}
    \cup {BerthSpace(x) : x \in {x \in Berths : c = Cells[l] /\ BerthNode[x] = LaneTo[l]}}
    \cup {Junction(z) : z \in {z \in Junctions : <<l, c>> \in z}}

LaneCells == [lc \in {lc \in Lanes \X (1..Max({Cells[l] : l \in Lanes})) : lc[2] <= Cells[lc[1]]} |->
                CellResources(lc[1], lc[2])] @@ <<>>

BerthResources(x) == {BerthSpace(x), Node(BerthNode[x])}

Resources == UNION {LaneCells[lc] : lc \in DOMAIN LaneCells}
               \cup UNION {BerthResources(x) : x \in Berths}

\* routeBlocks: the blocks of a route in order, each with the route index of
\* its lane.
Blocks(route) ==
  FoldLeft(LAMBDA bs, k : bs \o [c \in 1..Cells[route[k]] |-> [lane |-> route[k], at |-> k, cell |-> c]],
           <<>>, [k \in 1..Len(route) |-> k])

BlockResources(bk) == LaneCells[<<bk.lane, bk.cell>>]

SpanResources(bs, from, through) == UNION {BlockResources(bs[i]) : i \in from..through}

\* The first block of each lane of a route, and one past the last block.
LaneFirsts(route) ==
  FoldLeft(LAMBDA fs, l : Append(fs, fs[Len(fs)] + Cells[l]), <<1>>, route)

\* Mutant: a cell is free as soon as the pod is at its end.
ReleaseDistanceNoTail(bs, i, r) == IF r = Node(LaneFrom[bs[i].lane]) THEN 2 * (i - 1) + Clearance ELSE 2 * i

\* releaseDistance: a junction is free at the end of the cell, the node that
\* a departure leaves after the tail, the rest a tail after the cell.
ReleaseDistance(bs, i, r) ==
  CASE r[1] = "junction" -> 2 * i
    [] r = Node(LaneFrom[bs[i].lane]) -> 2 * (i - 1) + Clearance
    [] OTHER -> 2 * i + Clearance

\* What block i forces a reservation to reach: the cell after a lane end, and
\* the end of the run of cells that hold a junction of it.
RunEnd(bs, i, r) == Max({e \in i..Len(bs) : \A k \in i..e : r \in BlockResources(bs[k])})

BlockNeeds(bs, i) ==
  Max({i} \cup {k \in {i + 1} : i < Len(bs) /\ bs[i + 1].at # bs[i].at}
          \cup {RunEnd(bs, i, r) : r \in {r \in BlockResources(bs[i]) : r[1] = "junction"}})

\* reservationEnd: the smallest reservation from start that leaves no
\* conflict zone half reserved.
ReservationEnd(bs, start) ==
  Min({t \in start..Len(bs) : \A i \in start..t : BlockNeeds(bs, i) <= t})

-----------------------------------------------------------------------------
(* Pods.                                                                   *)

NoLink == [leader |-> NoPod, lane |-> 0, leaderLane |-> 0, lanes |-> 0, end |-> 0, draining |-> FALSE]

\* act: "idle" at a berth, "ready" to leave it, or "moving". trip: what the
\* pod is for; only a passenger trip carries riders, and the others are
\* empty moves (RelocatingTo is set). A pickup is assigned to a waiting
\* order, and a released one has lost it.
IdlePod(x) ==
  [act |-> "idle", berth |-> x, trip |-> "none", released |-> FALSE,
   route |-> <<>>, blocks |-> <<>>, first |-> <<1>>, dist |-> 0, through |-> 0, origin |-> x, originReleased |-> TRUE,
   dest |-> NoBerth, station |-> BerthStation[x], rel |-> <<>>,
   link |-> NoLink, pend |-> 0, age |-> 0, faulted |-> FALSE, cap |-> 0, emergency |-> 0]

\* setVehicleRoute.
SetRoute(v, route) == [v EXCEPT !.route = route, !.blocks = Blocks(route), !.first = LaneFirsts(route)]

TrafficInit ==
  /\ scene \in Scenes
  /\ pod = [p \in Pods |-> IdlePod(StartBerth[p])]
  /\ owners = [r \in Resources |->
       IF \E p \in Pods : r \in BerthResources(StartBerth[p])
       THEN CHOOSE p \in Pods : r \in BerthResources(StartBerth[p]) ELSE NoPod]
  /\ debris = {} /\ expired = {} /\ phase = "rest"
  /\ trips = 0 /\ incidents = 0

Moving(v) == v.act = "moving"
Relocating(v) == v.trip \in {"pickup", "parking"}
\* Pods that must reach their berth: with riders or for an assigned order.
Committed(v) == v.trip = "passenger" \/ (v.trip = "pickup" /\ ~v.released)

\* publishVehicleTravel: the block of a pod; it stays in its last reserved
\* block until the next one is granted.
BlockIndex(v) == Min({v.dist \div 2 + 1, v.through})
CurrentLane(v) == IF v.through = 0 THEN 1 ELSE v.blocks[BlockIndex(v)].at

Follower(ps, p) == IF \E q \in Pods : ps[q].link.leader = p
                   THEN CHOOSE q \in Pods : ps[q].link.leader = p ELSE NoPod

\* aheadInPlatoon, and the pods behind in the order of the platoon.
Ahead(ps) ==
  LET step(R) == R \cup {<<p, q>> \in Pods \X Pods : \E m \in Pods : <<p, m>> \in R /\ <<m, q>> \in R}
      direct == {<<p, q>> \in Pods \X Pods : ps[p].link.leader = q}
  IN IF direct = {} THEN {} ELSE step(step(direct))

FirstHolderBehind(ps, p, holds(_)) ==
  LET ahead == Ahead(ps)
      behind == {q \in Pods : <<q, p>> \in ahead /\ holds(q)}
  IN IF behind = {} THEN NoPod
     ELSE CHOOSE q \in behind : \A o \in behind : <<o, q>> \in ahead \/ o = q

Retains(v, r) == r \in DOMAIN v.rel
RetainsPast(v, r) == Retains(v, r) /\ v.rel[r] > v.dist

\* Mutant: a shared resource is freed instead of handed to the pod behind.
HeirNobody(ps, p, r) == NoPod

\* releaseRouteResource: the first pod behind that has reserved the resource
\* and not passed it gets it.
Heir(ps, p, r) == FirstHolderBehind(ps, p, LAMBDA q : RetainsPast(ps[q], r))

\* releaseOwned of each resource of a set that p owns.
ReleaseOwned(ps, os, p, gone) == [r \in {r \in gone : os[r] = p} |-> Heir(ps, p, r)] @@ os

-----------------------------------------------------------------------------
(* Blocked lanes and berths, and the choice of a berth.                    *)

\* podFaultFootprint: what a faulted pod can still cover.
FaultFootprint(v) ==
  IF Moving(v)
  THEN LET bs == v.blocks IN
       UNION {{r \in BlockResources(bs[i]) : ReleaseDistance(bs, i, r) > v.cap} : i \in 1..v.through}
         \cup (IF v.cap < Clearance THEN BerthResources(v.origin) ELSE {})
  ELSE BerthResources(v.berth)

\* blockedFrom: the resources that faults block, and what meets them.
BlockedResources(ps) == debris \cup UNION {FaultFootprint(ps[p]) : p \in {p \in Pods : ps[p].faulted}}
LaneBlocked(ps, l) == \E c \in 1..Cells[l] : LaneCells[<<l, c>>] \cap BlockedResources(ps) # {}
RouteBlocked(ps, route) == \E k \in DOMAIN route : LaneBlocked(ps, route[k])
BerthBlocked(ps, x) == BerthResources(x) \cap BlockedResources(ps) # {}

\* The route from a node to a berth.
RouteToBerth(n, x) == IF BerthNode[x] = n THEN <<>> ELSE RoadTo[n][BerthStation[x]] \o <<AccessLane[x]>>
RouteCost(route) == FoldLeft(LAMBDA sum, l : sum + Cells[l], 0, route)

BoundFor(ps, x) == {p \in Pods : ps[p].act # "idle" /\ ps[p].dest = x}

\* berthLoad: the pods that go to the berth, and the other owners of it.
BerthLoad(ps, os, x) ==
  Cardinality(BoundFor(ps, x)) + Cardinality({os[r] : r \in BerthResources(x)} \ (BoundFor(ps, x) \cup {NoPod}))

\* stationRouteByLoad: the least loaded berth, in berth order.
StationBerths(ps, s) == {x \in Berths : BerthStation[x] = s /\ ~BerthBlocked(ps, x) /\ ~LaneBlocked(ps, AccessLane[x])}
LeastLoaded(ps, os, s) ==
  CHOOSE x \in StationBerths(ps, s) : \A y \in StationBerths(ps, s) :
    <<BerthLoad(ps, os, x), x>> = <<BerthLoad(ps, os, y), y>>
      \/ BerthLoad(ps, os, x) < BerthLoad(ps, os, y)
      \/ (BerthLoad(ps, os, x) = BerthLoad(ps, os, y) /\ x < y)

\* berthAvailableTo and berthAvailableFor.
AvailableTo(os, p, x) == \A r \in BerthResources(x) : os[r] \in {NoPod, p}
AvailableFor(ps, os, p, x) == AvailableTo(os, p, x) /\ BoundFor(ps, x) \subseteq {p}

Linked(ps, p) == ps[p].link.leader # NoPod \/ Follower(ps, p) # NoPod

-----------------------------------------------------------------------------
(* Orders between ticks.                                                   *)

Resting == phase = "rest"

\* A pod that leaves its berth. It keeps the berth until its tail is out.
Leave(v, kind, s, x, route) ==
  [SetRoute(v, route) EXCEPT !.act = "ready", !.trip = kind, !.station = s, !.dest = x,
            !.origin = v.berth, !.originReleased = FALSE, !.through = 0, !.dist = 0, !.pend = 0,
            !.age = 0, !.released = FALSE]

Give(os, p, rs) == [r \in rs |-> p] @@ os

\* A trip with riders: the route ends at the station entry, and the berth is
\* chosen on the way.
StartPassenger(p, s) ==
  /\ Resting /\ "passenger" \in scene.trips /\ trips < scene.maxTrips /\ p \in scene.movers
  /\ pod[p].act = "idle" /\ ~pod[p].faulted /\ pod[p].station # s
  /\ LET route == RoadTo[BerthNode[pod[p].berth]][s] IN
       /\ ~RouteBlocked(pod, route)
       /\ pod' = [pod EXCEPT ![p] = Leave(@, "passenger", s, NoBerth, route)]
  /\ trips' = trips + 1
  /\ UNCHANGED <<owners, debris, expired, phase, incidents>>

\* sendPickupMatching of an idle pod: the berth is chosen and not reserved.
StartPickup(p, s) ==
  /\ Resting /\ "pickup" \in scene.trips /\ trips < scene.maxTrips /\ p \in scene.movers
  /\ pod[p].act = "idle" /\ ~pod[p].faulted /\ pod[p].station # s
  /\ StationBerths(pod, s) # {}
  /\ LET x == LeastLoaded(pod, owners, s)
         route == RouteToBerth(BerthNode[pod[p].berth], x) IN
       /\ ~RouteBlocked(pod, route)
       /\ pod' = [pod EXCEPT ![p] = Leave(@, "pickup", s, x, route)]
  /\ trips' = trips + 1
  /\ UNCHANGED <<owners, debris, expired, phase, incidents>>

\* startEmptyMove with a reserved berth.
CanReserve(ps, os, p, x) ==
  /\ \A r \in BerthResources(x) : os[r] = NoPod
  /\ ~RouteBlocked(ps, RouteToBerth(BerthNode[ps[p].berth], x))
StartEmptyMove(ps, p, x) ==
  [ps EXCEPT ![p] = Leave(@, "parking", BerthStation[x], x, RouteToBerth(BerthNode[ps[p].berth], x))]

StartParking(p, x) ==
  /\ Resting /\ "parking" \in scene.trips /\ trips < scene.maxTrips /\ p \in scene.movers
  /\ pod[p].act = "idle" /\ ~pod[p].faulted /\ CanReserve(pod, owners, p, x)
  /\ pod' = StartEmptyMove(pod, p, x)
  /\ owners' = Give(owners, p, BerthResources(x))
  /\ trips' = trips + 1
  /\ UNCHANGED <<debris, expired, phase, incidents>>

\* releasePickup: dispatch takes the order of the pod away.
ReleasePickup(p) ==
  /\ Resting /\ pod[p].trip = "pickup" /\ ~pod[p].released
  /\ pod' = [pod EXCEPT ![p].released = TRUE]
  /\ UNCHANGED <<owners, debris, expired, phase, trips, incidents>>

-----------------------------------------------------------------------------
(* Incidents between ticks.                                                *)

\* claimKind = claimService: a claim on the destination of an empty move
\* that the pod does not stand on, has not reserved track of, does not
\* retain and has not lent.
ServiceClaims(ps, os, p) ==
  LET v == ps[p]
      bs == v.blocks
      atBerth == IF v.act = "moving" THEN {} ELSE BerthResources(v.berth)
      atOrigin == IF v.originReleased THEN {} ELSE BerthResources(v.origin)
  IN IF ~Relocating(v) THEN {}
     ELSE {r \in BerthResources(v.dest) \ (atBerth \cup atOrigin \cup SpanResources(bs, 1, v.through)) :
             os[r] = p /\ ~RetainsPast(v, r)
             /\ FirstHolderBehind(ps, p, LAMBDA q : RetainsPast(ps[q], r)) = NoPod}

\* startPodFault: the pod loses its pickup and its unused claims, requests
\* no more track and stops within its reservation.
StartFault(p, stop) ==
  /\ Resting /\ "fault" \in scene.incidents /\ incidents < scene.maxIncidents
  /\ ~pod[p].faulted /\ ~Linked(pod, p)
  /\ LET v == [pod[p] EXCEPT !.released = @ \/ pod[p].trip = "pickup", !.faulted = TRUE, !.pend = 0, !.age = 0,
                             !.cap = IF Moving(pod[p]) THEN Min({2 * pod[p].through, pod[p].dist + stop}) ELSE 0] IN
       pod' = [pod EXCEPT ![p] = v]
  /\ owners' = ReleaseOwned(pod, owners, p, ServiceClaims(pod, owners, p))
  /\ incidents' = incidents + 1
  /\ UNCHANGED <<debris, expired, phase, trips>>

ClearFault(p) ==
  /\ Resting /\ pod[p].faulted
  /\ pod' = [pod EXCEPT ![p].faulted = FALSE, ![p].cap = 0]
  /\ UNCHANGED <<owners, debris, expired, phase, trips, incidents>>

\* startDebris: on one cell of a lane and the cells within Clearance of it.
DebrisFootprint(l, c) == UNION {LaneCells[<<l, d>>] : d \in {d \in 1..Cells[l] : d \in (c - 1)..(c + 1)}}

DebrisClaimed(rs) == \E r \in rs : owners[r] # NoPod \/ \E p \in Pods : Retains(pod[p], r)

StartDebris(l, c) ==
  /\ Resting /\ "debris" \in scene.incidents /\ incidents < scene.maxIncidents /\ debris = {}
  /\ LET rs == DebrisFootprint(l, c) IN
       /\ rs \cap UNION {BerthResources(x) : x \in Berths} = {}
       /\ rs \cap BlockedResources(pod) = {}
       /\ ~DebrisClaimed(rs)
       /\ debris' = rs
       /\ owners' = Give(owners, Debris, rs)
  /\ incidents' = incidents + 1
  /\ UNCHANGED <<pod, expired, phase, trips>>

\* clearFault of debris by a command: the resources are free at once.
ClearDebris ==
  /\ Resting /\ debris # {}
  /\ owners' = Give(owners, NoPod, debris)
  /\ debris' = {}
  /\ UNCHANGED <<pod, expired, phase, trips, incidents>>

\* The pod of a started emergency has precedence until it arrives.
StartEmergency(p) ==
  /\ Resting /\ "emergency" \in scene.incidents /\ incidents < scene.maxIncidents
  /\ pod[p].trip = "passenger" /\ pod[p].emergency = 0
  /\ pod' = [pod EXCEPT ![p].emergency = incidents + 1]
  /\ incidents' = incidents + 1
  /\ UNCHANGED <<owners, debris, expired, phase, trips>>

-----------------------------------------------------------------------------
(* The first stage of a tick: expired debris, and released pods that look  *)
(* for a berth.                                                            *)

PodOrder == [k \in 1..PodCount |-> k]
InPodOrder(step(_, _), st) == FoldLeft(step, st, PodOrder)

\* divertStart: a pod keeps every lane that it has reserved track of, and it
\* cannot divert in a platoon or once it has entered its destination.
KeptLanes(v) == IF v.through = 0 THEN 0 ELSE v.blocks[v.through].at
DivertNode(v) == IF v.through = 0 THEN BerthNode[v.origin] ELSE LaneTo[v.route[KeptLanes(v)]]
CanDivert(ps, p) ==
  /\ ps[p].act \in {"ready", "moving"} /\ ~Linked(ps, p)
  /\ \A k \in 1..KeptLanes(ps[p]) :
       LaneFrom[ps[p].route[k]] # StationEntry[ps[p].station] /\ LaneTo[ps[p].route[k]] # BerthNode[ps[p].dest]

\* nearestFreeBerth: the candidates, and their order.
FreeBerths(ps, os, p) ==
  LET v == ps[p] IN
  {x \in Berths : /\ BoundFor(ps, x) \subseteq {p} /\ ~BerthBlocked(ps, x) /\ AvailableTo(os, p, x)
                  /\ ~(Moving(v) /\ (BerthNode[x] = DivertNode(v) \/ (~v.originReleased /\ x = v.origin)))
                  /\ ~RouteBlocked(ps, RouteToBerth(DivertNode(v), x))}
NearestFreeBerth(ps, os, p) ==
  LET v == ps[p]
      cost(x) == RouteCost(RouteToBerth(DivertNode(v), x))
      rank(x) == IF x = v.dest THEN 0 ELSE IF BerthStation[x] = v.station THEN x ELSE x + Max(Berths)
  IN CHOOSE x \in FreeBerths(ps, os, p) : \A y \in FreeBerths(ps, os, p) :
       cost(x) < cost(y) \/ (cost(x) = cost(y) /\ rank(x) <= rank(y))

\* ParkReleased at the berth x.
ParkAt(st, p, x) ==
  LET v == st.pod[p]
      route == SubSeq(v.route, 1, KeptLanes(v)) \o RouteToBerth(DivertNode(v), x)
      dropped == ReleaseOwned(st.pod, st.owners, p, BerthResources(v.dest))
  IN IF x = v.dest
     THEN [st EXCEPT !.owners = Give(@, p, BerthResources(x))]
     ELSE IF route = <<>>
     THEN [pod |-> [st.pod EXCEPT ![p] = [IdlePod(x) EXCEPT !.emergency = v.emergency]],
           owners |-> Give(dropped, p, BerthResources(x))]
     ELSE [pod |-> [st.pod EXCEPT ![p] = [SetRoute(v, route) EXCEPT !.dest = x, !.station = BerthStation[x],
                                                                   !.pend = 0, !.age = 0]],
           owners |-> Give(dropped, p, BerthResources(x))]

\* parkReleased, with redirect and the claim on the berth.
ParkReleased(st, p) == ParkAt(st, p, NearestFreeBerth(st.pod, st.owners, p))

\* parkUnclaimedReleased.
ParkUnclaimedReleased(st) ==
  InPodOrder(LAMBDA t, p :
    IF /\ t.pod[p].released /\ ~t.pod[p].faulted
       /\ t.owners[BerthSpace(t.pod[p].dest)] # p
       /\ CanDivert(t.pod, p) /\ FreeBerths(t.pod, t.owners, p) # {}
    THEN ParkReleased(t, p) ELSE t, st)

\* The simulation after a stage.
Becomes(st) == pod' = st.pod /\ owners' = st.owners

\* faultStage clears debris whose time is over; its resources stay taken
\* until the end of the tick.
FaultStage ==
  /\ Resting /\ phase' = "dispatch"
  /\ \/ debris' = {} /\ expired' = debris
     \/ debris # {} /\ UNCHANGED <<debris, expired>>
  /\ UNCHANGED <<pod, owners, trips, incidents>>

Dispatch ==
  /\ phase = "dispatch" /\ phase' = "link"
  /\ Becomes(ParkUnclaimedReleased([pod |-> pod, owners |-> owners]))
  /\ UNCHANGED <<debris, expired, trips, incidents>>

-----------------------------------------------------------------------------
(* Platoons.                                                               *)

LaneStart(v, k) == 2 * (v.first[k] - 1)
LaneDistance(v) == v.dist - LaneStart(v, CurrentLane(v))
LaneOf(v) == v.route[CurrentLane(v)]

\* lanePredecessors: the nearest moving pod ahead on the lane of p.
Predecessor(ps, p) ==
  LET later(q, o) == LaneDistance(ps[q]) < LaneDistance(ps[o]) \/ (LaneDistance(ps[q]) = LaneDistance(ps[o]) /\ q > o)
      ahead == {q \in Pods \ {p} : Moving(ps[q]) /\ LaneOf(ps[q]) = LaneOf(ps[p]) /\ later(p, q)}
  IN IF ~Moving(ps[p]) \/ ahead = {} THEN NoPod
     ELSE CHOOSE q \in ahead : \A o \in ahead \ {q} : later(q, o)

\* sharedLane: lane k of v and lane j of its leader can join a run.
SharedLane(v, leader, k, j) ==
  /\ k < Len(v.route) /\ j < Len(leader.route) /\ v.route[k] = leader.route[j]
  /\ LaneRole[v.route[k]] # "access"
  /\ LaneFrom[v.route[k]] \notin {StationEntry[v.station], StationEntry[leader.station]}
  /\ LaneRole[v.route[k]] = "entry" => v.station = leader.station /\ LaneTo[v.route[k]] = StationEntry[v.station]

\* runGeometry and linkEnds.
RunGeometry(v, link) == LaneStart(v, link.lane + link.lanes)
Shareable(v, link, i) ==
  LET bs == v.blocks IN
  \A r \in BlockResources(bs[i]) :
    ReleaseDistance(bs, i, r) < RunGeometry(v, link) /\ r # Node(StationEntry[v.station])
LinkEnd(v, link) ==
  LET first == v.first[link.lane]
      last == RunGeometry(v, link) \div 2
  IN Max({0} \cup {e \in first..last : \A i \in first..e : Shareable(v, link, i)})

\* leaderPosition: as a distance on the route of the follower.
LeaderPosition(v, leader, link) ==
  LET j == Max({link.leaderLane, Min({CurrentLane(leader), link.leaderLane + link.lanes - 1})})
  IN LaneStart(v, link.lane + j - link.leaderLane) + leader.dist - LaneStart(leader, j)

HoldsPending(os, v, p) == \E r \in DOMAIN v.rel : os[r] # p

\* extendLink: grow the run while the follower has reserved into the lane of
\* the end block, or requests past it onto the entry lane.
EntryRequest(v) ==
  LET bs == v.blocks IN
  /\ v.through < Len(bs)
  /\ LET t == ReservationEnd(bs, v.through + 1) IN
       t > v.link.end /\ LaneRole[bs[t].lane] = "entry" /\ LaneTo[bs[t].lane] = StationEntry[v.station]
GrowOnce(v, leader) ==
  LET grown == [v.link EXCEPT !.lanes = @ + 1]
      end == LinkEnd(v, grown)
  IN IF /\ v.link.end > 0
        /\ v.through >= v.first[v.blocks[v.link.end].at] \/ EntryRequest(v)
        /\ SharedLane(v, leader, v.link.lane + v.link.lanes, v.link.leaderLane + v.link.lanes)
     THEN [v EXCEPT !.link = IF end > v.link.end THEN [grown EXCEPT !.end = end, !.draining = FALSE] ELSE grown]
     ELSE v
ExtendLink(v, leader) == FoldLeft(LAMBDA w, k : GrowOnce(w, leader), v, [k \in 1..Len(v.route) |-> k])

\* The end of maintainLink: a link that is over goes, unless the pod still
\* waits in resources of its platoon.
EndLink(ps, os, p, v, over) ==
  [ps EXCEPT ![p] = IF over /\ ~HoldsPending(os, v, p) THEN [v EXCEPT !.link = NoLink] ELSE v]
Drained(v) == [v EXCEPT !.link.draining = @ \/ v.through >= v.link.end]
EndDrained(ps, os, p, leader, v) ==
  EndLink(ps, os, p, v, v.link.draining \/ LeaderPosition(v, leader, v.link) >= RunGeometry(v, v.link) + Clearance)

\* maintainLink: a link that is over ends once its follower owns all that it
\* holds; until then it drains.
MaintainLink(ps, os, p) ==
  LET v == ps[p]
      leader == ps[v.link.leader]
      urgent == v.emergency # 0 \/ leader.emergency # 0
      drained == [v EXCEPT !.link.draining = @ \/ urgent]
  IN IF ~Moving(v) \/ ~Moving(leader) \/ Predecessor(ps, p) \notin {NoPod, v.link.leader}
     THEN EndLink(ps, os, p, drained, TRUE)
     ELSE EndDrained(ps, os, p, leader, Drained(IF urgent THEN drained ELSE ExtendLink(v, leader)))

\* planLink: the run of the lanes that both routes share from the lane of v.
PlanLink(v, leader) ==
  LET k == CurrentLane(v)
      j == CurrentLane(leader)
      lanes == Max({n \in 0..Len(v.route) : \A i \in 0..(n - 1) : SharedLane(v, leader, k + i, j + i)})
      link == [NoLink EXCEPT !.lane = k, !.leaderLane = j, !.lanes = lanes]
  IN IF lanes = 0 THEN link ELSE [link EXCEPT !.end = LinkEnd(v, link)]

PlatoonOf(ps, p) == {p} \cup {q \in Pods : <<p, q>> \in Ahead(ps) \/ <<q, p>> \in Ahead(ps)}

\* tryLink of a slow pod to the pod ahead.
TryLink(ps, p) ==
  LET v == ps[p]
      a == Predecessor(ps, p)
      link == PlanLink(v, ps[a])
  IN IF /\ v.link.leader = NoPod /\ a # NoPod
        /\ ~v.faulted /\ ~ps[a].faulted /\ v.emergency = 0 /\ ps[a].emergency = 0
        /\ Follower(ps, a) = NoPod
        /\ Cardinality(PlatoonOf(ps, p) \cup PlatoonOf(ps, a)) <= PlatoonLimit
        /\ LaneRole[LaneOf(v)] # "entry" /\ link.lanes > 0
        /\ link.end > v.through
        /\ LeaderPosition(v, ps[a], link) - v.dist >= Clearance
        /\ ~RouteBlocked(ps, SubSeq(v.route, link.lane, link.lane + link.lanes - 1))
     THEN [ps EXCEPT ![p].link = [link EXCEPT !.leader = a]]
     ELSE ps

\* formPlatoons; the pods in slow are below the speed at which a pod links,
\* and close enough to the pod ahead.
FormPlatoons(slow) ==
  /\ phase = "link" /\ phase' = "admit"
  /\ LET kept == InPodOrder(LAMBDA ps, p :
                   IF ps[p].link.leader = NoPod THEN ps ELSE MaintainLink(ps, owners, p), pod)
     IN pod' = InPodOrder(LAMBDA ps, p : IF p \in slow THEN TryLink(ps, p) ELSE ps, kept)
  /\ UNCHANGED <<owners, debris, expired, trips, incidents>>

-----------------------------------------------------------------------------
(* Admission.                                                              *)

\* admissionRequest: the next block, unless the reservation reaches far
\* enough or to the end of the route. 0 is no request.
AdmissionRequest(v) ==
  IF \/ v.through = Len(v.blocks)
     \/ v.through > 0 /\ 2 * v.through - v.dist >= Lookahead
  THEN 0 ELSE v.through + 1

\* surrenderWaitingClaims: while an incident is outstanding, a pod that waits
\* gives up the berth that it does not use yet.
IncidentOutstanding(ps) == debris # {} \/ \E p \in Pods : ps[p].faulted \/ ps[p].emergency # 0
AdmissionWaits(ps, os, p) ==
  LET v == ps[p]
      bs == v.blocks
      next == AdmissionRequest(v)
  IN /\ v.act # "idle" /\ next # 0
     /\ \E r \in SpanResources(bs, next, ReservationEnd(bs, next)) : os[r] \notin {NoPod, p}
SurrenderWaitingClaims(ps, os) ==
  IF ~IncidentOutstanding(ps) THEN os
  ELSE InPodOrder(LAMBDA o, p :
         IF ~ps[p].faulted /\ ServiceClaims(ps, o, p) # {} /\ AdmissionWaits(ps, o, p)
         THEN ReleaseOwned(ps, o, p, ServiceClaims(ps, o, p)) ELSE o, os)

\* assignTerminalBerth: a pod chooses its berth when its next reservation
\* starts on the last lane of its road route or reaches the end of it, and
\* with platoons as soon as the last lane is a station entry.
ChoosesBerth(v) ==
  LET bs == v.blocks
      next == v.through + 1
      final == v.route[Len(v.route)]
  IN /\ v.dest = NoBerth /\ Committed(v) /\ next <= Len(bs)
     /\ \/ bs[next].lane = final
        \/ ReservationEnd(bs, next) = Len(bs)
        \/ Platooning /\ LaneRole[final] = "entry"
EarlyChoice(v) ==
  LET bs == v.blocks IN
  bs[v.through + 1].lane # v.route[Len(v.route)] /\ ReservationEnd(bs, v.through + 1) < Len(bs)
AssignTerminalBerth(ps, os, v) ==
  LET x == LeastLoaded(ps, os, v.station) IN
  IF ChoosesBerth(v) /\ StationBerths(ps, v.station) # {}
  THEN [SetRoute(v, v.route \o <<AccessLane[x]>>) EXCEPT !.dest = x, !.pend = 0]
  ELSE v
NoBerthLeft(ps, v) == ChoosesBerth(v) /\ StationBerths(ps, v.station) = {} /\ ~EarlyChoice(v)

\* inLinkRun: lane k of p is in the run of a link of p.
InLinkRun(ps, p, k) ==
  \/ ps[p].link.leader # NoPod /\ k < ps[p].link.lane + ps[p].link.lanes
  \/ LET f == Follower(ps, p) IN f # NoPod /\ k < ps[f].link.leaderLane + ps[f].link.lanes

\* reevaluateTerminalBerth: a pod that is about to reserve its access lane
\* leaves a taken berth for a free one.
ReevaluateTerminalBerth(ps, os, p) ==
  LET v == ps[p]
      bs == v.blocks
      k == Len(v.route)
      free == {x \in StationBerths(ps, v.station) : AvailableFor(ps, os, p, x)}
  IN IF /\ v.dest # NoBerth /\ Committed(v) /\ v.through < Len(bs)
        /\ v.through < v.first[k] /\ v.first[k] <= ReservationEnd(bs, v.through + 1)
        /\ ~AvailableFor(ps, os, p, v.dest) /\ ~InLinkRun(ps, p, k) /\ free # {}
     THEN [SetRoute(v, [v.route EXCEPT ![k] = AccessLane[Min(free)]]) EXCEPT !.dest = Min(free), !.pend = 0]
     ELSE v

\* What a pod asks for, and how long it has asked for the same.
Asking(v) ==
  LET next == AdmissionRequest(v) IN
  IF next = 0 THEN v ELSE [v EXCEPT !.pend = next, !.age = IF v.pend = next THEN @ + 1 ELSE 0]

\* The request of each pod, and how long it has waited.
Request(ps, os, p) ==
  LET chosen == [ps EXCEPT ![p] = AssignTerminalBerth(ps, os, @)]
  IN IF ps[p].faulted \/ ps[p].act = "idle" \/ NoBerthLeft(ps, ps[p]) THEN ps
     ELSE [ps EXCEPT ![p] = Asking(ReevaluateTerminalBerth(chosen, os, p))]

Requests(ps, p) ==
  /\ ps[p].act # "idle" /\ ~ps[p].faulted /\ ~NoBerthLeft(ps, ps[p])
  /\ AdmissionRequest(ps[p]) # 0

\* Only the order of the ages at or over the limit matters.
BoundAges(ps) ==
  LET aged == {ps[p].age : p \in Pods} \ (0..(AdmissionAge - 1)) IN
  IF aged = {} THEN ps ELSE [p \in Pods |-> [ps[p] EXCEPT !.age = IF @ < AdmissionAge THEN @
                                        ELSE AdmissionAge + Cardinality({a \in aged : a < ps[p].age})]]

\* compareAdmission.
AdmissionPriority(v) ==
  CASE v.trip = "passenger" -> 0 [] v.trip = "pickup" /\ ~v.released -> 1 [] OTHER -> 2
AgedFirst(v) == IF v.age >= AdmissionAge THEN 0 ELSE 1
Before(ps, p, q) ==
  LET v == ps[p]
      w == ps[q]
      byAge == v.age > w.age \/ (v.age = w.age /\ p < q)
  IN CASE v.emergency # 0 /\ w.emergency # 0 -> v.emergency < w.emergency
       [] v.emergency # 0 \/ w.emergency # 0 -> v.emergency # 0
       [] AgedFirst(v) # AgedFirst(w) -> AgedFirst(v) = 0
       [] AgedFirst(v) = 0 -> byAge
       [] OTHER -> AdmissionPriority(v) < AdmissionPriority(w)
                     \/ (AdmissionPriority(v) = AdmissionPriority(w) /\ byAge)

\* linkedSpan: the predecessor has reserved the same blocks of the run.
LinkedSpan(ps, v, from, through) ==
  LET leader == ps[v.link.leader]
      bs == v.blocks
      k == bs[through].at
  IN /\ Platooning /\ v.link.leader # NoPod /\ ~v.link.draining /\ through <= v.link.end
     /\ from >= v.first[v.link.lane] /\ Moving(leader)
     /\ leader.first[k - v.link.lane + v.link.leaderLane] + through - v.first[k]
          <= leader.through

\* returnsToShared.
ReturnsToShared(ps, p, span) ==
  LET ahead == Ahead(ps) IN
  \E r \in span : Retains(ps[p], r) /\ \E q \in Pods : <<q, p>> \in ahead /\ Retains(ps[q], r)

\* The resources that refuse a request.
Refusals(st, p, span, linked) ==
  LET ahead == Ahead(st.pod) IN
  {r \in span : /\ st.owners[r] \notin {NoPod, p}
                /\ ~linked \/ r[1] = "berth" \/ <<p, st.owners[r]>> \notin ahead}

\* The order of the resources of a cell.
KindOrder(r) == CASE r[1] = "berth" -> 1 [] r[1] = "node" -> 2 [] r[1] = "junction" -> 3 [] OTHER -> 4

\* The pod that holds the berth that refuses the request, if the first
\* resource that refuses it is a berth.
BerthHolder(st, bs, from, refused) ==
  LET first == Min({i \in from..Len(bs) : BlockResources(bs[i]) \cap refused # {}})
      rs == BlockResources(bs[first]) \cap refused
      least == CHOOSE r \in rs : \A o \in rs : KindOrder(r) <= KindOrder(o)
  IN IF least[1] = "berth" THEN st.owners[least] ELSE NoPod

\* grant.
Grant(st, p) ==
  LET v == st.pod[p]
      bs == v.blocks
      from == AdmissionRequest(v)
      through == ReservationEnd(bs, from)
      span == SpanResources(bs, from, through)
      linked == LinkedSpan(st.pod, v, from, through)
      refused == Refusals(st, p, span, linked)
      kept(r) == Max({ReleaseDistance(bs, i, r) : i \in {i \in from..through : r \in BlockResources(bs[i])}}
                       \cup {v.rel[q] : q \in {r} \cap DOMAIN v.rel})
      rel == [r \in DOMAIN v.rel \cup span |-> IF r \in span THEN kept(r) ELSE v.rel[r]]
  IN CASE \/ v.link.leader # NoPod /\ ~linked /\ HoldsPending(st.owners, v, p)
          \/ ReturnsToShared(st.pod, p, span) -> st
       [] refused # {} -> [st EXCEPT !.wait[p] = BerthHolder(st, bs, from, refused)]
       [] OTHER -> [st EXCEPT !.pod[p].through = through, !.pod[p].rel = rel, !.pod[p].pend = 0, !.pod[p].age = 0,
                              !.owners = Give(@, p, {r \in span : ~linked \/ @[r] = NoPod})]

\* clearToPassengerBerth: the first berth that an idle pod can go to.
ClearingBerths(ps, os, p) ==
  LET other == {x \in Berths \ {ps[p].berth} : CanReserve(ps, os, p, x)}
      unbound == {x \in other : BoundFor(ps, x) = {}}
      local(xs) == {x \in xs : BerthStation[x] = ps[p].station}
  IN IF local(unbound) # {} THEN local(unbound) ELSE IF unbound # {} THEN unbound
     ELSE IF local(other) # {} THEN local(other) ELSE other

\* Mutant: an idle pod stays in the berth that others wait for.
ClearNoBerth(st, p) == st

\* clearBlockedBerths: an idle pod that stands in the berth of a waiting pod
\* leaves it.
ClearBlockedBerth(st, p) ==
  LET v == st.pod[p]
      b == st.wait[p]
      bs == v.blocks
  IN IF /\ b \in Pods /\ st.pod[b].act = "idle" /\ ~st.pod[b].faulted
        /\ BerthSpace(st.pod[b].berth) \in SpanResources(bs, v.through + 1, Len(bs))
        /\ ClearingBerths(st.pod, st.owners, b) # {}
     THEN LET x == Min(ClearingBerths(st.pod, st.owners, b)) IN
          [st EXCEPT !.pod = StartEmptyMove(st.pod, b, x), !.owners = Give(@, b, BerthResources(x))]
     ELSE st

\* The grants in the order of priority, and the berths that are cleared.
Admitted(asked, os) ==
  LET order == SetToSortSeq({p \in Pods : Requests(asked, p)}, LAMBDA p, q : Before(asked, p, q))
      st == [pod |-> asked, owners |-> os, wait |-> [p \in Pods |-> NoPod]]
  IN InPodOrder(ClearBlockedBerth, FoldLeft(Grant, st, order))

Admit ==
  /\ phase = "admit" /\ phase' = "move"
  /\ LET os == SurrenderWaitingClaims(pod, owners)
     IN Becomes(Admitted(BoundAges(InPodOrder(LAMBDA ps, p : Request(ps, os, p), pod)), os))
  /\ UNCHANGED <<debris, expired, trips, incidents>>

-----------------------------------------------------------------------------
(* Movement and release.                                                   *)

\* Mutant: a follower may move up to its predecessor.
PlatoonCapTouching(ps, p) ==
  LET v == ps[p] IN
  IF v.link.leader # NoPod /\ Moving(ps[v.link.leader])
  THEN LeaderPosition(v, ps[v.link.leader], v.link) ELSE 2 * v.through

\* platoonCaps: a follower stops behind its predecessor.
PlatoonCap(ps, p) ==
  LET v == ps[p] IN
  IF v.link.leader # NoPod /\ Moving(ps[v.link.leader])
  THEN LeaderPosition(v, ps[v.link.leader], v.link) - Clearance ELSE 2 * v.through

Limit(ps, p) == Min({2 * ps[p].through, PlatoonCap(ps, p)} \cup {c \in {ps[p].cap} : ps[p].faulted})

CanMove(ps, p) == Moving(ps[p]) /\ ps[p].dist < Limit(ps, p)

\* arrive.
Arrive(v) == [IdlePod(v.dest) EXCEPT !.rel = v.rel, !.link = v.link, !.faulted = v.faulted]

Travel(v) ==
  IF v.dist + 1 = 2 * Len(v.blocks) /\ v.dest # NoBerth THEN Arrive(v) ELSE [v EXCEPT !.dist = @ + 1]

\* Pods with a reservation depart; pods on their way move within their limit,
\* all from the positions before the movement.
Move(going) ==
  /\ phase = "move" /\ phase' = "release"
  /\ scene.steady => going = {p \in Pods : CanMove(pod, p)}
  /\ pod' = [p \in Pods |->
       CASE pod[p].act = "ready" /\ pod[p].through > 0 /\ ~pod[p].faulted -> [pod[p] EXCEPT !.act = "moving"]
         [] p \in going /\ CanMove(pod, p) -> Travel(pod[p])
         [] OTHER -> pod[p]]
  /\ UNCHANGED <<owners, debris, expired, trips, incidents>>

\* releaseVehicleResources: a pod at rest keeps only its berth; a moving pod
\* gives back what it has passed, and its origin once its tail is out.
ReleaseVehicle(st, p) ==
  LET v == st.pod[p]
      ahead == Ahead(st.pod)
      lost == {r \in DOMAIN v.rel : st.owners[r] # p /\ <<p, st.owners[r]>> \notin ahead}
      passed == {r \in DOMAIN v.rel : v.rel[r] <= v.dist}
      leaves == ~v.originReleased /\ v.dist >= Clearance
      origin == {r \in BerthResources(v.origin) : r \notin DOMAIN v.rel \/ v.rel[r] <= v.dist}
      freed == IF Moving(v) THEN (passed \ lost) \cup (IF leaves THEN origin ELSE {})
               ELSE DOMAIN v.rel \ BerthResources(v.berth)
  IN IF ~Moving(v) /\ v.rel = <<>> THEN st
     ELSE [pod |-> [st.pod EXCEPT ![p].rel = [r \in IF Moving(v) THEN DOMAIN v.rel \ (lost \cup passed) ELSE {} |-> v.rel[r]],
                                  ![p].originReleased = IF Moving(v) THEN @ \/ leaves ELSE @],
           owners |-> ReleaseOwned(st.pod, st.owners, p, freed)]

\* releaseCleared, and releaseFaultResources at the end of the tick.
ReleaseCleared ==
  /\ phase = "release" /\ phase' = "rest"
  /\ LET st == InPodOrder(ReleaseVehicle, [pod |-> pod, owners |-> owners]) IN
       pod' = st.pod /\ owners' = Give(st.owners, NoPod, expired)
  /\ expired' = {}
  /\ UNCHANGED <<debris, trips, incidents>>

TrafficOrder ==
  \/ \E p \in Pods, s \in Stations : StartPassenger(p, s)
  \/ \E p \in Pods, s \in Stations : StartPickup(p, s)
  \/ \E p \in Pods, x \in Berths : StartParking(p, x)
  \/ \E p \in Pods : ReleasePickup(p)
  \/ \E p \in Pods, stop \in 0..1 : StartFault(p, stop)
  \/ \E p \in Pods : ClearFault(p)
  \/ \E l \in Lanes : \E c \in 1..Cells[l] : StartDebris(l, c)
  \/ ClearDebris
  \/ \E p \in Pods : StartEmergency(p)

CanLinkPods == IF Platooning /\ phase = "link" THEN {p \in Pods : pod[p].link.leader = NoPod /\ Predecessor(pod, p) # NoPod} ELSE {}

TrafficStep ==
  \/ FaultStage
  \/ Dispatch
  \/ \E slow \in SUBSET CanLinkPods : FormPlatoons(slow)
  \/ Admit
  \/ \E going \in SUBSET {p \in Pods : phase = "move" /\ CanMove(pod, p)} : Move(going)
  \/ ReleaseCleared

TrafficNext == (TrafficOrder \/ TrafficStep) /\ UNCHANGED scene

\* The clock runs Step again and again: a stage of it is always enabled, so
\* this is weak fairness of TrafficStep.
TrafficSpec == TrafficInit /\ [][TrafficNext]_trafficVars /\ []<><<phase' # phase>>_phase

-----------------------------------------------------------------------------
(* Properties.                                                             *)

\* retainedOwners: the owners that the positions, reservations and claims of
\* the pods require. Of the pods that hold a resource the first of their
\* platoon owns it.
Held(v) ==
  LET bs == v.blocks IN
  IF Moving(v)
  THEN UNION {{r \in BlockResources(bs[i]) : ReleaseDistance(bs, i, r) > v.dist} : i \in 1..v.through}
         \cup (IF v.dist < Clearance THEN BerthResources(v.origin) ELSE {})
  ELSE BerthResources(v.berth)
OwnersAgree(ps, os, db) ==
  LET ahead == Ahead(ps)
      held == UNION {Held(ps[p]) : p \in Pods}
      claimed(r) == os[r] \in Pods /\ Relocating(ps[os[r]]) /\ r \in BerthResources(ps[os[r]].dest)
  IN /\ \A p \in Pods : \A r \in Held(ps[p]) :
          \/ os[r] = p
          \/ <<p, os[r]>> \in ahead /\ r \in Held(ps[os[r]])
     /\ \A r \in Resources \ held : claimed(r) \/ os[r] = IF r \in db THEN Debris ELSE NoPod

\* After each step the owners that Step keeps up to date are exactly those
\* that the retention rules give: no reservation leaks and none is lost, and
\* only pods of one platoon hold a resource together.
OwnersExact == phase = "rest" => OwnersAgree(pod, owners, debris)

\* Where the body of a pod is: the nodes it is near and how far from them.
NodeGap(v, n) ==
  LET l == LaneOf(v) IN
  IF ~Moving(v) THEN IF BerthNode[v.berth] = n THEN 0 ELSE Clearance
  ELSE Min({Clearance} \cup {d \in {LaneDistance(v)} : LaneFrom[l] = n}
                       \cup {d \in {2 * Cells[l] - LaneDistance(v)} : LaneTo[l] = n})
InJunction(v, z) ==
  Moving(v) /\ v.dist % 2 = 1 /\ LET bk == v.blocks[(v.dist + 1) \div 2] IN <<bk.lane, bk.cell>> \in z

\* SafetyObservation.Check of two pods.
TooClose(ps, p, q) ==
  LET lane(v) == IF Moving(v) THEN LaneOf(v) ELSE "none"
      ends(v) == IF Moving(v) THEN {LaneFrom[LaneOf(v)], LaneTo[LaneOf(v)]} ELSE {BerthNode[v.berth]}
      same == lane(ps[p]) = lane(ps[q])
  IN \/ same /\ Moving(ps[p]) /\ LaneDistance(ps[p]) - LaneDistance(ps[q]) \in (1 - Clearance)..(Clearance - 1)
     \/ \E n \in ends(ps[p]) \cap ends(ps[q]) : NodeGap(ps[p], n) + NodeGap(ps[q], n) < Clearance
     \/ ~same /\ \E z \in Junctions : InJunction(ps[p], z) /\ InJunction(ps[q], z)

\* Two pods are Clearance apart on one lane and around every node, and no two
\* are in one conflict zone on different lanes.
Separation == \A p, q \in Pods : p < q => ~TooClose(pod, p, q)

\* No platoon is over the limit or closes on itself, and the follower of a
\* link stays behind its predecessor while they travel.
PlatoonsSound ==
  LET ahead == Ahead(pod) IN
  \A p \in Pods :
    LET q == pod[p].link.leader IN
    q # NoPod =>
      /\ <<p, p>> \notin ahead
      /\ Cardinality(PlatoonOf(pod, p)) <= PlatoonLimit
      /\ \A o \in Pods \ {p} : pod[o].link.leader # q
      /\ Moving(pod[p]) /\ Moving(pod[q]) => pod[p].dist + Clearance <= LeaderPosition(pod[p], pod[q], pod[p].link)

\* Pods that reserve cells, junctions and berths in different orders never
\* wait for each other for ever: when no incident happens and no pod rests on
\* the way, every pod that leaves reaches a berth.
EveryPodArrives ==
  \A p \in Pods :
    (scene.steady /\ scene.incidents = {} /\ pod[p].act # "idle") ~> (pod[p].act = "idle")
=============================================================================
