--------------------------- MODULE TrafficRestore ---------------------------
(***************************************************************************)
(* A restart of the simulation between two ticks: ExportState writes the   *)
(* pods with the part of their routes that can still hold a resource, and  *)
(* RestoreState builds a simulation at rest from that.  The physical tier  *)
(* puts every pod where it was and derives the reservations again; a pod   *)
(* that cannot keep its place is demoted to a berth.  When the tier fails, *)
(* the logical tier puts every pod at its initial berth.                   *)
(***************************************************************************)
EXTENDS Traffic

VARIABLES restarts   \* how often the server has restarted, at most scene.restarts

restoreVars == <<trafficVars, restarts>>

ASSUME RestoreAssumption == \A scn \in Scenes : scn.restarts \in Nat /\ scn.budget \in Nat /\ scn.recorded \in BOOLEAN

-----------------------------------------------------------------------------
(* ExportState.                                                            *)

\* savedRouteStart: the first lane that holds a resource of the pod.
RouteStart(v) ==
  Min({CurrentLane(v)}
        \cup {k \in 1..CurrentLane(v) : v.first[k + 1] - 1 <= BlockIndex(v) /\ LaneStart(v, k + 1) + Clearance > v.dist})

\* originSavedStart.
OriginStart(v, start) == Max({k \in 1..start : k = 1 \/ v.dist - LaneStart(v, k) >= Clearance})

\* savedRun: the lanes of the run of p that its saved route does not hold,
\* and whether a link is left to save.
SkippedLanes(ps, p, start) == Max({0, start - ps[p].link.lane})
HasSavedLink(ps, p, start) ==
  LET leader == ps[p].link.leader IN
  leader # NoPod /\ Moving(ps[leader]) /\ SkippedLanes(ps, p, start) < ps[p].link.lanes

\* Mutant: a predecessor saves only what it needs itself.
SavedStartAlone(ps, p) == OriginStart(ps[p], RouteStart(ps[p]))

\* savedStart: a predecessor keeps the lanes of the saved run of its follower.
RECURSIVE SavedStart(_, _)
SavedStart(ps, p) ==
  LET own == OriginStart(ps[p], RouteStart(ps[p]))
      f == Follower(ps, p)
      run == IF f = NoPod \/ ~Moving(ps[f]) THEN {}
             ELSE {k \in {ps[f].link.leaderLane + SkippedLanes(ps, f, SavedStart(ps, f))} :
                     HasSavedLink(ps, f, SavedStart(ps, f))}
  IN Min({own} \cup run)

\* savedLink.
SavedLink(ps, p) ==
  LET link == ps[p].link
      start == SavedStart(ps, p)
      skip == SkippedLanes(ps, p, start)
  IN IF ~HasSavedLink(ps, p, start) THEN NoLink
     ELSE [link EXCEPT !.lane = @ + skip - start + 1, !.leaderLane = @ + skip - SavedStart(ps, link.leader) + 1,
                       !.lanes = @ - skip, !.end = 0, !.draining = @ \/ ps[p].through >= link.end]

\* exportPod.
ExportPod(ps, os, p) ==
  LET v == ps[p]
      start == IF Moving(v) THEN SavedStart(ps, p) ELSE 1
  IN [act |-> v.act, berth |-> v.berth, trip |-> v.trip, released |-> v.released, emergency |-> v.emergency,
      faulted |-> v.faulted, origin |-> v.origin, dest |-> v.dest, station |-> v.station,
      route |-> IF v.act = "idle" THEN <<>> ELSE SubSeq(v.route, start, Len(v.route)),
      lane |-> IF Moving(v) THEN CurrentLane(v) - start + 1 ELSE 0,
      laneDist |-> IF Moving(v) THEN LaneDistance(v) ELSE 0,
      claims |-> Relocating(v) /\ os[BerthSpace(v.dest)] = p,
      waiting |-> v.pend > 0, age |-> v.age,
      link |-> IF Moving(v) THEN SavedLink(ps, p) ELSE NoLink]

ExportState == [p \in Pods |-> ExportPod(pod, owners, p)]

-----------------------------------------------------------------------------
(* The parts of restorePhysical.  r.pod and r.owners are the restored      *)
(* simulation, r.cost the blocks of the routes, and r.failed says that the *)
(* tier is over.                                                           *)

RouteBlockCount(route) == RouteCost(route)

\* demote: with the pods behind it in its platoon.
RECURSIVE Demote(_, _)
Demote(r, p) ==
  LET f == Follower(r.pod, p)
      t == IF f = NoPod THEN r ELSE Demote(r, f)
  IN [t EXCEPT !.demoted = @ \cup {p}, !.cost = @ - RouteBlockCount(t.pod[p].route),
               !.pod[p] = [SetRoute(@, <<>>) EXCEPT !.link = NoLink, !.rel = <<>>],
               !.owners = [x \in Resources |-> IF @[x] = p THEN NoPod ELSE @[x]]]

\* decodePod, with the route that checkRoutes and buildRoute accept.
DecodePod(s) ==
  [SetRoute(IdlePod(1), s.route) EXCEPT
     !.act = s.act, !.berth = s.berth, !.trip = s.trip, !.released = s.released /\ s.trip = "pickup",
     !.emergency = s.emergency, !.origin = s.origin, !.originReleased = s.act = "idle", !.dest = s.dest, !.station = s.station]

\* newPhysicalRestore, decodePods, checkRoutes and buildRoutes, with the
\* debris in place (placeDebris).
Decoded(saved) ==
  [pod |-> [p \in Pods |-> DecodePod(saved[p])],
   owners |-> [x \in Resources |-> IF x \in debris THEN Debris ELSE NoPod],
   cost |-> FoldLeft(LAMBDA n, p : n + RouteBlockCount(saved[p].route), 0, PodOrder),
   demoted |-> {}, failed |-> FALSE]

\* limitWork: the pods with the longest routes go first. scene.budget is the
\* block budget, 0 for one that every saved state fits.
LimitWork(r) ==
  LET cost(p) == RouteBlockCount(r.pod[p].route)
      order == SetToSortSeq({p \in Pods : cost(p) > 0}, LAMBDA p, q : cost(p) > cost(q) \/ (cost(p) = cost(q) /\ p < q))
  IN IF scene.budget = 0 THEN r
     ELSE FoldLeft(LAMBDA t, p : IF t.cost <= scene.budget THEN t ELSE Demote(t, p), r, order)

\* checkSavedLink: the run is on both routes, before the last lane of each.
LinkOnRoutes(r, saved, p) ==
  LET link == saved[p].link
      v == r.pod[p]
      leader == r.pod[link.leader]
      stations == {v.station, leader.station}
  IN \/ v.route = <<>> \/ leader.route = <<>>
     \/ /\ link.lane >= 1 /\ link.leaderLane >= 1 /\ link.lanes >= 1
        /\ link.lane + link.lanes <= Len(v.route) /\ link.leaderLane + link.lanes <= Len(leader.route)
        /\ \A k \in 0..(link.lanes - 1) :
             LET l == v.route[link.lane + k] IN
             /\ l = leader.route[link.leaderLane + k] /\ LaneRole[l] # "access"
             /\ LaneFrom[l] \notin {StationEntry[s] : s \in stations}
             /\ LaneRole[l] = "entry" => \A s \in stations : LaneTo[l] = StationEntry[s]

\* linkDepth: the pods from p to the front of its saved platoon.
RECURSIVE LinkDepth(_, _)
LinkDepth(saved, p) == IF saved[p].link.leader = NoPod THEN 1 ELSE 1 + LinkDepth(saved, saved[p].link.leader)

\* checkLinks, without the checks that no exported state can fail.
CheckLinks(r, saved) ==
  LET linked == {p \in Pods : saved[p].link.leader # NoPod} IN
  [r EXCEPT !.failed = @ \/ \E p \in linked :
     \/ saved[p].act # "moving" \/ saved[saved[p].link.leader].act # "moving"
     \/ \E q \in linked \ {p} : saved[q].link.leader = saved[p].link.leader
     \/ LinkDepth(saved, p) > PlatoonLimit
     \/ ~LinkOnRoutes(r, saved, p)]

\* claimBerths.
ClaimBerth(saved, r, p) ==
  LET v == r.pod[p] IN
  IF v.act = "moving" THEN r
  ELSE [r EXCEPT !.failed = @ \/ \E x \in BerthResources(v.berth) : r.owners[x] # NoPod,
                 !.owners = Give(@, p, BerthResources(v.berth)),
                 !.pod[p].pend = IF saved[p].waiting /\ v.act = "ready" /\ p \notin r.demoted THEN 1 ELSE 0,
                 !.pod[p].age = saved[p].age]

\* footprint: what a traveling pod holds that has reserved up to through.
Footprint(v, through) ==
  UNION {{x \in BlockResources(v.blocks[i]) : ReleaseDistance(v.blocks, i, x) > v.dist} : i \in 1..through}
    \cup (IF v.dist < Clearance THEN BerthResources(v.origin) ELSE {})

\* linkClaims.
LinkClaims(r, v, link, through) ==
  LET leader == r.pod[link.leader]
      ahead == Ahead(r.pod)
      met == {<<i, x>> \in (1..through) \X Resources :
                x \in BlockResources(v.blocks[i]) /\ r.owners[x] # NoPod /\ ReleaseDistance(v.blocks, i, x) > v.dist}
      k == v.blocks[through].at
  IN /\ \A m \in met : /\ m[1] >= v.first[link.lane] /\ m[2][1] # "berth"
                       /\ r.owners[m[2]] = link.leader \/ <<link.leader, r.owners[m[2]]>> \in ahead
     /\ met # {} => /\ through <= link.end
                    /\ leader.first[k - link.lane + link.leaderLane] + through - v.first[k] <= leader.through

\* placeTravelingPod: the reservation that the position needs.
RestoredThrough(v, current) == ReservationEnd(v.blocks, current)

PlaceTraveling(saved, r, p) ==
  LET s == saved[p]
      v == [r.pod[p] EXCEPT !.dist = LaneStart(r.pod[p], s.lane) + s.laneDist]
      last == v.first[s.lane + 1] - 1
      current == Min({last} \cup {i \in v.first[s.lane]..last : 2 * i >= v.dist})
      through == RestoredThrough(v, current)
      linked == s.link.leader # NoPod /\ s.link.leader \notin r.demoted
      link == IF linked THEN [s.link EXCEPT !.end = LinkEnd(v, s.link)] ELSE NoLink
      footprint == Footprint(v, through)
      rel == [x \in {x \in SpanResources(v.blocks, 1, through) :
                       \E i \in 1..through : x \in BlockResources(v.blocks[i]) /\ ReleaseDistance(v.blocks, i, x) > v.dist} |->
                Max({ReleaseDistance(v.blocks, i, x) : i \in {i \in 1..through : x \in BlockResources(v.blocks[i])}})]
      waits == s.waiting /\ through < Len(v.blocks)
  IN CASE p \in r.demoted -> r
       [] \/ v.dist < Clearance /\ LaneFrom[v.route[1]] # BerthNode[v.origin]
          \/ v.dest = NoBerth /\ through >= v.first[Len(v.route)] -> Demote(r, p)
       [] \/ \E x \in footprint : r.owners[x] = Debris
          \/ linked /\ LeaderPosition(v, r.pod[link.leader], link) - v.dist < Clearance -> [r EXCEPT !.failed = TRUE]
       [] IF linked THEN ~LinkClaims(r, v, link, through) ELSE \E x \in footprint : r.owners[x] # NoPod -> Demote(r, p)
       [] OTHER ->
            [r EXCEPT !.owners = [x \in Resources |-> IF x \in footprint /\ @[x] = NoPod THEN p ELSE @[x]],
                      !.pod[p] = [v EXCEPT !.through = through, !.rel = rel, !.link = link,
                                           !.originReleased = v.dist >= Clearance,
                                           !.pend = IF waits THEN through + 1 ELSE 0,
                                           !.age = IF waits THEN s.age ELSE 0]]

\* placeTraveling: each predecessor before its follower.
PlacedTraveling(saved, r) ==
  LET before(p, q) == LinkDepth(saved, p) < LinkDepth(saved, q) \/ (LinkDepth(saved, p) = LinkDepth(saved, q) /\ p < q)
  IN IF r.failed THEN r
     ELSE FoldLeft(LAMBDA t, p : PlaceTraveling(saved, t, p), r,
                   SetToSortSeq({p \in Pods : saved[p].act = "moving"}, before))

\* claimDestinations.
ClaimDestination(saved, r, p) ==
  IF p \notin r.demoted /\ saved[p].claims /\ AvailableTo(r.owners, p, r.pod[p].dest)
  THEN [r EXCEPT !.owners = Give(@, p, BerthResources(r.pod[p].dest))] ELSE r

\* separate: of two pods that are too close, the later traveling one moves.
Placed(r) == {p \in Pods : p \notin r.demoted \/ r.pod[p].act # "moving"}
RECURSIVE Separate(_)
Separate(r) ==
  LET close == {pq \in Placed(r) \X Placed(r) : pq[1] < pq[2] /\ TooClose(r.pod, pq[1], pq[2])}
      pair == CHOOSE pq \in close : \A o \in close : pq[1] < o[1] \/ (pq[1] = o[1] /\ pq[2] <= o[2])
      traveling == {p \in {pair[1], pair[2]} : Moving(r.pod[p])}
  IN IF close = {} THEN r
     ELSE IF traveling = {} THEN [r EXCEPT !.failed = TRUE]
     ELSE Separate(Demote(r, Max(traveling)))

\* restoreFaultedPods and restoreEmergencies: no demotion ends a record.
RestoreRecords(saved, r) ==
  LET faulted == {p \in Pods : saved[p].faulted}
      held(ps, p) == [ps EXCEPT ![p].faulted = TRUE, ![p].pend = 0, ![p].age = 0, ![p].cap = IF Moving(ps[p]) THEN ps[p].dist ELSE 0]
      ps == FoldLeft(LAMBDA qs, p : IF p \in faulted THEN held(qs, p) ELSE qs, r.pod, PodOrder)
  IN [r EXCEPT !.failed = @ \/ \E p \in r.demoted : p \in faulted \/ saved[p].emergency # 0,
               !.pod = ps,
               !.owners = InPodOrder(LAMBDA os, p :
                            IF p \in faulted THEN ReleaseOwned(ps, os, p, ServiceClaims(ps, os, p)) ELSE os, @)]

\* moveTo.
MoveTo(r, p, v, x) ==
  [r EXCEPT !.pod[p] = v,
            !.owners = [y \in Resources |-> IF y \in BerthResources(x) THEN p ELSE IF @[y] = p THEN NoPod ELSE @[y]]]

\* freeBerth: the first candidate that no other pod holds, or NoBerth.
FreeBerth(r, p, candidates) ==
  FoldLeft(LAMBDA found, x : IF found = NoBerth /\ x # NoBerth /\ AvailableTo(r.owners, p, x) THEN x ELSE found,
           NoBerth, candidates)
BerthOrder(xs) == SetToSortSeq(xs, LAMBDA x, y : x < y)
AtStation(s) == BerthOrder({x \in Berths : BerthStation[x] = s})

\* boardAgain.
BoardAgain(r, p, x) == Leave(IdlePod(x), "passenger", r.pod[p].station, NoBerth, RoadTo[BerthNode[x]][r.pod[p].station])
CanBoardAgain(r, p, x) ==
  LET route == RoadTo[BerthNode[x]][r.pod[p].station] IN
  /\ r.pod[p].trip = "passenger" /\ x # NoBerth /\ ~RouteBlocked(r.pod, route)
  /\ scene.budget = 0 \/ r.cost + RouteBlockCount(route) <= scene.budget

\* placeDemoted: riders whose boarding is not recorded board again at their
\* origin station, and all others go back to the queue.
PlaceDemoted(r, p) ==
  LET v == r.pod[p]
      again == FreeBerth(r, p, AtStation(BerthStation[v.origin]))
      empty == FreeBerth(r, p, <<v.dest, v.origin>> \o AtStation(v.station) \o BerthOrder(Berths))
  IN CASE p \notin r.demoted -> r
       [] ~scene.recorded /\ CanBoardAgain(r, p, again) ->
            [MoveTo(r, p, BoardAgain(r, p, again), again) EXCEPT !.cost = @ + RouteBlockCount(BoardAgain(r, p, again).route)]
       [] empty # NoBerth -> MoveTo(r, p, IdlePod(empty), empty)
       [] OTHER -> [r EXCEPT !.failed = TRUE]

\* verifyRestore.
Verified(r) ==
  [r EXCEPT !.failed = @ \/ (\E p, q \in Pods : p < q /\ TooClose(r.pod, p, q)) \/ ~OwnersAgree(r.pod, r.owners, debris)]

\* restorePhysical. A step that fails ends it.
BerthsClaimed(saved, r) == IF r.failed THEN r ELSE InPodOrder(LAMBDA t, p : ClaimBerth(saved, t, p), r)

\* restorePhysical, from claimDestinations to the end.
Settled(saved, r) ==
  IF r.failed THEN r
  ELSE LET claimed == InPodOrder(LAMBDA t, p : ClaimDestination(saved, t, p), r)
       IN Verified(InPodOrder(PlaceDemoted, RestoreRecords(saved, Separate(claimed))))

PhysicalRestore(saved) ==
  Settled(saved, PlacedTraveling(saved, BerthsClaimed(saved, CheckLinks(LimitWork(Decoded(saved)), saved))))

\* checkSavedFaults (F2) and checkSavedFaultFootprints (F6): a save that
\* breaks these rules is refused before either tier.
SavedFaultsHold(saved) ==
  \A p \in {p \in Pods : saved[p].faulted} :
    /\ saved[p].link.leader = NoPod /\ \A q \in Pods : saved[q].link.leader # p
    /\ saved[p].act = "moving" => ~PlaceTraveling(saved, Decoded(saved), p).failed

\* restoreLogical, or the fresh fleet after a refused save: every pod is idle
\* at its initial berth, and no record of an incident is left.
LogicalRestore ==
  /\ pod' = [p \in Pods |-> IdlePod(StartBerth[p])]
  /\ owners' = [x \in Resources |->
       IF \E p \in Pods : x \in BerthResources(StartBerth[p])
       THEN CHOOSE p \in Pods : x \in BerthResources(StartBerth[p]) ELSE NoPod]
  /\ debris' = {}

\* RestoreState: the physical tier, or the logical one.
Restored(saved, r) ==
  IF SavedFaultsHold(saved) /\ ~r.failed
  THEN pod' = BoundAges(r.pod) /\ owners' = r.owners /\ UNCHANGED debris
  ELSE LogicalRestore

RestoreFrom(saved) == Restored(saved, PhysicalRestore(saved))

\* A restart from a save between two ticks.
Restart ==
  /\ Resting /\ restarts < scene.restarts
  /\ restarts' = restarts + 1
  /\ RestoreFrom(ExportState)
  /\ UNCHANGED <<scene, expired, phase, trips, incidents>>

RestoreInit == TrafficInit /\ restarts = 0

RestoreNext ==
  \/ TrafficNext /\ UNCHANGED restarts
  \/ Restart

RestoreSpec == RestoreInit /\ [][RestoreNext]_restoreVars /\ []<><<phase' # phase>>_phase

-----------------------------------------------------------------------------
(* Properties.                                                             *)

\* Where a pod is: its berth, or its lane and the distance on it.
Place(v) == IF Moving(v) THEN <<LaneOf(v), LaneDistance(v)>> ELSE <<v.act, v.berth>>

\* ExportState and restorePhysical: whatever two pods share at the moment of
\* a save, a restart within the block budget keeps every pod at its place,
\* on its trip and, while the platoon still shares lanes, behind its
\* predecessor, and it keeps the debris.
RestartKeepsPods ==
  [][(restarts' # restarts /\ scene.budget = 0) =>
       /\ debris' = debris
       /\ \A p \in Pods :
            /\ Place(pod'[p]) = Place(pod[p])
            /\ pod'[p].trip = pod[p].trip /\ pod'[p].released = pod[p].released
            /\ pod'[p].faulted = pod[p].faulted /\ pod'[p].emergency = pod[p].emergency
            /\ pod'[p].link.leader \in {pod[p].link.leader} \cup {q \in {NoPod} : ~HasSavedLink(pod, p, SavedStart(pod, p))}
    ]_restoreVars
=============================================================================
