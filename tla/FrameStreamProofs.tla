-------------------------- MODULE FrameStreamProofs --------------------------
(***************************************************************************)
(* The state stream between a session and a client, for every set of       *)
(* scenes, every list of networks and vehicles and every number of         *)
(* projects, publications and envelopes under way: a client at the         *)
(* sequence of the publisher has the publisher's frame, the routes that it *)
(* shows are on the network of the project that it shows, and it refuses   *)
(* no publication for its content.                                         *)
(*                                                                         *)
(* The invariant says what the session keeps (a fleet lists a vehicle      *)
(* once, a project without an incident contract has no incident, the       *)
(* parties, records and stops of a vehicle fit its activity and its        *)
(* incidents), what the publisher's frame is made of, and that the         *)
(* envelopes under way are a chain of frames from the client's to the      *)
(* publisher's: each carries its frame, in full or as the delta of the     *)
(* frame before it.  Mirrors is the frame of a client up to what the wire  *)
(* leaves out; Valid is a frame that passes every check.                   *)
(***************************************************************************)
EXTENDS FrameStream, ListProofs

-----------------------------------------------------------------------------
(***************************************************************************)
(* Lists, options and slices.                                              *)
(***************************************************************************)
\* The value of an option.
LEMMA TheOf == \A x : The({x}) = x
BY DEF The

\* A slice and its form without the difference of nil and empty have the same items.
LEMMA OmittedItems ==
  /\ \A slice : Items(Omitted(slice)) = Items(slice) /\ Omitted(Omitted(slice)) = Omitted(slice)
  /\ \A slice : Items(slice) = <<>> => Omitted(slice) = Nil
  /\ \A x : Items({x}) = x
  /\ Items(Nil) = <<>> /\ Omitted(Nil) = Nil /\ Omitted(Empty) = Nil
<1>1. Items(Nil) = <<>> /\ \A x : Items({x}) = x
  BY TheOf DEF Items, Nil
<1> QED
  BY <1>1 DEF Omitted, Empty

-----------------------------------------------------------------------------
(***************************************************************************)
(* Frames, and the frame of a client that mirrors one of the publisher.    *)
(***************************************************************************)
IsPod(p) == p = [id |-> p.id, class |-> p.class, station |-> p.station, berth |-> p.berth, lane |-> p.lane, motion |-> p.motion,
                 activity |-> p.activity, blockedBy |-> p.blockedBy]
IsVehicle(v) == v = [pod |-> v.pod, riders |-> v.riders, boardings |-> v.boardings, stops |-> v.stops, meta |-> v.meta]

\* What a client knows of a vehicle.
SameVehicle(v, a) ==
    /\ IsVehicle(v) /\ v.pod = a.pod /\ v.boardings = a.boardings /\ v.meta = a.meta
    /\ Omitted(v.riders) = Omitted(a.riders) /\ Omitted(v.stops) = Omitted(a.stops)

\* A pod that only moved is the old one with the new motion.
LEMMA PodMotion ==
  ASSUME NEW a, IsPod(a), NEW b, IsPod(b), SameStationaryPod(a, b)
  PROVE  [a EXCEPT !.motion = MotionOf(b)] = b
<1>1. a.id = b.id /\ a.class = b.class /\ a.station = b.station /\ a.berth = b.berth /\ a.lane = b.lane /\ a.activity = b.activity
      /\ a.blockedBy = b.blockedBy
  <2>1. [a EXCEPT !.motion = 0] = [id |-> a.id, class |-> a.class, station |-> a.station, berth |-> a.berth, lane |-> a.lane, motion |-> 0,
                                   activity |-> a.activity, blockedBy |-> a.blockedBy]
    BY DEF IsPod
  <2>2. [b EXCEPT !.motion = 0] = [id |-> b.id, class |-> b.class, station |-> b.station, berth |-> b.berth, lane |-> b.lane, motion |-> 0,
                                   activity |-> b.activity, blockedBy |-> b.blockedBy]
    BY DEF IsPod
  <2> QED
    BY <2>1, <2>2 DEF SameStationaryPod
<1>2. [a EXCEPT !.motion = MotionOf(b)] = [id |-> a.id, class |-> a.class, station |-> a.station, berth |-> a.berth, lane |-> a.lane,
                                           motion |-> b.motion, activity |-> a.activity, blockedBy |-> a.blockedBy]
  BY DEF IsPod, MotionOf
<1> QED
  BY <1>1, <1>2 DEF IsPod

\* The parts of the delta of a vehicle.
LEMMA ItemParts ==
  ASSUME NEW a, NEW b, NEW r, NEW s
  PROVE  LET item == VehicleDelta(a, b, r, s)
         IN  /\ item.id = b.pod.id /\ item.route = Changed(r, s) /\ item.stops = Changed(a.stops, b.stops) /\ item.meta = Changed(a.meta, b.meta)
             /\ \/ item.pod = Changed(a.pod, b.pod) /\ item.motion = {}
                \/ item.pod = {} /\ item.motion = {MotionOf(b.pod)} /\ SameStationaryPod(a.pod, b.pod)
             /\ item.riders = {} => a.riders = b.riders
             /\ item.riders # {} => item.riders = {b.riders}
             /\ item.boardings = {} => a.boardings = b.boardings
             /\ item.boardings # {} => Omitted(The(item.boardings)) = Omitted(b.boardings)
<1> DEFINE moved == a.pod # b.pod /\ SameStationaryPod(a.pod, b.pod)
           plain == [id |-> b.pod.id, pod |-> IF moved THEN {} ELSE Changed(a.pod, b.pod),
                     motion |-> IF moved THEN {MotionOf(b.pod)} ELSE {}, route |-> Changed(r, s),
                     riders |-> Changed(a.riders, b.riders), boardings |-> Changed(a.boardings, b.boardings),
                     stops |-> Changed(a.stops, b.stops), meta |-> Changed(a.meta, b.meta)]
           item == VehicleDelta(a, b, r, s)
<1>1. /\ plain.id = b.pod.id /\ plain.route = Changed(r, s) /\ plain.stops = Changed(a.stops, b.stops) /\ plain.meta = Changed(a.meta, b.meta)
      /\ \/ plain.pod = Changed(a.pod, b.pod) /\ plain.motion = {}
         \/ plain.pod = {} /\ plain.motion = {MotionOf(b.pod)} /\ SameStationaryPod(a.pod, b.pod)
      /\ plain.riders = Changed(a.riders, b.riders) /\ plain.boardings = Changed(a.boardings, b.boardings)
  OBVIOUS
<1>2. {"id", "pod", "motion", "route", "riders", "boardings", "stops", "meta"} = DOMAIN plain
  OBVIOUS
<1>3. item = PairedRiders(plain, a, b)
  BY DEF VehicleDelta
<1> HIDE DEF plain, item
<1>4. /\ item.id = plain.id /\ item.route = plain.route /\ item.stops = plain.stops /\ item.meta = plain.meta
      /\ item.pod = plain.pod /\ item.motion = plain.motion
      /\ \/ item = plain
         \/ item.riders = {b.riders} /\ item.boardings = IF Items(b.boardings) = <<>> THEN {Empty} ELSE {b.boardings}
  BY <1>2, <1>3 DEF PairedRiders
<1>5. /\ Changed(a.riders, b.riders) = {} => a.riders = b.riders
      /\ Changed(a.riders, b.riders) # {} => Changed(a.riders, b.riders) = {b.riders}
      /\ Changed(a.boardings, b.boardings) = {} => a.boardings = b.boardings
      /\ Changed(a.boardings, b.boardings) # {} => The(Changed(a.boardings, b.boardings)) = b.boardings
  BY TheOf DEF Changed
<1>6. Items(b.boardings) = <<>> => Omitted(Empty) = Omitted(b.boardings)
  BY OmittedItems
<1>7. /\ item.riders = {} => a.riders = b.riders
      /\ item.riders # {} => item.riders = {b.riders}
  BY <1>1, <1>4, <1>5
<1>8. /\ item.boardings = {} => a.boardings = b.boardings
      /\ item.boardings # {} => Omitted(The(item.boardings)) = Omitted(b.boardings)
  <2>1. CASE item = plain
    BY <1>1, <1>5, <2>1
  <2>2. CASE item.boardings = {Empty} /\ Items(b.boardings) = <<>>
    BY <2>2, <1>6, TheOf
  <2>3. CASE item.boardings = {b.boardings}
    BY <2>3, TheOf
  <2> QED
    BY <1>4, <2>1, <2>2, <2>3
<1> QED
  BY <1>1, <1>4, <1>7, <1>8 DEF item

\* The delta of a vehicle makes the new one of the old one; without a delta the two are the same.
LEMMA VehicleApplied ==
  ASSUME NEW v, NEW a, SameVehicle(v, a), NEW b, IsVehicle(b), IsPod(a.pod), IsPod(b.pod), Omitted(a.boardings) = a.boardings,
         Omitted(b.boardings) = b.boardings, NEW r, NEW s, NEW item, item = VehicleDelta(a, b, r, s)
  PROVE  /\ SameVehicle(ApplyVehicleDelta(v, item), b) /\ Replaced(r, item.route) = s
         /\ ~Changes(item) => SameVehicle(v, b) /\ r = s
<1>1. /\ item.id = b.pod.id /\ item.route = Changed(r, s) /\ item.stops = Changed(a.stops, b.stops) /\ item.meta = Changed(a.meta, b.meta)
      /\ \/ item.pod = Changed(a.pod, b.pod) /\ item.motion = {}
         \/ item.pod = {} /\ item.motion = {MotionOf(b.pod)} /\ SameStationaryPod(a.pod, b.pod)
      /\ item.riders = {} => a.riders = b.riders
      /\ item.riders # {} => item.riders = {b.riders}
      /\ item.boardings = {} => a.boardings = b.boardings
      /\ item.boardings # {} => Omitted(The(item.boardings)) = Omitted(b.boardings)
  BY ItemParts
<1>2. \A x, y : Replaced(x, Changed(x, y)) = y
  BY TheOf DEF Replaced, Changed
<1>3. \A x : Replaced(x, {}) = x
  BY DEF Replaced
<1> DEFINE w == ApplyVehicleDelta(v, item)
<1>4. w = [pod |-> ReplacedPod(v.pod, item), riders |-> Replaced(v.riders, item.riders),
           boardings |-> IF item.boardings = {} THEN v.boardings ELSE Omitted(The(item.boardings)),
           stops |-> Replaced(v.stops, item.stops), meta |-> Replaced(v.meta, item.meta)]
  <2> DEFINE p == Replaced(v.riders, item.riders)
             q == Replaced(v.stops, item.stops)
             m == Replaced(v.meta, item.meta)
             d == ReplacedPod(v.pod, item)
             c == IF item.boardings = {} THEN v.boardings ELSE Omitted(The(item.boardings))
  <2>1. w = [v EXCEPT !.pod = d, !.riders = p, !.stops = q, !.meta = m, !.boardings = c]
    BY DEF ApplyVehicleDelta
  <2>2. IsVehicle(v)
    BY DEF SameVehicle
  <2> HIDE DEF p, q, m, d, c, w
  <2>3. w = [pod |-> d, riders |-> p, boardings |-> c, stops |-> q, meta |-> m]
    BY <2>1, <2>2 DEF IsVehicle
  <2> QED
    BY <2>3 DEF p, q, m, d, c
<1>5. IsVehicle(w)
  BY <1>4 DEF IsVehicle
<1>6. w.pod = b.pod
  <2>1. w.pod = [Replaced(a.pod, item.pod) EXCEPT !.motion = Replaced(@, item.motion)]
    BY <1>4 DEF SameVehicle, ReplacedPod
  <2>2. CASE item.pod = Changed(a.pod, b.pod) /\ item.motion = {}
    <3>1. w.pod = [b.pod EXCEPT !.motion = b.pod.motion]
      BY <2>1, <2>2, <1>2, <1>3
    <3> DEFINE p == b.pod
    <3>2. IsPod(p)
      OBVIOUS
    <3> HIDE DEF p
    <3>3. [p EXCEPT !.motion = p.motion] = p
      BY <3>2 DEF IsPod
    <3> QED
      BY <3>1, <3>3 DEF p
  <2>3. CASE item.pod = {} /\ item.motion = {MotionOf(b.pod)} /\ SameStationaryPod(a.pod, b.pod)
    <3>1. Replaced(a.pod, item.pod) = a.pod /\ \A x : Replaced(x, item.motion) = MotionOf(b.pod)
      BY <2>3, TheOf DEF Replaced
    <3>2. w.pod = [a.pod EXCEPT !.motion = MotionOf(b.pod)]
      BY <2>1, <3>1
    <3> DEFINE p == a.pod
               q == b.pod
    <3>3. IsPod(p) /\ IsPod(q) /\ SameStationaryPod(p, q)
      BY <2>3
    <3> HIDE DEF p, q
    <3>4. [p EXCEPT !.motion = MotionOf(q)] = q
      BY <3>3, PodMotion
    <3> QED
      BY <3>2, <3>4 DEF p, q
  <2> QED
    BY <1>1, <2>2, <2>3
<1>7. Omitted(w.riders) = Omitted(b.riders)
  <2>1. w.riders = Replaced(v.riders, item.riders)
    BY <1>4
  <2>2. CASE item.riders = {}
    BY <2>1, <2>2, <1>1, <1>3 DEF SameVehicle
  <2>3. CASE item.riders = {b.riders}
    BY <2>1, <2>3, TheOf DEF Replaced
  <2> QED
    BY <1>1, <2>2, <2>3
<1>8. Omitted(w.stops) = Omitted(b.stops) /\ w.meta = b.meta
  <2>1. w.stops = Replaced(v.stops, Changed(a.stops, b.stops)) /\ w.meta = Replaced(a.meta, Changed(a.meta, b.meta))
    BY <1>1, <1>4 DEF SameVehicle
  <2>2. w.meta = b.meta
    BY <2>1, <1>2
  <2>3. Omitted(w.stops) = Omitted(b.stops)
    BY <2>1, TheOf DEF SameVehicle, Replaced, Changed
  <2> QED
    BY <2>2, <2>3
<1>9. w.boardings = b.boardings
  BY <1>1, <1>4 DEF SameVehicle
<1>10. Replaced(r, item.route) = s
  BY <1>1, <1>2
<1>11. ASSUME ~Changes(item) PROVE SameVehicle(v, b) /\ r = s
  <2>1. /\ item.pod = {} /\ item.motion = {} /\ item.route = {} /\ item.riders = {} /\ item.boardings = {} /\ item.stops = {} /\ item.meta = {}
    BY <1>11 DEF Changes
  <2>2. a.pod = b.pod /\ r = s /\ a.stops = b.stops /\ a.meta = b.meta /\ a.riders = b.riders /\ a.boardings = b.boardings
    BY <1>1, <2>1 DEF Changed
  <2> QED
    BY <2>2 DEF SameVehicle
<1> QED
  BY <1>5, <1>6, <1>7, <1>8, <1>9, <1>10, <1>11 DEF SameVehicle

\* The shape of a frame.
IsIncidents(x) == x = [active |-> x.active, started |-> x.started]
IsGroups(g) == g = [controls |-> g.controls, checkpoints |-> g.checkpoints, restore |-> g.restore, global |-> g.global,
                    pending |-> g.pending, incident |-> g.incident, faults |-> g.faults, emergencies |-> g.emergencies]
IsFrame(f) ==
    /\ f = [source |-> f.source, markers |-> f.markers, groups |-> f.groups, vehicles |-> f.vehicles, routes |-> f.routes,
            berths |-> f.berths]
    /\ IsGroups(f.groups) /\ IsIncidents(f.groups.faults) /\ IsIncidents(f.groups.emergencies)
    /\ f.vehicles = [i \in DOMAIN f.vehicles |-> f.vehicles[i]] /\ \A i \in DOMAIN f.vehicles : IsVehicle(f.vehicles[i])
    /\ f.routes = [i \in DOMAIN f.vehicles |-> f.routes[i]]
    /\ f.berths = [b \in Berths |-> f.berths[b]]

NoIncidents == [active |-> Nil, started |-> 0]

\* A frame that presentationFrame makes: groups without their marker are empty, and no slice of it is empty but not nil,
\* but for the riders and the stops.
Made(f) ==
    /\ IsFrame(f) /\ Len(f.vehicles) \in Nat /\ DOMAIN f.vehicles = 1 .. Len(f.vehicles)
    /\ \A i \in DOMAIN f.vehicles : IsPod(f.vehicles[i].pod) /\ Omitted(f.vehicles[i].boardings) = f.vehicles[i].boardings
    /\ \A i, k \in DOMAIN f.vehicles : f.vehicles[i].pod.id = f.vehicles[k].pod.id => i = k
    /\ Omitted(f.groups.checkpoints) = f.groups.checkpoints /\ Omitted(f.groups.pending) = f.groups.pending
    /\ Omitted(f.groups.faults.active) = f.groups.faults.active
    /\ Omitted(f.groups.emergencies.active) = f.groups.emergencies.active
    /\ f.markers \in [order : BOOLEAN, incident : BOOLEAN, fault : BOOLEAN, emergency : BOOLEAN]
    /\ ~f.markers.incident => f.groups.incident = 0
    /\ ~f.markers.fault => f.groups.faults = NoIncidents
    /\ ~f.markers.emergency => f.groups.emergencies = NoIncidents

\* The frame f of a client has what the frame g of the publisher has.
Mirrors(f, g) ==
    /\ IsFrame(f) /\ f.source = g.source /\ f.markers = g.markers /\ f.groups = g.groups /\ DOMAIN f.vehicles = DOMAIN g.vehicles
    /\ \A i \in DOMAIN g.vehicles : SameVehicle(f.vehicles[i], g.vehicles[i])
    /\ f.routes = g.routes /\ f.berths = g.berths

\* The full form of a frame by its parts.
LEMMA FullParts ==
  ASSUME NEW f, IsFrame(f)
  PROVE  LET g == f.groups
         IN  FullWire(f) = [source |-> f.source, markers |-> f.markers,
                            groups |-> [controls |-> g.controls, checkpoints |-> Omitted(g.checkpoints), restore |-> g.restore,
                                        global |-> g.global, pending |-> g.pending, incident |-> g.incident,
                                        faults |-> [active |-> Omitted(g.faults.active), started |-> g.faults.started],
                                        emergencies |-> [active |-> Omitted(g.emergencies.active), started |-> g.emergencies.started]],
                            vehicles |-> [i \in DOMAIN f.vehicles |-> OmittedVehicle(f.vehicles[i])],
                            routes |-> f.routes, berths |-> f.berths]
<1> DEFINE g == f.groups
           w == [i \in DOMAIN f.vehicles |-> OmittedVehicle(f.vehicles[i])]
           h == [g EXCEPT !.checkpoints = Omitted(@), !.faults = OmittedRecords(@), !.emergencies = OmittedRecords(@)]
<1>1. f = [source |-> f.source, markers |-> f.markers, groups |-> g, vehicles |-> f.vehicles, routes |-> f.routes, berths |-> f.berths]
  BY DEF IsFrame
<1>2. IsGroups(g) /\ IsIncidents(g.faults) /\ IsIncidents(g.emergencies)
  BY DEF IsFrame
<1>3. FullWire(f) = [f EXCEPT !.vehicles = w, !.groups = h]
  <2> HIDE DEF w
  <2>1. FullWire(f) = [f EXCEPT !.vehicles = w, !.groups.checkpoints = Omitted(@), !.groups.faults = OmittedRecords(@),
                                !.groups.emergencies = OmittedRecords(@)]
    BY DEF FullWire, w
  <2> QED
    BY <2>1, <1>1
<1> HIDE DEF g, w
<1>4. h = [controls |-> g.controls, checkpoints |-> Omitted(g.checkpoints), restore |-> g.restore,
           global |-> g.global, pending |-> g.pending, incident |-> g.incident,
           faults |-> [active |-> Omitted(g.faults.active), started |-> g.faults.started],
           emergencies |-> [active |-> Omitted(g.emergencies.active), started |-> g.emergencies.started]]
  <2>1. /\ OmittedRecords(g.faults) = [active |-> Omitted(g.faults.active), started |-> g.faults.started]
        /\ OmittedRecords(g.emergencies) = [active |-> Omitted(g.emergencies.active), started |-> g.emergencies.started]
    BY <1>2 DEF IsIncidents, OmittedRecords
  <2>2. h = [controls |-> g.controls, checkpoints |-> Omitted(g.checkpoints), restore |-> g.restore,
             global |-> g.global, pending |-> g.pending, incident |-> g.incident,
             faults |-> OmittedRecords(g.faults), emergencies |-> OmittedRecords(g.emergencies)]
    <3> DEFINE c == Omitted(g.checkpoints)
               p == OmittedRecords(g.faults)
               q == OmittedRecords(g.emergencies)
    <3>1. h = [g EXCEPT !.checkpoints = c, !.faults = p, !.emergencies = q]
      OBVIOUS
    <3> HIDE DEF c, p, q, h
    <3>2. h = [controls |-> g.controls, checkpoints |-> c, restore |-> g.restore, global |-> g.global, pending |-> g.pending,
               incident |-> g.incident, faults |-> p, emergencies |-> q]
      BY <1>2, <3>1 DEF IsGroups
    <3> QED
      BY <3>2 DEF c, p, q
  <2> QED
    BY <2>1, <2>2
<1> HIDE DEF h
<1>5. FullWire(f) = [source |-> f.source, markers |-> f.markers, groups |-> h, vehicles |-> w, routes |-> f.routes, berths |-> f.berths]
  BY <1>1, <1>3
<1> QED
  BY <1>4, <1>5 DEF g, w

\* The full form of a made frame mirrors it.
LEMMA FullMirrors ==
  ASSUME NEW f, Made(f)
  PROVE  Mirrors(FullWire(f), f)
<1> DEFINE g == f.groups
           w == [i \in DOMAIN f.vehicles |-> OmittedVehicle(f.vehicles[i])]
           e == FullWire(f)
<1>0. IsFrame(f)
  BY DEF Made
<1>1. e = [source |-> f.source, markers |-> f.markers,
           groups |-> [controls |-> g.controls, checkpoints |-> Omitted(g.checkpoints), restore |-> g.restore,
                       global |-> g.global, pending |-> g.pending, incident |-> g.incident,
                       faults |-> [active |-> Omitted(g.faults.active), started |-> g.faults.started],
                       emergencies |-> [active |-> Omitted(g.emergencies.active), started |-> g.emergencies.started]],
           vehicles |-> w, routes |-> f.routes, berths |-> f.berths]
  BY <1>0, FullParts
<1>2. IsGroups(g) /\ IsIncidents(g.faults) /\ IsIncidents(g.emergencies)
  BY <1>0 DEF IsFrame
<1>3. Omitted(g.checkpoints) = g.checkpoints /\ Omitted(g.faults.active) = g.faults.active
      /\ Omitted(g.emergencies.active) = g.emergencies.active
  BY DEF Made
<1>4. \A i \in DOMAIN f.vehicles : SameVehicle(w[i], f.vehicles[i])
  <2> SUFFICES ASSUME NEW i \in DOMAIN f.vehicles PROVE SameVehicle(w[i], f.vehicles[i])
    OBVIOUS
  <2> DEFINE v == f.vehicles[i]
  <2>1. IsVehicle(v) /\ w[i] = OmittedVehicle(v) /\ Omitted(v.boardings) = v.boardings
    BY <1>0 DEF Made, IsFrame
  <2> HIDE DEF v
  <2>2. w[i] = [pod |-> v.pod, riders |-> Omitted(v.riders), boardings |-> v.boardings, stops |-> Omitted(v.stops), meta |-> v.meta]
    BY <2>1 DEF IsVehicle, OmittedVehicle
  <2>3. Omitted(Omitted(v.riders)) = Omitted(v.riders) /\ Omitted(Omitted(v.stops)) = Omitted(v.stops)
    BY OmittedItems
  <2>4. SameVehicle(w[i], v)
    BY <2>2, <2>3 DEF SameVehicle, IsVehicle
  <2> QED
    BY <2>4 DEF v
<1>5. f.routes = [i \in DOMAIN f.vehicles |-> f.routes[i]] /\ f.berths = [b \in Berths |-> f.berths[b]]
  BY <1>0 DEF IsFrame
<1>6. DOMAIN w = DOMAIN f.vehicles /\ w = [i \in DOMAIN w |-> w[i]]
  OBVIOUS
<1> HIDE DEF g, w, e
<1>7. e.groups = g
  BY <1>1, <1>2, <1>3 DEF IsGroups, IsIncidents
<1>8. e = [source |-> f.source, markers |-> f.markers, groups |-> g, vehicles |-> w, routes |-> f.routes, berths |-> f.berths]
  BY <1>1, <1>7
<1>9. \A i \in DOMAIN w : IsVehicle(w[i])
  BY <1>4, <1>6 DEF SameVehicle
<1>10. IsFrame(e)
  BY <1>2, <1>5, <1>6, <1>8, <1>9 DEF IsFrame
<1> QED
  BY <1>4, <1>6, <1>8, <1>10 DEF Mirrors, e, g

\* A client that mirrors a frame sees what it shows.
LEMMA MirrorsSeen ==
  ASSUME NEW f, NEW g, Made(g), Mirrors(f, g)
  PROVE  Seen(f) = Seen(g)
<1> DEFINE h == g.groups
           d == [controls |-> h.controls, checkpoints |-> Omitted(h.checkpoints), restore |-> h.restore,
                 global |-> h.global, pending |-> h.pending, incident |-> h.incident,
                 faults |-> [active |-> Omitted(h.faults.active), started |-> h.faults.started],
                 emergencies |-> [active |-> Omitted(h.emergencies.active), started |-> h.emergencies.started]]
           u == [i \in DOMAIN f.vehicles |-> OmittedVehicle(f.vehicles[i])]
           w == [i \in DOMAIN g.vehicles |-> OmittedVehicle(g.vehicles[i])]
<1>1. IsFrame(f) /\ IsFrame(g) /\ f.groups = h /\ f.source = g.source /\ f.markers = g.markers /\ f.routes = g.routes /\ f.berths = g.berths
  BY DEF Mirrors, Made
<1>2. FullWire(f) = [source |-> f.source, markers |-> f.markers, groups |-> d, vehicles |-> u, routes |-> f.routes, berths |-> f.berths]
  BY <1>1, FullParts
<1>3. FullWire(g) = [source |-> g.source, markers |-> g.markers, groups |-> d, vehicles |-> w, routes |-> g.routes, berths |-> g.berths]
  BY <1>1, FullParts
<1>4. u = w
  <2>1. DOMAIN f.vehicles = DOMAIN g.vehicles
    BY DEF Mirrors
  <2>2. ASSUME NEW i \in DOMAIN g.vehicles PROVE u[i] = w[i]
    <3> DEFINE v == f.vehicles[i]
               x == g.vehicles[i]
    <3>1. IsVehicle(v) /\ IsVehicle(x) /\ SameVehicle(v, x) /\ u[i] = OmittedVehicle(v) /\ w[i] = OmittedVehicle(x)
      BY <1>1, <2>1 DEF Mirrors, IsFrame
    <3> HIDE DEF v, x, u, w
    <3>2. /\ u[i] = [pod |-> v.pod, riders |-> Omitted(v.riders), boardings |-> Omitted(v.boardings), stops |-> Omitted(v.stops), meta |-> v.meta]
          /\ w[i] = [pod |-> x.pod, riders |-> Omitted(x.riders), boardings |-> Omitted(x.boardings), stops |-> Omitted(x.stops), meta |-> x.meta]
      BY <3>1 DEF IsVehicle, OmittedVehicle
    <3> QED
      BY <3>1, <3>2 DEF SameVehicle
  <2>3. u = [i \in DOMAIN g.vehicles |-> u[i]] /\ w = [i \in DOMAIN g.vehicles |-> w[i]]
    BY <2>1
  <2> HIDE DEF u, w
  <2>4. [i \in DOMAIN g.vehicles |-> u[i]] = [i \in DOMAIN g.vehicles |-> w[i]]
    BY <2>2
  <2> QED
    BY <2>3, <2>4
<1> HIDE DEF d, u, w
<1> QED
  BY <1>1, <1>2, <1>3, <1>4 DEF Seen

\* The item of a vehicle in a delta: the delta of the vehicle when it changes anything, and none when not.
LEMMA DeltaItem ==
  ASSUME NEW a, NEW b, Made(b), NEW e, e.content = MakeDelta(a, b), NEW i \in DOMAIN b.vehicles
  PROVE  LET item == VehicleDelta(a.vehicles[i], b.vehicles[i], a.routes[i], b.routes[i])
         IN  ItemOf(e, b.vehicles[i].pod.id) = IF Changes(item) THEN {item} ELSE {}
<1> DEFINE items == [k \in DOMAIN b.vehicles |-> VehicleDelta(a.vehicles[k], b.vehicles[k], a.routes[k], b.routes[k])]
           set == {k \in DOMAIN items : Changes(items[k])}
           T == {items[k] : k \in DOMAIN items}
           w == Selected(items, set)
           id(k) == b.vehicles[k].pod.id
<1>1. e.content.vehicles = w
  BY DEF MakeDelta
<1>2. DOMAIN items = DOMAIN b.vehicles /\ items \in Seq(T) /\ set \in SUBSET DOMAIN items
  BY DEF Made
<1>3. \A k \in DOMAIN items : items[k].id = id(k)
  <2> SUFFICES ASSUME NEW k \in DOMAIN items PROVE items[k].id = id(k)
    OBVIOUS
  <2>1. items[k] = VehicleDelta(a.vehicles[k], b.vehicles[k], a.routes[k], b.routes[k])
    BY <1>2
  <2> HIDE DEF items
  <2> QED
    BY <2>1, ItemParts
<1>4. \A k \in DOMAIN items : id(k) = id(i) => k = i
  BY <1>2 DEF Made
<1>5. items[i] = VehicleDelta(a.vehicles[i], b.vehicles[i], a.routes[i], b.routes[i]) /\ (i \in set <=> Changes(items[i]))
  OBVIOUS
<1> HIDE DEF items, set, T, id
<1>6. PICK f : Picks(f, w, items, set)
  BY <1>2, SelectedEntries
<1> HIDE DEF w
<1>7. ItemOf(e, id(i)) = {w[k] : k \in {j \in DOMAIN w : w[j].id = id(i)}}
  BY <1>1 DEF ItemOf
<1>8. \A j \in DOMAIN w : f[j] \in set /\ w[j] = items[f[j]] /\ (w[j].id = id(i) => f[j] = i)
  BY <1>2, <1>3, <1>4, <1>6 DEF Picks
<1>9. ASSUME i \in set PROVE ItemOf(e, id(i)) = {items[i]}
  <2>1. PICK m \in DOMAIN w : f[m] = i
    BY <1>6, <1>9 DEF Picks
  <2>2. w[m] = items[i] /\ w[m].id = id(i)
    BY <1>8, <2>1, <1>2, <1>3, <1>9
  <2>3. \A j \in DOMAIN w : w[j].id = id(i) => w[j] = items[i]
    BY <1>8
  <2> QED
    BY <1>7, <2>2, <2>3
<1>10. ASSUME i \notin set PROVE ItemOf(e, id(i)) = {}
  <2>1. \A j \in DOMAIN w : w[j].id # id(i)
    BY <1>8, <1>10
  <2> QED
    BY <1>7, <2>1
<1> QED
  BY <1>5, <1>9, <1>10 DEF id

\* The groups of a made frame that its markers do not name are empty.
LEMMA GroupApplied ==
  ASSUME NEW a, Made(a), NEW b, Made(b), a.markers = b.markers, NEW d,
         d = [name \in {n \in GroupNames(b) : b.groups[n] # a.groups[n]} |-> b.groups[name]]
  PROVE  [name \in DOMAIN a.groups |-> IF name \in DOMAIN d THEN d[name] ELSE a.groups[name]] = b.groups
<1> DEFINE N == {"controls", "checkpoints", "restore", "global", "pending", "incident", "faults", "emergencies"}
           g == a.groups
           h == b.groups
<1>1. IsGroups(g) /\ IsGroups(h)
  BY DEF Made, IsFrame
<1>2. DOMAIN d \subseteq GroupNames(b) /\ \A name \in DOMAIN d : d[name] = h[name]
  OBVIOUS
<1>3. \A n \in GroupNames(b) : n \notin DOMAIN d => h[n] = g[n]
  OBVIOUS
<1>4. /\ "incident" \notin GroupNames(b) => g["incident"] = h["incident"]
      /\ "faults" \notin GroupNames(b) => g["faults"] = h["faults"]
      /\ "emergencies" \notin GroupNames(b) => g["emergencies"] = h["emergencies"]
  BY DEF Made, GroupNames
<1>5. \A n \in N : n \in GroupNames(b) \/ n \in {"incident", "faults", "emergencies"}
  BY DEF GroupNames
<1> HIDE DEF g, h
<1>6. DOMAIN g = N /\ DOMAIN h = N /\ h = [n \in N |-> h[n]]
  BY <1>1 DEF IsGroups
<1> HIDE DEF N
<1>7. \A n \in N : (IF n \in DOMAIN d THEN d[n] ELSE g[n]) = h[n]
  BY <1>2, <1>3, <1>4, <1>5
<1>8. [n \in N |-> IF n \in DOMAIN d THEN d[n] ELSE g[n]] = [n \in N |-> h[n]]
  BY <1>7
<1> QED
  BY <1>6, <1>8 DEF g, h

\* makeDelta and applyStreamDelta: what mirrors the old frame mirrors the new one after the delta.
LEMMA DeltaMirrors ==
  ASSUME NEW a, Made(a), NEW b, Made(b), a.markers = b.markers, SameChain(a, b), NEW f, Mirrors(f, a),
         NEW e, e.content = MakeDelta(a, b), e.source = b.source
  PROVE  Mirrors(ApplyDelta(f, e), b)
<1> DEFINE item(i) == VehicleDelta(a.vehicles[i], b.vehicles[i], a.routes[i], b.routes[i])
           D == DOMAIN b.vehicles
           c == ApplyDelta(f, e)
           items(i) == ItemOf(e, f.vehicles[i].pod.id)
           gr == [name \in DOMAIN f.groups |-> IF name \in DOMAIN e.content.groups THEN e.content.groups[name] ELSE f.groups[name]]
           ve == [i \in DOMAIN f.vehicles |-> IF items(i) = {} THEN f.vehicles[i] ELSE ApplyVehicleDelta(f.vehicles[i], The(items(i)))]
           ro == [i \in DOMAIN f.routes |-> IF items(i) = {} THEN f.routes[i] ELSE Replaced(f.routes[i], The(items(i)).route)]
           be == [x \in DOMAIN f.berths |-> IF x \in DOMAIN e.content.berths THEN e.content.berths[x] ELSE f.berths[x]]
<1>1. IsFrame(f) /\ IsFrame(a) /\ IsFrame(b)
  BY DEF Mirrors, Made
<1>2. c = [f EXCEPT !.groups = gr, !.vehicles = ve, !.routes = ro, !.berths = be, !.source = e.source]
  BY DEF ApplyDelta
<1>3. DOMAIN a.vehicles = D /\ DOMAIN f.vehicles = D /\ \A i \in D : a.vehicles[i].pod.id = b.vehicles[i].pod.id
  <2>1. DOMAIN f.vehicles = DOMAIN a.vehicles
    BY DEF Mirrors
  <2>2. Ids(a.vehicles) = Ids(b.vehicles)
    BY DEF SameChain
  <2>3. DOMAIN Ids(a.vehicles) = DOMAIN a.vehicles /\ DOMAIN Ids(b.vehicles) = D
    BY DEF Ids
  <2>4. \A i \in D : Ids(a.vehicles)[i] = a.vehicles[i].pod.id /\ Ids(b.vehicles)[i] = b.vehicles[i].pod.id
    BY <2>2, <2>3 DEF Ids
  <2> QED
    BY <2>1, <2>2, <2>3, <2>4
<1>4. \A i \in D : items(i) = IF Changes(item(i)) THEN {item(i)} ELSE {}
  <2> SUFFICES ASSUME NEW i \in D PROVE items(i) = IF Changes(item(i)) THEN {item(i)} ELSE {}
    OBVIOUS
  <2>1. f.vehicles[i].pod = a.vehicles[i].pod
    BY <1>3 DEF Mirrors, SameVehicle
  <2>2. f.vehicles[i].pod.id = b.vehicles[i].pod.id
    BY <2>1, <1>3
  <2>3. ItemOf(e, b.vehicles[i].pod.id) = IF Changes(item(i)) THEN {item(i)} ELSE {}
    BY DeltaItem
  <2> QED
    BY <2>2, <2>3
<1> DEFINE apply(i) == ApplyVehicleDelta(f.vehicles[i], item(i))
<1>5. \A i \in D : /\ SameVehicle(apply(i), b.vehicles[i]) /\ Replaced(a.routes[i], item(i).route) = b.routes[i]
                   /\ ~Changes(item(i)) => SameVehicle(f.vehicles[i], b.vehicles[i]) /\ a.routes[i] = b.routes[i]
  <2> SUFFICES ASSUME NEW i \in D
               PROVE  /\ SameVehicle(apply(i), b.vehicles[i]) /\ Replaced(a.routes[i], item(i).route) = b.routes[i]
                      /\ ~Changes(item(i)) => SameVehicle(f.vehicles[i], b.vehicles[i]) /\ a.routes[i] = b.routes[i]
    OBVIOUS
  <2> DEFINE v == f.vehicles[i]
             x == a.vehicles[i]
             y == b.vehicles[i]
             r == a.routes[i]
             s == b.routes[i]
             t == item(i)
  <2>1. SameVehicle(v, x) /\ IsVehicle(y) /\ IsPod(x.pod) /\ IsPod(y.pod) /\ Omitted(x.boardings) = x.boardings
        /\ Omitted(y.boardings) = y.boardings
    BY <1>1, <1>3 DEF Mirrors, Made, IsFrame
  <2>2. t = VehicleDelta(x, y, r, s)
    OBVIOUS
  <2> HIDE DEF v, x, y, r, s, t
  <2>3. /\ SameVehicle(ApplyVehicleDelta(v, t), y) /\ Replaced(r, t.route) = s
        /\ ~Changes(t) => SameVehicle(v, y) /\ r = s
    BY <2>1, <2>2, VehicleApplied
  <2> QED
    BY <2>3 DEF v, x, y, r, s, t
<1>6. f.routes = a.routes /\ DOMAIN a.routes = D /\ DOMAIN b.routes = D
  BY <1>1, <1>3 DEF Mirrors, IsFrame
<1>7. \A i \in D : /\ ve[i] = IF Changes(item(i)) THEN apply(i) ELSE f.vehicles[i]
                   /\ ro[i] = IF Changes(item(i)) THEN Replaced(a.routes[i], item(i).route) ELSE a.routes[i]
  <2> SUFFICES ASSUME NEW i \in D
               PROVE  /\ ve[i] = IF Changes(item(i)) THEN apply(i) ELSE f.vehicles[i]
                      /\ ro[i] = IF Changes(item(i)) THEN Replaced(a.routes[i], item(i).route) ELSE a.routes[i]
    OBVIOUS
  <2> DEFINE t == item(i)
  <2>1. items(i) = IF Changes(t) THEN {t} ELSE {}
    BY <1>4
  <2> DEFINE o == items(i)
  <2>2. /\ ve[i] = IF o = {} THEN f.vehicles[i] ELSE ApplyVehicleDelta(f.vehicles[i], The(o))
        /\ ro[i] = IF o = {} THEN a.routes[i] ELSE Replaced(a.routes[i], The(o).route)
    BY <1>3, <1>6
  <2>3. o = IF Changes(t) THEN {t} ELSE {}
    BY <2>1
  <2> HIDE DEF t, o, ve, ro
  <2>4. /\ ve[i] = IF Changes(t) THEN ApplyVehicleDelta(f.vehicles[i], t) ELSE f.vehicles[i]
        /\ ro[i] = IF Changes(t) THEN Replaced(a.routes[i], t.route) ELSE a.routes[i]
    BY <2>2, <2>3, TheOf
  <2> QED
    BY <2>4 DEF t
<1>8. DOMAIN ve = D /\ DOMAIN ro = D /\ ve = [i \in D |-> ve[i]]
  BY <1>3, <1>6
<1>9. gr = b.groups
  <2> DEFINE d == [name \in {n \in GroupNames(b) : b.groups[n] # a.groups[n]} |-> b.groups[name]]
  <2>1. e.content.groups = d /\ f.groups = a.groups
    BY DEF MakeDelta, Mirrors
  <2>2. gr = [name \in DOMAIN a.groups |-> IF name \in DOMAIN d THEN d[name] ELSE a.groups[name]]
    BY <2>1
  <2>3. d = [name \in {n \in GroupNames(b) : b.groups[n] # a.groups[n]} |-> b.groups[name]]
    OBVIOUS
  <2> HIDE DEF d, gr
  <2> QED
    BY <2>2, <2>3, GroupApplied
<1>10. be = b.berths
  <2> DEFINE d == [x \in {y \in DOMAIN b.berths : a.berths[y] # b.berths[y]} |-> b.berths[x]]
  <2>1. e.content.berths = d /\ f.berths = a.berths
    BY DEF MakeDelta, Mirrors
  <2>2. DOMAIN a.berths = Berths /\ DOMAIN b.berths = Berths /\ b.berths = [x \in Berths |-> b.berths[x]]
    BY <1>1 DEF IsFrame
  <2>3. be = [x \in Berths |-> IF x \in DOMAIN d THEN d[x] ELSE a.berths[x]]
    BY <2>1, <2>2
  <2>4. \A x \in Berths : (IF x \in DOMAIN d THEN d[x] ELSE a.berths[x]) = b.berths[x]
    BY <2>2
  <2> HIDE DEF d, be
  <2>5. be = [x \in Berths |-> b.berths[x]]
    BY <2>3, <2>4
  <2> QED
    BY <2>2, <2>5
<1> HIDE DEF ve, ro, item, apply
<1>11. \A i \in D : SameVehicle(ve[i], b.vehicles[i]) /\ ro[i] = b.routes[i]
  BY <1>5, <1>7
<1>12. ro = b.routes
  <2>1. b.routes = [i \in D |-> b.routes[i]] /\ ro = [i \in D |-> ro[i]]
    BY <1>1, <1>8 DEF IsFrame, ro
  <2>2. [i \in D |-> b.routes[i]] = [i \in D |-> ro[i]]
    BY <1>11
  <2> QED
    BY <2>1, <2>2
<1>13. c = [source |-> b.source, markers |-> b.markers, groups |-> b.groups, vehicles |-> ve, routes |-> b.routes, berths |-> b.berths]
  <2>1. c = [f EXCEPT !.groups = b.groups, !.vehicles = ve, !.routes = b.routes, !.berths = b.berths, !.source = b.source]
    BY <1>2, <1>9, <1>10, <1>12
  <2>2. f = [source |-> f.source, markers |-> f.markers, groups |-> f.groups, vehicles |-> f.vehicles, routes |-> f.routes, berths |-> f.berths]
    BY <1>1 DEF IsFrame
  <2>3. f.markers = b.markers
    BY DEF Mirrors
  <2> HIDE DEF c
  <2> QED
    BY <2>1, <2>2, <2>3
<1> HIDE DEF c
<1>14. \A i \in D : IsVehicle(ve[i])
  BY <1>11 DEF SameVehicle
<1>15. /\ IsGroups(b.groups) /\ IsIncidents(b.groups.faults) /\ IsIncidents(b.groups.emergencies)
       /\ b.routes = [i \in D |-> b.routes[i]] /\ b.berths = [x \in Berths |-> b.berths[x]]
  BY <1>1 DEF IsFrame
<1>16. c.source = b.source /\ c.markers = b.markers /\ c.groups = b.groups /\ c.vehicles = ve /\ c.routes = b.routes /\ c.berths = b.berths
  BY <1>13
<1>17. IsFrame(c)
  BY <1>8, <1>13, <1>14, <1>15, <1>16 DEF IsFrame
<1>18. Mirrors(c, b)
  BY <1>8, <1>11, <1>16, <1>17 DEF Mirrors
<1> QED
  BY <1>18 DEF c

-----------------------------------------------------------------------------
(***************************************************************************)
(* The session.                                                            *)
(***************************************************************************)
SessionFields == {"start", "epoch", "project", "generation", "revision", "speed", "checkpoints", "restore", "saved", "networks", "world"}
WorldFields == {"network", "tick", "submitted", "pending", "interrupted", "serial", "demo", "faults", "emergencies", "started", "vehicles"}
VehicleFields == {"id", "class", "station", "lane", "motion", "activity", "riders", "records", "stops", "ridden", "withdrawn", "op",
                  "blockedBy", "identity", "lanes", "current"}

\* A fleet lists its vehicles once.
FleetSound(vehicles) ==
    /\ \E n \in Nat : DOMAIN vehicles = 1 .. n
    /\ \A i \in DOMAIN vehicles : DOMAIN vehicles[i] = VehicleFields
    /\ \A i, k \in DOMAIN vehicles : vehicles[i].id = vehicles[k].id => i = k

\* A project without the contract of an incident has none.
IncidentsOfMarkers(w) ==
    /\ ~MarkersOf[w.network].incident => w.interrupted = 0
    /\ ~MarkersOf[w.network].fault => w.faults = <<>> /\ w.started = 0
    /\ ~MarkersOf[w.network].emergency => w.emergencies = <<>>

WorldSound(w) ==
    /\ DOMAIN w = WorldFields /\ w.network \in DOMAIN LanesOf
    /\ FleetSound(w.vehicles) /\ IncidentsOfMarkers(w)

SessionSound(s) ==
    /\ DOMAIN s = SessionFields
    /\ s.networks \in Seq(DOMAIN LanesOf) /\ s.project \in Nat \ {0} /\ Len(s.networks) = s.project
    /\ s.networks[s.project] = s.world.network
    /\ WorldSound(s.world) /\ (s.saved = {} \/ \E w : s.saved = {w} /\ WorldSound(w))
    /\ s.checkpoints = Nil \/ \E x : s.checkpoints = {<<x>>}

\* The projects of a session stay what they were.
Extends(old, new) == Len(old) <= Len(new) /\ \A k \in 1 .. Len(old) : new[k] = old[k]

\* A step of the simulation on the same network keeps the session sound.
LEMMA BecameSound ==
  ASSUME NEW s, SessionSound(s), NEW w, WorldSound(w), w.network = s.world.network, NEW t,
         t = [[s EXCEPT !.world = w] EXCEPT !.revision = @ + 1]
  PROVE  SessionSound(t) /\ t.networks = s.networks
<1>1. DOMAIN s = SessionFields
  BY DEF SessionSound
<1> DEFINE u == [s EXCEPT !.world = w]
<1>2. DOMAIN u = SessionFields /\ u.world = w /\ \A x \in SessionFields \ {"world"} : u[x] = s[x]
  BY <1>1 DEF SessionFields
<1>3. t = [u EXCEPT !.revision = @ + 1]
  OBVIOUS
<1> HIDE DEF u
<1>4. DOMAIN t = SessionFields /\ \A x \in SessionFields \ {"revision"} : t[x] = u[x]
  BY <1>2, <1>3
<1>5. t.world = w /\ t.networks = s.networks /\ t.project = s.project /\ t.saved = s.saved /\ t.checkpoints = s.checkpoints
  BY <1>2, <1>4 DEF SessionFields
<1>6. t.networks \in Seq(DOMAIN LanesOf) /\ t.project \in Nat \ {0} /\ Len(t.networks) = t.project
  BY <1>5 DEF SessionSound
<1>7. t.networks[t.project] = t.world.network
  BY <1>5 DEF SessionSound
<1>8. WorldSound(t.world) /\ (t.saved = {} \/ \E x : t.saved = {x} /\ WorldSound(x))
  BY <1>5 DEF SessionSound
<1>9. t.checkpoints = Nil \/ \E x : t.checkpoints = {<<x>>}
  BY <1>5 DEF SessionSound
<1> QED
  BY <1>4, <1>5, <1>6, <1>7, <1>8, <1>9 DEF SessionSound

\* A vehicle that keeps its place in the fleet.
LEMMA VehicleStaysSound ==
  ASSUME NEW vehicles, FleetSound(vehicles), NEW i \in DOMAIN vehicles, NEW x, DOMAIN x = VehicleFields, x.id = vehicles[i].id
  PROVE  FleetSound([vehicles EXCEPT ![i] = x])
<1> DEFINE u == [vehicles EXCEPT ![i] = x]
<1>1. DOMAIN u = DOMAIN vehicles /\ \A k \in DOMAIN u : u[k] = IF k = i THEN x ELSE vehicles[k]
  OBVIOUS
<1> HIDE DEF u
<1>2. \A k \in DOMAIN u : DOMAIN u[k] = VehicleFields /\ u[k].id = vehicles[k].id
  BY <1>1 DEF FleetSound
<1>3. FleetSound(u)
  BY <1>1, <1>2 DEF FleetSound
<1> QED
  BY <1>3 DEF u

\* A world of new vehicles without incidents.
LEMMA NewWorldSound ==
  ASSUME NEW network \in DOMAIN LanesOf, NEW fleet \in {"own", "demo"}, NEW serial
  PROVE  WorldSound(NewWorld(network, fleet, serial)) /\ NewWorld(network, fleet, serial).network = network
<1> DEFINE w == NewWorld(network, fleet, serial)
           F == FleetOf[fleet]
<1>1. Len(F) \in Nat /\ DOMAIN F = 1 .. Len(F) /\ \A i, k \in DOMAIN F : F[i].id = F[k].id => i = k
  BY FrameStreamAssumption
<1>2. w.network = network /\ DOMAIN w = WorldFields /\ w.vehicles = [i \in DOMAIN F |-> NewVehicle(F[i])]
      /\ w.interrupted = 0 /\ w.faults = <<>> /\ w.started = 0 /\ w.emergencies = <<>>
  BY DEF NewWorld, WorldFields
<1> HIDE DEF F, w
<1>3. \A p : DOMAIN NewVehicle(p) = VehicleFields /\ NewVehicle(p).id = p.id
  BY DEF NewVehicle, VehicleFields
<1>4. DOMAIN w.vehicles = DOMAIN F /\ \A i \in DOMAIN F : w.vehicles[i] = NewVehicle(F[i])
  BY <1>2
<1>5. \A i \in DOMAIN F : DOMAIN w.vehicles[i] = VehicleFields /\ w.vehicles[i].id = F[i].id
  BY <1>3, <1>4
<1>6. FleetSound(w.vehicles)
  BY <1>1, <1>4, <1>5 DEF FleetSound
<1>7. WorldSound(w)
  BY <1>2, <1>6 DEF WorldSound, IncidentsOfMarkers
<1> QED
  BY <1>2, <1>7 DEF w

\* A command that replaces the simulation keeps the session sound.
LEMMA ReplaceSound ==
  ASSUME NEW s, SessionSound(s), NEW w, WorldSound(w), NEW t, NEW n,
         \/ n = s /\ w.network = s.world.network
         \/ n = [s EXCEPT !.project = @ + 1, !.networks = Append(@, w.network)]
         \/ n = [s EXCEPT !.restore = "none"] /\ w.network = s.world.network,
         t = [[n EXCEPT !.world = w, !.generation = @ + 1] EXCEPT !.revision = @ + 1]
  PROVE  SessionSound(t) /\ Extends(s.networks, t.networks)
<1>1. DOMAIN s = SessionFields /\ s.networks \in Seq(DOMAIN LanesOf) /\ s.project \in Nat \ {0} /\ Len(s.networks) = s.project
  BY DEF SessionSound
<1>2. /\ DOMAIN n = SessionFields /\ n.saved = s.saved /\ n.checkpoints = s.checkpoints
      /\ \/ n.project = s.project /\ n.networks = s.networks /\ w.network = s.world.network
         \/ n.project = s.project + 1 /\ n.networks = Append(s.networks, w.network)
  BY <1>1 DEF SessionFields
<1> DEFINE u == [n EXCEPT !.world = w, !.generation = @ + 1]
<1>3. /\ DOMAIN u = SessionFields /\ u.world = w /\ u.saved = n.saved /\ u.checkpoints = n.checkpoints /\ u.project = n.project
      /\ u.networks = n.networks
  BY <1>2 DEF SessionFields
<1>4. t = [u EXCEPT !.revision = @ + 1]
  OBVIOUS
<1> HIDE DEF u
<1>5. /\ DOMAIN t = SessionFields /\ t.world = w /\ t.saved = s.saved /\ t.checkpoints = s.checkpoints /\ t.project = n.project
      /\ t.networks = n.networks
  BY <1>2, <1>3, <1>4 DEF SessionFields
<1>6. w.network \in DOMAIN LanesOf
  BY DEF WorldSound
<1>7. /\ t.networks \in Seq(DOMAIN LanesOf) /\ t.project \in Nat \ {0} /\ Len(t.networks) = t.project
      /\ t.networks[t.project] = w.network /\ Extends(s.networks, t.networks)
  <2>1. CASE n.project = s.project /\ n.networks = s.networks /\ w.network = s.world.network
    <3>1. t.networks = s.networks /\ t.project = s.project
      BY <1>5, <2>1
    <3>2. s.networks[s.project] = s.world.network
      BY DEF SessionSound
    <3> QED
      BY <1>1, <2>1, <3>1, <3>2 DEF Extends
  <2>2. CASE n.project = s.project + 1 /\ n.networks = Append(s.networks, w.network)
    <3> DEFINE q == s.networks
    <3>1. t.networks = Append(q, w.network) /\ t.project = Len(q) + 1 /\ q \in Seq(DOMAIN LanesOf)
      BY <1>1, <1>5, <2>2
    <3> HIDE DEF q
    <3>2. Append(q, w.network) \in Seq(DOMAIN LanesOf) /\ Len(Append(q, w.network)) = Len(q) + 1 /\ Len(q) \in Nat
          /\ Append(q, w.network)[Len(q) + 1] = w.network /\ \A k \in 1 .. Len(q) : Append(q, w.network)[k] = q[k]
      BY <1>6, <3>1
    <3>3. Extends(q, t.networks)
      BY <3>1, <3>2 DEF Extends
    <3>4. t.networks \in Seq(DOMAIN LanesOf) /\ t.project \in Nat \ {0} /\ Len(t.networks) = t.project /\ t.networks[t.project] = w.network
      BY <3>1, <3>2
    <3> QED
      BY <3>3, <3>4 DEF q
  <2> QED
    BY <1>2, <2>1, <2>2
<1>8. WorldSound(t.world) /\ (t.saved = {} \/ \E x : t.saved = {x} /\ WorldSound(x))
  BY <1>5 DEF SessionSound
<1>9. t.checkpoints = Nil \/ \E x : t.checkpoints = {<<x>>}
  BY <1>5 DEF SessionSound
<1> QED
  BY <1>5, <1>7, <1>8, <1>9 DEF SessionSound

\* A step of the simulation that became w.
LEMMA WorldStepSound ==
  ASSUME SessionSound(session), NEW w, WorldSound(w), w.network = session.world.network, Became(w) \/ Ticked(w)
  PROVE  SessionSound(session') /\ Extends(session.networks, session'.networks)
<1> DEFINE u == [w EXCEPT !.tick = @ + 1]
<1>1. WorldSound(u) /\ u.network = w.network
  <2>1. DOMAIN w = WorldFields
    BY DEF WorldSound
  <2>2. DOMAIN u = WorldFields /\ \A x \in WorldFields \ {"tick"} : u[x] = w[x]
    BY <2>1
  <2> HIDE DEF u
  <2>3. /\ u.network = w.network /\ u.vehicles = w.vehicles /\ u.interrupted = w.interrupted /\ u.faults = w.faults /\ u.started = w.started
        /\ u.emergencies = w.emergencies
    BY <2>2 DEF WorldFields
  <2> QED
    BY <2>2, <2>3 DEF WorldSound, IncidentsOfMarkers
<1>2. PICK x \in {w, u} : session' = [[session EXCEPT !.world = x] EXCEPT !.revision = @ + 1]
  BY DEF Became, Ticked, Revised
<1>3. WorldSound(x) /\ x.network = session.world.network
  BY <1>1
<1> HIDE DEF u
<1>4. SessionSound(session') /\ session'.networks = session.networks
  BY <1>2, <1>3, BecameSound
<1>5. Len(session.networks) \in Nat
  BY DEF SessionSound
<1> QED
  BY <1>4, <1>5 DEF Extends

\* The fields of a vehicle and its identity stay.
Placed(x, v) == DOMAIN x = VehicleFields /\ x.id = v.id

\* A world in which one vehicle and the incidents changed.
LEMMA WorldParts ==
  ASSUME NEW w, WorldSound(w), NEW i \in DOMAIN w.vehicles, NEW x, Placed(x, w.vehicles[i]), NEW u, DOMAIN u = WorldFields,
         u.network = w.network, u.vehicles = [w.vehicles EXCEPT ![i] = x],
         u.interrupted = w.interrupted \/ MarkersOf[w.network].incident,
         (u.faults = w.faults /\ u.started = w.started) \/ MarkersOf[w.network].fault,
         u.emergencies = w.emergencies \/ u.emergencies = <<>> \/ MarkersOf[w.network].emergency
  PROVE  WorldSound(u)
<1>1. FleetSound(u.vehicles)
  BY VehicleStaysSound DEF WorldSound, Placed
<1>2. IncidentsOfMarkers(u)
  BY DEF WorldSound, IncidentsOfMarkers
<1> QED
  BY <1>1, <1>2 DEF WorldSound

\* Only one vehicle changed.
LEMMA VehicleStep ==
  ASSUME SessionSound(session), NEW i \in Vehicles, NEW x, Placed(x, session.world.vehicles[i]),
         Ticked([session.world EXCEPT !.vehicles[i] = x])
  PROVE  SessionSound(session') /\ Extends(session.networks, session'.networks)
<1> DEFINE w == session.world
           vs == [w.vehicles EXCEPT ![i] = x]
           u == [w EXCEPT !.vehicles = vs]
<1>1. WorldSound(w) /\ i \in DOMAIN w.vehicles /\ Ticked(u)
  BY DEF SessionSound, Vehicles
<1>2. DOMAIN w = WorldFields
  BY <1>1 DEF WorldSound
<1>3. vs = [w.vehicles EXCEPT ![i] = x] /\ Placed(x, w.vehicles[i])
  OBVIOUS
<1> HIDE DEF w, vs
<1>4. /\ DOMAIN u = WorldFields /\ u.network = w.network /\ u.vehicles = vs /\ u.interrupted = w.interrupted
      /\ u.faults = w.faults /\ u.started = w.started /\ u.emergencies = w.emergencies
  BY <1>2 DEF WorldFields
<1> HIDE DEF u
<1>5. WorldSound(u)
  BY <1>1, <1>3, <1>4, WorldParts
<1> QED
  BY <1>1, <1>4, <1>5, WorldStepSound DEF w

\* The vehicles of a sound session have their fields.
LEMMA VehicleOf ==
  ASSUME SessionSound(session), NEW i \in Vehicles
  PROVE  Placed(session.world.vehicles[i], session.world.vehicles[i])
BY DEF SessionSound, WorldSound, FleetSound, Vehicles, Placed

\* The markers of the network of a session.
LEMMA MarkersSound ==
  ASSUME SessionSound(session)
  PROVE  /\ session.world.faults # <<>> => MarkersOf[session.world.network].fault /\ MarkersOf[session.world.network].incident
         /\ session.world.emergencies # <<>> => MarkersOf[session.world.network].emergency /\ MarkersOf[session.world.network].incident
<1>1. /\ session.world.network \in DOMAIN LanesOf
      /\ session.world.faults # <<>> => MarkersOf[session.world.network].fault
      /\ session.world.emergencies # <<>> => MarkersOf[session.world.network].emergency
  BY DEF SessionSound, WorldSound, IncidentsOfMarkers
<1> QED
  BY <1>1, FrameStreamAssumption

\* A request of a trip: the world changes only in its counters and its queue.
LEMMA RequestTripSound ==
  ASSUME SessionSound(session), RequestTrip
  PROVE  SessionSound(session') /\ Extends(session.networks, session'.networks)
<1>1. PICK id : Became([session.world EXCEPT !.submitted = @ + 1, !.pending = Append(@, RequestOf(id, NoID, NoID))])
  BY DEF RequestTrip
<1> DEFINE w == session.world
           p == Append(w.pending, RequestOf(id, NoID, NoID))
           u == [w EXCEPT !.submitted = @ + 1, !.pending = p]
<1>2. WorldSound(w) /\ Became(u)
  BY <1>1 DEF SessionSound
<1> HIDE DEF p, w
<1>3. /\ DOMAIN u = WorldFields /\ u.network = w.network /\ u.vehicles = w.vehicles /\ u.interrupted = w.interrupted
      /\ u.faults = w.faults /\ u.started = w.started /\ u.emergencies = w.emergencies
  BY <1>2 DEF WorldFields, WorldSound
<1> HIDE DEF u
<1>4. WorldSound(u)
  BY <1>2, <1>3 DEF WorldSound, IncidentsOfMarkers
<1> QED
  BY <1>2, <1>3, <1>4, WorldStepSound DEF w

\* boardTrip: a boarding changes the riders and the stops of one vehicle.
LEMMA BoardSound ==
  ASSUME SessionSound(session), NEW i \in Vehicles, Board(i)
  PROVE  SessionSound(session') /\ Extends(session.networks, session'.networks)
<1> DEFINE w == session.world
           v == w.vehicles[i]
<1>1. PICK k, trip, records : Ticked([w EXCEPT !.pending = Without(@, k), !.vehicles[i] = Boarded(v, trip, records)])
  BY DEF Board
<1> DEFINE x == Boarded(v, trip, records)
           p == Without(w.pending, k)
           vs == [w.vehicles EXCEPT ![i] = x]
           u == [w EXCEPT !.pending = p, !.vehicles = vs]
<1>2. WorldSound(w) /\ i \in DOMAIN w.vehicles /\ Ticked(u) /\ Placed(v, v)
  BY <1>1, VehicleOf DEF SessionSound, Vehicles
<1>3. Placed(x, v)
  <2> DEFINE journey == IF ActiveIn(v) = {} THEN [v EXCEPT !.riders = {<<>>}, !.records = Nil, !.stops = {<<>>}, !.ridden = 0] ELSE v
  <2>1. Placed(journey, v)
    BY <1>2 DEF Placed, VehicleFields
  <2> DEFINE r == {Append(The(journey.riders), [trip EXCEPT !.pod = v.id])}
             s == IF trip.to \in ToSet(Items(journey.stops)) THEN journey.stops ELSE {Append(Items(journey.stops), trip.to)}
  <2>2. x = [journey EXCEPT !.riders = r, !.records = records, !.activity = "Boarding", !.stops = s]
    BY DEF Boarded
  <2> HIDE DEF journey, r, s, x, v
  <2> QED
    BY <2>1, <2>2 DEF Placed, VehicleFields
<1>4. vs = [w.vehicles EXCEPT ![i] = x] /\ Placed(x, w.vehicles[i])
  BY <1>3
<1> HIDE DEF w, vs, v, x, p
<1>5. /\ DOMAIN u = WorldFields /\ u.network = w.network /\ u.vehicles = vs /\ u.interrupted = w.interrupted
      /\ u.faults = w.faults /\ u.started = w.started /\ u.emergencies = w.emergencies
  BY <1>2 DEF WorldFields, WorldSound
<1> HIDE DEF u
<1>6. WorldSound(u)
  BY <1>2, <1>4, <1>5, WorldParts
<1> QED
  BY <1>2, <1>5, <1>6, WorldStepSound DEF w

\* A departure, a move of the simulation or a vehicle that meets debris.
LEMMA DriveSound ==
  ASSUME SessionSound(session), NEW i \in Vehicles, Depart(i) \/ Drive(i) \/ BlockByDebris(i)
  PROVE  SessionSound(session') /\ Extends(session.networks, session'.networks)
<1> DEFINE v == session.world.vehicles[i]
<1>1. Placed(v, v)
  BY VehicleOf
<1>2. CASE Depart(i)
  <2>1. PICK lane : Ticked([session.world EXCEPT !.vehicles[i] =
                          [v EXCEPT !.activity = "Traveling", !.station = NoID, !.lane = lane, !.motion = 0, !.identity = NextIdentity(v),
                                    !.lanes = <<lane>>, !.current = 0]])
    BY <1>2 DEF Depart
  <2> DEFINE x == [v EXCEPT !.activity = "Traveling", !.station = NoID, !.lane = lane, !.motion = 0, !.identity = NextIdentity(v),
                                    !.lanes = <<lane>>, !.current = 0]
  <2>2. Placed(x, v)
    <3> DEFINE n == NextIdentity(v)
    <3> HIDE DEF v, n
    <3> QED
      BY <1>1 DEF Placed, VehicleFields
  <2> HIDE DEF x
  <2> QED
    BY <2>1, <2>2, VehicleStep DEF x
<1>3. CASE Drive(i)
  <2> DEFINE x == [v EXCEPT !.motion = 1, !.ridden = @ + 1]
  <2>1. Ticked([session.world EXCEPT !.vehicles[i] = x])
    BY <1>3 DEF Drive
  <2>2. Placed(x, v)
    <3> HIDE DEF v
    <3> QED
      BY <1>1 DEF Placed, VehicleFields
  <2> HIDE DEF x
  <2> QED
    BY <2>1, <2>2, VehicleStep
<1>4. CASE BlockByDebris(i)
  <2>1. PICK serial : Ticked([session.world EXCEPT !.vehicles[i] = [v EXCEPT !.blockedBy = serial]])
    BY <1>4 DEF BlockByDebris
  <2> DEFINE x == [v EXCEPT !.blockedBy = serial]
  <2>2. Placed(x, v) /\ Ticked([session.world EXCEPT !.vehicles[i] = x])
    BY <1>1, <2>1 DEF Placed, VehicleFields
  <2> HIDE DEF x
  <2> QED
    BY <2>2, VehicleStep
<1> QED
  BY <1>2, <1>3, <1>4

\* unload: an arrival changes the riders, the records and the stops of one vehicle.
LEMMA ArriveSound ==
  ASSUME SessionSound(session), NEW i \in Vehicles, Arrive(i)
  PROVE  SessionSound(session') /\ Extends(session.networks, session'.networks)
<1> DEFINE v == session.world.vehicles[i]
           here == LaneTo[v.lane]
           riders == IF v.riders = Nil \/ v.op = "unload" THEN v.riders ELSE {Completed(The(v.riders), here, 0)}
           stops == ListSlice(Selected(Items(v.stops), {k \in DOMAIN Items(v.stops) : Items(v.stops)[k] # here}))
           arrived == [v EXCEPT !.riders = riders, !.station = here, !.lane = NoLane, !.motion = 0, !.current = 1, !.stops = stops]
           x == IF ActiveIn(arrived) # {} THEN [arrived EXCEPT !.activity = "Continuing"]
                ELSE [arrived EXCEPT !.activity = "Idle", !.op = "service", !.stops = Nil, !.withdrawn = @ \ {"fault"}]
<1>1. Placed(v, v)
  BY VehicleOf
<1>2. Ticked([session.world EXCEPT !.vehicles[i] = x])
  BY DEF Arrive
<1>3. Placed(arrived, v)
  <2> HIDE DEF v, here, riders, stops
  <2> QED
    BY <1>1 DEF Placed, VehicleFields
<1>4. Placed(x, v)
  <2> HIDE DEF v, arrived
  <2> QED
    BY <1>3 DEF Placed, VehicleFields
<1> HIDE DEF x
<1> QED
  BY <1>2, <1>4, VehicleStep

\* A fault withdraws its vehicle.
LEMMA StartFaultSound ==
  ASSUME SessionSound(session), NEW i \in Vehicles, StartFault(i)
  PROVE  SessionSound(session') /\ Extends(session.networks, session'.networks)
<1> DEFINE w == session.world
           v == w.vehicles[i]
           x == [v EXCEPT !.withdrawn = @ \cup {"fault"}, !.blockedBy = w.serial]
           f == Append(w.faults, [serial |-> w.serial, pod |-> v.id, lane |-> NoLane, start |-> w.tick])
           vs == [w.vehicles EXCEPT ![i] = x]
           u == [w EXCEPT !.faults = f, !.serial = @ + 1, !.started = @ + 1, !.vehicles = vs]
<1>1. Became(u) /\ MarkersOf[w.network].fault
  BY DEF StartFault, Markers
<1>2. WorldSound(w) /\ i \in DOMAIN w.vehicles /\ Placed(v, v)
  BY VehicleOf DEF SessionSound, Vehicles
<1>3. Placed(x, v)
  <2> HIDE DEF v, w
  <2> QED
    BY <1>2 DEF Placed, VehicleFields
<1>4. vs = [w.vehicles EXCEPT ![i] = x] /\ Placed(x, w.vehicles[i])
  BY <1>3
<1> HIDE DEF w, vs, v, x, f
<1>5. /\ DOMAIN u = WorldFields /\ u.network = w.network /\ u.vehicles = vs /\ u.interrupted = w.interrupted
      /\ u.emergencies = w.emergencies
  BY <1>2 DEF WorldFields, WorldSound
<1> HIDE DEF u
<1>6. WorldSound(u)
  <2>1. FleetSound(u.vehicles)
    BY <1>1, <1>2, <1>4, <1>5, VehicleStaysSound DEF WorldSound, Placed
  <2>2. IncidentsOfMarkers(u)
    BY <1>1, <1>2, <1>4, <1>5 DEF WorldSound, IncidentsOfMarkers
  <2> QED
    BY <2>1, <2>2, <1>1, <1>2, <1>4, <1>5 DEF WorldSound
<1> QED
  BY <1>1, <1>5, <1>6, WorldStepSound DEF w

\* Debris on a lane is a fault of no vehicle.
LEMMA StartDebrisSound ==
  ASSUME SessionSound(session), NEW lane, StartDebris(lane)
  PROVE  SessionSound(session') /\ Extends(session.networks, session'.networks)
<1> DEFINE w == session.world
           f == Append(w.faults, [serial |-> w.serial, pod |-> NoID, lane |-> lane, start |-> w.tick])
           u == [w EXCEPT !.faults = f, !.serial = @ + 1, !.started = @ + 1]
<1>1. Became(u) /\ MarkersOf[w.network].fault
  BY DEF StartDebris, Markers
<1>2. WorldSound(w)
  BY DEF SessionSound
<1> HIDE DEF w, f
<1>3. /\ DOMAIN u = WorldFields /\ u.network = w.network /\ u.vehicles = w.vehicles /\ u.interrupted = w.interrupted
      /\ u.emergencies = w.emergencies
  BY <1>2 DEF WorldFields, WorldSound
<1> HIDE DEF u
<1>4. WorldSound(u)
  BY <1>1, <1>2, <1>3 DEF WorldSound, IncidentsOfMarkers
<1> QED
  BY <1>1, <1>3, <1>4, WorldStepSound DEF w

\* The fault that is cleared leaves the list, and its vehicle serves again.
LEMMA ClearFaultSound ==
  ASSUME SessionSound(session), ClearFault
  PROVE  SessionSound(session') /\ Extends(session.networks, session'.networks)
<1> DEFINE w == session.world
<1>1. PICK k \in DOMAIN w.faults : LET record == w.faults[k]
               inService == [i \in Vehicles |-> IF w.vehicles[i].id = record.pod THEN Recovered(w.vehicles[i]) ELSE w.vehicles[i]]
           IN  Became([w EXCEPT !.faults = Without(@, k), !.vehicles = EndFaultReports(inService, record.serial)])
  BY DEF ClearFault
<1> DEFINE record == w.faults[k]
           one(i) == IF w.vehicles[i].id = record.pod THEN Recovered(w.vehicles[i]) ELSE w.vehicles[i]
           vs == EndFaultReports([i \in Vehicles |-> one(i)], record.serial)
           f == Without(w.faults, k)
           u == [w EXCEPT !.faults = f, !.vehicles = vs]
<1>2. Became(u)
  BY <1>1
<1>3. WorldSound(w) /\ Vehicles = DOMAIN w.vehicles /\ w.faults # <<>>
  BY <1>1 DEF SessionSound, Vehicles
<1>4. \A i \in Vehicles : Placed(w.vehicles[i], w.vehicles[i])
  BY VehicleOf
<1>5. \A i \in Vehicles : Placed(one(i), w.vehicles[i])
  <2> SUFFICES ASSUME NEW i \in Vehicles PROVE Placed(one(i), w.vehicles[i])
    OBVIOUS
  <2> DEFINE v == w.vehicles[i]
  <2>1. Placed(v, v) /\ one(i) \in {[v EXCEPT !.withdrawn = @ \ {"fault"}, !.op = IF "emergency" \in v.withdrawn THEN "unload" ELSE @], v}
    BY <1>4 DEF Recovered
  <2> HIDE DEF v, one
  <2>2. Placed(one(i), v)
    BY <2>1 DEF Placed, VehicleFields
  <2> QED
    BY <2>2 DEF v
<1>6. DOMAIN vs = Vehicles /\ \A i \in Vehicles : vs[i] = [one(i) EXCEPT !.blockedBy = IF one(i).blockedBy = record.serial THEN 0 ELSE one(i).blockedBy]
  <2> HIDE DEF one
  <2> QED
    BY DEF EndFaultReports
<1> HIDE DEF one, vs, f
<1>7. \A i \in Vehicles : Placed(vs[i], w.vehicles[i])
  <2> SUFFICES ASSUME NEW i \in Vehicles PROVE Placed(vs[i], w.vehicles[i])
    OBVIOUS
  <2> DEFINE b == IF one(i).blockedBy = record.serial THEN 0 ELSE one(i).blockedBy
             y == one(i)
  <2>1. vs[i] = [y EXCEPT !.blockedBy = b] /\ Placed(y, w.vehicles[i])
    BY <1>5, <1>6
  <2> HIDE DEF b, y, w
  <2> QED
    BY <2>1 DEF Placed, VehicleFields
<1>8. FleetSound(vs)
  BY <1>3, <1>6, <1>7 DEF WorldSound, FleetSound, Placed
<1>9. MarkersOf[w.network].fault
  BY <1>3, MarkersSound
<1> HIDE DEF w
<1>10. /\ DOMAIN u = WorldFields /\ u.network = w.network /\ u.vehicles = vs /\ u.interrupted = w.interrupted
       /\ u.emergencies = w.emergencies
  BY <1>3 DEF WorldFields, WorldSound
<1> HIDE DEF u
<1>11. WorldSound(u)
  BY <1>3, <1>8, <1>9, <1>10 DEF WorldSound, IncidentsOfMarkers
<1> QED
  BY <1>2, <1>10, <1>11, WorldStepSound DEF w

\* What an evacuation or an unloading leaves of a vehicle.
LEMMA EmptiedPlaced ==
  ASSUME NEW v, Placed(v, v)
  PROVE  Placed(Emptied(v), v)
<1> DEFINE riders == Kept(v, Items(v.riders))
           r == IF riders = <<>> THEN Nil ELSE {riders}
           q == IF riders = <<>> \/ v.records = Nil THEN Nil ELSE {Kept(v, The(v.records))}
<1>1. Emptied(v) = [v EXCEPT !.riders = r, !.records = q, !.stops = Nil]
  BY DEF Emptied
<1> HIDE DEF r, q
<1> QED
  BY <1>1 DEF Placed, VehicleFields

\* A vehicle that settles idle at its berth.
LEMMA SettledPlaced ==
  ASSUME NEW v, NEW y, Placed(y, v)
  PROVE  Placed(Settled(y), v)
<1> DEFINE n == NextIdentity(y)
<1>1. Settled(y) = [y EXCEPT !.activity = "Idle", !.op = "service", !.lanes = <<>>, !.identity = n, !.current = 0]
  BY DEF Settled
<1> HIDE DEF n
<1> QED
  BY <1>1 DEF Placed, VehicleFields

\* An evacuation interrupts the trips of the riders.
LEMMA EvacuateSound ==
  ASSUME SessionSound(session), NEW i \in Vehicles, Evacuate(i)
  PROVE  SessionSound(session') /\ Extends(session.networks, session'.networks)
<1> DEFINE w == session.world
           v == w.vehicles[i]
           y == [Emptied(v) EXCEPT !.withdrawn = @ \ {"emergency"}]
           x == IF v.lane # NoLane THEN [y EXCEPT !.op = "recovery", !.activity = "Relocating"] ELSE Settled(y)
           vs == [w.vehicles EXCEPT ![i] = x]
           n == w.interrupted + Cardinality(ActiveIn(v))
           e == IF w.emergencies # <<>> /\ w.emergencies[1].pod = v.id THEN <<>> ELSE w.emergencies
           u == [w EXCEPT !.interrupted = n, !.emergencies = e, !.vehicles = vs]
<1>1. Ticked(u) /\ Faulted(i)
  BY DEF Evacuate
<1>2. WorldSound(w) /\ i \in DOMAIN w.vehicles /\ Placed(v, v)
  BY VehicleOf DEF SessionSound, Vehicles
<1>3. MarkersOf[w.network].incident
  <2>1. w.faults # <<>>
    BY <1>1 DEF Faulted
  <2> QED
    BY <2>1, MarkersSound
<1>4. Placed(x, v)
  <2> DEFINE z == Emptied(v)
  <2>1. Placed(z, v) /\ y = [z EXCEPT !.withdrawn = @ \ {"emergency"}]
    BY <1>2, EmptiedPlaced
  <2> HIDE DEF v, y, z
  <2>2. Placed(y, v)
    BY <2>1 DEF Placed, VehicleFields
  <2>3. Placed(Settled(y), v)
    BY <2>2, SettledPlaced
  <2>4. Placed([y EXCEPT !.op = "recovery", !.activity = "Relocating"], v)
    BY <2>2 DEF Placed, VehicleFields
  <2> QED
    BY <2>3, <2>4
<1>5. vs = [w.vehicles EXCEPT ![i] = x] /\ Placed(x, w.vehicles[i]) /\ e \in {<<>>, w.emergencies}
  BY <1>4
<1> HIDE DEF w, vs, v, x, n, e
<1>6. /\ DOMAIN u = WorldFields /\ u.network = w.network /\ u.vehicles = vs /\ u.faults = w.faults /\ u.started = w.started
      /\ u.emergencies = e
  BY <1>2 DEF WorldFields, WorldSound
<1> HIDE DEF u
<1>7. WorldSound(u)
  <2>1. FleetSound(u.vehicles)
    BY <1>2, <1>3, <1>5, <1>6, VehicleStaysSound DEF WorldSound, Placed
  <2>2. IncidentsOfMarkers(u)
    BY <1>2, <1>3, <1>5, <1>6 DEF WorldSound, IncidentsOfMarkers
  <2> QED
    BY <2>1, <2>2, <1>2, <1>3, <1>5, <1>6 DEF WorldSound
<1> QED
  BY <1>1, <1>6, <1>7, WorldStepSound DEF w

\* An emergency withdraws its vehicle.
LEMMA StartEmergencySound ==
  ASSUME SessionSound(session), NEW i \in Vehicles, StartEmergency(i)
  PROVE  SessionSound(session') /\ Extends(session.networks, session'.networks)
<1> DEFINE w == session.world
           v == w.vehicles[i]
<1>1. MarkersOf[w.network].emergency /\ \E k : 
        Became([w EXCEPT !.emergencies = Append(@, [serial |-> w.serial, pod |-> v.id, order |-> Items(v.riders)[k].id, start |-> w.tick]),
                         !.serial = @ + 1, !.vehicles[i] = [v EXCEPT !.withdrawn = @ \cup {"emergency"}, !.op = IF Faulted(i) THEN @ ELSE "unload"]])
  BY DEF StartEmergency, Markers
<1>2. PICK k : 
        Became([w EXCEPT !.emergencies = Append(@, [serial |-> w.serial, pod |-> v.id, order |-> Items(v.riders)[k].id, start |-> w.tick]),
                         !.serial = @ + 1, !.vehicles[i] = [v EXCEPT !.withdrawn = @ \cup {"emergency"}, !.op = IF Faulted(i) THEN @ ELSE "unload"]])
  BY <1>1
<1> DEFINE x == [v EXCEPT !.withdrawn = @ \cup {"emergency"}, !.op = IF Faulted(i) THEN @ ELSE "unload"]
           e == Append(w.emergencies, [serial |-> w.serial, pod |-> v.id, order |-> Items(v.riders)[k].id, start |-> w.tick])
           vs == [w.vehicles EXCEPT ![i] = x]
           u == [w EXCEPT !.emergencies = e, !.serial = @ + 1, !.vehicles = vs]
<1>3. Became(u)
  BY <1>2
<1>4. WorldSound(w) /\ i \in DOMAIN w.vehicles /\ Placed(v, v)
  BY VehicleOf DEF SessionSound, Vehicles
<1>5. Placed(x, v)
  <2> HIDE DEF v
  <2> QED
    BY <1>4 DEF Placed, VehicleFields
<1>6. vs = [w.vehicles EXCEPT ![i] = x] /\ Placed(x, w.vehicles[i])
  BY <1>5
<1> HIDE DEF w, vs, v, x, e
<1>7. /\ DOMAIN u = WorldFields /\ u.network = w.network /\ u.vehicles = vs /\ u.faults = w.faults /\ u.started = w.started
      /\ u.interrupted = w.interrupted
  BY <1>4 DEF WorldFields, WorldSound
<1> HIDE DEF u
<1>8. WorldSound(u)
  <2>1. FleetSound(u.vehicles)
    BY <1>1, <1>4, <1>6, <1>7, VehicleStaysSound DEF WorldSound, Placed
  <2>2. IncidentsOfMarkers(u)
    BY <1>1, <1>4, <1>6, <1>7 DEF WorldSound, IncidentsOfMarkers
  <2> QED
    BY <2>1, <2>2, <1>1, <1>4, <1>6, <1>7 DEF WorldSound
<1> QED
  BY <1>3, <1>7, <1>8, WorldStepSound DEF w

\* An emergency unload lets the riders out.
LEMMA EmergencyUnloadSound ==
  ASSUME SessionSound(session), NEW i \in Vehicles, EmergencyUnload(i)
  PROVE  SessionSound(session') /\ Extends(session.networks, session'.networks)
<1> DEFINE w == session.world
           v == w.vehicles[i]
           record == w.emergencies[1]
           left == [v EXCEPT !.riders = {Completed(Items(@), v.station, record.order)}]
           others == {k \in ActiveIn(left) : Items(v.riders)[k].id # record.order}
           y == [Emptied(left) EXCEPT !.withdrawn = @ \ {"emergency"}]
           x == Settled(y)
           vs == [w.vehicles EXCEPT ![i] = x]
           n == w.interrupted + Cardinality(ActiveIn(left) \ others)
           p == w.pending \o [m \in 1 .. Cardinality(others) |-> RequestOf(Items(v.riders)[Nth(others, m)].id, v.station, NoID)]
           u == [w EXCEPT !.interrupted = n, !.pending = p, !.emergencies = <<>>, !.vehicles = vs]
<1>1. Ticked(u) /\ w.emergencies # <<>>
  BY Zenon DEF EmergencyUnload
<1>2. WorldSound(w) /\ i \in DOMAIN w.vehicles /\ Placed(v, v)
  BY VehicleOf DEF SessionSound, Vehicles
<1>3. MarkersOf[w.network].incident
  BY <1>1, MarkersSound
<1>4. Placed(x, v)
  <2> DEFINE r == {Completed(Items(v.riders), v.station, record.order)}
             z == Emptied(left)
  <2>1. left = [v EXCEPT !.riders = r]
    OBVIOUS
  <2>2. Placed(left, v) /\ Placed(left, left)
    <3> HIDE DEF r, v, left
    <3> QED
      BY <1>2, <2>1 DEF Placed, VehicleFields
  <2>3. Placed(z, v)
    <3> HIDE DEF left
    <3> QED
      BY <2>2, EmptiedPlaced DEF Placed
  <2>4. Placed(y, v)
    <3> HIDE DEF v, left, z
    <3>1. y = [z EXCEPT !.withdrawn = @ \ {"emergency"}]
      BY DEF z
    <3> HIDE DEF y
    <3> QED
      BY <2>3, <3>1 DEF Placed, VehicleFields
  <2> HIDE DEF y, v
  <2> QED
    BY <2>4, SettledPlaced
<1>5. vs = [w.vehicles EXCEPT ![i] = x] /\ Placed(x, w.vehicles[i])
  BY <1>4
<1> HIDE DEF w, vs, v, x, n, p
<1>6. /\ DOMAIN u = WorldFields /\ u.network = w.network /\ u.vehicles = vs /\ u.faults = w.faults /\ u.started = w.started
      /\ u.emergencies = <<>>
  BY <1>2 DEF WorldFields, WorldSound
<1> HIDE DEF u
<1>7. WorldSound(u)
  <2>1. FleetSound(u.vehicles)
    BY <1>2, <1>3, <1>5, <1>6, VehicleStaysSound DEF WorldSound, Placed
  <2>2. IncidentsOfMarkers(u)
    BY <1>2, <1>3, <1>5, <1>6 DEF WorldSound, IncidentsOfMarkers
  <2> QED
    BY <2>1, <2>2, <1>2, <1>3, <1>5, <1>6 DEF WorldSound
<1> QED
  BY <1>1, <1>6, <1>7, WorldStepSound DEF w

\* The commands that change the project of the session.
LEMMA ProjectSound ==
  ASSUME SessionSound(session), scene \in Scenes, ApplyProject \/ Rewind \/ StartDemo \/ Reset
  PROVE  SessionSound(session') /\ Extends(session.networks, session'.networks)
<1> DEFINE s == session
<1>1. CASE ApplyProject
  <2>1. PICK network \in scene.networks :
          Replace([s EXCEPT !.project = @ + 1, !.networks = Append(@, network)], NewWorld(network, "own", s.world.serial))
    BY <1>1 DEF ApplyProject
  <2>2. network \in DOMAIN LanesOf
    BY <2>1, FrameStreamAssumption
  <2> DEFINE w == NewWorld(network, "own", s.world.serial)
             n == [s EXCEPT !.project = @ + 1, !.networks = Append(@, network)]
  <2>3. WorldSound(w) /\ w.network = network
    BY <2>2, NewWorldSound
  <2>4. session' = [[n EXCEPT !.world = w, !.generation = @ + 1] EXCEPT !.revision = @ + 1]
    BY <2>1 DEF Replace, Revised
  <2>5. n = [s EXCEPT !.project = @ + 1, !.networks = Append(@, w.network)]
    BY <2>3
  <2> HIDE DEF w, n
  <2> QED
    BY <2>3, <2>4, <2>5, ReplaceSound
<1>2. CASE Rewind
  <2> DEFINE p == The(s.saved)
             w == [p EXCEPT !.serial = s.world.serial]
             n == IF w.network = s.world.network THEN s ELSE [s EXCEPT !.project = @ + 1, !.networks = Append(@, w.network)]
  <2>1. WorldSound(p)
    <3>1. PICK x : s.saved = {x} /\ WorldSound(x)
      BY <1>2 DEF Rewind, SessionSound
    <3> QED
      BY <3>1, TheOf
  <2>2. Replace(n, w)
    BY <1>2 DEF Rewind
  <2> HIDE DEF p
  <2>3. DOMAIN w = WorldFields /\ w.network = p.network /\ w.vehicles = p.vehicles /\ w.interrupted = p.interrupted /\ w.faults = p.faults
        /\ w.started = p.started /\ w.emergencies = p.emergencies
    BY <2>1 DEF WorldFields, WorldSound
  <2> HIDE DEF w
  <2>4. WorldSound(w)
    BY <2>1, <2>3 DEF WorldSound, IncidentsOfMarkers
  <2>5. session' = [[n EXCEPT !.world = w, !.generation = @ + 1] EXCEPT !.revision = @ + 1]
    BY <2>2 DEF Replace, Revised
  <2>6. (n = s /\ w.network = s.world.network) \/ n = [s EXCEPT !.project = @ + 1, !.networks = Append(@, w.network)]
    OBVIOUS
  <2> HIDE DEF n
  <2> QED
    BY <2>4, <2>5, <2>6, ReplaceSound
<1>3. CASE StartDemo
  <2> DEFINE w == NewWorld(s.world.network, "demo", s.world.serial)
  <2>1. s.world.network \in DOMAIN LanesOf
    BY DEF SessionSound, WorldSound
  <2>2. WorldSound(w) /\ w.network = s.world.network
    BY <2>1, NewWorldSound
  <2>3. session' = [[s EXCEPT !.world = w, !.generation = @ + 1] EXCEPT !.revision = @ + 1]
    BY <1>3 DEF StartDemo, Replace, Revised
  <2> HIDE DEF w
  <2> QED
    BY <2>2, <2>3, ReplaceSound
<1>4. CASE Reset
  <2> DEFINE w == NewWorld(s.world.network, "own", s.world.serial)
             n == [s EXCEPT !.restore = "none"]
  <2>1. s.world.network \in DOMAIN LanesOf
    BY DEF SessionSound, WorldSound
  <2>2. WorldSound(w) /\ w.network = s.world.network
    BY <2>1, NewWorldSound
  <2>3. session' = [[n EXCEPT !.world = w, !.generation = @ + 1] EXCEPT !.revision = @ + 1]
    BY <1>4 DEF Reset, Replace, Revised
  <2>4. n = [s EXCEPT !.restore = "none"]
    OBVIOUS
  <2> HIDE DEF w, n
  <2> QED
    BY <2>2, <2>3, <2>4, ReplaceSound
<1> QED
  BY <1>1, <1>2, <1>3, <1>4

\* The commands that keep the project of the session.
LEMMA ControlsSound ==
  ASSUME SessionSound(session), SetSpeed \/ SavePoint \/ Restart
  PROVE  SessionSound(session') /\ Extends(session.networks, session'.networks)
<1> DEFINE s == session
<1>1. DOMAIN s = SessionFields /\ Len(s.networks) \in Nat
  BY DEF SessionSound
<1>2. /\ DOMAIN session' = SessionFields /\ session'.networks = s.networks /\ session'.project = s.project /\ session'.world = s.world
      /\ session'.saved = s.saved \/ session'.saved = {s.world} \/ session'.saved = {}
      /\ session'.checkpoints = s.checkpoints \/ session'.checkpoints = {<<s.revision>>} \/ session'.checkpoints = Nil
  <2>1. CASE SetSpeed
    <3>1. session' = [[s EXCEPT !.speed = 2] EXCEPT !.revision = @ + 1]
      BY <2>1 DEF SetSpeed, Revised
    <3> HIDE DEF s
    <3> QED
      BY <1>1, <3>1 DEF SessionFields
  <2>2. CASE SavePoint
    <3> DEFINE c == {<<s.revision>>}
               v == {s.world}
    <3>1. session' = [[s EXCEPT !.saved = v, !.checkpoints = c] EXCEPT !.revision = @ + 1]
      BY <2>2 DEF SavePoint, Revised
    <3>2. c = {<<s.revision>>} /\ v = {s.world}
      OBVIOUS
    <3> HIDE DEF s, c, v
    <3>3. /\ DOMAIN session' = SessionFields /\ session'.networks = s.networks /\ session'.project = s.project /\ session'.world = s.world
          /\ session'.saved = v /\ session'.checkpoints = c
      BY <1>1, <3>1 DEF SessionFields
    <3> QED
      BY <3>2, <3>3
  <2>3. CASE Restart
    <3>1. session' = [s EXCEPT !.start = 2, !.revision = @ + 1, !.generation = @ + 1, !.restore = "physical", !.saved = {}, !.checkpoints = Nil]
      BY <2>3 DEF Restart
    <3> HIDE DEF s
    <3> QED
      BY <1>1, <3>1 DEF SessionFields
  <2> QED
    BY <2>1, <2>2, <2>3
<1>3. session'.saved = {} \/ \E w : session'.saved = {w} /\ WorldSound(w)
  BY <1>2 DEF SessionSound
<1>4. session'.checkpoints = Nil \/ \E x : session'.checkpoints = {<<x>>}
  BY <1>2 DEF SessionSound
<1>5. SessionSound(session')
  <2>1. /\ session'.networks \in Seq(DOMAIN LanesOf) /\ session'.project \in Nat \ {0} /\ Len(session'.networks) = session'.project
        /\ session'.networks[session'.project] = session'.world.network /\ WorldSound(session'.world)
    BY <1>2 DEF SessionSound
  <2> QED
    BY <1>2, <1>3, <1>4, <2>1 DEF SessionSound
<1>6. Extends(s.networks, session'.networks)
  BY <1>1, <1>2 DEF Extends
<1> QED
  BY <1>5, <1>6

\* Every step of the session keeps it sound and its projects what they were.
LEMMA SessionStepSound ==
  ASSUME SessionSound(session), scene \in Scenes, SessionStep \/ Restart
  PROVE  SessionSound(session') /\ Extends(session.networks, session'.networks)
<1>1. CASE Restart
  BY <1>1, ControlsSound
<1>2. CASE SessionStep
  <2>1. CASE RequestTrip
    BY <2>1, RequestTripSound
  <2>2. CASE SetSpeed \/ SavePoint
    BY <2>2, ControlsSound
  <2>3. CASE ApplyProject \/ Rewind \/ StartDemo \/ Reset
    BY <2>3, ProjectSound
  <2>4. CASE ClearFault
    BY <2>4, ClearFaultSound
  <2>5. ASSUME NEW i \in Vehicles, \/ Board(i) \/ Depart(i) \/ Drive(i) \/ Arrive(i)
                              \/ StartFault(i) \/ BlockByDebris(i) \/ Evacuate(i) \/ StartEmergency(i) \/ EmergencyUnload(i)
        PROVE  SessionSound(session') /\ Extends(session.networks, session'.networks)
    BY <2>5, BoardSound, DriveSound, ArriveSound, StartFaultSound, EvacuateSound, StartEmergencySound, EmergencyUnloadSound
  <2>6. ASSUME NEW lane \in LanesOf[session.world.network], StartDebris(lane)
        PROVE  SessionSound(session') /\ Extends(session.networks, session'.networks)
    BY <2>6, StartDebrisSound
  <2> QED
    BY <1>2, <2>1, <2>2, <2>3, <2>4, <2>5, <2>6 DEF SessionStep
<1> QED
  BY <1>1, <1>2

-----------------------------------------------------------------------------
\* A list makes no slice that is empty and not nil.
LEMMA ListSliceOmitted == \A list : Omitted(ListSlice(list)) = ListSlice(list)
<1> SUFFICES ASSUME NEW list PROVE Omitted(ListSlice(list)) = ListSlice(list)
  OBVIOUS
<1>1. CASE list = <<>>
  BY <1>1, OmittedItems DEF ListSlice
<1>2. CASE list # <<>>
  <2>1. ListSlice(list) = {list} /\ Items({list}) = list
    BY <1>2, OmittedItems DEF ListSlice
  <2> QED
    BY <1>2, <2>1 DEF Omitted
<1> QED
  BY <1>1, <1>2

\* presentationFrame: the frame of a sound session is a made one, under the markers of its project.
LEMMA FrameMade ==
  ASSUME SessionSound(session)
  PROVE  /\ Made(PresentationFrame) /\ PresentationFrame.source.project = session.project
         /\ PresentationFrame.markers = MarkersOf[session.networks[session.project]]
<1> DEFINE w == session.world
           m == MarkersOf[w.network]
           f == PresentationFrame
           vs == [i \in DOMAIN w.vehicles |-> VehicleFrame(w.vehicles[i])]
           rs == [i \in DOMAIN w.vehicles |-> RouteFrame(w.vehicles[i])]
           bs == [b \in Berths |-> OccupantOf(w, b)]
           fa == [active |-> ListSlice(w.faults), started |-> w.started]
           em == [active |-> ListSlice(w.emergencies), started |-> 0]
           gl == [submitted |-> w.submitted, tick |-> w.tick, demo |-> w.demo]
           pe == ListSlice(w.pending)
           gr == [controls |-> session.speed, checkpoints |-> session.checkpoints, restore |-> session.restore,
                     global |-> gl, pending |-> pe, incident |-> w.interrupted, faults |-> fa, emergencies |-> em]
           so == [start |-> session.start, epoch |-> session.epoch, project |-> session.project,
                     generation |-> session.generation, revision |-> session.revision]
<1>1. f = [source |-> so, markers |-> m, groups |-> gr, vehicles |-> vs, routes |-> rs, berths |-> bs]
  BY DEF PresentationFrame, Markers
<1>2. WorldSound(w) /\ session.networks[session.project] = w.network
  BY DEF SessionSound
<1>3. so.project = session.project
  OBVIOUS
<1>4. m \in [order : BOOLEAN, incident : BOOLEAN, fault : BOOLEAN, emergency : BOOLEAN]
  BY <1>2, FrameStreamAssumption DEF WorldSound
<1>5. PICK n \in Nat : DOMAIN w.vehicles = 1 .. n
  BY <1>2 DEF WorldSound, FleetSound
<1>6. DOMAIN vs = DOMAIN w.vehicles /\ DOMAIN rs = DOMAIN w.vehicles
  OBVIOUS
<1>7. Len(vs) \in Nat /\ DOMAIN vs = 1 .. Len(vs)
  <2> DEFINE x(i) == VehicleFrame(w.vehicles[i])
  <2>1. vs = [i \in 1 .. n |-> x(i)]
    BY <1>5
  <2> HIDE DEF x, vs
  <2>2. vs \in Seq({x(i) : i \in 1 .. n})
    BY <2>1
  <2> QED
    BY <2>2
<1>8. \A i \in DOMAIN vs : /\ vs[i] = VehicleFrame(w.vehicles[i]) /\ IsVehicle(vs[i]) /\ IsPod(vs[i].pod) /\ vs[i].pod.id = w.vehicles[i].id
                           /\ Omitted(vs[i].boardings) = vs[i].boardings
  <2> SUFFICES ASSUME NEW i \in DOMAIN w.vehicles
               PROVE  /\ vs[i] = VehicleFrame(w.vehicles[i]) /\ IsVehicle(vs[i]) /\ IsPod(vs[i].pod) /\ vs[i].pod.id = w.vehicles[i].id
                      /\ Omitted(vs[i].boardings) = vs[i].boardings
    OBVIOUS
  <2> DEFINE v == w.vehicles[i]
             x == VehicleFrame(v)
  <2>1. vs[i] = x
    OBVIOUS
  <2> HIDE DEF v
  <2>2. IsVehicle(x) /\ x.boardings = ShownRecords(v) /\ x.pod.id = v.id
    BY DEF VehicleFrame, IsVehicle
  <2>3. IsPod(x.pod)
    BY DEF VehicleFrame, IsPod
  <2>4. Omitted(x.boardings) = x.boardings
    BY <2>2, OmittedItems DEF ShownRecords, Omitted
  <2> QED
    BY <2>1, <2>2, <2>3, <2>4 DEF v
<1>9. \A i, k \in DOMAIN vs : vs[i].pod.id = vs[k].pod.id => i = k
  BY <1>2, <1>6, <1>8 DEF WorldSound, FleetSound
<1>10. Omitted(pe) = pe /\ Omitted(fa.active) = fa.active /\ Omitted(em.active) = em.active
  BY ListSliceOmitted
<1>11. Omitted(session.checkpoints) = session.checkpoints
  <2>1. CASE session.checkpoints = Nil
    BY <2>1, OmittedItems
  <2>2. ASSUME NEW x, session.checkpoints = {<<x>>} PROVE Omitted(session.checkpoints) = session.checkpoints
    <3>1. Items({<<x>>}) = <<x>> /\ <<x>> # <<>>
      BY OmittedItems
    <3> QED
      BY <2>2, <3>1 DEF Omitted
  <2> QED
    BY <2>1, <2>2 DEF SessionSound
<1>12. /\ ~m.incident => w.interrupted = 0
       /\ ~m.fault => fa = NoIncidents
       /\ ~m.emergency => em = NoIncidents
  BY <1>2 DEF WorldSound, IncidentsOfMarkers, NoIncidents, ListSlice
<1>13. IsIncidents(fa) /\ IsIncidents(em)
  BY DEF IsIncidents
<1>14. vs = [i \in DOMAIN vs |-> vs[i]] /\ rs = [i \in DOMAIN vs |-> rs[i]] /\ bs = [b \in Berths |-> bs[b]]
  OBVIOUS
<1> HIDE DEF fa, em, gl, pe, vs, rs, bs, so, m, f
<1>15. IsGroups(gr) /\ gr.faults = fa /\ gr.emergencies = em /\ gr.incident = w.interrupted /\ gr.checkpoints = session.checkpoints
       /\ gr.pending = pe
  BY DEF IsGroups
<1> HIDE DEF gr
<1>16. f.source = so /\ f.markers = m /\ f.groups = gr /\ f.vehicles = vs /\ f.routes = rs /\ f.berths = bs
  BY <1>1
<1>17. IsFrame(f)
  BY <1>1, <1>8, <1>13, <1>14, <1>15, <1>16 DEF IsFrame
<1>18. Made(f)
  BY <1>4, <1>7, <1>8, <1>9, <1>10, <1>11, <1>12, <1>15, <1>16, <1>17 DEF Made
<1>19. m = MarkersOf[session.networks[session.project]]
  BY <1>2 DEF m
<1> QED
  BY <1>3, <1>16, <1>18, <1>19 DEF f

-----------------------------------------------------------------------------
(***************************************************************************)
(* What the simulation keeps of its vehicles and incidents, on which the   *)
(* checks of a frame rely.                                                 *)
(***************************************************************************)
\* The trips of the orders, with a vehicle or without; one that an emergency interrupted goes on from another station.
Listed == Places("own") \cup Places("demo")
Trip == {r \in [id : DOMAIN Orders, from : Stations, to : Stations, shared : BOOLEAN, leg : Stations \cup {NoID},
                pod : {p.id : p \in Listed} \cup {NoID}, done : BOOLEAN] :
             r.from = Orders[r.id].from /\ r.to = Orders[r.id].to /\ r.leg # r.to}
TripsOf(network, pod) == {r \in Trip : r.pod = pod /\ (r.leg # NoID => MarkersOf[network].incident)}
Record == [berth : Berths, meters : Nat]

\* A slice that is nil or one list.
IsSlice(slice) == slice = Nil \/ slice = {Items(slice)}

\* A vehicle is at a station or on the lane of its route.
RouteGood(network, v) ==
    /\ v.identity \in 0 .. MaxCounter /\ v.station \in Stations \cup {NoID} /\ (v.station # NoID => v.lane = NoLane)
    /\ \/ v.lanes = <<>> /\ v.lane = NoLane /\ v.current = 0
       \/ \E l \in LanesOf[network] : v.lanes = <<l>> /\ ((v.lane = l /\ v.current = 0) \/ (v.lane = NoLane /\ v.current \in {0, 1}))

\* Parties share a vehicle only if all of them agreed to.
SeatsGood(riders) ==
    /\ Cardinality(Active(riders)) <= Seats
    /\ Cardinality(Active(riders)) > 1 => \A k \in Active(riders) : riders[k].shared

\* There are no boarding records, or one for each rider, of its berth.
RecordsGood(slice, riders, ridden) ==
    /\ IsSlice(slice) /\ slice # {<<>>} /\ Items(slice) \in Seq(Record) /\ (Items(slice) = <<>> \/ Len(Items(slice)) = Len(riders))
    /\ \A k \in DOMAIN Items(slice) : /\ Items(slice)[k].berth = Berth[LegOrigin(riders[k])] /\ Items(slice)[k].meters <= ridden
                                      /\ riders[k].done \/ riders[k].shared

\* A vehicle with an operational purpose has the hold that owns it.
HoldGood(network, v) ==
    /\ v.op \in {"service", "unload", "recovery"}
    /\ (v.op = "unload" => "emergency" \in v.withdrawn) /\ (v.op = "recovery" => "fault" \in v.withdrawn)
    /\ v.withdrawn # {} => MarkersOf[network].incident

VehicleGood(network, v) ==
    /\ \E p \in Listed : v.id = p.id /\ v.class = p.class
    /\ IsSlice(v.riders) /\ Items(v.riders) \in Seq(TripsOf(network, v.id)) /\ IsSlice(v.stops) /\ Items(v.stops) \in Seq(Stations)
    /\ v.ridden \in Nat /\ SeatsGood(Items(v.riders)) /\ RecordsGood(v.records, Items(v.riders), v.ridden)
    /\ RouteGood(network, v) /\ HoldGood(network, v)

FleetIds(w) == {w.vehicles[i].id : i \in DOMAIN w.vehicles}
Serials(w) == {w.faults[k].serial : k \in DOMAIN w.faults}

FaultRecord(w) == [serial : 1 .. w.serial - 1, pod : FleetIds(w) \cup {NoID}, lane : Lanes \cup {NoLane}, start : 0 .. w.tick]
FaultsGood(w) ==
    /\ w.faults \in Seq(FaultRecord(w))
    /\ \A k \in DOMAIN w.faults : w.faults[k].pod = NoID => w.faults[k].lane \in LanesOf[w.network]
    /\ \A j, k \in DOMAIN w.faults : j < k => /\ w.faults[j].serial < w.faults[k].serial
                                              /\ w.faults[j].pod = w.faults[k].pod => w.faults[k].pod = NoID
    /\ \A k \in DOMAIN w.faults, i \in DOMAIN w.vehicles : w.faults[k].pod = w.vehicles[i].id => "fault" \in w.vehicles[i].withdrawn

EmergencyRecord(w) == [serial : 1 .. w.serial - 1, pod : FleetIds(w), order : DOMAIN Orders, start : 0 .. w.tick]
EmergenciesGood(w) ==
    /\ w.emergencies \in Seq(EmergencyRecord(w)) /\ Len(w.emergencies) <= 1
    /\ \A k \in DOMAIN w.emergencies : w.emergencies[k].serial \notin Serials(w)

FleetGood(w) == \A i \in DOMAIN w.vehicles : VehicleGood(w.network, w.vehicles[i]) /\ w.vehicles[i].blockedBy \in Serials(w) \cup {0}
CountersGood(w) == w.tick \in Nat /\ w.serial \in Nat \ {0} /\ w.submitted \in Nat
WorldGood(w) == /\ CountersGood(w) /\ w.pending \in Seq(TripsOf(w.network, NoID))
                /\ FleetGood(w) /\ FaultsGood(w) /\ EmergenciesGood(w)

\* The save point has a serial of the past.
SessionGood(s) ==
    /\ s.revision \in Nat /\ WorldGood(s.world)
    /\ \A w \in s.saved : WorldGood(w) /\ w.serial <= s.world.serial

-----------------------------------------------------------------------------
(***************************************************************************)
(* Riders, their seats and their boarding records.                         *)
(***************************************************************************)
\* The trips of a vehicle.
LEMMA TripParts ==
  ASSUME NEW network, NEW pod, NEW r \in TripsOf(network, pod)
  PROVE  /\ r.id \in DOMAIN Orders /\ r.from \in Stations /\ r.to \in Stations /\ r.shared \in BOOLEAN /\ r.done \in BOOLEAN /\ r.pod = pod
         /\ r.leg \in Stations \cup {NoID} /\ r.leg # r.to /\ (r.leg # NoID => MarkersOf[network].incident)
         /\ r.from = Orders[r.id].from /\ r.to = Orders[r.id].to /\ LegOrigin(r) \in Stations /\ Berth[LegOrigin(r)] \in Berths
         /\ r = [id |-> r.id, from |-> r.from, to |-> r.to, shared |-> r.shared, leg |-> r.leg, pod |-> r.pod, done |-> r.done]
<1>1. r \in Trip /\ r.pod = pod /\ (r.leg # NoID => MarkersOf[network].incident)
  BY DEF TripsOf
<1>2. /\ r.id \in DOMAIN Orders /\ r.from \in Stations /\ r.to \in Stations /\ r.shared \in BOOLEAN /\ r.done \in BOOLEAN
      /\ r.leg \in Stations \cup {NoID} /\ r.leg # r.to
      /\ r.from = Orders[r.id].from /\ r.to = Orders[r.id].to
      /\ r = [id |-> r.id, from |-> r.from, to |-> r.to, shared |-> r.shared, leg |-> r.leg, pod |-> r.pod, done |-> r.done]
  BY <1>1 DEF Trip
<1>3. LegOrigin(r) \in Stations
  BY <1>2 DEF LegOrigin
<1> QED
  BY <1>1, <1>2, <1>3 DEF Berths

\* The request of an order, for a vehicle or for none.
LEMMA RequestIsTrip ==
  ASSUME NEW network, NEW id \in DOMAIN Orders, NEW leg \in Stations \cup {NoID}, leg # Orders[id].to,
         leg # NoID => MarkersOf[network].incident
  PROVE  RequestOf(id, leg, NoID) \in TripsOf(network, NoID)
<1>1. Orders[id] \in [from : Stations, to : Stations, shared : BOOLEAN]
  <2> DEFINE R == [from : Stations, to : Stations, shared : BOOLEAN]
  <2>1. Orders \in Seq(R)
    BY FrameStreamAssumption
  <2> HIDE DEF R
  <2>2. Orders[id] \in R
    BY <2>1
  <2> QED
    BY <2>2 DEF R
<1>2. RequestOf(id, leg, NoID) \in Trip
  BY <1>1 DEF RequestOf, Trip
<1> QED
  BY <1>2 DEF RequestOf, TripsOf

\* The active riders are some of the riders.
LEMMA ActiveRiders ==
  ASSUME NEW T, NEW riders \in Seq(T)
  PROVE  /\ Active(riders) \in SUBSET (1 .. Len(riders)) /\ Active(riders) \in SUBSET (DOMAIN riders) /\ IsFiniteSet(Active(riders))
         /\ Cardinality(Active(riders)) \in Nat
<1>1. DOMAIN riders = 1 .. Len(riders) /\ Len(riders) \in Nat
  OBVIOUS
<1>2. Active(riders) \in SUBSET (1 .. Len(riders))
  BY <1>1 DEF Active
<1>3. IsFiniteSet(1 .. Len(riders))
  BY <1>1, FS_Interval
<1> QED
  BY <1>1, <1>2, <1>3, FS_Subset, FS_CardinalityType

\* Without an active rider there is a seat.
LEMMA EmptySeats ==
  ASSUME NEW riders, Active(riders) = {}
  PROVE  SeatsGood(riders)
<1>1. Cardinality({}) = 0 /\ Seats \in Nat \ {0}
  BY FS_EmptySet, FrameStreamAssumption
<1> QED
  BY <1>1 DEF SeatsGood

\* A party takes a free seat.
LEMMA SeatsAppend ==
  ASSUME NEW T, NEW riders \in Seq(T), NEW r, Cardinality(Active(riders)) < Seats,
         Active(riders) # {} => r.shared /\ \A k \in Active(riders) : riders[k].shared
  PROVE  SeatsGood(Append(riders, r))
<1> DEFINE q == Append(riders, r)
           n == Len(riders) + 1
<1>1. DOMAIN q = 1 .. n /\ DOMAIN riders = 1 .. Len(riders) /\ q[n] = r /\ n \in Nat /\ \A k \in 1 .. Len(riders) : q[k] = riders[k]
  OBVIOUS
<1>2. Active(q) \subseteq Active(riders) \cup {n} /\ Seats \in Nat \ {0}
  BY <1>1, FrameStreamAssumption DEF Active
<1>3. IsFiniteSet(Active(riders)) /\ Cardinality(Active(riders)) \in Nat
  BY ActiveRiders
<1>4. IsFiniteSet(Active(riders) \cup {n}) /\ Cardinality(Active(riders) \cup {n}) <= Cardinality(Active(riders)) + 1
  <2>1. IsFiniteSet(Active(riders) \cup {n})
        /\ Cardinality(Active(riders) \cup {n}) = IF n \in Active(riders) THEN Cardinality(Active(riders)) ELSE Cardinality(Active(riders)) + 1
    BY <1>3, FS_AddElement
  <2> QED
    BY <2>1, <1>3
<1>5. IsFiniteSet(Active(q)) /\ Cardinality(Active(q)) <= Cardinality(Active(riders) \cup {n}) /\ Cardinality(Active(q)) \in Nat
      /\ Cardinality(Active(riders) \cup {n}) \in Nat
  BY <1>2, <1>4, FS_Subset, FS_CardinalityType
<1>6. Cardinality(Active(q)) <= Seats
  BY <1>2, <1>3, <1>4, <1>5
<1>7. ASSUME Cardinality(Active(q)) > 1 PROVE \A k \in Active(q) : q[k].shared
  <2>1. Active(riders) # {}
    <3> SUFFICES ASSUME Active(riders) = {} PROVE FALSE
      OBVIOUS
    <3>1. Cardinality(Active(riders) \cup {n}) <= 1
      BY <1>4, FS_EmptySet
    <3> QED
      BY <3>1, <1>5, <1>7
  <2>2. \A k \in Active(q) : k = n \/ (k \in Active(riders) /\ k \in 1 .. Len(riders))
    BY <1>1, <1>2 DEF Active
  <2> HIDE DEF q, n
  <2> QED
    BY <1>1, <2>1, <2>2
<1> QED
  BY <1>6, <1>7 DEF SeatsGood

\* Parties that leave only free seats.
LEMMA SeatsLeft ==
  ASSUME NEW T, NEW riders \in Seq(T), SeatsGood(riders), NEW q, Active(q) \subseteq Active(riders), 
         \A k \in Active(q) : q[k].shared = riders[k].shared
  PROVE  SeatsGood(q)
<1>1. IsFiniteSet(Active(riders)) /\ Cardinality(Active(riders)) \in Nat /\ Seats \in Nat
  BY ActiveRiders, FrameStreamAssumption
<1>2. Cardinality(Active(q)) \in Nat /\ Cardinality(Active(q)) <= Cardinality(Active(riders))
  BY <1>1, FS_Subset, FS_CardinalityType
<1> QED
  BY <1>1, <1>2 DEF SeatsGood

\* A record of a party that joins on the way.
LEMMA RecordsAppend ==
  ASSUME NEW network, NEW pod, NEW riders \in Seq(TripsOf(network, pod)), NEW r \in TripsOf(network, pod), NEW ridden \in Nat,
         NEW q \in Seq(Record), Len(q) = Len(riders), r.shared,
         \A k \in DOMAIN q : q[k].berth = Berth[LegOrigin(riders[k])] /\ q[k].meters <= ridden /\ (riders[k].done \/ riders[k].shared)
  PROVE  RecordsGood({Append(q, [berth |-> Berth[LegOrigin(r)], meters |-> ridden])}, Append(riders, r), ridden)
<1> DEFINE b == [berth |-> Berth[LegOrigin(r)], meters |-> ridden]
           p == Append(q, b)
           s == Append(riders, r)
<1>1. b \in Record
  BY TripParts DEF Record
<1>2. b.berth = Berth[LegOrigin(r)] /\ b.meters = ridden
  OBVIOUS
<1> HIDE DEF b
<1>3. p \in Seq(Record) /\ Len(p) = Len(q) + 1 /\ DOMAIN p = 1 .. Len(q) + 1 /\ p[Len(q) + 1] = b /\ Len(q) \in Nat
      /\ \A k \in 1 .. Len(q) : p[k] = q[k]
  BY <1>1
<1>4. Len(s) = Len(riders) + 1 /\ s[Len(riders) + 1] = r /\ \A k \in 1 .. Len(riders) : s[k] = riders[k]
  OBVIOUS
<1>5. DOMAIN q = 1 .. Len(q)
  OBVIOUS
<1> HIDE DEF p, s
<1>6. \A k \in DOMAIN p : p[k].berth = Berth[LegOrigin(s[k])] /\ p[k].meters <= ridden /\ (s[k].done \/ s[k].shared)
  <2> SUFFICES ASSUME NEW k \in DOMAIN p PROVE p[k].berth = Berth[LegOrigin(s[k])] /\ p[k].meters <= ridden /\ (s[k].done \/ s[k].shared)
    OBVIOUS
  <2>1. CASE k = Len(q) + 1
    BY <2>1, <1>2, <1>3, <1>4
  <2>2. CASE k \in 1 .. Len(q)
    BY <2>2, <1>3, <1>4, <1>5
  <2> QED
    BY <1>3, <2>1, <2>2
<1>7. Items({p}) = p /\ {p} # {<<>>}
  <2>1. p # <<>>
    BY <1>3
  <2> QED
    BY <2>1, OmittedItems
<1>8. RecordsGood({p}, s, ridden)
  BY <1>3, <1>4, <1>6, <1>7 DEF RecordsGood, IsSlice
<1> QED
  BY <1>8 DEF p, s, b

\* Of records and riders that are kept together, each record stays with its rider.
LEMMA RecordsSelected ==
  ASSUME NEW network, NEW pod, NEW riders \in Seq(TripsOf(network, pod)), NEW q, NEW ridden, RecordsGood({q}, riders, ridden),
         NEW indexes \in SUBSET (DOMAIN riders), Selected(riders, indexes) # <<>>
  PROVE  RecordsGood({Selected(q, indexes)}, Selected(riders, indexes), ridden)
<1>1. Items({q}) = q /\ \A p : Items({p}) = p
  BY OmittedItems
<1>2. q # <<>> /\ q \in Seq(Record) /\ Len(q) = Len(riders) /\ Len(riders) \in Nat /\ DOMAIN riders = 1 .. Len(riders) /\ DOMAIN q = DOMAIN riders
  BY <1>1 DEF RecordsGood
<1>3. \A k \in DOMAIN q : q[k].berth = Berth[LegOrigin(riders[k])] /\ q[k].meters <= ridden /\ (riders[k].done \/ riders[k].shared)
  BY <1>1 DEF RecordsGood
<1> DEFINE p == Selected(q, indexes)
           s == Selected(riders, indexes)
           c == Cardinality(indexes)
           nth(n) == Nth(indexes, n)
<1>4. c \in Nat /\ \A n \in 1 .. c : nth(n) \in indexes
  BY <1>2, NthMember
<1>5. p = [n \in 1 .. c |-> q[nth(n)]] /\ s = [n \in 1 .. c |-> riders[nth(n)]]
  BY DEF Selected
<1> HIDE DEF p, s, c, nth
<1>6. p \in Seq(Record) /\ Len(p) = c /\ Len(s) = c /\ DOMAIN p = 1 .. c
  <2>1. \A n \in 1 .. c : q[nth(n)] \in Record
    BY <1>2, <1>4
  <2> QED
    BY <1>4, <1>5, <2>1
<1>7. \A n \in 1 .. c : p[n] = q[nth(n)] /\ s[n] = riders[nth(n)] /\ nth(n) \in DOMAIN q
  BY <1>2, <1>4, <1>5
<1>8. \A n \in DOMAIN p : p[n].berth = Berth[LegOrigin(s[n])] /\ p[n].meters <= ridden /\ (s[n].done \/ s[n].shared)
  BY <1>3, <1>6, <1>7
<1>9. {p} # {<<>>}
  <2>1. c # 0
    BY <1>5 DEF s
  <2> QED
    BY <1>4, <1>6, <2>1
<1>10. RecordsGood({p}, s, ridden)
  BY <1>1, <1>6, <1>8, <1>9 DEF RecordsGood, IsSlice
<1> QED
  BY <1>10 DEF p, s

\* No records are good records.
LEMMA NoRecords == \A riders, ridden : RecordsGood(Nil, riders, ridden)
<1>1. Items(Nil) = <<>> /\ <<>> \in Seq(Record) /\ DOMAIN <<>> = {} /\ Nil # {<<>>}
  BY OmittedItems DEF Nil
<1> QED
  BY <1>1 DEF RecordsGood, IsSlice

-----------------------------------------------------------------------------
(***************************************************************************)
(* The steps of one vehicle.                                               *)
(***************************************************************************)
\* A vehicle that keeps its riders, its records and its stops.
LEMMA CarriesOn ==
  ASSUME NEW network, NEW v, VehicleGood(network, v), NEW x, x.id = v.id, x.class = v.class, x.riders = v.riders, x.records = v.records,
         x.stops = v.stops, x.ridden = v.ridden, RouteGood(network, x), HoldGood(network, x)
  PROVE  VehicleGood(network, x)
BY DEF VehicleGood

\* A trip whose party is in a vehicle.
LEMMA RiderOf ==
  ASSUME NEW network, NEW trip \in TripsOf(network, NoID), NEW p \in Listed
  PROVE  LET r == [trip EXCEPT !.pod = p.id]
         IN  r \in TripsOf(network, p.id) /\ LegOrigin(r) = LegOrigin(trip) /\ r.shared = trip.shared /\ r.to = trip.to
<1> DEFINE r == [trip EXCEPT !.pod = p.id]
<1>1. /\ trip \in Trip /\ (trip.leg # NoID => MarkersOf[network].incident)
  BY DEF TripsOf
<1>2. /\ trip \in [id : DOMAIN Orders, from : Stations, to : Stations, shared : BOOLEAN, leg : Stations \cup {NoID},
                   pod : {x.id : x \in Listed} \cup {NoID}, done : BOOLEAN]
      /\ trip.from = Orders[trip.id].from /\ trip.to = Orders[trip.id].to /\ trip.leg # trip.to
  BY <1>1 DEF Trip
<1>3. p.id \in {x.id : x \in Listed} \cup {NoID}
  OBVIOUS
<1>4. r \in [id : DOMAIN Orders, from : Stations, to : Stations, shared : BOOLEAN, leg : Stations \cup {NoID},
             pod : {x.id : x \in Listed} \cup {NoID}, done : BOOLEAN]
  BY <1>2, <1>3
<1>5. r.id = trip.id /\ r.from = trip.from /\ r.to = trip.to /\ r.shared = trip.shared /\ r.leg = trip.leg /\ r.pod = p.id
  BY <1>2
<1> HIDE DEF r
<1>6. r \in Trip
  BY <1>2, <1>4, <1>5 DEF Trip
<1>7. r \in TripsOf(network, p.id)
  BY <1>1, <1>5, <1>6 DEF TripsOf
<1> QED
  BY <1>5, <1>7 DEF r, LegOrigin

\* boardTrip: the records of the journey, if it has any, get the one of the new party.
LEMMA JoinedGood ==
  ASSUME NEW network, NEW v, VehicleGood(network, v), NEW r \in TripsOf(network, v.id), ActiveIn(v) # {}, r.shared,
         \A j \in ActiveIn(v) : Items(v.riders)[j].shared
  PROVE  RecordsGood(JoinedRecords(v, Berth[LegOrigin(r)]), Append(Items(v.riders), r), v.ridden)
<1> DEFINE riders == Items(v.riders)
           records == Items(v.records)
           b == [berth |-> Berth[LegOrigin(r)], meters |-> v.ridden]
           base == [k \in DOMAIN riders |-> [berth |-> Berth[LegOrigin(riders[k])], meters |-> 0]]
<1>1. riders \in Seq(TripsOf(network, v.id)) /\ v.ridden \in Nat /\ RecordsGood(v.records, riders, v.ridden)
  BY DEF VehicleGood
<1>2. records \in Seq(Record) /\ (records = <<>> \/ Len(records) = Len(riders))
      /\ \A k \in DOMAIN records : records[k].berth = Berth[LegOrigin(riders[k])] /\ records[k].meters <= v.ridden
                                   /\ (riders[k].done \/ riders[k].shared)
  BY <1>1 DEF RecordsGood
<1>3. CASE v.ridden = 0 /\ records = <<>>
  <2>1. JoinedRecords(v, Berth[LegOrigin(r)]) = Nil
    BY <1>3 DEF JoinedRecords
  <2> QED
    BY <2>1, NoRecords
<1>4. CASE records # <<>>
  <2>1. JoinedRecords(v, Berth[LegOrigin(r)]) = {Append(records, b)}
    BY <1>4 DEF JoinedRecords
  <2> HIDE DEF records, riders
  <2>2. RecordsGood({Append(records, b)}, Append(riders, r), v.ridden)
    BY <1>1, <1>2, <1>4, RecordsAppend
  <2> QED
    BY <2>1, <2>2 DEF riders
<1>5. CASE v.ridden # 0 /\ records = <<>>
  <2>1. JoinedRecords(v, Berth[LegOrigin(r)]) = {Append(base, b)}
    BY <1>5 DEF JoinedRecords
  <2>2. \A k \in DOMAIN riders : (riders[k].done \/ riders[k].shared) /\ Berth[LegOrigin(riders[k])] \in Berths
    <3> SUFFICES ASSUME NEW k \in DOMAIN riders PROVE (riders[k].done \/ riders[k].shared) /\ Berth[LegOrigin(riders[k])] \in Berths
      OBVIOUS
    <3>1. riders[k] \in TripsOf(network, v.id)
      BY <1>1
    <3>2. riders[k].done \/ k \in ActiveIn(v)
      BY DEF ActiveIn, Active
    <3> QED
      BY <3>1, <3>2, TripParts
  <2> HIDE DEF riders
  <2>3. base \in Seq(Record) /\ Len(base) = Len(riders) /\ DOMAIN base = DOMAIN riders
    <3>1. DOMAIN riders = 1 .. Len(riders) /\ Len(riders) \in Nat
      BY <1>1
    <3>2. \A k \in DOMAIN riders : [berth |-> Berth[LegOrigin(riders[k])], meters |-> 0] \in Record
      BY <2>2 DEF Record
    <3> QED
      BY <3>1, <3>2
  <2>4. \A k \in DOMAIN base : base[k].berth = Berth[LegOrigin(riders[k])] /\ base[k].meters <= v.ridden
                              /\ (riders[k].done \/ riders[k].shared)
    BY <1>1, <2>2
  <2> HIDE DEF base
  <2>5. RecordsGood({Append(base, b)}, Append(riders, r), v.ridden)
    BY <1>1, <2>3, <2>4, RecordsAppend
  <2> QED
    BY <2>1, <2>5 DEF riders
<1> QED
  BY <1>3, <1>4, <1>5

\* boardTrip: a party that takes a seat of a vehicle at its station.
LEMMA BoardedGood ==
  ASSUME NEW network, NEW v, Placed(v, v), VehicleGood(network, v), NEW trip \in TripsOf(network, NoID), v.station = LegOrigin(trip),
         v.withdrawn = {}, Cardinality(ActiveIn(v)) < Seats, ActiveIn(v) # {} => trip.shared /\ \A j \in ActiveIn(v) : Items(v.riders)[j].shared
  PROVE  LET x == Boarded(v, trip, JoinedRecords(v, Berth[v.station]))
         IN  VehicleGood(network, x) /\ Placed(x, v) /\ x.blockedBy = v.blockedBy /\ x.withdrawn = v.withdrawn
<1> DEFINE r == [trip EXCEPT !.pod = v.id]
           records == JoinedRecords(v, Berth[v.station])
           journey == IF ActiveIn(v) = {} THEN [v EXCEPT !.riders = {<<>>}, !.records = Nil, !.stops = {<<>>}, !.ridden = 0] ELSE v
           riders == {Append(The(journey.riders), r)}
           stops == IF trip.to \in ToSet(Items(journey.stops)) THEN journey.stops ELSE {Append(Items(journey.stops), trip.to)}
           x == Boarded(v, trip, records)
<1>1. PICK p \in Listed : v.id = p.id
  BY DEF VehicleGood
<1>2. r \in TripsOf(network, v.id) /\ LegOrigin(r) = v.station /\ r.shared = trip.shared /\ trip.to \in Stations
  BY <1>1, RiderOf, TripParts
<1>3. x = [journey EXCEPT !.riders = riders, !.records = records, !.activity = "Boarding", !.stops = stops]
  BY DEF Boarded
<1>4. /\ Placed(journey, v) /\ journey.class = v.class /\ journey.blockedBy = v.blockedBy /\ journey.withdrawn = v.withdrawn
      /\ journey.op = v.op /\ journey.identity = v.identity /\ journey.station = v.station /\ journey.lane = v.lane
      /\ journey.lanes = v.lanes /\ journey.current = v.current
      /\ IF ActiveIn(v) = {} THEN journey.riders = {<<>>} /\ journey.stops = {<<>>} /\ journey.ridden = 0 ELSE journey = v
  BY DEF Placed, VehicleFields
<1> HIDE DEF journey, records
<1>5. /\ Placed(x, v) /\ x.id = v.id /\ x.class = v.class /\ x.blockedBy = v.blockedBy /\ x.withdrawn = v.withdrawn
      /\ x.op = v.op /\ x.identity = v.identity /\ x.station = v.station /\ x.lane = v.lane
      /\ x.lanes = v.lanes /\ x.current = v.current /\ x.riders = riders /\ x.records = records /\ x.stops = stops /\ x.ridden = journey.ridden
  <2> HIDE DEF riders, stops, x
  <2> QED
    BY <1>3, <1>4 DEF Placed, VehicleFields
<1>6. RouteGood(network, x) /\ HoldGood(network, x)
  <2> HIDE DEF x
  <2> QED
    BY <1>5 DEF VehicleGood, RouteGood, HoldGood
<1>7. Items(v.riders) \in Seq(TripsOf(network, v.id)) /\ Items(v.stops) \in Seq(Stations) /\ IsSlice(v.riders) /\ IsSlice(v.stops) /\ v.ridden \in Nat
  BY DEF VehicleGood
<1>8. \A s : Items({s}) = s /\ The({s}) = s
  BY OmittedItems, TheOf
<1>9. IsSlice(stops) /\ Items(stops) \in Seq(Stations)
  <2>1. IsSlice(journey.stops) /\ Items(journey.stops) \in Seq(Stations)
    <3>1. Items({<<>>}) = <<>> /\ <<>> \in Seq(Stations)
      <4>1. Items({<<>>}) = <<>>
        BY <1>8, Zenon
      <4> QED
        BY <4>1
    <3>2. CASE ActiveIn(v) = {}
      BY <1>4, <3>1, <3>2 DEF IsSlice
    <3>3. CASE ActiveIn(v) # {}
      BY <1>4, <1>7, <3>3
    <3> QED
      BY <3>2, <3>3
  <2> DEFINE s == Items(journey.stops)
  <2> HIDE DEF s
  <2>2. s \in Seq(Stations) => Append(s, trip.to) \in Seq(Stations)
    BY <1>2
  <2> QED
    BY <2>1, <2>2, <1>8 DEF s, IsSlice
<1>10. ASSUME ActiveIn(v) = {} PROVE VehicleGood(network, x)
  <2> DEFINE e == <<>>
  <2>1. riders = {Append(e, r)} /\ records = Nil /\ journey.ridden = 0
    BY <1>4, <1>8, <1>10 DEF records, JoinedRecords
  <2>2. e \in Seq(TripsOf(network, v.id)) /\ Active(e) = {} /\ Cardinality({}) = 0 /\ 0 < Seats
    BY FS_EmptySet, FrameStreamAssumption DEF Active
  <2> HIDE DEF e, r, x
  <2>3. SeatsGood(Append(e, r)) /\ Append(e, r) \in Seq(TripsOf(network, v.id))
    <3>1. Cardinality(Active(e)) < Seats
      BY <2>2
    <3>2. SeatsGood(Append(e, r))
      BY <2>2, <3>1, SeatsAppend
    <3>3. Append(e, r) \in Seq(TripsOf(network, v.id))
      BY <1>2, <2>2
    <3> QED
      BY <3>2, <3>3
  <2>4. x.riders = {Append(e, r)} /\ Items(x.riders) = Append(e, r) /\ x.records = Nil /\ x.ridden = 0 /\ x.stops = stops
    BY <1>5, <1>8, <2>1
  <2>5. \E l \in Listed : x.id = l.id /\ x.class = l.class
    BY <1>5 DEF VehicleGood
  <2>6. RecordsGood(x.records, Items(x.riders), x.ridden) /\ x.id = v.id
    BY <1>5, <2>4, NoRecords
  <2>7. IsSlice(x.riders) /\ Items(x.riders) \in Seq(TripsOf(network, x.id)) /\ SeatsGood(Items(x.riders)) /\ x.ridden \in Nat
    <3> DEFINE added == Append(e, r)
    <3>1. added \in Seq(TripsOf(network, v.id)) /\ SeatsGood(added) /\ x.riders = {added} /\ Items(x.riders) = added
      BY <2>3, <2>4
    <3> HIDE DEF added
    <3>2. IsSlice(x.riders)
      BY <3>1 DEF IsSlice
    <3>3. Items(x.riders) \in Seq(TripsOf(network, x.id))
      BY <3>1, <2>6
    <3> QED
      BY <3>1, <3>2, <3>3, <2>4
  <2>8. IsSlice(x.stops) /\ Items(x.stops) \in Seq(Stations)
    BY <1>9, <2>4
  <2> QED
    BY <1>6, <2>5, <2>6, <2>7, <2>8 DEF VehicleGood
<1>11. ASSUME ActiveIn(v) # {} PROVE VehicleGood(network, x)
  <2> DEFINE q == Items(v.riders)
  <2>1. v.riders # Nil
    BY <1>11, OmittedItems DEF ActiveIn, Active
  <2>2. riders = {Append(q, r)} /\ journey.ridden = v.ridden
    BY <1>4, <1>7, <1>8, <1>11, <2>1 DEF IsSlice
  <2>3. Active(q) = ActiveIn(v) /\ q \in Seq(TripsOf(network, v.id))
    BY <1>7 DEF ActiveIn
  <2>4. RecordsGood(records, Append(q, r), v.ridden)
    BY <1>2, <1>11, JoinedGood DEF records
  <2>5. \A j \in Active(q) : q[j].shared
    BY <1>11, <2>3
  <2> HIDE DEF q, r, x
  <2>6. SeatsGood(Append(q, r)) /\ Append(q, r) \in Seq(TripsOf(network, v.id))
    BY <1>2, <1>11, <2>3, <2>5, SeatsAppend
  <2>7. x.riders = {Append(q, r)} /\ Items(x.riders) = Append(q, r) /\ x.records = records /\ x.ridden = v.ridden /\ x.stops = stops
    BY <1>5, <1>8, <2>2
  <2>8. \E l \in Listed : x.id = l.id /\ x.class = l.class
    BY <1>5 DEF VehicleGood
  <2> QED
    BY <1>5, <1>6, <1>7, <1>9, <2>4, <2>6, <2>7, <2>8 DEF VehicleGood, IsSlice
<1>12. VehicleGood(network, x) /\ Placed(x, v) /\ x.blockedBy = v.blockedBy /\ x.withdrawn = v.withdrawn
  BY <1>5, <1>10, <1>11
<1> HIDE DEF x
<1> QED
  BY <1>12 DEF x, records

\* The identity of a route stays in the range of a counter.
LEMMA NextIdentityBounded ==
  ASSUME NEW v, v.identity \in 0 .. MaxCounter
  PROVE  NextIdentity(v) \in 0 .. MaxCounter
BY FrameStreamAssumption DEF NextIdentity

\* A departure.
Departing(v, lane) ==
    [v EXCEPT !.activity = "Traveling", !.station = NoID, !.lane = lane, !.motion = 0, !.identity = NextIdentity(v),
              !.lanes = <<lane>>, !.current = 0]
LEMMA DepartedGood ==
  ASSUME NEW network, NEW v, Placed(v, v), VehicleGood(network, v), NEW lane \in LanesOf[network]
  PROVE  LET x == Departing(v, lane)
         IN  VehicleGood(network, x) /\ Placed(x, v) /\ x.blockedBy = v.blockedBy /\ x.withdrawn = v.withdrawn
<1> DEFINE n == NextIdentity(v)
           l == <<lane>>
           x == Departing(v, lane)
<1>0. x = [v EXCEPT !.activity = "Traveling", !.station = NoID, !.lane = lane, !.motion = 0, !.identity = n, !.lanes = l, !.current = 0]
  BY DEF Departing
<1>1. n \in 0 .. MaxCounter
  BY NextIdentityBounded DEF VehicleGood, RouteGood
<1> HIDE DEF n, l, x
<1>2. /\ Placed(x, v) /\ x.id = v.id /\ x.class = v.class /\ x.riders = v.riders /\ x.records = v.records /\ x.stops = v.stops
      /\ x.ridden = v.ridden /\ x.blockedBy = v.blockedBy /\ x.withdrawn = v.withdrawn /\ x.op = v.op
      /\ x.identity = n /\ x.station = NoID /\ x.lane = lane /\ x.lanes = l /\ x.current = 0
  BY <1>0 DEF Placed, VehicleFields
<1>3. RouteGood(network, x)
  BY <1>1, <1>2 DEF RouteGood, l
<1>4. HoldGood(network, x)
  BY <1>2 DEF VehicleGood, HoldGood
<1>5. VehicleGood(network, x)
  BY <1>2, <1>3, <1>4, CarriesOn
<1> QED
  BY <1>2, <1>5 DEF x

\* A move on the lane.
Driving(v) == [v EXCEPT !.motion = 1, !.ridden = @ + 1]
LEMMA DrivenGood ==
  ASSUME NEW network, NEW v, Placed(v, v), VehicleGood(network, v)
  PROVE  LET x == Driving(v)
         IN  VehicleGood(network, x) /\ Placed(x, v) /\ x.blockedBy = v.blockedBy /\ x.withdrawn = v.withdrawn
<1> DEFINE x == Driving(v)
<1>0. x = [v EXCEPT !.motion = 1, !.ridden = v.ridden + 1]
  BY DEF Driving
<1> HIDE DEF x
<1>1. /\ Placed(x, v) /\ x.id = v.id /\ x.class = v.class /\ x.riders = v.riders /\ x.records = v.records /\ x.stops = v.stops /\ x.ridden = v.ridden + 1
      /\ x.blockedBy = v.blockedBy /\ x.withdrawn = v.withdrawn /\ x.op = v.op
      /\ x.identity = v.identity /\ x.station = v.station /\ x.lane = v.lane /\ x.lanes = v.lanes /\ x.current = v.current
  BY <1>0 DEF Placed, VehicleFields
<1>2. v.ridden \in Nat /\ RecordsGood(v.records, Items(v.riders), v.ridden)
  BY DEF VehicleGood
<1>3. RecordsGood(v.records, Items(v.riders), v.ridden + 1)
  <2> DEFINE q == Items(v.records)
  <2>1. q \in Seq(Record) /\ \A k \in DOMAIN q : q[k].meters <= v.ridden
    BY <1>2 DEF RecordsGood
  <2> HIDE DEF q
  <2>2. \A k \in DOMAIN q : q[k].meters <= v.ridden + 1
    <3> SUFFICES ASSUME NEW k \in DOMAIN q PROVE q[k].meters <= v.ridden + 1
      OBVIOUS
    <3>1. q[k] \in Record /\ q[k].meters <= v.ridden
      BY <2>1
    <3>2. q[k].meters \in Nat
      BY <3>1 DEF Record
    <3> QED
      BY <3>1, <3>2, <1>2
  <2> QED
    BY <1>2, <2>2 DEF q, RecordsGood
<1>4. RouteGood(network, x)
  BY <1>1 DEF VehicleGood, RouteGood
<1>5. HoldGood(network, x)
  BY <1>1 DEF VehicleGood, HoldGood
<1>6. VehicleGood(network, x)
  BY <1>1, <1>2, <1>3, <1>4, <1>5 DEF VehicleGood
<1> QED
  BY <1>1, <1>6 DEF x

\* The empty list is a list of whatever.
LEMMA EmptyList == \A S : <<>> \in Seq(S)
OBVIOUS

\* A slice of some of the entries of a slice.
LEMMA SlicePart ==
  ASSUME NEW T, NEW list \in Seq(T), NEW indexes \in SUBSET (DOMAIN list)
  PROVE  IsSlice(ListSlice(Selected(list, indexes))) /\ Items(ListSlice(Selected(list, indexes))) \in Seq(T)
<1> DEFINE s == Selected(list, indexes)
<1>1. s \in Seq(T)
  BY SelectedEntries
<1> HIDE DEF s
<1>2. Items({s}) = s /\ Items(Nil) = <<>>
  BY OmittedItems
<1>3. IsSlice(ListSlice(s)) /\ Items(ListSlice(s)) \in Seq(T)
  BY <1>1, <1>2 DEF ListSlice, IsSlice
<1> QED
  BY <1>3 DEF s

\* Parties that leave keep their place in the history.
LEMMA CompletedRiders ==
  ASSUME NEW network, NEW pod, NEW riders \in Seq(TripsOf(network, pod)), NEW here, NEW order
  PROVE  /\ Completed(riders, here, order) \in Seq(TripsOf(network, pod)) /\ Len(Completed(riders, here, order)) = Len(riders)
         /\ DOMAIN Completed(riders, here, order) = DOMAIN riders
         /\ Active(Completed(riders, here, order)) \subseteq Active(riders)
         /\ \A k \in Active(Completed(riders, here, order)) : riders[k].to = here => riders[k].id = order
         /\ \A k \in DOMAIN riders : LET r == Completed(riders, here, order)[k]
                                     IN  /\ r.id = riders[k].id /\ r.to = riders[k].to /\ r.shared = riders[k].shared
                                         /\ LegOrigin(r) = LegOrigin(riders[k]) /\ (riders[k].done => r.done)
<1> DEFINE q == Completed(riders, here, order)
           done(k) == riders[k].done \/ (riders[k].to = here /\ riders[k].id # order)
           new(k) == [riders[k] EXCEPT !.done = done(k)]
<1>1. q = [k \in DOMAIN riders |-> new(k)]
  BY DEF Completed
<1>2. ASSUME NEW k \in DOMAIN riders
      PROVE  /\ new(k) \in TripsOf(network, pod) /\ new(k).id = riders[k].id /\ new(k).to = riders[k].to /\ new(k).shared = riders[k].shared
             /\ LegOrigin(new(k)) = LegOrigin(riders[k]) /\ new(k).done = done(k)
  <2> DEFINE r == riders[k]
             d == done(k)
             m == [r EXCEPT !.done = d]
  <2>1. r \in TripsOf(network, pod)
    OBVIOUS
  <2>2. d \in BOOLEAN
    BY <2>1, TripParts
  <2> HIDE DEF r, d
  <2>3. r \in Trip /\ r.pod = pod /\ (r.leg # NoID => MarkersOf[network].incident)
    BY <2>1 DEF TripsOf
  <2> DEFINE Fields == [id : DOMAIN Orders, from : Stations, to : Stations, shared : BOOLEAN, leg : Stations \cup {NoID},
                        pod : {p.id : p \in Listed} \cup {NoID}, done : BOOLEAN]
  <2>4. r \in Fields /\ r.from = Orders[r.id].from /\ r.to = Orders[r.id].to /\ r.leg # r.to
    BY <2>3 DEF Trip
  <2>5. m \in Fields
    BY <2>2, <2>4
  <2>6. m.id = r.id /\ m.from = r.from /\ m.to = r.to /\ m.shared = r.shared /\ m.leg = r.leg /\ m.pod = r.pod /\ m.done = d
    BY <2>4
  <2> HIDE DEF m, Fields
  <2>7. m \in Trip
    BY <2>4, <2>5, <2>6 DEF Trip, Fields
  <2>8. m \in TripsOf(network, pod) /\ LegOrigin(m) = LegOrigin(r)
    BY <2>3, <2>6, <2>7 DEF TripsOf, LegOrigin
  <2> QED
    BY <2>6, <2>8 DEF m, r, d
<1>3. \A k \in DOMAIN riders : q[k] = new(k)
  BY <1>1
<1>4. DOMAIN q = DOMAIN riders /\ DOMAIN riders = 1 .. Len(riders) /\ Len(riders) \in Nat
  BY <1>1
<1>5. q \in Seq(TripsOf(network, pod)) /\ Len(q) = Len(riders)
  <2> HIDE DEF new
  <2>1. q = [k \in 1 .. Len(riders) |-> new(k)] /\ \A k \in 1 .. Len(riders) : new(k) \in TripsOf(network, pod)
    BY <1>1, <1>2, <1>4
  <2> HIDE DEF q
  <2> QED
    BY <1>4, <2>1
<1>6. \A k \in DOMAIN riders : q[k].done = done(k)
  <2> HIDE DEF q, new, done
  <2> QED
    BY <1>2, <1>3
<1>7. /\ Active(q) \subseteq Active(riders)
      /\ \A k \in Active(q) : riders[k].to = here => riders[k].id = order
  <2> HIDE DEF q
  <2> QED
    BY <1>4, <1>6 DEF Active
<1>8. \A k \in DOMAIN riders : /\ q[k].id = riders[k].id /\ q[k].to = riders[k].to /\ q[k].shared = riders[k].shared
                               /\ LegOrigin(q[k]) = LegOrigin(riders[k]) /\ (riders[k].done => q[k].done)
  <2>1. \A k \in DOMAIN riders : riders[k].done => done(k)
    OBVIOUS
  <2> HIDE DEF q, new, done
  <2> QED
    BY <1>2, <1>3, <1>6, <2>1
<1> HIDE DEF q
<1>9. /\ q \in Seq(TripsOf(network, pod)) /\ Len(q) = Len(riders) /\ DOMAIN q = DOMAIN riders /\ Active(q) \subseteq Active(riders)
      /\ \A k \in Active(q) : riders[k].to = here => riders[k].id = order
      /\ \A k \in DOMAIN riders : /\ q[k].id = riders[k].id /\ q[k].to = riders[k].to /\ q[k].shared = riders[k].shared
                                  /\ LegOrigin(q[k]) = LegOrigin(riders[k]) /\ (riders[k].done => q[k].done)
  BY <1>4, <1>5, <1>7, <1>8
<1> QED
  BY <1>9 DEF q

\* Their seats and their records stay good.
LEMMA CompletedGood ==
  ASSUME NEW network, NEW pod, NEW riders \in Seq(TripsOf(network, pod)), SeatsGood(riders), NEW records, NEW ridden,
         RecordsGood(records, riders, ridden), NEW here, NEW order
  PROVE  SeatsGood(Completed(riders, here, order)) /\ RecordsGood(records, Completed(riders, here, order), ridden)
<1> DEFINE q == Completed(riders, here, order)
<1>1. /\ Len(q) = Len(riders) /\ DOMAIN q = DOMAIN riders /\ Active(q) \subseteq Active(riders)
      /\ \A k \in DOMAIN riders : q[k].shared = riders[k].shared /\ LegOrigin(q[k]) = LegOrigin(riders[k]) /\ (riders[k].done => q[k].done)
  BY CompletedRiders
<1> HIDE DEF q
<1>2. SeatsGood(q)
  <2>1. \A k \in Active(q) : q[k].shared = riders[k].shared
    BY <1>1 DEF Active
  <2> QED
    BY <1>1, <2>1, SeatsLeft
<1>3. RecordsGood(records, q, ridden)
  <2> DEFINE s == Items(records)
  <2>1. /\ s \in Seq(Record) /\ (s = <<>> \/ Len(s) = Len(riders))
        /\ \A k \in DOMAIN s : s[k].berth = Berth[LegOrigin(riders[k])] /\ s[k].meters <= ridden /\ (riders[k].done \/ riders[k].shared)
    BY DEF RecordsGood
  <2> HIDE DEF s
  <2>2. DOMAIN s \subseteq DOMAIN riders
    BY <2>1
  <2>3. \A k \in DOMAIN s : s[k].berth = Berth[LegOrigin(q[k])] /\ s[k].meters <= ridden /\ (q[k].done \/ q[k].shared)
    BY <1>1, <2>1, <2>2
  <2> QED
    BY <1>1, <2>1, <2>3 DEF s, RecordsGood
<1> QED
  BY <1>2, <1>3 DEF q

\* An arrival: the parties for the station leave, in an emergency they wait for the end of the unload.
Arriving(v) ==
    LET here == LaneTo[v.lane]
        left == IF v.riders = Nil \/ v.op = "unload" THEN v.riders ELSE {Completed(The(v.riders), here, 0)}
        arrived == [v EXCEPT !.riders = left, !.station = here, !.lane = NoLane, !.motion = 0,
                             !.current = 1, !.stops = ListSlice(Selected(Items(@), {k \in DOMAIN Items(@) : Items(@)[k] # here}))]
    IN  IF ActiveIn(arrived) # {} THEN [arrived EXCEPT !.activity = "Continuing"]
        ELSE [arrived EXCEPT !.activity = "Idle", !.op = "service", !.stops = Nil, !.withdrawn = @ \ {"fault"}]
LEMMA ArrivedGood ==
  ASSUME NEW network \in DOMAIN LanesOf, NEW v, Placed(v, v), VehicleGood(network, v), v.lane # NoLane
  PROVE  VehicleGood(network, Arriving(v)) /\ Placed(Arriving(v), v) /\ Arriving(v).blockedBy = v.blockedBy
<1> DEFINE here == LaneTo[v.lane]
           riders == IF v.riders = Nil \/ v.op = "unload" THEN v.riders ELSE {Completed(The(v.riders), here, 0)}
           stops == ListSlice(Selected(Items(v.stops), {k \in DOMAIN Items(v.stops) : Items(v.stops)[k] # here}))
           arrived == [v EXCEPT !.riders = riders, !.station = here, !.lane = NoLane, !.motion = 0, !.current = 1, !.stops = stops]
           x == Arriving(v)
<1>0. x = IF ActiveIn(arrived) # {} THEN [arrived EXCEPT !.activity = "Continuing"]
          ELSE [arrived EXCEPT !.activity = "Idle", !.op = "service", !.stops = Nil, !.withdrawn = @ \ {"fault"}]
  BY DEF Arriving
<1> HIDE DEF x
<1>1. /\ Items(v.riders) \in Seq(TripsOf(network, v.id)) /\ IsSlice(v.riders) /\ Items(v.stops) \in Seq(Stations) /\ SeatsGood(Items(v.riders))
      /\ RecordsGood(v.records, Items(v.riders), v.ridden) /\ v.ridden \in Nat /\ RouteGood(network, v) /\ HoldGood(network, v)
  BY DEF VehicleGood
<1>2. \E l \in LanesOf[network] : v.lanes = <<l>> /\ v.lane = l
  BY <1>1 DEF RouteGood
<1>3. here \in Stations
  <2>1. LanesOf[network] \subseteq Lanes /\ \A l \in Lanes : LaneTo[l] \in Stations
    BY FrameStreamAssumption
  <2> QED
    BY <1>2, <2>1
<1>4. /\ IsSlice(riders) /\ Items(riders) \in Seq(TripsOf(network, v.id)) /\ SeatsGood(Items(riders))
      /\ RecordsGood(v.records, Items(riders), v.ridden)
  <2>1. CASE v.riders = Nil \/ v.op = "unload"
    BY <1>1, <2>1
  <2>2. CASE v.riders # Nil /\ v.op # "unload"
    <3> DEFINE q == Completed(Items(v.riders), here, 0)
    <3> HIDE DEF here
    <3>1. riders = {q} /\ Items({q}) = q
      BY <2>2, <1>1, OmittedItems, TheOf DEF IsSlice
    <3>2. q \in Seq(TripsOf(network, v.id)) /\ SeatsGood(q) /\ RecordsGood(v.records, q, v.ridden)
      BY <1>1, CompletedRiders, CompletedGood
    <3> HIDE DEF q
    <3> QED
      BY <3>1, <3>2 DEF IsSlice
  <2> QED
    BY <2>1, <2>2
<1>5. IsSlice(stops) /\ Items(stops) \in Seq(Stations)
  BY <1>1, SlicePart
<1> HIDE DEF here, riders, stops
<1>6. /\ Placed(arrived, v) /\ arrived.class = v.class /\ arrived.riders = riders /\ arrived.records = v.records /\ arrived.stops = stops
      /\ arrived.ridden = v.ridden /\ arrived.withdrawn = v.withdrawn /\ arrived.op = v.op /\ arrived.blockedBy = v.blockedBy
      /\ arrived.identity = v.identity /\ arrived.station = here /\ arrived.lane = NoLane /\ arrived.lanes = v.lanes /\ arrived.current = 1
  BY DEF Placed, VehicleFields
<1> HIDE DEF arrived
<1>7. /\ Placed(x, v) /\ x.id = v.id /\ x.class = v.class /\ x.riders = riders /\ x.records = v.records /\ x.stops \in {stops, Nil}
      /\ x.ridden = v.ridden /\ x.withdrawn \in {v.withdrawn, v.withdrawn \ {"fault"}}
      /\ (x.op = "service" \/ (x.op = v.op /\ x.withdrawn = v.withdrawn)) /\ x.blockedBy = v.blockedBy
      /\ x.identity = v.identity /\ x.station = here /\ x.lane = NoLane /\ x.lanes = v.lanes /\ x.current = 1
  BY <1>0, <1>6 DEF Placed, VehicleFields
<1>8. IsSlice(x.stops) /\ Items(x.stops) \in Seq(Stations)
  <2>1. IsSlice(Nil) /\ Items(Nil) = <<>>
    BY OmittedItems DEF IsSlice
  <2>2. <<>> \in Seq(Stations)
    BY EmptyList
  <2>3. Items(Nil) \in Seq(Stations) /\ x.stops \in {stops, Nil}
    BY <1>7, <2>1, <2>2
  <2> QED
    BY <1>5, <2>1, <2>3, Zenon
<1>9. RouteGood(network, x)
  BY <1>1, <1>2, <1>3, <1>7 DEF RouteGood
<1>10. HoldGood(network, x)
  BY <1>1, <1>7 DEF HoldGood
<1>11. \E p \in Listed : x.id = p.id /\ x.class = p.class
  BY <1>7 DEF VehicleGood
<1>12. VehicleGood(network, x)
  BY <1>1, <1>4, <1>7, <1>8, <1>9, <1>10, <1>11 DEF VehicleGood
<1> QED
  BY <1>7, <1>12 DEF x

\* A vehicle whose active parties are out keeps the records of those who left before.
LEMMA EmptiedGood ==
  ASSUME NEW network, NEW v, Placed(v, v), VehicleGood(network, v)
  PROVE  LET z == Emptied(v)
         IN  /\ VehicleGood(network, z) /\ Placed(z, v) /\ z.blockedBy = v.blockedBy /\ z.withdrawn = v.withdrawn /\ z.lane = v.lane
             /\ z.station = v.station
<1> DEFINE riders == Items(v.riders)
           kept == DOMAIN riders \ ActiveIn(v)
           s == Selected(riders, kept)
           r == IF s = <<>> THEN Nil ELSE {s}
           q == IF s = <<>> \/ v.records = Nil THEN Nil ELSE {Kept(v, The(v.records))}
           z == Emptied(v)
<1>1. /\ riders \in Seq(TripsOf(network, v.id)) /\ v.ridden \in Nat /\ RecordsGood(v.records, riders, v.ridden)
      /\ RouteGood(network, v) /\ HoldGood(network, v) /\ \E p \in Listed : v.id = p.id /\ v.class = p.class
  BY DEF VehicleGood
<1>2. z = [v EXCEPT !.riders = r, !.records = q, !.stops = Nil]
  BY DEF Emptied, Kept
<1>3. s \in Seq(TripsOf(network, v.id)) /\ Active(s) = {}
  <2>1. kept \in SUBSET (DOMAIN riders) /\ \A k \in kept : riders[k].done
    BY DEF ActiveIn, Active
  <2> HIDE DEF riders, kept
  <2>2. s \in Seq(TripsOf(network, v.id)) /\ \E f : Picks(f, s, riders, kept)
    BY <1>1, <2>1, SelectedEntries
  <2>3. PICK f : Picks(f, s, riders, kept)
    BY <2>2
  <2> HIDE DEF s
  <2>4. \A m \in DOMAIN s : s[m].done
    BY <2>1, <2>3 DEF Picks
  <2> QED
    BY <2>2, <2>4 DEF Active
<1>4. s # <<>> /\ v.records # Nil => RecordsGood({Kept(v, The(v.records))}, s, v.ridden)
  <2> SUFFICES ASSUME s # <<>>, v.records # Nil PROVE RecordsGood({Kept(v, The(v.records))}, s, v.ridden)
    OBVIOUS
  <2> DEFINE p == Items(v.records)
  <2>1. v.records = {p} /\ The(v.records) = p /\ v.records # {<<>>} /\ p \in Seq(Record) /\ (p = <<>> \/ Len(p) = Len(riders))
    BY <1>1, TheOf DEF RecordsGood, IsSlice
  <2> HIDE DEF p
  <2>2. DOMAIN p = DOMAIN riders
    BY <1>1, <2>1
  <2>3. Kept(v, The(v.records)) = Selected(p, kept)
    BY <2>1, <2>2 DEF Kept
  <2>4. RecordsGood({p}, riders, v.ridden) /\ kept \in SUBSET (DOMAIN riders)
    BY <1>1, <2>1
  <2> HIDE DEF riders, kept
  <2>5. RecordsGood({Selected(p, kept)}, Selected(riders, kept), v.ridden)
    BY <1>1, <2>4, RecordsSelected
  <2> QED
    BY <2>3, <2>5
<1>5. RecordsGood(q, s, v.ridden)
  BY <1>4, NoRecords
<1>6. IsSlice(r) /\ Items(r) = s
  <2> HIDE DEF s
  <2> QED
    BY OmittedItems DEF IsSlice
<1>7. SeatsGood(s)
  BY <1>3, EmptySeats
<1> HIDE DEF r, q, s, z
<1>8. /\ z.id = v.id /\ z.class = v.class /\ z.riders = r /\ z.records = q /\ z.stops = Nil /\ z.ridden = v.ridden
      /\ z.blockedBy = v.blockedBy /\ z.withdrawn = v.withdrawn /\ z.op = v.op
      /\ z.identity = v.identity /\ z.station = v.station /\ z.lane = v.lane /\ z.lanes = v.lanes /\ z.current = v.current
  BY <1>2 DEF Placed, VehicleFields
<1>9. Placed(z, v)
  BY EmptiedPlaced DEF z
<1>10. RouteGood(network, z) /\ HoldGood(network, z)
  BY <1>1, <1>8 DEF RouteGood, HoldGood
<1>11. IsSlice(z.stops) /\ Items(z.stops) \in Seq(Stations)
  <2>1. IsSlice(Nil) /\ Items(Nil) = <<>>
    BY OmittedItems DEF IsSlice
  <2> QED
    BY <1>8, <2>1
<1>12. VehicleGood(network, z)
  BY <1>1, <1>3, <1>5, <1>6, <1>7, <1>8, <1>10, <1>11 DEF VehicleGood
<1> QED
  BY <1>8, <1>9, <1>12 DEF z

\* A vehicle that leaves service for its emergency, or returns from it; its hold owns its purpose.
Held(v, op, withdrawn, blockedBy, activity) ==
    [v EXCEPT !.op = op, !.withdrawn = withdrawn, !.blockedBy = blockedBy, !.activity = activity]
LEMMA HeldGood ==
  ASSUME NEW network, NEW v, Placed(v, v), VehicleGood(network, v), NEW op, NEW withdrawn, NEW blockedBy, NEW activity,
         op \in {"service", "unload", "recovery"}, op = "unload" => "emergency" \in withdrawn, op = "recovery" => "fault" \in withdrawn,
         withdrawn # {} => MarkersOf[network].incident
  PROVE  LET x == Held(v, op, withdrawn, blockedBy, activity)
         IN  VehicleGood(network, x) /\ Placed(x, v) /\ x.blockedBy = blockedBy /\ x.withdrawn = withdrawn /\ x.lane = v.lane
<1> DEFINE x == Held(v, op, withdrawn, blockedBy, activity)
<1>0. x = [v EXCEPT !.op = op, !.withdrawn = withdrawn, !.blockedBy = blockedBy, !.activity = activity]
  BY DEF Held
<1> HIDE DEF x
<1>1. /\ Placed(x, v) /\ x.id = v.id /\ x.class = v.class /\ x.riders = v.riders /\ x.records = v.records /\ x.stops = v.stops /\ x.ridden = v.ridden
      /\ x.blockedBy = blockedBy /\ x.withdrawn = withdrawn /\ x.op = op
      /\ x.identity = v.identity /\ x.station = v.station /\ x.lane = v.lane /\ x.lanes = v.lanes /\ x.current = v.current
  BY <1>0 DEF Placed, VehicleFields
<1>2. RouteGood(network, x)
  BY <1>1 DEF VehicleGood, RouteGood
<1>3. HoldGood(network, x)
  BY <1>1 DEF HoldGood
<1>4. VehicleGood(network, x)
  BY <1>1, <1>2, <1>3, CarriesOn
<1> QED
  BY <1>1, <1>4 DEF x

\* A vehicle that settles at its berth, without its emergency.
Settling(v) == Settled([v EXCEPT !.withdrawn = @ \ {"emergency"}])
LEMMA SettledGood ==
  ASSUME NEW network, NEW v, Placed(v, v), VehicleGood(network, v), v.lane = NoLane
  PROVE  LET x == Settling(v)
         IN  VehicleGood(network, x) /\ Placed(x, v) /\ x.blockedBy = v.blockedBy /\ x.withdrawn = v.withdrawn \ {"emergency"}
<1> DEFINE y == [v EXCEPT !.withdrawn = @ \ {"emergency"}]
           n == NextIdentity(y)
           x == Settling(v)
           e == <<>>
<1>1. y.identity = v.identity /\ v.identity \in 0 .. MaxCounter /\ Placed(y, v) /\ y.withdrawn = v.withdrawn \ {"emergency"}
      /\ y = [v EXCEPT !.withdrawn = @ \ {"emergency"}]
  BY DEF Placed, VehicleFields, VehicleGood, RouteGood
<1>2. n \in 0 .. MaxCounter
  BY <1>1, NextIdentityBounded
<1>3. x = [y EXCEPT !.activity = "Idle", !.op = "service", !.lanes = e, !.identity = n, !.current = 0]
  BY DEF Settled, Settling
<1>4. e = <<>>
  OBVIOUS
<1> HIDE DEF n, x, e, y
<1>5. /\ Placed(x, v) /\ x.id = v.id /\ x.class = v.class /\ x.riders = v.riders /\ x.records = v.records /\ x.stops = v.stops /\ x.ridden = v.ridden
      /\ x.blockedBy = v.blockedBy /\ x.withdrawn = v.withdrawn \ {"emergency"} /\ x.op = "service"
      /\ x.identity = n /\ x.station = v.station /\ x.lane = NoLane /\ x.lanes = e /\ x.current = 0
  BY <1>1, <1>3 DEF Placed, VehicleFields
<1>6. RouteGood(network, x)
  BY <1>2, <1>4, <1>5 DEF VehicleGood, RouteGood
<1>7. HoldGood(network, x)
  BY <1>5 DEF VehicleGood, HoldGood
<1>8. VehicleGood(network, x)
  BY <1>5, <1>6, <1>7, CarriesOn
<1> QED
  BY <1>5, <1>8 DEF x

-----------------------------------------------------------------------------
(***************************************************************************)
(* The steps of the world.                                                 *)
(***************************************************************************)
\* A list of more.
LEMMA SeqWider ==
  ASSUME NEW S, NEW T, S \subseteq T, NEW s \in Seq(S)
  PROVE  s \in Seq(T)
<1>1. s = [k \in 1 .. Len(s) |-> s[k]] /\ Len(s) \in Nat /\ \A k \in 1 .. Len(s) : s[k] \in T
  OBVIOUS
<1> QED
  BY <1>1

\* The parts of a good world.
LEMMA GoodParts ==
  ASSUME NEW w, WorldGood(w)
  PROVE  /\ w.tick \in Nat /\ w.serial \in Nat /\ w.serial >= 1 /\ w.pending \in Seq(TripsOf(w.network, NoID))
         /\ w.faults \in Seq(FaultRecord(w)) /\ w.emergencies \in Seq(EmergencyRecord(w))
BY DEF WorldGood, CountersGood, FaultsGood, EmergenciesGood

\* The incidents of a world whose counters are later.
LEMMA IncidentsStay ==
  ASSUME NEW w, WorldGood(w), NEW u, u.faults = w.faults, u.emergencies \in {w.emergencies, <<>>}, u.network = w.network,
         u.tick \in Nat, w.tick <= u.tick, u.serial \in Nat, w.serial <= u.serial, FleetIds(u) = FleetIds(w),
         \A k \in DOMAIN w.faults, i \in DOMAIN u.vehicles : w.faults[k].pod = u.vehicles[i].id => "fault" \in u.vehicles[i].withdrawn
  PROVE  FaultsGood(u) /\ EmergenciesGood(u) /\ Serials(u) = Serials(w)
<1>1. /\ w.faults \in Seq(FaultRecord(w)) /\ \A k \in DOMAIN w.faults : w.faults[k].pod = NoID => w.faults[k].lane \in LanesOf[w.network]
      /\ \A j, k \in DOMAIN w.faults : j < k => /\ w.faults[j].serial < w.faults[k].serial
                                                /\ w.faults[j].pod = w.faults[k].pod => w.faults[k].pod = NoID
  BY DEF WorldGood, FaultsGood
<1>2. /\ w.emergencies \in Seq(EmergencyRecord(w)) /\ Len(w.emergencies) <= 1
      /\ \A k \in DOMAIN w.emergencies : w.emergencies[k].serial \notin Serials(w)
  BY DEF WorldGood, EmergenciesGood
<1>3. w.tick \in Nat /\ w.serial \in Nat
  BY DEF WorldGood, CountersGood
<1>4. 1 .. w.serial - 1 \subseteq 1 .. u.serial - 1 /\ 0 .. w.tick \subseteq 0 .. u.tick
  BY <1>3
<1>5. FaultRecord(w) \subseteq FaultRecord(u) /\ EmergencyRecord(w) \subseteq EmergencyRecord(u)
  <2> DEFINE s == 1 .. w.serial - 1
             t == 1 .. u.serial - 1
             m == 0 .. w.tick
             n == 0 .. u.tick
  <2>1. s \subseteq t /\ m \subseteq n
    BY <1>4
  <2>2. /\ FaultRecord(w) = [serial : s, pod : FleetIds(w) \cup {NoID}, lane : Lanes \cup {NoLane}, start : m]
        /\ FaultRecord(u) = [serial : t, pod : FleetIds(w) \cup {NoID}, lane : Lanes \cup {NoLane}, start : n]
        /\ EmergencyRecord(w) = [serial : s, pod : FleetIds(w), order : DOMAIN Orders, start : m]
        /\ EmergencyRecord(u) = [serial : t, pod : FleetIds(w), order : DOMAIN Orders, start : n]
    BY DEF FaultRecord, EmergencyRecord
  <2> HIDE DEF s, t, m, n
  <2> QED
    BY <2>1, <2>2
<1>6. Serials(u) = Serials(w)
  BY DEF Serials
<1>7. u.faults \in Seq(FaultRecord(u))
  BY <1>1, <1>5, SeqWider
<1>8. FaultsGood(u)
  BY <1>1, <1>7 DEF FaultsGood
<1>9. EmergenciesGood(u)
  <2>1. CASE u.emergencies = w.emergencies
    <3>1. u.emergencies \in Seq(EmergencyRecord(u))
      BY <1>2, <1>5, <2>1, SeqWider
    <3> QED
      BY <1>2, <1>6, <2>1, <3>1 DEF EmergenciesGood
  <2>2. CASE u.emergencies = <<>>
    <3>1. u.emergencies \in Seq(EmergencyRecord(u)) /\ Len(u.emergencies) = 0 /\ DOMAIN u.emergencies = {}
      BY <2>2
    <3> QED
      BY <3>1 DEF EmergenciesGood
  <2> QED
    BY <2>1, <2>2
<1> QED
  BY <1>6, <1>8, <1>9

\* One vehicle changes.
LEMMA OneVehicle ==
  ASSUME NEW ws, NEW i \in DOMAIN ws, NEW x, Placed(x, ws[i]), NEW us, us = [ws EXCEPT ![i] = x]
  PROVE  /\ DOMAIN us = DOMAIN ws /\ us[i] = x /\ {us[k].id : k \in DOMAIN us} = {ws[k].id : k \in DOMAIN ws}
         /\ \A k \in DOMAIN ws : us[k].id = ws[k].id /\ (k # i => us[k] = ws[k])
<1>1. DOMAIN us = DOMAIN ws /\ us[i] = x
  OBVIOUS
<1>2. \A k \in DOMAIN ws : us[k].id = ws[k].id /\ (k # i => us[k] = ws[k])
  BY DEF Placed
<1>3. {us[k].id : k \in DOMAIN us} = {ws[k].id : k \in DOMAIN ws}
  BY <1>1, <1>2
<1> QED
  BY <1>1, <1>2, <1>3

\* A step of one vehicle, by a tick: the other vehicles and the faults stay, a faulted vehicle keeps its hold.
LEMMA VehicleStepGood ==
  ASSUME NEW w, WorldSound(w), WorldGood(w), NEW i \in DOMAIN w.vehicles, NEW x, Placed(x, w.vehicles[i]), VehicleGood(w.network, x),
         x.blockedBy \in Serials(w) \cup {0}, \A k \in DOMAIN w.faults : w.faults[k].pod = x.id => "fault" \in x.withdrawn,
         NEW u, u.vehicles = [w.vehicles EXCEPT ![i] = x], u.network = w.network, u.tick = w.tick + 1, u.serial = w.serial,
         u.submitted = w.submitted, u.faults = w.faults, u.emergencies \in {w.emergencies, <<>>}, u.pending \in Seq(TripsOf(w.network, NoID))
  PROVE  WorldGood(u)
<1>1. /\ DOMAIN u.vehicles = DOMAIN w.vehicles /\ u.vehicles[i] = x /\ FleetIds(u) = FleetIds(w)
      /\ \A k \in DOMAIN w.vehicles : u.vehicles[k].id = w.vehicles[k].id /\ (k # i => u.vehicles[k] = w.vehicles[k])
  <2> DEFINE us == u.vehicles
             ws == w.vehicles
  <2>1. i \in DOMAIN ws /\ Placed(x, ws[i]) /\ us = [ws EXCEPT ![i] = x]
    OBVIOUS
  <2> HIDE DEF us, ws
  <2>2. /\ DOMAIN us = DOMAIN ws /\ us[i] = x /\ {us[k].id : k \in DOMAIN us} = {ws[k].id : k \in DOMAIN ws}
        /\ \A k \in DOMAIN ws : us[k].id = ws[k].id /\ (k # i => us[k] = ws[k])
    BY <2>1, OneVehicle
  <2> QED
    BY <2>2, Zenon DEF FleetIds, us, ws
<1>2. w.tick \in Nat /\ w.serial \in Nat \ {0} /\ w.submitted \in Nat /\ FleetGood(w)
      /\ \A k \in DOMAIN w.faults, j \in DOMAIN w.vehicles : w.faults[k].pod = w.vehicles[j].id => "fault" \in w.vehicles[j].withdrawn
  BY DEF WorldGood, CountersGood, FaultsGood
<1>3. \A k \in DOMAIN w.faults, j \in DOMAIN u.vehicles : w.faults[k].pod = u.vehicles[j].id => "fault" \in u.vehicles[j].withdrawn
  BY <1>1, <1>2
<1>4. FaultsGood(u) /\ EmergenciesGood(u) /\ Serials(u) = Serials(w)
  <2>1. w.tick <= u.tick /\ u.tick \in Nat /\ u.serial \in Nat /\ w.serial <= u.serial
    BY <1>2
  <2> QED
    BY <1>1, <1>3, <2>1, IncidentsStay
<1>5. FleetGood(u)
  BY <1>1, <1>2, <1>4 DEF FleetGood
<1>6. CountersGood(u)
  BY <1>2 DEF CountersGood
<1> QED
  BY <1>4, <1>5, <1>6 DEF WorldGood

\* The session after a step of its world.
LEMMA WorldStepGood ==
  ASSUME SessionSound(session), SessionGood(session), NEW u, WorldGood(u), u.serial >= session.world.serial, Became(u)
  PROVE  SessionGood(session')
<1>1. DOMAIN session = SessionFields
  BY DEF SessionSound
<1>2. session' = [[session EXCEPT !.world = u] EXCEPT !.revision = @ + 1]
  BY DEF Became, Revised
<1>3. session'.world = u /\ session'.revision = session.revision + 1 /\ session'.saved = session.saved
  BY <1>1, <1>2 DEF SessionFields
<1>4. /\ session.revision \in Nat /\ session.world.serial \in Nat /\ u.serial \in Nat
      /\ \A s \in session.saved : WorldGood(s) /\ s.serial <= session.world.serial /\ s.serial \in Nat
  BY GoodParts DEF SessionGood
<1>5. \A s \in session'.saved : WorldGood(s) /\ s.serial <= u.serial
  BY <1>3, <1>4
<1> QED
  BY <1>3, <1>4, <1>5 DEF SessionGood

\* A step of one vehicle in a session.
LEMMA OneStepGood ==
  ASSUME SessionSound(session), SessionGood(session), NEW i \in Vehicles, NEW x, Placed(x, session.world.vehicles[i]),
         VehicleGood(session.world.network, x), x.blockedBy \in Serials(session.world) \cup {0},
         \A k \in DOMAIN session.world.faults : session.world.faults[k].pod = x.id => "fault" \in x.withdrawn,
         Ticked([session.world EXCEPT !.vehicles[i] = x])
  PROVE  SessionGood(session')
<1> DEFINE w == session.world
           vs == [w.vehicles EXCEPT ![i] = x]
           u == [[w EXCEPT !.vehicles = vs] EXCEPT !.tick = @ + 1]
<1>1. Became(u)
  BY DEF Ticked
<1>2. WorldSound(w) /\ WorldGood(w) /\ i \in DOMAIN w.vehicles /\ vs = [w.vehicles EXCEPT ![i] = x]
  BY DEF SessionSound, SessionGood, Vehicles
<1>3. Placed(x, w.vehicles[i]) /\ VehicleGood(w.network, x) /\ x.blockedBy \in Serials(w) \cup {0}
      /\ \A k \in DOMAIN w.faults : w.faults[k].pod = x.id => "fault" \in x.withdrawn
  OBVIOUS
<1> HIDE DEF w, vs
<1>4. /\ u.vehicles = vs /\ u.network = w.network /\ u.tick = w.tick + 1 /\ u.serial = w.serial /\ u.submitted = w.submitted
      /\ u.faults = w.faults /\ u.emergencies = w.emergencies /\ u.pending = w.pending
  BY <1>2 DEF WorldSound, WorldFields
<1> HIDE DEF u
<1>5. w.pending \in Seq(TripsOf(w.network, NoID)) /\ w.serial \in Nat
  BY <1>2, GoodParts
<1>6. WorldGood(u)
  BY <1>2, <1>3, <1>4, <1>5, VehicleStepGood
<1>7. u.serial >= session.world.serial
  BY <1>4, <1>5 DEF w
<1> QED
  BY <1>1, <1>6, <1>7, WorldStepGood

\* The vehicle of a good session.
LEMMA GoodVehicle ==
  ASSUME SessionSound(session), SessionGood(session), NEW i \in Vehicles
  PROVE  LET w == session.world
             v == w.vehicles[i]
         IN  /\ Placed(v, v) /\ VehicleGood(w.network, v) /\ v.blockedBy \in Serials(w) \cup {0} /\ w.network \in DOMAIN LanesOf
             /\ WorldSound(w) /\ WorldGood(w) /\ v.id \in FleetIds(w)
             /\ \A k \in DOMAIN w.faults : w.faults[k].pod = v.id => "fault" \in v.withdrawn
<1>1. WorldSound(session.world) /\ WorldGood(session.world)
  BY DEF SessionSound, SessionGood
<1> QED
  BY <1>1, VehicleOf DEF WorldGood, FleetGood, FaultsGood, Vehicles, WorldSound, FleetIds

\* Without one entry.
LEMMA WithoutEntry ==
  ASSUME NEW S, NEW list \in Seq(S), NEW k \in DOMAIN list
  PROVE  /\ Without(list, k) \in Seq(S) /\ Len(Without(list, k)) = Len(list) - 1 /\ Len(list) \in Nat
         /\ \A m \in DOMAIN Without(list, k) : /\ m \in 1 .. Len(list) - 1
                                               /\ m < k => Without(list, k)[m] = list[m]
                                               /\ m >= k => Without(list, k)[m] = list[m + 1]
<1> DEFINE a == SubSeq(list, 1, k - 1)
           b == SubSeq(list, k + 1, Len(list))
<1>1. Len(list) \in Nat /\ k \in 1 .. Len(list) /\ \A m \in 1 .. Len(list) : list[m] \in S
  OBVIOUS
<1>2. a \in Seq(S) /\ Len(a) = k - 1 /\ \A m \in 1 .. k - 1 : a[m] = list[m]
  BY <1>1
<1>3. b \in Seq(S) /\ Len(b) = Len(list) - k /\ \A m \in 1 .. Len(list) - k : b[m] = list[m + k]
  BY <1>1
<1> DEFINE c == a \o b
<1> HIDE DEF a, b
<1>4. c \in Seq(S) /\ Len(c) = Len(list) - 1 /\ DOMAIN c = 1 .. Len(list) - 1
  BY <1>1, <1>2, <1>3
<1>5. ASSUME NEW m \in 1 .. Len(list) - 1
      PROVE  (m < k => c[m] = list[m]) /\ (m >= k => c[m] = list[m + 1])
  <2>1. ASSUME m < k PROVE c[m] = list[m]
    <3>1. m \in 1 .. Len(a) /\ c[m] = a[m]
      BY <1>1, <1>2, <1>3, <2>1
    <3> QED
      BY <1>2, <3>1
  <2>2. ASSUME m >= k PROVE c[m] = list[m + 1]
    <3>1. c[m] = b[m - (k - 1)] /\ m - (k - 1) \in 1 .. Len(list) - k /\ m - (k - 1) + k = m + 1
      BY <1>1, <1>2, <1>3, <2>2
    <3> QED
      BY <1>3, <3>1
  <2> QED
    BY <2>1, <2>2
<1>6. Without(list, k) = c
  BY DEF Without, a, b, c
<1> HIDE DEF c
<1> QED
  BY <1>1, <1>4, <1>5, <1>6

\* A vehicle departs, moves, or meets debris.
LEMMA DriveGood ==
  ASSUME SessionSound(session), SessionGood(session), NEW i \in Vehicles, Depart(i) \/ Drive(i) \/ BlockByDebris(i)
  PROVE  SessionGood(session')
<1> DEFINE w == session.world
           v == w.vehicles[i]
<1>1. /\ Placed(v, v) /\ VehicleGood(w.network, v) /\ v.blockedBy \in Serials(w) \cup {0} /\ w.network \in DOMAIN LanesOf
      /\ \A k \in DOMAIN w.faults : w.faults[k].pod = v.id => "fault" \in v.withdrawn
  BY GoodVehicle
<1>2. ASSUME NEW x, Placed(x, v), VehicleGood(w.network, x), x.blockedBy \in Serials(w) \cup {0}, x.withdrawn = v.withdrawn,
             Ticked([session.world EXCEPT !.vehicles[i] = x])
      PROVE  SessionGood(session')
  <2>1. \A k \in DOMAIN w.faults : w.faults[k].pod = x.id => "fault" \in x.withdrawn
    <3> HIDE DEF w, v
    <3> QED
      BY <1>1, <1>2 DEF Placed
  <2> QED
    BY <1>2, <2>1, OneStepGood
<1>3. CASE Depart(i)
  <2>1. PICK lane \in LanesOf[w.network] : Ticked([session.world EXCEPT !.vehicles[i] = Departing(v, lane)])
    BY <1>3 DEF Depart, LaneFrom, Departing
  <2> DEFINE x == Departing(v, lane)
  <2>2. VehicleGood(w.network, x) /\ Placed(x, v) /\ x.blockedBy = v.blockedBy /\ x.withdrawn = v.withdrawn
    <3> HIDE DEF v, w
    <3> QED
      BY <1>1, DepartedGood
  <2> HIDE DEF x
  <2> QED
    BY <1>1, <1>2, <2>1, <2>2 DEF x
<1>4. CASE Drive(i)
  <2> DEFINE x == Driving(v)
  <2>1. Ticked([session.world EXCEPT !.vehicles[i] = x])
    BY <1>4 DEF Drive, Driving
  <2>2. VehicleGood(w.network, x) /\ Placed(x, v) /\ x.blockedBy = v.blockedBy /\ x.withdrawn = v.withdrawn
    <3> HIDE DEF v, w
    <3> QED
      BY <1>1, DrivenGood
  <2> HIDE DEF x
  <2> QED
    BY <1>1, <1>2, <2>1, <2>2
<1>5. CASE BlockByDebris(i)
  <2>1. PICK k \in DOMAIN w.faults : Ticked([session.world EXCEPT !.vehicles[i] = [v EXCEPT !.blockedBy = w.faults[k].serial]])
    BY <1>5 DEF BlockByDebris
  <2> DEFINE serial == w.faults[k].serial
             x == [v EXCEPT !.blockedBy = serial]
             y == Held(v, v.op, v.withdrawn, serial, v.activity)
  <2>2. serial \in Serials(w)
    BY DEF Serials
  <2>3. Ticked([session.world EXCEPT !.vehicles[i] = x])
    BY <2>1
  <2> HIDE DEF serial, v, w
  <2>4. VehicleGood(w.network, y) /\ Placed(y, v) /\ y.blockedBy = serial /\ y.withdrawn = v.withdrawn
    <3>1. v.op \in {"service", "unload", "recovery"} /\ (v.op = "unload" => "emergency" \in v.withdrawn)
          /\ (v.op = "recovery" => "fault" \in v.withdrawn) /\ (v.withdrawn # {} => MarkersOf[w.network].incident)
      BY <1>1 DEF VehicleGood, HoldGood
    <3> QED
      BY <1>1, <3>1, HeldGood
  <2>5. x = y
    BY <1>1 DEF Placed, VehicleFields, Held
  <2> HIDE DEF x, y
  <2> QED
    BY <1>2, <2>2, <2>3, <2>4, <2>5
<1> QED
  BY <1>3, <1>4, <1>5

\* An arrival.
LEMMA ArriveGood ==
  ASSUME SessionSound(session), SessionGood(session), NEW i \in Vehicles, Arrive(i)
  PROVE  SessionGood(session')
<1> DEFINE w == session.world
           v == w.vehicles[i]
           x == Arriving(v)
<1>1. Ticked([session.world EXCEPT !.vehicles[i] = x]) /\ ~Faulted(i) /\ v.lane # NoLane
  BY DEF Arrive, Arriving
<1>2. /\ Placed(v, v) /\ VehicleGood(w.network, v) /\ v.blockedBy \in Serials(w) \cup {0} /\ w.network \in DOMAIN LanesOf
  BY GoodVehicle
<1>3. \A k \in DOMAIN w.faults : w.faults[k].pod # v.id
  BY <1>1 DEF Faulted
<1> HIDE DEF w, v
<1>4. VehicleGood(w.network, x) /\ Placed(x, v) /\ x.blockedBy = v.blockedBy
  BY <1>1, <1>2, ArrivedGood
<1> HIDE DEF x
<1>5. \A k \in DOMAIN w.faults : w.faults[k].pod = x.id => "fault" \in x.withdrawn
  BY <1>3, <1>4 DEF Placed
<1> QED
  BY <1>1, <1>2, <1>4, <1>5, OneStepGood DEF w, v

\* A boarding.
LEMMA BoardGood ==
  ASSUME SessionSound(session), SessionGood(session), NEW i \in Vehicles, Board(i)
  PROVE  SessionGood(session')
<1> DEFINE w == session.world
           v == w.vehicles[i]
<1>1. v.withdrawn = {} /\ Cardinality(ActiveIn(v)) < Seats /\ \E k \in DOMAIN w.pending :
               LET trip == w.pending[k]
               IN  /\ v.station = LegOrigin(trip)
                   /\ ActiveIn(v) # {} => trip.shared /\ \A j \in ActiveIn(v) : Items(v.riders)[j].shared
                   /\ Ticked([w EXCEPT !.pending = Without(@, k), !.vehicles[i] = Boarded(v, trip, JoinedRecords(v, Berth[v.station]))])
  BY DEF Board
<1>2. PICK k \in DOMAIN w.pending :
               LET trip == w.pending[k]
               IN  /\ v.station = LegOrigin(trip)
                   /\ ActiveIn(v) # {} => trip.shared /\ \A j \in ActiveIn(v) : Items(v.riders)[j].shared
                   /\ Ticked([w EXCEPT !.pending = Without(@, k), !.vehicles[i] = Boarded(v, trip, JoinedRecords(v, Berth[v.station]))])
  BY <1>1
<1> DEFINE trip == w.pending[k]
           x == Boarded(v, trip, JoinedRecords(v, Berth[v.station]))
           p == Without(w.pending, k)
           vs == [w.vehicles EXCEPT ![i] = x]
           u == [[w EXCEPT !.pending = p, !.vehicles = vs] EXCEPT !.tick = @ + 1]
<1>3. v.station = LegOrigin(trip) /\ (ActiveIn(v) # {} => trip.shared /\ \A j \in ActiveIn(v) : Items(v.riders)[j].shared) /\ Became(u)
  BY <1>2 DEF Ticked
<1>4. /\ Placed(v, v) /\ VehicleGood(w.network, v) /\ v.blockedBy \in Serials(w) \cup {0} /\ WorldSound(w) /\ WorldGood(w)
      /\ i \in DOMAIN w.vehicles /\ \A m \in DOMAIN w.faults : w.faults[m].pod = v.id => "fault" \in v.withdrawn
  BY GoodVehicle DEF Vehicles
<1>5. vs = [w.vehicles EXCEPT ![i] = x] /\ Placed(v, w.vehicles[i]) /\ k \in DOMAIN w.pending /\ p = Without(w.pending, k)
      /\ trip = w.pending[k]
  BY <1>4
<1> HIDE DEF w, v, trip, p, vs
<1>6. w.pending \in Seq(TripsOf(w.network, NoID)) /\ w.serial \in Nat
  BY <1>4, GoodParts
<1>7. p \in Seq(TripsOf(w.network, NoID))
  BY <1>5, <1>6, WithoutEntry
<1>8. trip \in TripsOf(w.network, NoID)
  BY <1>5, <1>6
<1>9. VehicleGood(w.network, x) /\ Placed(x, v) /\ x.blockedBy = v.blockedBy /\ x.withdrawn = v.withdrawn
  BY <1>1, <1>3, <1>4, <1>8, BoardedGood
<1> HIDE DEF x
<1>10. /\ u.vehicles = vs /\ u.network = w.network /\ u.tick = w.tick + 1 /\ u.serial = w.serial /\ u.submitted = w.submitted
       /\ u.faults = w.faults /\ u.emergencies = w.emergencies /\ u.pending = p
  BY <1>4 DEF WorldSound, WorldFields
<1> HIDE DEF u
<1>11. /\ Placed(x, w.vehicles[i]) /\ x.blockedBy \in Serials(w) \cup {0}
       /\ \A m \in DOMAIN w.faults : w.faults[m].pod = x.id => "fault" \in x.withdrawn
  BY <1>4, <1>5, <1>9 DEF Placed
<1>12. WorldGood(u)
  BY <1>4, <1>5, <1>7, <1>9, <1>10, <1>11, VehicleStepGood
<1>13. u.serial >= session.world.serial
  BY <1>6, <1>10 DEF w
<1> QED
  BY <1>3, <1>12, <1>13, WorldStepGood

\* A request of a trip.
LEMMA RequestTripGood ==
  ASSUME SessionSound(session), SessionGood(session), scene \in Scenes, RequestTrip
  PROVE  SessionGood(session')
<1> DEFINE w == session.world
           id == scene.orders[w.submitted + 1]
           r == RequestOf(id, NoID, NoID)
           p == Append(w.pending, r)
           n == w.submitted + 1
           u == [w EXCEPT !.submitted = n, !.pending = p]
<1>1. Became(u) /\ w.submitted < Len(scene.orders)
  BY DEF RequestTrip
<1>2. WorldSound(w) /\ WorldGood(w) /\ w.submitted \in Nat
  BY DEF SessionSound, SessionGood, WorldGood, CountersGood
<1>3. scene.orders \in Seq(DOMAIN Orders) /\ \A m \in DOMAIN Orders : Orders[m].from # Orders[m].to /\ Orders[m].to \in Stations
  <2>1. \A m \in DOMAIN Orders : Orders[m].from # Orders[m].to
    BY FrameStreamAssumption
  <2>2. scene.orders \in Seq(DOMAIN Orders)
    BY FrameStreamAssumption
  <2> DEFINE R == [from : Stations, to : Stations, shared : BOOLEAN]
  <2>3. Orders \in Seq(R)
    BY FrameStreamAssumption
  <2> HIDE DEF R
  <2>4. \A m \in DOMAIN Orders : Orders[m] \in R
    BY <2>3
  <2> QED
    BY <2>1, <2>2, <2>4 DEF R
<1>4. id \in DOMAIN Orders
  BY <1>1, <1>2, <1>3
<1>5. NoID # Orders[id].to
  BY <1>3, <1>4, FrameStreamAssumption
<1> HIDE DEF id
<1>6. r \in TripsOf(w.network, NoID)
  BY <1>4, <1>5, RequestIsTrip
<1>7. w.pending \in Seq(TripsOf(w.network, NoID)) /\ w.serial \in Nat
  BY <1>2, GoodParts
<1> HIDE DEF r, w
<1>8. p \in Seq(TripsOf(w.network, NoID))
  BY <1>6, <1>7
<1> HIDE DEF p, n
<1>9. /\ u.network = w.network /\ u.tick = w.tick /\ u.serial = w.serial /\ u.submitted = n /\ u.vehicles = w.vehicles
      /\ u.faults = w.faults /\ u.emergencies = w.emergencies /\ u.pending = p
  BY <1>2 DEF WorldSound, WorldFields
<1>10. n \in Nat
  BY <1>2 DEF n
<1> HIDE DEF u
<1>11. WorldGood(u)
  <2>1. /\ w.tick \in Nat /\ w.serial \in Nat \ {0} /\ FleetGood(w)
        /\ \A k \in DOMAIN w.faults, j \in DOMAIN w.vehicles : w.faults[k].pod = w.vehicles[j].id => "fault" \in w.vehicles[j].withdrawn
    BY <1>2 DEF WorldGood, CountersGood, FaultsGood
  <2>2. FleetIds(u) = FleetIds(w)
    BY <1>9 DEF FleetIds
  <2>3. FaultsGood(u) /\ EmergenciesGood(u) /\ Serials(u) = Serials(w)
    BY <1>2, <1>9, <2>1, <2>2, IncidentsStay
  <2> QED
    BY <1>8, <1>9, <1>10, <2>1, <2>3 DEF WorldGood, CountersGood, FleetGood
<1>12. u.serial >= session.world.serial
  BY <1>7, <1>9 DEF w
<1> QED
  BY <1>1, <1>11, <1>12, WorldStepGood

\* An evacuation.
LEMMA EvacuateGood ==
  ASSUME SessionSound(session), SessionGood(session), NEW i \in Vehicles, Evacuate(i)
  PROVE  SessionGood(session')
<1> DEFINE w == session.world
           v == w.vehicles[i]
           z == Emptied(v)
           y == [z EXCEPT !.withdrawn = @ \ {"emergency"}]
           x == IF v.lane # NoLane THEN [y EXCEPT !.op = "recovery", !.activity = "Relocating"] ELSE Settled(y)
           vs == [w.vehicles EXCEPT ![i] = x]
           n == w.interrupted + Cardinality(ActiveIn(v))
           e == IF w.emergencies # <<>> /\ w.emergencies[1].pod = v.id THEN <<>> ELSE w.emergencies
           u == [[w EXCEPT !.interrupted = n, !.emergencies = e, !.vehicles = vs] EXCEPT !.tick = @ + 1]
<1>1. Became(u) /\ Faulted(i)
  BY DEF Evacuate, Ticked
<1>2. /\ Placed(v, v) /\ VehicleGood(w.network, v) /\ v.blockedBy \in Serials(w) \cup {0} /\ WorldSound(w) /\ WorldGood(w)
      /\ i \in DOMAIN w.vehicles /\ \A m \in DOMAIN w.faults : w.faults[m].pod = v.id => "fault" \in v.withdrawn
  BY GoodVehicle DEF Vehicles
<1>3. "fault" \in v.withdrawn
  BY <1>1, <1>2 DEF Faulted
<1>4. MarkersOf[w.network].incident
  <2>1. w.faults # <<>>
    BY <1>1 DEF Faulted
  <2> QED
    BY <2>1, MarkersSound
<1>5. vs = [w.vehicles EXCEPT ![i] = x] /\ Placed(v, w.vehicles[i]) /\ e \in {w.emergencies, <<>>}
  BY <1>2
<1>6. VehicleGood(w.network, x) /\ Placed(x, v) /\ x.blockedBy = v.blockedBy /\ x.withdrawn = v.withdrawn \ {"emergency"}
  <2> HIDE DEF w, v
  <2>1. /\ VehicleGood(w.network, z) /\ Placed(z, v) /\ z.blockedBy = v.blockedBy /\ z.withdrawn = v.withdrawn /\ z.lane = v.lane
        /\ z.station = v.station
    BY <1>2, EmptiedGood
  <2> HIDE DEF z
  <2>2. Placed(z, z)
    BY <2>1 DEF Placed
  <2>3. CASE v.lane # NoLane
    <3> DEFINE h == Held(z, "recovery", z.withdrawn \ {"emergency"}, z.blockedBy, "Relocating")
    <3>1. VehicleGood(w.network, h) /\ Placed(h, z) /\ h.blockedBy = z.blockedBy /\ h.withdrawn = z.withdrawn \ {"emergency"}
      BY <1>3, <1>4, <2>1, <2>2, HeldGood
    <3>2. x = h
      BY <2>2, <2>3 DEF Placed, VehicleFields, Held
    <3> HIDE DEF x, h
    <3> QED
      BY <2>1, <3>1, <3>2 DEF Placed
  <2>4. CASE v.lane = NoLane
    <3> DEFINE h == Settling(z)
    <3>1. VehicleGood(w.network, h) /\ Placed(h, z) /\ h.blockedBy = z.blockedBy /\ h.withdrawn = z.withdrawn \ {"emergency"}
      BY <2>1, <2>2, <2>4, SettledGood
    <3>2. x = h
      BY <2>4 DEF Settling
    <3> HIDE DEF x, h
    <3> QED
      BY <2>1, <3>1, <3>2 DEF Placed
  <2> QED
    BY <2>3, <2>4
<1> HIDE DEF w, v, x, vs, n, e
<1>7. /\ u.vehicles = vs /\ u.network = w.network /\ u.tick = w.tick + 1 /\ u.serial = w.serial /\ u.submitted = w.submitted
      /\ u.faults = w.faults /\ u.emergencies = e /\ u.pending = w.pending
  BY <1>2 DEF WorldSound, WorldFields
<1> HIDE DEF u
<1>8. /\ Placed(x, w.vehicles[i]) /\ x.blockedBy \in Serials(w) \cup {0}
      /\ \A m \in DOMAIN w.faults : w.faults[m].pod = x.id => "fault" \in x.withdrawn
  BY <1>2, <1>3, <1>5, <1>6 DEF Placed
<1>9. w.pending \in Seq(TripsOf(w.network, NoID)) /\ w.serial \in Nat
  BY <1>2, GoodParts
<1>10. WorldGood(u)
  BY <1>2, <1>5, <1>6, <1>7, <1>8, <1>9, VehicleStepGood
<1>11. u.serial >= session.world.serial
  BY <1>7, <1>9 DEF w
<1> QED
  BY <1>1, <1>10, <1>11, WorldStepGood

\* The parties that have arrived leave a vehicle that unloads.
LEMMA CompletedVehicle ==
  ASSUME NEW network, NEW v, Placed(v, v), VehicleGood(network, v), NEW here, NEW order
  PROVE  LET z == [v EXCEPT !.riders = {Completed(Items(@), here, order)}]
         IN  /\ VehicleGood(network, z) /\ Placed(z, z) /\ z.id = v.id /\ z.blockedBy = v.blockedBy /\ z.withdrawn = v.withdrawn
             /\ z.lane = v.lane /\ ActiveIn(z) = Active(Completed(Items(v.riders), here, order))
<1> DEFINE q == Completed(Items(v.riders), here, order)
           z == [v EXCEPT !.riders = {Completed(Items(@), here, order)}]
<1>1. /\ Items(v.riders) \in Seq(TripsOf(network, v.id)) /\ v.ridden \in Nat /\ RecordsGood(v.records, Items(v.riders), v.ridden)
      /\ SeatsGood(Items(v.riders)) /\ RouteGood(network, v) /\ HoldGood(network, v) /\ \E p \in Listed : v.id = p.id /\ v.class = p.class
      /\ IsSlice(v.stops) /\ Items(v.stops) \in Seq(Stations)
  BY DEF VehicleGood
<1>2. q \in Seq(TripsOf(network, v.id)) /\ SeatsGood(q) /\ RecordsGood(v.records, q, v.ridden)
  BY <1>1, CompletedRiders, CompletedGood
<1>3. Items({q}) = q
  BY OmittedItems
<1>4. z = [v EXCEPT !.riders = {q}]
  OBVIOUS
<1> HIDE DEF q, z
<1>5. /\ Placed(z, v) /\ Placed(z, z) /\ z.id = v.id /\ z.class = v.class /\ z.riders = {q} /\ z.records = v.records /\ z.stops = v.stops
      /\ z.ridden = v.ridden /\ z.blockedBy = v.blockedBy /\ z.withdrawn = v.withdrawn /\ z.op = v.op
      /\ z.identity = v.identity /\ z.station = v.station /\ z.lane = v.lane /\ z.lanes = v.lanes /\ z.current = v.current
  BY <1>4 DEF Placed, VehicleFields
<1>6. RouteGood(network, z) /\ HoldGood(network, z)
  BY <1>1, <1>5 DEF RouteGood, HoldGood
<1>7. IsSlice(z.riders) /\ Items(z.riders) = q
  BY <1>3, <1>5 DEF IsSlice
<1>8. VehicleGood(network, z)
  BY <1>1, <1>2, <1>5, <1>6, <1>7 DEF VehicleGood
<1>9. ActiveIn(z) = Active(q)
  BY <1>7 DEF ActiveIn
<1> QED
  BY <1>5, <1>8, <1>9 DEF z, q

\* The others go on from the station.
LEMMA OthersGood ==
  ASSUME NEW network, NEW pod, NEW riders \in Seq(TripsOf(network, pod)), NEW here \in Stations, NEW order, MarkersOf[network].incident,
         NEW others, others \subseteq Active(Completed(riders, here, order)), \A k \in others : riders[k].id # order
  PROVE  [n \in 1 .. Cardinality(others) |-> RequestOf(riders[Nth(others, n)].id, here, NoID)] \in Seq(TripsOf(network, NoID))
<1>1. DOMAIN riders = 1 .. Len(riders) /\ Len(riders) \in Nat
  OBVIOUS
<1>2. others \subseteq Active(riders) /\ \A k \in others : riders[k].to # here
  BY CompletedRiders
<1>3. others \in SUBSET (1 .. Len(riders))
  BY <1>1, <1>2 DEF Active
<1>4. Cardinality(others) \in Nat /\ \A n \in 1 .. Cardinality(others) : Nth(others, n) \in others
  BY <1>1, <1>3, NthMember
<1> DEFINE c == Cardinality(others)
           trip(n) == RequestOf(riders[Nth(others, n)].id, here, NoID)
<1>5. ASSUME NEW n \in 1 .. c
      PROVE  trip(n) \in TripsOf(network, NoID)
  <2> DEFINE k == Nth(others, n)
             r == riders[k]
  <2>1. k \in others /\ k \in DOMAIN riders
    BY <1>1, <1>3, <1>4
  <2>2. r \in TripsOf(network, pod) /\ r.to # here
    BY <1>2, <2>1
  <2> HIDE DEF k, r
  <2>3. r.id \in DOMAIN Orders /\ here # Orders[r.id].to
    BY <2>2, TripParts
  <2>4. RequestOf(r.id, here, NoID) \in TripsOf(network, NoID)
    BY <2>3, RequestIsTrip
  <2> QED
    BY <2>4 DEF r, k
<1> HIDE DEF c, trip
<1>6. c \in Nat
  BY <1>4 DEF c
<1>7. [n \in 1 .. c |-> trip(n)] \in Seq(TripsOf(network, NoID))
  BY <1>5, <1>6
<1> QED
  BY <1>7 DEF c, trip

\* An unload.
LEMMA EmergencyUnloadGood ==
  ASSUME SessionSound(session), SessionGood(session), NEW i \in Vehicles, EmergencyUnload(i)
  PROVE  SessionGood(session')
<1> DEFINE w == session.world
           v == w.vehicles[i]
           order == w.emergencies[1].order
           left == [v EXCEPT !.riders = {Completed(Items(@), v.station, order)}]
           others == {k \in ActiveIn(left) : Items(v.riders)[k].id # order}
           z == Emptied(left)
           x == Settled([z EXCEPT !.withdrawn = @ \ {"emergency"}])
           new == [n \in 1 .. Cardinality(others) |-> RequestOf(Items(v.riders)[Nth(others, n)].id, v.station, NoID)]
           m == w.interrupted + Cardinality(ActiveIn(left) \ others)
           p == w.pending \o new
           e == <<>>
           vs == [w.vehicles EXCEPT ![i] = x]
           u == [[w EXCEPT !.interrupted = m, !.pending = p, !.emergencies = e, !.vehicles = vs] EXCEPT !.tick = @ + 1]
<1>1. Became(u) /\ v.station # NoID /\ ~Faulted(i) /\ w.emergencies # <<>>
  BY DEF EmergencyUnload, Ticked
<1>2. /\ Placed(v, v) /\ VehicleGood(w.network, v) /\ v.blockedBy \in Serials(w) \cup {0} /\ WorldSound(w) /\ WorldGood(w)
      /\ i \in DOMAIN w.vehicles
  BY GoodVehicle DEF Vehicles
<1>3. \A k \in DOMAIN w.faults : w.faults[k].pod # v.id
  BY <1>1 DEF Faulted
<1>4. MarkersOf[w.network].incident
  BY <1>1, MarkersSound
<1>5. vs = [w.vehicles EXCEPT ![i] = x] /\ Placed(v, w.vehicles[i]) /\ e = <<>> /\ p = w.pending \o new
  BY <1>2
<1>6. v.station \in Stations /\ v.lane = NoLane /\ Items(v.riders) \in Seq(TripsOf(w.network, v.id))
  BY <1>1, <1>2 DEF VehicleGood, RouteGood
<1> HIDE DEF w, v, order
<1>7. /\ VehicleGood(w.network, left) /\ Placed(left, left) /\ left.id = v.id /\ left.blockedBy = v.blockedBy
      /\ left.lane = v.lane /\ ActiveIn(left) = Active(Completed(Items(v.riders), v.station, order))
  BY <1>2, CompletedVehicle
<1>8. new \in Seq(TripsOf(w.network, NoID))
  <2>1. others \subseteq Active(Completed(Items(v.riders), v.station, order)) /\ \A k \in others : Items(v.riders)[k].id # order
    BY <1>7
  <2> HIDE DEF others
  <2> QED
    BY <1>4, <1>6, <2>1, OthersGood
<1>9. VehicleGood(w.network, x) /\ Placed(x, v) /\ x.blockedBy = v.blockedBy
  <2> HIDE DEF left
  <2>1. VehicleGood(w.network, z) /\ Placed(z, left) /\ z.blockedBy = left.blockedBy /\ z.lane = left.lane
    BY <1>7, EmptiedGood
  <2>2. Placed(z, z)
    BY <2>1 DEF Placed
  <2> HIDE DEF z
  <2>3. VehicleGood(w.network, Settling(z)) /\ Placed(Settling(z), z) /\ Settling(z).blockedBy = z.blockedBy
    BY <1>6, <1>7, <2>1, <2>2, SettledGood
  <2>4. x = Settling(z)
    BY DEF Settling
  <2> HIDE DEF x
  <2> QED
    BY <1>7, <2>1, <2>3, <2>4 DEF Placed
<1> HIDE DEF x, vs, m, p, e, new
<1>10. /\ u.vehicles = vs /\ u.network = w.network /\ u.tick = w.tick + 1 /\ u.serial = w.serial /\ u.submitted = w.submitted
       /\ u.faults = w.faults /\ u.emergencies = e /\ u.pending = p
  BY <1>2 DEF WorldSound, WorldFields
<1> HIDE DEF u
<1>11. /\ Placed(x, w.vehicles[i]) /\ x.blockedBy \in Serials(w) \cup {0}
       /\ \A k \in DOMAIN w.faults : w.faults[k].pod = x.id => "fault" \in x.withdrawn
  BY <1>2, <1>3, <1>5, <1>9 DEF Placed
<1>12. w.pending \in Seq(TripsOf(w.network, NoID)) /\ w.serial \in Nat
  BY <1>2, GoodParts
<1>13. p \in Seq(TripsOf(w.network, NoID))
  BY <1>5, <1>8, <1>12
<1>14. WorldGood(u)
  <2>1. /\ WorldSound(w) /\ WorldGood(w) /\ i \in DOMAIN w.vehicles /\ Placed(x, w.vehicles[i]) /\ VehicleGood(w.network, x)
        /\ x.blockedBy \in Serials(w) \cup {0} /\ \A k \in DOMAIN w.faults : w.faults[k].pod = x.id => "fault" \in x.withdrawn
    BY <1>2, <1>9, <1>11
  <2>2. /\ u.vehicles = [w.vehicles EXCEPT ![i] = x] /\ u.network = w.network /\ u.tick = w.tick + 1 /\ u.serial = w.serial
        /\ u.submitted = w.submitted /\ u.faults = w.faults /\ u.emergencies = <<>> /\ u.pending \in Seq(TripsOf(w.network, NoID))
    BY <1>5, <1>10, <1>13
  <2>3. u.emergencies \in {w.emergencies, <<>>}
    BY <2>2
  <2> QED
    BY <2>1, <2>2, <2>3, VehicleStepGood
<1>15. u.serial >= session.world.serial
  BY <1>10, <1>12 DEF w
<1> QED
  BY <1>1, <1>14, <1>15, WorldStepGood

\* Wider records of the incidents.
LEMMA RecordsWider ==
  ASSUME NEW w, WorldGood(w), NEW u, u.tick \in Nat, w.tick <= u.tick, u.serial \in Nat, w.serial <= u.serial, FleetIds(u) = FleetIds(w)
  PROVE  /\ w.faults \in Seq(FaultRecord(u)) /\ w.emergencies \in Seq(EmergencyRecord(u))
         /\ \A k \in DOMAIN w.faults : w.faults[k].serial \in 1 .. w.serial - 1
<1>1. w.tick \in Nat /\ w.serial \in Nat /\ w.faults \in Seq(FaultRecord(w)) /\ w.emergencies \in Seq(EmergencyRecord(w))
  BY GoodParts
<1> DEFINE s == 1 .. w.serial - 1
           t == 1 .. u.serial - 1
           m == 0 .. w.tick
           n == 0 .. u.tick
<1>2. s \subseteq t /\ m \subseteq n
  BY <1>1
<1>3. /\ FaultRecord(w) = [serial : s, pod : FleetIds(w) \cup {NoID}, lane : Lanes \cup {NoLane}, start : m]
      /\ FaultRecord(u) = [serial : t, pod : FleetIds(w) \cup {NoID}, lane : Lanes \cup {NoLane}, start : n]
      /\ EmergencyRecord(w) = [serial : s, pod : FleetIds(w), order : DOMAIN Orders, start : m]
      /\ EmergencyRecord(u) = [serial : t, pod : FleetIds(w), order : DOMAIN Orders, start : n]
  BY DEF FaultRecord, EmergencyRecord
<1> HIDE DEF s, t, m, n
<1>4. FaultRecord(w) \subseteq FaultRecord(u) /\ EmergencyRecord(w) \subseteq EmergencyRecord(u)
  BY <1>2, <1>3
<1>5. \A k \in DOMAIN w.faults : w.faults[k] \in FaultRecord(w)
  BY <1>1
<1>6. \A k \in DOMAIN w.faults : w.faults[k].serial \in s
  <2> SUFFICES ASSUME NEW k \in DOMAIN w.faults PROVE w.faults[k].serial \in s
    OBVIOUS
  <2> DEFINE r == w.faults[k]
  <2>1. r \in FaultRecord(w)
    BY <1>5
  <2> HIDE DEF r
  <2>2. r.serial \in s
    BY <1>3, <2>1
  <2> QED
    BY <2>2 DEF r
<1> QED
  BY <1>1, <1>4, <1>6, SeqWider DEF s

\* A new fault, of a pod that has none or of a lane.
FaultOf(w, pod, lane) == [serial |-> w.serial, pod |-> pod, lane |-> lane, start |-> w.tick]
LEMMA FaultAdded ==
  ASSUME NEW w, WorldGood(w), NEW u, NEW pod \in FleetIds(w) \cup {NoID}, NEW lane \in Lanes \cup {NoLane}, pod = NoID => lane \in LanesOf[w.network],
         pod # NoID => \A k \in DOMAIN w.faults : w.faults[k].pod # pod, u.network = w.network,
         u.faults = Append(w.faults, FaultOf(w, pod, lane)), u.emergencies = w.emergencies, u.tick = w.tick, u.serial = w.serial + 1, FleetIds(u) = FleetIds(w),
         \A k \in DOMAIN w.faults, i \in DOMAIN u.vehicles : w.faults[k].pod = u.vehicles[i].id => "fault" \in u.vehicles[i].withdrawn,
         \A i \in DOMAIN u.vehicles : u.vehicles[i].id = pod => "fault" \in u.vehicles[i].withdrawn
  PROVE  FaultsGood(u) /\ EmergenciesGood(u) /\ Serials(w) \cup {w.serial} \subseteq Serials(u)
<1> DEFINE r == FaultOf(w, pod, lane)
<1>1. w.tick \in Nat /\ w.serial \in Nat /\ w.serial >= 1
  BY GoodParts
<1>2. /\ u.tick \in Nat /\ w.tick <= u.tick /\ u.serial \in Nat /\ w.serial <= u.serial
  BY <1>1
<1>3. /\ w.faults \in Seq(FaultRecord(u)) /\ w.emergencies \in Seq(EmergencyRecord(u))
      /\ \A k \in DOMAIN w.faults : w.faults[k].serial \in 1 .. w.serial - 1
  BY <1>2, RecordsWider
<1>4. r \in FaultRecord(u) /\ r.serial = w.serial /\ r.pod = pod /\ r.lane = lane
  BY <1>1 DEF FaultRecord, FaultOf
<1> HIDE DEF r
<1> DEFINE f == w.faults
           g == u.faults
           n == Len(f) + 1
<1>5. f \in Seq(FaultRecord(u)) /\ g = Append(f, r)
  BY <1>3 DEF r
<1>6. /\ \A k \in DOMAIN f : f[k].pod = NoID => f[k].lane \in LanesOf[w.network]
      /\ \A j, k \in DOMAIN f : j < k => f[j].serial < f[k].serial /\ (f[j].pod = f[k].pod => f[k].pod = NoID)
  BY DEF WorldGood, FaultsGood
<1>7. \A k \in DOMAIN f : f[k].serial \in 1 .. w.serial - 1 /\ (pod # NoID => f[k].pod # pod)
  BY <1>3
<1> HIDE DEF f, g
<1>8. /\ g \in Seq(FaultRecord(u)) /\ n \in Nat /\ DOMAIN g = 1 .. n /\ g[n] = r /\ DOMAIN f = 1 .. n - 1 /\ \A k \in 1 .. n - 1 : g[k] = f[k]
  BY <1>4, <1>5
<1> HIDE DEF n
<1>9. \A k \in DOMAIN g : g[k].pod = NoID => g[k].lane \in LanesOf[u.network]
  BY <1>4, <1>6, <1>8
<1>10. ASSUME NEW j \in DOMAIN g, NEW k \in DOMAIN g, j < k
       PROVE  g[j].serial < g[k].serial /\ (g[j].pod = g[k].pod => g[k].pod = NoID)
  <2>1. CASE k = n
    <3>1. j \in DOMAIN f /\ g[j] = f[j]
      BY <1>8, <1>10, <2>1
    <3> QED
      BY <1>1, <1>4, <1>7, <1>8, <2>1, <3>1
  <2>2. CASE k # n
    <3>1. j \in DOMAIN f /\ k \in DOMAIN f /\ g[j] = f[j] /\ g[k] = f[k]
      BY <1>8, <1>10, <2>2
    <3> QED
      BY <1>6, <1>10, <3>1
  <2> QED
    BY <2>1, <2>2
<1>11. \A k \in DOMAIN g, i \in DOMAIN u.vehicles : g[k].pod = u.vehicles[i].id => "fault" \in u.vehicles[i].withdrawn
  <2>1. \A k \in DOMAIN f, i \in DOMAIN u.vehicles : f[k].pod = u.vehicles[i].id => "fault" \in u.vehicles[i].withdrawn
    BY DEF f
  <2>2. \A k \in DOMAIN g : (k \in DOMAIN f /\ g[k] = f[k]) \/ g[k].pod = pod
    BY <1>4, <1>8
  <2> QED
    BY <2>1, <2>2
<1>12. FaultsGood(u)
  BY <1>8, <1>9, <1>10, <1>11 DEF FaultsGood, g
<1>13. Serials(u) = Serials(w) \cup {w.serial}
  <2>1. {g[k].serial : k \in DOMAIN g} = {f[k].serial : k \in DOMAIN f} \cup {w.serial}
    <3>1. \A k \in DOMAIN g : g[k].serial = w.serial \/ (k \in DOMAIN f /\ g[k].serial = f[k].serial)
      BY <1>4, <1>8
    <3>2. n \in DOMAIN g /\ g[n].serial = w.serial /\ \A k \in DOMAIN f : k \in DOMAIN g /\ g[k].serial = f[k].serial
      <4>1. n \in 1 .. n
        BY <1>8 DEF n
      <4> QED
        BY <1>4, <1>8, <4>1
    <3> QED
      BY <3>1, <3>2
  <2> QED
    BY <2>1 DEF Serials, f, g
<1>14. EmergenciesGood(u)
  <2>1. Len(w.emergencies) <= 1 /\ \A k \in DOMAIN w.emergencies : w.emergencies[k].serial \notin Serials(w)
    BY DEF WorldGood, EmergenciesGood
  <2>2. \A k \in DOMAIN w.emergencies : w.emergencies[k].serial \in 1 .. w.serial - 1
    <3> SUFFICES ASSUME NEW k \in DOMAIN w.emergencies PROVE w.emergencies[k].serial \in 1 .. w.serial - 1
      OBVIOUS
    <3>1. w.emergencies \in Seq(EmergencyRecord(w))
      BY GoodParts
    <3>2. w.emergencies[k] \in EmergencyRecord(w)
      BY <3>1
    <3> QED
      BY <3>2 DEF EmergencyRecord
  <2>3. \A k \in DOMAIN w.emergencies : w.emergencies[k].serial # w.serial
    BY <1>1, <2>2
  <2> QED
    BY <1>3, <1>13, <2>1, <2>3 DEF EmergenciesGood
<1> QED
  BY <1>12, <1>13, <1>14

\* The identities of the vehicles.
LEMMA ListedIds ==
  ASSUME NEW w, WorldGood(w), NEW i \in DOMAIN w.vehicles
  PROVE  w.vehicles[i].id # NoID
<1>1. PICK p \in Listed : w.vehicles[i].id = p.id
  BY DEF WorldGood, FleetGood, VehicleGood
<1>2. \A fleet \in {"own", "demo"} : \A place \in Places(fleet) : place.id # NoID
  BY FrameStreamAssumption
<1> QED
  BY <1>1, <1>2 DEF Listed

\* A fault of a vehicle.
LEMMA StartFaultGood ==
  ASSUME SessionSound(session), SessionGood(session), NEW i \in Vehicles, StartFault(i)
  PROVE  SessionGood(session')
<1> DEFINE w == session.world
           v == w.vehicles[i]
           r == FaultOf(w, v.id, NoLane)
           f == Append(w.faults, r)
           y == [v EXCEPT !.withdrawn = @ \cup {"fault"}, !.blockedBy = w.serial]
           x == Held(v, v.op, v.withdrawn \cup {"fault"}, w.serial, v.activity)
           vs == [w.vehicles EXCEPT ![i] = y]
           n == w.serial + 1
           m == w.started + 1
           u == [w EXCEPT !.faults = f, !.serial = n, !.started = m, !.vehicles = vs]
<1>1. Became(u) /\ ~Faulted(i) /\ MarkersOf[w.network].fault
  BY DEF StartFault, Markers, FaultOf
<1>2. /\ Placed(v, v) /\ VehicleGood(w.network, v) /\ WorldSound(w) /\ WorldGood(w) /\ v.id \in FleetIds(w)
      /\ i \in DOMAIN w.vehicles /\ w.network \in DOMAIN LanesOf
  BY GoodVehicle DEF Vehicles
<1>3. (\A k \in DOMAIN w.faults : w.faults[k].pod # v.id) /\ v.id # NoID
  BY <1>1, <1>2, ListedIds DEF Faulted
<1>4. MarkersOf[w.network].incident
  BY <1>1, <1>2, FrameStreamAssumption
<1>5. y = x
  <2> HIDE DEF v
  <2> QED
    BY <1>2 DEF Placed, VehicleFields, Held
<1>6. vs = [w.vehicles EXCEPT ![i] = x] /\ Placed(v, w.vehicles[i]) /\ f = Append(w.faults, r)
      /\ r = FaultOf(w, v.id, NoLane)
  BY <1>2, <1>5
<1>7. w.pending \in Seq(TripsOf(w.network, NoID)) /\ w.serial \in Nat /\ n = w.serial + 1 /\ w.tick \in Nat /\ w.submitted \in Nat
  BY <1>2, GoodParts DEF WorldGood, CountersGood
<1> HIDE DEF w, v, y, n
<1>8. VehicleGood(w.network, x) /\ Placed(x, v) /\ x.blockedBy = w.serial /\ x.withdrawn = v.withdrawn \cup {"fault"}
  <2>1. v.op \in {"service", "unload", "recovery"} /\ (v.op = "unload" => "emergency" \in v.withdrawn)
    BY <1>2 DEF VehicleGood, HoldGood
  <2> QED
    BY <1>2, <1>4, <2>1, HeldGood
<1> HIDE DEF x, vs, f, m, r
<1>9. /\ u.vehicles = vs /\ u.network = w.network /\ u.tick = w.tick /\ u.serial = w.serial + 1 /\ u.submitted = w.submitted
      /\ u.faults = f /\ u.emergencies = w.emergencies /\ u.pending = w.pending
  BY <1>2, <1>7 DEF WorldSound, WorldFields
<1> HIDE DEF u
<1>10. /\ DOMAIN vs = DOMAIN w.vehicles /\ vs[i] = x /\ {vs[k].id : k \in DOMAIN vs} = {w.vehicles[k].id : k \in DOMAIN w.vehicles}
       /\ \A k \in DOMAIN w.vehicles : vs[k].id = w.vehicles[k].id /\ (k # i => vs[k] = w.vehicles[k])
  <2> DEFINE ws == w.vehicles
  <2>1. i \in DOMAIN ws /\ Placed(x, ws[i]) /\ vs = [ws EXCEPT ![i] = x]
    BY <1>2, <1>6, <1>8 DEF Placed
  <2> HIDE DEF ws
  <2>2. /\ DOMAIN vs = DOMAIN ws /\ vs[i] = x /\ {vs[k].id : k \in DOMAIN vs} = {ws[k].id : k \in DOMAIN ws}
        /\ \A k \in DOMAIN ws : vs[k].id = ws[k].id /\ (k # i => vs[k] = ws[k])
    BY <2>1, OneVehicle
  <2> QED
    BY <2>2, Zenon DEF ws
<1>11. FleetIds(u) = FleetIds(w)
  BY <1>9, <1>10 DEF FleetIds
<1>12. /\ \A k \in DOMAIN w.faults, j \in DOMAIN w.vehicles : w.faults[k].pod = w.vehicles[j].id => "fault" \in w.vehicles[j].withdrawn
       /\ FleetGood(w)
  BY <1>2 DEF WorldGood, FaultsGood
<1>13. /\ \A k \in DOMAIN w.faults, j \in DOMAIN u.vehicles : w.faults[k].pod = u.vehicles[j].id => "fault" \in u.vehicles[j].withdrawn
       /\ \A j \in DOMAIN u.vehicles : u.vehicles[j].id = v.id => "fault" \in u.vehicles[j].withdrawn
  <2>1. \A j \in DOMAIN w.vehicles : w.vehicles[j].id = v.id => j = i
    BY <1>2, <1>6 DEF WorldSound, FleetSound, Placed
  <2>2. \A j \in DOMAIN vs : IF j = i THEN "fault" \in vs[j].withdrawn ELSE vs[j] = w.vehicles[j] /\ vs[j].id # v.id
    BY <1>8, <1>10, <2>1
  <2> QED
    BY <1>9, <1>10, <1>12, <2>2
<1>14. FaultsGood(u) /\ EmergenciesGood(u) /\ Serials(w) \cup {w.serial} \subseteq Serials(u)
  <2>1. v.id \in FleetIds(w) \cup {NoID} /\ NoLane \in Lanes \cup {NoLane} /\ u.faults = Append(w.faults, r)
    BY <1>2, <1>6, <1>9
  <2> QED
    BY <1>2, <1>3, <1>6, <1>9, <1>11, <1>13, <2>1, FaultAdded
<1>15. FleetGood(u)
  BY <1>8, <1>9, <1>10, <1>12, <1>14 DEF FleetGood
<1>16. WorldGood(u)
  BY <1>7, <1>9, <1>14, <1>15 DEF WorldGood, CountersGood
<1>17. u.serial >= session.world.serial
  BY <1>7, <1>9 DEF w
<1> QED
  BY <1>1, <1>16, <1>17, WorldStepGood

\* Debris on a lane.
LEMMA StartDebrisGood ==
  ASSUME SessionSound(session), SessionGood(session), NEW lane \in LanesOf[session.world.network], StartDebris(lane)
  PROVE  SessionGood(session')
<1> DEFINE w == session.world
           r == FaultOf(w, NoID, lane)
           f == Append(w.faults, r)
           n == w.serial + 1
           m == w.started + 1
           u == [w EXCEPT !.faults = f, !.serial = n, !.started = m]
<1>1. Became(u)
  BY DEF StartDebris, FaultOf
<1>2. WorldSound(w) /\ WorldGood(w) /\ w.network \in DOMAIN LanesOf /\ lane \in LanesOf[w.network]
  BY DEF SessionSound, SessionGood, WorldSound
<1>3. lane \in Lanes
  BY <1>2, FrameStreamAssumption
<1>4. w.pending \in Seq(TripsOf(w.network, NoID)) /\ w.serial \in Nat /\ n = w.serial + 1 /\ w.tick \in Nat /\ w.submitted \in Nat
      /\ f = Append(w.faults, r) /\ r = FaultOf(w, NoID, lane)
  BY <1>2, GoodParts DEF WorldGood, CountersGood
<1> HIDE DEF w, n, f, r, m
<1>5. /\ u.vehicles = w.vehicles /\ u.network = w.network /\ u.tick = w.tick /\ u.serial = w.serial + 1 /\ u.submitted = w.submitted
      /\ u.faults = f /\ u.emergencies = w.emergencies /\ u.pending = w.pending
  BY <1>2, <1>4 DEF WorldSound, WorldFields
<1> HIDE DEF u
<1>6. FleetIds(u) = FleetIds(w)
  BY <1>5 DEF FleetIds
<1>7. /\ \A k \in DOMAIN w.faults, j \in DOMAIN u.vehicles : w.faults[k].pod = u.vehicles[j].id => "fault" \in u.vehicles[j].withdrawn
      /\ FleetGood(w)
  BY <1>2, <1>5 DEF WorldGood, FaultsGood
<1>8. \A j \in DOMAIN u.vehicles : u.vehicles[j].id # NoID
  BY <1>2, <1>5, ListedIds
<1>9. FaultsGood(u) /\ EmergenciesGood(u) /\ Serials(w) \cup {w.serial} \subseteq Serials(u)
  <2>1. NoID \in FleetIds(w) \cup {NoID} /\ lane \in Lanes \cup {NoLane} /\ u.faults = Append(w.faults, r)
        /\ \A j \in DOMAIN u.vehicles : u.vehicles[j].id = NoID => "fault" \in u.vehicles[j].withdrawn
    BY <1>3, <1>4, <1>5, <1>8
  <2> QED
    BY <1>2, <1>4, <1>5, <1>6, <1>7, <2>1, FaultAdded
<1>10. FleetGood(u)
  BY <1>5, <1>7, <1>9 DEF FleetGood
<1>11. WorldGood(u)
  BY <1>4, <1>5, <1>9, <1>10 DEF WorldGood, CountersGood
<1>12. u.serial >= session.world.serial
  BY <1>4, <1>5 DEF w
<1> QED
  BY <1>1, <1>11, <1>12, WorldStepGood

\* The vehicle of a fault that has ended.
LEMMA RecoveredGood ==
  ASSUME NEW network, NEW v, Placed(v, v), VehicleGood(network, v)
  PROVE  VehicleGood(network, Recovered(v)) /\ Placed(Recovered(v), v) /\ Recovered(v).blockedBy = v.blockedBy
<1>1. /\ v.op \in {"service", "unload", "recovery"} /\ (v.op = "unload" => "emergency" \in v.withdrawn)
      /\ v.withdrawn # {} => MarkersOf[network].incident
  BY DEF VehicleGood, HoldGood
<1>2. CASE v.op = "recovery"
  <2>1. Recovered(v) = v
    BY <1>2 DEF Recovered
  <2> QED
    BY <2>1
<1>3. CASE v.op # "recovery"
  <2> DEFINE op == IF "emergency" \in v.withdrawn THEN "unload" ELSE v.op
             x == Held(v, op, v.withdrawn \ {"fault"}, v.blockedBy, v.activity)
  <2>1. op \in {"service", "unload", "recovery"} /\ (op = "unload" => "emergency" \in v.withdrawn \ {"fault"}) /\ op # "recovery"
        /\ (v.withdrawn \ {"fault"} # {} => MarkersOf[network].incident)
    BY <1>1, <1>3
  <2>2. Recovered(v) = x
    BY <1>3 DEF Placed, VehicleFields, Held, Recovered
  <2> HIDE DEF op
  <2>3. VehicleGood(network, x) /\ Placed(x, v) /\ x.blockedBy = v.blockedBy
    BY <2>1, HeldGood
  <2> QED
    BY <2>2, <2>3
<1> QED
  BY <1>2, <1>3

\* A vehicle that was held up by an incident that has ended.
LEMMA FreedGood ==
  ASSUME NEW network, NEW v, Placed(v, v), VehicleGood(network, v), NEW blockedBy, NEW x, x = [v EXCEPT !.blockedBy = blockedBy]
  PROVE  VehicleGood(network, x) /\ Placed(x, v) /\ x.blockedBy = blockedBy /\ x.withdrawn = v.withdrawn
<1>1. /\ Placed(x, v) /\ x.id = v.id /\ x.class = v.class /\ x.riders = v.riders /\ x.records = v.records /\ x.stops = v.stops /\ x.ridden = v.ridden
      /\ x.blockedBy = blockedBy /\ x.withdrawn = v.withdrawn /\ x.op = v.op
      /\ x.identity = v.identity /\ x.station = v.station /\ x.lane = v.lane /\ x.lanes = v.lanes /\ x.current = v.current
  BY DEF Placed, VehicleFields
<1>2. RouteGood(network, x) /\ HoldGood(network, x)
  BY <1>1 DEF VehicleGood, RouteGood, HoldGood
<1> QED
  BY <1>1, <1>2, CarriesOn

\* A fault that ends.
LEMMA FaultRemoved ==
  ASSUME NEW w, WorldGood(w), NEW k \in DOMAIN w.faults, NEW u, u.network = w.network, u.faults = Without(w.faults, k),
         u.emergencies = w.emergencies, u.tick = w.tick, u.serial = w.serial, FleetIds(u) = FleetIds(w), DOMAIN u.vehicles = DOMAIN w.vehicles,
         \A i \in DOMAIN w.vehicles : /\ u.vehicles[i].id = w.vehicles[i].id
                                      /\ w.vehicles[i].id # w.faults[k].pod => u.vehicles[i].withdrawn = w.vehicles[i].withdrawn
  PROVE  FaultsGood(u) /\ EmergenciesGood(u) /\ Serials(w) \ {w.faults[k].serial} \subseteq Serials(u)
<1> DEFINE f == w.faults
           g == u.faults
           R == FaultRecord(w)
<1>1. w.tick \in Nat /\ w.serial \in Nat /\ f \in Seq(R) /\ w.emergencies \in Seq(EmergencyRecord(w))
  BY GoodParts
<1>2. FaultRecord(u) = R /\ EmergencyRecord(u) = EmergencyRecord(w)
  BY DEF FaultRecord, EmergencyRecord
<1>3. /\ \A m \in DOMAIN f : f[m].pod = NoID => f[m].lane \in LanesOf[w.network]
      /\ \A j, m \in DOMAIN f : j < m => f[j].serial < f[m].serial /\ (f[j].pod = f[m].pod => f[m].pod = NoID)
      /\ \A m \in DOMAIN f, i \in DOMAIN w.vehicles : f[m].pod = w.vehicles[i].id => "fault" \in w.vehicles[i].withdrawn
  BY DEF WorldGood, FaultsGood
<1>4. k \in DOMAIN f /\ g = Without(f, k) /\ f[k] = w.faults[k]
  OBVIOUS
<1> HIDE DEF f, g, R
<1>5. /\ g \in Seq(R) /\ Len(g) = Len(f) - 1 /\ Len(f) \in Nat /\ k \in 1 .. Len(f) /\ DOMAIN f = 1 .. Len(f)
      /\ \A m \in DOMAIN g : m \in 1 .. Len(f) - 1 /\ (m < k => g[m] = f[m]) /\ (m >= k => g[m] = f[m + 1])
  BY <1>1, <1>4, WithoutEntry
<1> DEFINE at(m) == IF m < k THEN m ELSE m + 1
<1>6. \A m \in DOMAIN g : at(m) \in DOMAIN f /\ at(m) # k /\ g[m] = f[at(m)]
  BY <1>5
<1>7. \A j, m \in DOMAIN g : j < m => at(j) < at(m)
  BY <1>5
<1> HIDE DEF at
<1>8. \A m \in DOMAIN g : g[m].pod = NoID => g[m].lane \in LanesOf[u.network]
  BY <1>3, <1>6
<1>9. \A j, m \in DOMAIN g : j < m => g[j].serial < g[m].serial /\ (g[j].pod = g[m].pod => g[m].pod = NoID)
  BY <1>3, <1>6, <1>7
<1>10. ASSUME NEW m \in DOMAIN g, NEW i \in DOMAIN u.vehicles, g[m].pod = u.vehicles[i].id
       PROVE  "fault" \in u.vehicles[i].withdrawn
  <2>1. i \in DOMAIN w.vehicles /\ u.vehicles[i].id = w.vehicles[i].id
    OBVIOUS
  <2>2. f[at(m)].pod = w.vehicles[i].id /\ at(m) \in DOMAIN f /\ at(m) # k
    BY <1>6, <1>10, <2>1
  <2>3. "fault" \in w.vehicles[i].withdrawn
    BY <1>3, <2>1, <2>2
  <2>4. w.vehicles[i].id # NoID
    BY <2>1, ListedIds
  <2>5. f[k].pod # f[at(m)].pod
    <3>1. at(m) < k \/ k < at(m)
      BY <1>5, <2>2
    <3> QED
      BY <1>3, <1>4, <2>2, <2>4, <3>1
  <2> QED
    BY <1>4, <2>1, <2>2, <2>3, <2>5
<1>11. FaultsGood(u)
  BY <1>2, <1>5, <1>8, <1>9, <1>10 DEF FaultsGood, g
<1>12. Serials(u) \subseteq Serials(w)
  <2>1. {g[m].serial : m \in DOMAIN g} \subseteq {f[m].serial : m \in DOMAIN f}
    BY <1>6
  <2> QED
    BY <2>1 DEF Serials, f, g
<1>13. Serials(w) \ {f[k].serial} \subseteq Serials(u)
  <2>1. ASSUME NEW l \in DOMAIN f, l # k
        PROVE  \E m \in DOMAIN g : g[m] = f[l]
    <3>1. DOMAIN g = 1 .. Len(f) - 1
      BY <1>5
    <3>2. CASE l < k
      <4>1. l \in DOMAIN g
        BY <1>5, <3>1, <3>2
      <4> QED
        BY <1>5, <3>2, <4>1
    <3>3. CASE l > k
      <4>1. l - 1 \in DOMAIN g /\ l - 1 >= k /\ (l - 1) + 1 = l
        BY <1>5, <3>1, <3>3
      <4>2. g[l - 1] = f[(l - 1) + 1]
        BY <1>5, <4>1
      <4> QED
        BY <4>1, <4>2
    <3> QED
      BY <1>5, <2>1, <3>2, <3>3
  <2>2. {f[m].serial : m \in DOMAIN f} \ {f[k].serial} \subseteq {g[m].serial : m \in DOMAIN g}
    <3> SUFFICES ASSUME NEW l \in DOMAIN f, f[l].serial # f[k].serial PROVE f[l].serial \in {g[m].serial : m \in DOMAIN g}
      OBVIOUS
    <3>1. \E m \in DOMAIN g : g[m] = f[l]
      BY <2>1
    <3> QED
      BY <3>1
  <2> QED
    BY <2>2 DEF Serials, f, g
<1>14. EmergenciesGood(u)
  BY <1>1, <1>2, <1>12 DEF WorldGood, EmergenciesGood
<1> QED
  BY <1>4, <1>11, <1>13, <1>14

\* The end of a fault or of debris.
LEMMA ClearFaultGood ==
  ASSUME SessionSound(session), SessionGood(session), ClearFault
  PROVE  SessionGood(session')
<1> DEFINE w == session.world
<1>1. PICK k \in DOMAIN w.faults : LET record == w.faults[k]
               inService == [i \in Vehicles |-> IF w.vehicles[i].id = record.pod THEN Recovered(w.vehicles[i]) ELSE w.vehicles[i]]
           IN  Became([w EXCEPT !.faults = Without(@, k), !.vehicles = EndFaultReports(inService, record.serial)])
  BY DEF ClearFault
<1> DEFINE record == w.faults[k]
           one(i) == IF w.vehicles[i].id = record.pod THEN Recovered(w.vehicles[i]) ELSE w.vehicles[i]
           b(i) == IF one(i).blockedBy = record.serial THEN 0 ELSE one(i).blockedBy
           vs == EndFaultReports([i \in Vehicles |-> one(i)], record.serial)
           f == Without(w.faults, k)
           u == [w EXCEPT !.faults = f, !.vehicles = vs]
<1>2. Became(u)
  BY <1>1
<1>3. WorldSound(w) /\ WorldGood(w) /\ Vehicles = DOMAIN w.vehicles
  BY DEF SessionSound, SessionGood, Vehicles
<1>4. DOMAIN vs = Vehicles /\ \A i \in Vehicles : vs[i] = [one(i) EXCEPT !.blockedBy = b(i)]
  <2> HIDE DEF one
  <2> QED
    BY DEF EndFaultReports
<1>5. f = Without(w.faults, k) /\ record = w.faults[k]
  OBVIOUS
<1>6. ASSUME NEW i \in Vehicles
      PROVE  /\ VehicleGood(w.network, vs[i]) /\ vs[i].id = w.vehicles[i].id /\ vs[i].blockedBy \in (Serials(w) \ {record.serial}) \cup {0}
             /\ w.vehicles[i].id # record.pod => vs[i].withdrawn = w.vehicles[i].withdrawn
  <2> DEFINE v == w.vehicles[i]
             y == one(i)
             c == b(i)
  <2>1. Placed(v, v) /\ VehicleGood(w.network, v) /\ v.blockedBy \in Serials(w) \cup {0}
    BY GoodVehicle
  <2>2. y = v \/ (y = Recovered(v) /\ v.id = record.pod)
    OBVIOUS
  <2>3. c = IF y.blockedBy = record.serial THEN 0 ELSE y.blockedBy
    OBVIOUS
  <2>4. vs[i] = [y EXCEPT !.blockedBy = c]
    BY <1>4
  <2> HIDE DEF v, y, c, w, vs, one, b
  <2>5. VehicleGood(w.network, y) /\ Placed(y, v) /\ y.blockedBy = v.blockedBy
    BY <2>1, <2>2, RecoveredGood
  <2>6. Placed(y, y)
    BY <2>5 DEF Placed
  <2> DEFINE x == vs[i]
  <2>7. x = [y EXCEPT !.blockedBy = c]
    BY <2>4
  <2> HIDE DEF x
  <2>8. VehicleGood(w.network, x) /\ Placed(x, y) /\ x.blockedBy = c /\ x.withdrawn = y.withdrawn
    BY <2>5, <2>6, <2>7, FreedGood
  <2>9. c \in (Serials(w) \ {record.serial}) \cup {0}
    BY <2>1, <2>3, <2>5
  <2>10. v.id # record.pod => y.withdrawn = v.withdrawn
    BY <2>2
  <2>11. x.id = v.id
    BY <2>5, <2>8 DEF Placed
  <2> QED
    BY <2>8, <2>9, <2>10, <2>11 DEF x, v
<1> HIDE DEF w, vs, f, one, b, record
<1>7. /\ u.vehicles = vs /\ u.network = w.network /\ u.tick = w.tick /\ u.serial = w.serial /\ u.submitted = w.submitted
      /\ u.faults = f /\ u.emergencies = w.emergencies /\ u.pending = w.pending
  BY <1>3 DEF WorldSound, WorldFields
<1> HIDE DEF u
<1>8. FleetIds(u) = FleetIds(w)
  <2> DEFINE ws == w.vehicles
  <2>1. DOMAIN vs = DOMAIN ws /\ \A i \in DOMAIN ws : vs[i].id = ws[i].id
    BY <1>3, <1>4, <1>6
  <2> HIDE DEF ws
  <2>2. {vs[i].id : i \in DOMAIN vs} = {ws[i].id : i \in DOMAIN ws}
    BY <2>1
  <2> QED
    BY <1>7, <2>2 DEF FleetIds, ws
<1>9. k \in DOMAIN w.faults
  BY DEF w
<1>10. FaultsGood(u) /\ EmergenciesGood(u) /\ Serials(w) \ {record.serial} \subseteq Serials(u)
  <2>1. \A i \in DOMAIN w.vehicles : /\ u.vehicles[i].id = w.vehicles[i].id
                                     /\ w.vehicles[i].id # w.faults[k].pod => u.vehicles[i].withdrawn = w.vehicles[i].withdrawn
    BY <1>3, <1>5, <1>6, <1>7
  <2>2. DOMAIN u.vehicles = DOMAIN w.vehicles /\ u.faults = Without(w.faults, k)
    BY <1>3, <1>4, <1>5, <1>7
  <2>3. FaultsGood(u) /\ EmergenciesGood(u) /\ Serials(w) \ {w.faults[k].serial} \subseteq Serials(u)
    BY <1>3, <1>7, <1>8, <1>9, <2>1, <2>2, FaultRemoved
  <2> QED
    BY <1>5, <2>3
<1>11. FleetGood(u)
  BY <1>4, <1>6, <1>7, <1>10 DEF FleetGood
<1>12. w.pending \in Seq(TripsOf(w.network, NoID)) /\ w.serial \in Nat
  BY <1>3, GoodParts
<1>13. CountersGood(u)
  BY <1>3, <1>7 DEF WorldGood, CountersGood
<1>14. WorldGood(u)
  BY <1>7, <1>10, <1>11, <1>12, <1>13 DEF WorldGood
<1>15. u.serial >= session.world.serial
  BY <1>7, <1>12 DEF w
<1> QED
  BY <1>2, <1>14, <1>15, WorldStepGood

\* An emergency of a party in a vehicle.
EmergencyOf(w, pod, order) == [serial |-> w.serial, pod |-> pod, order |-> order, start |-> w.tick]
LEMMA StartEmergencyGood ==
  ASSUME SessionSound(session), SessionGood(session), NEW i \in Vehicles, StartEmergency(i)
  PROVE  SessionGood(session')
<1> DEFINE w == session.world
           v == w.vehicles[i]
<1>1. MarkersOf[w.network].emergency /\ w.emergencies = <<>> /\ \E k \in ActiveIn(v) :
        Became([w EXCEPT !.emergencies = Append(@, EmergencyOf(w, v.id, Items(v.riders)[k].id)),
                         !.serial = @ + 1, !.vehicles[i] = [v EXCEPT !.withdrawn = @ \cup {"emergency"}, !.op = IF Faulted(i) THEN @ ELSE "unload"]])
  BY DEF StartEmergency, Markers, EmergencyOf
<1>2. PICK k \in ActiveIn(v) :
        Became([w EXCEPT !.emergencies = Append(@, EmergencyOf(w, v.id, Items(v.riders)[k].id)),
                         !.serial = @ + 1, !.vehicles[i] = [v EXCEPT !.withdrawn = @ \cup {"emergency"}, !.op = IF Faulted(i) THEN @ ELSE "unload"]])
  BY <1>1
<1> DEFINE op == IF Faulted(i) THEN v.op ELSE "unload"
           y == [v EXCEPT !.withdrawn = @ \cup {"emergency"}, !.op = op]
           x == Held(v, op, v.withdrawn \cup {"emergency"}, v.blockedBy, v.activity)
           order == Items(v.riders)[k].id
           r == EmergencyOf(w, v.id, order)
           e == Append(w.emergencies, r)
           n == w.serial + 1
           vs == [w.vehicles EXCEPT ![i] = y]
           u == [w EXCEPT !.emergencies = e, !.serial = n, !.vehicles = vs]
<1>3. Became(u)
  BY <1>2
<1>4. /\ Placed(v, v) /\ VehicleGood(w.network, v) /\ WorldSound(w) /\ WorldGood(w) /\ v.id \in FleetIds(w) /\ v.blockedBy \in Serials(w) \cup {0}
      /\ i \in DOMAIN w.vehicles /\ w.network \in DOMAIN LanesOf
      /\ \A m \in DOMAIN w.faults : w.faults[m].pod = v.id => "fault" \in v.withdrawn
  BY GoodVehicle DEF Vehicles
<1>5. MarkersOf[w.network].incident
  BY <1>1, <1>4, FrameStreamAssumption
<1>6. order \in DOMAIN Orders
  <2> DEFINE q == Items(v.riders)
  <2>1. q \in Seq(TripsOf(w.network, v.id)) /\ k \in DOMAIN q
    BY <1>4 DEF VehicleGood, ActiveIn, Active
  <2> HIDE DEF q
  <2>2. q[k] \in TripsOf(w.network, v.id)
    BY <2>1
  <2>3. q[k].id \in DOMAIN Orders
    BY <2>2, TripParts
  <2> QED
    BY <2>3 DEF q
<1>7. op = v.op \/ op = "unload"
  OBVIOUS
<1>8. y = x
  <2> HIDE DEF v, op
  <2> QED
    BY <1>4 DEF Placed, VehicleFields, Held
<1>9. vs = [w.vehicles EXCEPT ![i] = x] /\ Placed(v, w.vehicles[i]) /\ e = Append(w.emergencies, r) /\ w.emergencies = <<>>
      /\ r = EmergencyOf(w, v.id, order)
  BY <1>1, <1>4, <1>8
<1>10. w.pending \in Seq(TripsOf(w.network, NoID)) /\ w.serial \in Nat /\ w.serial >= 1 /\ n = w.serial + 1 /\ w.tick \in Nat /\ w.submitted \in Nat
  BY <1>4, GoodParts DEF WorldGood, CountersGood
<1> HIDE DEF w, v, y, n, op, order
<1>11. VehicleGood(w.network, x) /\ Placed(x, v) /\ x.blockedBy = v.blockedBy /\ x.withdrawn = v.withdrawn \cup {"emergency"}
  <2>1. v.op \in {"service", "unload", "recovery"} /\ (v.op = "recovery" => "fault" \in v.withdrawn)
    BY <1>4 DEF VehicleGood, HoldGood
  <2>2. op \in {"service", "unload", "recovery"} /\ (op = "unload" => "emergency" \in v.withdrawn \cup {"emergency"})
        /\ (op = "recovery" => "fault" \in v.withdrawn \cup {"emergency"})
    BY <1>7, <2>1
  <2> QED
    BY <1>4, <1>5, <2>2, HeldGood
<1> HIDE DEF x, vs, e, r
<1>12. /\ u.vehicles = vs /\ u.network = w.network /\ u.tick = w.tick /\ u.serial = w.serial + 1 /\ u.submitted = w.submitted
       /\ u.faults = w.faults /\ u.emergencies = e /\ u.pending = w.pending
  BY <1>4, <1>10 DEF WorldSound, WorldFields
<1> HIDE DEF u
<1>13. /\ DOMAIN vs = DOMAIN w.vehicles /\ vs[i] = x /\ {vs[j].id : j \in DOMAIN vs} = {w.vehicles[j].id : j \in DOMAIN w.vehicles}
       /\ \A j \in DOMAIN w.vehicles : vs[j].id = w.vehicles[j].id /\ (j # i => vs[j] = w.vehicles[j])
  <2> DEFINE ws == w.vehicles
  <2>1. i \in DOMAIN ws /\ Placed(x, ws[i]) /\ vs = [ws EXCEPT ![i] = x]
    BY <1>4, <1>9, <1>11 DEF Placed
  <2> HIDE DEF ws
  <2>2. /\ DOMAIN vs = DOMAIN ws /\ vs[i] = x /\ {vs[j].id : j \in DOMAIN vs} = {ws[j].id : j \in DOMAIN ws}
        /\ \A j \in DOMAIN ws : vs[j].id = ws[j].id /\ (j # i => vs[j] = ws[j])
    BY <2>1, OneVehicle
  <2> QED
    BY <2>2, Zenon DEF ws
<1>14. FleetIds(u) = FleetIds(w)
  BY <1>12, <1>13 DEF FleetIds
<1>15. /\ \A m \in DOMAIN w.faults, j \in DOMAIN w.vehicles : w.faults[m].pod = w.vehicles[j].id => "fault" \in w.vehicles[j].withdrawn
       /\ FleetGood(w)
       /\ \A m \in DOMAIN w.faults : w.faults[m].pod = NoID => w.faults[m].lane \in LanesOf[w.network]
       /\ \A j, m \in DOMAIN w.faults : j < m => /\ w.faults[j].serial < w.faults[m].serial
                                                 /\ w.faults[j].pod = w.faults[m].pod => w.faults[m].pod = NoID
  BY <1>4 DEF WorldGood, FaultsGood
<1>16. \A m \in DOMAIN w.faults, j \in DOMAIN u.vehicles : w.faults[m].pod = u.vehicles[j].id => "fault" \in u.vehicles[j].withdrawn
  <2>1. "fault" \in v.withdrawn => "fault" \in x.withdrawn
    BY <1>11
  <2>2. v = w.vehicles[i]
    BY DEF v
  <2> QED
    BY <1>12, <1>13, <1>15, <2>1, <2>2
<1>17. w.faults \in Seq(FaultRecord(u)) /\ \A m \in DOMAIN w.faults : w.faults[m].serial \in 1 .. w.serial - 1
  <2>1. u.tick \in Nat /\ w.tick <= u.tick /\ u.serial \in Nat /\ w.serial <= u.serial
    BY <1>10, <1>12
  <2> QED
    BY <1>4, <1>14, <2>1, RecordsWider
<1>18. FaultsGood(u)
  BY <1>12, <1>15, <1>16, <1>17 DEF FaultsGood
<1>19. Serials(u) = Serials(w)
  BY <1>12 DEF Serials
<1>20. EmergenciesGood(u)
  <2>1. r \in EmergencyRecord(u) /\ r.serial = w.serial
    BY <1>4, <1>6, <1>9, <1>10, <1>12, <1>14 DEF EmergencyRecord, EmergencyOf
  <2>2. w.serial \notin Serials(w)
    <3> SUFFICES ASSUME NEW m \in DOMAIN w.faults, w.faults[m].serial = w.serial PROVE FALSE
      BY DEF Serials
    <3> QED
      BY <1>10, <1>17
  <2>3. e = <<r>>
    BY <1>9
  <2>4. e \in Seq(EmergencyRecord(u)) /\ Len(e) = 1 /\ \A m \in DOMAIN e : e[m] = r
    BY <2>1, <2>3
  <2> QED
    BY <1>12, <1>19, <2>1, <2>2, <2>4 DEF EmergenciesGood
<1>21. FleetGood(u)
  BY <1>4, <1>11, <1>12, <1>13, <1>15, <1>19 DEF FleetGood
<1>22. WorldGood(u)
  BY <1>10, <1>12, <1>18, <1>20, <1>21 DEF WorldGood, CountersGood
<1>23. u.serial >= session.world.serial
  BY <1>10, <1>12 DEF w
<1> QED
  BY <1>3, <1>22, <1>23, WorldStepGood

-----------------------------------------------------------------------------
\* A vehicle at the start of a simulation.
LEMMA NewVehicleGood ==
  ASSUME NEW network, NEW p \in Listed
  PROVE  VehicleGood(network, NewVehicle(p)) /\ NewVehicle(p).blockedBy = 0
<1> DEFINE v == NewVehicle(p)
           e == <<>>
<1>1. p.station \in Stations \cup {NoID}
  BY FrameStreamAssumption DEF Listed
<1>2. v = [id |-> p.id, class |-> p.class, station |-> p.station, lane |-> NoLane, motion |-> 0, activity |-> "Idle",
           riders |-> Nil, records |-> Nil, stops |-> Nil, ridden |-> 0, withdrawn |-> {}, op |-> "service", blockedBy |-> 0,
           identity |-> 0, lanes |-> e, current |-> 0]
  BY DEF NewVehicle
<1>3. /\ v.id = p.id /\ v.class = p.class /\ v.riders = Nil /\ v.records = Nil /\ v.stops = Nil
      /\ v.ridden = 0 /\ v.blockedBy = 0 /\ v.withdrawn = {} /\ v.op = "service"
      /\ v.identity = 0 /\ v.station = p.station /\ v.lane = NoLane /\ v.lanes = e /\ v.current = 0
  <2> HIDE DEF v, e
  <2> QED
    BY <1>2
<1>4. e = <<>> /\ Active(e) = {} /\ \A S : e \in Seq(S)
  BY EmptyList DEF Active
<1> HIDE DEF v, e
<1>5. RouteGood(network, v)
  <2>1. 0 \in 0 .. MaxCounter
    BY FrameStreamAssumption
  <2> QED
    BY <1>1, <1>3, <1>4, <2>1 DEF RouteGood
<1>6. HoldGood(network, v)
  BY <1>3 DEF HoldGood
<1>7. IsSlice(Nil) /\ Items(Nil) = e
  BY <1>4, OmittedItems DEF IsSlice
<1>8. SeatsGood(e)
  BY <1>4, EmptySeats
<1>9. RecordsGood(v.records, Items(v.riders), v.ridden)
  BY <1>3, NoRecords
<1>10. /\ IsSlice(v.riders) /\ Items(v.riders) = e /\ IsSlice(v.stops) /\ Items(v.stops) = e /\ v.ridden \in Nat
       /\ \E l \in Listed : v.id = l.id /\ v.class = l.class
  BY <1>3, <1>7
<1>11. VehicleGood(network, v)
  BY <1>4, <1>5, <1>6, <1>8, <1>9, <1>10 DEF VehicleGood
<1> QED
  BY <1>3, <1>11 DEF v

\* A new simulation.
LEMMA NewWorldGood ==
  ASSUME NEW network \in DOMAIN LanesOf, NEW fleet \in {"own", "demo"}, NEW serial \in Nat \ {0}
  PROVE  WorldGood(NewWorld(network, fleet, serial)) /\ NewWorld(network, fleet, serial).serial = serial
<1> DEFINE w == NewWorld(network, fleet, serial)
           F == FleetOf[fleet]
           e == <<>>
<1>1. w.vehicles = [i \in DOMAIN F |-> NewVehicle(F[i])] /\ w.network = network /\ w.tick = 0 /\ w.submitted = 0 /\ w.pending = e
      /\ w.serial = serial /\ w.faults = e /\ w.emergencies = e
  BY DEF NewWorld
<1>2. \A i \in DOMAIN F : F[i] \in Listed
  BY DEF Places, Listed
<1>3. DOMAIN e = {} /\ Len(e) = 0 /\ \A S : e \in Seq(S)
  BY EmptyList
<1> HIDE DEF w, F, e
<1>4. FleetGood(w)
  <2>1. DOMAIN w.vehicles = DOMAIN F /\ \A i \in DOMAIN F : w.vehicles[i] = NewVehicle(F[i])
    BY <1>1
  <2> QED
    BY <1>1, <1>2, <2>1, NewVehicleGood DEF FleetGood
<1>5. FaultsGood(w) /\ EmergenciesGood(w)
  BY <1>1, <1>3 DEF FaultsGood, EmergenciesGood
<1>6. WorldGood(w)
  BY <1>1, <1>3, <1>4, <1>5 DEF WorldGood, CountersGood
<1> QED
  BY <1>1, <1>6 DEF w

\* A command that replaces the simulation.
LEMMA ReplaceGood ==
  ASSUME NEW s, DOMAIN s = SessionFields, SessionGood(s), NEW w, WorldGood(w), w.serial = s.world.serial, NEW n, DOMAIN n = SessionFields,
         n.saved = s.saved, n.revision = s.revision, NEW t, t = [[n EXCEPT !.world = w, !.generation = @ + 1] EXCEPT !.revision = @ + 1]
  PROVE  SessionGood(t)
<1> DEFINE u == [n EXCEPT !.world = w, !.generation = @ + 1]
<1>1. /\ DOMAIN u = SessionFields /\ u.world = w /\ u.saved = s.saved /\ u.revision = s.revision
  BY DEF SessionFields
<1>2. t = [u EXCEPT !.revision = @ + 1]
  OBVIOUS
<1> HIDE DEF u
<1>3. t.world = w /\ t.saved = s.saved /\ t.revision = s.revision + 1
  BY <1>1, <1>2 DEF SessionFields
<1> QED
  BY <1>3 DEF SessionGood

\* The commands that replace the simulation.
LEMMA ProjectGood ==
  ASSUME SessionSound(session), SessionGood(session), scene \in Scenes, ApplyProject \/ Rewind \/ StartDemo \/ Reset
  PROVE  SessionGood(session')
<1> DEFINE s == session
           serial == s.world.serial
<1>1. DOMAIN s = SessionFields /\ serial \in Nat \ {0} /\ s.world.network \in DOMAIN LanesOf
  BY DEF SessionSound, SessionGood, WorldSound, WorldGood, CountersGood
<1>2. CASE ApplyProject
  <2>1. PICK network \in scene.networks :
          Replace([s EXCEPT !.project = @ + 1, !.networks = Append(@, network)], NewWorld(network, "own", serial))
    BY <1>2 DEF ApplyProject
  <2>2. network \in DOMAIN LanesOf
    BY <2>1, FrameStreamAssumption
  <2> DEFINE w == NewWorld(network, "own", serial)
             n == [s EXCEPT !.project = @ + 1, !.networks = Append(@, network)]
  <2>3. WorldGood(w) /\ w.serial = s.world.serial
    BY <1>1, <2>2, NewWorldGood
  <2>4. session' = [[n EXCEPT !.world = w, !.generation = @ + 1] EXCEPT !.revision = @ + 1]
    BY <2>1 DEF Replace, Revised
  <2>5. DOMAIN n = SessionFields /\ n.saved = s.saved /\ n.revision = s.revision
    BY <1>1 DEF SessionFields
  <2>6. SessionGood(s)
    OBVIOUS
  <2> HIDE DEF w, n, s
  <2> QED
    BY <1>1, <2>3, <2>4, <2>5, <2>6, ReplaceGood
<1>3. CASE Rewind
  <2> DEFINE p == The(s.saved)
             w == [p EXCEPT !.serial = serial]
             n == IF w.network = s.world.network THEN s ELSE [s EXCEPT !.project = @ + 1, !.networks = Append(@, w.network)]
  <2>1. WorldSound(p) /\ WorldGood(p) /\ p.serial <= serial
    <3>1. PICK x : s.saved = {x} /\ WorldSound(x)
      BY <1>3 DEF Rewind, SessionSound
    <3>2. WorldGood(x) /\ x.serial <= s.world.serial
      BY <3>1 DEF SessionGood
    <3> QED
      BY <3>1, <3>2, TheOf
  <2>2. Replace(n, w)
    BY <1>3 DEF Rewind
  <2>3. n = s \/ n = [s EXCEPT !.project = @ + 1, !.networks = Append(@, w.network)]
    OBVIOUS
  <2>4. session' = [[n EXCEPT !.world = w, !.generation = @ + 1] EXCEPT !.revision = @ + 1]
    BY <2>2 DEF Replace, Revised
  <2>5. serial = s.world.serial /\ SessionGood(s)
    OBVIOUS
  <2> HIDE DEF p, serial
  <2>6. /\ w.network = p.network /\ w.vehicles = p.vehicles /\ w.faults = p.faults /\ w.emergencies = p.emergencies
        /\ w.tick = p.tick /\ w.submitted = p.submitted /\ w.pending = p.pending /\ w.serial = serial
    BY <2>1 DEF WorldFields, WorldSound
  <2> HIDE DEF w, n, s
  <2>7. DOMAIN n = SessionFields /\ n.saved = s.saved /\ n.revision = s.revision
    BY <1>1, <2>3 DEF SessionFields
  <2>8. WorldGood(w)
    <3>1. /\ p.tick \in Nat /\ p.serial \in Nat /\ p.submitted \in Nat /\ FleetGood(p) /\ p.pending \in Seq(TripsOf(p.network, NoID))
          /\ \A k \in DOMAIN p.faults, j \in DOMAIN p.vehicles : p.faults[k].pod = p.vehicles[j].id => "fault" \in p.vehicles[j].withdrawn
      BY <2>1 DEF WorldGood, CountersGood, FaultsGood
    <3>2. FleetIds(w) = FleetIds(p)
      BY <2>6 DEF FleetIds
    <3>3. w.tick \in Nat /\ p.tick <= w.tick /\ w.serial \in Nat /\ p.serial <= w.serial
      BY <1>1, <2>1, <2>6, <3>1
    <3>4. FaultsGood(w) /\ EmergenciesGood(w) /\ Serials(w) = Serials(p)
      BY <2>1, <2>6, <3>1, <3>2, <3>3, IncidentsStay
    <3> QED
      BY <1>1, <2>6, <3>1, <3>4 DEF WorldGood, CountersGood, FleetGood
  <2>9. w.serial = s.world.serial
    BY <2>5, <2>6
  <2> QED
    BY <1>1, <2>4, <2>5, <2>7, <2>8, <2>9, ReplaceGood
<1>4. CASE StartDemo
  <2> DEFINE w == NewWorld(s.world.network, "demo", serial)
  <2>1. WorldGood(w) /\ w.serial = s.world.serial
    BY <1>1, NewWorldGood
  <2>2. session' = [[s EXCEPT !.world = w, !.generation = @ + 1] EXCEPT !.revision = @ + 1]
    BY <1>4 DEF StartDemo, Replace, Revised
  <2>3. SessionGood(s)
    OBVIOUS
  <2> HIDE DEF w, s
  <2> QED
    BY <1>1, <2>1, <2>2, <2>3, ReplaceGood
<1>5. CASE Reset
  <2> DEFINE w == NewWorld(s.world.network, "own", serial)
             n == [s EXCEPT !.restore = "none"]
  <2>1. WorldGood(w) /\ w.serial = s.world.serial
    BY <1>1, NewWorldGood
  <2>2. session' = [[n EXCEPT !.world = w, !.generation = @ + 1] EXCEPT !.revision = @ + 1]
    BY <1>5 DEF Reset, Replace, Revised
  <2>3. DOMAIN n = SessionFields /\ n.saved = s.saved /\ n.revision = s.revision
    BY <1>1 DEF SessionFields
  <2>4. SessionGood(s)
    OBVIOUS
  <2> HIDE DEF w, n, s
  <2> QED
    BY <1>1, <2>1, <2>2, <2>3, <2>4, ReplaceGood
<1> QED
  BY <1>2, <1>3, <1>4, <1>5

\* The commands that keep the simulation.
LEMMA ControlsGood ==
  ASSUME SessionSound(session), SessionGood(session), SetSpeed \/ SavePoint \/ Restart
  PROVE  SessionGood(session')
<1> DEFINE s == session
<1>1. DOMAIN s = SessionFields /\ SessionGood(s) /\ s.world.serial \in Nat /\ s.revision \in Nat
  BY GoodParts DEF SessionSound, SessionGood
<1>2. session'.world = s.world /\ session'.revision = s.revision + 1 /\ session'.saved \in {s.saved, {s.world}, {}}
  <2>1. CASE SetSpeed
    <3>1. session' = [[s EXCEPT !.speed = 2] EXCEPT !.revision = @ + 1]
      BY <2>1 DEF SetSpeed, Revised
    <3> HIDE DEF s
    <3> QED
      BY <1>1, <3>1 DEF SessionFields
  <2>2. CASE SavePoint
    <3> DEFINE c == {<<s.revision>>}
               v == {s.world}
    <3>1. session' = [[s EXCEPT !.saved = v, !.checkpoints = c] EXCEPT !.revision = @ + 1]
      BY <2>2 DEF SavePoint, Revised
    <3>2. v = {s.world}
      OBVIOUS
    <3> HIDE DEF s, c, v
    <3>3. session'.world = s.world /\ session'.revision = s.revision + 1 /\ session'.saved = v
      BY <1>1, <3>1 DEF SessionFields
    <3> QED
      BY <3>2, <3>3
  <2>3. CASE Restart
    <3>1. session' = [s EXCEPT !.start = 2, !.revision = @ + 1, !.generation = @ + 1, !.restore = "physical", !.saved = {}, !.checkpoints = Nil]
      BY <2>3 DEF Restart
    <3> HIDE DEF s
    <3> QED
      BY <1>1, <3>1 DEF SessionFields
  <2> QED
    BY <2>1, <2>2, <2>3
<1> HIDE DEF s
<1> QED
  BY <1>1, <1>2 DEF SessionGood

\* Every step of the session.
LEMMA SessionStepGood ==
  ASSUME SessionSound(session), SessionGood(session), scene \in Scenes, SessionStep \/ Restart
  PROVE  SessionGood(session')
<1>1. CASE Restart
  BY <1>1, ControlsGood
<1>2. CASE SessionStep
  <2>1. CASE RequestTrip
    BY <2>1, RequestTripGood
  <2>2. CASE SetSpeed \/ SavePoint
    BY <2>2, ControlsGood
  <2>3. CASE ApplyProject \/ Rewind \/ StartDemo \/ Reset
    BY <2>3, ProjectGood
  <2>4. CASE ClearFault
    BY <2>4, ClearFaultGood
  <2>5. ASSUME NEW i \in Vehicles, \/ Board(i) \/ Depart(i) \/ Drive(i) \/ Arrive(i)
                              \/ StartFault(i) \/ BlockByDebris(i) \/ Evacuate(i) \/ StartEmergency(i) \/ EmergencyUnload(i)
        PROVE  SessionGood(session')
    BY <2>5, BoardGood, DriveGood, ArriveGood, StartFaultGood, EvacuateGood, StartEmergencyGood, EmergencyUnloadGood
  <2>6. ASSUME NEW lane \in LanesOf[session.world.network], StartDebris(lane)
        PROVE  SessionGood(session')
    BY <2>6, StartDebrisGood
  <2> QED
    BY <1>2, <2>1, <2>2, <2>3, <2>4, <2>5, <2>6 DEF SessionStep
<1> QED
  BY <1>1, <1>2

\* The orders of the start are requests.
LEMMA InitGood == FrameInit => SessionGood(session)
<1> SUFFICES ASSUME FrameInit PROVE SessionGood(session)
  OBVIOUS
<1> DEFINE b == NewWorld(1, "own", 1)
           waiting == scene.waiting
           p == [k \in 1 .. waiting |-> RequestOf(scene.orders[k], NoID, NoID)]
           w == [b EXCEPT !.submitted = waiting, !.pending = p]
<1>1. session.revision = 0 /\ session.saved = {} /\ session.world = w
  BY DEF FrameInit
<1>2. WorldSound(b) /\ WorldGood(b) /\ b.network = 1
  BY NewWorldSound, NewWorldGood, FrameStreamAssumption
<1>3. waiting \in Nat /\ p \in Seq(TripsOf(1, NoID))
  <2>1. scene.orders \in Seq(DOMAIN Orders) /\ waiting \in 0 .. Len(scene.orders)
    BY FrameStreamAssumption DEF FrameInit
  <2>2. \A id \in DOMAIN Orders : Orders[id].to \in Stations /\ NoID # Orders[id].to
    <3> DEFINE R == [from : Stations, to : Stations, shared : BOOLEAN]
    <3>1. Orders \in Seq(R) /\ NoID \notin Stations
      BY FrameStreamAssumption
    <3> HIDE DEF R
    <3>2. \A id \in DOMAIN Orders : Orders[id] \in R
      BY <3>1
    <3> QED
      BY <3>1, <3>2 DEF R
  <2>3. \A id \in DOMAIN Orders : RequestOf(id, NoID, NoID) \in TripsOf(1, NoID)
    BY <2>2, RequestIsTrip
  <2> HIDE DEF waiting
  <2>4. \A k \in 1 .. waiting : RequestOf(scene.orders[k], NoID, NoID) \in TripsOf(1, NoID)
    BY <2>1, <2>3
  <2> DEFINE T == TripsOf(1, NoID)
             r(k) == RequestOf(scene.orders[k], NoID, NoID)
  <2>5. p = [k \in 1 .. waiting |-> r(k)] /\ \A k \in 1 .. waiting : r(k) \in T
    BY <2>4
  <2> HIDE DEF r, T, p
  <2>6. waiting \in Nat
    BY <2>1
  <2>7. p \in Seq(T)
    BY <2>5, <2>6
  <2> QED
    BY <2>6, <2>7 DEF T
<1> HIDE DEF b, p, waiting
<1>4. /\ w.network = b.network /\ w.vehicles = b.vehicles /\ w.faults = b.faults /\ w.emergencies = b.emergencies
      /\ w.tick = b.tick /\ w.submitted = waiting /\ w.pending = p /\ w.serial = b.serial
  BY <1>2 DEF WorldFields, WorldSound
<1> HIDE DEF w
<1>5. WorldGood(w)
  <2>1. /\ b.tick \in Nat /\ b.serial \in Nat \ {0} /\ FleetGood(b)
        /\ \A k \in DOMAIN b.faults, j \in DOMAIN b.vehicles : b.faults[k].pod = b.vehicles[j].id => "fault" \in b.vehicles[j].withdrawn
    BY <1>2 DEF WorldGood, CountersGood, FaultsGood
  <2>2. FleetIds(w) = FleetIds(b)
    BY <1>4 DEF FleetIds
  <2>3. w.tick \in Nat /\ b.tick <= w.tick /\ w.serial \in Nat /\ b.serial <= w.serial
    BY <1>4, <2>1
  <2>4. FaultsGood(w) /\ EmergenciesGood(w) /\ Serials(w) = Serials(b)
    BY <1>2, <1>4, <2>1, <2>2, <2>3, IncidentsStay
  <2> QED
    BY <1>2, <1>3, <1>4, <2>1, <2>4 DEF WorldGood, CountersGood, FleetGood
<1> QED
  BY <1>1, <1>5 DEF SessionGood

-----------------------------------------------------------------------------
\* A revision that the session gives.
LEMMA RevisionOf ==
  ASSUME NEW s, DOMAIN s = SessionFields, s.revision = session.revision, Revised(s)
  PROVE  session'.revision = session.revision + 1
BY DEF Revised, SessionFields

\* Every change of the session has a revision of its own.
LEMMA RevisionGrows ==
  ASSUME SessionSound(session), SessionStep \/ Restart
  PROVE  session'.revision = session.revision + 1
<1>1. DOMAIN session = SessionFields
  BY DEF SessionSound
<1>2. \A w : Became(w) => session'.revision = session.revision + 1
  <2> SUFFICES ASSUME NEW w, Became(w) PROVE session'.revision = session.revision + 1
    OBVIOUS
  <2>1. Revised([session EXCEPT !.world = w])
    BY DEF Became
  <2>2. DOMAIN [session EXCEPT !.world = w] = SessionFields /\ [session EXCEPT !.world = w].revision = session.revision
    BY <1>1 DEF SessionFields
  <2> DEFINE s == [session EXCEPT !.world = w]
  <2>3. Revised(s) /\ DOMAIN s = SessionFields /\ s.revision = session.revision
    BY <2>1, <2>2
  <2> HIDE DEF s
  <2> QED
    BY <2>3, RevisionOf
<1>3. \A w : Ticked(w) => session'.revision = session.revision + 1
  BY <1>2 DEF Ticked
<1>4. ASSUME NEW n, DOMAIN n = SessionFields, n.revision = session.revision, NEW w, Replace(n, w)
      PROVE  session'.revision = session.revision + 1
  <2> DEFINE s == [n EXCEPT !.world = w, !.generation = @ + 1]
  <2>1. Revised(s) /\ DOMAIN s = SessionFields /\ s.revision = session.revision
    BY <1>4 DEF Replace, SessionFields
  <2> HIDE DEF s
  <2> QED
    BY <2>1, RevisionOf
<1>5. CASE SetSpeed
  <2> DEFINE s == [session EXCEPT !.speed = 2]
  <2>1. Revised(s) /\ DOMAIN s = SessionFields /\ s.revision = session.revision
    BY <1>1, <1>5 DEF SetSpeed, SessionFields
  <2> HIDE DEF s
  <2> QED
    BY <2>1, RevisionOf
<1>6. CASE SavePoint
  <2> DEFINE s == [session EXCEPT !.saved = {session.world}, !.checkpoints = {<<session.revision>>}]
  <2>1. Revised(s)
    BY <1>6 DEF SavePoint
  <2>2. DOMAIN s = SessionFields /\ s.revision = session.revision
    BY <1>1 DEF SessionFields
  <2> HIDE DEF s
  <2> QED
    BY <2>1, <2>2, RevisionOf
<1>7. CASE Restart
  <2>1. session' = [session EXCEPT !.start = 2, !.revision = @ + 1, !.generation = @ + 1, !.restore = "physical", !.saved = {}, !.checkpoints = Nil]
    BY <1>7 DEF Restart
  <2> QED
    BY <1>1, <2>1 DEF SessionFields
<1>8. CASE ApplyProject
  <2>1. PICK network : Replace([session EXCEPT !.project = @ + 1, !.networks = Append(@, network)], NewWorld(network, "own", session.world.serial))
    BY <1>8 DEF ApplyProject
  <2> DEFINE n == [session EXCEPT !.project = @ + 1, !.networks = Append(@, network)]
             w == NewWorld(network, "own", session.world.serial)
  <2>2. Replace(n, w) /\ DOMAIN n = SessionFields /\ n.revision = session.revision
    BY <1>1, <2>1 DEF SessionFields
  <2> HIDE DEF n, w
  <2> QED
    BY <1>4, <2>2
<1>9. CASE Rewind
  <2> DEFINE w == [The(session.saved) EXCEPT !.serial = session.world.serial]
             n == IF w.network = session.world.network THEN session ELSE [session EXCEPT !.project = @ + 1, !.networks = Append(@, w.network)]
  <2>1. Replace(n, w)
    BY <1>9 DEF Rewind
  <2>2. n = session \/ n = [session EXCEPT !.project = @ + 1, !.networks = Append(@, w.network)]
    OBVIOUS
  <2> HIDE DEF n, w
  <2>3. DOMAIN n = SessionFields /\ n.revision = session.revision
    BY <1>1, <2>2 DEF SessionFields
  <2> QED
    BY <1>4, <2>1, <2>3
<1>10. CASE StartDemo
  <2> DEFINE w == NewWorld(session.world.network, "demo", session.world.serial)
  <2>1. Replace(session, w)
    BY <1>10 DEF StartDemo
  <2> HIDE DEF w
  <2> QED
    BY <1>1, <1>4, <2>1
<1>11. CASE Reset
  <2> DEFINE w == NewWorld(session.world.network, "own", session.world.serial)
             n == [session EXCEPT !.restore = "none"]
  <2>1. Replace(n, w) /\ DOMAIN n = SessionFields /\ n.revision = session.revision
    BY <1>1, <1>11 DEF Reset, SessionFields
  <2> HIDE DEF n, w
  <2> QED
    BY <1>4, <2>1
<1>12. CASE RequestTrip
  BY <1>2, <1>12 DEF RequestTrip
<1>13. CASE ClearFault
  BY <1>2, <1>13 DEF ClearFault
<1>14. ASSUME NEW i \in Vehicles, \/ Board(i) \/ Depart(i) \/ Drive(i) \/ Arrive(i) \/ BlockByDebris(i)
       PROVE  session'.revision = session.revision + 1
  BY <1>3, <1>14 DEF Board, Depart, Drive, Arrive, BlockByDebris
<1>15. ASSUME NEW i \in Vehicles, StartFault(i) \/ Evacuate(i) \/ StartEmergency(i) \/ EmergencyUnload(i)
       PROVE  session'.revision = session.revision + 1
  BY <1>2, <1>3, <1>15 DEF StartFault, Evacuate, StartEmergency, EmergencyUnload
<1>16. ASSUME NEW lane \in LanesOf[session.world.network], StartDebris(lane)
       PROVE  session'.revision = session.revision + 1
  BY <1>2, <1>16 DEF StartDebris
<1> QED
  BY <1>5, <1>6, <1>7, <1>8, <1>9, <1>10, <1>11, <1>12, <1>13, <1>14, <1>15, <1>16 DEF SessionStep

-----------------------------------------------------------------------------
(***************************************************************************)
(* The frame of a good session passes every check.                         *)
(***************************************************************************)
LanesTopology(network) == [lanes |-> LanesOf[network]]
VehicleValid(network, v, r) ==
    /\ ValidateVehicleBoardings(v) /\ r.identity <= MaxCounter /\ RouteFits(LanesTopology(network), r, v.pod)
    /\ SeatsGood(Items(v.riders)) /\ \E p \in Listed : v.pod.id = p.id /\ v.pod.class = p.class
Valid(f, network) ==
    /\ Len(f.routes) = Len(f.vehicles) /\ CheckIncidentFrame(f) /\ CheckFaultFrame(f) /\ CheckEmergencyFrame(f) /\ References(f)
    /\ FaultLanes(LanesTopology(network), f) /\ \A i \in DOMAIN f.vehicles : VehicleValid(network, f.vehicles[i], f.routes[i])

\* The items of a slice that a list makes.
LEMMA ListSliceItems == \A list : Items(ListSlice(list)) = list
BY OmittedItems DEF ListSlice

\* The records that are shown are the ones of the vehicle, or none.
LEMMA ShownGood ==
  ASSUME NEW network, NEW v, VehicleGood(network, v)
  PROVE  LET x == VehicleFrame(v) IN ValidateVehicleBoardings(x) /\ \A f : VehicleBoardings(f, x)
<1> DEFINE x == VehicleFrame(v)
           q == Items(v.records)
           riders == Items(v.riders)
           ridden == IF ShownRecords(v) = Nil THEN 0 ELSE v.ridden
<1>1. x.boardings = ShownRecords(v) /\ x.riders = v.riders /\ x.meta.ridden = ridden
  BY DEF VehicleFrame
<1>2. riders \in Seq(TripsOf(network, v.id)) /\ v.ridden \in Nat /\ RecordsGood(v.records, riders, v.ridden)
  BY DEF VehicleGood
<1>3. /\ q \in Seq(Record) /\ (q = <<>> \/ Len(q) = Len(riders))
      /\ \A k \in DOMAIN q : /\ q[k].berth = Berth[LegOrigin(riders[k])] /\ q[k].meters <= v.ridden
                             /\ riders[k].done \/ riders[k].shared
  BY <1>2 DEF RecordsGood
<1>4. ShownRecords(v) = Nil \/ (ShownRecords(v) = v.records /\ q # <<>> /\ v.records # Nil)
  <2>1. Items(Nil) = <<>>
    BY OmittedItems
  <2> QED
    BY <2>1 DEF ShownRecords
<1> HIDE DEF x, q, riders
<1>5. CASE ShownRecords(v) = Nil
  <2>1. x.boardings = Nil /\ x.meta.ridden = 0 /\ Items(x.boardings) = <<>> /\ DOMAIN Items(x.boardings) = {}
    BY <1>1, <1>5, OmittedItems
  <2>2. ValidateVehicleBoardings(x)
    BY <2>1 DEF ValidateVehicleBoardings
  <2> QED
    BY <2>1, <2>2 DEF VehicleBoardings, x
<1>6. CASE ShownRecords(v) = v.records /\ q # <<>> /\ v.records # Nil
  <2>1. Items(x.boardings) = q /\ q # <<>> /\ x.meta.ridden = v.ridden /\ Items(x.riders) = riders
    BY <1>1, <1>6 DEF q, riders
  <2>2. Len(q) = Len(riders) /\ DOMAIN q = 1 .. Len(q) /\ DOMAIN riders = 1 .. Len(riders)
    BY <1>2, <1>3, <1>6
  <2>3. \A k \in DOMAIN q : q[k].berth \in Berths
    <3>1. \A k \in DOMAIN q : q[k] \in Record
      BY <1>3
    <3> QED
      BY <3>1 DEF Record
  <2>4. ValidateVehicleBoardings(x)
    BY <1>3, <2>1, <2>2, <2>3 DEF ValidateVehicleBoardings
  <2>5. \A f : VehicleBoardings(f, x)
    BY <1>3, <2>1, <2>4 DEF VehicleBoardings, LegOrigin
  <2> QED
    BY <2>4, <2>5 DEF x
<1> QED
  BY <1>4, <1>5, <1>6

\* The route of a vehicle is in its window, on lanes of the network.
LEMMA RouteFitsGood ==
  ASSUME NEW network \in DOMAIN LanesOf, NEW v, RouteGood(network, v)
  PROVE  RouteFits(LanesTopology(network), RouteFrame(v), VehicleFrame(v).pod) /\ RouteFrame(v).identity <= MaxCounter
<1> DEFINE r == RouteFrame(v)
           p == VehicleFrame(v).pod
           t == LanesTopology(network)
<1>1. r.identity = v.identity /\ r.lanes = v.lanes /\ r.origin = (v.lanes # <<>>) /\ r.current = v.current /\ p.lane = v.lane
      /\ t.lanes = LanesOf[network]
  BY DEF RouteFrame, VehicleFrame, LanesTopology
<1>2. MaxCounter \in Nat /\ v.identity \in 0 .. MaxCounter
  BY FrameStreamAssumption DEF RouteGood
<1>3. NoLane \notin LanesOf[network]
  BY FrameStreamAssumption
<1> HIDE DEF r, p, t
<1>4. ASSUME v.lanes = <<>>, v.lane = NoLane, v.current = 0 PROVE RouteFits(t, r, p)
  <2> DEFINE e == <<>>
  <2>0. Len(e) = 0 /\ DOMAIN e = {} /\ v.lanes = e
    BY <1>4
  <2> HIDE DEF e
  <2>1. ToSet(e) = {} /\ r.lanes = e
    BY <1>1, <2>0 DEF ToSet
  <2>2. ~r.origin
    BY <1>1, <1>4
  <2> QED
    BY <1>1, <1>2, <1>4, <2>0, <2>1, <2>2 DEF RouteFits
<1>5. ASSUME NEW l \in LanesOf[network], v.lanes = <<l>>, (v.lane = l /\ v.current = 0) \/ (v.lane = NoLane /\ v.current \in {0, 1})
      PROVE  RouteFits(t, r, p)
  <2> DEFINE e == <<l>>
  <2>1. Len(e) = 1 /\ ToSet(e) = {l} /\ e # <<>> /\ e[1] = l
    BY DEF ToSet
  <2>2. r.lanes = e
    BY <1>1, <1>5
  <2> HIDE DEF e
  <2>3. r.current <= Len(r.lanes) /\ ToSet(r.lanes) \subseteq t.lanes /\ r.lanes # <<>>
    BY <1>1, <1>5, <2>1, <2>2
  <2>4. p.lane # NoLane => r.current < Len(r.lanes) /\ r.lanes[r.current + 1] = p.lane
    BY <1>1, <1>5, <2>1, <2>2
  <2>5. \A k \in 2 .. Len(r.lanes) : FALSE
    <3>1. Len(r.lanes) = 1
      BY <2>1, <2>2
    <3> QED
      BY <3>1
  <2> QED
    BY <2>3, <2>4, <2>5 DEF RouteFits
<1>6. RouteFits(t, r, p)
  <2>1. \/ v.lanes = <<>> /\ v.lane = NoLane /\ v.current = 0
        \/ \E l \in LanesOf[network] : v.lanes = <<l>> /\ ((v.lane = l /\ v.current = 0) \/ (v.lane = NoLane /\ v.current \in {0, 1}))
    BY DEF RouteGood
  <2>2. CASE v.lanes = <<>> /\ v.lane = NoLane /\ v.current = 0
    BY <1>4, <2>2
  <2> QED
    BY <1>5, <2>1, <2>2
<1> QED
  BY <1>1, <1>2, <1>6 DEF r, p, t

\* The orders of the riders of a vehicle.
OrderKnown(r) == /\ KnownStation(r.from) /\ KnownStation(r.to) /\ (r.leg = NoID \/ (KnownStation(r.leg) /\ r.leg # r.to))
LEMMA TripKnown ==
  ASSUME NEW network, NEW pod, NEW q \in Seq(TripsOf(network, pod)), NEW k \in DOMAIN q
  PROVE  OrderKnown(q[k]) /\ q[k].pod = pod /\ (q[k].leg # NoID => MarkersOf[network].incident)
<1>1. q[k] \in TripsOf(network, pod)
  OBVIOUS
<1> QED
  BY <1>1, TripParts DEF OrderKnown, KnownStation

\* A vehicle of a frame.
LEMMA VehicleFrameValid ==
  ASSUME NEW network \in DOMAIN LanesOf, NEW v, VehicleGood(network, v)
  PROVE  LET x == VehicleFrame(v)
         IN  /\ VehicleValid(network, x, RouteFrame(v)) /\ \A f : VehicleBoardings(f, x)
             /\ x.pod.id = v.id /\ x.pod.blockedBy = v.blockedBy
             /\ x.pod.station \in Stations \cup {NoID} /\ x.pod.berth \in Berths \cup {NoID}
             /\ \A k \in DOMAIN Items(x.riders) : /\ OrderKnown(Items(x.riders)[k]) /\ Items(x.riders)[k].pod = v.id
                                                  /\ Items(x.riders)[k].leg # NoID => MarkersOf[network].incident
             /\ \A k \in DOMAIN Items(x.stops) : KnownStation(Items(x.stops)[k])
             /\ x.meta.operational # "service" => x.meta.withdrawn # {}
             /\ ~MarkersOf[network].incident => x.meta.withdrawn = {} /\ x.meta.operational = "service"
<1> DEFINE x == VehicleFrame(v)
           r == RouteFrame(v)
<1>1. /\ x.pod.id = v.id /\ x.pod.class = v.class /\ x.pod.blockedBy = v.blockedBy /\ x.pod.station = v.station
      /\ x.pod.berth = (IF v.station = NoID THEN NoID ELSE Berth[v.station])
      /\ x.riders = v.riders /\ x.stops = v.stops /\ x.meta.withdrawn = v.withdrawn /\ x.meta.operational = v.op
  BY DEF VehicleFrame
<1>2. ValidateVehicleBoardings(x) /\ \A f : VehicleBoardings(f, x)
  BY ShownGood
<1>3. RouteFits(LanesTopology(network), r, x.pod) /\ r.identity <= MaxCounter
  BY RouteFitsGood DEF VehicleGood
<1> HIDE DEF x, r
<1>4. VehicleValid(network, x, r)
  BY <1>1, <1>2, <1>3 DEF VehicleValid, VehicleGood
<1>5. x.pod.station \in Stations \cup {NoID} /\ x.pod.berth \in Berths \cup {NoID}
  BY <1>1 DEF VehicleGood, RouteGood, Berths
<1>6. Items(x.riders) \in Seq(TripsOf(network, v.id))
  BY <1>1 DEF VehicleGood
<1>7. \A k \in DOMAIN Items(x.riders) : /\ OrderKnown(Items(x.riders)[k]) /\ Items(x.riders)[k].pod = v.id
                                        /\ Items(x.riders)[k].leg # NoID => MarkersOf[network].incident
  <2> DEFINE q == Items(x.riders)
  <2>1. q \in Seq(TripsOf(network, v.id))
    BY <1>6
  <2> HIDE DEF q
  <2>2. \A k \in DOMAIN q : OrderKnown(q[k]) /\ q[k].pod = v.id /\ (q[k].leg # NoID => MarkersOf[network].incident)
    BY <2>1, TripKnown
  <2> QED
    BY <2>2 DEF q
<1>8. \A k \in DOMAIN Items(x.stops) : KnownStation(Items(x.stops)[k])
  <2> DEFINE q == Items(x.stops)
  <2>1. q \in Seq(Stations)
    BY <1>1 DEF VehicleGood
  <2> HIDE DEF q
  <2>2. \A k \in DOMAIN q : q[k] \in Stations
    BY <2>1
  <2> QED
    BY <2>2 DEF q, KnownStation
<1>9. /\ x.meta.operational # "service" => x.meta.withdrawn # {}
      /\ ~MarkersOf[network].incident => x.meta.withdrawn = {} /\ x.meta.operational = "service"
  BY <1>1 DEF VehicleGood, HoldGood
<1> QED
  BY <1>1, <1>2, <1>4, <1>5, <1>7, <1>8, <1>9 DEF x, r

\* The parts of the frame of a session.
LEMMA FrameParts ==
  ASSUME SessionSound(session)
  PROVE  LET w == session.world
             f == PresentationFrame
         IN  /\ DOMAIN f.vehicles = DOMAIN w.vehicles /\ DOMAIN f.routes = DOMAIN w.vehicles /\ Len(f.routes) = Len(f.vehicles)
             /\ \A i \in DOMAIN w.vehicles : f.vehicles[i] = VehicleFrame(w.vehicles[i]) /\ f.routes[i] = RouteFrame(w.vehicles[i])
             /\ f.markers = MarkersOf[w.network] /\ f.groups.incident = w.interrupted /\ f.groups.global.tick = w.tick
             /\ Items(f.groups.pending) = w.pending /\ Items(f.groups.faults.active) = w.faults
             /\ Items(f.groups.emergencies.active) = w.emergencies
             /\ f.berths = [b \in Berths |-> OccupantOf(w, b)] /\ f.source.revision = session.revision
             /\ ToSet(Ids(f.vehicles)) = FleetIds(w)
<1> DEFINE w == session.world
           f == PresentationFrame
           vs == [i \in DOMAIN w.vehicles |-> VehicleFrame(w.vehicles[i])]
           rs == [i \in DOMAIN w.vehicles |-> RouteFrame(w.vehicles[i])]
<1>1. /\ f.vehicles = vs /\ f.routes = rs
      /\ f.markers = MarkersOf[w.network] /\ f.groups.incident = w.interrupted /\ f.groups.global.tick = w.tick
      /\ f.groups.pending = ListSlice(w.pending) /\ f.groups.faults.active = ListSlice(w.faults)
      /\ f.groups.emergencies.active = ListSlice(w.emergencies)
      /\ f.berths = [b \in Berths |-> OccupantOf(w, b)] /\ f.source.revision = session.revision
  BY DEF PresentationFrame, Markers
<1>2. PICK n \in Nat : DOMAIN w.vehicles = 1 .. n
  BY DEF SessionSound, WorldSound, FleetSound
<1>3. DOMAIN vs = DOMAIN w.vehicles /\ DOMAIN rs = DOMAIN w.vehicles
      /\ \A i \in DOMAIN w.vehicles : vs[i] = VehicleFrame(w.vehicles[i]) /\ rs[i] = RouteFrame(w.vehicles[i])
  OBVIOUS
<1>4. \A i \in DOMAIN w.vehicles : vs[i].pod.id = w.vehicles[i].id
  <2>1. \A v : VehicleFrame(v).pod.id = v.id
    BY DEF VehicleFrame
  <2> QED
    BY <1>3, <2>1
<1>5. Len(rs) = Len(vs)
  <2> DEFINE x(i) == VehicleFrame(w.vehicles[i])
             y(i) == RouteFrame(w.vehicles[i])
  <2>1. vs = [i \in 1 .. n |-> x(i)] /\ rs = [i \in 1 .. n |-> y(i)]
    BY <1>2
  <2> HIDE DEF x, y, vs, rs
  <2>2. vs \in Seq({x(i) : i \in 1 .. n}) /\ Len(vs) = n
    BY <2>1
  <2>3. rs \in Seq({y(i) : i \in 1 .. n}) /\ Len(rs) = n
    BY <2>1
  <2> QED
    BY <2>2, <2>3
<1> HIDE DEF f, vs, rs, w
<1>6. ToSet(Ids(f.vehicles)) = FleetIds(w)
  <2> DEFINE q == Ids(vs)
             ws == w.vehicles
  <2>1. DOMAIN vs = DOMAIN ws /\ \A i \in DOMAIN ws : vs[i].pod.id = ws[i].id
    BY <1>3, <1>4
  <2>2. q = [i \in DOMAIN vs |-> vs[i].pod.id]
    BY DEF Ids
  <2> HIDE DEF ws, q
  <2>3. DOMAIN q = DOMAIN ws /\ \A i \in DOMAIN ws : q[i] = ws[i].id
    BY <2>1, <2>2
  <2>4. ToSet(q) = {ws[i].id : i \in DOMAIN ws}
    BY <2>3 DEF ToSet
  <2> QED
    BY <1>1, <2>4 DEF FleetIds, q, ws
<1> QED
  BY <1>1, <1>3, <1>5, <1>6, ListSliceItems DEF w, f

\* A list whose entries have identities of their own has as many identities as entries.
LEMMA IdsCounted ==
  ASSUME NEW vehicles, Len(vehicles) \in Nat, DOMAIN vehicles = 1 .. Len(vehicles),
         \A i, k \in DOMAIN vehicles : vehicles[i].pod.id = vehicles[k].pod.id => i = k
  PROVE  Cardinality(ToSet(Ids(vehicles))) = Len(vehicles)
<1> DEFINE n == Len(vehicles)
           q == Ids(vehicles)
           S == ToSet(q)
<1>1. q = [i \in 1 .. n |-> vehicles[i].pod.id] /\ n \in Nat
  BY DEF Ids
<1>2. DOMAIN q = 1 .. n /\ \A i, k \in 1 .. n : q[i] = q[k] => i = k
  BY <1>1
<1>3. S = {q[i] : i \in 1 .. n}
  BY <1>2 DEF ToSet
<1>4. IsFiniteSet(1 .. n) /\ Cardinality(1 .. n) = n
  <2>1. 0 \in Int /\ n \in Int /\ n - 1 + 1 = n
    BY <1>1
  <2> HIDE DEF n
  <2>2. IsFiniteSet(1 .. n) /\ Cardinality(1 .. n) = IF 1 > n THEN 0 ELSE n - 1 + 1
    BY <2>1, FS_Interval
  <2> QED
    BY <1>1, <2>1, <2>2
<1> HIDE DEF S, n, q
<1>5. q \in [1 .. n -> S]
  BY <1>1, <1>3
<1>6. q \in Bijection(1 .. n, S)
  BY <1>2, <1>3, <1>5 DEF Bijection, Injection, Surjection, IsInjective
<1>7. ExistsBijection(1 .. n, S)
  BY <1>6 DEF ExistsBijection
<1>8. Cardinality(S) = n
  BY <1>4, <1>7, FS_Bijection
<1> QED
  BY <1>8 DEF S, q, n

\* The incidents of a frame.
LEMMA IncidentsValid ==
  ASSUME SessionSound(session), SessionGood(session)
  PROVE  /\ CheckFaultFrame(PresentationFrame) /\ CheckEmergencyFrame(PresentationFrame)
         /\ FaultLanes(LanesTopology(session.world.network), PresentationFrame)
<1> DEFINE w == session.world
           f == PresentationFrame
           r == w.faults
           e == w.emergencies
           t == LanesTopology(w.network)
<1>1. /\ f.markers = MarkersOf[w.network] /\ f.groups.global.tick = w.tick
      /\ Items(f.groups.faults.active) = r /\ Items(f.groups.emergencies.active) = e /\ ToSet(Ids(f.vehicles)) = FleetIds(w)
  BY FrameParts
<1>2. Made(f)
  BY FrameMade
<1>3. w.network \in DOMAIN LanesOf
  BY DEF SessionSound, WorldSound
<1>4. MarkersOf[w.network].fault \/ MarkersOf[w.network].emergency => MarkersOf[w.network].incident
  BY <1>3, FrameStreamAssumption
<1>5. WorldGood(w) /\ t.lanes = LanesOf[w.network]
  BY DEF SessionGood, LanesTopology
<1>6. /\ r \in Seq(FaultRecord(w)) /\ \A k \in DOMAIN r : r[k].pod = NoID => r[k].lane \in LanesOf[w.network]
      /\ \A j, k \in DOMAIN r : j < k => r[j].serial < r[k].serial /\ (r[j].pod = r[k].pod => r[k].pod = NoID)
  BY <1>5 DEF WorldGood, FaultsGood
<1>7. /\ e \in Seq(EmergencyRecord(w)) /\ Len(e) <= 1 /\ \A k \in DOMAIN e : e[k].serial \notin Serials(w)
  BY <1>5 DEF WorldGood, EmergenciesGood
<1>8. w.tick \in Nat /\ w.serial \in Nat
  BY <1>5, GoodParts
<1>9. \A k \in DOMAIN r : r[k].serial \in 1 .. w.serial - 1 /\ r[k].pod \in FleetIds(w) \cup {NoID} /\ r[k].start \in 0 .. w.tick
  <2>1. \A k \in DOMAIN r : r[k] \in FaultRecord(w)
    BY <1>6
  <2> HIDE DEF r, w
  <2> QED
    BY <2>1 DEF FaultRecord
<1>10. \A k \in DOMAIN e : e[k].serial \in 1 .. w.serial - 1 /\ e[k].pod \in FleetIds(w) /\ e[k].start \in 0 .. w.tick /\ e[k].order \in DOMAIN Orders
  <2>1. \A k \in DOMAIN e : e[k] \in EmergencyRecord(w)
    BY <1>7
  <2> HIDE DEF e, w
  <2> QED
    BY <2>1 DEF EmergencyRecord
<1>11. DOMAIN r = 1 .. Len(r) /\ Len(r) \in Nat /\ DOMAIN e = 1 .. Len(e) /\ Len(e) \in Nat
  <2>1. r \in Seq(FaultRecord(w)) /\ e \in Seq(EmergencyRecord(w))
    BY <1>6, <1>7
  <2> HIDE DEF r, e
  <2> QED
    BY <2>1
<1>12. Serials(w) = {r[k].serial : k \in DOMAIN r}
  BY DEF Serials
<1>13. \A k \in DOMAIN Orders : k \in Nat /\ k > 0
  <2> DEFINE R == [from : Stations, to : Stations, shared : BOOLEAN]
  <2>1. Orders \in Seq(R)
    BY FrameStreamAssumption
  <2> HIDE DEF R
  <2>2. DOMAIN Orders = 1 .. Len(Orders) /\ Len(Orders) \in Nat
    BY <2>1
  <2> QED
    BY <2>2
<1> DEFINE ids == FleetIds(w)
           serials == Serials(w)
           lanes == LanesOf[w.network]
           serial == w.serial
           tick == w.tick
           m == MarkersOf[w.network]
<1>14. NoLane \notin lanes
  BY <1>3, FrameStreamAssumption
<1>15. /\ f.markers = m /\ f.groups.global.tick = tick /\ ToSet(Ids(f.vehicles)) = ids /\ serial \in Nat /\ tick \in Nat
       /\ t.lanes = lanes /\ serials = {r[k].serial : k \in DOMAIN r} /\ (m.fault \/ m.emergency => m.incident)
       /\ \A k \in DOMAIN r : r[k].serial \in 1 .. serial - 1 /\ r[k].pod \in ids \cup {NoID} /\ r[k].start \in 0 .. tick
                              /\ (r[k].pod = NoID => r[k].lane \in lanes)
       /\ \A k \in DOMAIN e : e[k].serial \in 1 .. serial - 1 /\ e[k].pod \in ids /\ e[k].start \in 0 .. tick /\ e[k].order \in DOMAIN Orders
                              /\ e[k].serial \notin serials
  BY <1>1, <1>4, <1>5, <1>6, <1>7, <1>8, <1>9, <1>10, <1>12
<1> HIDE DEF ids, serials, lanes, serial, tick, m, t, f, r, e, w
<1>16. SerialOrder(r)
  BY <1>6, <1>11, <1>15 DEF SerialOrder
<1>17. \A k \in DOMAIN r : IF r[k].pod = NoID THEN CheckDebris(r[k]) ELSE RecordOfVehicle(f, r, k)
  <2> SUFFICES ASSUME NEW k \in DOMAIN r PROVE IF r[k].pod = NoID THEN CheckDebris(r[k]) ELSE RecordOfVehicle(f, r, k)
    OBVIOUS
  <2>1. r[k].pod = NoID => CheckDebris(r[k])
    BY <1>14, <1>15 DEF CheckDebris
  <2>2. ASSUME r[k].pod # NoID PROVE RecordOfVehicle(f, r, k)
    <3>1. r[k].pod \in ids /\ r[k].start <= tick
      BY <1>15, <2>2
    <3>2. \A j \in 1 .. k - 1 : j \in DOMAIN r /\ j < k
      BY <1>11
    <3>3. \A j \in 1 .. k - 1 : r[j].pod # r[k].pod
      BY <1>6, <2>2, <3>2
    <3> QED
      BY <1>15, <3>1, <3>3 DEF RecordOfVehicle
  <2> QED
    BY <2>1, <2>2
<1>18. CheckFaultFrame(f)
  BY <1>1, <1>2, <1>15, <1>16, <1>17 DEF CheckFaultFrame, Made, NoIncidents
<1>19. SerialOrder(e)
  BY <1>7, <1>11 DEF SerialOrder
<1>20. \A k \in DOMAIN e : /\ e[k].serial > 0 /\ RecordOfVehicle(f, e, k) /\ e[k].order > 0
                           /\ \A j \in DOMAIN r : r[j].serial # e[k].serial
  <2> SUFFICES ASSUME NEW k \in DOMAIN e
               PROVE  /\ e[k].serial > 0 /\ RecordOfVehicle(f, e, k) /\ e[k].order > 0 /\ \A j \in DOMAIN r : r[j].serial # e[k].serial
    OBVIOUS
  <2>1. \A j \in 1 .. k - 1 : FALSE
    BY <1>7, <1>11
  <2>2. e[k].serial > 0 /\ e[k].pod \in ids /\ e[k].start <= tick /\ e[k].order \in DOMAIN Orders
    BY <1>15
  <2>3. RecordOfVehicle(f, e, k)
    BY <1>15, <2>1, <2>2 DEF RecordOfVehicle
  <2>4. \A j \in DOMAIN r : r[j].serial # e[k].serial
    BY <1>15
  <2> QED
    BY <1>13, <2>2, <2>3, <2>4
<1>21. CheckEmergencyFrame(f)
  BY <1>1, <1>2, <1>15, <1>19, <1>20 DEF CheckEmergencyFrame, Made, NoIncidents
<1>22. FaultLanes(t, f)
  BY <1>1, <1>15 DEF FaultLanes
<1> QED
  BY <1>18, <1>21, <1>22 DEF f, t, w

\* checkFrame, for each part of the frame of the session.
LEMMA FrameValid ==
  ASSUME SessionSound(session), SessionGood(session)
  PROVE  Valid(PresentationFrame, session.world.network)
<1> DEFINE w == session.world
           f == PresentationFrame
           ws == w.vehicles
           n == w.network
           m == MarkersOf[n]
           ids == FleetIds(w)
           serials == Serials(w)
           vs == f.vehicles
           rs == f.routes
           p == w.pending
           r == w.faults
<1>1. /\ DOMAIN vs = DOMAIN ws /\ Len(rs) = Len(vs)
      /\ \A i \in DOMAIN ws : vs[i] = VehicleFrame(ws[i]) /\ rs[i] = RouteFrame(ws[i])
      /\ f.markers = m /\ f.groups.incident = w.interrupted /\ Items(f.groups.pending) = p /\ Items(f.groups.faults.active) = r
      /\ f.berths = [b \in Berths |-> OccupantOf(w, b)] /\ ToSet(Ids(vs)) = ids
  BY FrameParts
<1>2. Made(f)
  BY FrameMade
<1>3. WorldGood(w) /\ n \in DOMAIN LanesOf /\ serials = {r[k].serial : k \in DOMAIN r}
  BY DEF SessionGood, SessionSound, WorldSound, Serials
<1>4. p \in Seq(TripsOf(n, NoID)) /\ \A i \in DOMAIN ws : VehicleGood(n, ws[i]) /\ ws[i].blockedBy \in serials \cup {0}
  BY <1>3 DEF WorldGood, FleetGood
<1>5. \A i \in DOMAIN ws : ws[i].id \in ids
  BY DEF FleetIds
<1>6. \A b : OccupantOf(w, b) \in {NoID} \cup ids
  <2> SUFFICES ASSUME NEW b PROVE OccupantOf(w, b) \in {NoID} \cup ids
    OBVIOUS
  <2> DEFINE at == {i \in DOMAIN ws : ws[i].station # NoID /\ Berth[ws[i].station] = b}
             c == CHOOSE i \in at : TRUE
  <2>1. OccupantOf(w, b) = IF at = {} THEN NoID ELSE ws[c].id
    BY DEF OccupantOf
  <2>2. at # {} => c \in at
    OBVIOUS
  <2>3. at \subseteq DOMAIN ws
    OBVIOUS
  <2> HIDE DEF at, c
  <2> QED
    BY <1>5, <2>1, <2>2, <2>3
<1>7. \A k \in DOMAIN p : OrderKnown(p[k]) /\ p[k].pod = NoID /\ (p[k].leg # NoID => m.incident)
  <2>1. p \in Seq(TripsOf(n, NoID))
    BY <1>4
  <2> HIDE DEF p, n
  <2> QED
    BY <2>1, TripKnown DEF m
<1>8. \A i \in DOMAIN ws :
        LET x == vs[i]
        IN  /\ VehicleValid(n, x, rs[i]) /\ (\A g : VehicleBoardings(g, x))
            /\ x.pod.id = ws[i].id /\ x.pod.blockedBy \in serials \cup {0}
            /\ x.pod.station \in Stations \cup {NoID} /\ x.pod.berth \in Berths \cup {NoID}
            /\ (\A k \in DOMAIN Items(x.riders) : /\ OrderKnown(Items(x.riders)[k]) /\ Items(x.riders)[k].pod = ws[i].id
                                                  /\ (Items(x.riders)[k].leg # NoID => m.incident))
            /\ (\A k \in DOMAIN Items(x.stops) : KnownStation(Items(x.stops)[k]))
            /\ (x.meta.operational # "service" => x.meta.withdrawn # {})
            /\ (~m.incident => x.meta.withdrawn = {} /\ x.meta.operational = "service")
  <2> TAKE i \in DOMAIN ws
  <2> DEFINE v == ws[i]
             x == VehicleFrame(v)
             y == RouteFrame(v)
  <2>1. VehicleGood(n, v) /\ v.blockedBy \in serials \cup {0} /\ n \in DOMAIN LanesOf
    BY <1>3, <1>4
  <2>2. vs[i] = x /\ rs[i] = y /\ v = ws[i]
    BY <1>1
  <2> HIDE DEF ws, vs, rs, serials, n, v
  <2>3. /\ VehicleValid(n, x, y) /\ (\A g : VehicleBoardings(g, x))
        /\ x.pod.id = v.id /\ x.pod.blockedBy = v.blockedBy
        /\ x.pod.station \in Stations \cup {NoID} /\ x.pod.berth \in Berths \cup {NoID}
        /\ (\A k \in DOMAIN Items(x.riders) : /\ OrderKnown(Items(x.riders)[k]) /\ Items(x.riders)[k].pod = v.id
                                              /\ (Items(x.riders)[k].leg # NoID => MarkersOf[n].incident))
        /\ (\A k \in DOMAIN Items(x.stops) : KnownStation(Items(x.stops)[k]))
        /\ (x.meta.operational # "service" => x.meta.withdrawn # {})
        /\ (~MarkersOf[n].incident => x.meta.withdrawn = {} /\ x.meta.operational = "service")
    BY <2>1, VehicleFrameValid
  <2> HIDE DEF x, y
  <2> QED
    BY <2>1, <2>2, <2>3 DEF m
<1> HIDE DEF w, f, ws, n, m, ids, serials, vs, rs, p, r
<1>9. CheckIncidentFrame(f)
  <2>1. CASE m.incident
    BY <1>1, <1>8, <2>1 DEF CheckIncidentFrame, vs
  <2>2. CASE ~m.incident
    <3>1. f.groups.incident = 0
      BY <1>1, <1>2, <2>2 DEF Made
    <3>2. \A k \in DOMAIN p : p[k].leg = NoID
      BY <1>7, <2>2
    <3>3. \A i \in DOMAIN vs : /\ vs[i].meta.withdrawn = {} /\ vs[i].meta.operational = "service"
                               /\ \A k \in DOMAIN Items(vs[i].riders) : Items(vs[i].riders)[k].leg = NoID
      BY <1>1, <1>8, <2>2
    <3> QED
      BY <1>1, <2>2, <3>1, <3>2, <3>3 DEF CheckIncidentFrame, vs
  <2> QED
    BY <2>1, <2>2
<1>10. Cardinality(ToSet(Ids(vs))) = Len(vs)
  BY <1>2, IdsCounted DEF Made, vs
<1>11. \A k \in DOMAIN p : ValidOrder(f, p[k])
  BY <1>7 DEF ValidOrder, OrderKnown
<1>12. \A i \in DOMAIN vs : /\ VehicleBoardings(f, vs[i]) /\ vs[i].pod.station \in Stations \cup {NoID} /\ vs[i].pod.berth \in Berths \cup {NoID}
                            /\ vs[i].pod.blockedBy \in serials \cup {0}
                            /\ \A k \in DOMAIN Items(vs[i].riders) : ValidOrder(f, Items(vs[i].riders)[k])
                            /\ \A k \in DOMAIN Items(vs[i].stops) : KnownStation(Items(vs[i].stops)[k])
  <2> SUFFICES ASSUME NEW i \in DOMAIN vs
               PROVE  /\ VehicleBoardings(f, vs[i]) /\ vs[i].pod.station \in Stations \cup {NoID} /\ vs[i].pod.berth \in Berths \cup {NoID}
                      /\ vs[i].pod.blockedBy \in serials \cup {0}
                      /\ \A k \in DOMAIN Items(vs[i].riders) : ValidOrder(f, Items(vs[i].riders)[k])
                      /\ \A k \in DOMAIN Items(vs[i].stops) : KnownStation(Items(vs[i].stops)[k])
    OBVIOUS
  <2>1. i \in DOMAIN ws /\ ws[i].id \in ids
    BY <1>1, <1>5
  <2>2. \A k \in DOMAIN Items(vs[i].riders) : OrderKnown(Items(vs[i].riders)[k]) /\ Items(vs[i].riders)[k].pod = ws[i].id
    BY <1>8, <2>1
  <2>3. \A k \in DOMAIN Items(vs[i].riders) : ValidOrder(f, Items(vs[i].riders)[k])
    BY <1>1, <2>1, <2>2 DEF ValidOrder, OrderKnown, vs
  <2> QED
    BY <1>8, <2>1, <2>3
<1>13. \A b \in DOMAIN f.berths : b \in Berths /\ f.berths[b] \in {NoID} \cup ids
  BY <1>1, <1>6
<1>14. References(f)
  BY <1>1, <1>3, <1>10, <1>11, <1>12, <1>13 DEF References, vs
<1>15. CheckFaultFrame(f) /\ CheckEmergencyFrame(f) /\ FaultLanes(LanesTopology(n), f)
  BY IncidentsValid DEF f, n, w
<1>16. \A i \in DOMAIN vs : VehicleValid(n, vs[i], rs[i])
  BY <1>1, <1>8
<1>17. Valid(f, n)
  BY <1>1, <1>9, <1>14, <1>15, <1>16 DEF Valid, vs, rs
<1> QED
  BY <1>17 DEF f, n, w

\* The checks see what a client knows.
LEMMA MirrorsValid ==
  ASSUME NEW f, NEW g, NEW network, Mirrors(f, g), Made(g), Valid(g, network)
  PROVE  Valid(f, network)
<1> DEFINE vs == f.vehicles
           ws == g.vehicles
           rs == f.routes
           D == DOMAIN ws
<1>1. /\ f.markers = g.markers /\ f.groups = g.groups /\ f.berths = g.berths /\ f.routes = g.routes /\ DOMAIN vs = DOMAIN ws
      /\ \A i \in D : SameVehicle(vs[i], ws[i])
      /\ Len(ws) \in Nat /\ D = 1 .. Len(ws) /\ vs = [i \in DOMAIN vs |-> vs[i]]
  BY DEF Mirrors, Made, IsFrame
<1>2. \A i \in D : /\ vs[i].pod = ws[i].pod /\ vs[i].boardings = ws[i].boardings /\ vs[i].meta = ws[i].meta
                   /\ Items(vs[i].riders) = Items(ws[i].riders) /\ Items(vs[i].stops) = Items(ws[i].stops)
  <2> SUFFICES ASSUME NEW i \in D
               PROVE  /\ vs[i].pod = ws[i].pod /\ vs[i].boardings = ws[i].boardings /\ vs[i].meta = ws[i].meta
                      /\ Items(vs[i].riders) = Items(ws[i].riders) /\ Items(vs[i].stops) = Items(ws[i].stops)
    OBVIOUS
  <2>1. SameVehicle(vs[i], ws[i])
    BY <1>1
  <2> HIDE DEF vs, ws
  <2>2. /\ vs[i].pod = ws[i].pod /\ vs[i].boardings = ws[i].boardings /\ vs[i].meta = ws[i].meta
        /\ Omitted(vs[i].riders) = Omitted(ws[i].riders) /\ Omitted(vs[i].stops) = Omitted(ws[i].stops)
    BY <2>1 DEF SameVehicle
  <2>3. \A s : Items(Omitted(s)) = Items(s)
    BY OmittedItems
  <2> QED
    BY <2>2, <2>3
<1>3. Len(vs) = Len(ws)
  <2> DEFINE N == Len(ws)
             x(i) == vs[i]
  <2>1. N \in Nat /\ vs = [i \in 1 .. N |-> x(i)]
    BY <1>1
  <2> HIDE DEF N, x, vs
  <2>2. vs \in Seq({x(i) : i \in 1 .. N}) /\ Len(vs) = N
    BY <2>1
  <2> QED
    BY <2>2 DEF N
<1>4. Ids(vs) = Ids(ws)
  <2>1. Ids(vs) = [i \in D |-> vs[i].pod.id] /\ Ids(ws) = [i \in D |-> ws[i].pod.id]
    BY <1>1 DEF Ids
  <2> HIDE DEF vs, ws, D
  <2>2. \A i \in D : vs[i].pod.id = ws[i].pod.id
    BY <1>2
  <2> QED
    BY <2>1, <2>2
<1>5. /\ Len(g.routes) = Len(ws) /\ CheckIncidentFrame(g) /\ CheckFaultFrame(g) /\ CheckEmergencyFrame(g) /\ References(g)
      /\ FaultLanes(LanesTopology(network), g) /\ \A i \in D : VehicleValid(network, ws[i], rs[i])
  BY <1>1 DEF Valid
<1>6. f.vehicles = vs /\ g.vehicles = ws /\ f.routes = rs /\ DOMAIN vs = D /\ D = DOMAIN ws
  BY <1>1
<1> HIDE DEF vs, ws, rs, D
<1>7. CheckIncidentFrame(f)
  <2>1. CASE g.markers.incident
    <3>1. \A i \in D : ws[i].meta.operational # "service" => ws[i].meta.withdrawn # {}
      BY <1>5, <1>6, <2>1 DEF CheckIncidentFrame
    <3>2. \A i \in D : vs[i].meta.operational # "service" => vs[i].meta.withdrawn # {}
      BY <1>2, <3>1
    <3> QED
      BY <1>1, <1>6, <2>1, <3>2 DEF CheckIncidentFrame
  <2>2. CASE ~g.markers.incident
    <3>1. /\ g.groups.incident = 0 /\ \A k \in DOMAIN Items(g.groups.pending) : Items(g.groups.pending)[k].leg = NoID
          /\ \A i \in D : /\ ws[i].meta.withdrawn = {} /\ ws[i].meta.operational = "service"
                          /\ \A k \in DOMAIN Items(ws[i].riders) : Items(ws[i].riders)[k].leg = NoID
      BY <1>5, <1>6, <2>2 DEF CheckIncidentFrame
    <3>2. \A i \in D : /\ vs[i].meta.withdrawn = {} /\ vs[i].meta.operational = "service"
                        /\ \A k \in DOMAIN Items(vs[i].riders) : Items(vs[i].riders)[k].leg = NoID
      BY <1>2, <3>1
    <3> QED
      BY <1>1, <1>6, <2>2, <3>1, <3>2 DEF CheckIncidentFrame
  <2> QED
    BY <2>1, <2>2
<1>8. CheckFaultFrame(f)
  BY <1>1, <1>4, <1>5, <1>6 DEF CheckFaultFrame, RecordOfVehicle
<1>9. CheckEmergencyFrame(f)
  BY <1>1, <1>4, <1>5, <1>6 DEF CheckEmergencyFrame, RecordOfVehicle
<1>10. FaultLanes(LanesTopology(network), f)
  BY <1>1, <1>5 DEF FaultLanes
<1>11. \A o : ValidOrder(g, o) => ValidOrder(f, o)
  BY <1>4, <1>6 DEF ValidOrder
<1>12. \A i \in D : ValidateVehicleBoardings(ws[i]) => ValidateVehicleBoardings(vs[i])
  BY <1>2 DEF ValidateVehicleBoardings
<1>13. \A i \in D : VehicleBoardings(g, ws[i]) => VehicleBoardings(f, vs[i])
  BY <1>2, <1>12 DEF VehicleBoardings
<1>14. References(f)
  <2>1. Cardinality(ToSet(Ids(vs))) = Len(vs)
    BY <1>3, <1>4, <1>5, <1>6 DEF References
  <2>2. \A k \in DOMAIN Items(f.groups.pending) : ValidOrder(f, Items(f.groups.pending)[k])
    BY <1>1, <1>5, <1>11 DEF References
  <2> DEFINE serials == {Items(g.groups.faults.active)[k].serial : k \in DOMAIN Items(g.groups.faults.active)}
  <2>3. \A i \in D :
               /\ VehicleBoardings(g, ws[i]) /\ ws[i].pod.station \in Stations \cup {NoID} /\ ws[i].pod.berth \in Berths \cup {NoID}
               /\ ws[i].pod.blockedBy \in serials \cup {0}
               /\ (\A k \in DOMAIN Items(ws[i].riders) : ValidOrder(g, Items(ws[i].riders)[k]))
               /\ (\A k \in DOMAIN Items(ws[i].stops) : KnownStation(Items(ws[i].stops)[k]))
    BY <1>5, <1>6 DEF References
  <2> HIDE DEF serials
  <2>4. \A i \in D :
               /\ VehicleBoardings(f, vs[i]) /\ vs[i].pod.station \in Stations \cup {NoID} /\ vs[i].pod.berth \in Berths \cup {NoID}
               /\ vs[i].pod.blockedBy \in serials \cup {0}
               /\ (\A k \in DOMAIN Items(vs[i].riders) : ValidOrder(f, Items(vs[i].riders)[k]))
               /\ (\A k \in DOMAIN Items(vs[i].stops) : KnownStation(Items(vs[i].stops)[k]))
    BY <1>2, <1>11, <1>13, <2>3
  <2>5. \A b \in DOMAIN f.berths : b \in Berths /\ f.berths[b] \in {NoID} \cup ToSet(Ids(vs))
    BY <1>1, <1>4, <1>5, <1>6 DEF References
  <2>6. serials = {Items(f.groups.faults.active)[k].serial : k \in DOMAIN Items(f.groups.faults.active)}
    BY <1>1 DEF serials
  <2> QED
    BY <1>6, <2>1, <2>2, <2>4, <2>5, <2>6 DEF References
<1>15. \A i \in D : VehicleValid(network, vs[i], rs[i])
  BY <1>2, <1>5, <1>12 DEF VehicleValid
<1> QED
  BY <1>1, <1>3, <1>5, <1>6, <1>7, <1>8, <1>9, <1>10, <1>14, <1>15 DEF Valid

-----------------------------------------------------------------------------
(***************************************************************************)
(* The delta of two frames fits what mirrors the first one.                *)
(***************************************************************************)
\* PairedRiders: riders and records come together once either vehicle has records.
LEMMA ItemPairs ==
  ASSUME NEW a, Omitted(a.boardings) = a.boardings, NEW b, Omitted(b.boardings) = b.boardings, NEW r, NEW s, NEW item,
         item = VehicleDelta(a, b, r, s)
  PROVE  /\ Items(a.boardings) # <<>> \/ (\E slice \in item.boardings : Items(slice) # <<>>) => (item.riders = {}) = (item.boardings = {})
         /\ Nil \notin item.boardings
<1> DEFINE moved == a.pod # b.pod /\ SameStationaryPod(a.pod, b.pod)
           plain == [id |-> b.pod.id, pod |-> IF moved THEN {} ELSE Changed(a.pod, b.pod),
                     motion |-> IF moved THEN {MotionOf(b.pod)} ELSE {}, route |-> Changed(r, s),
                     riders |-> Changed(a.riders, b.riders), boardings |-> Changed(a.boardings, b.boardings),
                     stops |-> Changed(a.stops, b.stops), meta |-> Changed(a.meta, b.meta)]
           records == Items(a.boardings) # <<>> \/ Items(b.boardings) # <<>>
<1>1. plain.riders = Changed(a.riders, b.riders) /\ plain.boardings = Changed(a.boardings, b.boardings)
      /\ "riders" \in DOMAIN plain /\ "boardings" \in DOMAIN plain
  OBVIOUS
<1>2. item = PairedRiders(plain, a, b)
  BY DEF VehicleDelta
<1> HIDE DEF plain
<1>3. Items(Nil) = <<>> /\ Empty # Nil /\ \A x : Items({x}) = x
  BY OmittedItems DEF Empty, Nil
<1>4. Items(a.boardings) = <<>> => a.boardings = Nil
  BY OmittedItems
<1>5. Items(b.boardings) = <<>> => b.boardings = Nil
  BY OmittedItems
<1>6. CASE records /\ (plain.riders # {} \/ plain.boardings # {})
  <2>1. item = [plain EXCEPT !.riders = {b.riders}, !.boardings = IF Items(b.boardings) = <<>> THEN {Empty} ELSE {b.boardings}]
    BY <1>2, <1>6 DEF PairedRiders
  <2>2. item.riders = {b.riders} /\ item.boardings = IF Items(b.boardings) = <<>> THEN {Empty} ELSE {b.boardings}
    BY <1>1, <2>1
  <2>3. Nil \notin item.boardings /\ item.boardings # {} /\ item.riders # {}
    BY <1>3, <2>2
  <2> QED
    BY <2>3
<1>7. CASE ~records
  <2>1. item = plain
    BY <1>2, <1>7 DEF PairedRiders
  <2>2. item.boardings = {} /\ Items(a.boardings) = <<>>
    BY <1>1, <1>4, <1>5, <1>7, <2>1 DEF Changed
  <2> QED
    BY <2>2
<1>8. CASE plain.riders = {} /\ plain.boardings = {}
  <2>1. item = plain
    BY <1>2, <1>8 DEF PairedRiders
  <2> QED
    BY <1>8, <2>1
<1> QED
  BY <1>6, <1>7, <1>8

\* The items of a delta: each is the delta of one vehicle, and no vehicle has two.
LEMMA DeltaEntries ==
  ASSUME NEW a, NEW b, Made(b)
  PROVE  LET w == MakeDelta(a, b).vehicles
         IN  /\ \A k, j \in DOMAIN w : k # j => w[k].id # w[j].id
             /\ \A k \in DOMAIN w : \E i \in DOMAIN b.vehicles :
                    /\ w[k] = VehicleDelta(a.vehicles[i], b.vehicles[i], a.routes[i], b.routes[i])
                    /\ w[k].id = b.vehicles[i].pod.id
<1> DEFINE items == [k \in DOMAIN b.vehicles |-> VehicleDelta(a.vehicles[k], b.vehicles[k], a.routes[k], b.routes[k])]
           set == {k \in DOMAIN items : Changes(items[k])}
           T == {items[k] : k \in DOMAIN items}
           w == Selected(items, set)
           id(k) == b.vehicles[k].pod.id
<1>1. MakeDelta(a, b).vehicles = w
  BY DEF MakeDelta
<1>2. DOMAIN items = DOMAIN b.vehicles /\ items \in Seq(T) /\ set \in SUBSET DOMAIN items
  BY DEF Made
<1>3. \A k \in DOMAIN items : items[k].id = id(k) /\ items[k] = VehicleDelta(a.vehicles[k], b.vehicles[k], a.routes[k], b.routes[k])
  <2> SUFFICES ASSUME NEW k \in DOMAIN items
               PROVE items[k].id = id(k) /\ items[k] = VehicleDelta(a.vehicles[k], b.vehicles[k], a.routes[k], b.routes[k])
    OBVIOUS
  <2>1. items[k] = VehicleDelta(a.vehicles[k], b.vehicles[k], a.routes[k], b.routes[k])
    BY <1>2
  <2> HIDE DEF items
  <2> QED
    BY <2>1, ItemParts
<1>4. \A k, i \in DOMAIN items : id(k) = id(i) => k = i
  BY <1>2 DEF Made
<1> HIDE DEF items, set, T
<1>5. PICK f : Picks(f, w, items, set)
  BY <1>2, SelectedEntries
<1> HIDE DEF w, id
<1>6. \A j \in DOMAIN w : f[j] \in DOMAIN items /\ w[j] = items[f[j]] /\ w[j].id = id(f[j])
  BY <1>2, <1>3, <1>5 DEF Picks
<1>7. \A k, j \in DOMAIN w : k # j => w[k].id # w[j].id
  BY <1>4, <1>5, <1>6 DEF Picks
<1>8. \A k \in DOMAIN w : \E i \in DOMAIN b.vehicles :
         w[k] = VehicleDelta(a.vehicles[i], b.vehicles[i], a.routes[i], b.routes[i]) /\ w[k].id = id(i)
  BY <1>2, <1>3, <1>6
<1> QED
  BY <1>1, <1>7, <1>8 DEF id

\* checkDelta: the delta of the publisher fits the frame of the client.
LEMMA DeltaFitsMirror ==
  ASSUME NEW a, Made(a), NEW b, Made(b), a.markers = b.markers, SameChain(a, b), NEW f, Mirrors(f, a),
         NEW e, e.content = MakeDelta(a, b), NEW stream, NEW sequence, e.stream = stream, e.base = sequence, e.sequence = sequence + 1
  PROVE  DeltaFits(f, stream, sequence, e)
<1> DEFINE c == e.content
           w == c.vehicles
<1>1. DOMAIN c.groups \subseteq GroupNames(f)
  <2>1. DOMAIN c.groups \subseteq GroupNames(b)
    BY DEF MakeDelta
  <2>2. GroupNames(f) = GroupNames(b)
    BY DEF GroupNames, Mirrors
  <2> QED
    BY <2>1, <2>2
<1>2. DOMAIN c.berths \subseteq DOMAIN f.berths
  <2>1. DOMAIN c.berths \subseteq DOMAIN b.berths
    BY DEF MakeDelta
  <2>2. DOMAIN b.berths = Berths /\ DOMAIN f.berths = Berths
    BY DEF Made, Mirrors, IsFrame
  <2> QED
    BY <2>1, <2>2
<1>3. /\ \A k, j \in DOMAIN w : k # j => w[k].id # w[j].id
      /\ \A k \in DOMAIN w : \E i \in DOMAIN b.vehicles :
             /\ w[k] = VehicleDelta(a.vehicles[i], b.vehicles[i], a.routes[i], b.routes[i])
             /\ w[k].id = b.vehicles[i].pod.id
  BY DeltaEntries
<1>4. DOMAIN f.vehicles = DOMAIN a.vehicles /\ DOMAIN a.vehicles = DOMAIN b.vehicles
      /\ \A i \in DOMAIN b.vehicles : a.vehicles[i].pod.id = b.vehicles[i].pod.id
  <2>1. Ids(a.vehicles) = Ids(b.vehicles)
    BY DEF SameChain
  <2> QED
    BY <2>1 DEF Ids, Mirrors
<1> HIDE DEF w
<1>5. ASSUME NEW k \in DOMAIN w
      PROVE  \E i \in DOMAIN f.vehicles : f.vehicles[i].pod.id = w[k].id /\ VehicleDeltaFits(f.vehicles[i], w[k])
  <2>1. PICK i \in DOMAIN b.vehicles : /\ w[k] = VehicleDelta(a.vehicles[i], b.vehicles[i], a.routes[i], b.routes[i])
                                       /\ w[k].id = b.vehicles[i].pod.id
    BY <1>3, <1>5
  <2> DEFINE v == f.vehicles[i]
             x == a.vehicles[i]
             y == b.vehicles[i]
             item == w[k]
             r == a.routes[i]
             s == b.routes[i]
  <2>2. item = VehicleDelta(x, y, r, s) /\ item.id = y.pod.id /\ x.pod.id = y.pod.id /\ i \in DOMAIN f.vehicles
    BY <1>4, <2>1
  <2>3. SameVehicle(v, x) /\ Omitted(x.boardings) = x.boardings /\ Omitted(y.boardings) = y.boardings
    BY <1>4 DEF Mirrors, Made
  <2> HIDE DEF v, x, y, item, r, s
  <2>4. /\ Items(x.boardings) # <<>> \/ (\E slice \in item.boardings : Items(slice) # <<>>) => (item.riders = {}) = (item.boardings = {})
        /\ Nil \notin item.boardings
    BY <2>2, <2>3, ItemPairs
  <2>5. v.pod = x.pod /\ v.boardings = x.boardings
    BY <2>3 DEF SameVehicle
  <2>6. \/ item.pod = Changed(x.pod, y.pod) /\ item.motion = {}
        \/ item.pod = {} /\ item.motion = {MotionOf(y.pod)}
    BY <2>2, ItemParts
  <2>7. \A pod \in Changed(x.pod, y.pod) : pod = y.pod
    BY DEF Changed
  <2>8. (item.motion = {} \/ item.pod = {}) /\ \A pod \in item.pod : pod.id = item.id
    BY <2>2, <2>6, <2>7
  <2>9. BoardingsDeltaFits(v, item)
    BY <2>4, <2>5 DEF BoardingsDeltaFits
  <2>10. v.pod.id = item.id /\ VehicleDeltaFits(v, item)
    BY <2>2, <2>5, <2>8, <2>9 DEF VehicleDeltaFits
  <2> QED
    BY <2>2, <2>10 DEF v, item
<1> QED
  BY <1>1, <1>2, <1>3, <1>5 DEF DeltaFits, w

\* Frames that mirror the frames of a chain are one.
LEMMA MirrorsChain ==
  ASSUME NEW a, Made(a), NEW b, Made(b), SameChain(a, b), NEW f, Mirrors(f, a), NEW g, Mirrors(g, b)
  PROVE  SameChain(f, g)
<1>1. \A x, y : Mirrors(x, y) => Ids(x.vehicles) = Ids(y.vehicles)
  <2> SUFFICES ASSUME NEW x, NEW y, Mirrors(x, y) PROVE Ids(x.vehicles) = Ids(y.vehicles)
    OBVIOUS
  <2>1. DOMAIN x.vehicles = DOMAIN y.vehicles /\ \A i \in DOMAIN y.vehicles : x.vehicles[i].pod.id = y.vehicles[i].pod.id
    BY DEF Mirrors, SameVehicle
  <2> QED
    BY <2>1 DEF Ids
<1>2. Ids(f.vehicles) = Ids(g.vehicles)
  BY <1>1 DEF SameChain
<1>3. f.source = a.source /\ f.markers = a.markers /\ f.routes = a.routes /\ f.berths = a.berths
      /\ g.source = b.source /\ g.markers = b.markers /\ g.routes = b.routes /\ g.berths = b.berths
  BY DEF Mirrors
<1> QED
  BY <1>2, <1>3 DEF SameChain, SourceOf

-----------------------------------------------------------------------------
(***************************************************************************)
(* The publications under way.                                             *)
(***************************************************************************)
\* A frame of a project of the session.
OfProject(f, nets) ==
    "project" \in DOMAIN f.source /\ f.source.project \in 1 .. Len(nets) /\ f.markers = MarkersOf[nets[f.source.project]]
Published(f, nets) == Made(f) /\ OfProject(f, nets) /\ Valid(f, nets[f.source.project])

CarriesFull(e, b) == e.kind = "full" /\ e.content = FullWire(b)
CarriesDelta(e, a, b) == e.kind = "delta" /\ e.content = MakeDelta(a, b) /\ SameChain(a, b) /\ a.markers = b.markers

\* A client without a frame starts the chain with the first envelope under way.
First(c) == IF c.frame = {} THEN 1 ELSE 0
At(w, c, k) == IF k = 0 THEN c ELSE w[k]
Before(a, b) == a.stream < b.stream \/ (a.stream = b.stream /\ a.sequence < b.sequence)

\* The frames g, of the client and of each envelope under way: each envelope carries its frame, alone or as a delta of the frame
\* before it, their positions increase, and the last one is the frame of the publisher.
Links(g, w, c, nets) ==
    /\ \A k \in First(c) .. Len(w) : Published(g[k], nets) /\ At(w, c, k).stream \in Nat /\ At(w, c, k).sequence \in Nat
    /\ \A k \in 1 .. Len(w) : /\ w[k].source = g[k].source
                              /\ CarriesFull(w[k], g[k]) \/ (k > First(c) /\ CarriesDelta(w[k], g[k - 1], g[k]))
    /\ \A j, k \in First(c) .. Len(w) : j < k => Before(At(w, c, j), At(w, c, k))
    /\ c.frame = {} \/ \E f : c.frame = {f} /\ Mirrors(f, g[0])
EndsWith(g, w, c, p) ==
    /\ First(c) <= Len(w) => p.frame = {g[Len(w)]} /\ p.stream = At(w, c, Len(w)).stream /\ p.sequence = At(w, c, Len(w)).sequence
    /\ c.open /\ First(c) > Len(w) => p.sequence = 0
Asked(g, w, c) == c.asking = {} \/ \E f : c.asking = {f} /\ w # <<>> /\ Mirrors(f, g[1])
Chain(g, w, c, p, nets) == Links(g, w, c, nets) /\ EndsWith(g, w, c, p) /\ Asked(g, w, c)

PublisherFields == {"frame", "stream", "sequence"}
PublisherSound(p, nets) ==
    /\ DOMAIN p = PublisherFields /\ p.stream \in Nat /\ p.sequence \in Nat
    /\ \/ p.frame = {} /\ p.sequence = 0
       \/ p.sequence # 0 /\ \E f : p.frame = {f} /\ Published(f, nets)

ClientFields == {"open", "frame", "stream", "sequence", "assembler", "order", "asking"}
ConnectionSound(w, c, p, nets) ==
    /\ \E S : w \in Seq(S)
    /\ DOMAIN c = ClientFields /\ (~c.open => c = Closed /\ w = <<>>)
    /\ \E g : Chain(g, w, c, p, nets)

\* Frames keep their project when another one is added.
LEMMA PublishedStays ==
  ASSUME NEW nets, NEW new, Extends(nets, new), Len(nets) \in Nat, Len(new) \in Nat, NEW f, Published(f, nets)
  PROVE  Published(f, new)
BY DEF Published, OfProject, Extends

\* A longer list of networks leaves the frames of the earlier projects as they were.
LEMMA ChainStays ==
  ASSUME NEW nets, NEW new, Extends(nets, new), Len(nets) \in Nat, Len(new) \in Nat, NEW w, NEW c, NEW p,
         PublisherSound(p, nets), ConnectionSound(w, c, p, nets)
  PROVE  PublisherSound(p, new) /\ ConnectionSound(w, c, p, new)
<1>1. PublisherSound(p, new)
  BY PublishedStays DEF PublisherSound
<1>2. PICK g : Chain(g, w, c, p, nets)
  BY DEF ConnectionSound
<1>3. \A k \in First(c) .. Len(w) : Published(g[k], new)
  BY <1>2, PublishedStays DEF Chain, Links
<1>4. Links(g, w, c, new)
  BY <1>2, <1>3 DEF Chain, Links
<1>5. Chain(g, w, c, p, new)
  BY <1>2, <1>4 DEF Chain
<1> QED
  BY <1>1, <1>5 DEF ConnectionSound

\* A client that is not connected has no chain.
LEMMA ClosedSound ==
  ASSUME NEW p, NEW nets
  PROVE  ConnectionSound(<<>>, Closed, p, nets)
<1>1. DOMAIN Closed = ClientFields /\ Closed.frame = {} /\ Closed.open = FALSE /\ Closed.asking = {}
  BY DEF Closed, ClientFields
<1>2. First(Closed) = 1 /\ Len(<<>>) = 0
  BY <1>1 DEF First
<1>3. Links(<<>>, <<>>, Closed, nets)
  BY <1>1, <1>2 DEF Links
<1>4. EndsWith(<<>>, <<>>, Closed, p)
  BY <1>1, <1>2 DEF EndsWith
<1>5. Chain(<<>>, <<>>, Closed, p, nets)
  BY <1>1, <1>3, <1>4 DEF Chain, Asked
<1>6. <<>> \in Seq({})
  OBVIOUS
<1> QED
  BY <1>1, <1>5, <1>6 DEF ConnectionSound

\* A new connection, with the full frame of the last publication if there is one.
LEMMA ConnectSound ==
  ASSUME NEW p, NEW nets, PublisherSound(p, nets), NEW order, NEW c, c = [Closed EXCEPT !.open = TRUE, !.order = order],
         NEW w, w = IF p.sequence = 0 THEN <<>> ELSE <<FullEnvelope(The(p.frame), p.stream, p.sequence)>>
  PROVE  ConnectionSound(w, c, p, nets)
<1>1. DOMAIN c = ClientFields /\ c.frame = {} /\ c.open = TRUE /\ c.asking = {}
  BY DEF Closed, ClientFields
<1>2. First(c) = 1
  BY <1>1 DEF First
<1>3. CASE p.sequence = 0
  <2>1. w = <<>> /\ Len(w) = 0 /\ w \in Seq({})
    BY <1>3
  <2>2. Links(<<>>, w, c, nets) /\ EndsWith(<<>>, w, c, p)
    BY <1>1, <1>2, <1>3, <2>1 DEF Links, EndsWith
  <2> QED
    BY <1>1, <2>1, <2>2 DEF ConnectionSound, Chain, Asked
<1>4. CASE p.sequence # 0
  <2>1. PICK f : p.frame = {f} /\ Published(f, nets)
    BY <1>4 DEF PublisherSound
  <2> DEFINE e == FullEnvelope(f, p.stream, p.sequence)
             g == <<f>>
  <2>2. w = <<e>>
    BY <1>4, <2>1, TheOf
  <2>3. e.kind = "full" /\ e.content = FullWire(f) /\ e.source = f.source /\ e.stream = p.stream /\ e.sequence = p.sequence
    BY DEF FullEnvelope, Envelope, SourceOf
  <2> HIDE DEF e
  <2>4. Len(w) = 1 /\ w[1] = e /\ g[1] = f /\ w \in Seq({e})
    <3>1. w \in Seq({e}) /\ Len(w) = 1 /\ w[1] = e
      <4>1. \A x : <<x>> \in Seq({x}) /\ Len(<<x>>) = 1 /\ <<x>>[1] = x
        OBVIOUS
      <4> QED
        BY <2>2, <4>1
    <3>2. g[1] = f
      OBVIOUS
    <3> QED
      BY <3>1, <3>2
  <2> HIDE DEF g
  <2>5. At(w, c, 1) = e
    BY <2>4 DEF At
  <2>6. p.stream \in Nat /\ p.sequence \in Nat
    BY DEF PublisherSound
  <2>7. Links(g, w, c, nets)
    <3>1. CarriesFull(w[1], g[1])
      BY <2>3, <2>4 DEF CarriesFull
    <3>2. \A k : k \in First(c) .. Len(w) => k = 1
      BY <1>2, <2>4
    <3>3. \A k : k \in 1 .. Len(w) => k = 1
      BY <2>4
    <3>4. \A k \in First(c) .. Len(w) : Published(g[k], nets) /\ At(w, c, k).stream \in Nat /\ At(w, c, k).sequence \in Nat
      BY <2>1, <2>3, <2>4, <2>5, <2>6, <3>2
    <3>5. \A j, k \in First(c) .. Len(w) : ~(j < k)
      BY <3>2
    <3>6. \A k \in 1 .. Len(w) : w[k].source = g[k].source /\ CarriesFull(w[k], g[k])
      BY <2>3, <2>4, <3>1, <3>3
    <3> QED
      BY <1>1, <3>4, <3>5, <3>6 DEF Links
  <2>8. EndsWith(g, w, c, p)
    BY <1>2, <2>1, <2>3, <2>4, <2>5 DEF EndsWith
  <2> QED
    BY <1>1, <2>4, <2>7, <2>8 DEF ConnectionSound, Chain, Asked
<1> QED
  BY <1>3, <1>4

\* A frame of the same chain has the same project.
LEMMA SameProject ==
  ASSUME NEW nets, NEW a, Published(a, nets), NEW b, Published(b, nets), SameChain(a, b)
  PROVE  a.markers = b.markers
<1> DEFINE x == a.source
           y == b.source
<1>1. [x EXCEPT !.revision = 0] = [y EXCEPT !.revision = 0] /\ "project" \in DOMAIN x /\ "project" \in DOMAIN y
  BY DEF SameChain, SourceOf, Published, OfProject
<1> HIDE DEF x, y
<1>2. x.project = [x EXCEPT !.revision = 0].project /\ y.project = [y EXCEPT !.revision = 0].project
  BY <1>1
<1>3. x.project = y.project
  BY <1>1, <1>2
<1> QED
  BY <1>3 DEF Published, OfProject, x, y

\* A publication goes on the wire as a full frame, or as a delta of the last one.
LEMMA PublishedChain ==
  ASSUME NEW nets, NEW w, NEW c, NEW p, PublisherSound(p, nets), ConnectionSound(w, c, p, nets), c.open,
         NEW frame, Published(frame, nets), NEW q, NEW e,
         q.frame = {frame}, q.stream \in Nat, q.sequence \in Nat \ {0}, Before(p, q),
         e.source = frame.source, e.stream = q.stream, e.sequence = q.sequence,
         CarriesFull(e, frame) \/ (p.sequence # 0 /\ SameChain(The(p.frame), frame) /\ e.kind = "delta" /\ e.content = MakeDelta(The(p.frame), frame))
  PROVE  ConnectionSound(Append(w, e), c, q, nets)
<1> DEFINE n == Len(w)
           v == Append(w, e)
<1>1. PICK g : Chain(g, w, c, p, nets)
  BY DEF ConnectionSound
<1>2. PICK S : w \in Seq(S)
  BY DEF ConnectionSound
<1>3. n \in Nat /\ Len(v) = n + 1 /\ v[n + 1] = e /\ (\A k \in 1 .. n : v[k] = w[k]) /\ v \in Seq(S \cup {e}) /\ v # <<>>
  <2>1. w \in Seq(S \cup {e}) /\ e \in S \cup {e}
    BY <1>2
  <2> QED
    BY <2>1
<1> DEFINE h == [k \in 0 .. n + 1 |-> IF k = n + 1 THEN frame ELSE g[k]]
<1>4. h[n + 1] = frame /\ \A k \in 0 .. n : h[k] = g[k]
  BY <1>3
<1>5. First(c) \in {0, 1}
  BY DEF First
<1> HIDE DEF h, v, n
<1>6. At(v, c, n + 1) = e /\ \A k \in 0 .. n : At(v, c, k) = At(w, c, k)
  BY <1>3 DEF At
<1>7. \A k \in First(c) .. n : Published(g[k], nets) /\ At(w, c, k).stream \in Nat /\ At(w, c, k).sequence \in Nat
  BY <1>1 DEF Chain, Links, n
<1>8. \A k \in First(c) .. n + 1 : Published(h[k], nets) /\ At(v, c, k).stream \in Nat /\ At(v, c, k).sequence \in Nat
  <2> SUFFICES ASSUME NEW k \in First(c) .. n + 1
               PROVE  Published(h[k], nets) /\ At(v, c, k).stream \in Nat /\ At(v, c, k).sequence \in Nat
    OBVIOUS
  <2>1. CASE k = n + 1
    BY <1>4, <1>6, <2>1
  <2>2. CASE k # n + 1
    <3>1. k \in First(c) .. n /\ k \in 0 .. n
      BY <1>3, <1>5, <2>2
    <3> QED
      BY <1>4, <1>6, <1>7, <3>1
  <2> QED
    BY <2>1, <2>2
<1>9. \A k \in 1 .. n + 1 : /\ v[k].source = h[k].source
                            /\ CarriesFull(v[k], h[k]) \/ (k > First(c) /\ CarriesDelta(v[k], h[k - 1], h[k]))
  <2> SUFFICES ASSUME NEW k \in 1 .. n + 1
               PROVE  /\ v[k].source = h[k].source
                      /\ CarriesFull(v[k], h[k]) \/ (k > First(c) /\ CarriesDelta(v[k], h[k - 1], h[k]))
    OBVIOUS
  <2>1. CASE k = n + 1
    <3>1. v[k] = e /\ h[k] = frame /\ k - 1 = n
      BY <1>3, <1>4, <2>1
    <3>2. CASE CarriesFull(e, frame)
      BY <3>1, <3>2
    <3>3. CASE p.sequence # 0 /\ SameChain(The(p.frame), frame) /\ e.kind = "delta" /\ e.content = MakeDelta(The(p.frame), frame)
      <4>1. First(c) <= n
        BY <1>1, <1>3, <1>5, <3>3 DEF Chain, EndsWith, n
      <4>2. p.frame = {g[n]}
        BY <1>1, <4>1 DEF Chain, EndsWith, n
      <4>3. The(p.frame) = g[n] /\ h[k - 1] = g[n] /\ Published(g[n], nets) /\ k > First(c)
        <5>1. n \in First(c) .. n /\ n \in 0 .. n /\ n < k
          BY <1>3, <1>5, <2>1, <4>1
        <5>2. The(p.frame) = g[n]
          BY <4>2, TheOf
        <5>3. h[k - 1] = g[n] /\ Published(g[n], nets)
          BY <1>4, <1>7, <3>1, <5>1
        <5>4. k > First(c)
          BY <1>3, <1>5, <2>1, <4>1
        <5> QED
          BY <5>2, <5>3, <5>4
      <4>4. g[n].markers = frame.markers
        BY <3>3, <4>3, SameProject
      <4> QED
        BY <3>1, <3>3, <4>3, <4>4 DEF CarriesDelta
    <3> QED
      BY <3>2, <3>3
  <2>2. CASE k # n + 1
    <3>1. k \in 1 .. n /\ k \in 0 .. n /\ k - 1 \in 0 .. n
      BY <1>3, <2>2
    <3>2. v[k] = w[k] /\ h[k] = g[k] /\ h[k - 1] = g[k - 1]
      BY <1>3, <1>4, <3>1
    <3>3. w[k].source = g[k].source /\ (CarriesFull(w[k], g[k]) \/ (k > First(c) /\ CarriesDelta(w[k], g[k - 1], g[k])))
      BY <1>1, <3>1 DEF Chain, Links, n
    <3> QED
      BY <3>2, <3>3
  <2> QED
    BY <2>1, <2>2
<1>10. \A j, k \in First(c) .. n + 1 : j < k => Before(At(v, c, j), At(v, c, k))
  <2> SUFFICES ASSUME NEW j \in First(c) .. n + 1, NEW k \in First(c) .. n + 1, j < k PROVE Before(At(v, c, j), At(v, c, k))
    OBVIOUS
  <2>1. j \in First(c) .. n /\ j \in 0 .. n /\ At(v, c, j) = At(w, c, j) /\ First(c) <= n /\ n \in First(c) .. n
    BY <1>3, <1>5, <1>6
  <2>2. CASE k = n + 1
    <3> DEFINE x == At(w, c, j)
               y == At(w, c, n)
    <3>1. p.stream = y.stream /\ p.sequence = y.sequence
      BY <1>1, <2>1 DEF Chain, EndsWith, n
    <3>2. x.stream \in Nat /\ x.sequence \in Nat /\ y.stream \in Nat /\ y.sequence \in Nat
      BY <1>7, <2>1
    <3>3. j = n \/ Before(x, y)
      <4>1. j = n \/ j < n
        BY <2>1, <1>3
      <4>2. j < n => Before(x, y)
        BY <1>1, <2>1 DEF Chain, Links, n
      <4> QED
        BY <4>1, <4>2
    <3>4. j = n => x = y
      OBVIOUS
    <3> HIDE DEF x, y
    <3>5. Before(x, e)
      BY <3>1, <3>2, <3>3, <3>4 DEF Before
    <3> QED
      BY <1>6, <2>1, <2>2, <3>5 DEF x
  <2>3. CASE k # n + 1
    <3>1. k \in First(c) .. n /\ At(v, c, k) = At(w, c, k)
      BY <1>3, <1>5, <1>6, <2>3
    <3>2. Before(At(w, c, j), At(w, c, k))
      BY <1>1, <2>1, <3>1 DEF Chain, Links, n
    <3> QED
      BY <2>1, <3>1, <3>2
  <2> QED
    BY <2>2, <2>3
<1>11. c.frame = {} \/ \E f : c.frame = {f} /\ Mirrors(f, h[0])
  <2>1. h[0] = g[0]
    BY <1>3, <1>4
  <2> QED
    BY <1>1, <2>1 DEF Chain, Links
<1>12. Links(h, v, c, nets)
  BY <1>3, <1>8, <1>9, <1>10, <1>11 DEF Links
<1>13. EndsWith(h, v, c, q)
  <2>1. First(c) <= n + 1
    BY <1>3, <1>5
  <2> QED
    <3>1. Len(v) = n + 1 /\ ~(First(c) > n + 1)
      BY <1>3, <1>5, <2>1
    <3>2. h[Len(v)] = frame /\ At(v, c, Len(v)) = e
      BY <1>4, <1>6, <3>1
    <3> QED
      BY <3>1, <3>2 DEF EndsWith
<1>14. Asked(h, v, c)
  <2>1. w # <<>> => h[1] = g[1]
    <3>1. w # <<>> => 1 \in 0 .. n
      BY <1>2 DEF n
    <3> QED
      BY <1>4, <3>1
  <2>2. v # <<>>
    BY <1>3
  <2> QED
    BY <1>1, <2>1, <2>2 DEF Chain, Asked
<1>15. ConnectionSound(v, c, q, nets)
  <2>1. DOMAIN c = ClientFields
    BY DEF ConnectionSound
  <2> QED
    BY <1>3, <1>12, <1>13, <1>14, <2>1 DEF ConnectionSound, Chain
<1> QED
  BY <1>15 DEF v

\* An envelope has at most one candidate.
LEMMA CandidateOnly ==
  ASSUME NEW frame, NEW stream, NEW sequence, NEW e, ApplyStream(frame, stream, sequence, e) # {}
  PROVE  ApplyStream(frame, stream, sequence, e) = {The(ApplyStream(frame, stream, sequence, e))}
<1> DEFINE x == ApplyStream(frame, stream, sequence, e)
           d == ApplyDelta(The(frame), e)
<1>1. \A f \in x : (e.kind = "full" /\ f = e.content) \/ (e.kind # "full" /\ f = d)
  <2> HIDE DEF d
  <2> QED
    BY DEF ApplyStream, d
<1>2. \A f, h \in x : f = h
  BY <1>1
<1>3. PICK f : f \in x
  OBVIOUS
<1>4. x = {f}
  BY <1>2, <1>3
<1> HIDE DEF x
<1>5. The(x) = f
  BY <1>4, TheOf
<1> QED
  BY <1>4, <1>5 DEF x

\* The candidate of the first envelope under way mirrors the frame that it carries.
LEMMA CandidateMirrors ==
  ASSUME NEW nets, NEW w, NEW S, w \in Seq(S), w # <<>>, NEW c, NEW g, Links(g, w, c, nets), NEW stream, NEW sequence,
         NEW f \in ApplyStream(c.frame, stream, sequence, Head(w))
  PROVE  Mirrors(f, g[1])
<1> DEFINE e == Head(w)
<1>1. e = w[1] /\ 1 \in 1 .. Len(w)
  OBVIOUS
<1> HIDE DEF e
<1>2. f \in ApplyStream(c.frame, stream, sequence, e)
  BY DEF e
<1>3. First(c) \in {0, 1} /\ (c.frame # {} => First(c) = 0) /\ (c.frame = {} => First(c) = 1)
  BY DEF First
<1>4. Published(g[1], nets)
  <2>1. 1 \in First(c) .. Len(w)
    BY <1>1, <1>3
  <2> QED
    BY <2>1 DEF Links
<1>5. e.source = g[1].source /\ (CarriesFull(e, g[1]) \/ (1 > First(c) /\ CarriesDelta(e, g[0], g[1])))
  <2>1. 1 - 1 = 0
    OBVIOUS
  <2> QED
    BY <1>1, <2>1 DEF Links
<1>6. CASE CarriesFull(e, g[1])
  <2>1. f = FullWire(g[1])
    BY <1>2, <1>6 DEF ApplyStream, CarriesFull
  <2> QED
    BY <1>4, <2>1, FullMirrors DEF Published
<1>7. CASE 1 > First(c) /\ CarriesDelta(e, g[0], g[1])
  <2>1. c.frame # {} /\ First(c) = 0 /\ 0 \in First(c) .. Len(w)
    BY <1>1, <1>3, <1>7
  <2>2. PICK h : c.frame = {h} /\ Mirrors(h, g[0])
    BY <2>1 DEF Links
  <2>3. Published(g[0], nets)
    BY <2>1 DEF Links
  <2>4. e.kind = "delta" /\ e.content = MakeDelta(g[0], g[1]) /\ SameChain(g[0], g[1]) /\ g[0].markers = g[1].markers
    BY <1>7 DEF CarriesDelta
  <2>5. f = ApplyDelta(h, e)
    <3>1. The(c.frame) = h
      BY <2>2, TheOf
    <3> DEFINE d == ApplyDelta(The(c.frame), e)
    <3>2. f = d
      <4> HIDE DEF d
      <4> QED
        BY <1>2, <2>4 DEF ApplyStream, d
    <3> QED
      BY <3>1, <3>2
  <2> DEFINE a == g[0]
             b == g[1]
  <2>6. Made(a) /\ Made(b) /\ a.markers = b.markers /\ SameChain(a, b) /\ Mirrors(h, a) /\ e.content = MakeDelta(a, b) /\ e.source = b.source
    BY <1>4, <1>5, <2>2, <2>3, <2>4 DEF Published
  <2> HIDE DEF a, b
  <2>7. Mirrors(ApplyDelta(h, e), b)
    BY <2>6, DeltaMirrors
  <2> QED
    BY <2>5, <2>7 DEF b
<1> QED
  BY <1>5, <1>6, <1>7

\* The client asks for the topology of its candidate.
LEMMA AskingChain ==
  ASSUME NEW nets, NEW w, NEW c, NEW p, ConnectionSound(w, c, p, nets), c.open, w # <<>>,
         NEW stream, NEW sequence, NEW x, x = ApplyStream(c.frame, stream, sequence, Head(w)), x # {},
         NEW d, d = [c EXCEPT !.asking = x]
  PROVE  ConnectionSound(w, d, p, nets)
<1>1. PICK g : Chain(g, w, c, p, nets)
  BY DEF ConnectionSound
<1>2. PICK S : w \in Seq(S)
  BY DEF ConnectionSound
<1>3. x = {The(x)} /\ The(x) \in x
  BY CandidateOnly
<1>4. Mirrors(The(x), g[1])
  BY <1>1, <1>2, <1>3, CandidateMirrors DEF Chain
<1>5. DOMAIN c = ClientFields
  BY DEF ConnectionSound
<1>6. DOMAIN d = ClientFields /\ d.asking = x /\ \A y \in ClientFields \ {"asking"} : d[y] = c[y]
  BY <1>5 DEF ClientFields
<1>7. d.frame = c.frame /\ d.open = c.open /\ d.stream = c.stream /\ d.sequence = c.sequence
  BY <1>6 DEF ClientFields
<1>8. First(d) = First(c) /\ \A k : At(w, d, k).stream = At(w, c, k).stream /\ At(w, d, k).sequence = At(w, c, k).sequence
  BY <1>7 DEF First, At
<1>9. Links(g, w, d, nets)
  <2>1. \A j, k : Before(At(w, c, j), At(w, c, k)) => Before(At(w, d, j), At(w, d, k))
    BY <1>8 DEF Before
  <2>2. \A k \in First(d) .. Len(w) : Published(g[k], nets) /\ At(w, d, k).stream \in Nat /\ At(w, d, k).sequence \in Nat
    BY <1>1, <1>8 DEF Chain, Links
  <2>3. \A k \in 1 .. Len(w) : /\ w[k].source = g[k].source
                               /\ CarriesFull(w[k], g[k]) \/ (k > First(d) /\ CarriesDelta(w[k], g[k - 1], g[k]))
    BY <1>1, <1>8 DEF Chain, Links
  <2>4. \A j, k \in First(d) .. Len(w) : j < k => Before(At(w, d, j), At(w, d, k))
    BY <1>1, <1>8, <2>1 DEF Chain, Links
  <2>5. d.frame = {} \/ \E f : d.frame = {f} /\ Mirrors(f, g[0])
    BY <1>1, <1>7 DEF Chain, Links
  <2> QED
    BY <2>2, <2>3, <2>4, <2>5 DEF Links
<1>10. EndsWith(g, w, d, p)
  BY <1>1, <1>7, <1>8 DEF Chain, EndsWith
<1>11. Asked(g, w, d)
  BY <1>3, <1>4, <1>6 DEF Asked
<1> QED
  BY <1>2, <1>6, <1>7, <1>9, <1>10, <1>11 DEF ConnectionSound, Chain

\* The client has its candidate, and the chain starts with it.
LEMMA TailChain ==
  ASSUME NEW nets, NEW w, NEW c, NEW p, ConnectionSound(w, c, p, nets), NEW g, Chain(g, w, c, p, nets), w # <<>>,
         NEW f, Mirrors(f, g[1]), NEW d, DOMAIN d = ClientFields, d.open, d.frame = {f}, d.asking = {},
         d.stream = Head(w).stream, d.sequence = Head(w).sequence
  PROVE  ConnectionSound(Tail(w), d, p, nets)
<1> DEFINE n == Len(w)
           v == Tail(w)
           e == Head(w)
<1>1. PICK S : w \in Seq(S)
  BY DEF ConnectionSound
<1>2. n \in Nat \ {0} /\ Len(v) = n - 1 /\ (\A k \in 1 .. n - 1 : v[k] = w[k + 1]) /\ v \in Seq(S) /\ e = w[1]
  BY <1>1
<1> DEFINE h == [k \in 0 .. n - 1 |-> g[k + 1]]
<1>3. \A k \in 0 .. n - 1 : h[k] = g[k + 1]
  OBVIOUS
<1>4. d.stream = e.stream /\ d.sequence = e.sequence
  OBVIOUS
<1> HIDE DEF h, v, n, e
<1>5. First(d) = 0 /\ First(c) \in {0, 1}
  BY DEF First
<1>6. \A k \in 0 .. n - 1 : At(v, d, k).stream = At(w, c, k + 1).stream /\ At(v, d, k).sequence = At(w, c, k + 1).sequence
  <2> SUFFICES ASSUME NEW k \in 0 .. n - 1
               PROVE  At(v, d, k).stream = At(w, c, k + 1).stream /\ At(v, d, k).sequence = At(w, c, k + 1).sequence
    OBVIOUS
  <2>1. CASE k = 0
    BY <1>2, <1>4, <2>1 DEF At
  <2>2. CASE k # 0
    BY <1>2, <2>2 DEF At
  <2> QED
    BY <2>1, <2>2
<1>7. \A k \in 0 .. n - 1 : k + 1 \in First(c) .. n
  BY <1>2, <1>5
<1>8. \A k \in 0 .. n - 1 : Published(h[k], nets) /\ At(v, d, k).stream \in Nat /\ At(v, d, k).sequence \in Nat
  BY <1>3, <1>6, <1>7 DEF Chain, Links, n
<1>9. \A k \in 1 .. n - 1 : v[k].source = h[k].source /\ (CarriesFull(v[k], h[k]) \/ (k > First(d) /\ CarriesDelta(v[k], h[k - 1], h[k])))
  <2> SUFFICES ASSUME NEW k \in 1 .. n - 1
               PROVE  v[k].source = h[k].source /\ (CarriesFull(v[k], h[k]) \/ (k > First(d) /\ CarriesDelta(v[k], h[k - 1], h[k])))
    OBVIOUS
  <2>1. k + 1 \in 1 .. n /\ k \in 0 .. n - 1 /\ k - 1 \in 0 .. n - 1 /\ (k + 1) - 1 = k /\ (k - 1) + 1 = k /\ k > 0
    BY <1>2
  <2>2. v[k] = w[k + 1] /\ h[k] = g[k + 1] /\ h[k - 1] = g[k]
    BY <1>2, <1>3, <2>1
  <2>3. w[k + 1].source = g[k + 1].source /\ (CarriesFull(w[k + 1], g[k + 1]) \/ CarriesDelta(w[k + 1], g[k], g[k + 1]))
    BY <2>1 DEF Chain, Links, n
  <2> QED
    BY <1>5, <2>1, <2>2, <2>3
<1>10. \A j, k \in 0 .. n - 1 : j < k => Before(At(v, d, j), At(v, d, k))
  <2> SUFFICES ASSUME NEW j \in 0 .. n - 1, NEW k \in 0 .. n - 1, j < k PROVE Before(At(v, d, j), At(v, d, k))
    OBVIOUS
  <2>1. j + 1 \in First(c) .. n /\ k + 1 \in First(c) .. n /\ j + 1 < k + 1
    BY <1>2, <1>7
  <2>2. Before(At(w, c, j + 1), At(w, c, k + 1))
    BY <2>1 DEF Chain, Links, n
  <2> QED
    BY <1>6, <2>2 DEF Before
<1>11. d.frame = {f} /\ Mirrors(f, h[0])
  <2>1. h[0] = g[1]
    BY <1>2, <1>3
  <2> QED
    BY <2>1
<1>12. Links(h, v, d, nets)
  BY <1>2, <1>5, <1>8, <1>9, <1>10, <1>11 DEF Links
<1>13. EndsWith(h, v, d, p)
  <2>1. First(c) <= n /\ n - 1 \in 0 .. n - 1 /\ (n - 1) + 1 = n /\ ~(First(d) > n - 1)
    BY <1>2, <1>5
  <2>2. p.frame = {g[n]} /\ p.stream = At(w, c, n).stream /\ p.sequence = At(w, c, n).sequence
    BY <2>1 DEF Chain, EndsWith, n
  <2>3. h[n - 1] = g[n] /\ At(v, d, n - 1).stream = At(w, c, n).stream /\ At(v, d, n - 1).sequence = At(w, c, n).sequence
    BY <1>3, <1>6, <2>1
  <2> QED
    BY <1>2, <2>1, <2>2, <2>3 DEF EndsWith
<1>14. ConnectionSound(v, d, p, nets)
  BY <1>2, <1>12, <1>13 DEF ConnectionSound, Chain, Asked
<1> QED
  BY <1>14 DEF v

\* A client at the position of the publisher has the frame of the publisher.
LEMMA ChainMirrored ==
  ASSUME NEW nets, NEW w, NEW c, NEW p, ConnectionSound(w, c, p, nets), c.frame # {}, c.stream = p.stream, c.sequence = p.sequence
  PROVE  Seen(The(c.frame)) = Seen(The(p.frame))
<1>1. PICK g : Chain(g, w, c, p, nets)
  BY DEF ConnectionSound
<1>2. PICK S : w \in Seq(S)
  BY DEF ConnectionSound
<1> DEFINE n == Len(w)
<1>3. First(c) = 0 /\ n \in Nat /\ n \in First(c) .. n /\ 0 \in First(c) .. n /\ First(c) <= n
  BY <1>2 DEF First
<1>4. p.frame = {g[n]} /\ p.stream = At(w, c, n).stream /\ p.sequence = At(w, c, n).sequence
  BY <1>1, <1>3 DEF Chain, EndsWith
<1>5. c.stream \in Nat /\ c.sequence \in Nat /\ Published(g[0], nets)
  <2>1. At(w, c, 0) = c
    BY DEF At
  <2> QED
    BY <1>1, <1>3, <2>1 DEF Chain, Links
<1>6. n = 0
  <2> SUFFICES ASSUME n # 0 PROVE FALSE
    OBVIOUS
  <2>1. Before(At(w, c, 0), At(w, c, n))
    BY <1>1, <1>3 DEF Chain, Links
  <2>2. At(w, c, 0) = c
    BY DEF At
  <2> QED
    BY <1>4, <1>5, <2>1, <2>2 DEF Before
<1>7. PICK f : c.frame = {f} /\ Mirrors(f, g[0])
  BY <1>1 DEF Chain, Links
<1>8. The(c.frame) = f /\ The(p.frame) = g[0]
  BY <1>4, <1>6, <1>7, TheOf
<1> QED
  BY <1>5, <1>7, <1>8, MirrorsSeen DEF Published

-----------------------------------------------------------------------------
(***************************************************************************)
(* The assembler and the state shown.                                      *)
(***************************************************************************)
AssemblerFields == {"topology", "routes", "expanded", "classes"}
TopologyOf(topology, nets) ==
    /\ topology.project \in 1 .. Len(nets) /\ topology.network = nets[topology.project]
    /\ topology.markers = MarkersOf[topology.network] /\ topology.lanes = LanesOf[topology.network]

\* The lanes that an assembler keeps are those of its routes on the network of its topology.
AssemblerSound(a, nets) ==
    /\ DOMAIN a = AssemblerFields
    /\ \/ a.topology = {} /\ a.routes = <<>>
       \/ \E t : /\ a.topology = {t} /\ TopologyOf(t, nets)
                 /\ \A i \in DOMAIN a.routes : a.expanded[i] = Expand(t, a.routes[i])

ShownSound(states, nets) ==
    \A state \in states :
        /\ state.source.project \in 1 .. Len(nets)
        /\ \A i \in DOMAIN state.routes :
               state.routes[i] = Expand([network |-> nets[state.source.project]], state.frame.routes[i])

FrameInv ==
    /\ scene \in Scenes /\ SessionSound(session) /\ SessionGood(session)
    /\ PublisherSound(publisher, session.networks) /\ ConnectionSound(wire, client, publisher, session.networks)
    /\ AssemblerSound(client.assembler, session.networks) /\ ShownSound(shown, session.networks)

\* The same for the assembler and the states shown.
LEMMA TopologyStays ==
  ASSUME NEW nets, NEW new, Extends(nets, new), Len(nets) \in Nat, Len(new) \in Nat, NEW a, AssemblerSound(a, nets), NEW states,
         ShownSound(states, nets)
  PROVE  AssemblerSound(a, new) /\ ShownSound(states, new)
<1>1. \A k \in 1 .. Len(nets) : k \in 1 .. Len(new) /\ new[k] = nets[k]
  BY DEF Extends
<1>2. AssemblerSound(a, new)
  BY <1>1 DEF AssemblerSound, TopologyOf
<1>3. ShownSound(states, new)
  <2> SUFFICES ASSUME NEW state \in states
               PROVE  /\ state.source.project \in 1 .. Len(new)
                      /\ \A i \in DOMAIN state.routes :
                             state.routes[i] = Expand([network |-> new[state.source.project]], state.frame.routes[i])
    BY DEF ShownSound
  <2>1. state.source.project \in 1 .. Len(nets)
    BY DEF ShownSound
  <2>2. state.source.project \in 1 .. Len(new) /\ new[state.source.project] = nets[state.source.project]
    BY <1>1, <2>1
  <2>3. \A i \in DOMAIN state.routes : state.routes[i] = Expand([network |-> nets[state.source.project]], state.frame.routes[i])
    BY DEF ShownSound
  <2> QED
    BY <2>2, <2>3
<1> QED
  BY <1>2, <1>3

\* A new assembler has no routes.
LEMMA NoAssemblerSound == \A nets : AssemblerSound(NoAssembler, nets)
BY DEF NoAssembler, AssemblerSound, AssemblerFields

\* The end of a connection.
LEMMA CloseSound ==
  ASSUME FrameInv, NEW reason, CloseWith(reason), scene' = scene, session' = session, shown' = shown
  PROVE  FrameInv'
<1> DEFINE nets == session.networks
<1>1. client' = Closed /\ wire' = <<>>
  BY DEF CloseWith
<1>2. PublisherSound(publisher', nets)
  <2>1. CASE publisher' = publisher
    BY <2>1 DEF FrameInv
  <2>2. CASE publisher' = [NoFrame EXCEPT !.stream = publisher.stream]
    <3>1. publisher.stream \in Nat
      BY DEF FrameInv, PublisherSound
    <3> QED
      BY <2>2, <3>1 DEF NoFrame, PublisherSound, PublisherFields
  <2> QED
    BY <2>1, <2>2 DEF CloseWith
<1>3. ConnectionSound(wire', client', publisher', nets)
  BY <1>1, ClosedSound
<1>4. AssemblerSound(client'.assembler, nets)
  <2>1. client'.assembler = NoAssembler
    BY <1>1 DEF Closed
  <2> QED
    BY <2>1, NoAssemblerSound
<1> QED
  BY <1>2, <1>3, <1>4 DEF FrameInv

\* The frame that an assembler accepted, on the topology of its project.
LEMMA AssembledSound ==
  ASSUME NEW nets, NEW a, AssemblerSound(a, nets), NEW t, a.topology = {t}, NEW f, IsFrame(f), TopologyMatches(t, f)
  PROVE  AssemblerSound(Assembled(a, f), nets) /\ ShownSound({StateOf(f, Assembled(a, f))}, nets)
<1> DEFINE b == Assembled(a, f)
           x == [i \in DOMAIN f.vehicles |-> Present(a, f, i)]
           c == LET class == [i \in DOMAIN f.vehicles |-> f.vehicles[i].pod.class]
                              at(id) == CHOOSE i \in DOMAIN f.vehicles : f.vehicles[i].pod.id = id
                          IN  [id \in DOMAIN a.classes \cup ToSet(Ids(f.vehicles)) |->
                                  IF id \in ToSet(Ids(f.vehicles)) THEN class[at(id)] ELSE a.classes[id]]
<1>1. b = [a EXCEPT !.routes = f.routes, !.expanded = x, !.classes = c]
  BY DEF Assembled
<1>2. DOMAIN a = AssemblerFields /\ TopologyOf(t, nets) /\ \A i \in DOMAIN a.routes : a.expanded[i] = Expand(t, a.routes[i])
  <2>1. DOMAIN a = AssemblerFields
    BY DEF AssemblerSound
  <2>2. PICK u : a.topology = {u} /\ TopologyOf(u, nets) /\ \A i \in DOMAIN a.routes : a.expanded[i] = Expand(u, a.routes[i])
    BY DEF AssemblerSound
  <2>3. u = t
    BY <2>2
  <2> QED
    BY <2>1, <2>2, <2>3
<1>3. DOMAIN f.routes = DOMAIN f.vehicles
  BY DEF IsFrame
<1>4. \A i \in DOMAIN f.vehicles : x[i] = Expand(t, f.routes[i])
  <2> SUFFICES ASSUME NEW i \in DOMAIN f.vehicles PROVE Present(a, f, i) = Expand(t, f.routes[i])
    OBVIOUS
  <2>1. The(a.topology) = t
    BY TheOf
  <2> QED
    BY <1>2, <2>1 DEF Present
<1>5. DOMAIN x = DOMAIN f.vehicles
  OBVIOUS
<1> HIDE DEF b, c, x
<1>6. DOMAIN b = AssemblerFields /\ b.topology = a.topology /\ b.routes = f.routes /\ b.expanded = x
  BY <1>1, <1>2 DEF AssemblerFields
<1>7. AssemblerSound(b, nets)
  <2>1. \A i \in DOMAIN b.routes : b.expanded[i] = Expand(t, b.routes[i])
    BY <1>3, <1>4, <1>6
  <2> QED
    BY <1>2, <1>6, <2>1 DEF AssemblerSound
<1>8. ShownSound({StateOf(f, b)}, nets)
  <2> DEFINE s == StateOf(f, b)
  <2>1. s.source = f.source /\ s.frame = f /\ s.routes = x
    BY <1>6 DEF StateOf
  <2>2. f.source.project = t.project /\ t.project \in 1 .. Len(nets) /\ t.network = nets[t.project]
    BY <1>2 DEF TopologyMatches, TopologyOf
  <2>3. \A r : Expand([network |-> nets[t.project]], r) = Expand(t, r)
    BY <2>2 DEF Expand
  <2> HIDE DEF s
  <2>4. \A i \in DOMAIN s.routes : s.routes[i] = Expand([network |-> nets[s.source.project]], s.frame.routes[i])
    BY <1>4, <1>5, <2>1, <2>2, <2>3
  <2>5. s.source.project \in 1 .. Len(nets)
    BY <2>1, <2>2
  <2>6. ShownSound({s}, nets)
    BY <2>4, <2>5 DEF ShownSound
  <2> QED
    BY <2>6 DEF s
<1> QED
  BY <1>7, <1>8 DEF b

\* The client accepts its candidate, or closes the connection.
LEMMA AcceptSound ==
  ASSUME FrameInv, client.open, wire # <<>>, NEW g, Chain(g, wire, client, publisher, session.networks), NEW f, Mirrors(f, g[1]),
         NEW a, AssemblerSound(a, session.networks), NEW t, a.topology = {t}, TopologyMatches(t, f), Accept(Head(wire), f, a),
         scene' = scene, session' = session
  PROVE  FrameInv'
<1> DEFINE nets == session.networks
<1>1. CASE \E reason : CloseWith(reason) /\ shown' = shown
  BY <1>1, CloseSound
<1>2. CASE LET next == Assembled(a, f)
           IN  /\ shown' = {StateOf(f, next)} /\ wire' = Tail(wire)
               /\ client' = [client EXCEPT !.frame = {f}, !.stream = Head(wire).stream, !.sequence = Head(wire).sequence,
                                           !.assembler = next, !.asking = {}]
               /\ UNCHANGED <<publisher, refused>>
  <2> DEFINE next == Assembled(a, f)
             x == Head(wire).stream
             y == Head(wire).sequence
             d == client'
  <2>1. /\ shown' = {StateOf(f, next)} /\ wire' = Tail(wire) /\ publisher' = publisher
        /\ d = [client EXCEPT !.frame = {f}, !.stream = x, !.sequence = y, !.assembler = next, !.asking = {}]
    BY <1>2
  <2>2. DOMAIN client = ClientFields /\ ConnectionSound(wire, client, publisher, nets)
    BY DEF FrameInv, ConnectionSound
  <2>3. IsFrame(f)
    BY DEF Mirrors
  <2>4. AssemblerSound(next, nets) /\ ShownSound({StateOf(f, next)}, nets)
    BY <2>3, AssembledSound
  <2> HIDE DEF x, y, next
  <2>5. /\ DOMAIN d = ClientFields /\ d.open = client.open /\ d.frame = {f} /\ d.stream = x /\ d.sequence = y
        /\ d.assembler = next /\ d.asking = {}
    BY <2>1, <2>2 DEF ClientFields
  <2> HIDE DEF d
  <2>6. ConnectionSound(Tail(wire), d, publisher, nets)
    BY <2>2, <2>5, TailChain DEF x, y
  <2>7. PublisherSound(publisher, nets) /\ SessionSound(session) /\ SessionGood(session) /\ scene \in Scenes
    BY DEF FrameInv
  <2>8. AssemblerSound(client'.assembler, nets) /\ ShownSound(shown', nets) /\ ConnectionSound(wire', client', publisher', nets)
    BY <2>1, <2>4, <2>5, <2>6 DEF d
  <2> QED
    BY <2>1, <2>7, <2>8 DEF FrameInv
<1> QED
  BY <1>1, <1>2 DEF Accept

\* applyStreamDelta and the assembler of the client: it takes the first envelope under way, or drops the connection.
LEMMA ReceiveSound ==
  ASSUME FrameInv, Receive
  PROVE  FrameInv'
<1> DEFINE nets == session.networks
           e == Head(wire)
           x == ApplyStream(client.frame, client.stream, client.sequence, e)
<1>1. client.open /\ wire # <<>> /\ scene' = scene /\ session' = session
  BY DEF Receive
<1>2. PICK g : Chain(g, wire, client, publisher, nets)
  BY DEF FrameInv, ConnectionSound
<1>3. PICK S : wire \in Seq(S)
  BY DEF FrameInv, ConnectionSound
<1>4. CASE (\E reason : CloseWith(reason)) /\ shown' = shown
  BY <1>1, <1>4, CloseSound
<1>5. CASE x # {} /\ KnowsTopology(The(x)) /\ Accept(e, The(x), client.assembler)
  <2>1. The(x) \in x
    BY <1>5, CandidateOnly
  <2>2. Mirrors(The(x), g[1])
    BY <1>1, <1>2, <1>3, <2>1, CandidateMirrors DEF Chain
  <2> DEFINE f == The(x)
             a == client.assembler
  <2>3. AssemblerSound(a, nets)
    BY DEF FrameInv
  <2>4. PICK t \in a.topology : TopologyMatches(t, f)
    BY <1>5 DEF KnowsTopology
  <2>5. a.topology = {t}
    BY <2>3, <2>4 DEF AssemblerSound
  <2> HIDE DEF f, a, x
  <2>6. Mirrors(f, g[1]) /\ Accept(Head(wire), f, a)
    BY <1>5, <2>2 DEF f, a
  <2> QED
    BY <1>1, <1>2, <2>3, <2>4, <2>5, <2>6, AcceptSound
<1>6. CASE x # {} /\ client' = [client EXCEPT !.asking = x] /\ UNCHANGED <<publisher, wire, shown, refused>>
  <2>1. ConnectionSound(wire, client, publisher, nets) /\ DOMAIN client = ClientFields
    BY DEF FrameInv, ConnectionSound
  <2>2. ConnectionSound(wire, client', publisher, nets)
    BY <1>1, <1>6, <2>1, AskingChain
  <2>3. client'.assembler = client.assembler
    <3> HIDE DEF x
    <3> QED
      BY <1>6, <2>1 DEF ClientFields
  <2> QED
    BY <1>1, <1>6, <2>2, <2>3 DEF FrameInv
<1> QED
  <2>1. \/ CloseWith("contract") /\ shown' = shown
        \/ CloseWith("envelope") /\ shown' = shown
        \/ x # {} /\ KnowsTopology(The(x)) /\ Accept(e, The(x), client.assembler)
        \/ x # {} /\ client' = [client EXCEPT !.asking = x] /\ UNCHANGED <<publisher, wire, shown, refused>>
    BY DEF Receive
  <2> QED
    BY <1>4, <1>5, <1>6, <2>1

\* The client takes the topology of its project.
LEMMA ReceiveTopologySound ==
  ASSUME FrameInv, ReceiveTopology
  PROVE  FrameInv'
<1> DEFINE nets == session.networks
           f == The(client.asking)
           t == TopologySnapshot
<1>1. client.open /\ client.asking # {} /\ scene' = scene /\ session' = session
  BY DEF ReceiveTopology
<1>2. PICK g : Chain(g, wire, client, publisher, nets)
  BY DEF FrameInv, ConnectionSound
<1>3. PICK h : client.asking = {h} /\ wire # <<>> /\ Mirrors(h, g[1])
  BY <1>1, <1>2 DEF Chain, Asked
<1>4. f = h
  BY <1>3, TheOf
<1>5. CASE (\E reason : CloseWith(reason)) /\ shown' = shown
  BY <1>1, <1>5, CloseSound
<1>6. CASE TopologyMatches(t, f) /\ Accept(Head(wire), f, FreshAssembler(t))
  <2> DEFINE a == FreshAssembler(t)
  <2>1. TopologyOf(t, nets)
    <3>1. nets[session.project] = session.world.network /\ session.project \in 1 .. Len(nets)
      BY DEF FrameInv, SessionSound
    <3>2. /\ t.project = session.project /\ t.network = session.world.network
          /\ t.markers = MarkersOf[session.world.network] /\ t.lanes = LanesOf[session.world.network]
      BY DEF TopologySnapshot, Markers
    <3> QED
      BY <3>1, <3>2 DEF TopologyOf
  <2> HIDE DEF t
  <2>2. a.topology = {t} /\ DOMAIN a = AssemblerFields /\ a.routes = <<>>
    BY DEF FreshAssembler, NewAssembler, NoAssembler, AssemblerFields
  <2> HIDE DEF a, f
  <2>3. AssemblerSound(a, nets)
    BY <2>1, <2>2 DEF AssemblerSound
  <2>4. Mirrors(f, g[1]) /\ TopologyMatches(t, f) /\ Accept(Head(wire), f, a)
    BY <1>3, <1>4, <1>6 DEF a
  <2> QED
    BY <1>1, <1>2, <1>3, <2>2, <2>3, <2>4, AcceptSound
<1> QED
  BY <1>5, <1>6 DEF ReceiveTopology

\* A connection starts with a full frame, or resumes behind the frame of the client.
LEMMA ConnectStepSound ==
  ASSUME FrameInv, Connect
  PROVE  FrameInv'
<1> DEFINE nets == session.networks
<1>1. client' = [Closed EXCEPT !.open = TRUE, !.order = Markers.order]
      /\ wire' = (IF publisher.sequence = 0 THEN <<>> ELSE <<FullEnvelope(The(publisher.frame), publisher.stream, publisher.sequence)>>)
      /\ UNCHANGED <<scene, session, publisher, shown, refused, drops>>
  BY DEF Connect
<1>2. PublisherSound(publisher, nets)
  BY DEF FrameInv
<1> DEFINE o == Markers.order
<1>3. client' = [Closed EXCEPT !.open = TRUE, !.order = o]
  BY <1>1
<1> HIDE DEF o
<1>4. ConnectionSound(wire', client', publisher, nets)
  BY <1>1, <1>2, <1>3, ConnectSound
<1>5. client'.assembler = NoAssembler
  BY <1>3 DEF Closed
<1>6. AssemblerSound(client'.assembler, nets)
  BY <1>5, NoAssemblerSound
<1> QED
  BY <1>1, <1>4, <1>6 DEF FrameInv

\* publish: the frame of the session as a delta of the one before it, or in full.
LEMMA PublishSound ==
  ASSUME FrameInv, Publish
  PROVE  FrameInv'
<1> DEFINE nets == session.networks
           p == publisher
           q == publisher'
           frame == PresentationFrame
           reset == p.sequence \in {0, MaxCounter} \/ ~SameChain(The(p.frame), frame)
           full == FullEnvelope(frame, q.stream, q.sequence)
           delta == DeltaEnvelope(The(p.frame), frame, p.stream, p.sequence)
<1>1. /\ scene' = scene /\ session' = session /\ client' = client /\ shown' = shown
      /\ q = IF reset THEN [frame |-> {frame}, stream |-> p.stream + 1, sequence |-> 1] ELSE [p EXCEPT !.frame = {frame}, !.sequence = @ + 1]
      /\ \/ ~client.open /\ wire' = wire
         \/ client.open /\ wire' = Append(wire, full)
         \/ client.open /\ ~reset /\ wire' = Append(wire, delta)
  BY DEF Publish
<1>2. SessionSound(session) /\ SessionGood(session) /\ PublisherSound(p, nets) /\ ConnectionSound(wire, client, p, nets)
  BY DEF FrameInv
<1>3. Published(frame, nets)
  <2>1. Made(frame) /\ frame.source.project = session.project /\ frame.markers = MarkersOf[nets[session.project]]
    BY <1>2, FrameMade
  <2>2. "project" \in DOMAIN frame.source
    BY DEF PresentationFrame
  <2>3. session.project \in 1 .. Len(nets)
    BY <1>2 DEF SessionSound
  <2>4. Valid(frame, session.world.network) /\ session.world.network = nets[session.project]
    BY <1>2, FrameValid DEF SessionSound
  <2> HIDE DEF frame
  <2> QED
    BY <2>1, <2>2, <2>3, <2>4 DEF Published, OfProject
<1>4. /\ full.source = frame.source /\ full.stream = q.stream /\ full.sequence = q.sequence /\ CarriesFull(full, frame)
      /\ delta.source = frame.source /\ delta.stream = p.stream /\ delta.sequence = p.sequence + 1 /\ delta.kind = "delta"
      /\ delta.content = MakeDelta(The(p.frame), frame)
  <2> HIDE DEF frame, p, q
  <2> QED
    BY DEF FullEnvelope, DeltaEnvelope, Envelope, SourceOf, CarriesFull
<1>5. reset \/ (p.sequence # 0 /\ SameChain(The(p.frame), frame))
  OBVIOUS
<1> HIDE DEF frame, reset, full, delta, p
<1>6. DOMAIN p = PublisherFields /\ p.stream \in Nat /\ p.sequence \in Nat
  BY <1>2 DEF PublisherSound
<1>7. /\ DOMAIN q = PublisherFields /\ q.frame = {frame} /\ q.stream \in Nat /\ q.sequence \in Nat \ {0} /\ Before(p, q)
      /\ ~reset => q.stream = p.stream /\ q.sequence = p.sequence + 1
  <2>1. CASE reset
    <3>1. q = [frame |-> {frame}, stream |-> p.stream + 1, sequence |-> 1]
      BY <1>1, <2>1
    <3> QED
      BY <1>6, <2>1, <3>1 DEF PublisherFields, Before
  <2>2. CASE ~reset
    <3>1. q = [p EXCEPT !.frame = {frame}, !.sequence = @ + 1]
      BY <1>1, <2>2
    <3>2. DOMAIN q = PublisherFields /\ q.frame = {frame} /\ q.stream = p.stream /\ q.sequence = p.sequence + 1
      BY <1>6, <3>1 DEF PublisherFields
    <3> QED
      BY <1>6, <3>2 DEF Before
  <2> QED
    BY <2>1, <2>2
<1> HIDE DEF q
<1>8. PublisherSound(q, nets)
  BY <1>3, <1>7 DEF PublisherSound
<1>9. ConnectionSound(wire', client', q, nets)
  <2>1. CASE ~client.open /\ wire' = wire
    <3>1. client' = Closed /\ wire' = <<>>
      BY <1>1, <1>2, <2>1 DEF ConnectionSound
    <3> QED
      BY <3>1, ClosedSound
  <2>2. CASE client.open /\ wire' = Append(wire, full)
    <3>1. ConnectionSound(Append(wire, full), client, q, nets)
      BY <1>2, <1>3, <1>4, <1>7, <2>2, PublishedChain
    <3> QED
      BY <1>1, <2>2, <3>1
  <2>3. CASE client.open /\ ~reset /\ wire' = Append(wire, delta)
    <3>1. delta.stream = q.stream /\ delta.sequence = q.sequence /\ p.sequence # 0 /\ SameChain(The(p.frame), frame)
      BY <1>4, <1>5, <1>7, <2>3
    <3>2. ConnectionSound(Append(wire, delta), client, q, nets)
      BY <1>2, <1>3, <1>4, <1>7, <2>3, <3>1, PublishedChain
    <3> QED
      BY <1>1, <2>3, <3>2
  <2> QED
    BY <1>1, <2>1, <2>2, <2>3
<1> QED
  BY <1>1, <1>8, <1>9 DEF FrameInv, q

\* The start of a session.
LEMMA FrameInitSound == FrameInit => FrameInv
<1> SUFFICES ASSUME FrameInit PROVE FrameInv
  OBVIOUS
<1> DEFINE b == NewWorld(1, "own", 1)
           p == [k \in 1 .. scene.waiting |-> RequestOf(scene.orders[k], NoID, NoID)]
           w == [b EXCEPT !.submitted = scene.waiting, !.pending = p]
<1>1. session = [start |-> 1, epoch |-> 1, project |-> 1, generation |-> 1, revision |-> 0, speed |-> 1, checkpoints |-> Nil,
                 restore |-> "none", saved |-> {}, networks |-> <<1>>, world |-> w]
  BY DEF FrameInit
<1>2. WorldSound(b) /\ b.network = 1
  BY NewWorldSound, FrameStreamAssumption
<1> HIDE DEF b, p
<1>3. DOMAIN w = WorldFields /\ w.network = 1 /\ w.vehicles = b.vehicles /\ w.interrupted = b.interrupted /\ w.faults = b.faults
      /\ w.started = b.started /\ w.emergencies = b.emergencies
  BY <1>2 DEF WorldFields, WorldSound
<1> HIDE DEF w
<1>4. WorldSound(w)
  BY <1>2, <1>3 DEF WorldSound, IncidentsOfMarkers
<1>5. <<1>> \in Seq(DOMAIN LanesOf) /\ Len(<<1>>) = 1 /\ <<1>>[1] = 1
  BY FrameStreamAssumption
<1>6. SessionSound(session)
  BY <1>1, <1>3, <1>4, <1>5 DEF SessionSound, SessionFields
<1>7. PublisherSound(publisher, session.networks)
  <2>1. publisher = NoFrame
    BY DEF FrameInit
  <2> QED
    BY <2>1 DEF NoFrame, PublisherSound, PublisherFields
<1>8. client = Closed /\ wire = <<>> /\ shown = {} /\ scene \in Scenes
  BY DEF FrameInit
<1>9. ConnectionSound(wire, client, publisher, session.networks)
  BY <1>8, ClosedSound
<1>10. AssemblerSound(client.assembler, session.networks)
  <2>1. client.assembler = NoAssembler
    BY <1>8 DEF Closed
  <2> QED
    BY <2>1, NoAssemblerSound
<1> QED
  BY <1>6, <1>7, <1>8, <1>9, <1>10, InitGood DEF FrameInv, ShownSound

\* A step of the session, and the restart of the server.
LEMMA SessionInv ==
  ASSUME FrameInv, SessionStep \/ Restart
  PROVE  FrameInv'
<1> DEFINE nets == session.networks
           new == session'.networks
<1>1. SessionSound(session') /\ SessionGood(session') /\ Extends(nets, new) /\ SessionSound(session)
  BY SessionStepSound, SessionStepGood DEF FrameInv
<1>2. Len(nets) \in Nat /\ Len(new) \in Nat
  BY <1>1 DEF SessionSound
<1>3. /\ PublisherSound(publisher, nets) /\ ConnectionSound(wire, client, publisher, nets) /\ scene \in Scenes
      /\ AssemblerSound(client.assembler, nets) /\ ShownSound(shown, nets)
  BY DEF FrameInv
<1> HIDE DEF nets, new
<1>4. /\ PublisherSound(publisher, new) /\ ConnectionSound(wire, client, publisher, new)
      /\ AssemblerSound(client.assembler, new) /\ ShownSound(shown, new)
  BY <1>1, <1>2, <1>3, ChainStays, TopologyStays
<1>5. CASE SessionStep
  <2>1. UNCHANGED <<scene, publisher, wire, client, shown>>
    BY <1>5 DEF SessionStep
  <2> QED
    BY <1>1, <1>3, <1>4, <2>1 DEF FrameInv, new
<1>6. CASE Restart
  <2>1. /\ publisher' = [NoFrame EXCEPT !.stream = publisher.stream] /\ wire' = <<>> /\ client' = Closed
        /\ scene' = scene /\ shown' = shown
    BY <1>6 DEF Restart
  <2>2. PublisherSound(publisher', new)
    <3>1. publisher.stream \in Nat
      BY <1>4 DEF PublisherSound
    <3> QED
      BY <2>1, <3>1 DEF NoFrame, PublisherSound, PublisherFields
  <2>3. ConnectionSound(wire', client', publisher', new)
    BY <2>1, ClosedSound
  <2>4. AssemblerSound(client'.assembler, new)
    <3>1. client'.assembler = NoAssembler
      BY <2>1 DEF Closed
    <3> QED
      BY <3>1, NoAssemblerSound
  <2> QED
    BY <1>1, <1>3, <1>4, <2>1, <2>2, <2>3, <2>4 DEF FrameInv, new
<1> QED
  BY <1>5, <1>6

\* Every step of the session, of the publisher and of the client.
LEMMA FrameNextSound == FrameInv /\ [FrameNext]_frameVars => FrameInv'
<1> SUFFICES ASSUME FrameInv, [FrameNext]_frameVars PROVE FrameInv'
  OBVIOUS
<1>1. CASE SessionStep \/ Restart
  BY <1>1, SessionInv
<1>2. CASE Drop
  BY <1>2, CloseSound DEF Drop
<1>3. CASE Publish
  BY <1>3, PublishSound
<1>4. CASE Connect
  BY <1>4, ConnectStepSound
<1>5. CASE Receive
  BY <1>5, ReceiveSound
<1>6. CASE ReceiveTopology
  BY <1>6, ReceiveTopologySound
<1>7. CASE UNCHANGED frameVars
  BY <1>7 DEF frameVars, FrameInv
<1> QED
  BY <1>1, <1>2, <1>3, <1>4, <1>5, <1>6, <1>7 DEF FrameNext, ClientStep

-----------------------------------------------------------------------------
\* The inductive invariant of the state stream: the session is sound, the
\* envelopes under way are the chain from the frame of the client to the frame
\* of the publisher, and the assembler and the state shown have the lanes of
\* the networks of their projects.
THEOREM FramesInductive == FrameSpec => []FrameInv
<1>1. FrameInit => FrameInv
  BY FrameInitSound
<1>2. FrameInv /\ [FrameNext]_frameVars => FrameInv'
  BY FrameNextSound
<1> QED
  BY <1>1, <1>2, PTL DEF FrameSpec

\* makeDelta, applyStreamDelta and the full encoding: whatever the length of
\* the chain, the projects and the steps of the session between two
\* publications, a client at the sequence of the publisher has its frame.
THEOREM ClientMirrorsThePublisher == FrameSpec => []FrameMirrored
<1>1. FrameInv => FrameMirrored
  <2> SUFFICES ASSUME FrameInv, client.frame # {}, client.stream = publisher.stream, client.sequence = publisher.sequence
               PROVE  Seen(The(client.frame)) = Seen(The(publisher.frame))
    BY DEF FrameMirrored
  <2>1. ConnectionSound(wire, client, publisher, session.networks)
    BY DEF FrameInv
  <2> QED
    BY <2>1, ChainMirrored
<1> QED
  BY <1>1, FramesInductive, PTL

\* streamTopology.state and presentVehicles: a state that is shown has the
\* lanes of the network of its own project, along every change of project.
THEOREM ShownRoutesAreOfTheirProject == FrameSpec => []RoutesOfTheirProject
<1>1. FrameInv => RoutesOfTheirProject
  BY DEF FrameInv, ShownSound, RoutesOfTheirProject
<1> QED
  BY <1>1, FramesInductive, PTL

-----------------------------------------------------------------------------
(***************************************************************************)
(* No publication is refused: the envelopes under way follow each other,   *)
(* and their revisions do not decrease.                                    *)
(***************************************************************************)
\* A delta follows the position before it.
Follows(e, c) == e.stream = c.stream /\ e.base = c.sequence /\ e.sequence = c.sequence + 1
WireSound(w, c, nets) ==
    \A k \in 1 .. Len(w) :
        /\ w[k].sequence \in 1 .. MaxCounter
        /\ w[k].source.project \in 1 .. Len(nets) /\ w[k].order = MarkersOf[nets[w[k].source.project]].order
        /\ w[k].kind = "delta" => Follows(w[k], At(w, c, k - 1))

\* The state shown is not newer than an envelope under way, nor that than the frame of the publisher.
RevisionsSound(w, p, states, revision) ==
    /\ \A k \in 1 .. Len(w) : w[k].source.revision \in 0 .. revision
    /\ \A j, k \in 1 .. Len(w) : j < k => w[j].source.revision <= w[k].source.revision
    /\ \A state \in states : /\ state.source.revision \in 0 .. revision
                             /\ \A k \in 1 .. Len(w) : state.source.revision <= w[k].source.revision
    /\ \A f \in p.frame : /\ f.source.revision \in 0 .. revision
                          /\ \A k \in 1 .. Len(w) : w[k].source.revision <= f.source.revision
                          /\ \A state \in states : state.source.revision <= f.source.revision

ClassesListed(a) == \A id \in DOMAIN a.classes : \E p \in Listed : p.id = id /\ p.class = a.classes[id]

AcceptInv ==
    /\ WireSound(wire, client, session.networks) /\ RevisionsSound(wire, publisher, shown, session.revision)
    /\ publisher.sequence \in 0 .. MaxCounter /\ ClassesListed(client.assembler) /\ PublicationsAccepted

\* A list of vehicles has one class for each identity.
LEMMA OneClass == \A p, q \in Listed : p.id = q.id => p.class = q.class
<1>1. \A fleet \in {"own", "demo"} : \A i, k \in DOMAIN FleetOf[fleet] : FleetOf[fleet][i].id = FleetOf[fleet][k].id => i = k
  BY FrameStreamAssumption
<1>2. \A own \in Places("own"), demo \in Places("demo") : own.id = demo.id => own.class = demo.class
  BY FrameStreamAssumption
<1>3. \A fleet \in {"own", "demo"} : \A p, q \in Places(fleet) : p.id = q.id => p = q
  BY <1>1 DEF Places
<1> QED
  BY <1>2, <1>3 DEF Listed

\* A valid frame passes the checks of a candidate.
LEMMA ValidStream ==
  ASSUME NEW f, NEW network, Valid(f, network)
  PROVE  CheckStreamFrame(f)
BY DEF Valid, VehicleValid, CheckStreamFrame

\* ApplyStream: the first envelope under way has a candidate.
LEMMA CandidateExists ==
  ASSUME NEW nets, NEW w, NEW S, w \in Seq(S), w # <<>>, NEW c, NEW g, Links(g, w, c, nets), WireSound(w, c, nets)
  PROVE  ApplyStream(c.frame, c.stream, c.sequence, Head(w)) # {}
<1> DEFINE e == Head(w)
<1>1. e = w[1] /\ 1 \in 1 .. Len(w) /\ 1 - 1 = 0
  OBVIOUS
<1> HIDE DEF e
<1>2. First(c) \in {0, 1} /\ (c.frame # {} => First(c) = 0) /\ (c.frame = {} => First(c) = 1)
  BY DEF First
<1>3. Published(g[1], nets)
  <2>1. 1 \in First(c) .. Len(w)
    BY <1>1, <1>2
  <2> QED
    BY <2>1 DEF Links
<1>4. e.source = g[1].source /\ (CarriesFull(e, g[1]) \/ (1 > First(c) /\ CarriesDelta(e, g[0], g[1])))
  BY <1>1 DEF Links
<1>5. /\ e.sequence \in 1 .. MaxCounter /\ e.order = MarkersOf[nets[e.source.project]].order
      /\ e.kind = "delta" => Follows(e, c)
  BY <1>1 DEF WireSound, At
<1> DEFINE b == g[1]
           n == nets[b.source.project]
<1>6. Made(b) /\ Valid(b, n) /\ b.markers = MarkersOf[n] /\ e.order = b.markers.order /\ e.source = b.source
  BY <1>3, <1>4, <1>5 DEF Published, OfProject
<1>7. ASSUME NEW f, Mirrors(f, b) PROVE CheckStreamFrame(f) /\ e.order = f.markers.order
  <2> HIDE DEF b, n
  <2>1. Valid(f, n)
    BY <1>6, <1>7, MirrorsValid
  <2>2. f.markers = b.markers
    BY <1>7 DEF Mirrors
  <2> QED
    BY <1>6, <2>1, <2>2, ValidStream
<1>8. CASE CarriesFull(e, g[1])
  <2>1. e.kind = "full" /\ e.content = FullWire(b)
    BY <1>8 DEF CarriesFull
  <2> HIDE DEF b, n
  <2>2. Mirrors(e.content, b)
    BY <1>6, <2>1, FullMirrors
  <2>3. CheckStreamFrame(e.content) /\ e.order = e.content.markers.order
    BY <1>7, <2>2
  <2>4. e.content \in ApplyStream(c.frame, c.stream, c.sequence, e)
    BY <1>5, <2>1, <2>3 DEF ApplyStream
  <2> QED
    BY <2>4 DEF e
<1>9. CASE 1 > First(c) /\ CarriesDelta(e, g[0], g[1])
  <2> DEFINE a == g[0]
  <2>1. c.frame # {} /\ First(c) = 0 /\ 0 \in First(c) .. Len(w)
    BY <1>1, <1>2, <1>9
  <2>2. PICK h : c.frame = {h} /\ Mirrors(h, a)
    BY <2>1 DEF Links
  <2>3. Made(a)
    BY <2>1 DEF Links, Published
  <2>4. e.kind = "delta" /\ e.content = MakeDelta(a, b) /\ SameChain(a, b) /\ a.markers = b.markers
    BY <1>9 DEF CarriesDelta
  <2>5. e.stream = c.stream /\ e.base = c.sequence /\ e.sequence = c.sequence + 1
    BY <1>5, <2>4 DEF Follows
  <2> DEFINE d == ApplyDelta(h, e)
             stream == c.stream
             sequence == c.sequence
  <2> HIDE DEF a, b, n, stream, sequence
  <2>6. e.stream = stream /\ e.base = sequence /\ e.sequence = sequence + 1
    BY <2>5 DEF stream, sequence
  <2>7. DeltaFits(h, stream, sequence, e)
    BY <1>6, <2>2, <2>3, <2>4, <2>6, DeltaFitsMirror
  <2>8. Mirrors(d, b)
    BY <1>6, <2>2, <2>3, <2>4, DeltaMirrors
  <2> HIDE DEF d
  <2>9. SameChain(h, d)
    BY <1>6, <2>2, <2>3, <2>4, <2>8, MirrorsChain
  <2>10. CheckStreamFrame(d) /\ e.order = d.markers.order
    BY <1>7, <2>8
  <2>11. The(c.frame) = h /\ c.frame # {} /\ e.order = h.markers.order
    BY <1>6, <2>2, <2>4, TheOf DEF Mirrors
  <2>12. {d} = {ApplyDelta(The(c.frame), e)}
    BY <2>11 DEF d
  <2>13. d \in {x \in {ApplyDelta(The(c.frame), e)} : SameChain(The(c.frame), x)}
    BY <2>9, <2>11, <2>12
  <2>14. d \in ApplyStream(c.frame, stream, sequence, e)
    <3> DEFINE X == {x \in {ApplyDelta(The(c.frame), e)} : SameChain(The(c.frame), x)}
    <3>1. d \in X
      BY <2>13
    <3>2. e.kind # "full" /\ e.order = The(c.frame).markers.order /\ DeltaFits(The(c.frame), stream, sequence, e)
      BY <2>4, <2>7, <2>11
    <3> HIDE DEF X
    <3>3. ApplyStream(c.frame, stream, sequence, e) = {x \in X : CheckStreamFrame(x) /\ e.order = x.markers.order /\ e.sequence \in 1 .. MaxCounter}
      BY <2>11, <3>2 DEF ApplyStream, X
    <3> QED
      BY <1>5, <2>10, <3>1, <3>3
  <2> QED
    BY <2>14 DEF e, stream, sequence
<1> QED
  BY <1>4, <1>8, <1>9

\* A new topology of the project of a valid frame, and an assembler with classes of the fleets: the frame is accepted.
LEMMA AssemblerAccepts ==
  ASSUME NEW nets, NEW f, Valid(f, nets[f.source.project]), f.markers = MarkersOf[nets[f.source.project]],
         NEW a, ClassesListed(a), NEW t, a.topology = {t}, TopologyOf(t, nets), TopologyMatches(t, f)
  PROVE  FrameAccepted(a, f)
<1> DEFINE n == nets[f.source.project]
           vs == f.vehicles
<1>1. The(a.topology) = t
  BY TheOf
<1>2. t.project = f.source.project /\ t.network = n /\ t.markers = MarkersOf[n] /\ t.lanes = LanesOf[n]
  BY DEF TopologyOf, TopologyMatches
<1>3. FrameBinding(t, f)
  BY <1>2 DEF FrameBinding
<1>4. /\ CheckIncidentFrame(f) /\ CheckFaultFrame(f) /\ CheckEmergencyFrame(f) /\ References(f) /\ FaultLanes(LanesTopology(n), f)
      /\ \A i \in DOMAIN vs : VehicleValid(n, vs[i], f.routes[i])
  BY DEF Valid
<1> HIDE DEF n, vs
<1>5. LanesTopology(n).lanes = t.lanes
  BY <1>2 DEF LanesTopology
<1>6. FaultLanes(t, f)
  BY <1>4, <1>5 DEF FaultLanes
<1>7. \A i \in DOMAIN vs : RouteFits(t, f.routes[i], vs[i].pod)
  BY <1>4, <1>5 DEF RouteFits, VehicleValid
<1>8. ServiceOrders(f, a.classes)
  <2>1. ASSUME NEW i \in DOMAIN vs, vs[i].pod.id \in DOMAIN a.classes PROVE a.classes[vs[i].pod.id] = vs[i].pod.class
    <3>1. PICK p \in Listed : p.id = vs[i].pod.id /\ p.class = a.classes[vs[i].pod.id]
      BY <2>1 DEF ClassesListed
    <3>2. PICK q \in Listed : vs[i].pod.id = q.id /\ vs[i].pod.class = q.class
      BY <1>4, <2>1 DEF VehicleValid
    <3> QED
      BY <3>1, <3>2, OneClass
  <2> QED
    BY <1>4, <2>1 DEF ServiceOrders, VehicleValid, SeatsGood, vs
<1> QED
  BY <1>1, <1>3, <1>4, <1>6, <1>7, <1>8 DEF FrameAccepted, vs

\* The classes that an assembler learns are those of the fleets.
LEMMA ClassesStay ==
  ASSUME NEW a, DOMAIN a = AssemblerFields, ClassesListed(a), NEW f, NEW network, Valid(f, network)
  PROVE  ClassesListed(Assembled(a, f))
<1> DEFINE vs == f.vehicles
           ids == ToSet(Ids(vs))
           at(id) == CHOOSE i \in DOMAIN vs : vs[i].pod.id = id
           class == [i \in DOMAIN vs |-> vs[i].pod.class]
           c == [id \in DOMAIN a.classes \cup ids |-> IF id \in ids THEN class[at(id)] ELSE a.classes[id]]
           x == [i \in DOMAIN vs |-> Present(a, f, i)]
           b == Assembled(a, f)
<1>1. b = [a EXCEPT !.routes = f.routes, !.expanded = x, !.classes = c]
  BY DEF Assembled
<1>2. \A i \in DOMAIN vs : \E p \in Listed : vs[i].pod.id = p.id /\ vs[i].pod.class = p.class
  BY DEF Valid, VehicleValid
<1>3. \A id \in ids : at(id) \in DOMAIN vs /\ vs[at(id)].pod.id = id
  <2>1. \A id \in ids : \E i \in DOMAIN vs : vs[i].pod.id = id
    BY DEF Ids, ToSet
  <2> QED
    BY <2>1
<1>4. \A i \in DOMAIN vs : class[i] = vs[i].pod.class
  OBVIOUS
<1>5. DOMAIN c = DOMAIN a.classes \cup ids /\ \A id \in DOMAIN c : c[id] = IF id \in ids THEN class[at(id)] ELSE a.classes[id]
  OBVIOUS
<1> HIDE DEF c, x, b, class, at, vs, ids
<1>6. b.classes = c
  BY <1>1 DEF AssemblerFields
<1>7. \A id \in DOMAIN c : \E p \in Listed : p.id = id /\ p.class = c[id]
  <2> SUFFICES ASSUME NEW id \in DOMAIN c PROVE \E p \in Listed : p.id = id /\ p.class = c[id]
    OBVIOUS
  <2>1. CASE id \in ids
    <3>1. PICK p \in Listed : vs[at(id)].pod.id = p.id /\ vs[at(id)].pod.class = p.class
      BY <1>2, <1>3, <2>1
    <3>2. p.id = id /\ p.class = c[id]
      BY <1>3, <1>4, <1>5, <2>1, <3>1
    <3> QED
      BY <3>2
  <2>2. CASE id \notin ids
    BY <1>5, <2>2 DEF ClassesListed
  <2> QED
    BY <2>1, <2>2
<1> QED
  BY <1>6, <1>7 DEF ClassesListed, b

\* A publication behind the envelopes under way.
LEMMA AppendWire ==
  ASSUME NEW nets, NEW S, NEW w \in Seq(S), NEW c, WireSound(w, c, nets), NEW e, e.sequence \in 1 .. MaxCounter,
         e.source.project \in 1 .. Len(nets), e.order = MarkersOf[nets[e.source.project]].order,
         e.kind = "delta" => Follows(e, At(w, c, Len(w)))
  PROVE  WireSound(Append(w, e), c, nets)
<1> DEFINE n == Len(w)
           v == Append(w, e)
<1>1. n \in Nat /\ Len(v) = n + 1 /\ v[n + 1] = e /\ (\A k \in 1 .. n : v[k] = w[k])
  <2>1. w \in Seq(S \cup {e}) /\ e \in S \cup {e}
    OBVIOUS
  <2> QED
    BY <2>1
<1>2. e.kind = "delta" => Follows(e, At(w, c, n))
  OBVIOUS
<1> HIDE DEF v, n
<1>3. \A k \in 0 .. n : At(v, c, k) = At(w, c, k)
  BY <1>1 DEF At
<1>4. ASSUME NEW k \in 1 .. n + 1
      PROVE  /\ v[k].sequence \in 1 .. MaxCounter
             /\ v[k].source.project \in 1 .. Len(nets) /\ v[k].order = MarkersOf[nets[v[k].source.project]].order
             /\ v[k].kind = "delta" => Follows(v[k], At(v, c, k - 1))
  <2>1. CASE k = n + 1
    <3>1. v[k] = e /\ k - 1 = n /\ n \in 0 .. n
      BY <1>1, <2>1
    <3> QED
      BY <1>2, <1>3, <3>1
  <2>2. CASE k # n + 1
    <3>1. k \in 1 .. n /\ v[k] = w[k] /\ k - 1 \in 0 .. n
      BY <1>1, <2>2
    <3> QED
      BY <1>3, <3>1 DEF WireSound, n
  <2> QED
    BY <2>1, <2>2
<1> QED
  BY <1>1, <1>4 DEF WireSound, v

LEMMA AppendRevisions ==
  ASSUME NEW S, NEW w \in Seq(S), NEW p, NEW states, NEW revision \in Nat, RevisionsSound(w, p, states, revision),
         NEW e, e.source.revision = revision, NEW q, NEW f, q.frame = {f}, f.source.revision = revision
  PROVE  RevisionsSound(w, q, states, revision) /\ RevisionsSound(Append(w, e), q, states, revision)
<1> DEFINE n == Len(w)
           v == Append(w, e)
<1>1. n \in Nat /\ Len(v) = n + 1 /\ v[n + 1] = e /\ (\A k \in 1 .. n : v[k] = w[k])
  <2>1. w \in Seq(S \cup {e}) /\ e \in S \cup {e}
    OBVIOUS
  <2> QED
    BY <2>1
<1> HIDE DEF v, n
<1>2. /\ \A k \in 1 .. n : w[k].source.revision \in 0 .. revision
      /\ \A j, k \in 1 .. n : j < k => w[j].source.revision <= w[k].source.revision
      /\ \A state \in states : state.source.revision \in 0 .. revision
      /\ \A state \in states : \A k \in 1 .. n : state.source.revision <= w[k].source.revision
  BY DEF RevisionsSound, n
<1>3. \A k \in 1 .. n + 1 : k = n + 1 \/ k \in 1 .. n
  BY <1>1
<1>4. ASSUME NEW k \in 1 .. n + 1 PROVE v[k].source.revision \in 0 .. revision
  <2>1. CASE k = n + 1
    <3>1. v[k].source.revision = revision
      BY <1>1, <2>1
    <3> QED
      BY <3>1
  <2>2. CASE k \in 1 .. n
    BY <1>1, <1>2, <2>2
  <2> QED
    BY <1>3, <2>1, <2>2
<1>5. ASSUME NEW j \in 1 .. n + 1, NEW k \in 1 .. n + 1, j < k PROVE v[j].source.revision <= v[k].source.revision
  <2>1. j \in 1 .. n
    BY <1>1, <1>5
  <2>2. CASE k = n + 1
    BY <1>1, <1>2, <2>1, <2>2
  <2>3. CASE k \in 1 .. n
    BY <1>1, <1>2, <1>5, <2>1, <2>3
  <2> QED
    BY <1>3, <2>2, <2>3
<1>6. ASSUME NEW state \in states, NEW k \in 1 .. n + 1 PROVE state.source.revision <= v[k].source.revision
  BY <1>1, <1>2, <1>3
<1>7. ASSUME NEW h \in q.frame PROVE h = f /\ h.source.revision = revision
  OBVIOUS
<1>8. RevisionsSound(w, q, states, revision)
  <2>1. \A h \in q.frame : /\ h.source.revision \in 0 .. revision
                           /\ \A k \in 1 .. n : w[k].source.revision <= h.source.revision
                           /\ \A state \in states : state.source.revision <= h.source.revision
    BY <1>2, <1>7
  <2> QED
    BY <1>2, <2>1 DEF RevisionsSound, n
<1>9. RevisionsSound(v, q, states, revision)
  <2>1. \A h \in q.frame : /\ h.source.revision \in 0 .. revision
                           /\ \A k \in 1 .. n + 1 : v[k].source.revision <= h.source.revision
                           /\ \A state \in states : state.source.revision <= h.source.revision
    BY <1>2, <1>4, <1>7
  <2> QED
    BY <1>1, <1>2, <1>4, <1>5, <1>6, <2>1 DEF RevisionsSound
<1> QED
  BY <1>8, <1>9 DEF v

\* The client has taken the first envelope.
LEMMA TailWire ==
  ASSUME NEW nets, NEW S, NEW w \in Seq(S), w # <<>>, NEW c, WireSound(w, c, nets), NEW d,
         d.stream = Head(w).stream, d.sequence = Head(w).sequence
  PROVE  WireSound(Tail(w), d, nets)
<1> DEFINE n == Len(w)
           v == Tail(w)
           e == Head(w)
<1>1. n \in Nat \ {0} /\ Len(v) = n - 1 /\ (\A k \in 1 .. n - 1 : v[k] = w[k + 1]) /\ e = w[1]
  OBVIOUS
<1>2. d.stream = e.stream /\ d.sequence = e.sequence
  OBVIOUS
<1> HIDE DEF v, n, e
<1>3. ASSUME NEW k \in 1 .. n - 1 PROVE Follows(v[k], At(w, c, k)) => Follows(v[k], At(v, d, k - 1))
  <2>1. At(w, c, k) = w[k]
    BY DEF At
  <2>2. CASE k = 1
    <3>1. At(v, d, k - 1) = d
      BY <2>2 DEF At
    <3> QED
      BY <1>1, <1>2, <2>1, <2>2, <3>1 DEF Follows
  <2>3. CASE k # 1
    <3>1. k - 1 \in 1 .. n - 1 /\ (k - 1) + 1 = k /\ k - 1 # 0
      BY <1>1, <2>3
    <3>2. At(v, d, k - 1) = v[k - 1]
      BY <3>1 DEF At
    <3>3. v[k - 1] = w[k]
      BY <1>1, <3>1
    <3> QED
      BY <2>1, <3>2, <3>3
  <2> QED
    BY <2>2, <2>3
<1>4. ASSUME NEW k \in 1 .. n - 1
      PROVE  /\ v[k].sequence \in 1 .. MaxCounter
             /\ v[k].source.project \in 1 .. Len(nets) /\ v[k].order = MarkersOf[nets[v[k].source.project]].order
             /\ v[k].kind = "delta" => Follows(v[k], At(v, d, k - 1))
  <2>1. k + 1 \in 1 .. n /\ (k + 1) - 1 = k /\ v[k] = w[k + 1]
    BY <1>1
  <2>2. /\ w[k + 1].sequence \in 1 .. MaxCounter
        /\ w[k + 1].source.project \in 1 .. Len(nets) /\ w[k + 1].order = MarkersOf[nets[w[k + 1].source.project]].order
        /\ w[k + 1].kind = "delta" => Follows(w[k + 1], At(w, c, k))
    BY <2>1 DEF WireSound, n
  <2> QED
    BY <1>3, <2>1, <2>2
<1> QED
  BY <1>1, <1>4 DEF WireSound, v

LEMMA TailRevisions ==
  ASSUME NEW S, NEW w \in Seq(S), w # <<>>, NEW p, NEW states, NEW revision \in Nat, RevisionsSound(w, p, states, revision),
         NEW state, state.source.revision = w[1].source.revision
  PROVE  RevisionsSound(Tail(w), p, {state}, revision)
<1> DEFINE n == Len(w)
           v == Tail(w)
<1>1. n \in Nat \ {0} /\ Len(v) = n - 1 /\ (\A k \in 1 .. n - 1 : v[k] = w[k + 1])
  OBVIOUS
<1> HIDE DEF v, n
<1>2. /\ \A k \in 1 .. n : w[k].source.revision \in 0 .. revision
      /\ \A j, k \in 1 .. n : j < k => w[j].source.revision <= w[k].source.revision
      /\ \A f \in p.frame : /\ f.source.revision \in 0 .. revision
                            /\ \A k \in 1 .. n : w[k].source.revision <= f.source.revision
  BY DEF RevisionsSound, n
<1>3. 1 \in 1 .. n /\ \A k \in 1 .. n - 1 : k + 1 \in 1 .. n /\ 1 < k + 1
  BY <1>1
<1>4. \A k \in 1 .. n - 1 : v[k].source.revision \in 0 .. revision /\ state.source.revision <= v[k].source.revision
  BY <1>1, <1>2, <1>3
<1>5. ASSUME NEW j \in 1 .. n - 1, NEW k \in 1 .. n - 1, j < k PROVE v[j].source.revision <= v[k].source.revision
  <2>1. j + 1 \in 1 .. n /\ k + 1 \in 1 .. n /\ j + 1 < k + 1 /\ v[j] = w[j + 1] /\ v[k] = w[k + 1]
    BY <1>1, <1>3, <1>5
  <2> QED
    BY <1>2, <2>1
<1>6. \A f \in p.frame : /\ f.source.revision \in 0 .. revision
                         /\ \A k \in 1 .. n - 1 : v[k].source.revision <= f.source.revision
                         /\ state.source.revision <= f.source.revision
  BY <1>1, <1>2, <1>3
<1> QED
  BY <1>1, <1>2, <1>3, <1>4, <1>5, <1>6 DEF RevisionsSound, v

\* Nothing is under way.
LEMMA NothingUnderWay ==
  ASSUME NEW w, NEW p, NEW states, NEW revision, RevisionsSound(w, p, states, revision), NEW q, q.frame = {} \/ q.frame = p.frame
  PROVE  RevisionsSound(<<>>, q, states, revision) /\ \A c, nets : WireSound(<<>>, c, nets)
<1>1. Len(<<>>) = 0 /\ \A k : k \notin 1 .. 0
  OBVIOUS
<1>2. \A c, nets : WireSound(<<>>, c, nets)
  BY <1>1 DEF WireSound
<1>3. /\ \A state \in states : state.source.revision \in 0 .. revision
      /\ \A f \in q.frame : f.source.revision \in 0 .. revision /\ \A state \in states : state.source.revision <= f.source.revision
  BY DEF RevisionsSound
<1>4. RevisionsSound(<<>>, q, states, revision)
  BY <1>1, <1>3 DEF RevisionsSound
<1> QED
  BY <1>2, <1>4

\* A connection that ends in an accepted way.
LEMMA CloseAccepted ==
  ASSUME FrameInv, AcceptInv, NEW reason \in {"none", "topology", "contract"}, CloseWith(reason), session' = session, shown' = shown
  PROVE  AcceptInv'
<1>1. client' = Closed /\ wire' = <<>> /\ refused' = reason
  BY DEF CloseWith
<1>2. publisher' = publisher \/ publisher' = [NoFrame EXCEPT !.stream = publisher.stream]
  BY DEF CloseWith
<1>3. (publisher'.frame = {} \/ publisher'.frame = publisher.frame) /\ publisher'.sequence \in 0 .. MaxCounter
  <2>1. publisher.sequence \in 0 .. MaxCounter /\ 0 \in 0 .. MaxCounter
    BY FrameStreamAssumption DEF AcceptInv
  <2> QED
    BY <1>2, <2>1 DEF NoFrame
<1>4. RevisionsSound(wire, publisher, shown, session.revision)
  BY DEF AcceptInv
<1>5. RevisionsSound(<<>>, publisher', shown, session.revision) /\ WireSound(<<>>, Closed, session.networks)
  BY <1>3, <1>4, NothingUnderWay
<1>6. ClassesListed(client'.assembler)
  BY <1>1 DEF Closed, NoAssembler, ClassesListed
<1>7. refused' \in {"none", "topology", "contract"}
  BY <1>1
<1> QED
  BY <1>1, <1>3, <1>5, <1>6, <1>7 DEF AcceptInv, PublicationsAccepted

\* The start.
LEMMA InitAccepted == FrameInit => AcceptInv
<1> SUFFICES ASSUME FrameInit PROVE AcceptInv
  OBVIOUS
<1>1. wire = <<>> /\ client = Closed /\ publisher = NoFrame /\ shown = {} /\ refused = "none"
  BY DEF FrameInit
<1>2. publisher.frame = {} /\ publisher.sequence = 0 /\ 0 \in 0 .. MaxCounter
  BY <1>1, FrameStreamAssumption DEF NoFrame
<1>3. WireSound(wire, client, session.networks) /\ RevisionsSound(wire, publisher, shown, session.revision)
  <2>1. Len(wire) = 0 /\ \A k : k \notin 1 .. 0
    BY <1>1
  <2> QED
    BY <1>1, <1>2, <2>1 DEF WireSound, RevisionsSound
<1>4. ClassesListed(client.assembler)
  BY <1>1 DEF Closed, NoAssembler, ClassesListed
<1> QED
  BY <1>1, <1>2, <1>3, <1>4 DEF AcceptInv, PublicationsAccepted

\* A step of the session, and the restart of the server.
LEMMA SessionAccepted ==
  ASSUME FrameInv, AcceptInv, SessionStep \/ Restart
  PROVE  AcceptInv'
<1> DEFINE nets == session.networks
           new == session'.networks
           r == session.revision
           s == session'.revision
<1>1. Extends(nets, new) /\ s = r + 1 /\ r \in Nat /\ Len(nets) \in Nat /\ Len(new) \in Nat
  <2>1. SessionSound(session) /\ SessionGood(session) /\ scene \in Scenes
    BY DEF FrameInv
  <2>2. SessionSound(session') /\ Extends(nets, new)
    BY <2>1, SessionStepSound
  <2>3. Len(nets) \in Nat /\ Len(new) \in Nat
    BY <2>1, <2>2 DEF SessionSound
  <2>4. s = r + 1
    BY <2>1, RevisionGrows
  <2> QED
    BY <2>1, <2>2, <2>3, <2>4 DEF SessionGood
<1>2. /\ WireSound(wire, client, nets) /\ RevisionsSound(wire, publisher, shown, r) /\ publisher.sequence \in 0 .. MaxCounter
      /\ ClassesListed(client.assembler) /\ PublicationsAccepted
  BY DEF AcceptInv
<1> HIDE DEF nets, new, r, s
<1>3. WireSound(wire, client, new)
  <2>1. \A k \in 1 .. Len(nets) : k \in 1 .. Len(new) /\ new[k] = nets[k]
    BY <1>1 DEF Extends
  <2> QED
    BY <1>2, <2>1 DEF WireSound
<1>4. RevisionsSound(wire, publisher, shown, s)
  <2>1. \A x \in 0 .. r : x \in 0 .. s
    BY <1>1
  <2> QED
    BY <1>2, <2>1 DEF RevisionsSound
<1>5. CASE SessionStep
  <2>1. UNCHANGED <<scene, publisher, wire, client, shown, refused>>
    BY <1>5 DEF SessionStep
  <2> QED
    BY <1>2, <1>3, <1>4, <2>1 DEF AcceptInv, PublicationsAccepted, new, s
<1>6. CASE Restart
  <2>1. /\ publisher' = [NoFrame EXCEPT !.stream = publisher.stream] /\ wire' = <<>> /\ client' = Closed
        /\ shown' = shown /\ refused' = refused
    BY <1>6 DEF Restart
  <2>2. publisher'.frame = {} /\ publisher'.sequence = 0 /\ 0 \in 0 .. MaxCounter
    BY <2>1, FrameStreamAssumption DEF NoFrame
  <2>3. RevisionsSound(<<>>, publisher', shown, s) /\ WireSound(<<>>, Closed, new)
    BY <1>4, <2>2, NothingUnderWay
  <2>4. ClassesListed(client'.assembler)
    BY <2>1 DEF Closed, NoAssembler, ClassesListed
  <2> QED
    BY <1>2, <2>1, <2>2, <2>3, <2>4 DEF AcceptInv, PublicationsAccepted, new, s
<1> QED
  BY <1>5, <1>6

\* A publication continues the chain of the last one, or starts another with a full frame.
LEMMA PublishAccepted ==
  ASSUME FrameInv, AcceptInv, Publish
  PROVE  AcceptInv'
<1> DEFINE nets == session.networks
           p == publisher
           q == publisher'
           frame == PresentationFrame
           reset == p.sequence \in {0, MaxCounter} \/ ~SameChain(The(p.frame), frame)
           full == FullEnvelope(frame, q.stream, q.sequence)
           delta == DeltaEnvelope(The(p.frame), frame, p.stream, p.sequence)
<1>1. /\ session' = session /\ client' = client /\ shown' = shown /\ refused' = refused
      /\ q = IF reset THEN [frame |-> {frame}, stream |-> p.stream + 1, sequence |-> 1] ELSE [p EXCEPT !.frame = {frame}, !.sequence = @ + 1]
      /\ \/ ~client.open /\ wire' = wire
         \/ client.open /\ wire' = Append(wire, full)
         \/ client.open /\ ~reset /\ wire' = Append(wire, delta)
  BY DEF Publish
<1>2. SessionSound(session) /\ SessionGood(session) /\ PublisherSound(p, nets) /\ ConnectionSound(wire, client, p, nets)
  BY DEF FrameInv
<1>3. /\ frame.source.project \in 1 .. Len(nets) /\ frame.markers = MarkersOf[nets[frame.source.project]]
      /\ frame.source.revision = session.revision
  <2>1. frame.source.project = session.project /\ frame.markers = MarkersOf[nets[session.project]]
    BY <1>2, FrameMade
  <2>2. session.project \in 1 .. Len(nets)
    BY <1>2 DEF SessionSound
  <2>3. frame.source.revision = session.revision
    BY <1>2, FrameParts
  <2> HIDE DEF frame
  <2> QED
    BY <2>1, <2>2, <2>3
<1>4. /\ full.source = frame.source /\ full.sequence = q.sequence /\ full.kind = "full" /\ full.order = frame.markers.order
      /\ delta.source = frame.source /\ delta.stream = p.stream /\ delta.sequence = p.sequence + 1 /\ delta.base = p.sequence
      /\ delta.order = frame.markers.order
  <2> HIDE DEF frame, p, q
  <2> QED
    BY DEF FullEnvelope, DeltaEnvelope, Envelope, SourceOf
<1>5. p.sequence \in 0 .. MaxCounter /\ MaxCounter \in Nat \ {0, 1}
  BY FrameStreamAssumption DEF AcceptInv
<1>6. reset \/ (p.sequence # 0 /\ p.sequence # MaxCounter)
  OBVIOUS
<1>7. /\ RevisionsSound(wire, p, shown, session.revision) /\ WireSound(wire, client, nets)
      /\ ClassesListed(client.assembler) /\ PublicationsAccepted /\ session.revision \in Nat
  BY <1>2 DEF AcceptInv, SessionGood
<1> HIDE DEF frame, reset, full, delta, p
<1>8. /\ q.frame = {frame} /\ q.sequence \in 1 .. MaxCounter
      /\ ~reset => q.sequence = p.sequence + 1
  <2>1. CASE reset
    <3>1. q = [frame |-> {frame}, stream |-> p.stream + 1, sequence |-> 1]
      BY <1>1, <2>1
    <3> QED
      BY <1>5, <2>1, <3>1
  <2>2. CASE ~reset
    <3>1. q = [p EXCEPT !.frame = {frame}, !.sequence = @ + 1]
      BY <1>1, <2>2
    <3>2. q.frame = {frame} /\ q.sequence = p.sequence + 1
      BY <1>2, <3>1 DEF PublisherSound, PublisherFields
    <3> QED
      BY <1>5, <1>6, <2>2, <3>2
  <2> QED
    BY <2>1, <2>2
<1> HIDE DEF q
<1>9. q.sequence \in 0 .. MaxCounter
  BY <1>8
<1>10. PICK S : wire \in Seq(S)
  BY <1>2 DEF ConnectionSound
<1>11. /\ RevisionsSound(wire, q, shown, session.revision)
       /\ \A e : e.source = frame.source => RevisionsSound(Append(wire, e), q, shown, session.revision)
  <2>1. \A e : e.source = frame.source => e.source.revision = session.revision
    BY <1>3
  <2>2. \E e : e.source = frame.source
    BY <1>4
  <2>3. \A e : e.source = frame.source => RevisionsSound(wire, q, shown, session.revision) /\ RevisionsSound(Append(wire, e), q, shown, session.revision)
    BY <1>3, <1>7, <1>8, <1>10, <2>1, AppendRevisions
  <2> QED
    BY <2>2, <2>3
<1>12. RevisionsSound(wire', q, shown, session.revision) /\ WireSound(wire', client, nets)
  <2>1. CASE wire' = wire
    BY <1>7, <1>11, <2>1
  <2>2. CASE wire' = Append(wire, full)
    <3>1. WireSound(Append(wire, full), client, nets)
      <4>1. /\ full.sequence \in 1 .. MaxCounter /\ full.source.project \in 1 .. Len(nets)
            /\ full.order = MarkersOf[nets[full.source.project]].order /\ ~(full.kind = "delta")
        BY <1>3, <1>4, <1>8
      <4> QED
        BY <1>7, <1>10, <4>1, AppendWire
    <3> QED
      BY <1>4, <1>11, <2>2, <3>1
  <2>3. CASE client.open /\ ~reset /\ wire' = Append(wire, delta)
    <3>1. Follows(delta, At(wire, client, Len(wire)))
      <4>1. PICK g : Chain(g, wire, client, p, nets)
        BY <1>2 DEF ConnectionSound
      <4>2. First(client) <= Len(wire)
        <5>1. First(client) \in {0, 1} /\ Len(wire) \in Nat
          BY <1>10 DEF First
        <5>2. ~(First(client) > Len(wire))
          BY <1>6, <2>3, <4>1 DEF Chain, EndsWith
        <5> QED
          BY <5>1, <5>2
      <4>3. p.stream = At(wire, client, Len(wire)).stream /\ p.sequence = At(wire, client, Len(wire)).sequence
        BY <4>1, <4>2 DEF Chain, EndsWith
      <4> QED
        BY <1>4, <4>3 DEF Follows
    <3>2. WireSound(Append(wire, delta), client, nets)
      <4>1. /\ delta.sequence \in 1 .. MaxCounter /\ delta.source.project \in 1 .. Len(nets)
            /\ delta.order = MarkersOf[nets[delta.source.project]].order
        BY <1>3, <1>4, <1>8, <2>3
      <4> QED
        BY <1>7, <1>10, <3>1, <4>1, AppendWire
    <3> QED
      BY <1>4, <1>11, <2>3, <3>2
  <2> QED
    BY <1>1, <2>1, <2>2, <2>3
<1> QED
  BY <1>1, <1>7, <1>9, <1>12 DEF AcceptInv, PublicationsAccepted, q

\* A connection starts with the last publication in full.
LEMMA ConnectAccepted ==
  ASSUME FrameInv, AcceptInv, Connect
  PROVE  AcceptInv'
<1> DEFINE p == publisher
           nets == session.networks
           o == Markers.order
<1>1. /\ client' = [Closed EXCEPT !.open = TRUE, !.order = o]
      /\ wire' = (IF p.sequence = 0 THEN <<>> ELSE <<FullEnvelope(The(p.frame), p.stream, p.sequence)>>)
      /\ UNCHANGED <<scene, session, publisher, shown, refused, drops>>
  BY DEF Connect
<1>2. /\ RevisionsSound(wire, p, shown, session.revision) /\ p.sequence \in 0 .. MaxCounter /\ PublicationsAccepted
      /\ PublisherSound(p, nets)
  BY DEF AcceptInv, FrameInv
<1> HIDE DEF o, p
<1>3. client'.assembler = NoAssembler
  BY <1>1 DEF Closed
<1>4. ClassesListed(client'.assembler)
  BY <1>3 DEF NoAssembler, ClassesListed
<1>5. RevisionsSound(wire', p, shown, session.revision) /\ WireSound(wire', client', nets)
  <2>1. CASE p.sequence = 0
    <3>1. RevisionsSound(<<>>, p, shown, session.revision) /\ \A c, n : WireSound(<<>>, c, n)
      BY <1>2, NothingUnderWay
    <3> QED
      BY <1>1, <2>1, <3>1
  <2>2. CASE p.sequence # 0
    <3>1. PICK f : p.frame = {f} /\ Published(f, nets)
      BY <1>2, <2>2 DEF PublisherSound
    <3> DEFINE e == FullEnvelope(f, p.stream, p.sequence)
               w == wire'
    <3>2. w = <<e>>
      BY <1>1, <2>2, <3>1, TheOf
    <3>3. e.kind = "full" /\ e.source = f.source /\ e.sequence = p.sequence /\ e.order = f.markers.order
      BY DEF FullEnvelope, Envelope, SourceOf
    <3> HIDE DEF e, w
    <3>4. Len(w) = 1 /\ w[1] = e /\ (\A k : k \in 1 .. Len(w) => k = 1)
      BY <3>2
    <3>5. WireSound(w, client', nets)
      <4>1. /\ e.sequence \in 1 .. MaxCounter /\ e.source.project \in 1 .. Len(nets)
            /\ e.order = MarkersOf[nets[e.source.project]].order /\ ~(e.kind = "delta")
        BY <1>2, <2>2, <3>1, <3>3 DEF Published, OfProject
      <4> QED
        BY <3>4, <4>1 DEF WireSound
    <3>6. RevisionsSound(w, p, shown, session.revision)
      <4>1. /\ f.source.revision \in 0 .. session.revision
            /\ \A state \in shown : state.source.revision \in 0 .. session.revision /\ state.source.revision <= f.source.revision
        BY <1>2, <3>1 DEF RevisionsSound
      <4>2. e.source.revision <= f.source.revision
        BY <3>3, <4>1
      <4>3. \A j, k \in 1 .. Len(w) : ~(j < k)
        BY <3>4
      <4>4. \A h \in p.frame : h = f
        BY <3>1
      <4> QED
        BY <3>3, <3>4, <4>1, <4>2, <4>3, <4>4 DEF RevisionsSound
    <3> QED
      BY <3>5, <3>6 DEF w
  <2> QED
    BY <2>1, <2>2
<1> QED
  BY <1>1, <1>2, <1>4, <1>5 DEF AcceptInv, PublicationsAccepted, p

\* The frame that an assembler with the topology of its project refuses is none that the server publishes.
LEMMA AcceptAccepted ==
  ASSUME FrameInv, AcceptInv, client.open, wire # <<>>, NEW g, Chain(g, wire, client, publisher, session.networks),
         NEW f, Mirrors(f, g[1]), NEW a, AssemblerSound(a, session.networks), ClassesListed(a), NEW t, a.topology = {t},
         TopologyMatches(t, f), Accept(Head(wire), f, a), session' = session
  PROVE  AcceptInv'
<1> DEFINE nets == session.networks
           n == nets[f.source.project]
<1>1. PICK S : wire \in Seq(S)
  BY DEF FrameInv, ConnectionSound
<1>2. 1 \in 1 .. Len(wire) /\ Head(wire) = wire[1]
  BY <1>1
<1>3. Published(g[1], nets) /\ wire[1].source = g[1].source
  <2>1. 1 \in First(client) .. Len(wire)
    BY <1>2 DEF First
  <2> QED
    BY <1>2, <2>1 DEF Chain, Links
<1>4. f.source = g[1].source /\ f.markers = g[1].markers
  BY DEF Mirrors
<1>5. Valid(f, n) /\ f.markers = MarkersOf[n]
  <2> DEFINE b == g[1]
  <2>1. Made(b) /\ Valid(b, nets[b.source.project]) /\ b.markers = MarkersOf[nets[b.source.project]] /\ b.source = f.source
        /\ f.markers = b.markers /\ Mirrors(f, b)
    BY <1>3, <1>4 DEF Published, OfProject
  <2> HIDE DEF b
  <2>2. Valid(f, nets[b.source.project])
    BY <2>1, MirrorsValid
  <2> QED
    BY <2>1, <2>2
<1>6. DOMAIN a = AssemblerFields /\ TopologyOf(t, nets)
  BY DEF AssemblerSound
<1>7. FrameAccepted(a, f)
  BY <1>5, <1>6, AssemblerAccepts
<1>8. /\ RevisionsSound(wire, publisher, shown, session.revision) /\ WireSound(wire, client, nets)
      /\ publisher.sequence \in 0 .. MaxCounter /\ PublicationsAccepted /\ session.revision \in Nat
  BY DEF AcceptInv, FrameInv, SessionGood
<1>9. ~StaleState(f)
  <2> SUFFICES ASSUME StaleState(f) PROVE FALSE
    OBVIOUS
  <2>1. The(shown) \in shown
    BY DEF StaleState, The
  <2> DEFINE s == The(shown)
  <2>2. f.source.revision < s.source.revision
    BY DEF StaleState
  <2> HIDE DEF s
  <2>3. s \in shown
    BY <2>1 DEF s
  <2>4. s.source.revision <= f.source.revision /\ s.source.revision \in Nat /\ f.source.revision \in Nat
    <3>1. f.source = wire[1].source
      BY <1>3, <1>4
    <3> QED
      BY <1>2, <1>8, <2>3, <3>1 DEF RevisionsSound
  <2> QED
    BY <2>2, <2>4
<1> DEFINE next == Assembled(a, f)
           x == Head(wire).stream
           y == Head(wire).sequence
           d == client'
           state == StateOf(f, next)
<1>10. /\ shown' = {state} /\ wire' = Tail(wire) /\ publisher' = publisher /\ refused' = refused
       /\ d = [client EXCEPT !.frame = {f}, !.stream = x, !.sequence = y, !.assembler = next, !.asking = {}]
  BY <1>7, <1>9 DEF Accept
<1>11. DOMAIN client = ClientFields
  BY DEF FrameInv, ConnectionSound
<1>12. ClassesListed(next)
  BY <1>5, <1>6, ClassesStay
<1>13. state.source.revision = wire[1].source.revision
  BY <1>3, <1>4 DEF StateOf
<1> HIDE DEF x, y, next, state
<1>14. d.stream = x /\ d.sequence = y /\ d.assembler = next
  BY <1>10, <1>11 DEF ClientFields
<1> HIDE DEF d
<1>15. WireSound(Tail(wire), d, nets)
  <2>1. d.stream = Head(wire).stream /\ d.sequence = Head(wire).sequence
    BY <1>14 DEF x, y
  <2> QED
    BY <1>1, <1>8, <2>1, TailWire
<1>16. RevisionsSound(Tail(wire), publisher, {state}, session.revision)
  BY <1>1, <1>8, <1>13, TailRevisions
<1>17. WireSound(wire', client', session'.networks) /\ ClassesListed(client'.assembler)
  BY <1>10, <1>12, <1>14, <1>15 DEF d
<1> QED
  BY <1>8, <1>10, <1>16, <1>17 DEF AcceptInv, PublicationsAccepted

\* What arrives has a candidate, which the client accepts or asks about.
LEMMA ReceiveAccepted ==
  ASSUME FrameInv, AcceptInv, Receive
  PROVE  AcceptInv'
<1> DEFINE nets == session.networks
           e == Head(wire)
           x == ApplyStream(client.frame, client.stream, client.sequence, e)
<1>1. client.open /\ wire # <<>> /\ scene' = scene /\ session' = session
  BY DEF Receive
<1>2. PICK g : Chain(g, wire, client, publisher, nets)
  BY DEF FrameInv, ConnectionSound
<1>3. PICK S : wire \in Seq(S)
  BY DEF FrameInv, ConnectionSound
<1>4. x # {}
  BY <1>1, <1>2, <1>3, CandidateExists DEF Chain, AcceptInv
<1>5. CASE CloseWith("contract") /\ shown' = shown
  BY <1>1, <1>5, CloseAccepted
<1>6. CASE KnowsTopology(The(x)) /\ Accept(e, The(x), client.assembler)
  <2>1. The(x) \in x
    BY <1>4, CandidateOnly
  <2>2. Mirrors(The(x), g[1])
    BY <1>1, <1>2, <1>3, <2>1, CandidateMirrors DEF Chain
  <2> DEFINE f == The(x)
             a == client.assembler
  <2>3. AssemblerSound(a, nets) /\ ClassesListed(a)
    BY DEF FrameInv, AcceptInv
  <2>4. PICK t \in a.topology : TopologyMatches(t, f)
    BY <1>6 DEF KnowsTopology
  <2>5. a.topology = {t}
    BY <2>3, <2>4 DEF AssemblerSound
  <2> HIDE DEF f, a, x
  <2>6. Mirrors(f, g[1]) /\ Accept(Head(wire), f, a)
    BY <1>6, <2>2 DEF f, a
  <2> QED
    BY <1>1, <1>2, <2>3, <2>4, <2>5, <2>6, AcceptAccepted
<1>7. CASE client' = [client EXCEPT !.asking = x] /\ UNCHANGED <<publisher, wire, shown, refused>>
  <2>1. DOMAIN client = ClientFields
    BY DEF FrameInv, ConnectionSound
  <2> HIDE DEF x
  <2>2. client'.assembler = client.assembler /\ client'.stream = client.stream /\ client'.sequence = client.sequence
    BY <1>7, <2>1 DEF ClientFields
  <2>3. \A k : At(wire, client', k).stream = At(wire, client, k).stream /\ At(wire, client', k).sequence = At(wire, client, k).sequence
    BY <2>2 DEF At
  <2>4. \A k, v : Follows(v, At(wire, client, k)) => Follows(v, At(wire, client', k))
    BY <2>3 DEF Follows
  <2>5. WireSound(wire, client', nets)
    BY <2>4 DEF WireSound, AcceptInv
  <2> QED
    BY <1>1, <1>7, <2>2, <2>5 DEF AcceptInv, PublicationsAccepted
<1> QED
  <2>1. \/ CloseWith("contract") /\ shown' = shown
        \/ x # {} /\ KnowsTopology(The(x)) /\ Accept(e, The(x), client.assembler)
        \/ x # {} /\ client' = [client EXCEPT !.asking = x] /\ UNCHANGED <<publisher, wire, shown, refused>>
    BY <1>4 DEF Receive
  <2> QED
    BY <1>5, <1>6, <1>7, <2>1

\* The answer to the request for the topology.
LEMMA ReceiveTopologyAccepted ==
  ASSUME FrameInv, AcceptInv, ReceiveTopology
  PROVE  AcceptInv'
<1> DEFINE nets == session.networks
           f == The(client.asking)
           t == TopologySnapshot
<1>1. client.open /\ client.asking # {} /\ scene' = scene /\ session' = session
  BY DEF ReceiveTopology
<1>2. PICK g : Chain(g, wire, client, publisher, nets)
  BY DEF FrameInv, ConnectionSound
<1>3. PICK h : client.asking = {h} /\ wire # <<>> /\ Mirrors(h, g[1])
  BY <1>1, <1>2 DEF Chain, Asked
<1>4. f = h
  BY <1>3, TheOf
<1>5. CASE (CloseWith("topology") \/ CloseWith("contract")) /\ shown' = shown
  BY <1>1, <1>5, CloseAccepted
<1>6. CASE TopologyMatches(t, f) /\ Accept(Head(wire), f, FreshAssembler(t))
  <2> DEFINE a == FreshAssembler(t)
  <2>1. TopologyOf(t, nets)
    <3>1. nets[session.project] = session.world.network /\ session.project \in 1 .. Len(nets)
      BY DEF FrameInv, SessionSound
    <3>2. /\ t.project = session.project /\ t.network = session.world.network
          /\ t.markers = MarkersOf[session.world.network] /\ t.lanes = LanesOf[session.world.network]
      BY DEF TopologySnapshot, Markers
    <3> QED
      BY <3>1, <3>2 DEF TopologyOf
  <2> HIDE DEF t
  <2>2. a.topology = {t} /\ DOMAIN a = AssemblerFields /\ a.routes = <<>> /\ a.classes = <<>>
    BY DEF FreshAssembler, NewAssembler, NoAssembler, AssemblerFields
  <2> HIDE DEF a, f
  <2>3. AssemblerSound(a, nets) /\ ClassesListed(a)
    BY <2>1, <2>2 DEF AssemblerSound, ClassesListed
  <2>4. Mirrors(f, g[1]) /\ TopologyMatches(t, f) /\ Accept(Head(wire), f, a)
    BY <1>3, <1>4, <1>6 DEF a
  <2> QED
    BY <1>1, <1>2, <1>3, <2>2, <2>3, <2>4, AcceptAccepted
<1> QED
  BY <1>5, <1>6 DEF ReceiveTopology

LEMMA AcceptNext == FrameInv /\ AcceptInv /\ [FrameNext]_frameVars => AcceptInv'
<1> SUFFICES ASSUME FrameInv, AcceptInv, [FrameNext]_frameVars PROVE AcceptInv'
  OBVIOUS
<1>1. CASE SessionStep \/ Restart
  BY <1>1, SessionAccepted
<1>2. CASE Drop
  BY <1>2, CloseAccepted DEF Drop
<1>3. CASE Publish
  BY <1>3, PublishAccepted
<1>4. CASE Connect
  BY <1>4, ConnectAccepted
<1>5. CASE Receive
  BY <1>5, ReceiveAccepted
<1>6. CASE ReceiveTopology
  BY <1>6, ReceiveTopologyAccepted
<1>7. CASE UNCHANGED frameVars
  BY <1>7 DEF frameVars, AcceptInv, PublicationsAccepted
<1> QED
  BY <1>1, <1>2, <1>3, <1>4, <1>5, <1>6, <1>7 DEF FrameNext, ClientStep

\* ApplyStream and StreamAssembler.State: along every history of the session,
\* with its faults, emergencies, projects and restarts, no frame that the
\* server publishes fails the checks of the client, the fit of a delta to its
\* predecessor or the order of the revisions; a connection is closed only
\* because the project changed around the request for the topology.
THEOREM PublicationsAreAccepted == FrameSpec => []PublicationsAccepted
<1>1. FrameInit => FrameInv /\ AcceptInv
  BY FrameInitSound, InitAccepted
<1>2. (FrameInv /\ AcceptInv) /\ [FrameNext]_frameVars => (FrameInv /\ AcceptInv)'
  BY FrameNextSound, AcceptNext
<1>3. AcceptInv => PublicationsAccepted
  BY DEF AcceptInv
<1> QED
  BY <1>1, <1>2, <1>3, PTL DEF FrameSpec
=============================================================================
