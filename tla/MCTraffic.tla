----------------------------- MODULE MCTraffic -----------------------------
(***************************************************************************)
(* A ring of two stations with two berths each.  Pods leave A's berths to  *)
(* the exit ax, go on by lane AB to the entry be of B, and back by BA.     *)
(* The lanes that leave the berths of A merge at ax, the access lanes of   *)
(* both stations diverge at the entry, and at bd the entry lane of B, all  *)
(* of it in one conflict zone, diverges from the lane that passes B.       *)
(***************************************************************************)
EXTENDS TrafficRestore

\* "@@ <<>>" makes TLC keep a function as a table.
MCLanes == {"a1x", "a2x", "AB", "Bin", "Pass", "eb3", "eb4", "b3x", "b4x", "BA", "ea1", "ea2"}
MCNodes == {"n1", "n2", "n3", "n4", "ax", "bd", "be", "bx", "ae"}
MCFrom == [l \in MCLanes |->
  CASE l = "a1x" -> "n1" [] l = "a2x" -> "n2" [] l = "AB" -> "ax" [] l \in {"Bin", "Pass"} -> "bd" [] l \in {"eb3", "eb4"} -> "be"
    [] l = "b3x" -> "n3" [] l = "b4x" -> "n4" [] l = "BA" -> "bx" [] l \in {"ea1", "ea2"} -> "ae"] @@ <<>>
MCTo == [l \in MCLanes |->
  CASE l \in {"a1x", "a2x"} -> "ax" [] l = "AB" -> "bd" [] l = "Bin" -> "be" [] l = "eb3" -> "n3" [] l = "eb4" -> "n4"
    [] l \in {"b3x", "b4x", "Pass"} -> "bx" [] l = "BA" -> "ae" [] l = "ea1" -> "n1" [] l = "ea2" -> "n2"] @@ <<>>
MCCells == [l \in MCLanes |-> IF l = "AB" THEN 4 ELSE 2] @@ <<>>
MCRole == [l \in MCLanes |->
  CASE l \in {"a1x", "a2x", "b3x", "b4x"} -> "departure" [] l \in {"ea1", "ea2", "eb3", "eb4"} -> "access"
    [] l = "Bin" -> "entry" [] OTHER -> "road"] @@ <<>>
MCJunctions == {{<<"a1x", 2>>, <<"a2x", 2>>}, {<<"b3x", 2>>, <<"b4x", 2>>},
                {<<"Bin", 1>>, <<"Bin", 2>>, <<"Pass", 1>>},
                {<<"ea1", 1>>, <<"ea2", 1>>}, {<<"eb3", 1>>, <<"eb4", 1>>}}
MCBerths == 1..4
MCBerthNode == <<"n1", "n2", "n3", "n4">>
MCBerthStation == <<"A", "A", "B", "B">>
MCStations == {"A", "B"}
MCEntry == [s \in MCStations |-> IF s = "A" THEN "ae" ELSE "be"] @@ <<>>
MCAccess == <<"ea1", "ea2", "eb3", "eb4">>
\* The rest of the ring from a node to the entry of a station.
ToB == [n \in MCNodes |->
  CASE n = "n1" -> <<"a1x", "AB", "Bin">> [] n = "n2" -> <<"a2x", "AB", "Bin">> [] n = "ax" -> <<"AB", "Bin">>
    [] n = "bd" -> <<"Bin">> [] OTHER -> <<>>] @@ <<>>
ToA == [n \in MCNodes |->
  CASE n = "n3" -> <<"b3x", "BA">> [] n = "n4" -> <<"b4x", "BA">> [] n = "bx" -> <<"BA">> [] OTHER -> <<>>] @@ <<>>
\* Past B, or through a berth of A and from the entry of B, as a pod that
\* goes round does.
MCRoadTo == [n \in MCNodes |-> [s \in MCStations |->
  IF s = "B" THEN IF n \in {"n1", "n2", "ax", "bd", "be"} THEN ToB[n]
                  ELSE ToA[n] \o (IF n = "ae" \/ n \in {"n3", "n4", "bx"} THEN <<"ea1">> ELSE <<>>) \o ToB["n1"]
  ELSE IF n \in {"n3", "n4", "bx", "ae"} THEN ToA[n]
       ELSE IF n = "be" THEN <<"eb3">> \o ToA["n3"]
       ELSE SubSeq(ToB[n], 1, Len(ToB[n]) - 1) \o <<"Pass", "BA">>] @@ <<>>] @@ <<>>
MCStart == [p \in 1..PodCount |-> IF p = 3 THEN 3 ELSE p]

Scene(ts, n, is, k, ps, sure) ==
  [trips |-> ts, maxTrips |-> n, incidents |-> is, maxIncidents |-> k, movers |-> ps, steady |-> sure,
   restarts |-> 0, budget |-> 0, recorded |-> FALSE]
\* With one restart, within a budget of blocks.
Restarted(scn, blocks, boardings) == [scn EXCEPT !.restarts = 1, !.budget = blocks, !.recorded = boardings]
MCScenes == {
  Scene({"passenger"}, 2, {}, 0, {1, 2}, FALSE),
  Scene({"passenger"}, 2, {}, 0, {1, 2, 3}, TRUE),
  Scene({"passenger"}, 2, {"emergency"}, 1, {1, 2}, TRUE),
  Restarted(Scene({"passenger"}, 2, {}, 0, {1, 2}, TRUE), 0, FALSE),
  Restarted(Scene({"passenger"}, 2, {}, 0, {1, 2}, TRUE), 17, TRUE),
  Restarted(Scene({"passenger"}, 2, {}, 0, {1, 2}, TRUE), 17, FALSE),
  Scene({"pickup"}, 2, {}, 0, {1, 2}, TRUE),
  Restarted(Scene({"pickup"}, 1, {}, 0, {1}, TRUE), 0, FALSE),
  Restarted(Scene({"parking"}, 1, {"fault"}, 1, {1}, TRUE), 0, FALSE),
  Scene({"parking"}, 2, {"fault"}, 1, {1, 2}, TRUE),
  Scene({"pickup"}, 1, {"fault", "debris"}, 1, {1}, TRUE),
  Restarted(Scene({"passenger"}, 1, {"debris"}, 1, {1}, TRUE), 0, FALSE)}
=============================================================================
