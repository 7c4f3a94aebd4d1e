------------------------------- MODULE MCFleet -------------------------------
EXTENDS Fleet

MCHome == [p \in 1 .. 2 |-> IF p = 1 THEN "a" ELSE "b"]
MCCuts == {{}, {"b"}}

AtoB == [from |-> "a", to |-> "b"]
AtoC == [from |-> "a", to |-> "c"]
BtoC == [from |-> "b", to |-> "c"]

\* Shared rides with a stop on the way, pickups of two stations, and the supply policies, each with its incidents.
Plain == [journey |-> <<AtoB, AtoC>>, reassign |-> TRUE, onboard |-> TRUE, defer |-> TRUE, swaps |-> FALSE,
          positioning |-> FALSE, faults |-> 0, starts |-> 0, restores |-> 0, moves |-> 0]
Crossing == [Plain EXCEPT !.journey = <<AtoC, BtoC>>]
MCOptions == {[Plain EXCEPT !.journey = <<AtoB, AtoC, BtoC>>, !.starts = 1],
              [Plain EXCEPT !.faults = 1, !.starts = 1],
              [Plain EXCEPT !.restores = 1, !.starts = 1],
              [Crossing EXCEPT !.faults = 1, !.restores = 1],
              [Crossing EXCEPT !.swaps = TRUE, !.positioning = TRUE, !.restores = 1, !.moves = 1],
              [Crossing EXCEPT !.swaps = TRUE, !.faults = 1]}
MCLiveOptions == {[Plain EXCEPT !.faults = 1, !.starts = 1], [Plain EXCEPT !.restores = 1]}
=============================================================================
