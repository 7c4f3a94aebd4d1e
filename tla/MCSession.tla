----------------------------- MODULE MCSession -----------------------------
(* Small instances of Session for TLC.                                     *)
EXTENDS Session, TLC

CONSTANTS n1, n2, d1, d2, q1, c1, c2, c3, h1, h2

MCNets == {n1, n2}
MCDemands == {d1, d2}
MCOneNet == {n1}
MCOneDemand == {d1}
MCPolicies == {q1}
MCDefault == [net |-> n1, demand |-> d1, policy |-> q1]
MCClients == {c1, c2, c3}
MCOneClient == {c1}
MCHandlers == {h1, h2}
MCOneHandler == {h1}

MCFleetActions == {"fleet"}
MCResetActions == {"reset"}
MCSaveActions == {"pause", "project"}
MCDemandActions == {"demand", "demo"}

Symmetry == Permutations(MCClients) \cup Permutations(MCHandlers)
=============================================================================
