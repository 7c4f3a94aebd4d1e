---------------------------- MODULE MCSavePoints ----------------------------
(* A small instance of SavePoints for TLC.                                 *)
EXTENDS SavePoints

CONSTANTS n1, n2, d1, d2, q1

MCNets == {n1, n2}
MCDemands == {d1, d2}
MCPolicies == {q1}
MCDefault == [net |-> n1, demand |-> d1, policy |-> q1]
=============================================================================
