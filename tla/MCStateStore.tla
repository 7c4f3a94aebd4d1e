--------------------------- MODULE MCStateStore ---------------------------
(* Two states and two stamps: the store of MCStateStoreFresh.cfg, where a     *)
(* process may be killed before its first sync.                            *)
EXTENDS StateStore, TLC
CONSTANTS s1, s2
MCStates == {s1, s2}
MCStamps == 1..2
StoreSymmetry == Permutations(MCStates)
=============================================================================
