------------------------------ MODULE MCStream ------------------------------
(* Small instances of Stream for TLC.                                      *)
EXTENDS Stream, TLC

CONSTANTS ca, cb, k1, k2

MCConns == {ca, cb}
MCOneConn == {ca}
MCContracts == {k1, k2}
MCOneContract == {k1}
MCSmall == {1}
MCLarge == {2}
\* No step tells the two connections apart.
ConnSymmetry == Permutations(MCConns)
=============================================================================
