----------------------------- MODULE MCStorage ------------------------------
(***************************************************************************)
(* Small instances of SavePoints and of StateStore that one run of TLC     *)
(* explores side by side.  The variable part names the module that moves.  *)
(***************************************************************************)
EXTENDS MCSavePoints, MCStateStore

VARIABLE part

PartInit == part \in {"points", "store"} /\ Init /\ StoreInit

PartNext ==
  \/ part = "points" /\ Next /\ UNCHANGED <<part, storeVars>>
  \/ part = "store" /\ StoreNext /\ UNCHANGED <<part, vars>>

PartSpec == PartInit /\ [][PartNext]_<<part, vars, storeVars>>
=============================================================================
