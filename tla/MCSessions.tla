----------------------------- MODULE MCSessions -----------------------------
(***************************************************************************)
(* Three small instances of Session that one run of TLC explores side by   *)
(* side.  The variable part names the instance a behaviour belongs to.     *)
(***************************************************************************)
EXTENDS MCSession

VARIABLE part

\* Three clients against a limit of two, one command each.
LimitPart == INSTANCE Session WITH
  Clients <- MCClients, Actions <- MCResetActions, MaxSequence <- 1, MaxTick <- 0,
  MaxRevision <- 4, MaxStarts <- 2

\* Demand changes and the demo, with a project file.
DemandPart == INSTANCE Session WITH
  Demands <- MCDemands, UseProjectFile <- TRUE, Actions <- MCDemandActions,
  MaxRevision <- 2, MaxTick <- 0, MaxStarts <- 2

\* The constants of the configuration are those of the retry part.
PartInit ==
  \/ part = "retry" /\ Init
  \/ part = "limit" /\ LimitPart!Init
  \/ part = "demand" /\ DemandPart!Init

PartNext ==
  /\ UNCHANGED part
  /\ \/ part = "retry" /\ Next
     \/ part = "limit" /\ LimitPart!Next
     \/ part = "demand" /\ DemandPart!Next

PartSpec == PartInit /\ [][PartNext]_<<part, vars>>

\* OverLimit, receiptCount and knownClients: with three clients against a
\* limit of two, each client counts once, before and after a restart.
ClientsCountedOnce == part = "limit" => LimitPart!ClientsAccounted
=============================================================================
