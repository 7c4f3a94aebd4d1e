---------------------------- MODULE AtomicStore ----------------------------
(***************************************************************************)
(* What the session is promised by the store of its saved state            *)
(* (session.StateStore): one register.  A write that returned is what a    *)
(* later start reads, whatever stops the process or the machine.  A write  *)
(* that was begun and not confirmed may or may not have taken place, and   *)
(* a later start may find it either way.                                   *)
(***************************************************************************)
CONSTANTS States, NoState, Unread

VARIABLES
  kept,     \* the state of the last write that is known to be done
  begun,    \* the states of later writes, which may be done
  loaded    \* what the running process read at its start, or Unread

AtomicInit ==
  /\ kept = NoState
  /\ begun = {}
  /\ loaded = Unread

\* A write of v, or a removal (v = NoState), begins.
Begin(v) ==
  /\ begun' = begun \cup {v}
  /\ UNCHANGED <<kept, loaded>>

\* A state that may be the stored one is now the stored one for ever.
Settle(v) ==
  /\ v \in begun \cup {kept}
  /\ kept' = v
  /\ begun' = {}
  /\ UNCHANGED loaded

\* A start reads a state that may be the stored one.
Load(v) ==
  /\ v \in begun \cup {kept}
  /\ loaded' = v
  /\ UNCHANGED <<kept, begun>>

\* The process ends. Nothing that was settled is lost.
Stop ==
  /\ loaded' = Unread
  /\ UNCHANGED <<kept, begun>>

AtomicNext ==
  \/ \E v \in States \cup {NoState} : Begin(v) \/ Settle(v) \/ Load(v)
  \/ Stop

AtomicSpec == AtomicInit /\ [][AtomicNext]_<<kept, begun, loaded>>
=============================================================================
