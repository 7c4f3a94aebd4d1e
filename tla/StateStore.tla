----------------------------- MODULE StateStore -----------------------------
(***************************************************************************)
(* The files of the server over stops of the process and losses of power:  *)
(* the directory of the state store (internal/statestore), with the saved  *)
(* state, its backup, the rejected copies and the temporary files, and the *)
(* project file that saveProject of cmd/serve replaces.                    *)
(*                                                                         *)
(* A directory entry that changed after the last sync of its directory may *)
(* be the old one or the new one after a power loss, and so may the entry  *)
(* of a directory that was itself just made.  The content of a file that   *)
(* was not synced may be torn.  A stop of the process alone loses nothing  *)
(* of this.                                                                *)
(***************************************************************************)
EXTENDS Naturals, FiniteSets

CONSTANTS
  States,           \* saved states, and projects
  NoState,          \* no file
  Torn,             \* a file whose content was not written out
  Unread,           \* the process has not read the state yet
  Stamps,           \* times of the clock that names rejected copies
  KeepRejected,     \* keepRejected
  KillBeforeSync,   \* whether a process may be killed before its first sync
  MaxStoreStarts,   \* bound on the starts of the process
  MaxStoreCalls     \* bound on the calls that write

ASSUME StoreAssumption ==
  /\ Stamps \subseteq Nat
  /\ KeepRejected \in Nat \ {0}
  /\ KillBeforeSync \in BOOLEAN
  /\ MaxStoreStarts \in Nat /\ MaxStoreCalls \in Nat
  /\ NoState \notin States /\ Torn \notin States /\ Unread \notin States
  /\ Torn # NoState

StateKey == <<"state", 0>>
PreviousKey == <<"previous", 0>>
ProjectKey == <<"project", 0>>
RejectedKey(stamp) == <<"rejected", stamp>>
FileKeys == {StateKey, PreviousKey, ProjectKey} \cup {RejectedKey(t) : t \in Stamps}

\* The two writers: the goroutine that holds the store, and the command
\* that holds the project file.
Writers == {"store", "project"}

VARIABLES
  life,       \* "down", "open", "restored", "ready" or "off" (no more saves)
  storeStarts, storeCalls,
  entry,      \* the file of each key that the process sees
  survivors,  \* the files that a power loss may leave for each key
  root,       \* "absent", "fragile" or "durable": the directory of the store
  parentsSynced, existing,   \* Store.parentsSynced; whether root was there at Open
  call,       \* the call in progress of each writer
  temporary,  \* temporary files that killed processes left
  kept, begun, loaded        \* what the callers were told, see AtomicStore

storeFiles == <<entry, survivors, root, temporary>>
storeProcess == <<life, storeStarts, storeCalls, parentsSynced, existing, call>>
storeVars == <<storeFiles, storeProcess, kept, begun, loaded>>

\* at: "copy" (the temporary file is being written), "rename", "sync",
\* "delete" and "prune"; key is where it goes.
NoCall == [at |-> "none", kind |-> "none", key |-> StateKey, file |-> NoState, synced |-> FALSE]

Calls == [at : {"none", "copy", "rename", "sync", "delete", "prune"},
          kind : {"none", "write", "reject", "backup", "project"},
          key : FileKeys, file : States \cup {NoState, Torn}, synced : BOOLEAN]

StoreInit ==
  /\ life = "down" /\ storeStarts = 0 /\ storeCalls = 0
  /\ entry = [k \in FileKeys |-> NoState]
  /\ survivors = [k \in FileKeys |-> {NoState}]
  /\ root = "absent" /\ parentsSynced = FALSE /\ existing = FALSE
  /\ call = [w \in Writers |-> NoCall]
  /\ temporary = 0
  /\ kept = NoState /\ begun = {} /\ loaded = Unread

-----------------------------------------------------------------------------
(* Open and the read at the start.                                         *)

\* statestore.Open looks for the deepest directory that exists before it
\* makes the root. openSession then removes the temporary files.
OpenStore ==
  /\ life = "down" /\ storeStarts < MaxStoreStarts
  /\ storeStarts' = storeStarts + 1
  /\ life' = "open"
  /\ existing' = (root # "absent")
  /\ parentsSynced' = FALSE
  /\ root' = IF root = "absent" THEN "fragile" ELSE root
  /\ \/ temporary' = 0
     \/ temporary > 0 /\ temporary' = temporary    \* a failure is only logged
  /\ UNCHANGED <<storeCalls, entry, survivors, call, kept, begun, loaded>>

\* Mutant: without a saved state, the backup is read.
StoredOrBackup == IF entry[StateKey] = NoState THEN entry[PreviousKey] ELSE entry[StateKey]

\* Store.Read: the saved state, or that there is none.
StoredState == entry[StateKey]

\* NewFromStore reads the state. A state that cannot be read turns saving
\* off, and no state at all starts a new session.
ReadState ==
  /\ life = "open"
  /\ \/ loaded' = StoredState /\ life' = IF StoredState = NoState THEN "ready" ELSE "restored"
     \/ loaded' = loaded /\ life' = "off"
  /\ UNCHANGED <<storeStarts, storeCalls, storeFiles, parentsSynced, existing, call, kept, begun>>

-----------------------------------------------------------------------------
(* A call writes a temporary file, renames it and syncs the directory.     *)

\* put begins: Write of a new state, Reject or Backup of the state that is
\* there, and saveProject. A restored state is backed up, or rejected, or
\* used as it is.
StartCall(w, kind, key, file) ==
  /\ storeCalls < MaxStoreCalls
  /\ storeCalls' = storeCalls + 1
  /\ call[w] = NoCall
  /\ call' = [call EXCEPT ![w] = [at |-> "copy", kind |-> kind, key |-> key,
                                  file |-> file, synced |-> FALSE]]

\* Store.Write. The register counts the write as begun.
WriteState(v) ==
  /\ life \in {"restored", "ready"}
  /\ StartCall("store", "write", StateKey, v)
  /\ life' = "ready"
  /\ begun' = begun \cup {v}
  /\ UNCHANGED <<storeStarts, storeFiles, parentsSynced, existing, kept, loaded>>

\* Store.Reject under the time of the clock, which may have gone back, but
\* never to the nanosecond of an earlier copy.
RejectState(stamp) ==
  /\ life = "restored"
  /\ survivors[RejectedKey(stamp)] = {NoState}
  /\ StartCall("store", "reject", RejectedKey(stamp), entry[StateKey])
  /\ UNCHANGED <<life, storeStarts, storeFiles, parentsSynced, existing, kept, begun, loaded>>

\* Store.Backup, before the startup save.
BackupState ==
  /\ life = "restored"
  /\ StartCall("store", "backup", PreviousKey, entry[StateKey])
  /\ UNCHANGED <<life, storeStarts, storeFiles, parentsSynced, existing, kept, begun, loaded>>

\* saveProject of a command that changed the project.
SaveProject(v) ==
  /\ life \in {"ready", "off"}
  /\ StartCall("project", "project", ProjectKey, v)
  /\ UNCHANGED <<life, storeStarts, storeFiles, parentsSynced, existing, kept, begun, loaded>>

\* Mutant: the file is renamed without a sync.
CopyUnsynced(c) == [c EXCEPT !.at = "rename"]

\* copySynced: the mode is set, the data copied and the file synced before
\* the rename.
CopySynced(c) == [c EXCEPT !.at = "rename", !.synced = TRUE]

CopyFile(w) ==
  /\ call[w].at = "copy"
  /\ call' = [call EXCEPT ![w] = CopySynced(@)]
  /\ UNCHANGED <<life, storeStarts, storeCalls, storeFiles, parentsSynced, existing, kept, begun, loaded>>

\* The end of a call that failed: startRejected turns saving off when the
\* move failed, a failed backup or save changes nothing.
AfterFailure(c) == IF c.kind = "reject" THEN "off" ELSE life

\* Any error before the rename cancels the write and removes the temporary
\* file. The old file stays.
CancelWrite(w) ==
  /\ call[w].at \in {"copy", "rename"}
  /\ life' = AfterFailure(call[w])
  /\ call' = [call EXCEPT ![w] = NoCall]
  /\ UNCHANGED <<storeStarts, storeCalls, storeFiles, parentsSynced, existing, kept, begun, loaded>>

\* What a rename may leave after a power loss.
Renamed(c) == IF c.synced THEN {c.file} ELSE {c.file, Torn}

\* The rename of Close, or of saveProject, which then returns.
RenameFile(w) ==
  /\ call[w].at = "rename"
  /\ entry' = [entry EXCEPT ![call[w].key] = call[w].file]
  /\ survivors' = [survivors EXCEPT ![call[w].key] = @ \cup Renamed(call[w])]
  /\ call' = [call EXCEPT ![w] = IF w = "project" THEN NoCall ELSE [@ EXCEPT !.at = "sync"]]
  /\ UNCHANGED <<life, storeStarts, storeCalls, root, temporary, parentsSynced, existing, kept, begun, loaded>>

\* syncDirs: the directory, and before the first success also each parent up
\* to the one that was there at Open.
RootAfterSync == IF parentsSynced \/ existing THEN root ELSE "durable"

\* After a sync each entry of the directory is what the process sees. The
\* project file is in a directory of its own.
DirectorySynced == [k \in FileKeys |-> IF k = ProjectKey THEN survivors[k] ELSE {entry[k]}]

\* What follows the sync: Reject goes on to delete the state, and the other
\* calls return.
AfterSync(c) == IF c.kind = "reject" THEN [c EXCEPT !.at = "delete"] ELSE NoCall

SyncDirectory ==
  /\ call["store"].at = "sync"
  /\ survivors' = DirectorySynced
  /\ root' = RootAfterSync
  /\ parentsSynced' = TRUE
  /\ kept' = entry[StateKey] /\ begun' = {}
  /\ call' = [call EXCEPT !["store"] = AfterSync(@)]
  /\ UNCHANGED <<life, storeStarts, storeCalls, entry, temporary, existing, loaded>>

\* The sync fails: the new file is in place, and the call returns an error.
SyncFails ==
  /\ call["store"].at = "sync"
  /\ life' = AfterFailure(call["store"])
  /\ call' = [call EXCEPT !["store"] = NoCall]
  /\ UNCHANGED <<storeStarts, storeCalls, storeFiles, parentsSynced, existing, kept, begun, loaded>>

\* The state is deleted with no sync of the directory.
Deleted(k) ==
  /\ entry' = [entry EXCEPT ![k] = NoState]
  /\ survivors' = [survivors EXCEPT ![k] = @ \cup {NoState}]

\* Reject deletes the state after its copy is durable.
DeleteState ==
  /\ call["store"].at = "delete"
  /\ \/ /\ Deleted(StateKey)
        /\ begun' = begun \cup {NoState}
        /\ call' = [call EXCEPT !["store"].at = "prune"]
        /\ UNCHANGED life
     \/ /\ life' = "off"                   \* the delete fails
        /\ call' = [call EXCEPT !["store"] = NoCall]
        /\ UNCHANGED <<entry, survivors, begun>>
  /\ UNCHANGED <<storeStarts, storeCalls, root, temporary, parentsSynced, existing, kept, loaded>>

\* The times of the rejected copies. The order of the names is that of time.
Rejected == {t \in Stamps : entry[RejectedKey(t)] # NoState}

\* Mutant: the newest copies are kept by their names alone.
PrunedByName(keep) ==
  {t \in Rejected : Cardinality({o \in Rejected : o > t}) >= KeepRejected}

\* pruneRejected keeps the new copy and the newest others.
Pruned(keep) ==
  {t \in Rejected \ {keep} :
     Cardinality({o \in Rejected \ {keep} : o > t}) >= KeepRejected - 1}

\* Failures to list or to delete are logged; the next Reject tries again.
PruneRejected ==
  /\ call["store"].at = "prune"
  /\ \E times \in SUBSET Pruned(call["store"].key[2]) :
       LET gone == {RejectedKey(t) : t \in times}
       IN /\ entry' = [k \in FileKeys |-> IF k \in gone THEN NoState ELSE entry[k]]
          /\ survivors' = [k \in FileKeys |-> IF k \in gone THEN survivors[k] \cup {NoState} ELSE survivors[k]]
  /\ life' = "ready"
  /\ call' = [call EXCEPT !["store"] = NoCall]
  /\ UNCHANGED <<storeStarts, storeCalls, root, temporary, parentsSynced, existing, kept, begun, loaded>>

-----------------------------------------------------------------------------
(* The process and the machine stop.                                       *)

Halted ==
  /\ life' = "down"
  /\ call' = [w \in Writers |-> NoCall]
  /\ loaded' = Unread
  /\ UNCHANGED <<storeStarts, storeCalls, parentsSynced, existing, kept, begun>>

\* A killed process leaves the temporary file of the store that it was
\* writing. KillBeforeSync also lets it end in the time in which the root is
\* new and no sync has made it durable.
Kill ==
  /\ life # "down"
  /\ root = "fragile" => KillBeforeSync
  /\ Halted
  /\ temporary' = IF call["store"].at \in {"copy", "rename"} THEN temporary + 1 ELSE temporary
  /\ UNCHANGED <<entry, survivors, root>>

\* A power loss takes back any directory entry that was not synced. A root
\* that was not synced can go with all that is in it.
PowerLoss ==
  /\ Halted
  /\ \/ /\ entry' \in [FileKeys -> UNION {survivors[k] : k \in FileKeys}]
        /\ \A k \in FileKeys : entry'[k] \in survivors[k]
        /\ root' = IF root = "fragile" THEN "durable" ELSE root
     \/ /\ root = "fragile"
        /\ entry' = [k \in FileKeys |-> IF k = ProjectKey THEN entry[k] ELSE NoState]
        /\ root' = "absent"
  /\ survivors' = [k \in FileKeys |-> {entry'[k]}]
  /\ temporary' = 0

StoreNext ==
  \/ OpenStore \/ ReadState
  \/ \E v \in States : WriteState(v) \/ SaveProject(v)
  \/ \E stamp \in Stamps : RejectState(stamp)
  \/ BackupState
  \/ \E w \in Writers : CopyFile(w) \/ CancelWrite(w) \/ RenameFile(w)
  \/ SyncDirectory \/ SyncFails \/ DeleteState \/ PruneRejected
  \/ Kill \/ PowerLoss

StoreSpec == StoreInit /\ [][StoreNext]_storeVars

-----------------------------------------------------------------------------
(* Properties                                                              *)

\* The files implement the register that the session is promised: what a
\* start reads is the last confirmed state or one whose write was begun
\* later, however kills and power losses fall between the temporary file,
\* the rename, the sync, and the delete of Reject.
Register == INSTANCE AtomicStore WITH kept <- kept, begun <- begun, loaded <- loaded
RegisterImplemented == Register!AtomicSpec

\* No file is ever torn: not the state, not a copy and not the project, which
\* saveProject replaces with no sync of its directory.
NeverTorn == \A k \in FileKeys : Torn \notin survivors[k]

\* A confirmed state that a power loss could remove from its key is held by
\* a rejected copy that no power loss can take: Reject deletes only what it
\* has durably copied, and the pruning never takes that copy.
RejectedStateKept ==
  (NoState \in survivors[StateKey] /\ kept # NoState) =>
     \E t \in Stamps : survivors[RejectedKey(t)] = {kept}

\* The comment of syncDirs: the directories that Open made stay after a power
\* loss, once a write has been confirmed.
DirectoryStays == kept # NoState => root = "durable"
=============================================================================
