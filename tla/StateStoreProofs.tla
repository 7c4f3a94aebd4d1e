-------------------------- MODULE StateStoreProofs --------------------------
(***************************************************************************)
(* Theorems about StateStore, proved for every set of states and stamps,   *)
(* every bound and every number of kept copies.                            *)
(*                                                                         *)
(* FilesInv holds of every process.  StoreInv adds what is true as long as *)
(* no process is killed before the first sync of a directory that it made  *)
(* itself; the run under MCStateStoreFresh.cfg shows what happens then.    *)
(***************************************************************************)
EXTENDS StateStore, TLAPS

Files == States \cup {NoState}

-----------------------------------------------------------------------------
(* The inductive invariants                                                *)

\* Every file that is seen or may survive is a whole one, and the process
\* sees one that may survive.
FilesWhole ==
  /\ entry \in [FileKeys -> Files]
  /\ survivors \in [FileKeys -> SUBSET Files]
  /\ \A k \in FileKeys : entry[k] \in survivors[k]

\* What a call in progress writes, and where.
CallWhole(c) ==
  /\ c \in Calls
  /\ c.file # Torn
  /\ c.at = "rename" => c.synced

\* The calls of the store write one key each.
StoreCallAims(c) ==
  c.at # "none" =>
    /\ c.kind \in {"write", "reject", "backup"}
    /\ c.kind = "write" => c.key = StateKey /\ c.file \in States
    /\ c.kind = "backup" => c.key = PreviousKey
    /\ c.kind = "reject" => c.key \in {RejectedKey(t) : t \in Stamps}
    /\ c.at \in {"delete", "prune"} => c.kind = "reject"

\* saveProject replaces the project file and returns.
ProjectCallAims(c) ==
  c.at # "none" => c.at \in {"copy", "rename"} /\ c.key = ProjectKey

FilesInv ==
  /\ FilesWhole
  /\ DOMAIN call = Writers
  /\ \A w \in Writers : CallWhole(call[w])
  /\ StoreCallAims(call["store"])
  /\ ProjectCallAims(call["project"])

\* What the callers were told is about whole files, and every state that may
\* survive is one that the register may hold.
RegisterHolds ==
  /\ kept \in Files /\ begun \subseteq Files
  /\ survivors[StateKey] \subseteq begun \cup {kept}

\* What the call of the store has done so far. A Reject holds the state that
\* it moves, under a name that no file had, and before it deletes anything
\* its copy is the confirmed state and nothing else may survive there.
CallAhead ==
  LET c == call["store"] IN
  /\ c.kind = "write" /\ c.at \in {"copy", "rename"} => c.file \in begun
  /\ c.kind = "reject" /\ c.at \in {"copy", "rename"} => survivors[c.key] = {NoState}
  /\ c.kind = "reject" /\ c.at \in {"copy", "rename", "sync"} => c.file = entry[StateKey]
  /\ c.at = "sync" => entry[c.key] = c.file
  /\ c.at \in {"delete", "prune"} => survivors[c.key] = {kept}

\* A directory that could go holds nothing that was confirmed, and only a
\* running process that has not synced it can have left it so.
RootSound ==
  /\ root \in {"absent", "fragile", "durable"}
  /\ root # "durable" => kept = NoState
  /\ root = "fragile" => life # "down" /\ ~existing /\ ~parentsSynced
  /\ root = "absent" => life = "down"
  /\ life = "down" => \A w \in Writers : call[w] = NoCall

StoreInv == FilesInv /\ RegisterHolds /\ CallAhead /\ RootSound /\ RejectedStateKept

-----------------------------------------------------------------------------
(* The keys                                                                *)

\* The keys of the files are distinct, and a rejected copy tells its time.
LEMMA Keys ==
  /\ StateKey \in FileKeys /\ PreviousKey \in FileKeys /\ ProjectKey \in FileKeys
  /\ StateKey # PreviousKey /\ StateKey # ProjectKey /\ PreviousKey # ProjectKey
  /\ \A t \in Stamps :
       /\ RejectedKey(t) \in FileKeys
       /\ RejectedKey(t) \notin {StateKey, PreviousKey, ProjectKey}
       /\ RejectedKey(t)[2] = t
  /\ \A t, u \in Stamps : RejectedKey(t) = RejectedKey(u) => t = u
BY DEF StateKey, PreviousKey, ProjectKey, RejectedKey, FileKeys

\* No call is a call.
LEMMA NoCallIsCall == NoCall \in Calls /\ NoCall.at = "none" /\ NoCall.file = NoState
BY Keys DEF NoCall, Calls

\* A call that was started is whole.
LEMMA StartedCall ==
  ASSUME NEW kind \in {"write", "reject", "backup", "project"}, NEW key \in FileKeys,
         NEW file \in Files
  PROVE  CallWhole([at |-> "copy", kind |-> kind, key |-> key, file |-> file, synced |-> FALSE])
BY StoreAssumption DEF CallWhole, Calls, Files

-----------------------------------------------------------------------------
(* FilesInv is inductive                                                   *)

\* The files at the beginning are whole.
LEMMA FilesInit == StoreInit => FilesInv
<1> SUFFICES ASSUME StoreInit PROVE FilesInv
  OBVIOUS
<1>1. FilesWhole
  BY DEF StoreInit, FilesWhole, Files
<1>2. \A w \in Writers : call[w] = NoCall
  BY DEF StoreInit, Writers
<1>3. "store" \in Writers /\ "project" \in Writers
  BY DEF Writers
<1>4. CallWhole(NoCall)
  BY NoCallIsCall, StoreAssumption DEF CallWhole
<1>5. StoreCallAims(NoCall) /\ ProjectCallAims(NoCall)
  BY NoCallIsCall DEF StoreCallAims, ProjectCallAims
<1> QED
  BY <1>1, <1>2, <1>3, <1>4, <1>5 DEF StoreInit, FilesInv

\* The start of a call keeps FilesInv.
LEMMA StartCallFiles ==
  ASSUME FilesInv, NEW w \in Writers, NEW kind, NEW key \in FileKeys, NEW file \in Files,
         StartCall(w, kind, key, file), UNCHANGED <<entry, survivors>>,
         \/ w = "project" /\ kind = "project" /\ key = ProjectKey
         \/ w = "store" /\ kind = "write" /\ key = StateKey /\ file \in States
         \/ w = "store" /\ kind = "backup" /\ key = PreviousKey
         \/ w = "store" /\ kind = "reject" /\ key \in {RejectedKey(t) : t \in Stamps}
  PROVE  FilesInv'
<1> DEFINE c == [at |-> "copy", kind |-> kind, key |-> key, file |-> file, synced |-> FALSE]
<1>1. call' = [call EXCEPT ![w] = c]
  BY DEF StartCall
<1>2. CallWhole(c)
  BY StartedCall
<1>3. w = "store" => StoreCallAims(c)
  BY DEF StoreCallAims
<1>4. w = "project" => ProjectCallAims(c)
  BY DEF ProjectCallAims
<1>5. FilesWhole'
  BY DEF FilesInv, FilesWhole
<1> HIDE DEF c
<1>6. DOMAIN call' = Writers /\ \A o \in Writers : call'[o] = IF o = w THEN c ELSE call[o]
  BY <1>1 DEF FilesInv
<1>7. \A o \in Writers : CallWhole(call'[o])
  BY <1>2, <1>6 DEF FilesInv
<1>8. StoreCallAims(call'["store"]) /\ ProjectCallAims(call'["project"])
  BY <1>3, <1>4, <1>6 DEF FilesInv, Writers
<1> QED
  BY <1>5, <1>6, <1>7, <1>8 DEF FilesInv, CallWhole, StoreCallAims, ProjectCallAims

\* A step of a call, or its end, keeps the shape of the calls.
LEMMA CallStep ==
  ASSUME FilesInv, NEW w \in Writers, NEW c, call' = [call EXCEPT ![w] = c],
         CallWhole(c),
         w = "store" => StoreCallAims(c),
         w = "project" => ProjectCallAims(c),
         FilesWhole'
  PROVE  FilesInv'
<1>1. DOMAIN call' = Writers /\ \A o \in Writers : call'[o] = IF o = w THEN c ELSE call[o]
  BY DEF FilesInv
<1>2. \A o \in Writers : CallWhole(call'[o])
  BY <1>1 DEF FilesInv
<1>3. StoreCallAims(call'["store"]) /\ ProjectCallAims(call'["project"])
  BY <1>1 DEF FilesInv, Writers
<1> QED
  BY <1>1, <1>2, <1>3 DEF FilesInv, CallWhole, StoreCallAims, ProjectCallAims

\* The end of a call keeps FilesInv.
LEMMA EndOfCall ==
  ASSUME FilesInv, NEW w \in Writers, call' = [call EXCEPT ![w] = NoCall], FilesWhole'
  PROVE  FilesInv'
<1>1. CallWhole(NoCall)
  BY NoCallIsCall, StoreAssumption DEF CallWhole
<1>2. StoreCallAims(NoCall) /\ ProjectCallAims(NoCall)
  BY NoCallIsCall DEF StoreCallAims, ProjectCallAims
<1> QED
  BY <1>1, <1>2, CallStep

\* A process that ends leaves no call.
LEMMA HaltedFiles ==
  ASSUME Halted, FilesWhole'
  PROVE  FilesInv'
<1>1. DOMAIN call' = Writers /\ \A w \in Writers : call'[w] = NoCall
  BY DEF Halted
<1>2. CallWhole(NoCall)
  BY NoCallIsCall, StoreAssumption DEF CallWhole
<1>3. StoreCallAims(NoCall) /\ ProjectCallAims(NoCall)
  BY NoCallIsCall DEF StoreCallAims, ProjectCallAims
<1>4. "store" \in Writers /\ "project" \in Writers
  BY DEF Writers
<1> QED
  BY <1>1, <1>2, <1>3, <1>4 DEF FilesInv, CallWhole, StoreCallAims, ProjectCallAims

\* Every step of the store, the project file and the machine keeps the files whole.
LEMMA FilesStep == FilesInv /\ [StoreNext]_storeVars => FilesInv'
<1> SUFFICES ASSUME FilesInv, [StoreNext]_storeVars PROVE FilesInv'
  OBVIOUS
<1> USE DEF FilesInv
<1>0. "store" \in Writers /\ "project" \in Writers
  BY DEF Writers
<1>1. ASSUME UNCHANGED <<entry, survivors>> PROVE FilesWhole'
  BY <1>1 DEF FilesWhole
<1>2. ASSUME UNCHANGED <<entry, survivors, call>> PROVE FilesInv'
  BY <1>2 DEF FilesWhole, CallWhole, StoreCallAims, ProjectCallAims
<1>3. CASE UNCHANGED storeVars
  BY <1>2, <1>3 DEF storeVars, storeFiles, storeProcess
<1>4. CASE OpenStore
  BY <1>2, <1>4 DEF OpenStore
<1>5. CASE ReadState
  BY <1>2, <1>5 DEF ReadState, storeFiles
<1>6. ASSUME NEW v \in States, WriteState(v) PROVE FilesInv'
  <2>1. StartCall("store", "write", StateKey, v) /\ UNCHANGED <<entry, survivors>>
    BY <1>6 DEF WriteState, storeFiles
  <2> HIDE DEF FilesInv
  <2> QED
    BY <1>0, <2>1, Keys, StartCallFiles DEF Files
<1>7. ASSUME NEW v \in States, SaveProject(v) PROVE FilesInv'
  <2>1. StartCall("project", "project", ProjectKey, v) /\ UNCHANGED <<entry, survivors>>
    BY <1>7 DEF SaveProject, storeFiles
  <2> HIDE DEF FilesInv
  <2> QED
    BY <1>0, <2>1, Keys, StartCallFiles DEF Files
<1>8. entry[StateKey] \in Files
  BY Keys DEF FilesWhole
<1>9. ASSUME NEW stamp \in Stamps, RejectState(stamp) PROVE FilesInv'
  <2>1. /\ StartCall("store", "reject", RejectedKey(stamp), entry[StateKey])
        /\ UNCHANGED <<entry, survivors>>
    BY <1>9 DEF RejectState, storeFiles
  <2> HIDE DEF FilesInv
  <2> QED
    BY <1>0, <1>8, <2>1, Keys, StartCallFiles
<1>10. CASE BackupState
  <2>1. /\ StartCall("store", "backup", PreviousKey, entry[StateKey])
        /\ UNCHANGED <<entry, survivors>>
    BY <1>10 DEF BackupState, storeFiles
  <2> HIDE DEF FilesInv
  <2> QED
    BY <1>0, <1>8, <2>1, Keys, StartCallFiles
<1>11. ASSUME NEW w \in Writers, CopyFile(w) PROVE FilesInv'
  <2> DEFINE c == CopySynced(call[w])
  <2>1. call' = [call EXCEPT ![w] = c] /\ FilesWhole' /\ call[w].at = "copy"
    BY <1>1, <1>11 DEF CopyFile, storeFiles
  <2>2. CallWhole(call[w])
    OBVIOUS
  <2>3. /\ c \in Calls /\ c.file = call[w].file /\ c.at = "rename" /\ c.synced = TRUE
        /\ c.kind = call[w].kind /\ c.key = call[w].key
    BY <2>2 DEF CopySynced, CallWhole, Calls
  <2> HIDE DEF c
  <2>4. CallWhole(c)
    BY <2>2, <2>3 DEF CallWhole
  <2>5. w = "store" => StoreCallAims(c)
    BY <2>1, <2>3 DEF StoreCallAims
  <2>6. w = "project" => ProjectCallAims(c)
    BY <2>1, <2>3 DEF ProjectCallAims
  <2> HIDE DEF FilesInv
  <2> QED
    BY <2>1, <2>4, <2>5, <2>6, CallStep
<1>12. ASSUME NEW w \in Writers, CancelWrite(w) PROVE FilesInv'
  <2>1. call' = [call EXCEPT ![w] = NoCall] /\ UNCHANGED <<entry, survivors>>
    BY <1>12 DEF CancelWrite, storeFiles
  <2> HIDE DEF FilesInv
  <2> QED
    BY <1>1, <2>1, EndOfCall
<1>13. ASSUME NEW w \in Writers, RenameFile(w) PROVE FilesInv'
  <2>1. CallWhole(call[w])
    OBVIOUS
  <2>2. /\ call[w].at = "rename" /\ call[w].synced
        /\ call[w].key \in FileKeys /\ call[w].file \in Files
    BY <1>13, <2>1 DEF RenameFile, CallWhole, Calls, Files
  <2>3. Renamed(call[w]) = {call[w].file}
    BY <2>2 DEF Renamed
  <2>4. FilesWhole'
    BY <1>13, <2>2, <2>3 DEF RenameFile, FilesWhole
  <2>5. CASE w = "project"
    <3>1. call' = [call EXCEPT ![w] = NoCall]
      BY <1>13, <2>5 DEF RenameFile
    <3> HIDE DEF FilesInv
    <3> QED
      BY <2>4, <3>1, EndOfCall
  <2>6. CASE w # "project"
    <3> DEFINE c == [call[w] EXCEPT !.at = "sync"]
    <3>1. call' = [call EXCEPT ![w] = c]
      BY <1>13, <2>6 DEF RenameFile
    <3>2. /\ c \in Calls /\ c.file = call[w].file /\ c.at = "sync"
          /\ c.kind = call[w].kind /\ c.key = call[w].key
      BY <2>1 DEF CallWhole, Calls
    <3>3. w = "store"
      BY <2>6 DEF Writers
    <3> HIDE DEF c
    <3>4. CallWhole(c) /\ StoreCallAims(c)
      BY <2>1, <2>2, <3>2, <3>3 DEF CallWhole, StoreCallAims
    <3> HIDE DEF FilesInv
    <3> QED
      BY <2>4, <3>1, <3>3, <3>4, CallStep
  <2> QED
    BY <2>5, <2>6
<1>14. CASE SyncDirectory
  <2> DEFINE c == AfterSync(call["store"])
  <2>1. FilesWhole'
    BY <1>14 DEF SyncDirectory, DirectorySynced, FilesWhole
  <2>2. call' = [call EXCEPT !["store"] = c]
    BY <1>14 DEF SyncDirectory
  <2>3. CASE call["store"].kind = "reject"
    <3>1. CallWhole(call["store"])
      BY <1>0
    <3>2. /\ c \in Calls /\ c.file = call["store"].file /\ c.at = "delete"
          /\ c.kind = "reject" /\ c.key = call["store"].key
      BY <2>3, <3>1 DEF AfterSync, CallWhole, Calls
    <3> HIDE DEF c
    <3>3. call["store"].at = "sync"
      BY <1>14 DEF SyncDirectory
    <3>4. CallWhole(c) /\ StoreCallAims(c)
      BY <3>1, <3>2, <3>3, <2>3 DEF CallWhole, StoreCallAims
    <3> HIDE DEF FilesInv
    <3> QED
      BY <1>0, <2>1, <2>2, <3>4, CallStep
  <2>4. CASE call["store"].kind # "reject"
    <3>1. call' = [call EXCEPT !["store"] = NoCall]
      BY <2>2, <2>4 DEF AfterSync
    <3> HIDE DEF FilesInv
    <3> QED
      BY <1>0, <2>1, <3>1, EndOfCall
  <2> QED
    BY <2>3, <2>4
<1>15. CASE SyncFails
  <2>1. call' = [call EXCEPT !["store"] = NoCall] /\ UNCHANGED <<entry, survivors>>
    BY <1>15 DEF SyncFails, storeFiles
  <2> HIDE DEF FilesInv
  <2> QED
    BY <1>0, <1>1, <2>1, EndOfCall
<1>16. CASE DeleteState
  <2>1. CASE call' = [call EXCEPT !["store"] = NoCall] /\ UNCHANGED <<entry, survivors>>
    <3> HIDE DEF FilesInv
    <3> QED
      BY <1>0, <1>1, <2>1, EndOfCall
  <2>2. CASE Deleted(StateKey) /\ call' = [call EXCEPT !["store"].at = "prune"]
    <3> DEFINE c == [call["store"] EXCEPT !.at = "prune"]
    <3>1. FilesWhole'
      BY <2>2, Keys DEF Deleted, FilesWhole, Files
    <3>2. call' = [call EXCEPT !["store"] = c]
      BY <2>2
    <3>3. CallWhole(call["store"]) /\ call["store"].at = "delete"
      BY <1>0, <1>16 DEF DeleteState
    <3>4. /\ c \in Calls /\ c.file = call["store"].file /\ c.at = "prune"
          /\ c.kind = call["store"].kind /\ c.key = call["store"].key
      BY <3>3 DEF CallWhole, Calls
    <3> HIDE DEF c
    <3>5. CallWhole(c) /\ StoreCallAims(c)
      BY <3>3, <3>4 DEF CallWhole, StoreCallAims
    <3> HIDE DEF FilesInv
    <3> QED
      BY <1>0, <3>1, <3>2, <3>5, CallStep
  <2> QED
    BY <1>16, <2>1, <2>2 DEF DeleteState
<1>17. CASE PruneRejected
  <2>1. PICK gone \in SUBSET FileKeys :
          /\ entry' = [k \in FileKeys |-> IF k \in gone THEN NoState ELSE entry[k]]
          /\ survivors' = [k \in FileKeys |-> IF k \in gone THEN survivors[k] \cup {NoState} ELSE survivors[k]]
    <3>1. PICK times \in SUBSET Pruned(call["store"].key[2]) :
            LET gone == {RejectedKey(t) : t \in times}
            IN /\ entry' = [k \in FileKeys |-> IF k \in gone THEN NoState ELSE entry[k]]
               /\ survivors' = [k \in FileKeys |-> IF k \in gone THEN survivors[k] \cup {NoState} ELSE survivors[k]]
      BY <1>17 DEF PruneRejected
    <3>2. times \subseteq Stamps
      BY DEF Pruned, Rejected
    <3>3. {RejectedKey(t) : t \in times} \subseteq FileKeys
      BY <3>2, Keys
    <3> QED
      BY <3>1, <3>3
  <2>2. FilesWhole'
    BY <2>1 DEF FilesWhole, Files
  <2>3. call' = [call EXCEPT !["store"] = NoCall]
    BY <1>17 DEF PruneRejected
  <2> HIDE DEF FilesInv
  <2> QED
    BY <1>0, <2>2, <2>3, EndOfCall
<1>18. CASE Kill
  BY <1>1, <1>18, HaltedFiles DEF Kill
<1>19. CASE PowerLoss
  <2>1. entry' \in [FileKeys -> Files]
    <3>1. CASE entry' \in [FileKeys -> UNION {survivors[k] : k \in FileKeys}]
      BY <3>1 DEF FilesWhole
    <3>2. CASE entry' = [k \in FileKeys |-> IF k = ProjectKey THEN entry[k] ELSE NoState]
      BY <3>2 DEF FilesWhole, Files
    <3> QED
      BY <1>19, <3>1, <3>2 DEF PowerLoss
  <2>2. survivors' = [k \in FileKeys |-> {entry'[k]}]
    BY <1>19 DEF PowerLoss
  <2>3. FilesWhole'
    BY <2>1, <2>2 DEF FilesWhole
  <2> QED
    BY <1>19, <2>3, HaltedFiles DEF PowerLoss
<1> QED
  BY <1>3, <1>4, <1>5, <1>6, <1>7, <1>9, <1>10, <1>11, <1>12, <1>13, <1>14, <1>15, <1>16,
     <1>17, <1>18, <1>19 DEF StoreNext

\* NeverTorn: whatever kills and power losses do, no file of the server is
\* half written, since copySynced comes before every rename.
THEOREM FilesNeverTorn == StoreSpec => []NeverTorn
<1>1. FilesInv => NeverTorn
  BY StoreAssumption DEF FilesInv, FilesWhole, Files, NeverTorn
<1> QED
  BY <1>1, FilesInit, FilesStep, PTL DEF StoreSpec

-----------------------------------------------------------------------------
(* StoreInv is inductive                                                   *)

\* The store begins sound.
LEMMA StoreInvInit == StoreInit => StoreInv
<1> SUFFICES ASSUME StoreInit PROVE StoreInv
  OBVIOUS
<1>1. FilesInv
  BY FilesInit
<1>2. \A w \in Writers : call[w] = NoCall
  BY DEF StoreInit, Writers
<1>3. call["store"] = NoCall
  BY <1>2 DEF Writers
<1>4. RegisterHolds
  BY Keys DEF StoreInit, RegisterHolds, Files
<1>5. CallAhead
  BY <1>3, NoCallIsCall DEF CallAhead, NoCall
<1>6. RootSound
  BY <1>2 DEF StoreInit, RootSound
<1>7. RejectedStateKept
  BY DEF StoreInit, RejectedStateKept
<1> QED
  BY <1>1, <1>4, <1>5, <1>6, <1>7 DEF StoreInv

\* A step that leaves the files and the register alone, and the call of the
\* store too or ends it, keeps what StoreInv says of them.
LEMMA FilesUntouched ==
  ASSUME StoreInv, UNCHANGED <<entry, survivors, kept, begun>>,
         call'["store"] \in {call["store"], NoCall}
  PROVE  RegisterHolds' /\ CallAhead' /\ RejectedStateKept'
<1>1. RegisterHolds'
  BY DEF StoreInv, RegisterHolds
<1>2. RejectedStateKept'
  BY DEF StoreInv, RejectedStateKept
<1>3. CASE call'["store"] = call["store"]
  BY <1>1, <1>2, <1>3 DEF StoreInv, CallAhead
<1>4. CASE call'["store"] = NoCall
  <2>1. CallAhead'
    BY <1>4 DEF CallAhead, NoCall
  <2> QED
    BY <1>1, <1>2, <2>1
<1> QED
  BY <1>3, <1>4

\* A step of a running process that leaves the directory and the register
\* alone keeps RootSound.
LEMMA RootUntouched ==
  ASSUME RootSound, UNCHANGED <<root, kept, existing, parentsSynced>>,
         life # "down", life' # "down"
  PROVE  RootSound'
BY DEF RootSound

\* A call in progress is one of a running process.
LEMMA CallOfProcess ==
  ASSUME RootSound, NEW w \in Writers, call[w].at # "none"
  PROVE  life # "down"
BY NoCallIsCall DEF RootSound

\* A failed call does not end the process.
LEMMA AfterFailureRuns ==
  ASSUME NEW c, life # "down" PROVE AfterFailure(c) # "down"
BY DEF AfterFailure

\* The store starts no call and the project writer moves: nothing about the
\* state and the copies changes.
LEMMA ProjectStep ==
  ASSUME StoreInv,
         entry' \in [FileKeys -> Files], survivors' \in [FileKeys -> SUBSET Files],
         \A k \in FileKeys \ {ProjectKey} : entry'[k] = entry[k] /\ survivors'[k] = survivors[k],
         UNCHANGED <<kept, begun>>, call'["store"] = call["store"]
  PROVE  RegisterHolds' /\ CallAhead' /\ RejectedStateKept'
<1> DEFINE c == call["store"]
<1>1. RegisterHolds'
  BY Keys DEF StoreInv, RegisterHolds
<1>2. RejectedStateKept'
  BY Keys DEF StoreInv, RejectedStateKept
<1>3. c.at # "none" => c.key \in FileKeys \ {ProjectKey}
  <2>1. StoreCallAims(c) /\ c.at # "none" => c.key \in {StateKey, PreviousKey} \cup {RejectedKey(t) : t \in Stamps}
    BY DEF StoreCallAims
  <2> QED
    BY <2>1, Keys DEF StoreInv, FilesInv
<1>4. StateKey \in FileKeys \ {ProjectKey}
  BY Keys
<1>5. CallAhead'
  <2>1. CallAhead
    BY DEF StoreInv
  <2> HIDE DEF c
  <2>2. c.at # "none" => entry'[c.key] = entry[c.key] /\ survivors'[c.key] = survivors[c.key]
    BY <1>3
  <2>3. entry'[StateKey] = entry[StateKey]
    BY <1>4
  <2> QED
    BY <2>1, <2>2, <2>3 DEF CallAhead, c
<1> QED
  BY <1>1, <1>2, <1>5

\* Open and RemoveTemporaries.
LEMMA OpenStoreInv == StoreInv /\ OpenStore => StoreInv'
<1> SUFFICES ASSUME StoreInv, OpenStore PROVE StoreInv'
  OBVIOUS
<1>1. FilesInv'
  BY FilesStep DEF StoreInv, StoreNext
<1>2. RegisterHolds' /\ CallAhead' /\ RejectedStateKept'
  BY FilesUntouched DEF OpenStore
<1>3. RootSound'
  BY DEF OpenStore, StoreInv, RootSound
<1> QED
  BY <1>1, <1>2, <1>3 DEF StoreInv

\* Read.
LEMMA ReadStateInv == StoreInv /\ ReadState => StoreInv'
<1> SUFFICES ASSUME StoreInv, ReadState PROVE StoreInv'
  OBVIOUS
<1>1. FilesInv'
  BY FilesStep DEF StoreInv, StoreNext
<1>2. RegisterHolds' /\ CallAhead' /\ RejectedStateKept'
  BY FilesUntouched DEF ReadState, storeFiles
<1>3. RootSound'
  BY RootUntouched DEF ReadState, storeFiles, StoreInv
<1> QED
  BY <1>1, <1>2, <1>3 DEF StoreInv

\* A new write is begun before anything of it is on the disk.
LEMMA WriteStateInv ==
  ASSUME StoreInv, NEW v \in States, WriteState(v)
  PROVE  StoreInv'
<1>1. FilesInv'
  BY FilesStep DEF StoreInv, StoreNext
<1>2. /\ UNCHANGED <<entry, survivors, root, kept, parentsSynced, existing>>
      /\ begun' = begun \cup {v} /\ life # "down" /\ life' # "down"
  BY DEF WriteState, storeFiles
<1>3. RegisterHolds'
  BY <1>2 DEF StoreInv, RegisterHolds, Files
<1>4. RejectedStateKept'
  BY <1>2 DEF StoreInv, RejectedStateKept
<1>5. RootSound'
  BY <1>2, RootUntouched DEF StoreInv
<1>6. call'["store"] = [at |-> "copy", kind |-> "write", key |-> StateKey, file |-> v, synced |-> FALSE]
  BY DEF WriteState, StartCall, StoreInv, FilesInv, Writers
<1>7. CallAhead'
  BY <1>2, <1>6 DEF CallAhead
<1> QED
  BY <1>1, <1>3, <1>4, <1>5, <1>7 DEF StoreInv

\* The copy of Reject and of Backup is the state that is there.
LEMMA CopyStateInv ==
  ASSUME StoreInv, NEW kind \in {"reject", "backup"}, NEW key,
         StartCall("store", kind, key, entry[StateKey]),
         kind = "reject" => survivors[key] = {NoState},
         UNCHANGED <<life, storeFiles, parentsSynced, existing, kept, begun>>,
         life = "restored", FilesInv'
  PROVE  StoreInv'
<1>2. UNCHANGED <<entry, survivors, root>>
  BY DEF storeFiles
<1>3. RegisterHolds' /\ RejectedStateKept'
  BY <1>2 DEF StoreInv, RegisterHolds, RejectedStateKept
<1>4. RootSound'
  BY <1>2, RootUntouched DEF StoreInv
<1>5. call'["store"] = [at |-> "copy", kind |-> kind, key |-> key, file |-> entry[StateKey], synced |-> FALSE]
  BY DEF StartCall, StoreInv, FilesInv, Writers
<1>6. CallAhead'
  BY <1>2, <1>5 DEF CallAhead
<1> QED
  BY <1>3, <1>4, <1>6 DEF StoreInv

\* Reject.
LEMMA RejectStateInv ==
  ASSUME StoreInv, NEW stamp \in Stamps, RejectState(stamp)
  PROVE  StoreInv'
<1>1. FilesInv'
  BY FilesStep DEF StoreInv, StoreNext
<1> QED
  BY <1>1, CopyStateInv DEF RejectState

\* Backup.
LEMMA BackupStateInv == StoreInv /\ BackupState => StoreInv'
<1> SUFFICES ASSUME StoreInv, BackupState PROVE StoreInv'
  OBVIOUS
<1>1. FilesInv'
  BY FilesStep DEF StoreInv, StoreNext
<1> QED
  BY <1>1, CopyStateInv DEF BackupState

\* The start of the write of the project file.
LEMMA SaveProjectInv ==
  ASSUME StoreInv, NEW v \in States, SaveProject(v)
  PROVE  StoreInv'
<1>1. FilesInv'
  BY FilesStep DEF StoreInv, StoreNext
<1>2. UNCHANGED <<entry, survivors, root>>
  BY DEF SaveProject, storeFiles
<1>3. call'["store"] = call["store"]
  BY DEF SaveProject, StartCall, StoreInv, FilesInv, Writers
<1>4. RegisterHolds' /\ CallAhead' /\ RejectedStateKept'
  BY <1>2, <1>3, FilesUntouched DEF SaveProject
<1>5. RootSound'
  BY <1>2, RootUntouched DEF SaveProject, StoreInv
<1> QED
  BY <1>1, <1>4, <1>5 DEF StoreInv

\* The write of the temporary file.
LEMMA CopyFileInv ==
  ASSUME StoreInv, NEW w \in Writers, CopyFile(w)
  PROVE  StoreInv'
<1>1. FilesInv'
  BY FilesStep DEF StoreInv, StoreNext
<1>2. /\ UNCHANGED <<entry, survivors, root, kept, begun, parentsSynced, existing, life>>
      /\ call[w].at = "copy" /\ call' = [call EXCEPT ![w] = CopySynced(@)]
  BY DEF CopyFile, storeFiles
<1>3. RootSound'
  BY <1>2, CallOfProcess, RootUntouched DEF StoreInv
<1>4. RegisterHolds' /\ CallAhead' /\ RejectedStateKept'
  <2>1. CASE w = "project"
    <3>1. call'["store"] = call["store"]
      BY <1>2, <2>1 DEF StoreInv, FilesInv, Writers
    <3> QED
      BY <1>2, <3>1, FilesUntouched
  <2>2. CASE w = "store"
    <3>1. RegisterHolds' /\ RejectedStateKept'
      BY <1>2 DEF StoreInv, RegisterHolds, RejectedStateKept
    <3> DEFINE c == call["store"]
               d == call'["store"]
    <3>2. d = CopySynced(c) /\ c \in Calls /\ c.at = "copy"
      BY <1>2, <2>2 DEF StoreInv, FilesInv, CallWhole, Writers
    <3>3. d.at = "rename" /\ d.kind = c.kind /\ d.key = c.key /\ d.file = c.file
      BY <3>2 DEF CopySynced, Calls
    <3> HIDE DEF c, d
    <3>4. CallAhead'
      BY <1>2, <3>2, <3>3 DEF StoreInv, CallAhead, c, d
    <3> QED
      BY <3>1, <3>4
  <2> QED
    BY <2>1, <2>2 DEF Writers
<1> QED
  BY <1>1, <1>3, <1>4 DEF StoreInv

\* A write that is given up before its rename.
LEMMA CancelWriteInv ==
  ASSUME StoreInv, NEW w \in Writers, CancelWrite(w)
  PROVE  StoreInv'
<1>1. FilesInv'
  BY FilesStep DEF StoreInv, StoreNext
<1>2. /\ UNCHANGED <<entry, survivors, root, kept, begun, parentsSynced, existing>>
      /\ call[w].at # "none" /\ call' = [call EXCEPT ![w] = NoCall]
      /\ life' = AfterFailure(call[w])
  BY DEF CancelWrite, storeFiles
<1>3. RootSound'
  BY <1>2, CallOfProcess, AfterFailureRuns, RootUntouched DEF StoreInv
<1>4. call'["store"] \in {call["store"], NoCall}
  BY <1>2 DEF StoreInv, FilesInv, Writers
<1> QED
  BY <1>1, <1>2, <1>3, <1>4, FilesUntouched DEF StoreInv

\* A sync of the directory that fails.
LEMMA SyncFailsInv == StoreInv /\ SyncFails => StoreInv'
<1> SUFFICES ASSUME StoreInv, SyncFails PROVE StoreInv'
  OBVIOUS
<1>1. FilesInv'
  BY FilesStep DEF StoreInv, StoreNext
<1>2. /\ UNCHANGED <<entry, survivors, root, kept, begun, parentsSynced, existing>>
      /\ call["store"].at # "none" /\ call' = [call EXCEPT !["store"] = NoCall]
      /\ life' = AfterFailure(call["store"])
  BY DEF SyncFails, storeFiles
<1>3. RootSound'
  BY <1>2, CallOfProcess, AfterFailureRuns, RootUntouched DEF StoreInv, Writers
<1>4. call'["store"] = NoCall
  BY <1>2 DEF StoreInv, FilesInv, Writers
<1> QED
  BY <1>1, <1>2, <1>3, <1>4, FilesUntouched DEF StoreInv

\* The rename puts a begun state, or a copy of the state that is there, in
\* its place. The old file may survive as well.
LEMMA RenameFileInv ==
  ASSUME StoreInv, NEW w \in Writers, RenameFile(w)
  PROVE  StoreInv'
<1> DEFINE c == call[w]
<1>1. FilesInv'
  BY FilesStep DEF StoreInv, StoreNext
<1>2. CallWhole(c) /\ c.at = "rename"
  BY DEF RenameFile, StoreInv, FilesInv
<1>3. c.key \in FileKeys /\ c.file \in Files /\ Renamed(c) = {c.file}
  BY <1>2 DEF CallWhole, Calls, Renamed, Files
<1>4. /\ entry' = [entry EXCEPT ![c.key] = c.file]
      /\ survivors' = [survivors EXCEPT ![c.key] = @ \cup {c.file}]
      /\ UNCHANGED <<root, kept, begun, parentsSynced, existing, life>>
  BY <1>3 DEF RenameFile
<1>5. /\ DOMAIN entry = FileKeys /\ DOMAIN survivors = FileKeys
      /\ entry' \in [FileKeys -> Files] /\ survivors' \in [FileKeys -> SUBSET Files]
  BY <1>1 DEF StoreInv, FilesInv, FilesWhole
<1>6. \A k \in FileKeys :
        /\ entry'[k] = IF k = c.key THEN c.file ELSE entry[k]
        /\ survivors'[k] = IF k = c.key THEN survivors[k] \cup {c.file} ELSE survivors[k]
  BY <1>4, <1>5
<1>7. RootSound'
  BY <1>2, <1>4, CallOfProcess, RootUntouched DEF StoreInv
<1>8. RegisterHolds' /\ CallAhead' /\ RejectedStateKept'
  <2>1. CASE w = "project"
    <3>1. c.key = ProjectKey
      BY <1>2, <2>1 DEF StoreInv, FilesInv, ProjectCallAims
    <3>2. call'["store"] = call["store"]
      BY <2>1 DEF RenameFile, StoreInv, FilesInv, Writers
    <3> HIDE DEF c
    <3> QED
      BY <1>4, <1>5, <1>6, <3>1, <3>2, ProjectStep
  <2>2. CASE w = "store"
    <3> DEFINE d == call'["store"]
    <3>1. d = [c EXCEPT !.at = "sync"]
      BY <2>2 DEF RenameFile, StoreInv, FilesInv, Writers
    <3>2. d.at = "sync" /\ d.kind = c.kind /\ d.key = c.key /\ d.file = c.file
      BY <1>2, <3>1 DEF CallWhole, Calls
    <3>3. /\ c.kind \in {"write", "reject", "backup"}
          /\ c.kind = "write" => c.key = StateKey /\ c.file \in States /\ c.file \in begun
          /\ c.kind = "backup" => c.key = PreviousKey
          /\ c.kind = "reject" => /\ c.key \in {RejectedKey(t) : t \in Stamps}
                                  /\ survivors[c.key] = {NoState} /\ c.file = entry[StateKey]
      BY <1>2, <2>2 DEF StoreInv, FilesInv, StoreCallAims, CallAhead
    <3> HIDE DEF c, d
    <3>4. RegisterHolds'
      BY <1>4, <1>6, <3>3, Keys DEF StoreInv, RegisterHolds
    <3>5. CallAhead'
      <4>1. entry'[c.key] = c.file
        BY <1>3, <1>6
      <4>2. c.kind = "reject" => c.key # StateKey
        BY <3>3, Keys
      <4>3. c.kind = "reject" => c.file = entry'[StateKey]
        BY <1>6, <3>3, <4>2, Keys
      <4> QED
        BY <3>2, <4>1, <4>3 DEF CallAhead, d
    <3>6. RejectedStateKept'
      <4>1. SUFFICES ASSUME NoState \in survivors'[StateKey], kept # NoState
                     PROVE  \E t \in Stamps : survivors'[RejectedKey(t)] = {kept}
        BY <1>4 DEF RejectedStateKept
      <4>2. NoState \in survivors[StateKey]
        <5>1. c.key = StateKey => c.file # NoState
          BY <3>3, Keys, StoreAssumption
        <5>2. StateKey \in FileKeys
          BY Keys
        <5> QED
          BY <1>6, <4>1, <5>1, <5>2
      <4>3. PICK t \in Stamps : survivors[RejectedKey(t)] = {kept}
        BY <4>1, <4>2 DEF StoreInv, RejectedStateKept
      <4>4. c.key # RejectedKey(t)
        BY <3>3, <4>1, <4>3, Keys
      <4>5. RejectedKey(t) \in FileKeys
        BY Keys
      <4>6. survivors'[RejectedKey(t)] = {kept}
        BY <1>6, <4>3, <4>4, <4>5
      <4> QED
        BY <4>6
    <3> QED
      BY <3>4, <3>5, <3>6
  <2> QED
    BY <2>1, <2>2 DEF Writers
<1> QED
  BY <1>1, <1>7, <1>8 DEF StoreInv

\* The sync makes what the process sees all that can survive, and the
\* directory durable; the register settles on the state that is seen.
LEMMA SyncDirectoryInv == StoreInv /\ SyncDirectory => StoreInv'
<1> SUFFICES ASSUME StoreInv, SyncDirectory PROVE StoreInv'
  OBVIOUS
<1> DEFINE c == call["store"]
           d == call'["store"]
<1>1. FilesInv'
  BY FilesStep DEF StoreInv, StoreNext
<1>2. /\ c.at = "sync" /\ entry' = entry /\ life' = life /\ existing' = existing
      /\ kept' = entry[StateKey] /\ begun' = {} /\ parentsSynced' = TRUE
      /\ survivors' = DirectorySynced /\ root' = RootAfterSync
      /\ d = AfterSync(c) /\ call'["project"] = call["project"]
  BY DEF SyncDirectory, StoreInv, FilesInv, Writers
<1>3. \A k \in FileKeys \ {ProjectKey} : survivors'[k] = {entry[k]}
  BY <1>2 DEF DirectorySynced
<1>4. entry[StateKey] \in Files /\ survivors'[StateKey] = {kept'}
  BY <1>2, <1>3, Keys DEF StoreInv, FilesInv, FilesWhole
<1>5. RegisterHolds'
  BY <1>2, <1>4 DEF RegisterHolds
<1>6. RejectedStateKept'
  BY <1>4 DEF RejectedStateKept
<1>7. RootSound'
  <2>1. life # "down"
    BY <1>2, CallOfProcess DEF StoreInv, Writers
  <2>2. root' = "durable"
    BY <1>2, <2>1 DEF RootAfterSync, StoreInv, RootSound
  <2> QED
    BY <1>2, <2>1, <2>2 DEF RootSound
<1>8. CallAhead'
  <2>1. CASE c.kind = "reject"
    <3>1. c.key \in FileKeys \ {ProjectKey} /\ c.file = entry[StateKey] /\ entry[c.key] = c.file
      BY <1>2, <2>1, Keys DEF StoreInv, FilesInv, StoreCallAims, CallAhead
    <3>2. d.at = "delete" /\ d.kind = "reject" /\ d.key = c.key
      BY <1>2, <2>1 DEF AfterSync, StoreInv, FilesInv, CallWhole, Calls, Writers
    <3>3. survivors'[c.key] = {kept'}
      BY <1>2, <1>3, <3>1
    <3> HIDE DEF c, d
    <3> QED
      BY <3>2, <3>3 DEF CallAhead, d
  <2>2. CASE c.kind # "reject"
    <3>1. d = NoCall
      BY <1>2, <2>2 DEF AfterSync
    <3> QED
      BY <3>1 DEF CallAhead, NoCall
  <2> QED
    BY <2>1, <2>2
<1> QED
  BY <1>1, <1>5, <1>6, <1>7, <1>8 DEF StoreInv

\* Reject deletes the state only when its copy is the confirmed state and
\* nothing else can survive under the name of the copy.
LEMMA DeleteStateInv == StoreInv /\ DeleteState => StoreInv'
<1> SUFFICES ASSUME StoreInv, DeleteState PROVE StoreInv'
  OBVIOUS
<1> DEFINE c == call["store"]
           d == call'["store"]
<1>1. FilesInv'
  BY FilesStep DEF StoreInv, StoreNext
<1>2. c.at = "delete" /\ UNCHANGED <<root, parentsSynced, existing, kept>>
  BY DEF DeleteState
<1>3. life # "down"
  BY <1>2, CallOfProcess DEF StoreInv, Writers
<1>4. RootSound'
  BY <1>2, <1>3, RootUntouched DEF DeleteState, StoreInv
<1>5. CASE call' = [call EXCEPT !["store"] = NoCall] /\ UNCHANGED <<entry, survivors, begun>>
  <2>1. d = NoCall
    BY <1>5 DEF StoreInv, FilesInv, Writers
  <2> QED
    BY <1>1, <1>2, <1>4, <1>5, <2>1, FilesUntouched DEF StoreInv
<1>6. CASE /\ Deleted(StateKey) /\ begun' = begun \cup {NoState}
           /\ call' = [call EXCEPT !["store"].at = "prune"]
  <2>1. PICK t \in Stamps : c.key = RejectedKey(t)
    BY <1>2 DEF StoreInv, FilesInv, StoreCallAims
  <2>2. survivors[c.key] = {kept}
    BY <1>2 DEF StoreInv, CallAhead
  <2>3. \A k \in FileKeys : survivors'[k] = IF k = StateKey THEN survivors[k] \cup {NoState} ELSE survivors[k]
    BY <1>6 DEF Deleted, StoreInv, FilesInv, FilesWhole
  <2>4. survivors'[RejectedKey(t)] = {kept}
    BY <2>1, <2>2, <2>3, Keys
  <2>5. RegisterHolds'
    BY <1>2, <1>6, <2>3, Keys DEF StoreInv, RegisterHolds, Files
  <2>6. RejectedStateKept'
    BY <1>2, <2>4 DEF RejectedStateKept
  <2>7. d.at = "prune" /\ d.key = c.key /\ d.kind = c.kind
    BY <1>6 DEF StoreInv, FilesInv, CallWhole, Calls, Writers
  <2> HIDE DEF c, d
  <2>8. CallAhead'
    BY <1>2, <2>1, <2>4, <2>7 DEF CallAhead, d
  <2> QED
    BY <1>1, <1>4, <2>5, <2>6, <2>8 DEF StoreInv
<1> QED
  BY <1>5, <1>6 DEF DeleteState

\* The pruning takes other copies than the one that Reject has just made.
LEMMA PruneRejectedInv == StoreInv /\ PruneRejected => StoreInv'
<1> SUFFICES ASSUME StoreInv, PruneRejected PROVE StoreInv'
  OBVIOUS
<1> DEFINE c == call["store"]
<1>1. FilesInv'
  BY FilesStep DEF StoreInv, StoreNext
<1>2. /\ c.at = "prune" /\ UNCHANGED <<root, parentsSynced, existing, kept, begun>>
      /\ life' = "ready" /\ call' = [call EXCEPT !["store"] = NoCall]
  BY DEF PruneRejected
<1>3. PICK t \in Stamps : c.key = RejectedKey(t)
  BY <1>2 DEF StoreInv, FilesInv, StoreCallAims
<1>4. c.key[2] = t /\ survivors[RejectedKey(t)] = {kept}
  BY <1>2, <1>3, Keys DEF StoreInv, CallAhead
<1>5. PICK times \in SUBSET Pruned(t) :
        survivors' = [k \in FileKeys |-> IF k \in {RejectedKey(u) : u \in times}
                                         THEN survivors[k] \cup {NoState} ELSE survivors[k]]
  BY <1>4 DEF PruneRejected
<1>6. times \subseteq Stamps \ {t}
  BY DEF Pruned, Rejected
<1>7. StateKey \notin {RejectedKey(u) : u \in times} /\ RejectedKey(t) \notin {RejectedKey(u) : u \in times}
  BY <1>6, Keys
<1>8. survivors'[StateKey] = survivors[StateKey] /\ survivors'[RejectedKey(t)] = {kept}
  BY <1>4, <1>5, <1>7, Keys
<1>9. RegisterHolds'
  BY <1>2, <1>8 DEF StoreInv, RegisterHolds
<1>10. RejectedStateKept'
  BY <1>2, <1>8 DEF RejectedStateKept
<1>11. RootSound'
  BY <1>2, CallOfProcess, RootUntouched DEF StoreInv, Writers
<1>12. call'["store"] = NoCall
  BY <1>2 DEF StoreInv, FilesInv, Writers
<1>13. CallAhead'
  BY <1>12 DEF CallAhead, NoCall
<1> QED
  BY <1>1, <1>9, <1>10, <1>11, <1>13 DEF StoreInv

\* A killed process has made its directory durable.
LEMMA KillInv ==
  ASSUME KillBeforeSync = FALSE, StoreInv, Kill
  PROVE  StoreInv'
<1>1. FilesInv'
  BY FilesStep DEF StoreInv, StoreNext
<1>2. /\ root # "fragile" /\ UNCHANGED <<entry, survivors, root, kept, begun, parentsSynced, existing>>
      /\ life' = "down" /\ call' = [w \in Writers |-> NoCall]
  BY DEF Kill, Halted
<1>3. call'["store"] = NoCall
  BY <1>2 DEF Writers
<1>4. RootSound'
  BY <1>2 DEF StoreInv, RootSound
<1> QED
  BY <1>1, <1>2, <1>3, <1>4, FilesUntouched DEF StoreInv

\* A power loss leaves files that could survive. A directory goes only with
\* nothing in it that was confirmed.
LEMMA PowerLossInv == StoreInv /\ PowerLoss => StoreInv'
<1> SUFFICES ASSUME StoreInv, PowerLoss PROVE StoreInv'
  OBVIOUS
<1>1. FilesInv'
  BY FilesStep DEF StoreInv, StoreNext
<1>2. /\ UNCHANGED <<kept, begun, parentsSynced, existing>>
      /\ life' = "down" /\ call' = [w \in Writers |-> NoCall]
      /\ \A k \in FileKeys : survivors'[k] = {entry'[k]}
  BY DEF PowerLoss, Halted
<1>3. CallAhead'
  <2>1. call'["store"] = NoCall
    BY <1>2 DEF Writers
  <2> QED
    BY <2>1 DEF CallAhead, NoCall
<1>4. CASE /\ \A k \in FileKeys : entry'[k] \in survivors[k]
           /\ root' = IF root = "fragile" THEN "durable" ELSE root
  <2>1. RegisterHolds'
    BY <1>2, <1>4, Keys DEF StoreInv, RegisterHolds
  <2>2. RootSound'
    BY <1>2, <1>4 DEF StoreInv, RootSound
  <2>3. RejectedStateKept'
    <3>1. SUFFICES ASSUME NoState \in survivors'[StateKey], kept # NoState
                   PROVE  \E t \in Stamps : survivors'[RejectedKey(t)] = {kept}
      BY <1>2 DEF RejectedStateKept
    <3>2. NoState \in survivors[StateKey]
      BY <1>2, <1>4, <3>1, Keys
    <3>3. PICK t \in Stamps : survivors[RejectedKey(t)] = {kept}
      BY <3>1, <3>2 DEF StoreInv, RejectedStateKept
    <3>4. RejectedKey(t) \in FileKeys
      BY Keys
    <3>5. survivors'[RejectedKey(t)] = {kept}
      BY <1>2, <1>4, <3>3, <3>4
    <3> QED
      BY <3>5
  <2> QED
    BY <1>1, <1>3, <2>1, <2>2, <2>3 DEF StoreInv
<1>5. CASE /\ root = "fragile" /\ root' = "absent"
           /\ entry' = [k \in FileKeys |-> IF k = ProjectKey THEN entry[k] ELSE NoState]
  <2>1. kept = NoState
    BY <1>5 DEF StoreInv, RootSound
  <2>2. survivors'[StateKey] = {NoState}
    BY <1>2, <1>5, Keys
  <2>3. RegisterHolds'
    BY <1>2, <2>1, <2>2 DEF StoreInv, RegisterHolds
  <2>4. RejectedStateKept'
    BY <1>2, <2>1 DEF RejectedStateKept
  <2>5. RootSound'
    BY <1>2, <1>5, <2>1 DEF RootSound
  <2> QED
    BY <1>1, <1>3, <2>3, <2>4, <2>5 DEF StoreInv
<1> QED
  BY <1>4, <1>5 DEF PowerLoss

\* StoreInv is inductive when no kill comes between a rename and the sync of its directory.
LEMMA StoreInvStep ==
  ASSUME KillBeforeSync = FALSE, StoreInv, [StoreNext]_storeVars
  PROVE  StoreInv'
<1>1. CASE UNCHANGED storeVars
  <2>1. FilesInv'
    BY FilesStep DEF StoreInv
  <2>2. RootSound'
    BY <1>1 DEF storeVars, storeFiles, storeProcess, StoreInv, RootSound
  <2>3. RegisterHolds' /\ CallAhead' /\ RejectedStateKept'
    BY <1>1, FilesUntouched DEF storeVars, storeFiles, storeProcess
  <2> QED
    BY <2>1, <2>2, <2>3 DEF StoreInv
<1>2. CASE StoreNext
  BY <1>2, OpenStoreInv, ReadStateInv, WriteStateInv, RejectStateInv, BackupStateInv,
     SaveProjectInv, CopyFileInv, CancelWriteInv, RenameFileInv, SyncDirectoryInv, SyncFailsInv,
     DeleteStateInv, PruneRejectedInv, KillInv, PowerLossInv DEF StoreNext
<1> QED
  BY <1>1, <1>2

\* It holds in every reachable state.
LEMMA StoreInvariance ==
  ASSUME KillBeforeSync = FALSE
  PROVE  StoreSpec => []StoreInv
BY StoreInvInit, StoreInvStep, PTL DEF StoreSpec

\* DirectoryStays: unless a process is killed before its first sync, syncDirs
\* has made every directory of Open durable when a write returns.
THEOREM ConfirmedDirectoryStays ==
  ASSUME KillBeforeSync = FALSE
  PROVE  StoreSpec => []DirectoryStays
<1>1. StoreInv => DirectoryStays
  BY DEF StoreInv, RootSound, DirectoryStays
<1> QED
  BY <1>1, StoreInvariance, PTL

\* RejectedStateKept: whatever stops Reject between its copy, its delete and
\* its pruning, a confirmed state stays on the disk under one of two keys.
THEOREM RejectedStateStays ==
  ASSUME KillBeforeSync = FALSE
  PROVE  StoreSpec => []RejectedStateKept
<1>1. StoreInv => RejectedStateKept
  BY DEF StoreInv
<1> QED
  BY <1>1, StoreInvariance, PTL

-----------------------------------------------------------------------------
(* The files implement the register                                        *)

\* The start reads a state that the register may hold.
LEMMA SeenMayBeStored ==
  ASSUME StoreInv
  PROVE  entry[StateKey] \in begun \cup {kept} /\ entry[StateKey] \in States \cup {NoState}
BY Keys DEF StoreInv, FilesInv, FilesWhole, Files, RegisterHolds

\* Every step of the store is a step of the atomic register or changes nothing of it.
LEMMA RegisterStep ==
  ASSUME StoreInv, [StoreNext]_storeVars
  PROVE  [Register!AtomicNext]_<<kept, begun, loaded>>
<1> DEFINE stored == entry[StateKey]
<1>1. stored \in begun \cup {kept} /\ stored \in States \cup {NoState}
  BY SeenMayBeStored
<1> HIDE DEF stored
<1>2. ASSUME UNCHANGED <<kept, begun, loaded>>
      PROVE  [Register!AtomicNext]_<<kept, begun, loaded>>
  BY <1>2
<1>3. ASSUME loaded' = Unread, UNCHANGED <<kept, begun>>
      PROVE  Register!AtomicNext
  BY <1>3 DEF Register!AtomicNext, Register!Stop
<1>4. CASE UNCHANGED storeVars
  BY <1>2, <1>4 DEF storeVars
<1>5. CASE ReadState
  <2>1. CASE loaded' = stored /\ UNCHANGED <<kept, begun>>
    BY <1>1, <2>1 DEF Register!AtomicNext, Register!Load
  <2>2. CASE loaded' = loaded /\ UNCHANGED <<kept, begun>>
    BY <1>2, <2>2
  <2> QED
    BY <1>5, <2>1, <2>2 DEF ReadState, StoredState, stored
<1>6. ASSUME NEW v \in States, WriteState(v) PROVE Register!AtomicNext
  <2>1. Register!Begin(v)
    BY <1>6 DEF WriteState, Register!Begin
  <2> QED
    BY <2>1 DEF Register!AtomicNext
<1>7. CASE SyncDirectory
  <2>1. Register!Settle(stored)
    BY <1>1, <1>7 DEF SyncDirectory, Register!Settle, stored
  <2> QED
    BY <1>1, <2>1 DEF Register!AtomicNext
<1>8. CASE DeleteState
  <2>1. CASE begun' = begun \cup {NoState} /\ UNCHANGED <<kept, loaded>>
    BY <2>1 DEF Register!AtomicNext, Register!Begin
  <2>2. CASE UNCHANGED <<kept, begun, loaded>>
    BY <1>2, <2>2
  <2> QED
    BY <1>8, <2>1, <2>2 DEF DeleteState
<1>9. CASE Kill \/ PowerLoss
  BY <1>3, <1>9 DEF Kill, PowerLoss, Halted
<1>10. CASE OpenStore \/ BackupState \/ SyncFails \/ PruneRejected
  BY <1>2, <1>10 DEF OpenStore, BackupState, SyncFails, PruneRejected
<1>11. ASSUME NEW v \in States, SaveProject(v)
       PROVE  [Register!AtomicNext]_<<kept, begun, loaded>>
  BY <1>2, <1>11 DEF SaveProject
<1>12. ASSUME NEW stamp \in Stamps, RejectState(stamp)
       PROVE  [Register!AtomicNext]_<<kept, begun, loaded>>
  BY <1>2, <1>12 DEF RejectState
<1>13. ASSUME NEW w \in Writers, CopyFile(w) \/ CancelWrite(w) \/ RenameFile(w)
       PROVE  [Register!AtomicNext]_<<kept, begun, loaded>>
  BY <1>2, <1>13 DEF CopyFile, CancelWrite, RenameFile
<1> QED
  BY <1>4, <1>5, <1>6, <1>7, <1>8, <1>9, <1>10, <1>11, <1>12, <1>13 DEF StoreNext

\* RegisterImplemented: the temporary file, the rename, the sync and the
\* delete of statestore are one register to the session, over every kill and
\* power loss.
THEOREM StoreImplementsRegister ==
  ASSUME KillBeforeSync = FALSE
  PROVE  StoreSpec => RegisterImplemented
<1>1. StoreInit => Register!AtomicInit
  BY DEF StoreInit, Register!AtomicInit
<1>2. StoreInv /\ [StoreNext]_storeVars => [Register!AtomicNext]_<<kept, begun, loaded>>
  BY RegisterStep
<1>3. StoreSpec => []StoreInv
  BY StoreInvariance
<1> QED
  BY <1>1, <1>2, <1>3, PTL DEF StoreSpec, RegisterImplemented, Register!AtomicSpec
=============================================================================
