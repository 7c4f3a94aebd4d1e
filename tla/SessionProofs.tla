---------------------------- MODULE SessionProofs ----------------------------
(***************************************************************************)
(* The session of internal/session, proved for every value of its          *)
(* constants: its types, who may write the state file, the receipts of     *)
(* the commands; then what the state saves and the restores keep, that is  *)
(* the simulation and its project, the counters that clients see, the      *)
(* confirmed changes, the bound of the restore loop and the bound of the   *)
(* known clients.  Each of the latter needs an inductive invariant of its  *)
(* own beside Inv.                                                         *)
(***************************************************************************)
EXTENDS Session, SessionCommandProofs, FiniteSetTheorems

-----------------------------------------------------------------------------
(* The inductive invariant.                                                *)

\* persistence.mu has one holder, which has a copy to write; the startup
\* save has one too.  A final save is asked for only after Close.
SaveInv ==
  /\ \A w \in Savers : save[w] = "writing" => phase = "up" /\ captured # None
  /\ \A v, w \in Savers : save[v] = "writing" /\ save[w] = "writing" => v = w
  /\ phase = "starting" => captured # None
  /\ phase = "down" => captured = None
  /\ save[Final] # "idle" => closed /\ phase = "up"
  /\ phase # "down" => epoch \in 1 .. starts

\* The sequences f of the clients cover every command that ran in epoch e.
Covers(f, e) == \A c \in Clients, n \in Sequences1 : runs[<<e, c, n>>] # 0 => n <= f[c]

\* AtMostOnce with the keys of TypeOK written out.
OnePerKey == \A k \in Epochs \X Clients \X Sequences1 : runs[k] <= 1

\* What makes the receipts sufficient: the session knows every sequence that
\* ran in its epoch, and so does a final save, because nothing runs between
\* the copy for it and the end of the process.
RunsInv ==
  /\ OnePerKey
  /\ \A k \in Epochs \X Clients \X Sequences1 : runs[k] # 0 => k[1] <= starts
  /\ phase # "down" => Covers([c \in Clients |-> LastSequence(c)], epoch)
  /\ captured # None =>
       /\ captured.epoch = epoch
       /\ captured.final => closed /\ phase = "up" /\ Covers(captured.sequences, epoch)
  /\ store # None =>
       /\ store.epoch <= starts
       /\ store.final => Covers(store.sequences, store.epoch)
       /\ store.final /\ store.epoch = epoch /\ phase = "up" => closed

Inv == TypeOK /\ SaveInv /\ RunsInv

-----------------------------------------------------------------------------
(* Types of the operators.                                                 *)

\* Every command that a sender makes is a command body.
LEMMA BodiesType ==
  ASSUME session \in SessionValue, starts \in Nat \ {0}
  PROVE  Bodies \subseteq Body
<1>1. /\ DefaultProject.demand \in Demands /\ DefaultProject \in Project
      /\ session.projectRevision \in Nat /\ session.projectRevision - 1 \in Nat
      /\ session.lastCheckpoint \in Nat
      /\ starts \in Nat /\ starts - 1 \in Nat
  BY ProjectAssumption DEF SessionValue, Project
<1>2. NoBody \in Body
  BY <1>1 DEF NoBody, Body, ActionNames
<1>3. ASSUME NEW a \in ActionNames
      PROVE  [NoBody EXCEPT !.action = a] \in Body
  BY <1>2 DEF Body
<1>4. ASSUME NEW p \in BOOLEAN
      PROVE  [NoBody EXCEPT !.action = "pause", !.paused = p] \in Body
  BY <1>2 DEF Body, ActionNames
<1>5. ASSUME NEW d \in Demands
      PROVE  [NoBody EXCEPT !.action = "demand", !.demand = d] \in Body
  BY <1>2 DEF Body, ActionNames
<1>6. ASSUME NEW i \in Nat
      PROVE  [NoBody EXCEPT !.action = "rewind", !.checkpoint = i] \in Body
  BY <1>2 DEF Body, ActionNames
<1>7. ASSUME NEW p \in Project, NEW r \in Nat, NEW v \in Nat
      PROVE  ProjectBody(p, r, v) \in Body
  BY <1>2 DEF ProjectBody, Body, ActionNames
<1> SUFFICES ASSUME NEW b \in Bodies
             PROVE  b \in Body
  OBVIOUS
<1> HIDE DEF NoBody
<1>8. CASE \E a \in {"fleet", "reset", "demo", "checkpoint"} : b = [NoBody EXCEPT !.action = a]
  BY <1>3, <1>8 DEF ActionNames
<1>9. CASE \E p \in BOOLEAN : b = [NoBody EXCEPT !.action = "pause", !.paused = p]
  BY <1>4, <1>9
<1>10. CASE \E d \in Demands : b = [NoBody EXCEPT !.action = "demand", !.demand = d]
  BY <1>5, <1>10
<1>11. CASE \E i \in 0 .. session.lastCheckpoint : b = [NoBody EXCEPT !.action = "rewind", !.checkpoint = i]
  <2>1. PICK i \in 0 .. session.lastCheckpoint : b = [NoBody EXCEPT !.action = "rewind", !.checkpoint = i]
    BY <1>11
  <2>2. i \in Nat
    BY <1>1
  <2> QED BY <1>6, <2>1, <2>2, Zenon
<1>12. CASE b \in ProjectBodies
  <2>1. PICK p \in Project, r \in {session.projectRevision, session.projectRevision - 1}, v \in {starts, starts - 1} :
              b = ProjectBody(p, r, v)
    BY <1>12 DEF ProjectBodies
  <2>2. r \in Nat /\ v \in Nat
    BY <1>1
  <2> QED BY <1>7, <2>1, <2>2, Zenon
<1> QED
  BY <1>8, <1>9, <1>10, <1>11, <1>12, Zenon DEF Bodies

\* The counters of a session value are counters.
LEMMA CountersType ==
  ASSUME NEW r \in Nat, NEW s \in SessionValue
  PROVE  CountersOf(r, s) \in Counters
BY DEF CountersOf, Counters, SessionValue

\* The encoder changes at most the project of the copy.
LEMMA EncodedType ==
  ASSUME NEW file \in StateFile, cache \in CacheState
  PROVE  /\ Encoded(file) \in StateFile
         /\ Encoded(file).epoch = file.epoch
         /\ Encoded(file).final = file.final
         /\ Encoded(file).sequences = file.sequences
         /\ CacheOf(file) \in CacheState
<1>1. cache.project \in Project
  BY DEF CacheState
<1>2. /\ Encoded(file) \in StateFile
      /\ Encoded(file).epoch = file.epoch
      /\ Encoded(file).final = file.final
      /\ Encoded(file).sequences = file.sequences
  BY <1>1 DEF Encoded, StateFile
<1>3. Encoded(file).project \in Project /\ file.epoch \in Nat /\ file.projectRevision \in Nat
  BY <1>2 DEF StateFile, Epochs
<1> QED
  BY <1>2, <1>3 DEF CacheOf, CacheState

\* captureState makes a state file.
LEMMA CaptureType ==
  ASSUME TypeOK, epoch \in Epochs, NEW kind
  PROVE  CaptureState(kind) \in StateFile
<1>1. ASSUME NEW c \in Clients
      PROVE  LastSequence(c) \in Sequences0
  BY DEF TypeOK, LastSequence, HasReceipt, Receipt, Sequences0, Sequences1
<1>2. [c \in Clients |-> LastSequence(c)] \in [Clients -> Sequences0]
  BY <1>1
<1> QED
  BY <1>2 DEF CaptureState, StateFile, TypeOK, SessionValue

-----------------------------------------------------------------------------
(* Every action keeps the types.                                           *)

\* The types hold before the first start.
LEMMA InitType == Init => TypeOK
<1> SUFFICES ASSUME Init
             PROVE  TypeOK
  OBVIOUS
<1>1. session \in SessionValue /\ projectFile \in Project
  BY StartProjectType, ProjectAssumption DEF Init, NoMemory
<1>2. IdleHandler \in HandlerState /\ NewPersistence \in PersistState /\ EmptyCache \in CacheState
  BY ProjectAssumption DEF IdleHandler, HandlerState, NewPersistence, PersistState, EmptyCache, CacheState
<1>3. NoCounters \in Counters
  BY DEF NoCounters, Counters
<1>4. receipts \in [Clients -> Receipt \cup {None}] /\ restored \in [Clients -> Sequences0]
  BY SessionAssumption DEF Init, NoMemory, Sequences0
<1>5. /\ handler \in [Handlers -> HandlerState] /\ persist \in PersistState /\ cache \in CacheState
      /\ saver \in [nudge : BOOLEAN, pending : BOOLEAN]
  BY <1>2 DEF Init, NoMemory
<1>6. runs \in [Epochs \X Clients \X Sequences1 -> Nat] /\ seen \in [Epochs -> Counters]
  BY <1>3 DEF Init
<1>7. starts \in 0 .. MaxStarts /\ epoch \in 0 .. MaxStarts
  BY SessionAssumption DEF Init, NoMemory
<1> QED
  BY <1>1, <1>4, <1>5, <1>6, <1>7 DEF TypeOK, Init, NoMemory

\* An exact retry keeps the types.
LEMMA ReplayCommandType ==
  ASSUME TypeOK, NEW h \in Handlers, NEW c \in Clients, NEW n \in Sequences1, NEW e, NEW b,
         ReplayCommand(h, c, n, e, b)
  PROVE  TypeOK'
<1>1. receipts[c] # None
  BY SMT DEF ReplayCommand, Decision, HasReceipt
<1>2. receipts[c].revision \in Nat
  BY <1>1 DEF TypeOK, Receipt
<1>3. handler' \in [Handlers -> HandlerState]
  BY <1>2 DEF TypeOK, ReplayCommand, HandlerState, IdleHandler
<1> QED
  BY <1>3 DEF TypeOK, ReplayCommand, processVars, commandVars, saveVars, historyVars

\* A command that runs keeps the types.
LEMMA ApplyCommandType ==
  ASSUME TypeOK, NEW h \in Handlers, NEW c \in Clients, NEW n \in Sequences1, NEW e, NEW b \in Body,
         epoch \in Epochs, ApplyCommand(h, c, n, e, b)
  PROVE  TypeOK'
<1>1. PICK o \in Outcomes(session, b) :
        /\ session' = o.session
        /\ revision' = IF o.code = "ok" THEN revision + 1 ELSE revision
        /\ receipts' = [receipts EXCEPT ![c] =
                          [sequence |-> n, digest |-> b, revision |-> revision', code |-> o.code,
                           saveState |-> o.saveState]]
        /\ restored' = [restored EXCEPT ![c] = 0]
        /\ runs' = [runs EXCEPT ![<<epoch, c, n>>] = @ + 1]
        /\ projectFile' = IF o.file = {} THEN projectFile ELSE CHOOSE p \in o.file : TRUE
        /\ fileRevision' = IF projectFile'.net = projectFile.net THEN fileRevision
                           ELSE IF persist.enabled THEN revision' ELSE MaxRevision + 1
        /\ LET changed == o.session.projectRevision # session.projectRevision
           IN  handler' = [handler EXCEPT ![h] =
                             IF changed \/ o.saveState
                             THEN [pc |-> "nudge", revision |-> revision', changed |-> changed,
                                   saveState |-> o.saveState]
                             ELSE IdleHandler]
        /\ seen' = [seen EXCEPT ![epoch] = CountersOf(revision', session')]
  BY DEF ApplyCommand
<1>2. o \in OutcomeType
  BY OutcomesType DEF TypeOK
<1>3. /\ o.session \in SessionValue /\ o.code \in Codes /\ o.saveState \in BOOLEAN
      /\ o.file \subseteq Project
  BY <1>2 DEF OutcomeType
<1>4. revision' \in Nat /\ session' \in SessionValue
  BY <1>1, <1>3 DEF TypeOK
<1>5. receipts' \in [Clients -> Receipt \cup {None}]
  <2>1. [sequence |-> n, digest |-> b, revision |-> revision', code |-> o.code, saveState |-> o.saveState] \in Receipt
    BY <1>3, <1>4 DEF Receipt
  <2> QED BY <1>1, <2>1 DEF TypeOK
<1>6. restored' \in [Clients -> Sequences0]
  BY <1>1, SessionAssumption DEF TypeOK, Sequences0
<1>7. runs' \in [Epochs \X Clients \X Sequences1 -> Nat]
  <2>1. <<epoch, c, n>> \in Epochs \X Clients \X Sequences1
    OBVIOUS
  <2>2. runs[<<epoch, c, n>>] + 1 \in Nat
    BY <2>1 DEF TypeOK
  <2> QED BY <1>1, <2>2 DEF TypeOK
<1>8. projectFile' \in Project
  BY <1>1, <1>3, Zenon DEF TypeOK
<1>9. fileRevision' \in Nat
  <2>1. MaxRevision + 1 \in Nat
    BY SessionAssumption
  <2> QED BY <1>1, <1>4, <2>1 DEF TypeOK
<1>10. handler' \in [Handlers -> HandlerState]
  <2>1. ASSUME NEW v \in BOOLEAN
        PROVE  [pc |-> "nudge", revision |-> revision', changed |-> v, saveState |-> o.saveState] \in HandlerState
    BY <1>3, <1>4 DEF HandlerState
  <2>2. IdleHandler \in HandlerState
    BY DEF IdleHandler, HandlerState
  <2> QED BY <1>1, <2>1, <2>2, Zenon DEF TypeOK
<1>11. seen' \in [Epochs -> Counters]
  BY <1>1, <1>4, CountersType DEF TypeOK
<1> QED
  BY <1>4, <1>5, <1>6, <1>7, <1>8, <1>9, <1>10, <1>11
  DEF TypeOK, ApplyCommand, processVars, saveVars

\* The rest of an Apply call keeps the types.
LEMMA HandlerStepType ==
  ASSUME TypeOK, NEW h \in Handlers, NudgeSaver(h) \/ ReplyAfterSave(h)
  PROVE  TypeOK'
<1>1. IdleHandler \in HandlerState
  BY DEF IdleHandler, HandlerState
<1>2. handler[h] \in HandlerState /\ handler[h].revision \in Nat
  BY DEF TypeOK, HandlerState
<1>3. CASE NudgeSaver(h)
  <2>1. saver' \in [nudge : BOOLEAN, pending : BOOLEAN]
    BY <1>2, <1>3 DEF NudgeSaver, Nudged, HandlerState, TypeOK
  <2>2. [handler[h] EXCEPT !.pc = "wait"] \in HandlerState
    BY <1>2 DEF HandlerState
  <2>3. handler' \in [Handlers -> HandlerState]
    BY <1>1, <1>3, <2>2 DEF NudgeSaver, TypeOK
  <2>4. save' \in [Savers -> {"idle", "queued", "writing"}]
    BY <1>3 DEF NudgeSaver, TypeOK
  <2> QED
    BY <1>3, <2>1, <2>3, <2>4 DEF NudgeSaver, TypeOK, processVars, commandVars, historyVars
<1>4. CASE ReplyAfterSave(h)
  <2>1. handler' \in [Handlers -> HandlerState] /\ confirmed' \in Nat
    BY <1>1, <1>2, <1>4 DEF ReplyAfterSave, TypeOK
  <2> QED
    BY <1>4, <2>1 DEF ReplyAfterSave, TypeOK, processVars, commandVars, saveVars
<1> QED
  BY <1>3, <1>4

\* A batch of the clock keeps the types.
LEMMA TickType ==
  ASSUME TypeOK, epoch \in Epochs, Tick
  PROVE  TypeOK'
<1>1. revision' \in Nat
  BY DEF Tick, TypeOK
<1>2. session' \in SessionValue
  <2>1. CASE UNCHANGED session
    BY <2>1 DEF TypeOK
  <2>2. CASE session' = [session EXCEPT !.sim =
                          [ConfigureRedistribution(session.sim, session.project) EXCEPT !.demo = FALSE]]
    <3>1. session.sim \in Simulation /\ session.project \in Project
      BY DEF TypeOK, SessionValue
    <3>2. ConfigureRedistribution(session.sim, session.project) \in Simulation
      BY <3>1 DEF ConfigureRedistribution, Simulation, Project
    <3>3. [ConfigureRedistribution(session.sim, session.project) EXCEPT !.demo = FALSE] \in Simulation
      BY <3>2 DEF Simulation
    <3> QED BY <2>2, <3>3 DEF TypeOK, SessionValue
  <2> QED BY <2>1, <2>2 DEF Tick
<1>3. seen' \in [Epochs -> Counters]
  BY <1>1, <1>2, CountersType DEF Tick, TypeOK
<1> QED
  BY <1>1, <1>2, <1>3 DEF Tick, TypeOK, processVars, commandVars, saveVars

\* The steps of SaveState keep the types.
LEMMA SaveStepType ==
  ASSUME TypeOK, SaveInv, NEW w \in Savers, BeginSave(w) \/ FinishSave(w) \/ FailSave(w)
  PROVE  TypeOK'
<1>1. save' \in [Savers -> {"idle", "queued", "writing"}]
  BY DEF BeginSave, FinishSave, FailSave, TypeOK
<1>2. CASE BeginSave(w)
  <2>1. epoch \in Epochs
    BY <1>2 DEF BeginSave, SaveInv, TypeOK, Epochs
  <2>2. captured' \in StateFile \cup {None}
    BY <1>2, <2>1, CaptureType DEF BeginSave, TypeOK
  <2> QED
    BY <1>1, <1>2, <2>2 DEF BeginSave, TypeOK, processVars, commandVars, historyVars
<1>3. CASE FinishSave(w) \/ FailSave(w)
  <2>1. captured \in StateFile
    BY <1>3 DEF FinishSave, FailSave, SaveInv, TypeOK
  <2>2. Encoded(captured) \in StateFile /\ CacheOf(captured) \in CacheState
    BY <2>1, EncodedType DEF TypeOK
  <2>3. [cache EXCEPT !.valid = FALSE] \in CacheState
    BY DEF TypeOK, CacheState
  <2>4. store' \in StateFile \cup {None} /\ cache' \in CacheState /\ restores' \in Nat
    <3>1. store \in StateFile \cup {None} /\ restores \in Nat
      BY DEF TypeOK
    <3>2. store' \in {store, Encoded(captured)} /\ restores' \in {0, restores}
      BY <1>3 DEF FinishSave, FailSave
    <3>3. cache' \in {CacheOf(captured), [cache EXCEPT !.valid = FALSE]}
      BY <1>3, Zenon DEF FinishSave, FailSave
    <3>4. restores' \in Nat
      BY <3>1, <3>2
    <3> QED BY <2>2, <2>3, <3>1, <3>2, <3>3, <3>4
  <2>5. captured.revision \in Nat
    BY <2>1 DEF StateFile
  <2>6. persist' \in PersistState
    BY <1>3, <2>5, ZenonT(30) DEF FinishSave, FailSave, TypeOK, PersistState
  <2> QED
    BY <1>1, <1>3, <2>4, <2>6 DEF FinishSave, FailSave, TypeOK, processVars, commandVars
<1> QED
  BY <1>2, <1>3

\* The steps of RunStateSaver and the final save keep the types.
LEMMA SaverStepType ==
  ASSUME TypeOK, SaverStep
  PROVE  TypeOK'
<1>1. saver' \in [nudge : BOOLEAN, pending : BOOLEAN]
  <2>1. CASE TakeNudge
    BY <2>1 DEF TakeNudge
  <2>2. CASE SavePeriodic
    BY <2>2 DEF SavePeriodic, TypeOK
  <2>3. CASE SaveFinal
    BY <2>3 DEF SaveFinal, TypeOK
  <2> QED BY <2>1, <2>2, <2>3 DEF SaverStep
<1>2. save' \in [Savers -> {"idle", "queued", "writing"}]
  BY DEF SaverStep, TakeNudge, SavePeriodic, SaveFinal, TypeOK
<1> QED
  BY <1>1, <1>2 DEF SaverStep, TakeNudge, SavePeriodic, SaveFinal, TypeOK, processVars, commandVars, historyVars

\* Close keeps the types.
LEMMA CloseType ==
  ASSUME TypeOK, Close
  PROVE  TypeOK'
BY DEF Close, TypeOK, commandVars, saveVars, historyVars

\* The end of a process keeps the types.
LEMMA LoseMemoryType ==
  ASSUME TypeOK, NEW file, LoseMemory(file), starts' = starts, store' \in StateFile \cup {None},
         UNCHANGED <<confirmed, fileRevision, restores, projectFile>>
  PROVE  TypeOK'
<1>1. session' \in SessionValue
  BY StartProjectType, ProjectAssumption DEF LoseMemory
<1>2. IdleHandler \in HandlerState /\ NewPersistence \in PersistState /\ EmptyCache \in CacheState
  BY ProjectAssumption DEF IdleHandler, HandlerState, NewPersistence, PersistState, EmptyCache, CacheState
<1>3. handler' \in [Handlers -> HandlerState] /\ persist' \in PersistState /\ cache' \in CacheState
  BY <1>2 DEF LoseMemory
<1>4. receipts' \in [Clients -> Receipt \cup {None}] /\ restored' \in [Clients -> Sequences0]
  BY SessionAssumption DEF LoseMemory, Sequences0
<1>5. save' \in [Savers -> {"idle", "queued", "writing"}] /\ saver' \in [nudge : BOOLEAN, pending : BOOLEAN]
  BY DEF LoseMemory
<1>6. runs' \in [Epochs \X Clients \X Sequences1 -> Nat]
  <2>1. DOMAIN runs = Epochs \X Clients \X Sequences1
    BY DEF TypeOK
  <2>2. \A k \in DOMAIN runs : runs[k] \in Nat
    BY DEF TypeOK
  <2>3. \A k \in DOMAIN runs : (IF Survives(k[1], file) THEN runs[k] ELSE 0) \in Nat
    BY <2>2
  <2> QED BY <2>1, <2>3 DEF LoseMemory
<1>7. seen' \in [Epochs -> Counters]
  <2>1. NoCounters \in Counters
    BY DEF NoCounters, Counters
  <2> QED BY <2>1 DEF LoseMemory, TypeOK
<1>8. phase' = "down" /\ closed' = FALSE /\ epoch' \in 0 .. MaxStarts /\ revision' \in Nat /\ captured' = None
  BY SessionAssumption DEF LoseMemory
<1> QED
  BY <1>1, <1>3, <1>4, <1>5, <1>6, <1>7, <1>8 DEF TypeOK

\* A stop keeps the types.
LEMMA StopType ==
  ASSUME TypeOK, Stop
  PROVE  TypeOK'
BY LoseMemoryType DEF Stop, TypeOK

\* A failed startup save keeps the types; it needs SaveInv for the copy.
LEMMA FailStartType ==
  ASSUME TypeOK, SaveInv, FailStart
  PROVE  TypeOK'
BY LoseMemoryType DEF FailStart, TypeOK, SaveInv

\* The end of the startup save keeps the types.
LEMMA FinishStartType ==
  ASSUME TypeOK, SaveInv, FinishStart
  PROVE  TypeOK'
<1>1. captured \in StateFile /\ epoch \in Epochs
  BY DEF FinishStart, SaveInv, TypeOK, Epochs
<1>2. CacheOf(captured) \in CacheState
  BY <1>1, EncodedType DEF TypeOK
<1>3. captured.revision \in Nat
  BY <1>1 DEF StateFile
<1>4. persist' \in PersistState
  BY <1>3 DEF FinishStart, TypeOK, PersistState
<1>5. seen' \in [Epochs -> Counters]
  BY CountersType DEF FinishStart, TypeOK
<1>6. restores' \in Nat
  BY DEF FinishStart, TypeOK
<1>7. store' \in StateFile \cup {None} /\ cache' \in CacheState /\ captured' = None /\ phase' = "up"
  BY <1>1, <1>2 DEF FinishStart
<1> QED
  BY <1>4, <1>5, <1>6, <1>7 DEF FinishStart, TypeOK, commandVars

\* The memory of a new process has its types.
LEMMA NewProcessType ==
  ASSUME TypeOK, NEW p \in {"starting", "up"}, NEW enabled \in BOOLEAN, NewProcess(p, enabled)
  PROVE  /\ starts' \in Epochs /\ starts' \in 0 .. MaxStarts
         /\ phase' \in {"down", "starting", "up"} /\ closed' \in BOOLEAN
         /\ receipts' \in [Clients -> Receipt \cup {None}]
         /\ saver' \in [nudge : BOOLEAN, pending : BOOLEAN]
         /\ persist' \in PersistState /\ cache' \in CacheState
         /\ UNCHANGED <<runs, handler, save, projectFile>>
<1>1. starts' \in Epochs /\ starts' \in 0 .. MaxStarts
  BY SessionAssumption DEF NewProcess, TypeOK, Epochs
<1>2. persist' \in PersistState /\ cache' \in CacheState
  BY ProjectAssumption DEF NewProcess, NewPersistence, PersistState, EmptyCache, CacheState
<1> QED
  BY <1>1, <1>2 DEF NewProcess

\* A session without a saved state has its types.
LEMMA FreshSessionType ==
  ASSUME NEW p \in Project, starts' \in Epochs, FreshSession(p)
  PROVE  /\ epoch' \in Epochs /\ epoch' = starts' /\ revision' \in Nat
         /\ session' \in SessionValue /\ restored' \in [Clients -> Sequences0]
<1>1. 0 \in Sequences0
  BY SessionAssumption DEF Sequences0
<1> QED
  BY <1>1, StartProjectType DEF FreshSession

\* The file of a startup save is a state file.
LEMMA StartupFileType ==
  ASSUME NEW a \in Nat, epoch' \in Epochs, revision' \in Nat, session' \in SessionValue,
         restored' \in [Clients -> Sequences0]
  PROVE  StartupFile(a) \in StateFile
BY DEF StartupFile, StateFile, SessionValue

\* The counters shown at a start are counters.
LEMMA ShowStartType ==
  ASSUME TypeOK, epoch' \in Epochs, revision' \in Nat, session' \in SessionValue, ShowStart
  PROVE  seen' \in [Epochs -> Counters]
BY CountersType DEF ShowStart, TypeOK

\* The project of a start without a saved state is a project.
LEMMA EmptyProjectType ==
  ASSUME TypeOK, NEW saved \in Project \cup {None}
  PROVE  EmptyProject(saved) \in Project
BY ProjectAssumption DEF EmptyProject, TypeOK

\* The types after a start, from the types of what the start computes.
LEMMA StartedType ==
  ASSUME TypeOK, NEW p \in {"starting", "up"}, NEW enabled \in BOOLEAN, NewProcess(p, enabled),
         epoch' \in Epochs, revision' \in Nat, session' \in SessionValue,
         restored' \in [Clients -> Sequences0],
         captured' \in StateFile \cup {None}, store' \in StateFile \cup {None},
         seen' \in [Epochs -> Counters], confirmed' \in Nat, fileRevision' \in Nat, restores' \in Nat
  PROVE  TypeOK'
<1>1. epoch' \in 0 .. MaxStarts
  BY SessionAssumption DEF Epochs
<1> QED
  BY <1>1, NewProcessType DEF TypeOK

\* A start without a saved state keeps the types.
LEMMA StartNewType ==
  ASSUME TypeOK, StartNew
  PROVE  TypeOK'
<1>1. NewProcess("starting", TRUE) /\ FreshSession(EmptyProject(None))
  BY DEF StartNew
<1>2. starts' \in Epochs
  BY <1>1, NewProcessType
<1>3. EmptyProject(None) \in Project
  BY EmptyProjectType
<1>4. /\ epoch' \in Epochs /\ revision' \in Nat
      /\ session' \in SessionValue /\ restored' \in [Clients -> Sequences0]
  BY <1>1, <1>2, <1>3, FreshSessionType
<1>5. captured' \in StateFile \cup {None}
  BY <1>4, StartupFileType DEF StartNew
<1>6. /\ store' \in StateFile \cup {None} /\ seen' \in [Epochs -> Counters]
      /\ confirmed' \in Nat /\ fileRevision' \in Nat /\ restores' \in Nat
  BY DEF StartNew, TypeOK
<1> QED
  BY <1>1, <1>4, <1>5, <1>6, StartedType

\* A start with an unreadable saved state keeps the types.
LEMMA StartUnreadableType ==
  ASSUME TypeOK, StartUnreadable
  PROVE  TypeOK'
<1>1. NewProcess("up", FALSE) /\ FreshSession(EmptyProject(None))
  BY DEF StartUnreadable
<1>2. starts' \in Epochs
  BY <1>1, NewProcessType
<1>3. EmptyProject(None) \in Project
  BY EmptyProjectType
<1>4. /\ epoch' \in Epochs /\ revision' \in Nat
      /\ session' \in SessionValue /\ restored' \in [Clients -> Sequences0]
  BY <1>1, <1>2, <1>3, FreshSessionType
<1>5. seen' \in [Epochs -> Counters]
  BY <1>4, ShowStartType DEF StartUnreadable
<1>6. /\ store' \in StateFile \cup {None} /\ captured' \in StateFile \cup {None}
      /\ confirmed' \in Nat /\ fileRevision' \in Nat /\ restores' \in Nat
  BY DEF StartUnreadable, TypeOK
<1> QED
  BY <1>1, <1>4, <1>5, <1>6, StartedType

\* A start that rejects the saved state keeps the types.
LEMMA StartRejectedType ==
  ASSUME TypeOK, StartRejected
  PROVE  TypeOK'
<1>1. PICK saved \in {store.project, None} :
        \/ /\ NewProcess("starting", TRUE)
           /\ FreshSession(EmptyProject(saved))
           /\ store' = None
           /\ captured' = StartupFile(0)
           /\ confirmed' = 0 /\ fileRevision' = 0 /\ restores' = 0
           /\ UNCHANGED seen
        \/ /\ NewProcess("up", FALSE)
           /\ FreshSession(EmptyProject(saved))
           /\ ShowStart
           /\ UNCHANGED <<captured, confirmed, fileRevision, restores, store>>
  BY DEF StartRejected
<1>2. store.project \in Project
  BY DEF StartRejected, TypeOK, StateFile
<1>3. EmptyProject(saved) \in Project
  BY <1>2, EmptyProjectType
<1>4. starts' \in Epochs
  BY <1>1, NewProcessType
<1>5. /\ epoch' \in Epochs /\ revision' \in Nat
      /\ session' \in SessionValue /\ restored' \in [Clients -> Sequences0]
  BY <1>1, <1>3, <1>4, FreshSessionType
<1>6. CASE NewProcess("starting", TRUE) /\ captured' = StartupFile(0) /\ store' = None
           /\ confirmed' = 0 /\ fileRevision' = 0 /\ restores' = 0 /\ UNCHANGED seen
  <2>1. StartupFile(0) \in StateFile
    BY <1>5, StartupFileType
  <2>2. /\ store' \in StateFile \cup {None} /\ captured' \in StateFile \cup {None}
        /\ seen' \in [Epochs -> Counters] /\ confirmed' \in Nat /\ fileRevision' \in Nat /\ restores' \in Nat
    BY <1>6, <2>1 DEF TypeOK
  <2> QED BY <1>5, <1>6, <2>2, StartedType
<1>7. CASE NewProcess("up", FALSE) /\ ShowStart /\ UNCHANGED <<captured, confirmed, fileRevision, restores, store>>
  <2>1. seen' \in [Epochs -> Counters]
    BY <1>5, <1>7, ShowStartType
  <2>2. /\ store' \in StateFile \cup {None} /\ captured' \in StateFile \cup {None}
        /\ confirmed' \in Nat /\ fileRevision' \in Nat /\ restores' \in Nat
    BY <1>7 DEF TypeOK
  <2> QED BY <1>5, <1>7, <2>1, <2>2, StartedType
<1> QED
  BY <1>1, <1>6, <1>7

\* A restored session is a session value.
LEMMA RestoredSessionType ==
  ASSUME TypeOK, store # None, NEW tier
  PROVE  RestoredSession(RestoredSimulation(tier)) \in SessionValue
<1>1. store \in StateFile
  BY DEF TypeOK
<1>2. /\ store.project \in Project /\ store.project.demand \in Demands
      /\ store.sim \in Simulation /\ store.sim.project.demand \in Demands
      /\ store.sim.paused \in BOOLEAN /\ store.sim.demo \in BOOLEAN
  BY <1>1 DEF StateFile, Simulation, Project
<1>3. RestoredConfig \in Project
  BY <1>2 DEF RestoredConfig, TypeOK, Project
<1>4. [RestoredConfig EXCEPT !.demand = store.sim.project.demand] \in Project
  BY <1>2, <1>3 DEF Project
<1>5. RestoredSimulation(tier) \in Simulation
  BY <1>2, <1>3, <1>4 DEF RestoredSimulation, Simulation
<1>6. /\ store.projectRevision \in Nat \ {0} /\ store.projectRevision \in Nat
      /\ store.generation + 1 \in Nat /\ store.lastCheckpoint \in Nat
  BY <1>1 DEF StateFile
<1>7. <<>> \in Seq(Checkpoint)
  OBVIOUS
<1>8. ASSUME NEW m \in Simulation, NEW none \in Seq(Checkpoint)
      PROVE  [project |-> RestoredConfig, projectRevision |-> store.projectRevision,
              projectOrigin |-> store.projectRevision, generation |-> store.generation + 1,
              sim |-> m, checkpoints |-> none, lastCheckpoint |-> store.lastCheckpoint] \in SessionValue
  BY <1>3, <1>6 DEF SessionValue
<1> QED
  BY <1>5, <1>7, <1>8, Zenon DEF RestoredSession

\* A restore keeps the types.
LEMMA StartRestoredType ==
  ASSUME TypeOK, StartRestored
  PROVE  TypeOK' /\ epoch' \in Epochs /\ StartupFile(store.attempts + 1) \in StateFile
<1>1. NewProcess("starting", TRUE) /\ store # None
  BY DEF StartRestored
<1>2. store \in StateFile
  BY <1>1 DEF TypeOK
<1>3. starts' \in Epochs
  BY <1>1, NewProcessType
<1>4. epoch' \in Epochs /\ revision' \in Nat
  BY <1>2, <1>3 DEF StartRestored, StateFile
<1>5. restored' \in [Clients -> Sequences0]
  <2>1. 0 \in Sequences0
    BY SessionAssumption DEF Sequences0
  <2> QED BY <1>2, <2>1 DEF StartRestored, StateFile
<1>6. session' \in SessionValue
  <2>1. projectFile.demand \in Demands
    BY DEF TypeOK, Project
  <2>2. PICK tier \in Tiers :
          LET installed == RestoredSession(RestoredSimulation(tier))
          IN  session' = IF SavedDemandDiffers THEN WithDemand(installed, projectFile.demand) ELSE installed
    BY DEF StartRestored
  <2>3. RestoredSession(RestoredSimulation(tier)) \in SessionValue
    BY <1>1, RestoredSessionType
  <2> QED BY <2>1, <2>2, <2>3, WithDemandType
<1>7. StartupFile(store.attempts + 1) \in StateFile
  <2>1. store.attempts + 1 \in Nat
    BY <1>2 DEF StateFile
  <2> QED BY <1>4, <1>5, <1>6, <2>1, StartupFileType
<1>8. /\ captured' \in StateFile \cup {None} /\ store' \in StateFile \cup {None}
      /\ seen' \in [Epochs -> Counters] /\ confirmed' \in Nat /\ fileRevision' \in Nat /\ restores' \in Nat
  BY <1>7 DEF StartRestored, TypeOK
<1> QED
  BY <1>1, <1>4, <1>5, <1>6, <1>7, <1>8, StartedType

\* Every step keeps the types.
LEMMA TypeStep ==
  ASSUME TypeOK, SaveInv, Next
  PROVE  TypeOK'
<1>1. CASE Deliver
  <2>1. PICK h \in Handlers, c \in Clients, n \in Sequences1, e \in 1 .. starts :
          /\ phase = "up" /\ IdleFor(h)
          /\ \E b \in Bodies \cup LastBody(c) : ReplayCommand(h, c, n, e, b) \/ ApplyCommand(h, c, n, e, b)
    BY <1>1 DEF Deliver
  <2>2. PICK b \in Bodies \cup LastBody(c) : ReplayCommand(h, c, n, e, b) \/ ApplyCommand(h, c, n, e, b)
    BY <2>1
  <2>3. epoch \in Epochs /\ starts \in Nat \ {0} /\ session \in SessionValue
    BY <2>1 DEF SaveInv, TypeOK, Epochs
  <2>4. b \in Body
    <3>1. LastBody(c) \subseteq Body
      BY DEF LastBody, HasReceipt, TypeOK, Receipt
    <3> QED BY <2>3, <3>1, BodiesType
  <2> QED
    BY <2>2, <2>3, <2>4, ReplayCommandType, ApplyCommandType
<1>2. CASE HandlerStep
  BY <1>2, HandlerStepType DEF HandlerStep
<1>3. CASE SaveStep
  BY <1>3, SaveStepType DEF SaveStep
<1>4. CASE SaverStep
  BY <1>4, SaverStepType
<1>5. CASE Tick
  <2>1. epoch \in Epochs
    BY <1>5 DEF Tick, SaveInv, TypeOK, Epochs
  <2> QED BY <1>5, <2>1, TickType
<1>6. CASE Close
  BY <1>6, CloseType
<1>7. CASE Stop
  BY <1>7, StopType
<1>8. CASE StartStep
  BY <1>8, StartNewType, StartUnreadableType, StartRejectedType, StartRestoredType, FinishStartType, FailStartType
  DEF StartStep
<1> QED
  BY <1>1, <1>2, <1>3, <1>4, <1>5, <1>6, <1>7, <1>8 DEF Next

-----------------------------------------------------------------------------
(* Every action keeps SaveInv.                                             *)

\* The end of a process leaves no save under way.
LEMMA StopSaveInv ==
  ASSUME NEW file, LoseMemory(file)
  PROVE  SaveInv'
BY DEF LoseMemory, SaveInv, Savers

\* A start leaves no save under way; a startup save has its copy.
LEMMA StartSaveInv ==
  ASSUME TypeOK, SaveInv, TypeOK', NEW p \in {"starting", "up"}, NEW enabled, NewProcess(p, enabled),
         p = "starting" => captured' # None, epoch' \in Epochs, epoch' <= starts'
  PROVE  SaveInv'
<1>1. \A w \in Savers : save'[w] # "writing"
  BY DEF NewProcess, SaveInv
<1>2. save'[Final] = "idle"
  BY DEF NewProcess, SaveInv
<1>3. epoch' \in 1 .. starts'
  BY DEF TypeOK, Epochs
<1>4. phase' # "down" /\ (phase' = "starting" => captured' # None)
  BY DEF NewProcess
<1> QED
  BY <1>1, <1>2, <1>3, <1>4 DEF SaveInv

\* Every step keeps the exclusion of the savers.
LEMMA SaveInvStep ==
  ASSUME TypeOK, SaveInv, RunsInv, Next
  PROVE  SaveInv'
<1>0. TypeOK'
  BY TypeStep
<1>1. CASE Deliver \/ Tick
  <2>1. UNCHANGED <<processVars, saveVars>>
    <3>1. CASE Deliver
      <4>1. PICK h \in Handlers, c \in Clients, n \in Sequences1, e \in 1 .. starts :
              \E b \in Bodies \cup LastBody(c) : ReplayCommand(h, c, n, e, b) \/ ApplyCommand(h, c, n, e, b)
        BY <3>1, Zenon DEF Deliver
      <4> QED BY <4>1 DEF ReplayCommand, ApplyCommand
    <3>2. CASE Tick
      BY <3>2 DEF Tick
    <3> QED BY <1>1, <3>1, <3>2
  <2> QED BY <2>1 DEF SaveInv, processVars, saveVars
<1>2. CASE HandlerStep
  <2>1. PICK h \in Handlers : NudgeSaver(h) \/ ReplyAfterSave(h)
    BY <1>2 DEF HandlerStep
  <2>2. UNCHANGED <<processVars, captured>>
    BY <2>1 DEF NudgeSaver, ReplyAfterSave, saveVars
  <2>3. \A w \in Savers : save'[w] = "writing" => save[w] = "writing"
    BY <2>1 DEF NudgeSaver, ReplyAfterSave, saveVars, TypeOK
  <2>4. save'[Final] = save[Final]
    BY <2>1, SessionAssumption DEF NudgeSaver, ReplyAfterSave, saveVars, TypeOK, Savers
  <2> QED BY <2>2, <2>3, <2>4 DEF SaveInv, processVars
<1>3. CASE SaveStep
  <2>1. PICK w \in Savers : BeginSave(w) \/ FinishSave(w) \/ FailSave(w)
    BY <1>3 DEF SaveStep
  <2>2. UNCHANGED processVars /\ phase = "up"
    BY <2>1 DEF BeginSave, FinishSave, FailSave
  <2>3. save[w] # "idle"
    BY <2>1 DEF BeginSave, FinishSave, FailSave
  <2>4. CASE BeginSave(w)
    <3>1. epoch \in Epochs
      BY <2>2 DEF SaveInv, TypeOK, Epochs
    <3>2. CaptureState(Kind(w)) # None
      BY <3>1, CaptureType, NoneAssumption
    <3>3. \A x \in Savers : save'[x] = "writing" => x = w /\ captured' # None
      BY <2>4, <3>2 DEF BeginSave, TypeOK
    <3>4. save'[Final] # "idle" => save[Final] # "idle"
      BY <2>4 DEF BeginSave, TypeOK, Savers
    <3> QED BY <2>2, <3>3, <3>4 DEF SaveInv, processVars
  <2>5. CASE FinishSave(w) \/ FailSave(w)
    <3>1. \A x \in Savers : save'[x] # "writing"
      BY <2>5 DEF FinishSave, FailSave, SaveInv, TypeOK
    <3>2. save'[Final] # "idle" => save[Final] # "idle"
      BY <2>5 DEF FinishSave, FailSave, TypeOK, Savers
    <3> QED BY <2>2, <3>1, <3>2 DEF SaveInv, processVars
  <2> QED BY <2>1, <2>4, <2>5
<1>4. CASE SaverStep
  <2>1. UNCHANGED <<processVars, captured>> /\ phase = "up"
    BY <1>4 DEF SaverStep, TakeNudge, SavePeriodic, SaveFinal, SaverRuns
  <2>2. \A w \in Savers : save'[w] = "writing" => save[w] = "writing"
    BY <1>4 DEF SaverStep, TakeNudge, SavePeriodic, SaveFinal, TypeOK
  <2>3. save'[Final] # "idle" => save[Final] # "idle" \/ closed
    BY <1>4 DEF SaverStep, TakeNudge, SavePeriodic, SaveFinal, TypeOK, Savers, Saver, Final
  <2> QED BY <2>1, <2>2, <2>3 DEF SaveInv, processVars
<1>5. CASE Close
  BY <1>5 DEF Close, SaveInv, saveVars
<1>6. CASE Stop \/ FailStart
  BY <1>6, StopSaveInv DEF Stop, FailStart
<1>7. CASE FinishStart
  <2>1. \A w \in Savers : save[w] # "writing"
    BY <1>7 DEF FinishStart, SaveInv
  <2>2. save[Final] = "idle"
    BY <1>7 DEF FinishStart, SaveInv
  <2> QED BY <1>7, <2>1, <2>2 DEF FinishStart, SaveInv
<1>8. CASE StartNew \/ StartUnreadable \/ StartRejected
  <2>1. PICK p \in {"starting", "up"}, enabled \in BOOLEAN, saved \in Project \cup {None} :
          /\ NewProcess(p, enabled) /\ FreshSession(EmptyProject(saved))
          /\ p = "starting" => captured' = StartupFile(0)
    <3>1. CASE StartNew
      BY <3>1 DEF StartNew
    <3>2. CASE StartUnreadable
      BY <3>2 DEF StartUnreadable
    <3>3. CASE StartRejected
      <4>1. store.project \in Project
        BY <3>3 DEF StartRejected, TypeOK, StateFile
      <4> QED BY <3>3, <4>1 DEF StartRejected
    <3> QED BY <1>8, <3>1, <3>2, <3>3
  <2>2. EmptyProject(saved) \in Project
    BY EmptyProjectType
  <2>3. starts' \in Epochs
    BY <2>1, NewProcessType
  <2>4. /\ epoch' \in Epochs /\ epoch' = starts' /\ revision' \in Nat
        /\ session' \in SessionValue /\ restored' \in [Clients -> Sequences0]
    BY <2>1, <2>2, <2>3, FreshSessionType
  <2>5. StartupFile(0) # None
    BY <2>4, StartupFileType, NoneAssumption
  <2> QED
    BY <1>0, <2>1, <2>3, <2>4, <2>5, StartSaveInv DEF Epochs
<1>9. CASE StartRestored
  <2>1. captured' # None /\ epoch' \in Epochs
    BY <1>9, StartRestoredType, NoneAssumption DEF StartRestored
  <2>2. epoch' <= starts'
    <3>1. store \in StateFile /\ store.epoch \in Epochs /\ store.epoch <= starts
      BY <1>9 DEF StartRestored, TypeOK, StateFile, RunsInv
    <3>2. starts' = starts + 1 /\ epoch' \in {store.epoch, starts'}
      BY <1>9 DEF StartRestored, NewProcess
    <3> QED BY <3>1, <3>2 DEF TypeOK, Epochs
  <2> QED BY <1>0, <1>9, <2>1, <2>2, StartSaveInv DEF StartRestored
<1> QED
  BY <1>1, <1>2, <1>3, <1>4, <1>5, <1>6, <1>7, <1>8, <1>9 DEF Next, StartStep

-----------------------------------------------------------------------------
(* Every action keeps RunsInv.                                             *)

\* A command runs only above every sequence that covers its client, and
\* its receipt covers it from then on.
LEMMA ApplyRunsInv ==
  ASSUME Inv, NEW h \in Handlers, NEW c \in Clients, NEW n \in Sequences1, NEW e, NEW b \in Body,
         phase = "up", ApplyCommand(h, c, n, e, b), TypeOK'
  PROVE  RunsInv'
<1>1. /\ runs' = [runs EXCEPT ![<<epoch, c, n>>] = @ + 1]
      /\ receipts'[c] # None /\ receipts'[c].sequence = n
      /\ \A x \in Clients \ {c} : receipts'[x] = receipts[x] /\ restored'[x] = restored[x]
  <2>1. PICK o \in Outcomes(session, b) :
          /\ receipts' = [receipts EXCEPT ![c] =
                            [sequence |-> n, digest |-> b, revision |-> revision', code |-> o.code,
                             saveState |-> o.saveState]]
          /\ restored' = [restored EXCEPT ![c] = 0]
          /\ runs' = [runs EXCEPT ![<<epoch, c, n>>] = @ + 1]
    BY DEF ApplyCommand
  <2>2. o \in OutcomeType
    BY OutcomesType DEF Inv, TypeOK
  <2>3. [sequence |-> n, digest |-> b, revision |-> revision', code |-> o.code, saveState |-> o.saveState] \in Receipt
    BY <2>2 DEF OutcomeType, Receipt, TypeOK
  <2>4. receipts'[c] = [sequence |-> n, digest |-> b, revision |-> revision', code |-> o.code,
                        saveState |-> o.saveState]
    BY <2>1 DEF Inv, TypeOK
  <2> QED BY <2>1, <2>3, <2>4, NoneAssumption DEF Inv, TypeOK
<1>2. Decision(c, n, e, b) = "apply"
  BY DEF ApplyCommand
<1>3. ~closed /\ LastSequence(c) < n
  <2>1. n \in Nat /\ (receipts[c] # None => receipts[c].sequence \in Nat) /\ restored[c] \in Nat
    BY DEF Inv, TypeOK, Receipt, Sequences0, Sequences1
  <2> QED BY <1>2, <2>1 DEF Decision, LastSequence, HasReceipt
<1>4. UNCHANGED <<processVars, captured, store>> /\ epoch \in Epochs
  BY DEF ApplyCommand, saveVars, Inv, SaveInv, TypeOK, Epochs
<1>5. runs[<<epoch, c, n>>] = 0
  <2>1. Covers([x \in Clients |-> LastSequence(x)], epoch)
    BY DEF Inv, RunsInv
  <2>2. LastSequence(c) \in Nat /\ n \in Nat
    BY DEF Inv, TypeOK, LastSequence, HasReceipt, Receipt, Sequences0, Sequences1
  <2> QED BY <1>3, <2>1, <2>2 DEF Covers
<1>6. \A k \in Epochs \X Clients \X Sequences1 :
        runs'[k] = IF k = <<epoch, c, n>> THEN 1 ELSE runs[k]
  <2>1. runs \in [Epochs \X Clients \X Sequences1 -> Nat]
    BY DEF Inv, TypeOK
  <2> QED BY <1>1, <1>5, <2>1
<1>7. OnePerKey'
  BY <1>6 DEF Inv, RunsInv, OnePerKey
<1>8. \A k \in Epochs \X Clients \X Sequences1 : runs'[k] # 0 => k[1] <= starts'
  <2>1. epoch <= starts
    BY DEF Inv, SaveInv, TypeOK
  <2> QED BY <1>4, <1>6, <2>1 DEF Inv, RunsInv, processVars
<1>9. Covers([x \in Clients |-> LastSequence(x)], epoch)'
  <2> SUFFICES ASSUME NEW x \in Clients, NEW m \in Sequences1, runs'[<<epoch, x, m>>] # 0
               PROVE  m <= (LastSequence(x))'
    BY <1>4 DEF Covers, processVars
  <2>1. <<epoch, x, m>> \in Epochs \X Clients \X Sequences1
    BY <1>4
  <2>2. (x = c /\ m = n) \/ runs[<<epoch, x, m>>] # 0
    BY <1>6, <2>1
  <2>3. runs[<<epoch, x, m>>] # 0 => m <= LastSequence(x)
    BY DEF Inv, RunsInv, Covers
  <2>4. (LastSequence(c))' = n
    BY <1>1 DEF LastSequence, HasReceipt
  <2>5. x # c => (LastSequence(x))' = LastSequence(x)
    BY <1>1 DEF LastSequence, HasReceipt
  <2>6. LastSequence(c) \in Nat /\ n \in Nat /\ m \in Nat
    BY DEF Inv, TypeOK, LastSequence, HasReceipt, Receipt, Sequences0, Sequences1
  <2> QED BY <1>3, <2>2, <2>3, <2>4, <2>5, <2>6
<1>10. captured # None => captured.epoch = epoch /\ ~captured.final
  BY <1>3 DEF Inv, RunsInv
<1>11. ASSUME store # None
       PROVE  store.epoch <= starts /\ (store.final => Covers(store.sequences, store.epoch)')
  <2>1. store.epoch <= starts
    BY <1>11 DEF Inv, RunsInv
  <2>2. ASSUME store.final
        PROVE  Covers(store.sequences, store.epoch)'
    <3>1. store.epoch # epoch /\ store.epoch \in Epochs
      BY <1>3, <1>11, <2>2 DEF Inv, RunsInv, TypeOK, StateFile
    <3>2. Covers(store.sequences, store.epoch)
      BY <1>11, <2>2 DEF Inv, RunsInv
    <3>3. \A x \in Clients, m \in Sequences1 : runs'[<<store.epoch, x, m>>] = runs[<<store.epoch, x, m>>]
      BY <1>6, <3>1
    <3> QED BY <1>4, <3>2, <3>3 DEF Covers
  <2> QED BY <2>1, <2>2
<1> QED
  <2>1. store # None /\ store.final => store.epoch # epoch
    BY <1>3 DEF Inv, RunsInv
  <2> QED BY <1>4, <1>7, <1>8, <1>9, <1>10, <1>11, <2>1 DEF RunsInv, processVars

\* Steps that run no command and leave the process and the receipts alone.
LEMMA SaveRunsInv ==
  ASSUME Inv, NEW w \in Savers, BeginSave(w) \/ FinishSave(w) \/ FailSave(w)
  PROVE  RunsInv'
<1>1. UNCHANGED <<processVars, commandVars>> /\ phase = "up"
  BY DEF BeginSave, FinishSave, FailSave
<1>2. CASE BeginSave(w)
  <2>1. UNCHANGED store /\ (captured' = captured \/ captured' = CaptureState(Kind(w)))
    BY <1>2 DEF BeginSave
  <2>2. CASE captured' = captured
    BY <1>1, <2>1, <2>2 DEF Inv, RunsInv, processVars, commandVars, Covers, OnePerKey, LastSequence, HasReceipt
  <2>3. CASE captured' = CaptureState(Kind(w))
    <3>1. captured'.epoch = epoch /\ captured'.sequences = [c \in Clients |-> LastSequence(c)]
      BY <2>3 DEF CaptureState
    <3>2. captured'.final => w = Final
      BY <2>3, SessionAssumption DEF CaptureState, Kind, Saver, Final
    <3>3. w = Final => closed
      BY <1>2 DEF BeginSave, Inv, SaveInv
    <3>4. Covers([c \in Clients |-> LastSequence(c)], epoch)
      BY <1>1 DEF Inv, RunsInv
    <3>5. captured'.final => closed' /\ phase' = "up" /\ Covers(captured'.sequences, epoch)
      BY <1>1, <3>1, <3>2, <3>3, <3>4 DEF processVars
    <3> QED
      BY <1>1, <2>1, <3>1, <3>5 DEF Inv, RunsInv, processVars, commandVars, Covers, OnePerKey, LastSequence, HasReceipt
  <2> QED BY <2>1, <2>2, <2>3
<1>3. CASE FinishSave(w) \/ FailSave(w)
  <2>1. captured # None /\ captured \in StateFile /\ captured' = None
    BY <1>3 DEF FinishSave, FailSave, Inv, SaveInv, TypeOK
  <2>2. /\ Encoded(captured).epoch = captured.epoch
        /\ Encoded(captured).final = captured.final
        /\ Encoded(captured).sequences = captured.sequences
    BY <2>1, EncodedType DEF Inv, TypeOK
  <2>3. /\ captured.epoch = epoch /\ epoch <= starts
        /\ captured.final => closed /\ Covers(captured.sequences, epoch)
    BY <1>1, <2>1 DEF Inv, RunsInv, SaveInv, TypeOK
  <2>4. store' = store \/ store' = Encoded(captured)
    BY <1>3 DEF FinishSave, FailSave
  <2>5. CASE store' = store
    BY <1>1, <2>1, <2>5 DEF Inv, RunsInv, processVars, commandVars, Covers, OnePerKey, LastSequence, HasReceipt
  <2>6. CASE store' = Encoded(captured)
    <3>1. /\ store'.epoch = epoch
          /\ store'.final => closed /\ Covers(store'.sequences, epoch)
      BY <2>2, <2>3, <2>6
    <3> QED
      BY <1>1, <2>1, <2>3, <3>1 DEF Inv, RunsInv, processVars, commandVars, Covers, OnePerKey, LastSequence, HasReceipt
  <2> QED BY <2>4, <2>5, <2>6
<1> QED
  BY <1>2, <1>3

\* An epoch that ends loses its history; the others keep theirs.
LEMMA LoseMemoryRunsInv ==
  ASSUME Inv, NEW file, LoseMemory(file), starts' = starts, store' = store \/ (store' # None /\ store'.epoch <= starts /\ ~store'.final)
  PROVE  RunsInv'
<1>1. \A k \in Epochs \X Clients \X Sequences1 : runs'[k] = runs[k] \/ runs'[k] = 0
  BY DEF LoseMemory, Inv, TypeOK
<1>2. phase' = "down" /\ captured' = None
  BY DEF LoseMemory
<1>3. OnePerKey' /\ \A k \in Epochs \X Clients \X Sequences1 : runs'[k] # 0 => k[1] <= starts'
  BY <1>1 DEF Inv, RunsInv, OnePerKey
<1>4. ASSUME store' # None, store'.final
      PROVE  Covers(store.sequences, store.epoch)'
  <2>1. store' = store /\ Covers(store.sequences, store.epoch) /\ store.epoch \in Epochs
    BY <1>4 DEF Inv, RunsInv, TypeOK, StateFile
  <2>2. \A c \in Clients, n \in Sequences1 : <<store.epoch, c, n>> \in Epochs \X Clients \X Sequences1
    BY <2>1
  <2> QED BY <1>1, <2>1, <2>2 DEF Covers
<1>5. store' # None => store'.epoch <= starts'
  BY DEF Inv, RunsInv
<1> QED
  BY <1>2, <1>3, <1>4, <1>5 DEF RunsInv

\* A start with a new epoch: nothing ran in it.
LEMMA FreshRunsInv ==
  ASSUME Inv, TypeOK', NEW p, NEW enabled, NewProcess(p, enabled), epoch' = starts',
         captured' = captured \/ captured' = None \/ (captured'.epoch = epoch' /\ ~captured'.final),
         store' = store \/ store' = None
  PROVE  RunsInv'
<1>1. starts \in Nat /\ starts' = starts + 1 /\ starts' \in Epochs /\ runs' = runs
  BY SessionAssumption DEF NewProcess, Inv, TypeOK, Epochs
<1>2. OnePerKey' /\ \A k \in Epochs \X Clients \X Sequences1 : runs'[k] # 0 => k[1] <= starts'
  <2>1. \A k \in Epochs \X Clients \X Sequences1 : k[1] \in Nat
    BY DEF Epochs
  <2> QED BY <1>1, <2>1 DEF Inv, RunsInv, OnePerKey
<1>3. \A c \in Clients, n \in Sequences1 : runs'[<<epoch', c, n>>] = 0
  <2> SUFFICES ASSUME NEW c \in Clients, NEW n \in Sequences1, runs[<<starts', c, n>>] # 0
               PROVE  FALSE
    BY <1>1
  <2>1. <<starts', c, n>> \in Epochs \X Clients \X Sequences1
    BY <1>1
  <2>2. starts' <= starts
    BY <2>1 DEF Inv, RunsInv
  <2> QED BY <1>1, <2>2
<1>4. Covers([c \in Clients |-> LastSequence(c)], epoch)'
  BY <1>3 DEF Covers
<1>5. captured' # None => captured'.epoch = epoch' /\ ~captured'.final
  BY DEF NewProcess, Inv, SaveInv
<1>6. store' # None => store'.epoch < starts' /\ (store'.final => Covers(store.sequences, store.epoch)')
  <2>1. store # None => store.epoch \in Nat /\ store.epoch <= starts
    BY DEF Inv, RunsInv, TypeOK, StateFile, Epochs
  <2> QED BY <1>1, <2>1 DEF Inv, RunsInv, Covers
<1> QED
  <2>1. store' # None => store'.epoch <= starts' /\ store'.epoch # epoch'
    BY <1>6 DEF TypeOK, StateFile, Epochs
  <2> QED BY <1>2, <1>4, <1>5, <1>6, <2>1 DEF RunsInv

\* A restore that keeps the epoch knows the sequences of a final save, and
\* those cover everything that ran in it.
LEMMA RestoredRunsInv ==
  ASSUME Inv, TypeOK', StartRestored
  PROVE  RunsInv'
<1>1. /\ NewProcess("starting", TRUE) /\ store # None /\ store' = store
      /\ captured' = StartupFile(store.attempts + 1)
  BY DEF StartRestored
<1>2. captured'.epoch = epoch' /\ ~captured'.final
  BY <1>1 DEF StartupFile
<1>3. CASE KeepEpoch
  <2>1. epoch' = store.epoch /\ restored' = store.sequences /\ store.final
    BY <1>3 DEF StartRestored, KeepEpoch
  <2>2. runs' = runs /\ starts \in Nat /\ starts' = starts + 1 /\ phase' = "starting"
    BY <1>1 DEF NewProcess, Inv, TypeOK
  <2>3. \A c \in Clients : (LastSequence(c))' = store.sequences[c]
    BY <1>1, <2>1 DEF NewProcess, LastSequence, HasReceipt
  <2>4. Covers(store.sequences, store.epoch)
    BY <1>1, <2>1 DEF Inv, RunsInv
  <2>5. Covers([c \in Clients |-> LastSequence(c)], epoch)'
    BY <2>1, <2>2, <2>3, <2>4 DEF Covers
  <2>6. OnePerKey' /\ \A k \in Epochs \X Clients \X Sequences1 : runs'[k] # 0 => k[1] <= starts'
    <3>1. \A k \in Epochs \X Clients \X Sequences1 : k[1] \in Nat
      BY DEF Epochs
    <3> QED BY <2>2, <3>1 DEF Inv, RunsInv, OnePerKey
  <2>7. store.epoch <= starts'
    <3>1. store.epoch \in Nat /\ store.epoch <= starts
      BY <1>1, SMTT(30) DEF Inv, RunsInv, TypeOK, StateFile, Epochs
    <3> QED BY <2>2, <3>1
  <2>8. Covers(store.sequences, store.epoch)'
    BY <1>1, <2>2, <2>4 DEF Covers
  <2> QED
    BY <1>1, <1>2, <2>2, <2>5, <2>6, <2>7, <2>8 DEF RunsInv
<1>4. CASE ~KeepEpoch
  <2>1. epoch' = starts'
    BY <1>4 DEF StartRestored
  <2> QED BY <1>1, <1>2, <2>1, FreshRunsInv
<1> QED
  BY <1>3, <1>4

\* Every step keeps the commands of an epoch covered.
LEMMA RunsInvStep ==
  ASSUME Inv, Next
  PROVE  RunsInv'
<1>0. TypeOK'
  BY TypeStep DEF Inv
<1>1. CASE Deliver
  <2>1. PICK h \in Handlers, c \in Clients, n \in Sequences1, e \in 1 .. starts :
          /\ phase = "up" /\ IdleFor(h)
          /\ \E b \in Bodies \cup LastBody(c) : ReplayCommand(h, c, n, e, b) \/ ApplyCommand(h, c, n, e, b)
    BY <1>1 DEF Deliver
  <2>2. PICK b \in Bodies \cup LastBody(c) : ReplayCommand(h, c, n, e, b) \/ ApplyCommand(h, c, n, e, b)
    BY <2>1
  <2>3. b \in Body
    <3>1. LastBody(c) \subseteq Body
      BY DEF LastBody, HasReceipt, Inv, TypeOK, Receipt
    <3>2. session \in SessionValue /\ starts \in Nat \ {0}
      BY <2>1 DEF Inv, SaveInv, TypeOK
    <3> QED BY <3>1, <3>2, BodiesType
  <2>4. CASE ReplayCommand(h, c, n, e, b)
    BY <2>4 DEF ReplayCommand, Inv, RunsInv, processVars, commandVars, saveVars, Covers, OnePerKey,
                LastSequence, HasReceipt
  <2> QED
    BY <1>0, <2>1, <2>2, <2>3, <2>4, ApplyRunsInv
<1>2. CASE SaveStep
  BY <1>2, SaveRunsInv DEF SaveStep
<1>3. CASE HandlerStep \/ SaverStep \/ Tick
  <2>1. UNCHANGED <<processVars, commandVars, captured, store>>
    BY <1>3 DEF HandlerStep, NudgeSaver, ReplyAfterSave, SaverStep, TakeNudge, SavePeriodic, SaveFinal, Tick, saveVars
  <2> QED
    BY <2>1 DEF Inv, RunsInv, processVars, commandVars, Covers, OnePerKey, LastSequence, HasReceipt
<1>4. CASE Close
  BY <1>4 DEF Close, Inv, RunsInv, commandVars, saveVars, Covers, OnePerKey, LastSequence, HasReceipt
<1>5. CASE Stop
  BY <1>5, LoseMemoryRunsInv DEF Stop
<1>6. captured # None /\ phase = "starting" => captured.epoch = epoch /\ epoch <= starts /\ ~captured.final
  BY DEF Inv, RunsInv, SaveInv, TypeOK
<1>7. CASE FailStart
  <2>1. phase = "starting" /\ captured # None
    BY <1>7 DEF FailStart, Inv, SaveInv
  <2>2. store' = store \/ (store' # None /\ store'.epoch <= starts /\ ~store'.final)
    BY <1>6, <1>7, <2>1 DEF FailStart
  <2> QED BY <1>7, <2>2, LoseMemoryRunsInv DEF FailStart
<1>8. CASE FinishStart
  <2>1. phase = "starting" /\ captured # None
    BY <1>8 DEF FinishStart, Inv, SaveInv
  <2>2. store'.epoch <= starts /\ ~store'.final /\ captured' = None
    BY <1>6, <1>8, <2>1 DEF FinishStart
  <2> QED
    BY <1>8, <2>1, <2>2 DEF FinishStart, Inv, RunsInv, commandVars, Covers, OnePerKey, LastSequence, HasReceipt
<1>9. CASE StartNew \/ StartUnreadable \/ StartRejected
  <2>1. PICK p, enabled :
          /\ NewProcess(p, enabled) /\ epoch' = starts'
          /\ captured' = captured \/ captured' = StartupFile(0)
          /\ store' = store \/ store' = None
    BY <1>9 DEF StartNew, StartUnreadable, StartRejected, FreshSession
  <2>2. StartupFile(0).epoch = epoch' /\ ~StartupFile(0).final
    BY DEF StartupFile
  <2> QED BY <1>0, <2>1, <2>2, FreshRunsInv
<1>10. CASE StartRestored
  BY <1>0, <1>10, RestoredRunsInv
<1> QED
  BY <1>1, <1>2, <1>3, <1>4, <1>5, <1>7, <1>8, <1>9, <1>10 DEF Next, StartStep

-----------------------------------------------------------------------------
(* The theorems.                                                           *)

\* The invariant holds before the first start.
LEMMA InitInv == Init => Inv
<1> SUFFICES ASSUME Init
             PROVE  Inv
  OBVIOUS
<1>1. TypeOK
  BY InitType
<1>2. SaveInv
  BY DEF Init, NoMemory, SaveInv, Savers
<1>3. RunsInv
  BY DEF Init, NoMemory, RunsInv, OnePerKey
<1> QED
  BY <1>1, <1>2, <1>3 DEF Inv

\* The inductive invariant: types, one writer of the saved state, and
\* receipts that cover every command of the epoch.
THEOREM Invariance == Spec => []Inv
<1>1. Init => Inv
  BY InitInv
<1>2. Inv /\ [Next]_vars => Inv'
  <2> SUFFICES ASSUME Inv, [Next]_vars
               PROVE  Inv'
    OBVIOUS
  <2>1. CASE Next
    BY <2>1, TypeStep, SaveInvStep, RunsInvStep DEF Inv
  <2>2. CASE UNCHANGED vars
    BY <2>2 DEF Inv, TypeOK, SaveInv, RunsInv, vars, processVars, commandVars, saveVars, historyVars,
                Covers, OnePerKey, LastSequence, HasReceipt
  <2> QED BY <2>1, <2>2
<1> QED
  BY <1>1, <1>2, PTL DEF Spec

\* Session.Apply, SaveState and NewFromStore keep every field in its type,
\* for any number of clients, handlers, projects and server starts.
THEOREM TypeCorrect == Spec => []TypeOK
<1>1. Inv => TypeOK
  BY DEF Inv
<1> QED
  BY <1>1, Invariance, PTL

\* "Older sequences never replay" (Session.Apply): however commands are lost,
\* repeated, delayed and reordered, and wherever the process stops and is
\* restored between them, no command of an epoch runs twice.
THEOREM CommandsRunAtMostOnce == Spec => []AtMostOnce
<1>1. Inv => AtMostOnce
  BY DEF Inv, RunsInv, OnePerKey, AtMostOnce, TypeOK
<1> QED
  BY <1>1, Invariance, PTL

-----------------------------------------------------------------------------
(* The inductive invariants.                                               *)

\* The encoded project that cache k keeps for a file, if any, is the file's.
KeyHolds(k, file) ==
  k.valid /\ k.epoch = file.epoch /\ k.projectRevision = file.projectRevision => k.project = file.project

\* A project p with project revision r was copied from this process, whose
\* session is now s.
CopyOf(s, r, p) == r <= s.projectRevision /\ (r = s.projectRevision => p = s.project)

\* The simulation follows the project, in the session, in the copy of a save
\* and in the store, and a project revision names one project for them all.
ProjectInv ==
  /\ Sound(session)
  /\ cache.valid => cache.epoch = epoch /\ CopyOf(session, cache.projectRevision, cache.project)
  /\ captured # None => /\ FollowsProject(captured.sim, captured.project)
                        /\ CopyOf(session, captured.projectRevision, captured.project)
                        /\ KeyHolds(cache, captured)
  /\ store # None => FollowsProject(store.sim, store.project)

\* The counters that a file restores.
FileCounters(file) == CountersOf(file.revision, file)

AtMost(a, b) ==
  /\ a.revision <= b.revision /\ a.projectRevision <= b.projectRevision
  /\ a.generation <= b.generation /\ a.lastCheckpoint <= b.lastCheckpoint

\* An epoch that goes on has counters that clients did not see pass: those of
\* the process, or those of the final save.
SeenInv ==
  /\ phase # "down" => AtMost(seen[epoch], CountersOf(revision, session))
  /\ \A e \in Epochs : e > starts => seen[e] = NoCounters
  /\ captured # None /\ captured.final => AtMost(seen[epoch], FileCounters(captured))
  /\ store # None /\ store.final => AtMost(seen[store.epoch], FileCounters(store))

\* A file that is not older than r, the last change of the project file p,
\* has the network of p.
Matches(file, p, r) ==
  UseProjectFile /\ r <= MaxRevision /\ file.revision >= r => file.project.net = p.net

\* What is confirmed is in the store, and every later save holds it too.
ConfirmedInv ==
  /\ confirmed <= MaxRevision
  /\ \A c \in Clients : receipts[c] # None => receipts[c].revision <= MaxRevision
  /\ \A h \in Handlers : handler[h].revision <= MaxRevision
  /\ store = None => confirmed = 0
  /\ store # None => confirmed <= store.revision /\ Matches(store, projectFile, fileRevision)
  /\ captured # None => /\ confirmed <= captured.revision /\ persist.savedRevision <= captured.revision
                        /\ captured.revision <= revision /\ Matches(captured, projectFile, fileRevision)
  /\ persist.savedRevision # 0 => store # None /\ persist.savedRevision <= store.revision
  /\ phase # "down" /\ persist.enabled /\ store # None => store.revision <= revision
  /\ ~persist.enabled => captured = None
  /\ ~persist.enabled \/ phase # "up" => \A w \in Savers : save[w] = "idle"
  /\ phase # "down" /\ UseProjectFile => session.project.net = projectFile.net

\* The attempts that a state file counts bound the restores since the last
\* save.
RestoreInv ==
  /\ restores <= RestoreLoopAttempts
  /\ store # None => restores <= store.attempts
  /\ phase = "starting" => /\ captured.attempts <= RestoreLoopAttempts
                           /\ captured.attempts = 0 => restores = 0
                           /\ captured.attempts # 0 => restores + 1 <= captured.attempts

-----------------------------------------------------------------------------
(* What the steps do, as far as the invariants see it.                     *)

\* Steps of the handlers and of the savers around a save, and Close.
LEMMA QuietStep ==
  ASSUME HandlerStep \/ SaverStep \/ Close
  PROVE  /\ UNCHANGED <<starts, epoch, commandVars, captured, persist, cache, revision, session,
                        store, projectFile, seen, fileRevision, restores>>
         /\ phase = "up" /\ phase' = "up"
<1>1. CASE HandlerStep
  BY <1>1 DEF HandlerStep, NudgeSaver, ReplyAfterSave, processVars, commandVars, saveVars, historyVars
<1>2. CASE SaverStep
  BY <1>2 DEF SaverStep, TakeNudge, SavePeriodic, SaveFinal, SaverRuns, processVars, commandVars, historyVars
<1>3. CASE Close
  BY <1>3 DEF Close, commandVars, saveVars, historyVars
<1> QED
  BY <1>1, <1>2, <1>3

\* A command that the session applies.
CommandRuns ==
  /\ phase = "up" /\ ~closed /\ revision < MaxRevision
  /\ UNCHANGED <<processVars, saveVars, confirmed, restores, store>>
  /\ Sound(session') /\ Continues(session, session')
  /\ revision' \in {revision, revision + 1}
  /\ seen' = [seen EXCEPT ![epoch] = CountersOf(revision', session')]
  /\ \A x \in Clients : receipts'[x] = receipts[x] \/ receipts'[x].revision = revision'
  /\ \A h \in Handlers : handler'[h] = handler[h] \/ handler'[h].revision \in {0, revision'}
  /\ UseProjectFile /\ session.project.net = projectFile.net =>
       /\ session'.project.net = projectFile'.net
       /\ projectFile'.net # projectFile.net => revision' = revision + 1
  /\ fileRevision' = IF projectFile'.net = projectFile.net THEN fileRevision
                     ELSE IF persist.enabled THEN revision' ELSE MaxRevision + 1

\* ApplyCommand is a run.
LEMMA ApplyRuns ==
  ASSUME Inv, Sound(session), NEW h \in Handlers, NEW c \in Clients, NEW n \in Sequences1, NEW e,
         NEW b \in Body, phase = "up", ApplyCommand(h, c, n, e, b)
  PROVE  CommandRuns
<1>1. PICK o \in Outcomes(session, b) :
        /\ session' = o.session
        /\ revision' = IF o.code = "ok" THEN revision + 1 ELSE revision
        /\ receipts' = [receipts EXCEPT ![c] =
                          [sequence |-> n, digest |-> b, revision |-> revision', code |-> o.code,
                           saveState |-> o.saveState]]
        /\ projectFile' = IF o.file = {} THEN projectFile ELSE CHOOSE p \in o.file : TRUE
        /\ fileRevision' = IF projectFile'.net = projectFile.net THEN fileRevision
                           ELSE IF persist.enabled THEN revision' ELSE MaxRevision + 1
        /\ LET changed == o.session.projectRevision # session.projectRevision
           IN  handler' = [handler EXCEPT ![h] =
                             IF changed \/ o.saveState
                             THEN [pc |-> "nudge", revision |-> revision', changed |-> changed,
                                   saveState |-> o.saveState]
                             ELSE IdleHandler]
        /\ seen' = [seen EXCEPT ![epoch] = CountersOf(revision', session')]
  BY DEF ApplyCommand
<1>2. Effect(session, o)
  BY OutcomesEffect DEF Inv, TypeOK
<1>3. Sound(session') /\ Continues(session, session')
  BY <1>1, <1>2 DEF Effect
<1>4. ~closed /\ revision < MaxRevision /\ UNCHANGED <<processVars, saveVars, confirmed, restores, store>>
  BY DEF ApplyCommand, Decision
<1>5. \A x \in Clients : receipts'[x] = receipts[x] \/ receipts'[x].revision = revision'
  BY <1>1 DEF Inv, TypeOK
<1>6. \A x \in Handlers : handler'[x] = handler[x] \/ handler'[x].revision \in {0, revision'}
  BY <1>1 DEF Inv, TypeOK, IdleHandler
<1>7. projectFile' = IF o.file = {} THEN projectFile ELSE o.session.project
  BY <1>1, <1>2 DEF Effect, FileFollows
<1>8. ASSUME UseProjectFile, session.project.net = projectFile.net
      PROVE  /\ session'.project.net = projectFile'.net
             /\ projectFile'.net # projectFile.net => revision' = revision + 1
  BY <1>1, <1>2, <1>7, <1>8 DEF Effect, FileFollows
<1> QED
  BY <1>1, <1>3, <1>4, <1>5, <1>6, <1>8, Zenon DEF CommandRuns

\* A retry of a command that the session applied before.
CommandReplays ==
  /\ UNCHANGED <<processVars, commandVars, saveVars, historyVars, revision, session, store, projectFile>>
  /\ \A h \in Handlers : \/ handler'[h] = handler[h]
                          \/ handler'[h].revision = 0
                          \/ \E c \in Clients : receipts[c] # None /\ handler'[h].revision = receipts[c].revision

\* A delivered command runs or is answered from its receipt.
LEMMA DeliverRuns ==
  ASSUME Inv, Sound(session), Deliver
  PROVE  CommandRuns \/ CommandReplays
<1>1. PICK h \in Handlers, c \in Clients, n \in Sequences1, e \in 1 .. starts :
        /\ phase = "up" /\ IdleFor(h)
        /\ \E b \in Bodies \cup LastBody(c) : ReplayCommand(h, c, n, e, b) \/ ApplyCommand(h, c, n, e, b)
  BY DEF Deliver
<1>2. PICK b \in Bodies \cup LastBody(c) : ReplayCommand(h, c, n, e, b) \/ ApplyCommand(h, c, n, e, b)
  BY <1>1
<1>3. b \in Body
  <2>1. LastBody(c) \subseteq Body
    BY DEF LastBody, HasReceipt, Inv, TypeOK, Receipt
  <2>2. session \in SessionValue /\ starts \in Nat \ {0}
    BY <1>1 DEF Inv, SaveInv, TypeOK
  <2> QED
    BY <2>1, <2>2, BodiesType
<1>4. CASE ApplyCommand(h, c, n, e, b)
  BY <1>1, <1>3, <1>4, ApplyRuns
<1>5. CASE ReplayCommand(h, c, n, e, b)
  <2>1. receipts[c] # None
    BY <1>5, SMT DEF ReplayCommand, Decision, HasReceipt
  <2>2. /\ handler' = [handler EXCEPT ![h] =
                         IF receipts[c].saveState
                         THEN [pc |-> "nudge", revision |-> receipts[c].revision, changed |-> FALSE, saveState |-> TRUE]
                         ELSE IdleHandler]
        /\ UNCHANGED <<processVars, commandVars, saveVars, historyVars, revision, session, store, projectFile>>
    BY <1>5 DEF ReplayCommand
  <2>3. \A x \in Handlers : \/ handler'[x] = handler[x]
                            \/ handler'[x].revision = 0
                            \/ handler'[x].revision = receipts[c].revision
    BY <2>2 DEF Inv, TypeOK, IdleHandler
  <2> QED
    BY <2>1, <2>2, <2>3, Zenon DEF CommandReplays
<1> QED
  BY <1>2, <1>4, <1>5

\* A batch of the clock, with the end of the demo or without.
LEMMA TickRuns ==
  ASSUME Inv, Sound(session), Tick
  PROVE  /\ phase = "up" /\ ~closed /\ revision' = revision + 1
         /\ Sound(session') /\ Continues(session, session') /\ session'.project = session.project
         /\ seen' = [seen EXCEPT ![epoch] = CountersOf(revision', session')]
         /\ UNCHANGED <<processVars, commandVars, saveVars, confirmed, fileRevision, restores,
                        handler, store, projectFile>>
<1>1. session \in SessionValue
  BY DEF Inv, TypeOK
<1>2. CASE UNCHANGED session
  BY <1>1, <1>2, ContinuesItself DEF Tick
<1>3. CASE session' = [session EXCEPT !.sim =
                        [ConfigureRedistribution(session.sim, session.project) EXCEPT !.demo = FALSE]]
  <2>1. Sound(session') /\ Continues(session, session') /\ session'.project = session.project
    BY <1>1, <1>3, DemoEndSound
  <2> QED
    BY <2>1 DEF Tick
<1> QED
  BY <1>2, <1>3 DEF Tick

\* The end of SaveState.
SaveEnds ==
  /\ captured # None /\ captured' = None
  /\ UNCHANGED <<processVars, commandVars, saver, seen, confirmed, fileRevision, revision, session,
                 handler, projectFile>>
  /\ phase = "up"
  /\ cache'.valid => cache' = CacheOf(captured)
  /\ \A w \in Savers : save'[w] \in {save[w], "idle"}
  /\ persist'.enabled = persist.enabled
  /\ \/ store' = store /\ restores' = restores /\ persist'.savedRevision = persist.savedRevision
     \/ /\ store' = Encoded(captured) /\ restores' = 0
        /\ persist'.savedRevision \in {persist.savedRevision, captured.revision}

\* FinishSave and FailSave end a save.
LEMMA SaveRuns ==
  ASSUME Inv, NEW w \in Savers, FinishSave(w) \/ FailSave(w)
  PROVE  SaveEnds
<1>1. captured # None
  BY DEF FinishSave, FailSave, Inv, SaveInv
<1>2. \A x \in Savers : save'[x] \in {save[x], "idle"}
  BY DEF FinishSave, FailSave, Inv, TypeOK
<1>3. CASE FinishSave(w)
  <2>1. persist'.enabled = persist.enabled /\ persist'.savedRevision = captured.revision
    BY <1>3 DEF FinishSave, Inv, TypeOK, PersistState
  <2> QED
    BY <1>1, <1>2, <1>3, <2>1 DEF FinishSave, SaveEnds
<1>4. CASE FailSave(w)
  <2>1. persist'.enabled = persist.enabled /\ persist'.savedRevision = persist.savedRevision
    BY <1>4 DEF FailSave, Inv, TypeOK, PersistState
  <2>2. cache'.valid => cache' = CacheOf(captured)
    BY <1>4 DEF FailSave, Inv, TypeOK, CacheState
  <2> QED
    BY <1>1, <1>2, <1>4, <2>1, <2>2 DEF FailSave, SaveEnds
<1> QED
  BY <1>3, <1>4

\* A start with a fresh session of p: it saves, or it leaves the saved state
\* alone.
FreshStart(p) ==
  /\ phase = "down" /\ starts' = starts + 1 /\ FreshSession(p)
  /\ UseProjectFile => p = projectFile
  /\ receipts' = [c \in Clients |-> None] /\ cache' = EmptyCache
  /\ UNCHANGED <<save, handler, projectFile>> /\ persist'.savedRevision = 0
  /\ \/ /\ phase' = "starting" /\ persist'.enabled /\ captured' = StartupFile(0) /\ store' = None
        /\ confirmed' = 0 /\ fileRevision' = 0 /\ restores' = 0 /\ seen' = seen
     \/ /\ phase' = "up" /\ ~persist'.enabled /\ ShowStart
        /\ UNCHANGED <<captured, confirmed, fileRevision, restores, store>>

\* The starts with a new epoch are fresh starts.
LEMMA FreshRuns ==
  ASSUME Inv, StartNew \/ StartUnreadable \/ StartRejected
  PROVE  \E p \in Project : FreshStart(p)
<1>1. \A saved \in {store.project, None} : UseProjectFile => EmptyProject(saved) = projectFile
  BY DEF EmptyProject
<1>2. ASSUME NEW next, NEW enabled \in BOOLEAN, NewProcess(next, enabled)
      PROVE  /\ phase = "down" /\ starts' = starts + 1 /\ phase' = next
             /\ receipts' = [c \in Clients |-> None] /\ cache' = EmptyCache
             /\ UNCHANGED <<save, handler, projectFile>>
             /\ persist'.savedRevision = 0 /\ persist'.enabled = enabled
  BY <1>2 DEF NewProcess, NewPersistence
<1>3. CASE StartNew
  <2>1. EmptyProject(None) \in Project
    BY EmptyProjectType DEF Inv
  <2>2. FreshStart(EmptyProject(None))
    BY <1>1, <1>2, <1>3 DEF StartNew, FreshStart
  <2> QED
    BY <2>1, <2>2
<1>4. CASE StartUnreadable
  <2>1. EmptyProject(None) \in Project
    BY EmptyProjectType DEF Inv
  <2>2. FreshStart(EmptyProject(None))
    BY <1>1, <1>2, <1>4 DEF StartUnreadable, FreshStart
  <2> QED
    BY <2>1, <2>2
<1>5. CASE StartRejected
  <2>1. PICK saved \in {store.project, None} :
          \/ /\ NewProcess("starting", TRUE)
             /\ FreshSession(EmptyProject(saved))
             /\ store' = None
             /\ captured' = StartupFile(0)
             /\ confirmed' = 0 /\ fileRevision' = 0 /\ restores' = 0
             /\ UNCHANGED seen
          \/ /\ NewProcess("up", FALSE)
             /\ FreshSession(EmptyProject(saved))
             /\ ShowStart
             /\ UNCHANGED <<captured, confirmed, fileRevision, restores, store>>
    BY <1>5 DEF StartRejected
  <2>2. EmptyProject(saved) \in Project
    <3>1. store.project \in Project
      BY <1>5 DEF StartRejected, Inv, TypeOK, StateFile
    <3> QED
      BY <3>1, EmptyProjectType DEF Inv
  <2>3. FreshStart(EmptyProject(saved))
    BY <1>1, <1>2, <2>1 DEF FreshStart
  <2> QED
    BY <2>2, <2>3
<1> QED
  BY <1>3, <1>4, <1>5

\* A restore: the session goes on from the counters of the file.
LEMMA RestoredRuns ==
  ASSUME Inv, StartRestored, store # None => FollowsProject(store.sim, store.project)
  PROVE  /\ store # None /\ store \in StateFile /\ phase = "down" /\ phase' = "starting"
         /\ store.attempts < RestoreLoopAttempts
         /\ starts' = starts + 1 /\ revision' = store.revision + 1
         /\ \/ epoch' = starts'
            \/ epoch' = store.epoch /\ store.final
         /\ Sound(session')
         /\ session'.projectRevision >= store.projectRevision
         /\ session'.generation >= store.generation
         /\ session'.lastCheckpoint = store.lastCheckpoint
         /\ UseProjectFile => /\ session'.project.net = projectFile.net
                              /\ store.project.net = projectFile.net
         /\ captured' = StartupFile(store.attempts + 1)
         /\ receipts' = [c \in Clients |-> None] /\ cache' = EmptyCache
         /\ persist'.enabled /\ persist'.savedRevision = 0
         /\ fileRevision' = 0
         /\ UNCHANGED <<seen, confirmed, restores, store, save, handler, projectFile>>
<1>1. /\ store # None /\ ~RestoreLoop /\ ProjectMatches /\ NewProcess("starting", TRUE)
      /\ epoch' = (IF KeepEpoch THEN store.epoch ELSE starts') /\ revision' = store.revision + 1
      /\ captured' = StartupFile(store.attempts + 1) /\ fileRevision' = 0
      /\ UNCHANGED <<seen, confirmed, restores, store>>
  BY DEF StartRestored
<1>2. store \in StateFile
  BY <1>1 DEF Inv, TypeOK
<1>3. store.attempts < RestoreLoopAttempts
  BY <1>1, <1>2 DEF RestoreLoop, RestoreLoopAttempts, StateFile
<1>4. PICK tier \in Tiers :
        LET installed == RestoredSession(RestoredSimulation(tier))
        IN  session' = IF SavedDemandDiffers THEN WithDemand(installed, projectFile.demand) ELSE installed
  BY DEF StartRestored
<1> DEFINE installed == RestoredSession(RestoredSimulation(tier))
<1>5. installed \in SessionValue
  BY <1>1, RestoredSessionType DEF Inv
<1>6. /\ installed.project = RestoredConfig /\ installed.sim = RestoredSimulation(tier)
      /\ installed.projectRevision = store.projectRevision /\ installed.projectOrigin = store.projectRevision
      /\ installed.generation = store.generation + 1 /\ installed.lastCheckpoint = store.lastCheckpoint
      /\ installed.checkpoints = <<>>
  BY DEF RestoredSession
<1>7. RestoredConfig \in Project /\ (UseProjectFile => RestoredConfig.net = projectFile.net)
  BY <1>2 DEF RestoredConfig, StateFile, Project, Inv, TypeOK
<1> HIDE DEF installed
<1>8. FollowsProject(installed.sim, installed.project)
  <2>1. /\ installed.sim.project = (IF store.sim.demo /\ tier = "physical"
                                   THEN [RestoredConfig EXCEPT !.demand = store.sim.project.demand]
                                   ELSE RestoredConfig)
        /\ installed.sim.demo = (store.sim.demo /\ tier = "physical")
    BY <1>6 DEF RestoredSimulation
  <2>2. store.sim.project.demand \in Demands /\ RestoredConfig.demand \in Demands
    BY <1>2, <1>7 DEF StateFile, Simulation, Project
  <2>3. [[RestoredConfig EXCEPT !.demand = store.sim.project.demand] EXCEPT !.demand = RestoredConfig.demand]
          = RestoredConfig
    BY <1>7, <2>2, LastDemand, ProjectParts
  <2>4. [RestoredConfig EXCEPT !.demand = RestoredConfig.demand] = RestoredConfig
    BY <1>7, <2>2, ProjectParts
  <2> QED
    BY <1>6, <2>1, <2>3, <2>4 DEF FollowsProject
<1>9. Sound(installed)
  <2>1. DOMAIN installed.checkpoints = {}
    BY <1>6
  <2>2. installed.projectOrigin <= installed.projectRevision
    BY <1>2, <1>6 DEF StateFile
  <2> QED
    BY <1>8, <2>1, <2>2, Zenon DEF Sound
<1>10. /\ Sound(session') /\ session'.projectRevision >= store.projectRevision
       /\ session'.generation >= store.generation /\ session'.lastCheckpoint = store.lastCheckpoint
       /\ session'.project.net = RestoredConfig.net
  <2>1. store.projectRevision \in Nat /\ store.generation \in Nat
    BY <1>2 DEF StateFile
  <2>2. CASE ~SavedDemandDiffers
    BY <1>4, <1>6, <1>9, <2>1, <2>2 DEF installed
  <2>3. CASE SavedDemandDiffers
    <3>1. session' = WithDemand(installed, projectFile.demand)
      BY <1>4, <2>3 DEF installed
    <3>2. projectFile.demand \in Demands
      BY DEF Inv, TypeOK, Project
    <3>3. /\ Sound(session') /\ session'.projectRevision = installed.projectRevision + 1
          /\ session'.generation = installed.generation /\ session'.lastCheckpoint = installed.lastCheckpoint
          /\ session'.project.net = installed.project.net
      BY <1>5, <1>9, <3>1, <3>2, WithDemandSound
    <3> QED
      BY <1>6, <2>1, <3>3
  <2> QED
    BY <2>2, <2>3
<1>11. /\ phase = "down" /\ phase' = "starting" /\ starts' = starts + 1
       /\ receipts' = [c \in Clients |-> None] /\ cache' = EmptyCache
       /\ persist'.enabled /\ persist'.savedRevision = 0
       /\ UNCHANGED <<save, handler, projectFile>>
  BY <1>1 DEF NewProcess, NewPersistence
<1>12. epoch' = starts' \/ (epoch' = store.epoch /\ store.final)
  BY <1>1 DEF KeepEpoch
<1> QED
  BY <1>1, <1>2, <1>3, <1>7, <1>10, <1>11, <1>12 DEF ProjectMatches

\* The end of the process: the store holds what it held or the copy of the
\* startup save.
LEMMA EndRuns ==
  ASSUME Inv, Stop \/ FailStart
  PROVE  /\ LoseMemory(store')
         /\ UNCHANGED <<starts, confirmed, fileRevision, restores, projectFile>>
         /\ store' = store \/ (phase = "starting" /\ captured # None /\ store' = captured)
BY DEF Stop, FailStart, Inv, SaveInv

\* SaveState takes persistence.mu and copies the session, or finds nothing to
\* write.
LEMMA BeginRuns ==
  ASSUME Inv, NEW w \in Savers, BeginSave(w)
  PROVE  /\ phase = "up" /\ save[w] # "idle"
         /\ UNCHANGED <<processVars, commandVars, saver, persist, cache, historyVars, revision, session,
                        handler, store, projectFile>>
         /\ captured' = captured \/ captured' = CaptureState(Kind(w))
         /\ \A x \in Savers : x # w => save'[x] = save[x]
         /\ CaptureState(Kind(w)).final => closed
<1>1. CaptureState(Kind(w)).final => w = Final
  BY SessionAssumption DEF CaptureState, Kind, Saver, Final
<1>2. w = Final => closed
  BY DEF BeginSave, Inv, SaveInv
<1> QED
  BY <1>1, <1>2 DEF BeginSave, Inv, TypeOK

\* The cases of Next that the proofs below tell apart.
LEMMA Steps ==
  ASSUME Next
  PROVE  \/ Deliver \/ Tick
         \/ HandlerStep \/ SaverStep \/ Close
         \/ \E w \in Savers : BeginSave(w)
         \/ \E w \in Savers : FinishSave(w) \/ FailSave(w)
         \/ Stop \/ FailStart
         \/ StartNew \/ StartUnreadable \/ StartRejected
         \/ StartRestored \/ FinishStart
BY DEF Next, SaveStep, StartStep

-----------------------------------------------------------------------------
(* Every step keeps ProjectInv.                                            *)

\* A copy stays one while the session goes on.
LEMMA CopyStays ==
  ASSUME NEW s \in SessionValue, NEW next \in SessionValue, Continues(s, next), NEW r \in Nat, NEW p,
         CopyOf(s, r, p)
  PROVE  CopyOf(next, r, p)
BY SessionParts DEF Continues, CopyOf

\* Steps of the session keep the copies that saves and the encoder hold.
LEMMA SessionGoesOn ==
  ASSUME Inv, ProjectInv, session' \in SessionValue, Sound(session'), Continues(session, session'),
         UNCHANGED <<epoch, cache, captured, store>>
  PROVE  ProjectInv'
<1>1. cache.valid => cache.epoch = epoch /\ CopyOf(session', cache.projectRevision, cache.project)
  <2>1. cache.projectRevision \in Nat
    BY DEF Inv, TypeOK, CacheState
  <2> QED
    BY <2>1, CopyStays DEF ProjectInv, Inv, TypeOK
<1>2. captured # None => CopyOf(session', captured.projectRevision, captured.project)
  <2>1. captured # None => captured.projectRevision \in Nat
    BY DEF Inv, TypeOK, StateFile
  <2> QED
    BY <2>1, CopyStays DEF ProjectInv, Inv, TypeOK
<1> QED
  BY <1>1, <1>2 DEF ProjectInv

\* The encoder writes the project of its copy, with everything else of it.
LEMMA EncodedFile ==
  ASSUME Inv, ProjectInv, captured # None
  PROVE  /\ Encoded(captured) = captured
         /\ CacheOf(captured) = [valid |-> TRUE, epoch |-> captured.epoch,
                                 projectRevision |-> captured.projectRevision, project |-> captured.project]
<1>1. captured \in StateFile
  BY DEF Inv, TypeOK
<1>2. KeyHolds(cache, captured)
  BY DEF ProjectInv
<1>3. Encoded(captured) = captured
  BY <1>1, <1>2 DEF Encoded, KeyHolds, StateFile
<1> QED
  BY <1>3 DEF CacheOf

\* A startup save copies the session of its start.
LEMMA StartupCopy ==
  ASSUME NEW a, Sound(session'), session' \in SessionValue
  PROVE  /\ FollowsProject(StartupFile(a).sim, StartupFile(a).project)
         /\ CopyOf(session', StartupFile(a).projectRevision, StartupFile(a).project)
         /\ KeyHolds(EmptyCache, StartupFile(a))
<1>1. session'.projectRevision \in Nat
  BY SessionParts
<1> QED
  BY <1>1 DEF StartupFile, CopyOf, KeyHolds, EmptyCache, Sound

\* The session of no saved state is sound.
LEMMA StartSound ==
  ASSUME NEW p \in Project
  PROVE  Sound(StartProject(p)) /\ StartProject(p).project = p
<1> DEFINE s == StartProject(p)
<1>1. /\ s.project = p /\ s.sim = NewFleet(p, FALSE) /\ s.projectOrigin = 1 /\ s.projectRevision = 1
      /\ s.checkpoints = <<>>
  BY DEF StartProject
<1>2. FollowsProject(NewFleet(p, FALSE), p)
  BY NewFleetFollows
<1> HIDE DEF s
<1>3. DOMAIN s.checkpoints = {} /\ s.projectOrigin <= s.projectRevision
  BY <1>1
<1>4. FollowsProject(s.sim, s.project)
  BY <1>1, <1>2
<1> QED
  BY <1>1, <1>3, <1>4, Zenon DEF Sound, s

\* Every step keeps ProjectInv.
LEMMA ProjectStep ==
  ASSUME Inv, TypeOK', ProjectInv, Next
  PROVE  ProjectInv'
<1>0. session \in SessionValue /\ session' \in SessionValue /\ Sound(session)
  BY DEF Inv, TypeOK, ProjectInv
<1>1. CASE Deliver
  <2>1. CASE CommandRuns
    BY <1>0, <2>1, SessionGoesOn DEF CommandRuns, processVars, saveVars
  <2>2. CASE CommandReplays
    BY <1>0, <2>2, SessionGoesOn, ContinuesItself DEF CommandReplays, processVars, saveVars
  <2> QED
    BY <1>0, <1>1, <2>1, <2>2, DeliverRuns
<1>2. CASE Tick
  BY <1>0, <1>2, TickRuns, SessionGoesOn DEF processVars, saveVars
<1>3. CASE HandlerStep \/ SaverStep \/ Close
  <2>1. UNCHANGED <<epoch, cache, captured, store, session>>
    BY <1>3, QuietStep
  <2> QED
    BY <1>0, <2>1, SessionGoesOn, ContinuesItself
<1>4. CASE \E w \in Savers : BeginSave(w)
  <2>1. PICK w \in Savers : BeginSave(w)
    BY <1>4
  <2>2. /\ UNCHANGED <<epoch, cache, store, session>>
        /\ captured' = captured \/ captured' = CaptureState(Kind(w))
    BY <2>1, BeginRuns DEF processVars
  <2>3. CASE captured' = captured
    BY <1>0, <2>2, <2>3, SessionGoesOn, ContinuesItself
  <2>4. CASE captured' = CaptureState(Kind(w))
    <3>1. /\ captured'.sim = session.sim /\ captured'.project = session.project
          /\ captured'.projectRevision = session.projectRevision /\ captured'.epoch = epoch
      BY <2>4 DEF CaptureState
    <3>2. FollowsProject(captured'.sim, captured'.project)
      BY <1>0, <3>1 DEF Sound
    <3>3. CopyOf(session, captured'.projectRevision, captured'.project)
      BY <1>0, <3>1, SessionParts DEF CopyOf
    <3>4. KeyHolds(cache, captured')
      BY <3>1 DEF ProjectInv, CopyOf, KeyHolds
    <3> QED
      BY <2>2, <3>2, <3>3, <3>4 DEF ProjectInv
  <2> QED
    BY <2>2, <2>3, <2>4
<1>5. CASE \E w \in Savers : FinishSave(w) \/ FailSave(w)
  <2>1. SaveEnds
    BY <1>5, SaveRuns
  <2>2. /\ captured # None /\ captured' = None /\ UNCHANGED <<epoch, session>>
        /\ cache'.valid => cache' = CacheOf(captured)
        /\ store' = store \/ store' = Encoded(captured)
    BY <2>1 DEF SaveEnds, processVars
  <2>3. /\ store' = store \/ store' = captured
        /\ cache'.valid => /\ cache'.epoch = captured.epoch
                           /\ cache'.projectRevision = captured.projectRevision
                           /\ cache'.project = captured.project
    BY <2>2, EncodedFile
  <2>4. captured.epoch = epoch
    BY <2>2 DEF Inv, RunsInv
  <2>5. cache'.valid => cache'.epoch = epoch /\ CopyOf(session, cache'.projectRevision, cache'.project)
    BY <2>2, <2>3, <2>4 DEF ProjectInv
  <2> QED
    BY <2>2, <2>3, <2>5 DEF ProjectInv
<1>6. CASE Stop \/ FailStart
  <2>1. /\ LoseMemory(store')
        /\ store' = store \/ (captured # None /\ store' = captured)
    BY <1>6, EndRuns
  <2>2. Sound(session')
    BY <2>1, StartSound, ProjectAssumption DEF LoseMemory
  <2>3. ~cache'.valid /\ captured' = None
    BY <2>1 DEF LoseMemory, EmptyCache
  <2> QED
    BY <2>1, <2>2, <2>3 DEF ProjectInv
<1>7. CASE StartNew \/ StartUnreadable \/ StartRejected
  <2>1. PICK p \in Project : FreshStart(p)
    BY <1>7, FreshRuns
  <2>2. Sound(session') /\ cache' = EmptyCache /\ ~cache'.valid
    BY <2>1, StartSound DEF FreshStart, FreshSession, EmptyCache
  <2>3. captured' = StartupFile(0) \/ captured' = None
    BY <2>1 DEF FreshStart, Inv, SaveInv
  <2>4. store' = store \/ store' = None
    BY <2>1 DEF FreshStart
  <2> QED
    BY <1>0, <2>2, <2>3, <2>4, StartupCopy DEF ProjectInv
<1>8. CASE StartRestored
  <2>1. /\ Sound(session') /\ cache' = EmptyCache /\ captured' = StartupFile(store.attempts + 1) /\ store' = store
    BY <1>8, RestoredRuns DEF ProjectInv
  <2>2. ~cache'.valid
    BY <2>1 DEF EmptyCache
  <2> QED
    BY <1>0, <2>1, <2>2, StartupCopy DEF ProjectInv
<1>9. CASE FinishStart
  <2>1. /\ store' = captured /\ cache' = CacheOf(captured) /\ captured' = None /\ UNCHANGED <<epoch, session>>
        /\ captured # None
    BY <1>9 DEF FinishStart, Inv, SaveInv
  <2>2. /\ cache'.epoch = captured.epoch /\ captured.epoch = epoch
        /\ cache'.projectRevision = captured.projectRevision /\ cache'.project = captured.project
    BY <2>1, EncodedFile DEF Inv, RunsInv
  <2> QED
    BY <2>1, <2>2 DEF ProjectInv
<1> QED
  BY <1>1, <1>2, <1>3, <1>4, <1>5, <1>6, <1>7, <1>8, <1>9, Steps

-----------------------------------------------------------------------------
(* Every step keeps SeenInv, and shows no lower counters.                  *)

\* Counters are ordered.
LEMMA CountersOrder ==
  ASSUME NEW a \in Counters, NEW b \in Counters, NEW d \in Counters
  PROVE  /\ AtMost(a, a) /\ AtMost(NoCounters, a)
         /\ AtMost(a, b) /\ AtMost(b, d) => AtMost(a, d)
BY DEF Counters, AtMost, NoCounters

\* The counters of a process that goes on do not fall.
LEMMA CountersGrow ==
  ASSUME NEW s \in SessionValue, NEW next \in SessionValue, Continues(s, next),
         NEW r \in Nat, NEW q \in Nat, q >= r
  PROVE  AtMost(CountersOf(r, s), CountersOf(q, next))
BY DEF Continues, AtMost, CountersOf

\* A file has counters.
LEMMA FileCountersType ==
  ASSUME NEW file \in StateFile
  PROVE  FileCounters(file) \in Counters
BY DEF FileCounters, CountersOf, Counters, StateFile

\* The session shows new counters while no final save holds its epoch.
LEMMA ShowInv ==
  ASSUME Inv, Inv', SeenInv, phase # "down",
         seen' = [seen EXCEPT ![epoch] = CountersOf(revision', session')],
         UNCHANGED <<starts, epoch>>,
         captured' # None => ~captured'.final,
         store' # None /\ store'.final => store'.epoch # epoch /\ store' = store
  PROVE  SeenInv'
<1>1. epoch \in Epochs /\ epoch <= starts
  BY DEF Inv, SaveInv, TypeOK, Epochs
<1>2. CountersOf(revision', session') \in Counters
  BY CountersType DEF Inv, TypeOK
<1>3. seen'[epoch] = CountersOf(revision', session') /\ \A e \in Epochs : e # epoch => seen'[e] = seen[e]
  BY <1>1 DEF Inv, TypeOK
<1>4. AtMost(seen'[epoch], CountersOf(revision', session'))
  BY <1>2, <1>3, CountersOrder
<1>5. \A e \in Epochs : e > starts => seen'[e] = NoCounters
  BY <1>1, <1>3 DEF SeenInv, Inv, TypeOK, Epochs
<1>6. ASSUME store' # None, store'.final PROVE AtMost(seen'[store'.epoch], FileCounters(store'))
  <2>1. store'.epoch \in Epochs
    BY <1>6 DEF Inv, TypeOK, StateFile
  <2> QED
    BY <1>3, <1>6, <2>1 DEF SeenInv
<1> QED
  BY <1>4, <1>5, <1>6 DEF SeenInv

\* A fresh epoch was not seen.
LEMMA NewEpochUnseen ==
  ASSUME Inv, SeenInv, starts' = starts + 1, starts' \in Epochs
  PROVE  seen[starts'] = NoCounters
BY DEF SeenInv, Inv, TypeOK

\* The counters of a process are at least those that clients saw.
LEMMA SeenStep ==
  ASSUME Inv, Inv', ProjectInv, SeenInv, Next
  PROVE  SeenInv'
<1>0. /\ session \in SessionValue /\ session' \in SessionValue /\ Sound(session)
      /\ revision \in Nat /\ revision' \in Nat /\ starts \in Nat
  BY DEF Inv, TypeOK, ProjectInv
<1>1. phase = "up" /\ ~closed => /\ captured # None => ~captured.final
                                 /\ store # None /\ store.final => store.epoch # epoch
  BY DEF Inv, RunsInv
<1>2. CASE Deliver
  <2>1. CASE CommandRuns
    BY <1>1, <2>1, ShowInv DEF CommandRuns, processVars, saveVars
  <2>2. CASE CommandReplays
    BY <2>2 DEF CommandReplays, processVars, saveVars, historyVars, SeenInv
  <2> QED
    BY <1>0, <1>2, <2>1, <2>2, DeliverRuns
<1>3. CASE Tick
  BY <1>0, <1>1, <1>3, TickRuns, ShowInv DEF processVars, saveVars
<1>4. CASE HandlerStep \/ SaverStep \/ Close
  BY <1>4, QuietStep DEF SeenInv
<1>5. CASE \E w \in Savers : BeginSave(w)
  <2>1. PICK w \in Savers : BeginSave(w)
    BY <1>5
  <2>2. /\ phase = "up" /\ UNCHANGED <<processVars, seen, revision, session, store>>
        /\ captured' = captured \/ captured' = CaptureState(Kind(w))
    BY <2>1, BeginRuns DEF historyVars
  <2>3. FileCounters(CaptureState(Kind(w))) = CountersOf(revision, session)
    BY DEF FileCounters, CaptureState, CountersOf
  <2> QED
    BY <2>2, <2>3 DEF SeenInv, processVars
<1>6. CASE \E w \in Savers : FinishSave(w) \/ FailSave(w)
  <2>1. SaveEnds
    BY <1>6, SaveRuns
  <2>2. /\ UNCHANGED <<processVars, seen, revision, session>> /\ captured # None /\ captured' = None
        /\ store' = store \/ store' = captured
    BY <2>1, EncodedFile DEF SaveEnds
  <2>3. captured.epoch = epoch
    BY <2>2 DEF Inv, RunsInv
  <2> QED
    BY <2>2, <2>3 DEF SeenInv, processVars
<1>7. CASE Stop \/ FailStart
  <2>1. /\ LoseMemory(store') /\ starts' = starts
        /\ store' = store \/ (phase = "starting" /\ captured # None /\ store' = captured)
    BY <1>7, EndRuns
  <2>2. \A e \in Epochs : seen'[e] = seen[e] \/ seen'[e] = NoCounters
    BY <2>1 DEF LoseMemory
  <2>3. phase' = "down" /\ captured' = None
    BY <2>1 DEF LoseMemory
  <2>4. ASSUME store' # None, store'.final PROVE AtMost(seen'[store'.epoch], FileCounters(store'))
    <3>1. store' = store
      BY <2>1, <2>4 DEF Inv, RunsInv
    <3>2. store \in StateFile /\ store.epoch \in Epochs
      BY <2>4, <3>1 DEF Inv, TypeOK, StateFile
    <3>3. FileCounters(store) \in Counters
      BY <3>2, FileCountersType
    <3> QED
      BY <2>2, <2>4, <3>1, <3>2, <3>3, CountersOrder DEF SeenInv
  <2> QED
    BY <2>1, <2>2, <2>3, <2>4 DEF SeenInv
<1>8. CASE StartNew \/ StartUnreadable \/ StartRejected
  <2>1. PICK p \in Project : FreshStart(p)
    BY <1>8, FreshRuns
  <2>2. epoch' = starts' /\ starts' = starts + 1 /\ phase' # "down" /\ phase = "down"
    BY <2>1 DEF FreshStart, FreshSession
  <2>3. starts' \in Epochs /\ epoch' \in Epochs
    BY <1>0, <2>2 DEF Inv, TypeOK, Epochs
  <2>4. seen[epoch'] = NoCounters
    BY <2>2, <2>3, NewEpochUnseen
  <2>5. CountersOf(revision', session') \in Counters
    BY <1>0, CountersType
  <2>6. /\ seen'[epoch'] \in {NoCounters, CountersOf(revision', session')}
        /\ \A e \in Epochs : e # epoch' => seen'[e] = seen[e]
    BY <2>1, <2>3, <2>4 DEF FreshStart, ShowStart, Inv, TypeOK
  <2>7. AtMost(seen'[epoch'], CountersOf(revision', session'))
    BY <2>5, <2>6, CountersOrder
  <2>8. \A e \in Epochs : e > starts' => seen'[e] = NoCounters
    BY <1>0, <2>2, <2>6 DEF SeenInv, Epochs
  <2>9. captured' # None => ~captured'.final
    BY <2>1 DEF FreshStart, StartupFile, Inv, SaveInv
  <2>10. ASSUME store' # None, store'.final PROVE AtMost(seen'[store'.epoch], FileCounters(store'))
    <3>1. store' = store
      BY <2>1, <2>10 DEF FreshStart
    <3>2. store.epoch \in Epochs /\ store.epoch <= starts
      BY <2>10, <3>1 DEF Inv, TypeOK, StateFile, RunsInv
    <3>3. store.epoch # epoch'
      BY <1>0, <2>2, <3>2 DEF Epochs
    <3> QED
      BY <2>6, <2>10, <3>1, <3>2, <3>3 DEF SeenInv
  <2> QED
    BY <2>2, <2>7, <2>8, <2>9, <2>10 DEF SeenInv
<1>9. CASE StartRestored
  <2>1. /\ store # None /\ store \in StateFile /\ starts' = starts + 1 /\ revision' = store.revision + 1
        /\ epoch' = starts' \/ (epoch' = store.epoch /\ store.final)
        /\ session'.projectRevision >= store.projectRevision /\ session'.generation >= store.generation
        /\ session'.lastCheckpoint = store.lastCheckpoint
        /\ captured' = StartupFile(store.attempts + 1) /\ UNCHANGED <<seen, store>>
    BY <1>9, RestoredRuns DEF ProjectInv
  <2>2. ~captured'.final
    BY <2>1 DEF StartupFile
  <2>3. CountersOf(revision', session') \in Counters /\ FileCounters(store) \in Counters
    BY <1>0, <2>1, CountersType, FileCountersType
  <2>4. AtMost(FileCounters(store), CountersOf(revision', session'))
    BY <2>1 DEF AtMost, FileCounters, CountersOf, StateFile
  <2>5. AtMost(seen[epoch'], CountersOf(revision', session'))
    <3>1. CASE epoch' = starts'
      <4>1. starts' \in Epochs
        BY <1>0, <2>1 DEF Inv, TypeOK, Epochs
      <4> QED
        BY <2>1, <2>3, <3>1, <4>1, NewEpochUnseen, CountersOrder
    <3>2. CASE epoch' = store.epoch /\ store.final
      <4>1. seen[store.epoch] \in Counters
        BY <2>1 DEF Inv, TypeOK, StateFile
      <4> QED
        BY <2>1, <2>3, <2>4, <3>2, <4>1, CountersOrder DEF SeenInv
    <3> QED
      BY <2>1, <3>1, <3>2
  <2>6. \A e \in Epochs : e > starts' => seen[e] = NoCounters
    BY <1>0, <2>1 DEF SeenInv, Epochs
  <2> QED
    BY <2>1, <2>2, <2>5, <2>6 DEF SeenInv
<1>10. CASE FinishStart
  <2>1. /\ phase = "starting" /\ captured # None /\ captured' = None /\ store' = captured
        /\ UNCHANGED <<starts, epoch, revision, session>>
        /\ seen' = [seen EXCEPT ![epoch] = CountersOf(revision', session')]
    BY <1>10 DEF FinishStart, Inv, SaveInv
  <2>2. ~store'.final
    BY <2>1 DEF Inv, RunsInv
  <2> QED
    BY <2>1, <2>2, ShowInv
<1> QED
  BY <1>2, <1>3, <1>4, <1>5, <1>6, <1>7, <1>8, <1>9, <1>10, Steps

\* No step that leaves a serving process shows lower counters of an epoch.
LEMMA SeenGrows ==
  ASSUME Inv, Inv', ProjectInv, SeenInv, Next, phase' = "up", NEW e \in Epochs
  PROVE  AtMost(seen[e], seen'[e])
<1>0. /\ session \in SessionValue /\ session' \in SessionValue /\ Sound(session)
      /\ revision \in Nat /\ revision' \in Nat /\ starts \in Nat
      /\ seen[e] \in Counters
      /\ CountersOf(revision, session) \in Counters /\ CountersOf(revision', session') \in Counters
  BY CountersType DEF Inv, TypeOK, ProjectInv
<1>1. CASE seen' = seen
  BY <1>0, <1>1, CountersOrder
<1>2. phase # "down" => epoch \in Epochs /\ seen[epoch] \in Counters
  <2>1. phase # "down" => epoch \in Epochs
    BY DEF Inv, SaveInv, TypeOK, Epochs
  <2> QED
    BY <2>1 DEF Inv, TypeOK
<1>3. ASSUME phase # "down", Continues(session, session'), revision' >= revision,
             seen' = [seen EXCEPT ![epoch] = CountersOf(revision', session')]
      PROVE  AtMost(seen[e], seen'[e])
  <2>1. AtMost(CountersOf(revision, session), CountersOf(revision', session'))
    BY <1>0, <1>3, CountersGrow
  <2>2. AtMost(seen[epoch], CountersOf(revision', session'))
    BY <1>0, <1>2, <1>3, <2>1, CountersOrder DEF SeenInv
  <2>3. seen'[e] = IF e = epoch THEN CountersOf(revision', session') ELSE seen[e]
    BY <1>3 DEF Inv, TypeOK
  <2> QED
    BY <1>0, <2>2, <2>3, CountersOrder
<1>4. CASE Deliver
  BY <1>0, <1>1, <1>3, <1>4, DeliverRuns DEF CommandRuns, CommandReplays, historyVars
<1>5. CASE Tick
  BY <1>0, <1>3, <1>5, TickRuns
<1>6. CASE HandlerStep \/ SaverStep \/ Close
  BY <1>1, <1>6, QuietStep
<1>7. CASE \E w \in Savers : BeginSave(w)
  BY <1>1, <1>7, BeginRuns DEF historyVars
<1>8. CASE \E w \in Savers : FinishSave(w) \/ FailSave(w)
  BY <1>1, <1>8, SaveRuns DEF SaveEnds
<1>9. CASE Stop \/ FailStart
  BY <1>9, EndRuns DEF LoseMemory
<1>10. CASE StartNew \/ StartUnreadable \/ StartRejected
  <2>1. PICK p \in Project : FreshStart(p)
    BY <1>10, FreshRuns
  <2>2. epoch' = starts' /\ starts' = starts + 1
    BY <2>1 DEF FreshStart, FreshSession
  <2>3. starts' \in Epochs
    BY <1>0, <2>1, <2>2 DEF FreshStart, Inv, TypeOK, Epochs
  <2>4. seen[epoch'] = NoCounters
    BY <2>2, <2>3, NewEpochUnseen
  <2>5. seen'[e] = IF e = epoch' /\ seen' # seen THEN CountersOf(revision', session') ELSE seen[e]
    BY <2>1 DEF FreshStart, ShowStart, Inv, TypeOK
  <2> QED
    BY <1>0, <2>4, <2>5, CountersOrder
<1>11. CASE StartRestored
  BY <1>11, RestoredRuns DEF ProjectInv
<1>12. CASE FinishStart
  <2>1. /\ phase # "down" /\ UNCHANGED <<revision, session>>
        /\ seen' = [seen EXCEPT ![epoch] = CountersOf(revision', session')]
    BY <1>12 DEF FinishStart
  <2> QED
    BY <1>0, <1>3, <2>1, ContinuesItself
<1> QED
  BY <1>4, <1>5, <1>6, <1>7, <1>8, <1>9, <1>10, <1>11, <1>12, Steps

-----------------------------------------------------------------------------
(* Every step keeps ConfirmedInv.                                          *)

\* The types that its comparisons need.
LEMMA ConfirmedTypes ==
  ASSUME Inv
  PROVE  /\ MaxRevision \in Nat /\ revision \in Nat /\ confirmed \in Nat /\ fileRevision \in Nat
         /\ persist.savedRevision \in Nat /\ persist.enabled \in BOOLEAN
         /\ store # None => store \in StateFile /\ store.revision \in Nat
         /\ captured # None => captured \in StateFile /\ captured.revision \in Nat
         /\ \A h \in Handlers : handler[h].revision \in Nat
BY SessionAssumption DEF Inv, TypeOK, PersistState, StateFile, HandlerState

\* A command that changes the network of the project file does it under a
\* revision that no file has yet.
LEMMA FileChange ==
  ASSUME Inv, ConfirmedInv, CommandRuns, NEW file, file.revision \in Nat,
         persist.enabled => file.revision <= revision, Matches(file, projectFile, fileRevision)
  PROVE  Matches(file, projectFile', fileRevision')
<1>1. CASE projectFile'.net = projectFile.net
  BY <1>1 DEF CommandRuns, Matches
<1>2. CASE projectFile'.net # projectFile.net /\ UseProjectFile
  <2>1. revision' = revision + 1
    BY <1>2 DEF CommandRuns, ConfirmedInv
  <2>2. fileRevision' = IF persist.enabled THEN revision + 1 ELSE MaxRevision + 1
    BY <1>2, <2>1 DEF CommandRuns
  <2> QED
    BY <2>2, ConfirmedTypes DEF Matches
<1> QED
  BY <1>1, <1>2 DEF Matches

\* A command keeps ConfirmedInv: what it confirms is not stored yet.
LEMMA CommandConfirmed ==
  ASSUME Inv, ConfirmedInv, CommandRuns
  PROVE  ConfirmedInv'
<1>1. /\ phase = "up" /\ revision < MaxRevision /\ revision' \in {revision, revision + 1}
      /\ UNCHANGED <<processVars, saveVars, confirmed, restores, store>>
      /\ \A x \in Clients : receipts'[x] = receipts[x] \/ receipts'[x].revision = revision'
      /\ \A h \in Handlers : handler'[h] = handler[h] \/ handler'[h].revision \in {0, revision'}
  BY DEF CommandRuns
<1>2. revision <= revision' /\ revision' <= MaxRevision /\ 0 <= MaxRevision
  BY <1>1, ConfirmedTypes
<1>3. \A c \in Clients : receipts'[c] # None => receipts'[c].revision <= MaxRevision
  BY <1>1, <1>2 DEF ConfirmedInv
<1>4. \A h \in Handlers : handler'[h].revision <= MaxRevision
  BY <1>1, <1>2 DEF ConfirmedInv
<1>5. store # None => Matches(store, projectFile', fileRevision')
  BY <1>1, ConfirmedTypes, FileChange DEF ConfirmedInv
<1>6. captured # None => captured.revision <= revision' /\ Matches(captured, projectFile', fileRevision')
  BY <1>1, ConfirmedTypes, FileChange DEF ConfirmedInv
<1>7. UseProjectFile => session'.project.net = projectFile'.net
  BY <1>1 DEF ConfirmedInv, CommandRuns
<1>8. persist.enabled /\ store # None => store.revision <= revision'
  BY <1>1, ConfirmedTypes DEF ConfirmedInv
<1> QED
  BY <1>1, <1>3, <1>4, <1>5, <1>6, <1>7, <1>8 DEF ConfirmedInv, processVars, saveVars

\* A reply confirms what the last successful save holds.
LEMMA HandlerConfirmed ==
  ASSUME Inv, ConfirmedInv, HandlerStep
  PROVE  ConfirmedInv'
<1>1. PICK h \in Handlers : NudgeSaver(h) \/ ReplyAfterSave(h)
  BY DEF HandlerStep
<1>2. /\ UNCHANGED <<starts, epoch, commandVars, captured, persist, cache, revision, session,
                     store, projectFile, seen, fileRevision, restores>>
      /\ phase = "up" /\ phase' = "up"
  BY QuietStep
<1>3. \A x \in Handlers : handler'[x].revision \in {0, handler[x].revision}
  BY <1>1 DEF NudgeSaver, ReplyAfterSave, Inv, TypeOK, HandlerState, IdleHandler
<1>4. \A x \in Handlers : handler'[x].revision <= MaxRevision
  BY <1>3, ConfirmedTypes DEF ConfirmedInv
<1>5. CASE NudgeSaver(h)
  <2>1. confirmed' = confirmed
    BY <1>5 DEF NudgeSaver, historyVars
  <2>2. ~persist.enabled => save' = save
    BY <1>5 DEF NudgeSaver
  <2> QED
    BY <1>2, <1>4, <2>1, <2>2 DEF ConfirmedInv, commandVars
<1>6. CASE ReplyAfterSave(h)
  <2>1. /\ save' = save
        /\ confirmed' = IF persist.savedRevision >= handler[h].revision /\ handler[h].revision > confirmed
                        THEN handler[h].revision ELSE confirmed
    BY <1>6 DEF ReplyAfterSave, StateSaved, saveVars
  <2>2. CASE confirmed' = confirmed
    BY <1>2, <1>4, <2>1, <2>2 DEF ConfirmedInv, commandVars
  <2>3. CASE confirmed' # confirmed
    <3>1. /\ confirmed' <= persist.savedRevision /\ persist.savedRevision # 0
          /\ confirmed' <= MaxRevision /\ confirmed' \in Nat
      BY <2>1, <2>3, ConfirmedTypes DEF ConfirmedInv
    <3>2. store # None /\ confirmed' <= store.revision
      BY <3>1, ConfirmedTypes DEF ConfirmedInv
    <3>3. captured # None => confirmed' <= captured.revision
      BY <3>1, ConfirmedTypes DEF ConfirmedInv
    <3> QED
      BY <1>2, <1>4, <2>1, <3>1, <3>2, <3>3 DEF ConfirmedInv, commandVars
  <2> QED
    BY <2>2, <2>3
<1> QED
  BY <1>1, <1>5, <1>6

\* The savers run only in a process that saves.
LEMMA SaverConfirmed ==
  ASSUME Inv, ConfirmedInv, SaverStep \/ Close
  PROVE  ConfirmedInv'
<1>1. /\ UNCHANGED <<starts, epoch, commandVars, captured, persist, cache, revision, session,
                     store, projectFile, seen, fileRevision, restores>>
      /\ phase = "up" /\ phase' = "up"
  BY QuietStep
<1>2. UNCHANGED <<confirmed, handler>> /\ (save' = save \/ persist.enabled)
  BY DEF SaverStep, TakeNudge, SavePeriodic, SaveFinal, SaverRuns, Close, saveVars, historyVars
<1> QED
  BY <1>1, <1>2 DEF ConfirmedInv, commandVars

\* A save copies the revision and the project of the session.
LEMMA BeginConfirmed ==
  ASSUME Inv, ConfirmedInv, NEW w \in Savers, BeginSave(w)
  PROVE  ConfirmedInv'
<1>1. /\ phase = "up" /\ save[w] # "idle"
      /\ UNCHANGED <<processVars, commandVars, saver, persist, cache, historyVars, revision, session,
                     handler, store, projectFile>>
      /\ captured' = captured \/ captured' = CaptureState(Kind(w))
  BY BeginRuns
<1>2. persist.enabled
  BY <1>1, ConfirmedTypes DEF ConfirmedInv
<1>3. ASSUME captured' # None
      PROVE  /\ confirmed <= captured'.revision /\ persist.savedRevision <= captured'.revision
             /\ captured'.revision <= revision /\ Matches(captured', projectFile, fileRevision)
  <2>1. CASE captured' = captured
    BY <1>3, <2>1 DEF ConfirmedInv
  <2>2. CASE captured' = CaptureState(Kind(w))
    <3>1. captured'.revision = revision /\ captured'.project = session.project
      BY <2>2 DEF CaptureState
    <3>2. confirmed <= revision /\ persist.savedRevision <= revision
      BY <1>1, <1>2, ConfirmedTypes DEF ConfirmedInv
    <3>3. Matches(captured', projectFile, fileRevision)
      BY <1>1, <3>1 DEF Matches, ConfirmedInv
    <3> QED
      BY <3>1, <3>2, <3>3, ConfirmedTypes
  <2> QED
    BY <1>1, <2>1, <2>2
<1> QED
  BY <1>1, <1>2, <1>3 DEF ConfirmedInv, processVars, commandVars, historyVars

\* A save puts at least what is confirmed in the store.
LEMMA SaveConfirmed ==
  ASSUME Inv, ProjectInv, ConfirmedInv, SaveEnds
  PROVE  ConfirmedInv'
<1>1. /\ captured # None /\ captured' = None /\ phase = "up" /\ persist'.enabled = persist.enabled
      /\ UNCHANGED <<processVars, commandVars, confirmed, fileRevision, revision, session, handler, projectFile>>
      /\ \A w \in Savers : save'[w] \in {save[w], "idle"}
      /\ \/ store' = store /\ persist'.savedRevision = persist.savedRevision
         \/ store' = captured /\ persist'.savedRevision \in {persist.savedRevision, captured.revision}
  BY EncodedFile DEF SaveEnds
<1>2. CASE store' = store /\ persist'.savedRevision = persist.savedRevision
  BY <1>1, <1>2 DEF ConfirmedInv, processVars, commandVars
<1>3. CASE store' = captured /\ persist'.savedRevision \in {persist.savedRevision, captured.revision}
  <2>1. persist'.savedRevision <= captured.revision
    BY <1>1, <1>3, ConfirmedTypes DEF ConfirmedInv
  <2>2. /\ confirmed <= captured.revision /\ captured.revision <= revision
        /\ Matches(captured, projectFile, fileRevision)
    BY <1>1 DEF ConfirmedInv
  <2> QED
    BY <1>1, <1>3, <2>1, <2>2 DEF ConfirmedInv, processVars, commandVars
<1> QED
  BY <1>1, <1>2, <1>3

\* The end of a process and the starts.
LEMMA EndConfirmed ==
  ASSUME Inv, ConfirmedInv, Stop \/ FailStart
  PROVE  ConfirmedInv'
<1>1. /\ LoseMemory(store')
      /\ UNCHANGED <<starts, confirmed, fileRevision, restores, projectFile>>
      /\ store' = store \/ (captured # None /\ store' = captured)
  BY EndRuns
<1>2. /\ phase' = "down" /\ captured' = None
      /\ receipts' = [c \in Clients |-> None] /\ handler' = [h \in Handlers |-> IdleHandler]
      /\ save' = [w \in Savers |-> "idle"] /\ persist' = NewPersistence
  BY <1>1 DEF LoseMemory
<1>3. /\ persist'.savedRevision = 0 /\ persist'.enabled
      /\ \A h \in Handlers : handler'[h].revision <= MaxRevision
  BY <1>2, ConfirmedTypes DEF NewPersistence, IdleHandler
<1>4. /\ store' = None => confirmed = 0
      /\ store' # None => confirmed <= store'.revision /\ Matches(store', projectFile, fileRevision)
  BY <1>1 DEF ConfirmedInv
<1> QED
  BY <1>1, <1>2, <1>3, <1>4 DEF ConfirmedInv

\* A fresh start keeps ConfirmedInv.
LEMMA FreshConfirmed ==
  ASSUME Inv, ConfirmedInv, NEW p \in Project, FreshStart(p)
  PROVE  ConfirmedInv'
<1>1. /\ phase = "down" /\ receipts' = [c \in Clients |-> None] /\ UNCHANGED <<save, handler, projectFile>>
      /\ persist'.savedRevision = 0
      /\ UseProjectFile => p = projectFile
      /\ session' = StartProject(p) /\ revision' = 0
  BY DEF FreshStart, FreshSession
<1>2. session'.project = p
  BY <1>1, StartSound
<1>3. \A w \in Savers : save[w] = "idle"
  BY <1>1 DEF ConfirmedInv
<1>4. CASE /\ phase' = "starting" /\ persist'.enabled /\ captured' = StartupFile(0) /\ store' = None
           /\ confirmed' = 0 /\ fileRevision' = 0
  <2>1. captured'.revision = 0 /\ captured'.project = p
    BY <1>1, <1>2, <1>4 DEF StartupFile
  <2>2. Matches(captured', projectFile, fileRevision')
    BY <1>1, <2>1 DEF Matches
  <2> QED
    BY <1>1, <1>2, <1>3, <1>4, <2>1, <2>2, ConfirmedTypes DEF ConfirmedInv
<1>5. CASE phase' = "up" /\ ~persist'.enabled /\ UNCHANGED <<captured, confirmed, fileRevision, restores, store>>
  <2>1. captured = None
    BY <1>1 DEF Inv, SaveInv
  <2> QED
    BY <1>1, <1>2, <1>3, <1>5, <2>1 DEF ConfirmedInv
<1> QED
  BY <1>4, <1>5 DEF FreshStart

\* A restore keeps ConfirmedInv: it takes the project of the stored state.
LEMMA RestoredConfirmed ==
  ASSUME Inv, ProjectInv, ConfirmedInv, StartRestored
  PROVE  ConfirmedInv'
<1>1. /\ store # None /\ phase = "down" /\ phase' = "starting" /\ revision' = store.revision + 1
      /\ UseProjectFile => session'.project.net = projectFile.net /\ store.project.net = projectFile.net
      /\ captured' = StartupFile(store.attempts + 1)
      /\ receipts' = [c \in Clients |-> None]
      /\ persist'.enabled /\ persist'.savedRevision = 0 /\ fileRevision' = 0
      /\ UNCHANGED <<confirmed, store, save, handler, projectFile>>
  BY RestoredRuns DEF ProjectInv
<1>2. captured'.revision = revision' /\ captured'.project = session'.project
  BY <1>1 DEF StartupFile
<1>3. store.revision \in Nat /\ store.revision <= revision' /\ revision' \in Nat
  BY <1>1, ConfirmedTypes
<1>4. Matches(store, projectFile, fileRevision') /\ Matches(captured', projectFile, fileRevision')
  BY <1>1, <1>2 DEF Matches
<1>5. \A w \in Savers : save[w] = "idle"
  BY <1>1 DEF ConfirmedInv
<1>6. confirmed <= revision'
  BY <1>1, <1>3, ConfirmedTypes DEF ConfirmedInv
<1> QED
  BY <1>1, <1>2, <1>3, <1>4, <1>5, <1>6 DEF ConfirmedInv

\* Every step keeps ConfirmedInv.
LEMMA ConfirmedStep ==
  ASSUME Inv, ProjectInv, ConfirmedInv, Next
  PROVE  ConfirmedInv'
<1>0. Sound(session)
  BY DEF ProjectInv
<1>1. CASE Deliver
  <2>1. CASE CommandReplays
    <3>1. \A h \in Handlers : handler'[h].revision <= MaxRevision
      BY <2>1, ConfirmedTypes DEF CommandReplays, ConfirmedInv
    <3> QED
      BY <2>1, <3>1 DEF CommandReplays, ConfirmedInv, processVars, commandVars, saveVars, historyVars
  <2> QED
    BY <1>0, <1>1, <2>1, DeliverRuns, CommandConfirmed
<1>2. CASE Tick
  <2>1. /\ revision' = revision + 1 /\ session'.project = session.project
        /\ UNCHANGED <<processVars, commandVars, saveVars, confirmed, fileRevision, handler, store, projectFile>>
    BY <1>0, <1>2, TickRuns
  <2>2. /\ captured # None => captured.revision <= revision'
        /\ phase # "down" /\ persist.enabled /\ store # None => store.revision <= revision'
    BY <2>1, ConfirmedTypes DEF ConfirmedInv
  <2> QED
    BY <2>1, <2>2 DEF ConfirmedInv, processVars, commandVars, saveVars
<1>3. CASE HandlerStep
  BY <1>3, HandlerConfirmed
<1>4. CASE SaverStep \/ Close
  BY <1>4, SaverConfirmed
<1>5. CASE \E w \in Savers : BeginSave(w)
  BY <1>5, BeginConfirmed
<1>6. CASE \E w \in Savers : FinishSave(w) \/ FailSave(w)
  BY <1>6, SaveRuns, SaveConfirmed
<1>7. CASE Stop \/ FailStart
  BY <1>7, EndConfirmed
<1>8. CASE StartNew \/ StartUnreadable \/ StartRejected
  BY <1>8, FreshRuns, FreshConfirmed
<1>9. CASE StartRestored
  BY <1>9, RestoredConfirmed
<1>10. CASE FinishStart
  <2>1. /\ phase = "starting" /\ phase' = "up" /\ captured # None /\ captured' = None /\ store' = captured
        /\ UNCHANGED <<receipts, save, confirmed, fileRevision, revision, session, handler, projectFile>>
        /\ persist'.savedRevision = captured.revision /\ persist'.enabled = persist.enabled
    BY <1>10 DEF FinishStart, commandVars, Inv, SaveInv, TypeOK, PersistState
  <2> QED
    BY <2>1, ConfirmedTypes DEF ConfirmedInv
<1> QED
  BY <1>1, <1>2, <1>3, <1>4, <1>5, <1>6, <1>7, <1>8, <1>9, <1>10, Steps

-----------------------------------------------------------------------------
(* Every step keeps RestoreInv.                                            *)

\* Every step keeps RestoreInv.
LEMMA RestoreStep ==
  ASSUME Inv, ProjectInv, RestoreInv, Next
  PROVE  RestoreInv'
<1>0. /\ Sound(session) /\ restores \in Nat
      /\ store # None => store.attempts \in Nat
      /\ captured # None => captured.attempts \in Nat
  BY DEF ProjectInv, Inv, TypeOK, StateFile
<1>1. CASE UNCHANGED <<phase, captured, restores, store>>
  BY <1>1 DEF RestoreInv
<1>2. CASE Deliver
  BY <1>0, <1>1, <1>2, DeliverRuns DEF CommandRuns, CommandReplays, processVars, saveVars, historyVars
<1>3. CASE Tick
  BY <1>0, <1>1, <1>3, TickRuns DEF processVars, saveVars
<1>4. CASE HandlerStep \/ SaverStep \/ Close
  BY <1>1, <1>4, QuietStep
<1>5. CASE \E w \in Savers : BeginSave(w)
  <2>1. phase' = "up" /\ UNCHANGED <<restores, store>>
    BY <1>5, BeginRuns DEF processVars, historyVars
  <2> QED
    BY <2>1 DEF RestoreInv
<1>6. CASE \E w \in Savers : FinishSave(w) \/ FailSave(w)
  <2>1. /\ phase' = "up" /\ captured # None
        /\ \/ store' = store /\ restores' = restores
           \/ store' = captured /\ restores' = 0
    BY <1>6, SaveRuns, EncodedFile DEF SaveEnds, processVars
  <2> QED
    BY <1>0, <2>1 DEF RestoreInv, RestoreLoopAttempts
<1>7. CASE Stop \/ FailStart
  <2>1. /\ phase' = "down" /\ restores' = restores
        /\ store' = store \/ (phase = "starting" /\ captured # None /\ store' = captured)
    BY <1>7, EndRuns DEF LoseMemory
  <2>2. phase = "starting" /\ captured # None => restores <= captured.attempts
    BY <1>0 DEF RestoreInv
  <2> QED
    BY <2>1, <2>2 DEF RestoreInv
<1>8. CASE StartNew \/ StartUnreadable \/ StartRejected
  <2>1. PICK p \in Project : FreshStart(p)
    BY <1>8, FreshRuns
  <2>2. StartupFile(0).attempts = 0
    BY DEF StartupFile
  <2>3. \/ phase' = "starting" /\ captured' = StartupFile(0) /\ store' = None /\ restores' = 0
        \/ phase' = "up" /\ UNCHANGED <<restores, store>>
    BY <2>1 DEF FreshStart
  <2> QED
    BY <2>2, <2>3 DEF RestoreInv, RestoreLoopAttempts
<1>9. CASE StartRestored
  <2>1. /\ store # None /\ store.attempts < RestoreLoopAttempts /\ phase' = "starting"
        /\ captured' = StartupFile(store.attempts + 1) /\ UNCHANGED <<restores, store>>
    BY <1>9, RestoredRuns DEF ProjectInv
  <2>2. captured'.attempts = store.attempts + 1
    BY <2>1 DEF StartupFile
  <2> QED
    BY <1>0, <2>1, <2>2 DEF RestoreInv, RestoreLoopAttempts
<1>10. CASE FinishStart
  <2>1. /\ phase = "starting" /\ phase' = "up" /\ captured # None /\ store' = captured
        /\ restores' = IF captured.attempts = 0 THEN 0 ELSE restores + 1
    BY <1>10 DEF FinishStart, Inv, SaveInv
  <2>2. restores' <= captured.attempts /\ captured.attempts <= RestoreLoopAttempts /\ restores' \in Nat
    BY <1>0, <2>1 DEF RestoreInv
  <2> QED
    BY <1>0, <2>1, <2>2 DEF RestoreInv, RestoreLoopAttempts
<1> QED
  BY <1>2, <1>3, <1>4, <1>5, <1>6, <1>7, <1>8, <1>9, <1>10, Steps

-----------------------------------------------------------------------------
(* Every step keeps the bound of the known clients.                        *)

\* No client is known: the bound holds.
LEMMA NobodyKnown ==
  ASSUME \A c \in Clients : ~HasReceipt(c) /\ restored[c] = 0
  PROVE  ClientsAccounted
<1>1. KnownClients = {}
  BY DEF KnownClients
<1>2. Cardinality({}) = 0
  BY FS_EmptySet
<1> QED
  BY <1>1, <1>2, SessionAssumption DEF ClientsAccounted

\* applyCommand adds a client only below the limit, and moves a restored one
\* to the receipts.
LEMMA ApplyClients ==
  ASSUME Inv, ClientsAccounted, NEW h \in Handlers, NEW c \in Clients, NEW n \in Sequences1, NEW e,
         NEW b \in Body, ApplyCommand(h, c, n, e, b)
  PROVE  ClientsAccounted'
<1>1. PICK o \in Outcomes(session, b) :
        /\ receipts' = [receipts EXCEPT ![c] =
                          [sequence |-> n, digest |-> b, revision |-> revision', code |-> o.code,
                           saveState |-> o.saveState]]
        /\ restored' = [restored EXCEPT ![c] = 0]
        /\ revision' \in {revision, revision + 1}
  BY DEF ApplyCommand
<1>2. [sequence |-> n, digest |-> b, revision |-> revision', code |-> o.code, saveState |-> o.saveState] # None
  <2>1. o \in OutcomeType
    BY OutcomesType DEF Inv, TypeOK
  <2>2. o.code \in Codes /\ o.saveState \in BOOLEAN /\ revision' \in Nat
    BY <1>1, <2>1 DEF OutcomeType, Inv, TypeOK
  <2>3. [sequence |-> n, digest |-> b, revision |-> revision', code |-> o.code, saveState |-> o.saveState] \in Receipt
    BY <2>2 DEF Receipt
  <2> QED
    BY <2>3, NoneAssumption
<1>3. /\ receipts'[c] # None /\ restored'[c] = 0
      /\ \A x \in Clients : x # c => receipts'[x] = receipts[x] /\ restored'[x] = restored[x]
  BY <1>1, <1>2 DEF Inv, TypeOK
<1>4. KnownClients' = KnownClients \cup {c}
  BY <1>3 DEF KnownClients, HasReceipt
<1>5. c \in KnownClients \/ Cardinality(KnownClients) < ClientLimit
  <2>1. ~OverLimit(c)
    BY SMT DEF ApplyCommand, Decision
  <2>2. IsFiniteSet(KnownClients)
    BY FiniteAssumption, FS_Subset DEF KnownClients
  <2>3. Cardinality(KnownClients) \in Nat
    BY <2>2, FS_CardinalityType
  <2> QED
    BY <2>1, <2>3, SessionAssumption DEF OverLimit
<1>6. IsFiniteSet(KnownClients)
  BY FiniteAssumption, FS_Subset DEF KnownClients
<1>7. Cardinality(KnownClients \cup {c}) <= ClientLimit
  <2>1. CASE c \in KnownClients
    <3>1. KnownClients \cup {c} = KnownClients
      BY <2>1
    <3> QED
      BY <3>1 DEF ClientsAccounted
  <2>2. CASE c \notin KnownClients
    <3>1. Cardinality(KnownClients \cup {c}) = Cardinality(KnownClients) + 1 /\ Cardinality(KnownClients) \in Nat
      BY <1>6, <2>2, FS_AddElement, FS_CardinalityType
    <3> QED
      BY <1>5, <2>2, <3>1, SessionAssumption
  <2> QED
    BY <2>1, <2>2
<1>8. \A x \in Clients : receipts'[x] # None => restored'[x] = 0
  BY <1>3 DEF ClientsAccounted, HasReceipt
<1> QED
  BY <1>4, <1>7, <1>8 DEF ClientsAccounted, HasReceipt

\* Every step keeps the count of clients.
LEMMA ClientsStep ==
  ASSUME Inv, ProjectInv, ClientsAccounted, Next
  PROVE  ClientsAccounted'
<1>0. Sound(session)
  BY DEF ProjectInv
<1>1. CASE UNCHANGED <<receipts, restored>>
  BY <1>1 DEF ClientsAccounted, KnownClients, HasReceipt
<1>2. CASE \A c \in Clients : receipts'[c] = None /\ restored'[c] = 0
  <2>1. \A c \in Clients : (~HasReceipt(c))' /\ restored'[c] = 0
    BY <1>2 DEF HasReceipt
  <2>2. KnownClients' = {}
    BY <2>1 DEF KnownClients
  <2>3. Cardinality({}) = 0
    BY FS_EmptySet
  <2> QED
    BY <2>1, <2>2, <2>3, SessionAssumption DEF ClientsAccounted
<1>3. CASE Deliver
  <2>1. PICK h \in Handlers, c \in Clients, n \in Sequences1, e \in 1 .. starts :
          /\ phase = "up" /\ IdleFor(h)
          /\ \E b \in Bodies \cup LastBody(c) : ReplayCommand(h, c, n, e, b) \/ ApplyCommand(h, c, n, e, b)
    BY <1>3 DEF Deliver
  <2>2. PICK b \in Bodies \cup LastBody(c) : ReplayCommand(h, c, n, e, b) \/ ApplyCommand(h, c, n, e, b)
    BY <2>1
  <2>3. b \in Body
    <3>1. LastBody(c) \subseteq Body
      BY DEF LastBody, HasReceipt, Inv, TypeOK, Receipt
    <3>2. session \in SessionValue /\ starts \in Nat \ {0}
      BY <2>1 DEF Inv, SaveInv, TypeOK
    <3> QED
      BY <3>1, <3>2, BodiesType
  <2>4. CASE ReplayCommand(h, c, n, e, b)
    BY <1>1, <2>4 DEF ReplayCommand, commandVars
  <2> QED
    BY <2>2, <2>3, <2>4, ApplyClients
<1>4. CASE Tick
  BY <1>0, <1>1, <1>4, TickRuns DEF commandVars
<1>5. CASE HandlerStep \/ SaverStep \/ Close
  BY <1>1, <1>5, QuietStep DEF commandVars
<1>6. CASE \E w \in Savers : BeginSave(w)
  BY <1>1, <1>6, BeginRuns DEF commandVars
<1>7. CASE \E w \in Savers : FinishSave(w) \/ FailSave(w)
  BY <1>1, <1>7, SaveRuns DEF SaveEnds, commandVars
<1>8. CASE Stop \/ FailStart
  <2>1. receipts' = [c \in Clients |-> None] /\ restored' = [c \in Clients |-> 0]
    BY <1>8, EndRuns DEF LoseMemory
  <2> QED
    BY <1>2, <2>1
<1>9. CASE StartNew \/ StartUnreadable \/ StartRejected
  <2>1. receipts' = [c \in Clients |-> None] /\ restored' = [c \in Clients |-> 0]
    BY <1>9, FreshRuns DEF FreshStart, FreshSession
  <2> QED
    BY <1>2, <2>1
<1>10. CASE StartRestored
  <2>1. /\ receipts' = [c \in Clients |-> None]
        /\ restored' = IF KeepEpoch THEN store.sequences ELSE [c \in Clients |-> 0]
    BY <1>10 DEF StartRestored, NewProcess
  <2>2. CASE ~KeepEpoch
    BY <1>2, <2>1, <2>2
  <2>3. CASE KeepEpoch
    <3>1. \A c \in Clients : receipts'[c] = None
      BY <2>1
    <3>2. KnownClients' = SavedClients
      BY <2>1, <2>3, <3>1 DEF KnownClients, HasReceipt, SavedClients
    <3>3. IsFiniteSet(SavedClients)
      BY FiniteAssumption, FS_Subset DEF SavedClients
    <3>4. Cardinality(SavedClients) \in Nat /\ Cardinality(SavedClients) < ClientLimit
      BY <2>3, <3>3, FS_CardinalityType DEF KeepEpoch
    <3>5. Cardinality(SavedClients) <= ClientLimit
      BY <3>4, SessionAssumption
    <3> QED
      BY <3>1, <3>2, <3>5 DEF ClientsAccounted, HasReceipt
  <2> QED
    BY <2>2, <2>3
<1>11. CASE FinishStart
  BY <1>1, <1>11 DEF FinishStart, commandVars
<1> QED
  BY <1>3, <1>4, <1>5, <1>6, <1>7, <1>8, <1>9, <1>10, <1>11, Steps

-----------------------------------------------------------------------------
(* The theorems.                                                           *)

AllInv == Inv /\ ProjectInv /\ SeenInv /\ ConfirmedInv /\ RestoreInv /\ ClientsAccounted

\* Nothing is saved, seen or confirmed before the first start.
LEMMA InitAll == Init => AllInv
<1> SUFFICES ASSUME Init PROVE AllInv
  OBVIOUS
<1>1. Inv
  BY InitInv
<1>2. /\ phase = "down" /\ store = None /\ captured = None /\ starts = 0
      /\ session = StartProject(DefaultProject) /\ cache = EmptyCache /\ persist = NewPersistence
      /\ receipts = [c \in Clients |-> None] /\ restored = [c \in Clients |-> 0]
      /\ handler = [h \in Handlers |-> IdleHandler] /\ save = [w \in Savers |-> "idle"]
      /\ seen = [e \in Epochs |-> NoCounters] /\ confirmed = 0 /\ restores = 0
  BY DEF Init, NoMemory
<1>3. ProjectInv
  BY <1>2, StartSound, ProjectAssumption DEF ProjectInv, EmptyCache
<1>4. SeenInv
  BY <1>2 DEF SeenInv
<1>5. ConfirmedInv
  <2>1. persist.savedRevision = 0 /\ persist.enabled
    BY <1>2 DEF NewPersistence
  <2>2. \A h \in Handlers : handler[h].revision = 0
    BY <1>2 DEF IdleHandler
  <2> QED
    BY <1>2, <2>1, <2>2, SessionAssumption DEF ConfirmedInv
<1>6. RestoreInv
  BY <1>2 DEF RestoreInv, RestoreLoopAttempts
<1>7. ClientsAccounted
  BY <1>2, NobodyKnown DEF HasReceipt
<1> QED
  BY <1>1, <1>3, <1>4, <1>5, <1>6, <1>7 DEF AllInv

\* The parts together are inductive.
LEMMA StepAll == AllInv /\ Inv' /\ [Next]_vars => AllInv'
<1> SUFFICES ASSUME AllInv, Inv', [Next]_vars PROVE AllInv'
  OBVIOUS
<1>1. CASE Next
  BY <1>1, ProjectStep, SeenStep, ConfirmedStep, RestoreStep, ClientsStep DEF AllInv, Inv
<1>2. CASE UNCHANGED vars
  <2>1. ProjectInv' /\ SeenInv' /\ RestoreInv'
    BY <1>2 DEF AllInv, ProjectInv, SeenInv, RestoreInv, vars, processVars, commandVars, saveVars, historyVars
  <2>2. ConfirmedInv'
    BY <1>2 DEF AllInv, ConfirmedInv, vars, processVars, commandVars, saveVars, historyVars
  <2>3. ClientsAccounted'
    BY <1>2 DEF AllInv, ClientsAccounted, KnownClients, HasReceipt, vars, commandVars
  <2> QED
    BY <2>1, <2>2, <2>3 DEF AllInv
<1> QED
  BY <1>1, <1>2

\* They hold in every reachable state.
LEMMA AllHolds == Spec => []AllInv
<1>1. Init => AllInv
  BY InitAll
<1>2. AllInv /\ Inv' /\ [Next]_vars => AllInv'
  BY StepAll
<1> QED
  BY <1>1, <1>2, Invariance, PTL DEF Spec

\* applyDemand, applyProject, rewind, reset, the demo and restoreSimulation:
\* the simulation always runs the current project, but for the weights of the
\* demo.
THEOREM SimulationFollowsProject == Spec => []SimulationRunsProject
<1>1. AllInv => SimulationRunsProject
  <2> SUFFICES ASSUME AllInv PROVE SimulationRunsProject
    OBVIOUS
  <2>1. session \in SessionValue /\ FollowsProject(session.sim, session.project)
    BY DEF AllInv, Inv, TypeOK, ProjectInv, Sound
  <2>2. session.sim.project \in Project /\ session.project.demand \in Demands /\ session.sim.demo \in BOOLEAN
    BY <2>1 DEF SessionValue, Simulation, Project
  <2>3. [session.sim.project EXCEPT !.demand = session.project.demand].net = session.sim.project.net
    BY <2>2, ProjectParts
  <2> QED
    BY <2>1, <2>2, <2>3 DEF SimulationRunsProject, FollowsProject
<1> QED
  BY <1>1, AllHolds, PTL

\* encodeCaptured: the project that the encoder keeps for an epoch and a
\* project revision is the project of the copy it encodes, through every
\* demand change, project apply, rewind and restore, and a saved fleet belongs
\* to the saved project.
THEOREM SavedProjectsAreCaptured == Spec => []SavedProjectIsCaptured
<1>1. AllInv => SavedProjectIsCaptured
  <2> SUFFICES ASSUME AllInv PROVE SavedProjectIsCaptured
    OBVIOUS
  <2>1. captured # None => Encoded(captured).project = captured.project
    BY EncodedFile DEF AllInv
  <2>2. store # None /\ ~store.sim.demo => store.sim.project = store.project
    BY DEF AllInv, ProjectInv, FollowsProject
  <2> QED
    BY <2>1, <2>2 DEF SavedProjectIsCaptured
<1> QED
  BY <1>1, AllHolds, PTL

\* A reply with stateSaved true (saveBeforeReply): whatever saves fail, wait
\* and race with commands, the state in the store is at that revision or
\* later, and the next start with -project takes it.
THEOREM ConfirmedChangesSurvive == Spec => []ConfirmedChangeSurvives
<1>1. AllInv => ConfirmedChangeSurvives
  <2> SUFFICES ASSUME AllInv, store # None
               PROVE  /\ store.revision >= confirmed
                      /\ confirmed >= fileRevision => ProjectMatches
    BY DEF ConfirmedChangeSurvives
  <2>1. /\ confirmed <= store.revision /\ Matches(store, projectFile, fileRevision)
        /\ confirmed <= MaxRevision
        /\ confirmed \in Nat /\ fileRevision \in Nat /\ store.revision \in Nat /\ MaxRevision \in Nat
    BY ConfirmedTypes DEF AllInv, ConfirmedInv
  <2> QED
    BY <2>1 DEF Matches, ProjectMatches
<1> QED
  BY <1>1, AllHolds, PTL

\* NewFromStore counts the attempts in the state file before it serves: a
\* state is restored at most twice without a save between.
THEOREM RestoresBounded == Spec => []RestoreLoopBounded
<1>1. AllInv => RestoreLoopBounded
  BY DEF AllInv, RestoreInv, RestoreLoopBounded
<1> QED
  BY <1>1, AllHolds, PTL

\* receipts and restoredSequences: each client is recorded once, and never
\* more than clientLimit of them, also after a restart.
THEOREM ClientsStayAccounted == Spec => []ClientsAccounted
<1>1. AllInv => ClientsAccounted
  BY DEF AllInv
<1> QED
  BY <1>1, AllHolds, PTL

\* installRestored keeps an epoch only after a final save: the counters that
\* clients saw of an epoch never go back, for any number of starts.
THEOREM EpochCountersGrow == Spec => EpochCountersNeverGoBack
<1>1. AllInv /\ Inv' /\ [Next]_vars
        => [phase' = "up" => \A e \in DOMAIN seen : \A f \in DOMAIN seen[e] : seen'[e][f] >= seen[e][f]]_vars
  <2> SUFFICES ASSUME AllInv, Inv', Next, phase' = "up", NEW e \in DOMAIN seen, NEW f \in DOMAIN seen[e]
               PROVE  seen'[e][f] >= seen[e][f]
    OBVIOUS
  <2>1. e \in Epochs /\ seen[e] \in Counters
    BY DEF AllInv, Inv, TypeOK
  <2>2. AtMost(seen[e], seen'[e])
    BY <2>1, SeenGrows DEF AllInv
  <2>3. f \in {"revision", "projectRevision", "generation", "lastCheckpoint"}
    BY <2>1 DEF Counters
  <2> QED
    BY <2>2, <2>3 DEF AtMost
<1> QED
  BY <1>1, AllHolds, Invariance, PTL DEF Spec, EpochCountersNeverGoBack
=============================================================================
