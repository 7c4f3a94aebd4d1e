------------------------------ MODULE Session ------------------------------
(***************************************************************************)
(* The shared session of internal/session across the lives of its server   *)
(* process: commands with receipts, the project file, the state saves and  *)
(* the restore at the next start.                                          *)
(*                                                                         *)
(* Senders are arbitrary: at any time any client may deliver any command   *)
(* with any sequence and any epoch that some server process has shown, so  *)
(* every loss, duplication, delay and reordering on the way is a behaviour *)
(* of this model.  One step is what the code does under Session.mu; what   *)
(* it does without the lock (the nudge of the saver, the wait for          *)
(* persistence.mu, the write of the state) are steps of their own.         *)
(***************************************************************************)
EXTENDS SessionCommands, FiniteSets

CONSTANTS
  Clients,      \* client IDs
  Handlers,     \* goroutines that run Apply for an HTTP request
  Actions,      \* the actions that clients send
  ClientLimit,  \* clientLimit, 1024 in the code
  MaxSequence,  \* bound on client sequences
  MaxRevision,  \* bound on the revisions that commands make
  MaxTick,      \* bound on the revisions that the clock makes
  MaxStarts,    \* bound on server processes
  None

\* Restores without a save that stop the next restore.
RestoreLoopAttempts == 2

Saver == "saver"
Final == "final"
Savers == Handlers \cup {Saver, Final}

ASSUME SessionAssumption ==
  /\ Actions \subseteq ActionNames
  /\ ClientLimit \in Nat /\ MaxSequence \in Nat /\ MaxRevision \in Nat /\ MaxTick \in Nat /\ MaxStarts \in Nat
  /\ Saver \notin Handlers /\ Final \notin Handlers
ASSUME FiniteAssumption == IsFiniteSet(Clients)

VARIABLES
  phase,        \* "down", "starting" (the startup save runs) or "up"
  closed,       \* Session.closed
  starts,       \* the number of processes so far; its value is serverStart
  epoch,        \* Session.epoch: the start that made it
  revision,     \* Session.revision
  session,      \* the fields that commands change (SessionValue)
  receipts,     \* the last receipt of each client, or None
  restored,     \* restoredSequences, 0 when absent
  handler,      \* what each Apply call still has to do
  save,         \* where each caller of SaveState is
  captured,     \* the copy that the holder of persistence.mu writes
  saver,        \* RunStateSaver: its nudge channel and its pending timer
  persist,      \* the other fields of the persistence struct
  cache,        \* the project of the state encoder, with its key
  store,        \* the saved state, or None
  projectFile,  \* the file of -project
  runs,         \* history: how often each (epoch, client, sequence) ran
  seen,         \* history: the last counters that each epoch showed
  confirmed,    \* history: the highest revision replied with stateSaved true
  fileRevision, \* history: the revision that last changed the project file
  restores      \* history: restored starts since the last save

processVars == <<phase, closed, starts, epoch>>
commandVars == <<receipts, restored, runs>>
saveVars == <<save, captured, saver, persist, cache>>
historyVars == <<seen, confirmed, fileRevision, restores>>
vars == <<processVars, commandVars, saveVars, historyVars,
          revision, session, handler, store, projectFile>>

-----------------------------------------------------------------------------
(* Types.                                                                  *)

Sequences1 == 1 .. MaxSequence
Sequences0 == 0 .. MaxSequence
Epochs == 1 .. MaxStarts

Receipt ==
  [sequence : Sequences1, digest : Body, revision : Nat, code : Codes, saveState : BOOLEAN]

StateFile ==
  [final : BOOLEAN, epoch : Epochs, revision : Nat, sequences : [Clients -> Sequences0],
   attempts : Nat, project : Project, projectRevision : Nat \ {0}, generation : Nat,
   lastCheckpoint : Nat, sim : Simulation]

ASSUME NoneAssumption == None \notin Project /\ None \notin Receipt /\ None \notin StateFile

\* pc "nudge": the lock is released and the saver is not nudged yet;
\* pc "wait": saveBeforeReply waits.
HandlerState ==
  [pc : {"idle", "nudge", "wait"}, revision : Nat, changed : BOOLEAN, saveState : BOOLEAN]

IdleHandler == [pc |-> "idle", revision |-> 0, changed |-> FALSE, saveState |-> FALSE]

PersistState ==
  [enabled : BOOLEAN, saved : BOOLEAN, lastRevision : Nat, savedRevision : Nat,
   failing : BOOLEAN, finalDone : BOOLEAN]

\* The counters that state frames show.
Counters == [revision : Nat, projectRevision : Nat, generation : Nat, lastCheckpoint : Nat]

NoCounters == [revision |-> 0, projectRevision |-> 0, generation |-> 0, lastCheckpoint |-> 0]

CountersOf(r, s) ==
  [revision |-> r, projectRevision |-> s.projectRevision, generation |-> s.generation,
   lastCheckpoint |-> s.lastCheckpoint]

NewPersistence ==
  [enabled |-> TRUE, saved |-> FALSE, lastRevision |-> 0, savedRevision |-> 0,
   failing |-> FALSE, finalDone |-> FALSE]

CacheState == [valid : BOOLEAN, epoch : Nat, projectRevision : Nat, project : Project]

EmptyCache == [valid |-> FALSE, epoch |-> 0, projectRevision |-> 0, project |-> DefaultProject]

TypeOK ==
  /\ phase \in {"down", "starting", "up"}
  /\ closed \in BOOLEAN
  /\ starts \in 0 .. MaxStarts
  /\ epoch \in 0 .. MaxStarts
  /\ revision \in Nat
  /\ session \in SessionValue
  /\ receipts \in [Clients -> Receipt \cup {None}]
  /\ restored \in [Clients -> Sequences0]
  /\ handler \in [Handlers -> HandlerState]
  /\ save \in [Savers -> {"idle", "queued", "writing"}]
  /\ captured \in StateFile \cup {None}
  /\ saver \in [nudge : BOOLEAN, pending : BOOLEAN]
  /\ persist \in PersistState
  /\ cache \in CacheState
  /\ store \in StateFile \cup {None}
  /\ projectFile \in Project
  /\ runs \in [Epochs \X Clients \X Sequences1 -> Nat]
  /\ seen \in [Epochs -> Counters]
  /\ confirmed \in Nat
  /\ fileRevision \in Nat
  /\ restores \in Nat

\* What a process that does not run keeps.
NoMemory ==
  /\ phase = "down" /\ closed = FALSE /\ epoch = 0 /\ revision = 0
  /\ session = StartProject(DefaultProject)
  /\ receipts = [c \in Clients |-> None]
  /\ restored = [c \in Clients |-> 0]
  /\ handler = [h \in Handlers |-> IdleHandler]
  /\ save = [w \in Savers |-> "idle"]
  /\ captured = None
  /\ saver = [nudge |-> FALSE, pending |-> FALSE]
  /\ persist = NewPersistence
  /\ cache = EmptyCache

Init ==
  /\ NoMemory
  /\ starts = 0
  /\ store = None
  /\ projectFile = DefaultProject
  /\ runs = [k \in Epochs \X Clients \X Sequences1 |-> 0]
  /\ seen = [e \in Epochs |-> NoCounters]
  /\ confirmed = 0 /\ fileRevision = 0 /\ restores = 0

-----------------------------------------------------------------------------
(* Commands.                                                               *)

HasReceipt(c) == receipts[c] # None

\* Mutant: the sequences from before a restore are not saved again.
LastSequenceOfReceipts(c) == IF HasReceipt(c) THEN receipts[c].sequence ELSE 0

\* The last sequence of c that this session knows.
LastSequence(c) == IF HasReceipt(c) THEN receipts[c].sequence ELSE restored[c]

KnownClients == {c \in Clients : HasReceipt(c) \/ restored[c] # 0}

\* Mutant: restored clients do not count.
OverLimitOfReceipts(c) ==
  c \notin KnownClients /\ Cardinality({k \in Clients : HasReceipt(k)}) >= ClientLimit

OverLimit(c) == c \notin KnownClients /\ Cardinality(KnownClients) >= ClientLimit

\* The checks of applyCommand, in their order.
Decision(c, n, e, b) ==
  IF e # epoch \/ (b.action = "project" /\ b.serverStart \notin {0, starts}) THEN "session_changed"
  ELSE IF HasReceipt(c) /\ n < receipts[c].sequence THEN "expired_command"
  ELSE IF HasReceipt(c) /\ n = receipts[c].sequence
       THEN IF b = receipts[c].digest THEN "replay" ELSE "sequence_conflict"
  ELSE IF n <= restored[c] THEN "expired_command"
  ELSE IF closed THEN "server_stopping"
  ELSE IF OverLimit(c) THEN "client_limit"
  ELSE "apply"

\* The commands that a sender can make at this time.  A project command
\* comes from the current project revision or from the one before, and from
\* a page of this or of the previous server process.
NoBody ==
  [action |-> "fleet", paused |-> FALSE, demand |-> DefaultProject.demand, project |-> DefaultProject,
   projectRevision |-> 0, serverStart |-> 0, checkpoint |-> 0]

ProjectBody(p, r, s) ==
  [NoBody EXCEPT !.action = "project", !.project = p, !.projectRevision = r, !.serverStart = s]

ProjectBodies ==
  {ProjectBody(p, r, s) :
     p \in Project, r \in {session.projectRevision, session.projectRevision - 1}, s \in {starts, starts - 1}}

Bodies ==
  {b \in
     {[NoBody EXCEPT !.action = a] : a \in {"fleet", "reset", "demo", "checkpoint"}}
     \cup {[NoBody EXCEPT !.action = "pause", !.paused = p] : p \in BOOLEAN}
     \cup {[NoBody EXCEPT !.action = "demand", !.demand = d] : d \in Demands}
     \cup {[NoBody EXCEPT !.action = "rewind", !.checkpoint = i] : i \in 0 .. session.lastCheckpoint}
     \cup ProjectBodies :
   b.action \in Actions}

\* A retry sends the last command of its client again.
LastBody(c) == IF HasReceipt(c) THEN {receipts[c].digest} ELSE {}

IdleFor(h) == handler[h].pc = "idle" /\ save[h] = "idle"

\* A command with any other decision is refused: it changes nothing and
\* leaves no receipt, so it is a stuttering step.
\* An exact retry gets the stored reply; it saves again when the first did.
ReplayCommand(h, c, n, e, b) ==
  /\ Decision(c, n, e, b) = "replay"
  /\ handler' = [handler EXCEPT ![h] =
                   IF receipts[c].saveState
                   THEN [pc |-> "nudge", revision |-> receipts[c].revision, changed |-> FALSE, saveState |-> TRUE]
                   ELSE IdleHandler]
  /\ UNCHANGED <<processVars, commandVars, saveVars, historyVars, revision, session, store, projectFile>>


\* A command that the session applies, accepted or rejected.  Both leave a
\* receipt; only an accepted one increases the revision.
ApplyCommand(h, c, n, e, b) ==
  /\ revision < MaxRevision
  /\ Decision(c, n, e, b) = "apply"
  /\ \E o \in Outcomes(session, b) :
       /\ session' = o.session
       /\ revision' = IF o.code = "ok" THEN revision + 1 ELSE revision
       /\ receipts' = [receipts EXCEPT ![c] =
                         [sequence |-> n, digest |-> b, revision |-> revision', code |-> o.code,
                          saveState |-> o.saveState]]
       /\ restored' = [restored EXCEPT ![c] = 0]
       /\ runs' = [runs EXCEPT ![<<epoch, c, n>>] = @ + 1]
       /\ projectFile' = IF o.file = {} THEN projectFile ELSE CHOOSE p \in o.file : TRUE
       /\ fileRevision' = IF projectFile'.net = projectFile.net THEN fileRevision
                          ELSE IF persist.enabled THEN revision' ELSE MaxRevision + 1
       /\ LET changed == o.session.projectRevision # session.projectRevision
          IN  handler' = [handler EXCEPT ![h] =
                            IF changed \/ o.saveState
                            THEN [pc |-> "nudge", revision |-> revision', changed |-> changed,
                                  saveState |-> o.saveState]
                            ELSE IdleHandler]
       /\ seen' = [seen EXCEPT ![epoch] = CountersOf(revision', session')]
  /\ UNCHANGED <<processVars, saveVars, confirmed, restores, store>>

\* The nudge channel has space for one value.
Nudged(h) == saver.nudge \/ handler[h].changed

\* Apply after applyCommand: nudge the saver, then save before the reply.
NudgeSaver(h) ==
  /\ phase = "up" /\ handler[h].pc = "nudge"
  /\ saver' = [saver EXCEPT !.nudge = Nudged(h)]
  /\ IF handler[h].saveState /\ persist.enabled
     THEN /\ handler' = [handler EXCEPT ![h].pc = "wait"]
          /\ save' = [save EXCEPT ![h] = "queued"]
     ELSE /\ handler' = [handler EXCEPT ![h] = IdleHandler]
          /\ UNCHANGED save
  /\ UNCHANGED <<processVars, commandVars, captured, persist, cache, historyVars,
                 revision, session, store, projectFile>>

\* Mutant: any successful save counts.
StateSavedOnce(h) == persist.saved

\* The last successful save holds the revision of the reply or a later one.
StateSaved(h) == persist.savedRevision >= handler[h].revision

\* saveBeforeReply returns when its save ended, or after 2 s while the save
\* still waits or writes.
ReplyAfterSave(h) ==
  /\ phase = "up" /\ handler[h].pc = "wait"
  /\ confirmed' = IF StateSaved(h) /\ handler[h].revision > confirmed THEN handler[h].revision ELSE confirmed
  /\ handler' = [handler EXCEPT ![h] = IdleHandler]
  /\ UNCHANGED <<processVars, commandVars, saveVars, seen, fileRevision, restores,
                 revision, session, store, projectFile>>

\* One batch of the clock, or its speed reduction.
Tick ==
  /\ phase = "up" /\ ~closed /\ ~session.sim.paused /\ revision < MaxTick
  /\ revision' = revision + 1
  /\ \/ UNCHANGED session
     \/ /\ session.sim.demo
        /\ session' = [session EXCEPT !.sim =
                         [ConfigureRedistribution(session.sim, session.project) EXCEPT !.demo = FALSE]]
  /\ seen' = [seen EXCEPT ![epoch] = CountersOf(revision', session')]
  /\ UNCHANGED <<processVars, commandVars, saveVars, confirmed, fileRevision, restores,
                 handler, store, projectFile>>

Close ==
  /\ phase = "up" /\ ~closed
  /\ closed' = TRUE
  /\ UNCHANGED <<phase, starts, epoch, commandVars, saveVars, historyVars, revision, session, handler,
                 store, projectFile>>

-----------------------------------------------------------------------------
(* Saves.                                                                  *)

Kind(w) == CASE w = Saver -> "periodic" [] w = Final -> "final" [] OTHER -> "command"

\* captureState: the copy of the session that a save writes.
CaptureState(kind) ==
  [final |-> kind = "final", epoch |-> epoch, revision |-> revision,
   sequences |-> [c \in Clients |-> LastSequence(c)], attempts |-> 0,
   project |-> session.project, projectRevision |-> session.projectRevision,
   generation |-> session.generation, lastCheckpoint |-> session.lastCheckpoint, sim |-> session.sim]

\* Mutant: a save skips the next revision too.
NothingNewToWrite(kind) ==
  \/ kind # "final" /\ closed
  \/ kind # "final" /\ persist.saved /\ revision <= persist.lastRevision + 1

\* captureState finds nothing to write.
NothingToWrite(kind) ==
  \/ kind # "final" /\ closed
  \/ kind # "final" /\ persist.saved /\ revision = persist.lastRevision

\* Mutant: the key of the cached project is the epoch alone.
EncodedByEpoch(file) ==
  IF cache.valid /\ cache.epoch = file.epoch THEN [file EXCEPT !.project = cache.project] ELSE file

\* encodeCaptured: the project comes from the cache when the key matches.
Encoded(file) ==
  IF cache.valid /\ cache.epoch = file.epoch /\ cache.projectRevision = file.projectRevision
  THEN [file EXCEPT !.project = cache.project]
  ELSE file

CacheOf(file) ==
  [valid |-> TRUE, epoch |-> file.epoch, projectRevision |-> file.projectRevision,
   project |-> Encoded(file).project]

\* SaveState up to the copy: persistence.mu is free, Session.mu is taken
\* only for the copy.
BeginSave(w) ==
  /\ phase = "up" /\ save[w] = "queued"
  /\ \A x \in Savers : save[x] # "writing"
  /\ IF NothingToWrite(Kind(w))
     THEN save' = [save EXCEPT ![w] = "idle"] /\ UNCHANGED captured
     ELSE save' = [save EXCEPT ![w] = "writing"] /\ captured' = CaptureState(Kind(w))
  /\ UNCHANGED <<processVars, commandVars, saver, persist, cache, historyVars, revision, session,
                 handler, store, projectFile>>

\* The rest of SaveState when the store takes the write.
FinishSave(w) ==
  /\ phase = "up" /\ save[w] = "writing"
  /\ store' = Encoded(captured)
  /\ cache' = CacheOf(captured)
  /\ persist' = [persist EXCEPT !.savedRevision = captured.revision, !.saved = TRUE,
                                !.lastRevision = captured.revision, !.failing = FALSE,
                                !.finalDone = @ \/ w = Final]
  /\ save' = [save EXCEPT ![w] = "idle"]
  /\ captured' = None
  /\ restores' = 0
  /\ UNCHANGED <<processVars, commandVars, saver, seen, confirmed, fileRevision, revision,
                 session, handler, projectFile>>

\* The rest of SaveState when the encoding or the write fails.  A write that
\* fails in the sync of the directory leaves the new state in place.
FailSave(w) ==
  /\ phase = "up" /\ save[w] = "writing"
  /\ \/ UNCHANGED <<store, restores>> /\ cache' = [cache EXCEPT !.valid = FALSE]
     \/ UNCHANGED <<store, restores>> /\ cache' = CacheOf(captured)
     \/ store' = Encoded(captured) /\ restores' = 0 /\ cache' = CacheOf(captured)
  /\ persist' = [persist EXCEPT !.failing = TRUE, !.finalDone = @ \/ w = Final]
  /\ save' = [save EXCEPT ![w] = "idle"]
  /\ captured' = None
  /\ UNCHANGED <<processVars, commandVars, saver, seen, confirmed, fileRevision, revision, session,
                 handler, projectFile>>

SaverRuns == phase = "up" /\ persist.enabled /\ save[Saver] = "idle" /\ save[Final] = "idle" /\ ~persist.finalDone

\* RunStateSaver takes the nudge and arms its timer, unless it is armed.
TakeNudge ==
  /\ SaverRuns /\ saver.nudge
  /\ saver' = [nudge |-> FALSE, pending |-> TRUE]
  /\ UNCHANGED <<processVars, commandVars, save, captured, persist, cache, historyVars,
                 revision, session, handler, store, projectFile>>

\* The pending timer or the ticker fires.
SavePeriodic ==
  /\ SaverRuns
  /\ saver' = [saver EXCEPT !.pending = FALSE]
  /\ save' = [save EXCEPT ![Saver] = "queued"]
  /\ UNCHANGED <<processVars, commandVars, captured, persist, cache, historyVars,
                 revision, session, handler, store, projectFile>>

\* stopStateSaving and saveFinal: after Close, when the saver stopped.
SaveFinal ==
  /\ SaverRuns /\ closed
  /\ save' = [save EXCEPT ![Final] = "queued"]
  /\ UNCHANGED <<processVars, commandVars, captured, saver, persist, cache, historyVars,
                 revision, session, handler, store, projectFile>>

-----------------------------------------------------------------------------
(* The process ends and starts.                                            *)

\* The process ends: its memory is gone.  The history of an epoch that only
\* this memory knew ends with it, because no later process can continue it.
Survives(e, file) == file # None /\ file.epoch = e

LoseMemory(file) ==
  /\ phase' = "down" /\ closed' = FALSE /\ epoch' = 0 /\ revision' = 0
  /\ session' = StartProject(DefaultProject)
  /\ receipts' = [c \in Clients |-> None]
  /\ restored' = [c \in Clients |-> 0]
  /\ handler' = [h \in Handlers |-> IdleHandler]
  /\ save' = [w \in Savers |-> "idle"]
  /\ captured' = None
  /\ saver' = [nudge |-> FALSE, pending |-> FALSE]
  /\ persist' = NewPersistence
  /\ cache' = EmptyCache
  /\ runs' = [k \in DOMAIN runs |-> IF Survives(k[1], file) THEN runs[k] ELSE 0]
  /\ seen' = [e \in Epochs |-> IF Survives(e, file) THEN seen[e] ELSE NoCounters]

\* A crash, a kill, or the end of main, at any point: only the store and the
\* project file stay.
Stop ==
  /\ phase # "down"
  /\ LoseMemory(store)
  /\ UNCHANGED <<starts, confirmed, fileRevision, restores, store, projectFile>>

\* newSession: everything of a new process but the session itself.
NewProcess(nextPhase, enabled) ==
  /\ phase = "down" /\ starts < MaxStarts
  /\ starts' = starts + 1
  /\ phase' = nextPhase
  /\ closed' = FALSE
  /\ receipts' = [c \in Clients |-> None]
  /\ saver' = [nudge |-> FALSE, pending |-> FALSE]
  /\ persist' = [NewPersistence EXCEPT !.enabled = enabled]
  /\ cache' = EmptyCache
  /\ UNCHANGED <<runs, handler, save, projectFile>>

\* Mutant: a new session without a new epoch.
FreshSessionOldEpoch(p) ==
  /\ epoch' = epoch
  /\ revision' = 0
  /\ session' = StartProject(p)
  /\ restored' = [c \in Clients |-> 0]

\* startProject: a new epoch with a new session of p.
FreshSession(p) ==
  /\ epoch' = starts'
  /\ revision' = 0
  /\ session' = StartProject(p)
  /\ restored' = [c \in Clients |-> 0]

\* emptyProject.
EmptyProject(saved) ==
  IF UseProjectFile THEN projectFile ELSE IF saved # None THEN saved ELSE DefaultProject

\* The copy that the startup save writes, from the session of this step.
StartupFile(attempts) ==
  [final |-> FALSE, epoch |-> epoch', revision |-> revision', sequences |-> restored',
   attempts |-> attempts, project |-> session'.project, projectRevision |-> session'.projectRevision,
   generation |-> session'.generation, lastCheckpoint |-> session'.lastCheckpoint, sim |-> session'.sim]

ShowStart == seen' = [seen EXCEPT ![epoch'] = CountersOf(revision', session')]

\* There is no saved state.
StartNew ==
  /\ store = None
  /\ NewProcess("starting", TRUE)
  /\ FreshSession(EmptyProject(None))
  /\ captured' = StartupFile(0)
  /\ confirmed' = 0 /\ fileRevision' = 0 /\ restores' = 0
  /\ UNCHANGED <<seen, store>>

\* The read fails: an empty session that does not save.
StartUnreadable ==
  /\ NewProcess("up", FALSE)
  /\ FreshSession(EmptyProject(None))
  /\ ShowStart
  /\ UNCHANGED <<captured, confirmed, fileRevision, restores, store>>

SavedDemandDiffers == UseProjectFile /\ projectFile.demand # store.project.demand

\* restoreProject: the project of the caller with the saved demand.
RestoredConfig == IF UseProjectFile THEN [projectFile EXCEPT !.demand = store.project.demand] ELSE store.project

\* The projects match but for demand and experimental policies.
ProjectMatches == UseProjectFile => projectFile.net = store.project.net

\* Mutant: one more restore.
RestoreLoopLate == store.attempts > RestoreLoopAttempts

RestoreLoop == store.attempts >= RestoreLoopAttempts
LogicalOnly == store.attempts = RestoreLoopAttempts - 1

\* The simulation of a tier.  The logical tier stops the demo.
RestoredSimulation(tier) ==
  LET demo == store.sim.demo /\ tier = "physical"
  IN  [project |-> IF demo THEN [RestoredConfig EXCEPT !.demand = store.sim.project.demand] ELSE RestoredConfig,
       paused |-> store.sim.paused, demo |-> demo]

Tiers == IF LogicalOnly THEN {"logical"} ELSE {"physical", "logical"}

\* The demand command refuses a change while the demo runs.
DemoBlocksDemand(tier) == SavedDemandDiffers /\ RestoredSimulation(tier).demo

\* A saved state that loadState refuses moves aside; when the move fails,
\* the session does not save.  A state can also be damaged or of another
\* version: then no member of it is used.
StartRejected ==
  /\ store # None
  /\ \E saved \in {store.project, None} :
       /\ \/ RestoreLoop /\ saved = None
          \/ ~RestoreLoop /\ ~ProjectMatches /\ saved = None
          \/ ~RestoreLoop /\ ProjectMatches /\ (\E tier \in Tiers : DemoBlocksDemand(tier)) /\ saved = None
          \/ ~RestoreLoop /\ ProjectMatches
       /\ \/ /\ NewProcess("starting", TRUE)
             /\ FreshSession(EmptyProject(saved))
             /\ store' = None
             /\ captured' = StartupFile(0)
             /\ confirmed' = 0 /\ fileRevision' = 0 /\ restores' = 0
             /\ UNCHANGED seen
          \/ /\ NewProcess("up", FALSE)
             /\ FreshSession(EmptyProject(saved))
             /\ ShowStart
             /\ UNCHANGED <<captured, confirmed, fileRevision, restores, store>>

SavedClients == {c \in Clients : store.sequences[c] # 0}

\* Mutant: the epoch stays after any save.
KeepEpochAlways == Cardinality(SavedClients) < ClientLimit

KeepEpoch == store.final /\ Cardinality(SavedClients) < ClientLimit

\* installRestored.
RestoredSession(sim) ==
  [project |-> RestoredConfig, projectRevision |-> store.projectRevision,
   projectOrigin |-> store.projectRevision, generation |-> store.generation + 1,
   sim |-> sim, checkpoints |-> <<>>, lastCheckpoint |-> store.lastCheckpoint]

\* loadState, installRestored and the demand settings of the project file.
StartRestored ==
  /\ store # None /\ ~RestoreLoop /\ ProjectMatches
  /\ NewProcess("starting", TRUE)
  /\ epoch' = IF KeepEpoch THEN store.epoch ELSE starts'
  /\ restored' = IF KeepEpoch THEN store.sequences ELSE [c \in Clients |-> 0]
  /\ revision' = store.revision + 1
  /\ \E tier \in Tiers :
       /\ ~DemoBlocksDemand(tier)
       /\ LET installed == RestoredSession(RestoredSimulation(tier))
          IN  session' = IF SavedDemandDiffers THEN WithDemand(installed, projectFile.demand) ELSE installed
  /\ captured' = StartupFile(store.attempts + 1)
  /\ fileRevision' = 0
  /\ UNCHANGED <<seen, confirmed, restores, store>>

\* The startup save succeeds: the server serves.
FinishStart ==
  /\ phase = "starting"
  /\ phase' = "up"
  /\ store' = captured
  /\ cache' = CacheOf(captured)
  /\ persist' = [persist EXCEPT !.savedRevision = captured.revision]
  /\ captured' = None
  /\ seen' = [seen EXCEPT ![epoch] = CountersOf(revision, session)]
  /\ restores' = IF captured.attempts = 0 THEN 0 ELSE restores + 1
  /\ UNCHANGED <<closed, starts, epoch, commandVars, save, saver, confirmed, fileRevision,
                 revision, session, handler, projectFile>>

\* The startup save fails: the process ends.
FailStart ==
  /\ phase = "starting"
  /\ store' \in {store, captured}
  /\ LoseMemory(store')
  /\ UNCHANGED <<starts, confirmed, fileRevision, restores, projectFile>>

-----------------------------------------------------------------------------

Deliver ==
  \E h \in Handlers, c \in Clients, n \in Sequences1, e \in 1 .. starts :
    /\ phase = "up" /\ IdleFor(h)
    /\ \E b \in Bodies \cup LastBody(c) : ReplayCommand(h, c, n, e, b) \/ ApplyCommand(h, c, n, e, b)

HandlerStep == \E h \in Handlers : NudgeSaver(h) \/ ReplyAfterSave(h)

SaveStep == \E w \in Savers : BeginSave(w) \/ FinishSave(w) \/ FailSave(w)

SaverStep == TakeNudge \/ SavePeriodic \/ SaveFinal

StartStep == StartNew \/ StartUnreadable \/ StartRejected \/ StartRestored \/ FinishStart \/ FailStart

Next == Deliver \/ HandlerStep \/ SaveStep \/ SaverStep \/ Tick \/ Close \/ Stop \/ StartStep

Spec == Init /\ [][Next]_vars

\* Goroutines run, a mutex is not starved (Go hands it over after 1 ms), a
\* store call ends within its timeout, and a store that is tried again and
\* again takes some write of each caller.  Nobody has to send commands, close
\* the session or stop the process.
Fairness ==
  /\ \A h \in Handlers : WF_vars(NudgeSaver(h)) /\ WF_vars(ReplyAfterSave(h))
  /\ \A w \in Savers : /\ SF_vars(BeginSave(w))
                       /\ WF_vars(FinishSave(w) \/ FailSave(w))
                       /\ SF_vars(FinishSave(w))
  /\ WF_vars(TakeNudge) /\ WF_vars(SavePeriodic)

FairSpec == Spec /\ Fairness

-----------------------------------------------------------------------------
(* Properties.                                                             *)

\* Apply: "The latest sequence can be retried; older sequences never
\* replay."  No command of a client runs twice in an epoch, also when the
\* epoch goes on in a later process that lost the replies.
AtMostOnce == \A k \in DOMAIN runs : runs[k] <= 1

\* installRestored keeps an epoch only after a final save: within an epoch
\* the revision, the project revision, the generation and the save point IDs
\* that clients saw never go back, whatever stops and starts are between.
EpochCountersNeverGoBack ==
  [][phase' = "up" => \A e \in DOMAIN seen : \A f \in DOMAIN seen[e] : seen'[e][f] >= seen[e][f]]_vars

\* A reply with stateSaved true: the state in the store is at that revision
\* or later, and, unless a later command changed the project file again, the
\* next start with -project does not answer project_changed.
ConfirmedChangeSurvives ==
  (store # None /\ confirmed # 0) =>
    /\ store.revision >= confirmed
    /\ confirmed >= fileRevision => ProjectMatches

\* The state encoder reuses the encoded project of an earlier save for the
\* same epoch and project revision: it is then the project of the copy, and
\* the saved fleet belongs to the saved project.
SavedProjectIsCaptured ==
  /\ captured # None => Encoded(captured).project = captured.project
  /\ (store # None /\ ~store.sim.demo) => store.sim.project = store.project

\* The simulation runs the current project after every project apply, demand
\* change, rewind, reset and restore, but for the weights of the demo.
SimulationRunsProject ==
  phase = "up" => \/ session.sim.project = session.project
                  \/ session.sim.demo /\ session.sim.project.net = session.project.net

\* RunStateSaver: a project change does not stay unsaved for ever in a
\* session that runs, although saves fail, skip and wait for each other.
UnsavedProject ==
  phase = "up" /\ persist.enabled /\ ~closed /\ store.projectRevision # session.projectRevision

ProjectChangeEventuallySaved == UnsavedProject ~> ~UnsavedProject

\* Session.restoredSequences: a client is in receipts or in
\* restoredSequences, not in both, and never more than clientLimit clients
\* are recorded.
ClientsAccounted ==
  /\ \A c \in Clients : HasReceipt(c) => restored[c] = 0
  /\ Cardinality(KnownClients) <= ClientLimit

\* NewFromStore: a saved state is restored at most twice without a save in
\* between, so a state that stops its server cannot do so for ever.
RestoreLoopBounded == restores <= RestoreLoopAttempts
=============================================================================
