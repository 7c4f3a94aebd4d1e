-------------------------- MODULE SessionCommands --------------------------
(***************************************************************************)
(* What one command does to the shared session of internal/session once    *)
(* the receipt checks let it through (Session.apply and the handlers it    *)
(* calls).  The session value is one record, a command maps it to a set of *)
(* outcomes: a set, because the fleet may refuse a request for reasons     *)
(* below this model and the write of the project file may fail.            *)
(*                                                                         *)
(* A project is abstracted to the three parts that a restore tells apart:  *)
(* its demand settings, its experimental policies and all the rest (net).  *)
(* A simulation is abstracted to the project whose network, weights and    *)
(* policies it runs, the pause flag and the demo flag.                     *)
(***************************************************************************)
EXTENDS Naturals, Sequences

CONSTANTS
  Nets,            \* what of a project no restore may change
  Demands,         \* demand settings
  Policies,        \* experimental policy settings
  DefaultProject,  \* the example project
  UseProjectFile,  \* TRUE when the server runs with -project
  CheckpointLimit  \* checkpointLimit, 8 in the code

Project == [net : Nets, demand : Demands, policy : Policies]

ASSUME ProjectAssumption == DefaultProject \in Project
ASSUME FileAssumption == UseProjectFile \in BOOLEAN
ASSUME LimitAssumption == CheckpointLimit \in Nat \ {0}

Simulation == [project : Project, paused : BOOLEAN, demo : BOOLEAN]

Checkpoint == [id : Nat, origin : Nat, project : Project, sim : Simulation]

\* The fields of the Session struct that commands change.
SessionValue ==
  [project         : Project,
   projectRevision : Nat \ {0},
   projectOrigin   : Nat,
   generation      : Nat,
   sim             : Simulation,
   checkpoints     : Seq(Checkpoint),
   lastCheckpoint  : Nat]

\* The content of a command.  "fleet" stands for trip, fault, clearFault,
\* emergency and speed: they change only what the simulation keeps inside.
ActionNames == {"fleet", "pause", "reset", "demo", "demand", "project", "checkpoint", "rewind"}

Body ==
  [action          : ActionNames,
   paused          : BOOLEAN,
   demand          : Demands,
   project         : Project,
   projectRevision : Nat,
   serverStart     : Nat,
   checkpoint      : Nat]

-----------------------------------------------------------------------------
(* Simulations.                                                            *)

NewFleet(p, paused) == [project |-> p, paused |-> paused, demo |-> FALSE]

\* The weights, positioning mode and rate follow the current project.
ConfigureRedistribution(sim, p) == [sim EXCEPT !.project.demand = p.demand]

\* The demo makes a running fleet with default weights and the policies of p.
DemoFleet(p) ==
  [project |-> [p EXCEPT !.demand = DefaultProject.demand], paused |-> FALSE, demo |-> TRUE]

DemoAvailable(p) == p.net = DefaultProject.net

\* startProject: the session value of a new session of p.
StartProject(p) ==
  [project |-> p, projectRevision |-> 1, projectOrigin |-> 1, generation |-> 1,
   sim |-> NewFleet(p, FALSE), checkpoints |-> <<>>, lastCheckpoint |-> 0]

-----------------------------------------------------------------------------
(* Outcomes.  file is the set of projects written to the project file: {}  *)
(* or one project.                                                         *)

Codes == {"ok", "command_rejected", "stale_project"}

Outcome(code, s, file, saveState) ==
  [code |-> code, session |-> s, file |-> file, saveState |-> saveState]

Accepted(s) == Outcome("ok", s, {}, FALSE)
Refused(s, code) == Outcome(code, s, {}, FALSE)

\* s.save: without a project file there is nothing to write and nothing fails.
SaveThen(s, p, next, saveState) ==
  IF UseProjectFile
  THEN {Outcome("ok", next, {p}, saveState), Refused(s, "command_rejected")}
  ELSE {Outcome("ok", next, {}, saveState)}

Fleet(s) == {Accepted(s), Refused(s, "command_rejected")}

Pause(s, paused) == {Accepted([s EXCEPT !.sim.paused = paused])}

Reset(s) ==
  {Accepted([s EXCEPT !.sim = NewFleet(s.project, s.sim.paused),
                      !.generation = @ + 1])}

Demo(s) ==
  IF DemoAvailable(s.project)
  THEN {Accepted([s EXCEPT !.sim = DemoFleet(s.project), !.generation = @ + 1])}
  ELSE {Refused(s, "command_rejected")}

\* Mutant: the fleet keeps the weights of the old demand settings.
WithDemandOldWeights(s, demand) ==
  [s EXCEPT !.project.demand = demand,
            !.projectRevision = @ + 1,
            !.projectOrigin = s.projectRevision + 1]

\* applyDemand after its checks: the project is replaced and gets a new
\* revision, which is also its origin.
WithDemand(s, demand) ==
  LET updated == [s.project EXCEPT !.demand = demand]
  IN  [s EXCEPT !.project = updated,
                !.sim = ConfigureRedistribution(s.sim, updated),
                !.projectRevision = @ + 1,
                !.projectOrigin = s.projectRevision + 1]

Demand(s, demand) ==
  IF s.sim.demo
  THEN {Refused(s, "command_rejected")}
  ELSE SaveThen(s, [s.project EXCEPT !.demand = demand], WithDemand(s, demand), FALSE)

\* applyProject: only in a paused session, only from the current revision.
ReplaceProject(s, p) ==
  [s EXCEPT !.project = p,
            !.sim = NewFleet(p, TRUE),
            !.projectRevision = @ + 1,
            !.projectOrigin = s.projectRevision + 1,
            !.generation = @ + 1]

ApplyProject(s, p, projectRevision) ==
  IF ~s.sim.paused THEN {Refused(s, "command_rejected")}
  ELSE IF projectRevision # s.projectRevision THEN {Refused(s, "stale_project")}
  ELSE IF p = s.project THEN {Accepted(s)}
  ELSE SaveThen(s, p, ReplaceProject(s, p), TRUE)

-----------------------------------------------------------------------------
(* Save points.                                                            *)

\* Mutant: one save point too many.
CaptureCheckpointOneMore(s) ==
  LET kept  == IF Len(s.checkpoints) > CheckpointLimit THEN Tail(s.checkpoints) ELSE s.checkpoints
      entry == [id |-> s.lastCheckpoint + 1, origin |-> s.projectOrigin,
                project |-> s.project, sim |-> s.sim]
  IN  {Accepted([s EXCEPT !.lastCheckpoint = @ + 1, !.checkpoints = Append(kept, entry)])}

\* captureCheckpoint: a new ID; the oldest save point goes at the limit.
CaptureCheckpoint(s) ==
  LET kept  == IF Len(s.checkpoints) >= CheckpointLimit THEN Tail(s.checkpoints) ELSE s.checkpoints
      entry == [id |-> s.lastCheckpoint + 1, origin |-> s.projectOrigin,
                project |-> s.project, sim |-> s.sim]
  IN  {Accepted([s EXCEPT !.lastCheckpoint = @ + 1, !.checkpoints = Append(kept, entry)])}

\* Mutant: a rewind that restores a project keeps the project revision.
RewindToSameRevision(s, entry) ==
  LET base == [s EXCEPT !.sim = [entry.sim EXCEPT !.paused = TRUE], !.generation = @ + 1]
  IN  IF entry.origin = s.projectOrigin
      THEN {Accepted(base)}
      ELSE SaveThen(s, entry.project,
                    [base EXCEPT !.project = entry.project, !.projectOrigin = entry.origin], TRUE)

\* Mutant: only a newer project is restored.
RewindToNewerOnly(s, entry) ==
  LET base == [s EXCEPT !.sim = [entry.sim EXCEPT !.paused = TRUE], !.generation = @ + 1]
  IN  IF entry.origin <= s.projectOrigin
      THEN {Accepted(base)}
      ELSE SaveThen(s, entry.project,
                    [base EXCEPT !.project = entry.project,
                                 !.projectOrigin = entry.origin,
                                 !.projectRevision = @ + 1], TRUE)

\* rewind to a retained save point: a paused copy of its simulation, and its
\* project with it when the origins differ.
RewindTo(s, entry) ==
  LET base == [s EXCEPT !.sim = [entry.sim EXCEPT !.paused = TRUE], !.generation = @ + 1]
  IN  IF entry.origin = s.projectOrigin
      THEN {Accepted(base)}
      ELSE SaveThen(s, entry.project,
                    [base EXCEPT !.project = entry.project,
                                 !.projectOrigin = entry.origin,
                                 !.projectRevision = @ + 1], TRUE)

Rewind(s, id) ==
  LET matching == {i \in DOMAIN s.checkpoints : s.checkpoints[i].id = id}
  IN  IF id = 0 \/ matching = {}
      THEN {Refused(s, "command_rejected")}
      ELSE UNION {RewindTo(s, s.checkpoints[i]) : i \in matching}

-----------------------------------------------------------------------------
\* Session.apply: the outcomes of a command.
Outcomes(s, b) ==
  CASE b.action = "fleet"      -> Fleet(s)
    [] b.action = "pause"      -> Pause(s, b.paused)
    [] b.action = "reset"      -> Reset(s)
    [] b.action = "demo"       -> Demo(s)
    [] b.action = "demand"     -> Demand(s, b.demand)
    [] b.action = "project"    -> ApplyProject(s, b.project, b.projectRevision)
    [] b.action = "checkpoint" -> CaptureCheckpoint(s)
    [] b.action = "rewind"     -> Rewind(s, b.checkpoint)
=============================================================================
