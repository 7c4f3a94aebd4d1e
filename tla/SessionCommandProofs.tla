------------------------ MODULE SessionCommandProofs ------------------------
(***************************************************************************)
(* Lemmas about the commands of SessionCommands, for the proofs about the  *)
(* state machines that run them.                                           *)
(***************************************************************************)
EXTENDS SessionCommands, TLAPS

-----------------------------------------------------------------------------
(* What a command returns.                                                 *)

OutcomeType ==
  [code : Codes, session : SessionValue, file : SUBSET Project, saveState : BOOLEAN]

\* The counters of a session value stay natural numbers.
LEMMA NextCounters ==
  ASSUME NEW s \in SessionValue
  PROVE  /\ s.projectRevision + 1 \in Nat \ {0}
         /\ s.projectRevision + 1 \in Nat
         /\ s.generation + 1 \in Nat
         /\ s.lastCheckpoint + 1 \in Nat
BY DEF SessionValue

\* NewFleet makes a simulation.
LEMMA NewFleetType ==
  ASSUME NEW p \in Project, NEW paused \in BOOLEAN
  PROVE  NewFleet(p, paused) \in Simulation
BY DEF NewFleet, Simulation

\* A command that writes the project file returns outcomes, whether the
\* write succeeds or fails.
LEMMA SaveThenType ==
  ASSUME NEW s \in SessionValue, NEW p \in Project, NEW next \in SessionValue, NEW v \in BOOLEAN
  PROVE  SaveThen(s, p, next, v) \subseteq OutcomeType
<1>1. Outcome("ok", next, {p}, v) \in OutcomeType
  BY DEF Outcome, OutcomeType, Codes
<1>2. Outcome("ok", next, {}, v) \in OutcomeType
  BY DEF Outcome, OutcomeType, Codes
<1>3. Outcome("command_rejected", s, {}, FALSE) \in OutcomeType
  BY DEF Outcome, OutcomeType, Codes
<1> QED
  BY <1>1, <1>2, <1>3 DEF SaveThen, Refused

\* An accepted command is an outcome.
LEMMA AcceptedType ==
  ASSUME NEW s \in SessionValue
  PROVE  Accepted(s) \in OutcomeType
BY DEF Accepted, Outcome, OutcomeType, Codes

\* A refused command is an outcome.
LEMMA RefusedType ==
  ASSUME NEW s \in SessionValue, NEW code \in Codes
  PROVE  Refused(s, code) \in OutcomeType
BY DEF Refused, Outcome, OutcomeType

\* A new session of a project is a session value.
LEMMA StartProjectType ==
  ASSUME NEW p \in Project
  PROVE  StartProject(p) \in SessionValue
<1>1. ASSUME NEW m \in Simulation, NEW none \in Seq(Checkpoint)
      PROVE  [project |-> p, projectRevision |-> 1, projectOrigin |-> 1, generation |-> 1,
              sim |-> m, checkpoints |-> none, lastCheckpoint |-> 0] \in SessionValue
  BY DEF SessionValue
<1>2. NewFleet(p, FALSE) \in Simulation
  BY NewFleetType
<1>3. <<>> \in Seq(Checkpoint)
  OBVIOUS
<1> QED
  BY <1>1, <1>2, <1>3, Zenon DEF StartProject

\* A demand change gives a session value.
LEMMA WithDemandType ==
  ASSUME NEW s \in SessionValue, NEW d \in Demands
  PROVE  WithDemand(s, d) \in SessionValue
<1> DEFINE updated == [s.project EXCEPT !.demand = d]
<1>1. updated \in Project
  BY DEF SessionValue, Project
<1>2. ConfigureRedistribution(s.sim, updated) \in Simulation
  BY <1>1 DEF ConfigureRedistribution, SessionValue, Simulation, Project
<1> QED
  BY <1>1, <1>2, NextCounters DEF WithDemand, SessionValue

\* A rewind to a retained save point returns outcomes.
LEMMA RewindToType ==
  ASSUME NEW s \in SessionValue, NEW entry \in Checkpoint
  PROVE  RewindTo(s, entry) \subseteq OutcomeType
<1> DEFINE base == [s EXCEPT !.sim = [entry.sim EXCEPT !.paused = TRUE], !.generation = @ + 1]
<1>1. [entry.sim EXCEPT !.paused = TRUE] \in Simulation
  BY DEF Checkpoint, Simulation
<1>2. base \in SessionValue
  BY <1>1, NextCounters DEF SessionValue
<1> DEFINE next == [base EXCEPT !.project = entry.project, !.projectOrigin = entry.origin, !.projectRevision = @ + 1]
<1>3. next \in SessionValue /\ entry.project \in Project
  <2>1. entry.project \in Project /\ entry.origin \in Nat
    BY DEF Checkpoint
  <2>2. base.projectRevision + 1 \in Nat \ {0}
    BY <1>2, NextCounters
  <2> HIDE DEF base
  <2> QED BY <1>2, <2>1, <2>2 DEF SessionValue
<1>4. Accepted(base) \in OutcomeType
  BY <1>2, AcceptedType
<1>5. SaveThen(s, entry.project, next, TRUE) \subseteq OutcomeType
  BY <1>3, SaveThenType
<1> HIDE DEF next
<1> QED
  BY <1>4, <1>5 DEF RewindTo, next

\* Session.apply returns outcomes for every command.
LEMMA OutcomesType ==
  ASSUME NEW s \in SessionValue, NEW b \in Body
  PROVE  Outcomes(s, b) \subseteq OutcomeType
<1>0. s.project \in Project /\ s.sim \in Simulation /\ s.sim.paused \in BOOLEAN
  BY DEF SessionValue, Simulation
<1>1. Fleet(s) \subseteq OutcomeType
  BY AcceptedType, RefusedType DEF Fleet, Codes
<1>2. Pause(s, b.paused) \subseteq OutcomeType
  <2>1. [s EXCEPT !.sim.paused = b.paused] \in SessionValue
    BY DEF SessionValue, Simulation, Body
  <2> QED BY <2>1, AcceptedType DEF Pause
<1>3. Reset(s) \subseteq OutcomeType
  <2>1. NewFleet(s.project, s.sim.paused) \in Simulation
    BY <1>0, NewFleetType
  <2>2. [s EXCEPT !.sim = NewFleet(s.project, s.sim.paused), !.generation = @ + 1] \in SessionValue
    BY <2>1, NextCounters DEF SessionValue
  <2> QED BY <2>2, AcceptedType DEF Reset
<1>4. Demo(s) \subseteq OutcomeType
  <2>1. DemoFleet(s.project) \in Simulation
    BY <1>0, ProjectAssumption DEF DemoFleet, Simulation, Project
  <2>2. [s EXCEPT !.sim = DemoFleet(s.project), !.generation = @ + 1] \in SessionValue
    BY <2>1, NextCounters DEF SessionValue
  <2> QED BY <2>2, AcceptedType, RefusedType DEF Demo, Codes
<1>5. Demand(s, b.demand) \subseteq OutcomeType
  <2>1. b.demand \in Demands /\ [s.project EXCEPT !.demand = b.demand] \in Project
    BY <1>0 DEF Body, Project
  <2>2. WithDemand(s, b.demand) \in SessionValue
    BY <2>1, WithDemandType
  <2> QED BY <2>1, <2>2, SaveThenType, RefusedType DEF Demand, Codes
<1>6. ApplyProject(s, b.project, b.projectRevision) \subseteq OutcomeType
  <2>1. b.project \in Project
    BY DEF Body
  <2>2. ReplaceProject(s, b.project) \in SessionValue
    BY <2>1, NewFleetType, NextCounters DEF ReplaceProject, SessionValue
  <2> QED BY <2>1, <2>2, SaveThenType, RefusedType, AcceptedType DEF ApplyProject, Codes
<1>7. CaptureCheckpoint(s) \subseteq OutcomeType
  <2> DEFINE kept == IF Len(s.checkpoints) >= CheckpointLimit THEN Tail(s.checkpoints) ELSE s.checkpoints
             entry == [id |-> s.lastCheckpoint + 1, origin |-> s.projectOrigin,
                       project |-> s.project, sim |-> s.sim]
  <2>1. kept \in Seq(Checkpoint)
    <3>1. s.checkpoints \in Seq(Checkpoint)
      BY DEF SessionValue
    <3>2. CASE Len(s.checkpoints) >= CheckpointLimit
      <4>1. s.checkpoints # <<>>
        BY <3>1, <3>2, LimitAssumption
      <4> QED BY <3>1, <3>2, <4>1
    <3> QED BY <3>1, <3>2
  <2>2. entry \in Checkpoint
    BY <1>0 DEF SessionValue, Checkpoint
  <2>3. Append(kept, entry) \in Seq(Checkpoint)
    BY <2>1, <2>2
  <2> HIDE DEF kept, entry
  <2>4. [s EXCEPT !.lastCheckpoint = @ + 1, !.checkpoints = Append(kept, entry)] \in SessionValue
    BY <2>3, NextCounters DEF SessionValue
  <2> QED BY <2>4, AcceptedType DEF CaptureCheckpoint, kept, entry
<1>8. Rewind(s, b.checkpoint) \subseteq OutcomeType
  <2>1. \A i \in DOMAIN s.checkpoints : s.checkpoints[i] \in Checkpoint
    BY DEF SessionValue
  <2>2. \A i \in DOMAIN s.checkpoints : RewindTo(s, s.checkpoints[i]) \subseteq OutcomeType
    BY <2>1, RewindToType
  <2>3. Refused(s, "command_rejected") \in OutcomeType
    BY RefusedType DEF Codes
  <2> QED BY <2>2, <2>3 DEF Rewind
<1> QED
  BY <1>1, <1>2, <1>3, <1>4, <1>5, <1>6, <1>7, <1>8 DEF Outcomes, Body, ActionNames

-----------------------------------------------------------------------------
(* What a command does to the session value.                               *)

\* A simulation runs p; while the demo runs, the weights may be others.
FollowsProject(sim, p) ==
  /\ [sim.project EXCEPT !.demand = p.demand] = p
  /\ ~sim.demo => sim.project = p

\* Origins stand for projects, in the session and in its save points, and
\* none of them is later than the project revision.
PointSound(s, point) ==
  /\ point.origin <= s.projectRevision
  /\ FollowsProject(point.sim, point.project)
  /\ point.origin = s.projectOrigin => point.project = s.project

Sound(s) ==
  /\ s.projectOrigin <= s.projectRevision
  /\ FollowsProject(s.sim, s.project)
  /\ \A i \in DOMAIN s.checkpoints : PointSound(s, s.checkpoints[i])
  /\ \A i, j \in DOMAIN s.checkpoints :
       s.checkpoints[i].origin = s.checkpoints[j].origin => s.checkpoints[i].project = s.checkpoints[j].project

\* The counters of a session value never fall, and a project revision never
\* stands for two projects.
Continues(s, next) ==
  /\ next.projectRevision >= s.projectRevision
  /\ next.generation >= s.generation
  /\ next.lastCheckpoint >= s.lastCheckpoint
  /\ next.projectRevision = s.projectRevision => next.project = s.project

SamePoints(s, next) == next.checkpoints = s.checkpoints /\ next.lastCheckpoint = s.lastCheckpoint

\* The project file gets the project of the session, when there is one.
FileFollows(s, o) ==
  /\ o.file \in {{}, {o.session.project}}
  /\ o.file # {} => UseProjectFile
  /\ UseProjectFile /\ o.file = {} => o.session.project.net = s.project.net

\* What every outcome o of a command on s keeps.
Effect(s, o) ==
  /\ Sound(o.session)
  /\ Continues(s, o.session)
  /\ FileFollows(s, o)
  /\ o.code # "ok" => o.session = s

\* A project is its parts.
LEMMA ProjectParts ==
  ASSUME NEW p \in Project, NEW d \in Demands
  PROVE  /\ [p EXCEPT !.demand = d] \in Project
         /\ [p EXCEPT !.demand = d].net = p.net
         /\ [p EXCEPT !.demand = d].demand = d
         /\ [p EXCEPT !.demand = p.demand] = p
BY DEF Project

\* Of two demand changes only the last one counts.
LEMMA LastDemand ==
  ASSUME NEW p \in Project, NEW d \in Demands, NEW e \in Demands
  PROVE  [[p EXCEPT !.demand = e] EXCEPT !.demand = d] = [p EXCEPT !.demand = d]
BY DEF Project

\* A save point of a session.
LEMMA PointType ==
  ASSUME NEW s \in SessionValue, NEW i \in DOMAIN s.checkpoints
  PROVE  /\ s.checkpoints[i] \in Checkpoint
         /\ s.checkpoints[i].origin \in Nat /\ s.checkpoints[i].id \in Nat
         /\ s.checkpoints[i].project \in Project /\ s.checkpoints[i].sim \in Simulation
<1>1. s.checkpoints \in Seq(Checkpoint)
  BY DEF SessionValue
<1>2. s.checkpoints[i] \in Checkpoint
  BY <1>1
<1> QED
  BY <1>2 DEF Checkpoint

\* newFleet: a fresh simulation runs its project.
LEMMA NewFleetFollows ==
  ASSUME NEW p \in Project, NEW paused \in BOOLEAN
  PROVE  FollowsProject(NewFleet(p, paused), p)
BY ProjectParts DEF NewFleet, FollowsProject, Project

\* The pause flag does not matter.
LEMMA PausedFollows ==
  ASSUME NEW sim \in Simulation, NEW p, FollowsProject(sim, p), NEW paused
  PROVE  FollowsProject([sim EXCEPT !.paused = paused], p)
BY DEF FollowsProject, Simulation

\* The demo runs the network and the policies of the project.
LEMMA DemoFollows ==
  ASSUME NEW p \in Project
  PROVE  FollowsProject(DemoFleet(p), p)
<1>1. DefaultProject.demand \in Demands /\ p.demand \in Demands
  BY ProjectAssumption DEF Project
<1>2. [[p EXCEPT !.demand = DefaultProject.demand] EXCEPT !.demand = p.demand] = p
  BY <1>1, LastDemand, ProjectParts
<1> QED
  BY <1>2 DEF DemoFleet, FollowsProject

\* Redistribution brings a simulation that followed a project, but for its
\* weights, to a new demand of the project.
LEMMA RedistributionFollows ==
  ASSUME NEW sim \in Simulation, NEW p \in Project, FollowsProject(sim, p), NEW d \in Demands
  PROVE  ConfigureRedistribution(sim, [p EXCEPT !.demand = d]).project = [p EXCEPT !.demand = d]
<1>1. sim.project \in Project /\ p.demand \in Demands
  BY DEF Simulation, Project
<1>2. ConfigureRedistribution(sim, [p EXCEPT !.demand = d]).project = [sim.project EXCEPT !.demand = d]
  <2>1. [p EXCEPT !.demand = d].demand = d
    BY ProjectParts
  <2>2. ConfigureRedistribution(sim, [p EXCEPT !.demand = d]) = [sim EXCEPT !.project.demand = d]
    BY <2>1 DEF ConfigureRedistribution
  <2> QED
    BY <2>2 DEF Simulation
<1>3. [[sim.project EXCEPT !.demand = p.demand] EXCEPT !.demand = d] = [sim.project EXCEPT !.demand = d]
  BY <1>1, LastDemand
<1> QED
  BY <1>2, <1>3 DEF FollowsProject

\* A session value with the same project, origin, revision and save points
\* is sound when its simulation is.
LEMMA SoundWithSim ==
  ASSUME NEW s, Sound(s), NEW next,
         next.project = s.project, next.projectRevision = s.projectRevision,
         next.projectOrigin = s.projectOrigin, next.checkpoints = s.checkpoints,
         FollowsProject(next.sim, s.project)
  PROVE  Sound(next)
BY DEF Sound, PointSound

\* A new project with a new revision as its origin is not confused with the
\* project of any save point.
LEMMA SoundWithProject ==
  ASSUME NEW s \in SessionValue, Sound(s), NEW next,
         next.projectRevision = s.projectRevision + 1, next.projectOrigin = s.projectRevision + 1,
         next.checkpoints = s.checkpoints, FollowsProject(next.sim, next.project)
  PROVE  Sound(next)
<1>1. s.projectRevision \in Nat /\ \A i \in DOMAIN s.checkpoints : s.checkpoints[i].origin \in Nat
  BY PointType DEF SessionValue
<1>2. \A i \in DOMAIN s.checkpoints : PointSound(next, s.checkpoints[i])
  BY <1>1 DEF Sound, PointSound
<1> QED
  BY <1>1, <1>2 DEF Sound

\* A session continues itself: what a refused or a fleet command leaves.
LEMMA ContinuesItself ==
  ASSUME NEW s \in SessionValue PROVE Continues(s, s)
BY DEF Continues, SessionValue

\* A refusal leaves the session as it was.
LEMMA RefusedEffect ==
  ASSUME NEW s \in SessionValue, Sound(s), NEW code
  PROVE  Effect(s, Refused(s, code))
BY ContinuesItself DEF Effect, Refused, Outcome, FileFollows

\* An accepted command that keeps the project.
LEMMA AcceptedEffect ==
  ASSUME NEW s, NEW next, Sound(next), Continues(s, next), next.project = s.project
  PROVE  Effect(s, Accepted(next))
BY DEF Effect, Accepted, Outcome, FileFollows

\* A command that writes the project of its new session to the file.
LEMMA SaveThenEffect ==
  ASSUME NEW s \in SessionValue, Sound(s), NEW next, Sound(next), Continues(s, next), NEW v,
         NEW o \in SaveThen(s, next.project, next, v)
  PROVE  Effect(s, o)
<1>1. Effect(s, Refused(s, "command_rejected"))
  BY RefusedEffect
<1>2. UseProjectFile => Effect(s, Outcome("ok", next, {next.project}, v))
  BY DEF Effect, Outcome, FileFollows
<1>3. ~UseProjectFile => Effect(s, Outcome("ok", next, {}, v))
  BY DEF Effect, Outcome, FileFollows
<1> QED
  BY <1>1, <1>2, <1>3 DEF SaveThen

\* The fields of a changed session value.
LEMMA SessionParts ==
  ASSUME NEW s \in SessionValue
  PROVE  /\ s.project \in Project /\ s.sim \in Simulation /\ s.sim.paused \in BOOLEAN
         /\ s.projectRevision \in Nat \ {0} /\ s.projectOrigin \in Nat /\ s.generation \in Nat
         /\ s.checkpoints \in Seq(Checkpoint) /\ s.lastCheckpoint \in Nat
         /\ s.project.demand \in Demands /\ s.sim.project \in Project
BY DEF SessionValue, Simulation, Project

\* Only the simulation and the generation change.
LEMMA SimChangeEffect ==
  ASSUME NEW s \in SessionValue, Sound(s), NEW sim, FollowsProject(sim, s.project),
         NEW next,
         \/ next = [s EXCEPT !.sim = sim]
         \/ next = [s EXCEPT !.sim = sim, !.generation = @ + 1]
  PROVE  Effect(s, Accepted(next)) /\ SamePoints(s, next)
<1>1. /\ next.sim = sim /\ next.project = s.project /\ next.projectRevision = s.projectRevision
      /\ next.projectOrigin = s.projectOrigin /\ next.checkpoints = s.checkpoints
      /\ next.lastCheckpoint = s.lastCheckpoint
      /\ next.generation \in {s.generation, s.generation + 1}
  BY DEF SessionValue
<1>2. Sound(next)
  BY <1>1, SoundWithSim
<1>3. Continues(s, next)
  BY <1>1, SessionParts DEF Continues
<1> QED
  BY <1>1, <1>2, <1>3, AcceptedEffect DEF SamePoints

\* The pause command.
LEMMA PauseEffect ==
  ASSUME NEW s \in SessionValue, Sound(s), NEW paused \in BOOLEAN, NEW o \in Pause(s, paused)
  PROVE  Effect(s, o) /\ SamePoints(s, o.session)
<1> DEFINE sim == [s.sim EXCEPT !.paused = paused]
<1>1. FollowsProject(sim, s.project)
  BY PausedFollows, SessionParts DEF Sound
<1>2. o = Accepted([s EXCEPT !.sim = sim])
  BY DEF Pause
<1>3. o.session = [s EXCEPT !.sim = sim]
  BY <1>2 DEF Accepted, Outcome
<1> HIDE DEF sim
<1> QED
  BY <1>1, <1>2, <1>3, SimChangeEffect

\* resetSimulation.
LEMMA ResetEffect ==
  ASSUME NEW s \in SessionValue, Sound(s), NEW o \in Reset(s)
  PROVE  Effect(s, o) /\ SamePoints(s, o.session)
<1> DEFINE sim == NewFleet(s.project, s.sim.paused)
<1>1. FollowsProject(sim, s.project)
  BY NewFleetFollows, SessionParts
<1>2. o = Accepted([s EXCEPT !.sim = sim, !.generation = @ + 1])
  BY DEF Reset
<1>3. o.session = [s EXCEPT !.sim = sim, !.generation = @ + 1]
  BY <1>2 DEF Accepted, Outcome
<1> HIDE DEF sim
<1> QED
  BY <1>1, <1>2, <1>3, SimChangeEffect

\* The demo command: the demand goes to the demo and comes back.
LEMMA DemoEffect ==
  ASSUME NEW s \in SessionValue, Sound(s), NEW o \in Demo(s)
  PROVE  Effect(s, o) /\ SamePoints(s, o.session)
<1> DEFINE sim == DemoFleet(s.project)
<1>1. FollowsProject(sim, s.project)
  BY DemoFollows, SessionParts
<1>2. CASE DemoAvailable(s.project)
  <2>1. o = Accepted([s EXCEPT !.sim = sim, !.generation = @ + 1])
    BY <1>2 DEF Demo
  <2>2. o.session = [s EXCEPT !.sim = sim, !.generation = @ + 1]
    BY <2>1 DEF Accepted, Outcome
  <2> HIDE DEF sim
  <2> QED
    BY <1>1, <2>1, <2>2, SimChangeEffect
<1>3. CASE ~DemoAvailable(s.project)
  <2>1. o = Refused(s, "command_rejected") /\ o.session = s
    BY <1>3 DEF Demo, Refused, Outcome
  <2> QED
    BY <2>1, RefusedEffect DEF SamePoints
<1> QED
  BY <1>2, <1>3

\* The commands that change only the inside of the simulation.
LEMMA FleetEffect ==
  ASSUME NEW s \in SessionValue, Sound(s), NEW o \in Fleet(s)
  PROVE  Effect(s, o) /\ SamePoints(s, o.session)
<1>1. o.session = s
  BY DEF Fleet, Accepted, Refused, Outcome
<1>2. Effect(s, Accepted(s)) /\ Effect(s, Refused(s, "command_rejected"))
  BY RefusedEffect, AcceptedEffect, ContinuesItself
<1> QED
  BY <1>1, <1>2 DEF Fleet, SamePoints

\* The project changes under a new revision that is its origin.
LEMMA ProjectChangeEffect ==
  ASSUME NEW s \in SessionValue, Sound(s), NEW next,
         next.projectRevision = s.projectRevision + 1, next.projectOrigin = s.projectRevision + 1,
         next.generation \in {s.generation, s.generation + 1},
         SamePoints(s, next), FollowsProject(next.sim, next.project),
         NEW v, NEW o \in SaveThen(s, next.project, next, v)
  PROVE  Effect(s, o) /\ SamePoints(s, o.session)
<1>1. Sound(next)
  BY SoundWithProject DEF SamePoints
<1>2. Continues(s, next)
  BY SessionParts DEF Continues, SamePoints
<1>3. o.session \in {s, next}
  BY DEF SaveThen, Outcome, Refused
<1> QED
  BY <1>1, <1>2, <1>3, SaveThenEffect DEF SamePoints

\* A demand change of a session, with its redistribution.
LEMMA WithDemandSound ==
  ASSUME NEW s \in SessionValue, Sound(s), NEW d \in Demands
  PROVE  LET next == WithDemand(s, d)
         IN  /\ Sound(next) /\ next.project = [s.project EXCEPT !.demand = d]
             /\ next.project.net = s.project.net
             /\ next.projectRevision = s.projectRevision + 1 /\ next.projectOrigin = s.projectRevision + 1
             /\ next.generation = s.generation /\ SamePoints(s, next)
             /\ next.lastCheckpoint = s.lastCheckpoint
             /\ FollowsProject(next.sim, next.project)
<1> DEFINE next == WithDemand(s, d)
           updated == [s.project EXCEPT !.demand = d]
           sim == ConfigureRedistribution(s.sim, updated)
<1>1. /\ next.project = updated /\ next.sim = sim
      /\ next.projectRevision = s.projectRevision + 1 /\ next.projectOrigin = s.projectRevision + 1
      /\ next.generation = s.generation /\ SamePoints(s, next)
  BY DEF WithDemand, SessionValue, SamePoints
<1>2. sim.project = updated
  BY RedistributionFollows, SessionParts DEF Sound
<1>3. FollowsProject(sim, updated) /\ updated.net = s.project.net
  BY <1>2, ProjectParts, SessionParts DEF FollowsProject
<1> HIDE DEF next, sim, updated
<1>4. Sound(next)
  BY <1>1, <1>3, SoundWithProject DEF SamePoints
<1> QED
  BY <1>1, <1>3, <1>4 DEF next, updated, SamePoints

\* The end of the demo: the weights follow the project again.
LEMMA DemoEndSound ==
  ASSUME NEW s \in SessionValue, Sound(s), NEW next,
         next = [s EXCEPT !.sim = [ConfigureRedistribution(s.sim, s.project) EXCEPT !.demo = FALSE]]
  PROVE  /\ next \in SessionValue /\ Sound(next) /\ Continues(s, next) /\ SamePoints(s, next)
         /\ next.project = s.project /\ next.projectRevision = s.projectRevision
<1> DEFINE p == s.project
           configured == ConfigureRedistribution(s.sim, p)
           sim == [configured EXCEPT !.demo = FALSE]
<1>1. p \in Project /\ p.demand \in Demands /\ s.sim \in Simulation /\ FollowsProject(s.sim, p)
  BY SessionParts DEF Sound
<1>2. configured.project = p /\ configured \in Simulation
  <2>1. [p EXCEPT !.demand = p.demand] = p
    BY <1>1, ProjectParts
  <2>2. configured.project = p
    BY <1>1, <2>1, RedistributionFollows
  <2>3. configured \in Simulation
    BY <1>1 DEF ConfigureRedistribution, Simulation, Project
  <2> QED
    BY <2>2, <2>3
<1>3. sim \in Simulation /\ sim.project = p
  <2> HIDE DEF configured
  <2> QED
    BY <1>2 DEF Simulation
<1>4. FollowsProject(sim, p)
  BY <1>1, <1>3, ProjectParts DEF FollowsProject
<1>5. next = [s EXCEPT !.sim = sim]
  OBVIOUS
<1> HIDE DEF sim, p
<1>6. /\ next \in SessionValue
      /\ next.project = s.project /\ next.projectRevision = s.projectRevision
      /\ next.projectOrigin = s.projectOrigin /\ SamePoints(s, next)
      /\ next.generation = s.generation /\ next.sim = sim
  BY <1>3, <1>5 DEF SessionValue, SamePoints
<1>7. Sound(next)
  BY <1>4, <1>6, SoundWithSim DEF p, SamePoints
<1>8. Continues(s, next)
  BY <1>6, SessionParts DEF Continues, SamePoints
<1> QED
  BY <1>6, <1>7, <1>8

\* setDemand.
LEMMA DemandEffect ==
  ASSUME NEW s \in SessionValue, Sound(s), NEW d \in Demands, NEW o \in Demand(s, d)
  PROVE  Effect(s, o) /\ SamePoints(s, o.session)
<1> DEFINE next == WithDemand(s, d)
<1>1. CASE s.sim.demo
  <2>1. o = Refused(s, "command_rejected") /\ o.session = s
    BY <1>1 DEF Demand, Refused, Outcome
  <2> QED
    BY <2>1, RefusedEffect DEF SamePoints
<1>2. CASE ~s.sim.demo
  <2>1. /\ next.project = [s.project EXCEPT !.demand = d]
        /\ next.projectRevision = s.projectRevision + 1 /\ next.projectOrigin = s.projectRevision + 1
        /\ next.generation = s.generation /\ SamePoints(s, next)
        /\ FollowsProject(next.sim, next.project)
    BY WithDemandSound
  <2>2. o \in SaveThen(s, next.project, next, FALSE)
    BY <1>2, <2>1 DEF Demand
  <2> HIDE DEF next
  <2> QED
    BY <2>1, <2>2, ProjectChangeEffect
<1> QED
  BY <1>1, <1>2

\* applyProject, also with a stale base and to the same project.
LEMMA ApplyProjectEffect ==
  ASSUME NEW s \in SessionValue, Sound(s), NEW p \in Project, NEW r, NEW o \in ApplyProject(s, p, r)
  PROVE  Effect(s, o) /\ SamePoints(s, o.session)
<1> DEFINE next == ReplaceProject(s, p)
<1>1. CASE \E code : o = Refused(s, code)
  <2>1. o.session = s
    BY <1>1 DEF Refused, Outcome
  <2> QED
    BY <1>1, <2>1, RefusedEffect DEF SamePoints
<1>2. CASE o = Accepted(s)
  <2>1. o.session = s
    BY <1>2 DEF Accepted, Outcome
  <2> QED
    BY <1>2, <2>1, AcceptedEffect, ContinuesItself DEF SamePoints
<1>3. CASE o \in SaveThen(s, p, next, TRUE)
  <2>1. /\ next.project = p /\ next.sim = NewFleet(p, TRUE)
        /\ next.projectRevision = s.projectRevision + 1 /\ next.projectOrigin = s.projectRevision + 1
        /\ next.generation = s.generation + 1 /\ SamePoints(s, next)
    BY DEF ReplaceProject, SessionValue, SamePoints
  <2>2. FollowsProject(next.sim, next.project)
    BY <2>1, NewFleetFollows
  <2> HIDE DEF next
  <2> QED
    BY <1>3, <2>1, <2>2, ProjectChangeEffect
<1> QED
  BY <1>1, <1>2, <1>3 DEF ApplyProject

\* A rewind brings back the project and the simulation of its save point.
LEMMA RewindToEffect ==
  ASSUME NEW s \in SessionValue, Sound(s), NEW i \in DOMAIN s.checkpoints,
         NEW o \in RewindTo(s, s.checkpoints[i])
  PROVE  /\ Effect(s, o) /\ SamePoints(s, o.session)
         /\ o.code = "ok" => /\ o.session.project = s.checkpoints[i].project
                             /\ o.session.sim = [s.checkpoints[i].sim EXCEPT !.paused = TRUE]
<1> DEFINE entry == s.checkpoints[i]
           sim == [entry.sim EXCEPT !.paused = TRUE]
           base == [s EXCEPT !.sim = sim, !.generation = @ + 1]
           next == [base EXCEPT !.project = entry.project, !.projectOrigin = entry.origin, !.projectRevision = @ + 1]
<1>1. /\ entry.origin \in Nat /\ entry.project \in Project /\ entry.sim \in Simulation
      /\ PointSound(s, entry)
  BY PointType DEF Sound
<1>2. FollowsProject(sim, entry.project)
  BY <1>1, PausedFollows DEF PointSound
<1>3. CASE entry.origin = s.projectOrigin
  <2>1. entry.project = s.project
    BY <1>1, <1>3 DEF PointSound
  <2>2. o = Accepted(base)
    BY <1>3 DEF RewindTo
  <2>3. o.session = base /\ base.project = s.project /\ base.sim = sim
    BY <2>2 DEF Accepted, Outcome, SessionValue
  <2> HIDE DEF sim, entry
  <2>4. Effect(s, Accepted(base)) /\ SamePoints(s, base)
    BY <1>2, <2>1, SimChangeEffect
  <2> HIDE DEF base
  <2> QED
    BY <2>1, <2>2, <2>3, <2>4 DEF sim, entry
<1>4. CASE entry.origin # s.projectOrigin
  <2>1. /\ next.project = entry.project /\ next.sim = sim /\ next.projectOrigin = entry.origin
        /\ next.projectRevision = s.projectRevision + 1 /\ next.generation = s.generation + 1
        /\ SamePoints(s, next)
    BY DEF SessionValue, SamePoints
  <2>2. o \in SaveThen(s, next.project, next, TRUE)
    BY <1>4, <2>1 DEF RewindTo
  <2> HIDE DEF next
  <2>3. \A j \in DOMAIN s.checkpoints : PointSound(next, s.checkpoints[j])
    <3> SUFFICES ASSUME NEW j \in DOMAIN s.checkpoints PROVE PointSound(next, s.checkpoints[j])
      OBVIOUS
    <3>1. s.checkpoints[j].origin \in Nat /\ PointSound(s, s.checkpoints[j])
      BY PointType DEF Sound
    <3>2. s.checkpoints[j].origin = entry.origin => s.checkpoints[j].project = entry.project
      BY DEF Sound
    <3> QED
      BY <2>1, <3>1, <3>2, SessionParts DEF PointSound
  <2>4. Sound(next)
    BY <1>1, <1>2, <2>1, <2>3, SessionParts DEF Sound, SamePoints, PointSound
  <2>5. Continues(s, next)
    BY <2>1, SessionParts DEF Continues, SamePoints
  <2>6. Effect(s, o)
    BY <2>2, <2>4, <2>5, SaveThenEffect
  <2>7. o.session \in {s, next} /\ (o.code = "ok" => o.session = next)
    BY <2>2 DEF SaveThen, Outcome, Refused
  <2> QED
    BY <2>1, <2>6, <2>7 DEF SamePoints
<1> QED
  BY <1>3, <1>4

\* rewind: it restores the capture with this ID, paused.
LEMMA RewindEffect ==
  ASSUME NEW s \in SessionValue, Sound(s), NEW id, NEW o \in Rewind(s, id)
  PROVE  /\ Effect(s, o) /\ SamePoints(s, o.session)
         /\ o.code = "ok" =>
              \E i \in DOMAIN s.checkpoints :
                /\ s.checkpoints[i].id = id
                /\ o.session.project = s.checkpoints[i].project
                /\ o.session.sim = [s.checkpoints[i].sim EXCEPT !.paused = TRUE]
<1>1. CASE o = Refused(s, "command_rejected")
  <2>1. o.session = s /\ o.code # "ok"
    BY <1>1 DEF Refused, Outcome
  <2> QED
    BY <1>1, <2>1, RefusedEffect DEF SamePoints
<1>2. CASE \E i \in DOMAIN s.checkpoints : s.checkpoints[i].id = id /\ o \in RewindTo(s, s.checkpoints[i])
  <2>1. PICK i \in DOMAIN s.checkpoints : s.checkpoints[i].id = id /\ o \in RewindTo(s, s.checkpoints[i])
    BY <1>2
  <2>2. /\ Effect(s, o) /\ SamePoints(s, o.session)
        /\ o.code = "ok" => /\ o.session.project = s.checkpoints[i].project
                            /\ o.session.sim = [s.checkpoints[i].sim EXCEPT !.paused = TRUE]
    BY <2>1, RewindToEffect
  <2> QED
    BY <2>1, <2>2
<1> QED
  BY <1>1, <1>2 DEF Rewind

\* The save points after captureCheckpoint: a new one at the end, and the
\* others in their order, without the first one at the limit.
Cut(points) == IF Len(points) >= CheckpointLimit THEN 1 ELSE 0

Captured(s) == [id |-> s.lastCheckpoint + 1, origin |-> s.projectOrigin, project |-> s.project, sim |-> s.sim]

Kept(points) == IF Len(points) >= CheckpointLimit THEN Tail(points) ELSE points

\* captureCheckpoint has one outcome: the save point is appended, the oldest one may go.
LEMMA CaptureOutcome ==
  ASSUME NEW s, NEW o \in CaptureCheckpoint(s)
  PROVE  /\ o = Accepted(o.session)
         /\ o.session = [s EXCEPT !.lastCheckpoint = @ + 1,
                                  !.checkpoints = Append(Kept(s.checkpoints), Captured(s))]
<1> DEFINE next == [s EXCEPT !.lastCheckpoint = @ + 1, !.checkpoints = Append(Kept(s.checkpoints), Captured(s))]
<1>1. o = Accepted(next)
  BY DEF CaptureCheckpoint, Kept, Captured
<1> HIDE DEF next
<1>2. o.session = next
  BY <1>1 DEF Accepted, Outcome
<1> QED
  BY <1>1, <1>2 DEF next

\* The fields of the session value after a new save point.
LEMMA CaptureFields ==
  ASSUME NEW s \in SessionValue, NEW o \in CaptureCheckpoint(s)
  PROVE  /\ o.session.checkpoints = Append(Kept(s.checkpoints), Captured(s))
         /\ o.session.lastCheckpoint = s.lastCheckpoint + 1
         /\ o.session.project = s.project /\ o.session.sim = s.sim
         /\ o.session.projectRevision = s.projectRevision
         /\ o.session.projectOrigin = s.projectOrigin /\ o.session.generation = s.generation
<1> DEFINE points == Append(Kept(s.checkpoints), Captured(s))
           next == [s EXCEPT !.lastCheckpoint = @ + 1, !.checkpoints = points]
<1>1. o.session = next
  BY CaptureOutcome
<1> HIDE DEF points
<1>2. /\ next.checkpoints = points /\ next.lastCheckpoint = s.lastCheckpoint + 1
      /\ next.project = s.project /\ next.sim = s.sim
      /\ next.projectRevision = s.projectRevision
      /\ next.projectOrigin = s.projectOrigin /\ next.generation = s.generation
  BY DEF SessionValue
<1> HIDE DEF next
<1> QED
  BY <1>1, <1>2 DEF points

\* captureCheckpoint: the save points after it are the kept ones and the new one.
LEMMA CapturePoints ==
  ASSUME NEW s \in SessionValue, NEW o \in CaptureCheckpoint(s)
  PROVE  LET old == s.checkpoints
             new == o.session.checkpoints
         IN  /\ Len(new) = Len(old) - Cut(old) + 1
             /\ DOMAIN new = 1 .. Len(new)
             /\ \A i \in 1 .. (Len(new) - 1) : i + Cut(old) \in DOMAIN old /\ new[i] = old[i + Cut(old)]
             /\ new[Len(new)] = Captured(s)
<1> DEFINE old == s.checkpoints
           kept == Kept(old)
           new == Append(kept, Captured(s))
<1>1. old \in Seq(Checkpoint) /\ Len(old) \in Nat /\ CheckpointLimit \in Nat \ {0}
  BY SessionParts, LimitAssumption
<1>2. Captured(s) \in Checkpoint
  BY SessionParts DEF Captured, Checkpoint
<1>3. /\ kept \in Seq(Checkpoint) /\ Len(kept) = Len(old) - Cut(old)
      /\ \A i \in 1 .. Len(kept) : i + Cut(old) \in DOMAIN old /\ kept[i] = old[i + Cut(old)]
  <2>1. CASE Len(old) >= CheckpointLimit
    <3>1. old # <<>>
      BY <1>1, <2>1
    <3> QED
      BY <1>1, <2>1, <3>1 DEF Cut, Kept
  <2>2. CASE ~(Len(old) >= CheckpointLimit)
    BY <1>1, <2>2 DEF Cut, Kept
  <2> QED
    BY <2>1, <2>2
<1>4. o.session.checkpoints = new
  BY CaptureFields
<1> HIDE DEF kept
<1>5. /\ Len(new) = Len(kept) + 1 /\ new[Len(new)] = Captured(s) /\ DOMAIN new = 1 .. Len(new)
      /\ \A i \in 1 .. Len(kept) : new[i] = kept[i]
  BY <1>2, <1>3
<1>6. Len(new) - 1 = Len(kept)
  BY <1>3, <1>5
<1> HIDE DEF new
<1> QED
  BY <1>3, <1>4, <1>5, <1>6

\* A save point is the new one or one that was there.
LEMMA CaptureSources ==
  ASSUME NEW s \in SessionValue, NEW o \in CaptureCheckpoint(s)
  PROVE  \A i \in DOMAIN o.session.checkpoints :
           \/ o.session.checkpoints[i] = Captured(s)
           \/ \E j \in DOMAIN s.checkpoints : o.session.checkpoints[i] = s.checkpoints[j]
<1> DEFINE old == s.checkpoints
           new == o.session.checkpoints
<1> SUFFICES ASSUME NEW i \in DOMAIN new PROVE new[i] = Captured(s) \/ \E j \in DOMAIN old : new[i] = old[j]
  OBVIOUS
<1>1. old \in Seq(Checkpoint)
  BY SessionParts
<1>2. Cut(old) \in {0, 1}
  BY DEF Cut
<1>3. i \in 1 .. Len(new) /\ Len(new) \in Nat
  BY <1>1, <1>2, CapturePoints
<1>4. CASE i = Len(new)
  BY <1>4, CapturePoints
<1>5. CASE i # Len(new)
  <2>1. i \in 1 .. (Len(new) - 1)
    BY <1>3, <1>5
  <2> QED
    BY <2>1, CapturePoints
<1> QED
  BY <1>4, <1>5

\* captureCheckpoint takes the next ID.
LEMMA CaptureEffect ==
  ASSUME NEW s \in SessionValue, Sound(s), NEW o \in CaptureCheckpoint(s)
  PROVE  Effect(s, o) /\ o.session.lastCheckpoint = s.lastCheckpoint + 1
<1> DEFINE next == o.session
           old == s.checkpoints
           new == next.checkpoints
<1>1. /\ o = Accepted(next) /\ next.lastCheckpoint = s.lastCheckpoint + 1
      /\ next.project = s.project /\ next.sim = s.sim /\ next.projectRevision = s.projectRevision
      /\ next.projectOrigin = s.projectOrigin /\ next.generation = s.generation
  BY CaptureOutcome, CaptureFields
<1>2. \A i \in DOMAIN new : new[i] = Captured(s) \/ \E j \in DOMAIN old : new[i] = old[j]
  BY CaptureSources
<1>3. PointSound(s, Captured(s))
  BY DEF Sound, PointSound, Captured
<1>4. \A j \in DOMAIN old : old[j].origin = Captured(s).origin => old[j].project = Captured(s).project
  BY DEF Sound, PointSound, Captured
<1> HIDE DEF next
<1>5. \A i \in DOMAIN new : PointSound(next, new[i])
  BY <1>1, <1>2, <1>3 DEF Sound, PointSound
<1>6. \A i, j \in DOMAIN new : new[i].origin = new[j].origin => new[i].project = new[j].project
  BY <1>2, <1>4 DEF Sound
<1>7. Sound(next)
  BY <1>1, <1>5, <1>6 DEF Sound
<1>8. Continues(s, next)
  BY <1>1, SessionParts DEF Continues
<1> QED
  BY <1>1, <1>7, <1>8, AcceptedEffect DEF next

\* Session.apply keeps the session sound, whatever the command and its
\* outcome.
LEMMA OutcomesEffect ==
  ASSUME NEW s \in SessionValue, Sound(s), NEW b \in Body, NEW o \in Outcomes(s, b)
  PROVE  /\ Effect(s, o)
         /\ b.action # "checkpoint" => SamePoints(s, o.session)
         /\ b.action = "checkpoint" => o \in CaptureCheckpoint(s)
         /\ b.action = "rewind" => o \in Rewind(s, b.checkpoint)
<1>1. b.action \in ActionNames /\ b.paused \in BOOLEAN /\ b.demand \in Demands /\ b.project \in Project
  BY DEF Body
<1>2. CASE b.action = "fleet"
  BY <1>2, FleetEffect DEF Outcomes
<1>3. CASE b.action = "pause"
  BY <1>1, <1>3, PauseEffect DEF Outcomes
<1>4. CASE b.action = "reset"
  BY <1>4, ResetEffect DEF Outcomes
<1>5. CASE b.action = "demo"
  BY <1>5, DemoEffect DEF Outcomes
<1>6. CASE b.action = "demand"
  BY <1>1, <1>6, DemandEffect DEF Outcomes
<1>7. CASE b.action = "project"
  BY <1>1, <1>7, ApplyProjectEffect DEF Outcomes
<1>8. CASE b.action = "checkpoint"
  BY <1>8, CaptureEffect DEF Outcomes
<1>9. CASE b.action = "rewind"
  BY <1>9, RewindEffect DEF Outcomes
<1> QED
  BY <1>1, <1>2, <1>3, <1>4, <1>5, <1>6, <1>7, <1>8, <1>9 DEF ActionNames
=============================================================================
