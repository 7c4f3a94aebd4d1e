-------------------------- MODULE SavePointsProofs --------------------------
(***************************************************************************)
(* The properties of the save points of one server process                 *)
(* (internal/session/checkpoint.go) for every set of networks, demand      *)
(* settings and policies, every limit of retained save points and every    *)
(* bound of the runs.                                                      *)
(***************************************************************************)
EXTENDS SavePoints, SessionCommandProofs

-----------------------------------------------------------------------------
(* The inductive invariant.                                                *)

\* Clients saw each revision with one project, and none later than the
\* current one.
ShownInv ==
  /\ <<session.projectRevision, session.project>> \in shown
  /\ \A x \in shown : x[1] \in Nat /\ x[1] <= session.projectRevision
  /\ RevisionIdentifiesProject

\* A retained save point holds what the session held when it was made.
CapturesInv ==
  /\ DOMAIN captures = 1 .. session.lastCheckpoint
  /\ \A i \in DOMAIN session.checkpoints :
       LET point == session.checkpoints[i]
       IN  /\ point.id \in 1 .. session.lastCheckpoint
           /\ captures[point.id].project = point.project
           /\ captures[point.id].sim = point.sim

Inv ==
  /\ session \in SessionValue
  /\ Sound(session)
  /\ ShownInv
  /\ NewestPointsRetained
  /\ captures \in Seq([project : Project, sim : Simulation])
  /\ CapturesInv
  /\ RewindRestoresCapture

-----------------------------------------------------------------------------
(* Every action keeps it.                                                  *)

\* Nothing is loaded, captured or rewound before the first command.
LEMMA StartInv == Init => Inv
<1> SUFFICES ASSUME Init PROVE Inv
  OBVIOUS
<1>1. session \in SessionValue
  BY StartProjectType, ProjectAssumption DEF Init
<1>2. /\ session.project = DefaultProject /\ session.projectRevision = 1 /\ session.projectOrigin = 1
      /\ session.sim = NewFleet(DefaultProject, FALSE)
      /\ session.checkpoints = <<>> /\ session.lastCheckpoint = 0
  BY DEF Init, StartProject
<1>3. FollowsProject(session.sim, session.project)
  BY <1>2, NewFleetFollows, ProjectAssumption
<1>4. DOMAIN session.checkpoints = {} /\ Len(session.checkpoints) = 0
  BY <1>2
<1>5. Sound(session)
  <2>1. session.projectOrigin <= session.projectRevision
    BY <1>2
  <2> QED
    BY <1>3, <1>4, <2>1, Zenon DEF Sound
<1>6. ShownInv
  BY <1>2 DEF Init, ShownInv, RevisionIdentifiesProject
<1>7. NewestPointsRetained
  BY <1>2, <1>4, LimitAssumption DEF NewestPointsRetained
<1>8. captures \in Seq([project : Project, sim : Simulation]) /\ DOMAIN captures = {}
  BY DEF Init
<1>9. CapturesInv
  <2>1. 1 .. session.lastCheckpoint = {}
    BY <1>2
  <2> QED
    BY <1>4, <1>8, <2>1 DEF CapturesInv
<1>10. RewindRestoresCapture
  BY DEF Init, RewindRestoresCapture
<1> QED
  BY <1>1, <1>5, <1>6, <1>7, <1>8, <1>9, <1>10 DEF Inv

\* A command shows a new revision, or the project that its revision had.
LEMMA ShownStep ==
  ASSUME NEW next \in SessionValue, session \in SessionValue, ShownInv, Continues(session, next),
         session' = next, shown' = shown \cup {<<next.projectRevision, next.project>>}
  PROVE  ShownInv'
<1>1. session.projectRevision \in Nat /\ next.projectRevision \in Nat
  BY SessionParts
<1>2. <<session'.projectRevision, session'.project>> \in shown'
  OBVIOUS
<1>3. \A x \in shown' : x[1] \in Nat /\ x[1] <= session'.projectRevision
  BY <1>1 DEF ShownInv, Continues
<1>4. ASSUME NEW x \in shown, x[1] = next.projectRevision PROVE x[2] = next.project
  <2>1. next.projectRevision = session.projectRevision
    BY <1>1, <1>4 DEF ShownInv, Continues
  <2>2. next.project = session.project
    BY <2>1 DEF Continues
  <2>3. x[1] = <<session.projectRevision, session.project>>[1]
    BY <1>4, <2>1
  <2> QED
    BY <2>2, <2>3 DEF ShownInv, RevisionIdentifiesProject
<1>5. RevisionIdentifiesProject'
  <2> SUFFICES ASSUME NEW x \in shown', NEW y \in shown', x[1] = y[1] PROVE x[2] = y[2]
    BY DEF RevisionIdentifiesProject
  <2>1. CASE x \in shown /\ y \in shown
    BY <2>1 DEF ShownInv, RevisionIdentifiesProject
  <2>2. CASE x = <<next.projectRevision, next.project>> \/ y = <<next.projectRevision, next.project>>
    BY <1>4, <2>2
  <2> QED
    BY <2>1, <2>2
<1> QED
  BY <1>2, <1>3, <1>5 DEF ShownInv

\* NewestPointsRetained of a sequence of save points.
Newest(points, n) ==
  /\ Len(points) = IF n < CheckpointLimit THEN n ELSE CheckpointLimit
  /\ \A i \in DOMAIN points : points[i].id = n - Len(points) + i

\* A new save point is the newest one.
LEMMA NewestStep ==
  ASSUME session \in SessionValue, NewestPointsRetained,
         NEW o \in CaptureCheckpoint(session), session' = o.session
  PROVE  NewestPointsRetained'
<1> DEFINE old == session.checkpoints
           new == o.session.checkpoints
           n == session.lastCheckpoint
           cut == Cut(old)
<1>1. old \in Seq(Checkpoint) /\ Len(old) \in Nat /\ n \in Nat /\ CheckpointLimit \in Nat \ {0}
      /\ DOMAIN old = 1 .. Len(old)
  BY SessionParts, LimitAssumption
<1>2. o.session.lastCheckpoint = n + 1
  BY CaptureFields
<1>3. /\ Len(old) = IF n < CheckpointLimit THEN n ELSE CheckpointLimit
      /\ \A i \in DOMAIN old : old[i].id = n - Len(old) + i
  BY DEF NewestPointsRetained
<1>4. /\ Len(new) = Len(old) - cut + 1 /\ DOMAIN new = 1 .. Len(new)
      /\ \A i \in 1 .. (Len(new) - 1) : i + cut \in DOMAIN old /\ new[i] = old[i + cut]
      /\ new[Len(new)] = Captured(session)
  BY CapturePoints
<1>5. cut = IF Len(old) >= CheckpointLimit THEN 1 ELSE 0
  BY DEF Cut
<1>6. Captured(session).id = n + 1
  BY DEF Captured
<1>7. n = session.lastCheckpoint /\ new = o.session.checkpoints
  OBVIOUS
<1> HIDE DEF old, new, n, cut
<1>8. Len(new) = IF n + 1 < CheckpointLimit THEN n + 1 ELSE CheckpointLimit
  BY <1>1, <1>3, <1>4, <1>5
<1>9. ASSUME NEW i \in DOMAIN new PROVE new[i].id = (n + 1) - Len(new) + i
  <2>1. i \in 1 .. Len(new) /\ Len(new) \in Nat
    BY <1>1, <1>4, <1>8, <1>9
  <2>2. CASE i = Len(new)
    BY <1>1, <1>4, <1>6, <2>1, <2>2
  <2>3. CASE i # Len(new)
    <3>1. i \in 1 .. (Len(new) - 1)
      BY <2>1, <2>3
    <3>2. i + cut \in DOMAIN old /\ new[i] = old[i + cut]
      BY <1>4, <3>1
    <3>3. new[i].id = n - Len(old) + (i + cut)
      BY <1>3, <3>2
    <3> QED
      BY <1>1, <1>4, <1>5, <2>1, <3>3, SMTT(30)
  <2> QED
    BY <2>2, <2>3
<1>10. session'.checkpoints = new /\ session'.lastCheckpoint = n + 1
  BY <1>2, <1>7
<1>11. Newest(new, n + 1)
  BY <1>8, <1>9, Zenon DEF Newest
<1>12. Newest(session'.checkpoints, session'.lastCheckpoint)
  BY <1>10, <1>11, Zenon
<1> QED
  BY <1>12, Zenon DEF NewestPointsRetained, Newest

\* The new save point is recorded with what it holds.
LEMMA CaptureStep ==
  ASSUME session \in SessionValue, captures \in Seq([project : Project, sim : Simulation]), CapturesInv,
         NEW o \in CaptureCheckpoint(session), session' = o.session,
         captures' = Append(captures, [project |-> session.project, sim |-> session.sim])
  PROVE  captures' \in Seq([project : Project, sim : Simulation]) /\ CapturesInv'
<1> DEFINE old == session.checkpoints
           new == o.session.checkpoints
           n == session.lastCheckpoint
           capture == [project |-> session.project, sim |-> session.sim]
<1>1. n \in Nat /\ capture \in [project : Project, sim : Simulation]
  BY SessionParts
<1>2. o.session.lastCheckpoint = n + 1
  BY CaptureFields
<1>3. /\ DOMAIN captures = 1 .. n
      /\ \A i \in DOMAIN old : /\ old[i].id \in 1 .. n
                               /\ captures[old[i].id].project = old[i].project
                               /\ captures[old[i].id].sim = old[i].sim
  BY DEF CapturesInv
<1>4. \A i \in DOMAIN new : new[i] = Captured(session) \/ \E j \in DOMAIN old : new[i] = old[j]
  BY CaptureSources
<1>5. /\ Captured(session).id = n + 1
      /\ Captured(session).project = capture.project /\ Captured(session).sim = capture.sim
  BY DEF Captured
<1> HIDE DEF capture, old, new, n
<1>6. captures \in Seq([project : Project, sim : Simulation]) /\ Len(captures) = n
  BY <1>1, <1>3
<1>7. /\ captures' \in Seq([project : Project, sim : Simulation])
      /\ DOMAIN captures' = 1 .. (n + 1)
      /\ \A i \in 1 .. n : captures'[i] = captures[i]
      /\ captures'[n + 1] = capture
  BY <1>1, <1>6 DEF capture
<1>8. ASSUME NEW i \in DOMAIN new
      PROVE  /\ new[i].id \in 1 .. (n + 1)
             /\ captures'[new[i].id].project = new[i].project
             /\ captures'[new[i].id].sim = new[i].sim
  <2>1. CASE new[i] = Captured(session)
    BY <1>1, <1>5, <1>7, <2>1
  <2>2. CASE \E j \in DOMAIN old : new[i] = old[j]
    <3>1. PICK j \in DOMAIN old : new[i] = old[j]
      BY <2>2
    <3>2. old[j].id \in 1 .. n /\ captures[old[j].id].project = old[j].project /\ captures[old[j].id].sim = old[j].sim
      BY <1>3
    <3>3. captures'[old[j].id] = captures[old[j].id]
      BY <1>7, <3>2
    <3>4. old[j].id \in 1 .. (n + 1)
      BY <1>1, <3>2
    <3> QED
      BY <3>1, <3>2, <3>3, <3>4, Zenon
  <2> QED
    BY <1>4, <1>8, <2>1, <2>2
<1> QED
  BY <1>2, <1>7, <1>8 DEF CapturesInv, new, n

\* The other commands leave the save points alone.
LEMMA PointsKept ==
  ASSUME NewestPointsRetained, CapturesInv, captures' = captures, SamePoints(session, session')
  PROVE  NewestPointsRetained' /\ CapturesInv'
BY DEF SamePoints, NewestPointsRetained, CapturesInv

\* A rewind takes its save point from the captures.
LEMMA RewindStep ==
  ASSUME session \in SessionValue, CapturesInv, captures' = captures, NEW b \in Body, b.action = "rewind",
         NEW o, session' = o.session, last' = [action |-> b.action, checkpoint |-> b.checkpoint],
         NEW i \in DOMAIN session.checkpoints, session.checkpoints[i].id = b.checkpoint,
         o.session.project = session.checkpoints[i].project,
         o.session.sim = [session.checkpoints[i].sim EXCEPT !.paused = TRUE]
  PROVE  RewindRestoresCapture'
<1>1. /\ captures[b.checkpoint].project = session.checkpoints[i].project
      /\ captures[b.checkpoint].sim = session.checkpoints[i].sim
  BY DEF CapturesInv
<1>2. last'.checkpoint = b.checkpoint
  OBVIOUS
<1> QED
  BY <1>1, <1>2 DEF RewindRestoresCapture

\* Every accepted command keeps the invariant.
LEMMA CommandStep ==
  ASSUME Inv, NEW b \in Body, Command(b)
  PROVE  Inv'
<1>1. PICK o \in Outcomes(session, b) :
        /\ o.code = "ok" /\ session' = o.session
        /\ shown' = shown \cup {<<o.session.projectRevision, o.session.project>>}
        /\ captures' = IF b.action = "checkpoint"
                       THEN Append(captures, [project |-> session.project, sim |-> session.sim])
                       ELSE captures
        /\ last' = [action |-> b.action, checkpoint |-> b.checkpoint]
  BY DEF Command
<1>2. session \in SessionValue /\ Sound(session)
  BY DEF Inv
<1>3. o.session \in SessionValue
  <2>1. o \in OutcomeType
    BY <1>1, <1>2, OutcomesType
  <2> QED
    BY <2>1 DEF OutcomeType
<1>4. Effect(session, o)
  BY <1>1, <1>2, OutcomesEffect
<1>5. session' \in SessionValue /\ Sound(session')
  BY <1>1, <1>3, <1>4 DEF Effect
<1>6. ShownInv'
  BY <1>1, <1>2, <1>3, <1>4, ShownStep DEF Effect, Inv
<1>7. CASE b.action = "checkpoint"
  <2>1. o \in CaptureCheckpoint(session)
    BY <1>1, <1>2, <1>7, OutcomesEffect
  <2>2. captures' = Append(captures, [project |-> session.project, sim |-> session.sim])
    BY <1>1, <1>7
  <2>3. NewestPointsRetained'
    BY <1>1, <1>2, <2>1, NewestStep DEF Inv
  <2>4. captures' \in Seq([project : Project, sim : Simulation]) /\ CapturesInv'
    BY <1>1, <1>2, <2>1, <2>2, CaptureStep DEF Inv
  <2>5. RewindRestoresCapture'
    BY <1>1, <1>7 DEF RewindRestoresCapture
  <2> QED
    BY <1>5, <1>6, <2>3, <2>4, <2>5 DEF Inv, Sound, FollowsProject, PointSound
<1>8. CASE b.action # "checkpoint"
  <2>1. captures' = captures
    BY <1>1, <1>8
  <2>2. SamePoints(session, session')
    BY <1>1, <1>2, <1>8, OutcomesEffect
  <2>3. NewestPointsRetained' /\ CapturesInv'
    BY <2>1, <2>2, PointsKept DEF Inv
  <2>4. RewindRestoresCapture'
    <3>1. CASE b.action = "rewind"
      <4>1. o \in Rewind(session, b.checkpoint)
        BY <1>1, <1>2, <3>1, OutcomesEffect
      <4>2. PICK i \in DOMAIN session.checkpoints :
              /\ session.checkpoints[i].id = b.checkpoint
              /\ o.session.project = session.checkpoints[i].project
              /\ o.session.sim = [session.checkpoints[i].sim EXCEPT !.paused = TRUE]
        BY <1>1, <1>2, <4>1, RewindEffect
      <4> QED
        BY <1>1, <1>2, <2>1, <3>1, <4>2, RewindStep DEF Inv
    <3>2. CASE b.action # "rewind"
      BY <1>1, <3>2 DEF RewindRestoresCapture
    <3> QED
      BY <3>1, <3>2
  <2> QED
    BY <1>5, <1>6, <2>1, <2>3, <2>4 DEF Inv
<1> QED
  BY <1>7, <1>8

\* The end of the demo changes the weights and the demo flag only.
LEMMA DemoEndsStep ==
  ASSUME Inv, DemoEnds
  PROVE  Inv'
<1>1. session \in SessionValue /\ Sound(session)
  BY DEF Inv
<1>2. /\ session' \in SessionValue /\ Sound(session') /\ SamePoints(session, session')
      /\ session'.project = session.project /\ session'.projectRevision = session.projectRevision
  BY <1>1, DemoEndSound DEF DemoEnds
<1>3. captures' = captures /\ shown' = shown /\ last'.action # "rewind"
  BY DEF DemoEnds
<1>4. ShownInv'
  BY <1>2, <1>3 DEF Inv, ShownInv, RevisionIdentifiesProject
<1>5. NewestPointsRetained' /\ CapturesInv'
  BY <1>2, <1>3, PointsKept DEF Inv
<1> QED
  BY <1>2, <1>3, <1>4, <1>5 DEF Inv, RewindRestoresCapture

\* Every step keeps the invariant.
LEMMA StepInv == Inv /\ [Next]_vars => Inv'
<1> SUFFICES ASSUME Inv, [Next]_vars PROVE Inv'
  OBVIOUS
<1> USE DEF ActionNames
<1>0. /\ DefaultProject \in Project /\ DefaultProject.demand \in Demands
      /\ session.projectRevision \in Nat /\ session.lastCheckpoint \in Nat
  BY ProjectAssumption, SessionParts DEF Inv, Project
<1>1. CASE PauseCommand
  <2>1. PICK p \in BOOLEAN : Command([NoBody EXCEPT !.action = "pause", !.paused = p])
    BY <1>1 DEF PauseCommand
  <2>2. [NoBody EXCEPT !.action = "pause", !.paused = p] \in Body
    BY <1>0 DEF NoBody, Body
  <2> QED
    BY <2>1, <2>2, CommandStep
<1>2. CASE ResetCommand
  <2>1. [NoBody EXCEPT !.action = "reset"] \in Body
    BY <1>0 DEF NoBody, Body
  <2> QED
    BY <1>2, <2>1, CommandStep DEF ResetCommand
<1>3. CASE DemoCommand
  <2>1. [NoBody EXCEPT !.action = "demo"] \in Body
    BY <1>0 DEF NoBody, Body
  <2> QED
    BY <1>3, <2>1, CommandStep DEF DemoCommand
<1>4. CASE DemandCommand
  <2>1. PICK d \in Demands : Command([NoBody EXCEPT !.action = "demand", !.demand = d])
    BY <1>4 DEF DemandCommand
  <2>2. [NoBody EXCEPT !.action = "demand", !.demand = d] \in Body
    BY <1>0 DEF NoBody, Body
  <2> QED
    BY <2>1, <2>2, CommandStep
<1>5. CASE ProjectCommand
  <2>1. PICK p \in Project :
          Command([NoBody EXCEPT !.action = "project", !.project = p, !.projectRevision = session.projectRevision])
    BY <1>5 DEF ProjectCommand
  <2>2. [NoBody EXCEPT !.action = "project", !.project = p, !.projectRevision = session.projectRevision] \in Body
    BY <1>0 DEF NoBody, Body
  <2> QED
    BY <2>1, <2>2, CommandStep
<1>6. CASE CheckpointCommand
  <2>1. [NoBody EXCEPT !.action = "checkpoint"] \in Body
    BY <1>0 DEF NoBody, Body
  <2> QED
    BY <1>6, <2>1, CommandStep DEF CheckpointCommand
<1>7. CASE RewindCommand
  <2>1. PICK i \in 1 .. session.lastCheckpoint : Command([NoBody EXCEPT !.action = "rewind", !.checkpoint = i])
    BY <1>7 DEF RewindCommand
  <2>2. i \in Nat
    BY <1>0
  <2>3. [NoBody EXCEPT !.action = "rewind", !.checkpoint = i] \in Body
    BY <1>0, <2>2 DEF NoBody, Body
  <2> QED
    BY <2>1, <2>3, CommandStep
<1>8. CASE DemoEnds
  BY <1>8, DemoEndsStep
<1>9. CASE UNCHANGED vars
  BY <1>9 DEF vars, Inv, ShownInv, RevisionIdentifiesProject, NewestPointsRetained, CapturesInv, RewindRestoresCapture
<1> QED
  BY <1>1, <1>2, <1>3, <1>4, <1>5, <1>6, <1>7, <1>8, <1>9 DEF Next

\* The invariant holds in every reachable state.
LEMMA InvHolds == Spec => []Inv
<1>1. Init => Inv
  BY StartInv
<1>2. Inv /\ [Next]_vars => Inv'
  BY StepInv
<1> QED
  BY <1>1, <1>2, PTL DEF Spec

-----------------------------------------------------------------------------
(* The properties.                                                         *)

\* A project revision and a project origin (session.go, checkpoint.go) each
\* stand for one project: a client that keys its topology by the revision,
\* and a rewind that skips the project of equal origin, never get another one.
THEOREM ProjectsStayIdentified == Spec => []ProjectsIdentified
<1>1. Inv => ProjectsIdentified
  BY DEF Inv, ShownInv, ProjectsIdentified, OriginIdentifiesProject, Sound, PointSound
<1> QED
  BY <1>1, InvHolds, PTL

\* captureCheckpoint retains the newest save points, in the order of their
\* IDs, and gives no ID twice, for every limit.
THEOREM NewestPointsStay == Spec => []NewestPointsRetained
<1>1. Inv => NewestPointsRetained
  BY DEF Inv
<1> QED
  BY <1>1, InvHolds, PTL

\* rewind restores the project and the simulation of the moment when its save
\* point was made, whatever commands ran in between.
THEOREM RewindsRestore == Spec => []RewindRestoresCapture
<1>1. Inv => RewindRestoresCapture
  BY DEF Inv
<1> QED
  BY <1>1, InvHolds, PTL
=============================================================================
