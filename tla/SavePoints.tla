----------------------------- MODULE SavePoints -----------------------------
(***************************************************************************)
(* One server process seen from its commands only: the project, its        *)
(* revision and its origin, the simulation and the retained save points    *)
(* (internal/session/checkpoint.go and the handlers of session.go).  Every *)
(* command that changes one of these is an action; the receipts and the    *)
(* state saves around them are in Session.                                 *)
(***************************************************************************)
EXTENDS SessionCommands

CONSTANTS
  MaxProjectRevision,  \* bound on project revisions
  MaxGeneration,       \* bound on generations
  MaxCheckpoint        \* bound on issued save point IDs

ASSUME BoundAssumption ==
  MaxProjectRevision \in Nat /\ MaxGeneration \in Nat /\ MaxCheckpoint \in Nat

VARIABLES
  session,   \* the session value
  shown,     \* history: each <<project revision, project>> that clients could load
  captures,  \* history: the project and simulation of each save point when it was made
  last       \* history: the last accepted command

vars == <<session, shown, captures, last>>

Init ==
  /\ session = StartProject(DefaultProject)
  /\ shown = {<<1, DefaultProject>>}
  /\ captures = <<>>
  /\ last = [action |-> "fleet", checkpoint |-> 0]

WithinBounds(s) ==
  s.projectRevision <= MaxProjectRevision /\ s.generation <= MaxGeneration /\ s.lastCheckpoint <= MaxCheckpoint

\* An accepted command.  A rejected one leaves the session as it is.
Command(b) ==
  \E o \in Outcomes(session, b) :
    /\ o.code = "ok" /\ WithinBounds(o.session)
    /\ session' = o.session
    /\ shown' = shown \cup {<<o.session.projectRevision, o.session.project>>}
    /\ captures' = IF b.action = "checkpoint"
                   THEN Append(captures, [project |-> session.project, sim |-> session.sim])
                   ELSE captures
    /\ last' = [action |-> b.action, checkpoint |-> b.checkpoint]

NoBody ==
  [action |-> "fleet", paused |-> FALSE, demand |-> DefaultProject.demand, project |-> DefaultProject,
   projectRevision |-> 0, serverStart |-> 0, checkpoint |-> 0]

PauseCommand == \E p \in BOOLEAN : Command([NoBody EXCEPT !.action = "pause", !.paused = p])
ResetCommand == Command([NoBody EXCEPT !.action = "reset"])
DemoCommand == Command([NoBody EXCEPT !.action = "demo"])
DemandCommand == \E d \in Demands : Command([NoBody EXCEPT !.action = "demand", !.demand = d])
ProjectCommand ==
  \E p \in Project :
    Command([NoBody EXCEPT !.action = "project", !.project = p, !.projectRevision = session.projectRevision])
CheckpointCommand == Command([NoBody EXCEPT !.action = "checkpoint"])
RewindCommand == \E i \in 1 .. session.lastCheckpoint : Command([NoBody EXCEPT !.action = "rewind", !.checkpoint = i])

\* Session.step when the demo ends: the weights follow the project again.
DemoEnds ==
  /\ session.sim.demo /\ ~session.sim.paused
  /\ session' = [session EXCEPT !.sim =
                   [ConfigureRedistribution(session.sim, session.project) EXCEPT !.demo = FALSE]]
  /\ last' = [action |-> "fleet", checkpoint |-> 0]
  /\ UNCHANGED <<shown, captures>>

Next ==
  \/ PauseCommand \/ ResetCommand \/ DemoCommand \/ DemandCommand
  \/ ProjectCommand \/ CheckpointCommand \/ RewindCommand \/ DemoEnds

Spec == Init /\ [][Next]_vars

-----------------------------------------------------------------------------
(* Properties.                                                             *)

\* A client keys its topology and an editor its draft by the project
\* revision: one revision never stands for two projects.
RevisionIdentifiesProject ==
  \A x \in shown, y \in shown : x[1] = y[1] => x[2] = y[2]

\* A rewind compares origins, not projects: a save point whose origin is the
\* current one holds the current project, so skipping the project loses
\* nothing.
OriginIdentifiesProject ==
  \A i \in DOMAIN session.checkpoints :
    session.checkpoints[i].origin = session.projectOrigin => session.checkpoints[i].project = session.project

\* Revisions and origins stand for projects.
ProjectsIdentified == RevisionIdentifiesProject /\ OriginIdentifiesProject

\* The retained save points are the newest ones, in the order of their IDs,
\* at most CheckpointLimit, and no ID is issued twice.
NewestPointsRetained ==
  LET points == session.checkpoints
  IN  /\ Len(points) = IF session.lastCheckpoint < CheckpointLimit THEN session.lastCheckpoint ELSE CheckpointLimit
      /\ \A i \in DOMAIN points : points[i].id = session.lastCheckpoint - Len(points) + i

\* A rewind brings back the project and the paused simulation of the moment
\* when the save point was made, whatever demand changes, project applies,
\* resets, demos and rewinds happened since.
RewindRestoresCapture ==
  last.action = "rewind" =>
    /\ session.project = captures[last.checkpoint].project
    /\ session.sim = [captures[last.checkpoint].sim EXCEPT !.paused = TRUE]
=============================================================================
