---------------------------- MODULE DesktopPanel ----------------------------
(***************************************************************************)
(* The desktop window's panel (apps/web/src/components/TauriStatusPanel.   *)
(* tsx) in front of the supervisor of the server: it polls the status,     *)
(* starts and stops the server, and advises what to do about a failure.    *)
(*                                                                         *)
(* A command is carried out when it is called; its answer arrives at once  *)
(* or later, after those of calls made in between.  (What could happen     *)
(* between a call and its execution can as well happen before the call:    *)
(* the panel would not know of it either.)                                 *)
(***************************************************************************)
EXTENDS DesktopSupervisor, DesktopFailure

CONSTANT Installations   \* the installations the application may run from

ASSUME InstallationsAssumption == Installations \subseteq Installation

VARIABLES
  installation,
  failure,    \* of the record's lifecycle, NoFailure unless it is "failed"
  shown,      \* the status the panel has
  late        \* an answer that is on its way, or NoStatus

panelVars == <<shown, late>>
allVars == <<vars, installation, failure, panelVars>>

Status == [state : Lifecycle, port : Port, failure : Failure \cup {NoFailure}]
NoStatus == [state |-> "stopped", port |-> 0, failure |-> NoFailure]

\* status_from_runtime
StatusFromRuntime(r, f) == [state |-> r.lifecycle, port |-> r.selected_port, failure |-> f]

-----------------------------------------------------------------------------
(* The failure that goes with what happens to the record.                  *)

\* A record that failed already keeps its failure.
FailsWith(causes) ==
  failure' \in IF rt'.lifecycle # "failed" THEN {NoFailure}
               ELSE IF rt.lifecycle = "failed" THEN {failure} ELSE causes

Refreshes == FailsWith(RefreshFailures(rt.process \notin alive))

\* mark_failed with the result of the port search, or the record is as it was
\* refreshed and not failed.
StartRefused == failure' = IF rt'.lifecycle = "failed" THEN PortFailure ELSE NoFailure

-----------------------------------------------------------------------------
(* The panel.                                                              *)

Answered(s) ==
  \/ shown' = s /\ UNCHANGED late
  \/ late = NoStatus /\ late' = s /\ UNCHANGED shown

AnswerArrives ==
  /\ late # NoStatus
  /\ shown' = late /\ late' = NoStatus
  /\ UNCHANGED <<vars, installation, failure>>

StartDisabled == shown.state \in {"starting", "running", "stopping"}
StopDisabled == shown.state \in {"stopped", "stopping", "failed"}

Called(Outcome) ==
  /\ ~closing /\ ~exited
  /\ Outcome /\ Answered(StatusFromRuntime(rt, failure)')
  /\ UNCHANGED <<closing, exited, installation>>

Poll == Called(ServerStatus /\ Refreshes)
HandleStart == ~StartDisabled /\ Called(ServerStart /\ StartRefused)
HandleStop == ~StopDisabled /\ Called(ServerStop /\ Refreshes)

-----------------------------------------------------------------------------

PanelInit ==
  /\ Init /\ installation \in Installations
  /\ failure = NoFailure /\ shown = NoStatus /\ late = NoStatus

\* A server is spawned only from an installation that has its parts.
Spawning(t) ==
  Spawn(t) /\ (SidecarFailure(installation) # {} => alive' = alive)

Threads ==
  \/ \E t \in starters :
       \/ (Spawning(t) \/ Adopt(t)) /\ UNCHANGED failure
       \/ SpawnFailed(t) /\ FailsWith(SpawnFailures(installation))
  \/ \E t \in stoppers :
       \/ StopChild(t) /\ UNCHANGED failure
       \/ ReportStopped(t) /\ FailsWith(StopFailures)

Running(A) == A /\ ~exited /\ UNCHANGED <<closing, exited, installation, panelVars>>

PanelNext ==
  \/ Poll \/ HandleStart \/ HandleStop \/ AnswerArrives
  \/ Running(Threads)
  \/ Running(ChildExits /\ UNCHANGED failure)
  \/ CloseRequested /\ FailsWith(StopFailures) /\ UNCHANGED <<installation, panelVars>>
  \/ Exit /\ UNCHANGED <<installation, failure, panelVars>>

PanelSpec == PanelInit /\ [][PanelNext]_allVars

\* Threads run and the calls they make end, answers arrive, and the panel
\* polls every 1.5 seconds.
PanelFairSpec ==
  /\ PanelSpec
  /\ WF_allVars(Running(Threads))
  /\ WF_allVars(AnswerArrives)
  /\ WF_allVars(Poll)
-----------------------------------------------------------------------------

PanelTypeOK ==
  /\ TypeOK /\ installation \in Installations
  /\ failure \in Failure \cup {NoFailure}
  /\ shown \in Status /\ late \in Status

Advice == Guidance(shown.state, shown.failure)

\* What the panel advises about a failed server is about what happened, also
\* when its status is old: parts of the bundle are only blamed, and whenever a
\* spawn failed for them, if they are missing; a server that could never run
\* is not said to have ended or to be impossible to stop; and no failure of
\* the application is unknown to the page (docs/release-runbook.ja.md 6-4).
AdviceIsTrue ==
  shown.state = "failed" =>
    /\ Advice \notin {"none", "to be looked at"}
    /\ Advice = "bundled runtime" => SidecarFailure(installation) # {}
    /\ SidecarFailure(installation) # {} => Advice \in {"bundled runtime", "port"}

\* If the server stays in a state on a port, the panel comes to show that
\* state, and the page to connect to that port, whatever answers overtook
\* each other before.
PanelFollows ==
  (<>[]~closing /\ <>[][rt'.lifecycle = rt.lifecycle /\ rt'.selected_port = rt.selected_port]_rt)
    => <>[](shown = StatusFromRuntime(rt, shown.failure))

\* The panel is never locked in a change of state: while one is shown Start
\* is disabled, and it comes to an end unless the window is closed.
PanelUnlocks ==
  shown.state \in {"starting", "stopping"}
    ~> (shown.state \notin {"starting", "stopping"} \/ closing)

\* The panel keeps up with the supervisor behind it: it comes to show what
\* stays, and is never locked in what passes.
PanelKeepsUp == PanelFollows /\ PanelUnlocks

\* Behind the panel the supervisor keeps its bookkeeping and one server at a
\* time: every child is the one it knows, one a start is about to adopt or one
\* a stop has in hand, however commands, polls and failures interleave.
PanelInv == PanelTypeOK /\ SupervisorInv /\ OneServer
-----------------------------------------------------------------------------
(* The inductive invariant behind AdviceIsTrue.                            *)

\* From an installation that lacks a part nothing is ever started.
NeverStarted ==
  SidecarFailure(installation) # {} =>
    /\ alive = {} /\ rt.process = NoChild /\ rt.lifecycle # "running"
    /\ \A t \in starters : t.stage # "spawned"
    /\ \A t \in stoppers : t.stage = "ok"

\* A failure is one the installation can cause.
Caused(s) ==
  s.state = "failed" =>
    /\ s.failure \in Failure
    /\ s.failure.category \in SidecarFailures => SidecarFailure(installation) # {}
    /\ SidecarFailure(installation) # {} =>
         s.failure \in SidecarFailure(installation) \cup {PortFailure}

AdviceInv ==
  /\ NeverStarted
  /\ Caused(StatusFromRuntime(rt, failure)) /\ Caused(shown) /\ Caused(late)
=============================================================================
