-------------------------- MODULE DesktopSupervisor --------------------------
(***************************************************************************)
(* apps/desktop/src-tauri/src/server.rs: the desktop application starts,   *)
(* watches and stops the server process.  Commands and background threads  *)
(* share one record under a mutex; a thread spawns or stops a child        *)
(* without the mutex and then takes it to report.                          *)
(*                                                                         *)
(* A critical section is one action, and so is what a thread does between  *)
(* two of them.  A child is named by the operation that spawned it.        *)
(***************************************************************************)
EXTENDS Naturals, FiniteSets

CONSTANTS
  MaxPort,        \* u16::MAX
  ScanAttempts,   \* PORT_SCAN_ATTEMPTS
  MaxOperations   \* bound: no start is numbered past it

ASSUME BoundsAssumption ==
  MaxPort \in Nat \ {0} /\ ScanAttempts \in Nat /\ MaxOperations \in Nat

VARIABLES
  rt,        \* the ServerRuntime under the mutex
  starters,  \* threads of start_in_background
  stoppers,  \* threads of stop_in_background
  alive,     \* children that run
  lost,      \* children whose last handle was dropped when the system
             \* reported an error about them
  wanted,    \* the last of "start" and "stop" that took effect
  closing,   \* the window was asked to close
  exited     \* the application has exited

threadVars == <<starters, stoppers>>
vars == <<rt, threadVars, alive, lost, wanted, closing, exited>>

Port == 0 .. MaxPort
Child == [op : Nat, port : Port]
NoChild == [op |-> 0, port |-> 0]
Lifecycle == {"stopped", "starting", "running", "stopping", "failed"}

\* `process` is NoChild for None; `seen` says that last_seen_at is set.
ServerRuntime == [lifecycle : Lifecycle, process : Child, selected_port : Port,
                  operation_id : Nat, seen : BOOLEAN]

\* A starter is about to spawn its child, or has done so or failed and waits
\* for the mutex; a stopper is stopping its child, or has and waits.
Starter == [op : Nat, port : Port, stage : {"spawning", "spawned", "error"}]
Stopper == [op : Nat, child : Child, stage : {"stopping", "ok", "error"}]

ChildOf(t) == [op |-> t.op, port |-> t.port]

-----------------------------------------------------------------------------
(* What is done to the record under the mutex.                             *)

MarkFailed(r) ==
  [r EXCEPT !.lifecycle = "failed", !.process = NoChild, !.seen = FALSE]

\* refresh_runtime: the process handle is missing, try_wait finds the child
\* exited, or alive, or reports an error.
Refreshed(r) ==
  IF r.lifecycle # "running" THEN {r}
  ELSE {MarkFailed(r)} \cup (IF r.process \in alive THEN {r} ELSE {})

\* build_status: what listens on the port may be healthy or not.
BuildStatus(r) ==
  UNION {{s} \cup (IF s.lifecycle = "running" THEN {[s EXCEPT !.seen = TRUE]}
                   ELSE {}) : s \in Refreshed(r)}

\* Dropping a handle leaves a child that is alive to itself.
Dropped(r, s) == {r.process} \ {s.process}

\* choose_available_port: the preferred port or one of those that follow it,
\* whichever is free.
Candidates(p) == {q \in p .. p + ScanAttempts : q <= MaxPort}

\* begin_start_transition
StartBegun(r, port) ==
  [r EXCEPT !.lifecycle = "starting", !.selected_port = port,
            !.operation_id = r.operation_id + 1, !.seen = FALSE]

\* begin_stop_transition: the handle is taken by the thread that will stop it.
StopBegun(r) ==
  [r EXCEPT !.lifecycle = "stopping", !.process = NoChild,
            !.operation_id = r.operation_id + 1, !.seen = FALSE]

\* stop_child_blocking: killed and waited for, or an error after which the
\* child is gone or not.
StopResult(child) ==
  {[gone |-> {child}, stage |-> "ok"], [gone |-> {child}, stage |-> "error"],
   [gone |-> {}, stage |-> "error"]}

-----------------------------------------------------------------------------
(* Commands of the window.                                                 *)

ServerStatus ==
  /\ rt' \in BuildStatus(rt)
  /\ lost' = lost \cup (Dropped(rt, rt') \cap alive)
  /\ UNCHANGED <<threadVars, alive, wanted>>

Idle(s) == s.lifecycle \in {"stopped", "failed"}

\* server_start; the port search starts from the port selected last, and
\* fails if none is free.
ServerStart ==
  \E s \in BuildStatus(rt) :
    /\ lost' = lost \cup (Dropped(rt, s) \cap alive)
    /\ \/ ~Idle(s) /\ rt' = s /\ UNCHANGED <<starters, wanted>>
       \/ /\ Idle(s) /\ rt' = MarkFailed(s)
          /\ wanted' = "start"
          /\ UNCHANGED starters
       \/ \E port \in Candidates(s.selected_port) :
            /\ Idle(s) /\ s.operation_id < MaxOperations
            /\ rt' = StartBegun(s, port)
            /\ starters' = starters \cup
                 {[op |-> rt'.operation_id, port |-> port, stage |-> "spawning"]}
            /\ wanted' = "start"
    /\ UNCHANGED <<stoppers, alive>>

ServerStop ==
  \E s \in BuildStatus(rt) :
    /\ lost' = lost \cup (Dropped(rt, s) \cap alive)
    /\ wanted' = "stop"
    /\ \/ /\ s.lifecycle \in {"stopped", "stopping", "failed"}
          /\ rt' = s /\ UNCHANGED stoppers
       \/ /\ s.lifecycle \in {"starting", "running"}
          /\ rt' = StopBegun(s)
          /\ stoppers' = stoppers \cup
               {[op |-> rt'.operation_id, child |-> s.process,
                 stage |-> IF s.process = NoChild THEN "ok" ELSE "stopping"]}
    /\ UNCHANGED <<starters, alive>>

-----------------------------------------------------------------------------
(* Background threads.                                                     *)

Spawn(t) ==
  /\ t \in starters /\ t.stage = "spawning"
  /\ \/ /\ starters' = (starters \ {t}) \cup {[t EXCEPT !.stage = "spawned"]}
        /\ alive' = alive \cup {ChildOf(t)}
     \/ /\ starters' = (starters \ {t}) \cup {[t EXCEPT !.stage = "error"]}
        /\ UNCHANGED alive
  /\ UNCHANGED <<rt, stoppers, lost, wanted>>

MutStillCurrent(t) == rt.lifecycle = "starting"
StillCurrent(t) == rt.operation_id = t.op /\ rt.lifecycle = "starting"

MutAdopt(t) ==
  /\ t \in starters /\ t.stage = "spawned"
  /\ starters' = starters \ {t}
  /\ rt' = IF StillCurrent(t)
           THEN [rt EXCEPT !.lifecycle = "running", !.process = ChildOf(t)]
           ELSE rt
  /\ UNCHANGED <<stoppers, alive, lost, wanted>>
\* The child is adopted, or killed because something overtook it.
Adopt(t) ==
  /\ t \in starters /\ t.stage = "spawned"
  /\ starters' = starters \ {t}
  /\ \/ /\ StillCurrent(t)
        /\ rt' = [rt EXCEPT !.lifecycle = "running", !.process = ChildOf(t)]
        /\ UNCHANGED <<alive, lost>>
     \/ /\ ~StillCurrent(t)
        /\ \E result \in StopResult(ChildOf(t)) :
             /\ alive' = alive \ result.gone
             /\ lost' = lost \cup ({ChildOf(t)} \cap alive')
        /\ UNCHANGED rt
  /\ UNCHANGED <<stoppers, wanted>>

SpawnFailed(t) ==
  /\ t \in starters /\ t.stage = "error"
  /\ starters' = starters \ {t}
  /\ rt' = IF StillCurrent(t) THEN MarkFailed(rt) ELSE rt
  /\ UNCHANGED <<stoppers, alive, lost, wanted>>

StopChild(t) ==
  /\ t \in stoppers /\ t.stage = "stopping"
  /\ \E result \in StopResult(t.child) :
       /\ alive' = alive \ result.gone
       /\ lost' = lost \cup ({t.child} \cap alive')
       /\ stoppers' = (stoppers \ {t}) \cup {[t EXCEPT !.stage = result.stage]}
  /\ UNCHANGED <<rt, starters, wanted>>

MutReportStopped(t) ==
  /\ t \in stoppers /\ t.stage \in {"ok", "error"}
  /\ stoppers' = stoppers \ {t}
  /\ rt' = IF rt.operation_id = t.op
           THEN [MarkFailed(rt) EXCEPT
                   !.lifecycle = IF t.stage = "ok" THEN "stopping" ELSE "failed"]
           ELSE rt
  /\ UNCHANGED <<starters, alive, lost, wanted>>
ReportStopped(t) ==
  /\ t \in stoppers /\ t.stage \in {"ok", "error"}
  /\ stoppers' = stoppers \ {t}
  /\ rt' = IF rt.operation_id = t.op /\ rt.lifecycle = "stopping"
           THEN [MarkFailed(rt) EXCEPT
                   !.lifecycle = IF t.stage = "ok" THEN "stopped" ELSE "failed"]
           ELSE rt
  /\ UNCHANGED <<starters, alive, lost, wanted>>

\* A child exits by itself.
ChildExits ==
  /\ \E c \in alive : alive' = alive \ {c}
  /\ UNCHANGED <<rt, threadVars, lost, wanted>>

-----------------------------------------------------------------------------
(* The end of the application: server_stop_for_shutdown, with the mutex    *)
(* held throughout; then the process exits and its threads with it.        *)

CloseRequested ==
  /\ ~closing /\ closing' = TRUE
  /\ wanted' = "stop"
  /\ \E result \in IF rt.process = NoChild THEN {[gone |-> {}, stage |-> "ok"]}
                   ELSE StopResult(rt.process) :
       /\ alive' = alive \ result.gone
       /\ lost' = lost \cup ({rt.process} \cap alive')
       /\ rt' = [StopBegun(rt) EXCEPT
                   !.lifecycle = IF result.stage = "ok" THEN "stopped" ELSE "failed"]
  /\ UNCHANGED <<threadVars, exited>>

Exit ==
  /\ closing /\ exited' = TRUE
  /\ starters' = {} /\ stoppers' = {}
  /\ UNCHANGED <<rt, alive, lost, wanted, closing>>

Init ==
  /\ rt \in [lifecycle : {"stopped"}, process : {NoChild},
             selected_port : 1 .. MaxPort, operation_id : {0}, seen : {FALSE}]
  /\ starters = {} /\ stoppers = {} /\ alive = {} /\ lost = {}
  /\ wanted = "stop" /\ closing = FALSE /\ exited = FALSE

\* The window sends no commands once it is asked to close.
Command == ~closing /\ (ServerStatus \/ ServerStart \/ ServerStop)

Thread ==
  \/ \E t \in starters : Spawn(t) \/ Adopt(t) \/ SpawnFailed(t)
  \/ \E t \in stoppers : StopChild(t) \/ ReportStopped(t)

Next ==
  \/ (Command \/ Thread \/ ChildExits) /\ ~exited /\ UNCHANGED <<closing, exited>>
  \/ CloseRequested
  \/ Exit

Spec == Init /\ [][Next]_vars

-----------------------------------------------------------------------------

TypeOK ==
  /\ rt \in ServerRuntime
  /\ starters \subseteq Starter /\ stoppers \subseteq Stopper
  /\ alive \subseteq Child /\ lost \subseteq Child
  /\ wanted \in {"start", "stop"}
  /\ closing \in BOOLEAN /\ exited \in BOOLEAN

\* The status tells the truth about the handle: a running server has one,
\* nothing else does ("missing_process_handle" is never reported), and a time
\* last seen is only ever that of the server that runs.
StatusHonest ==
  /\ rt.lifecycle = "running" <=> rt.process # NoChild
  /\ rt.seen => rt.lifecycle = "running"

\* The page is sent to the port that the running child was given.
RunningOnSelectedPort ==
  rt.process # NoChild => rt.process.port = rt.selected_port

Spawned == {ChildOf(t) : t \in {u \in starters : u.stage = "spawned"}}
BeingStopped == {t.child : t \in {u \in stoppers : u.stage = "stopping"}}

\* No child is forgotten: while the application runs, each one is the current
\* one, is about to be adopted or killed, or is being stopped, unless the
\* system reported an error about it.
NoStrayChild ==
  ~exited => alive \ lost \subseteq {rt.process} \cup Spawned \cup BeingStopped

\* However starts and stops overlap, there is one server at a time: a child
\* is adopted only when those before it are gone.
OneServer ==
  ~exited => \A c, d \in alive \ (lost \cup Spawned) : c = d

\* A stop leaves nothing running, whatever start it overtook, unless it is
\* itself overtaken or the system reported an error.
StopEmpties ==
  wanted = "stop" ~> (alive \subseteq lost \/ wanted = "start" \/ exited)

-----------------------------------------------------------------------------
(* The inductive invariant behind the safety properties.                   *)

\* Operations are numbered as they begin, and no two stops share a number.
OperationsNumbered ==
  /\ \A t \in starters : 1 <= t.op /\ t.op <= rt.operation_id
  /\ \A t \in stoppers : t.op <= rt.operation_id
  /\ \A t, u \in stoppers : t.op = u.op => t = u
  /\ \A c \in alive : 1 <= c.op

\* A starter that may still be adopted knows the port that is selected.
StarterPorts ==
  \A t \in starters : StillCurrent(t) => t.port = rt.selected_port

\* While a child is being stopped there is no other, and its stopper is the
\* one whose report counts, the end of the application aside.
StopsExclusive ==
  /\ \A t \in stoppers : t.stage = "stopping" =>
       /\ rt.process = NoChild
       /\ closing \/ (rt.lifecycle = "stopping" /\ rt.operation_id = t.op)
  /\ \A t, u \in stoppers : t.stage = "stopping" /\ u.stage = "stopping" => t = u

\* Once the window is asked to close nothing is started.
ClosingEnds == closing => rt.lifecycle \in {"stopped", "failed"}

SupervisorInv ==
  /\ StatusHonest /\ RunningOnSelectedPort /\ NoStrayChild
  /\ OperationsNumbered /\ StarterPorts /\ StopsExclusive /\ ClosingEnds
=============================================================================
