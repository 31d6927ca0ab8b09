---------------------------- MODULE DesktopProofs ----------------------------
(***************************************************************************)
(* Theorems about the desktop supervisor, and about the panel in front of  *)
(* it, for every port range, every set of installations and any number of  *)
(* starts and stops.                                                       *)
(***************************************************************************)
EXTENDS DesktopPanel, TLAPS

-----------------------------------------------------------------------------
(* What the helpers on the record do.                                      *)

\* A refreshed record is the old one, the old one seen alive, or a failed one.
LEMMA StatusOutcomes ==
  ASSUME NEW r, NEW s \in BuildStatus(r)
  PROVE  \/ s = r
         \/ s = [r EXCEPT !.seen = TRUE] /\ r.lifecycle = "running"
         \/ s = MarkFailed(r) /\ r.lifecycle = "running"
         \/ s = [MarkFailed(r) EXCEPT !.seen = TRUE] /\ MarkFailed(r).lifecycle = "running"
  BY DEF BuildStatus, Refreshed

LEMMA StatusCases ==
  ASSUME NEW r \in ServerRuntime, NEW s \in BuildStatus(r)
  PROVE  /\ s \in ServerRuntime
         /\ s.selected_port = r.selected_port /\ s.operation_id = r.operation_id
         /\ \/ /\ s.lifecycle = r.lifecycle /\ s.process = r.process
               /\ s.seen # r.seen => r.lifecycle = "running"
            \/ /\ s.lifecycle = "failed" /\ s.process = NoChild /\ ~s.seen
               /\ r.lifecycle = "running"
  <1>1. NoChild \in Child
    BY BoundsAssumption DEF NoChild, Child, Port
  <1>2. MarkFailed(r).lifecycle = "failed"
    BY DEF MarkFailed, ServerRuntime
  <1>3. CASE s = r
    BY <1>3
  <1>4. CASE s = [r EXCEPT !.seen = TRUE] /\ r.lifecycle = "running"
    BY <1>4 DEF ServerRuntime
  <1>5. CASE s = MarkFailed(r) /\ r.lifecycle = "running"
    BY <1>5, <1>1 DEF MarkFailed, ServerRuntime, Lifecycle
  <1>6. QED
    BY <1>2, <1>3, <1>4, <1>5, StatusOutcomes

LEMMA TransitionsTyped ==
  ASSUME NEW r \in ServerRuntime
  PROVE  /\ MarkFailed(r) \in ServerRuntime
         /\ StopBegun(r) \in ServerRuntime
         /\ \A port \in Port : StartBegun(r, port) \in ServerRuntime
  <1>1. NoChild \in Child
    BY BoundsAssumption DEF NoChild, Child, Port
  <1>2. r.operation_id + 1 \in Nat
    BY DEF ServerRuntime
  <1>3. MarkFailed(r) \in ServerRuntime
    BY <1>1 DEF MarkFailed, ServerRuntime, Lifecycle
  <1>4. StopBegun(r) \in ServerRuntime
    BY <1>1, <1>2 DEF StopBegun, ServerRuntime, Lifecycle
  <1>5. ASSUME NEW port \in Port PROVE StartBegun(r, port) \in ServerRuntime
    BY <1>2 DEF StartBegun, ServerRuntime, Lifecycle
  <1>6. QED
    BY <1>3, <1>4, <1>5

LEMMA CandidatesArePorts ==
  ASSUME NEW p \in Port
  PROVE  Candidates(p) \subseteq Port
  BY BoundsAssumption DEF Candidates, Port

-----------------------------------------------------------------------------
(* Types.                                                                  *)

\* Every variable keeps its type; in particular no port past the last one is
\* ever selected.
THEOREM TypeCorrect == Spec => []TypeOK
<1>1. Init => TypeOK
  <2> SUFFICES ASSUME Init PROVE TypeOK
    OBVIOUS
  <2>1. NoChild \in Child /\ 1 .. MaxPort \subseteq Port
    BY BoundsAssumption DEF NoChild, Child, Port
  <2>2. rt \in ServerRuntime
    <3>1. PICK port \in 1 .. MaxPort :
            rt = [lifecycle |-> "stopped", process |-> NoChild, selected_port |-> port,
                  operation_id |-> 0, seen |-> FALSE]
      BY Zenon DEF Init
    <3>2. QED
      BY <2>1, <3>1 DEF ServerRuntime, Lifecycle
  <2>3. closing \in BOOLEAN /\ exited \in BOOLEAN
    BY Zenon DEF Init
  <2>4. QED
    BY <2>2, <2>3 DEF Init, TypeOK
<1>2. TypeOK /\ [Next]_vars => TypeOK'
  <2> SUFFICES ASSUME TypeOK, [Next]_vars PROVE TypeOK'
    OBVIOUS
  <2>0. /\ rt.process \in Child /\ rt.operation_id \in Nat
        /\ \A t \in starters : ChildOf(t) \in Child
        /\ \A t \in stoppers : t.child \in Child
    BY DEF TypeOK, ServerRuntime, Starter, Stopper, ChildOf, Child
  <2>1. CASE ServerStatus /\ UNCHANGED <<closing, exited>>
    BY <2>1, StatusCases DEF ServerStatus, TypeOK, threadVars
  <2>2. CASE ServerStart /\ UNCHANGED <<closing, exited>>
    <3>1. PICK s \in BuildStatus(rt) :
            /\ lost' = lost \cup (Dropped(rt, s) \cap alive)
            /\ \/ rt' = s /\ UNCHANGED <<starters, wanted>>
               \/ rt' = MarkFailed(s) /\ wanted' = "start" /\ UNCHANGED starters
               \/ \E port \in Candidates(s.selected_port) :
                    /\ rt' = StartBegun(s, port)
                    /\ starters' = starters \cup
                         {[op |-> rt'.operation_id, port |-> port, stage |-> "spawning"]}
                    /\ wanted' = "start"
            /\ UNCHANGED <<stoppers, alive>>
      BY <2>2 DEF ServerStart
    <3>2. s \in ServerRuntime /\ s.selected_port \in Port
      BY StatusCases DEF TypeOK, ServerRuntime
    <3>3. rt' \in ServerRuntime
      BY <3>1, <3>2, TransitionsTyped, CandidatesArePorts
    <3>4. starters' \subseteq Starter
      <4>1. rt'.operation_id \in Nat
        BY <3>3 DEF ServerRuntime
      <4>2. \A port \in Candidates(s.selected_port) :
              [op |-> rt'.operation_id, port |-> port, stage |-> "spawning"] \in Starter
        BY <3>2, <4>1, CandidatesArePorts DEF Starter
      <4>3. QED
        BY <3>1, <4>2 DEF TypeOK
    <3>5. QED
      BY <2>2, <3>1, <3>3, <3>4 DEF TypeOK
  <2>3. CASE ServerStop /\ UNCHANGED <<closing, exited>>
    <3>1. PICK s \in BuildStatus(rt) :
            /\ lost' = lost \cup (Dropped(rt, s) \cap alive)
            /\ wanted' = "stop"
            /\ \/ rt' = s /\ UNCHANGED stoppers
               \/ /\ rt' = StopBegun(s)
                  /\ stoppers' = stoppers \cup
                       {[op |-> rt'.operation_id, child |-> s.process,
                         stage |-> IF s.process = NoChild THEN "ok" ELSE "stopping"]}
            /\ UNCHANGED <<starters, alive>>
      BY <2>3 DEF ServerStop
    <3>2. s \in ServerRuntime
      BY StatusCases DEF TypeOK
    <3>3. rt' \in ServerRuntime
      BY <3>1, <3>2, TransitionsTyped
    <3>4. stoppers' \subseteq Stopper
      BY <3>1, <3>2, <3>3 DEF TypeOK, Stopper, ServerRuntime
    <3>5. QED
      BY <2>3, <3>1, <3>3, <3>4 DEF TypeOK
  <2>4. ASSUME NEW t \in starters, Spawn(t), UNCHANGED <<closing, exited>> PROVE TypeOK'
    BY <2>0, <2>4 DEF Spawn, TypeOK, Starter
  <2>5. ASSUME NEW t \in starters, Adopt(t), UNCHANGED <<closing, exited>> PROVE TypeOK'
    <3>1. rt' \in ServerRuntime
      BY <2>0, <2>5 DEF Adopt, TypeOK, ServerRuntime, Lifecycle
    <3>2. alive' \subseteq alive /\ lost' \subseteq lost \cup {ChildOf(t)}
      BY <2>5 DEF Adopt
    <3>3. QED
      BY <2>0, <2>5, <3>1, <3>2 DEF Adopt, TypeOK
  <2>6. ASSUME NEW t \in starters, SpawnFailed(t), UNCHANGED <<closing, exited>> PROVE TypeOK'
    BY <2>6, TransitionsTyped DEF SpawnFailed, TypeOK
  <2>7. ASSUME NEW t \in stoppers, StopChild(t), UNCHANGED <<closing, exited>> PROVE TypeOK'
    <3>1. PICK result \in StopResult(t.child) :
            /\ alive' = alive \ result.gone
            /\ lost' = lost \cup ({t.child} \cap alive')
            /\ stoppers' = (stoppers \ {t}) \cup {[t EXCEPT !.stage = result.stage]}
      BY <2>7 DEF StopChild
    <3>2. result.stage \in {"ok", "error"}
      BY DEF StopResult
    <3>3. QED
      BY <2>0, <2>7, <3>1, <3>2 DEF StopChild, TypeOK, Stopper
  <2>8. ASSUME NEW t \in stoppers, ReportStopped(t), UNCHANGED <<closing, exited>> PROVE TypeOK'
    <3>1. rt' \in ServerRuntime
      BY <2>8, TransitionsTyped DEF ReportStopped, TypeOK, ServerRuntime, Lifecycle
    <3>2. QED
      BY <2>8, <3>1 DEF ReportStopped, TypeOK
  <2>9. CASE ChildExits /\ UNCHANGED <<closing, exited>>
    BY <2>9 DEF ChildExits, TypeOK, threadVars
  <2>10. CASE CloseRequested
    <3>1. PICK result :
            /\ alive' = alive \ result.gone
            /\ lost' = lost \cup ({rt.process} \cap alive')
            /\ rt' = [StopBegun(rt) EXCEPT
                       !.lifecycle = IF result.stage = "ok" THEN "stopped" ELSE "failed"]
      BY <2>10 DEF CloseRequested
    <3>2. rt' \in ServerRuntime
      BY <3>1, TransitionsTyped DEF TypeOK, ServerRuntime, Lifecycle
    <3>3. QED
      BY <2>0, <2>10, <3>1, <3>2 DEF CloseRequested, TypeOK, threadVars
  <2>11. CASE Exit
    BY <2>11 DEF Exit, TypeOK
  <2>12. CASE UNCHANGED vars
    BY <2>12 DEF vars, threadVars, TypeOK
  <2>13. QED
    BY <2>1, <2>2, <2>3, <2>4, <2>5, <2>6, <2>7, <2>8, <2>9, <2>10, <2>11, <2>12
    DEF Next, Command, Thread
<1>3. QED
  BY <1>1, <1>2, PTL DEF Spec

-----------------------------------------------------------------------------
(* The invariant.                                                          *)

LEMMA NoChildIsNotAlive ==
  ASSUME OperationsNumbered
  PROVE  NoChild \notin alive
  BY DEF OperationsNumbered, NoChild

\* A command leaves the invariant intact while it looks at the status.
LEMMA LookingKeeps ==
  ASSUME TypeOK, SupervisorInv, NEW s \in BuildStatus(rt)
  PROVE  /\ s.lifecycle = "running" <=> s.process # NoChild
         /\ s.seen => s.lifecycle = "running"
         /\ s.process # NoChild => s.process.port = s.selected_port
         /\ s.lifecycle = "stopping" <=> rt.lifecycle = "stopping"
         /\ s.lifecycle = "starting" <=> rt.lifecycle = "starting"
         /\ s.process = NoChild \/ s.process = rt.process
         /\ s.operation_id = rt.operation_id /\ s.selected_port = rt.selected_port
         /\ rt.process = NoChild => s.process = NoChild
  BY StatusCases DEF TypeOK, SupervisorInv, StatusHonest, RunningOnSelectedPort

LEMMA CommandKeeps ==
  ASSUME TypeOK, SupervisorInv, Command, ~exited, UNCHANGED <<closing, exited>>
  PROVE  SupervisorInv'
  <1>1. PICK s \in BuildStatus(rt) :
          /\ lost' = lost \cup (Dropped(rt, s) \cap alive)
          /\ alive' = alive
          /\ \/ rt' = s /\ UNCHANGED threadVars
             \/ Idle(s) /\ rt' = MarkFailed(s) /\ UNCHANGED threadVars
             \/ /\ Idle(s) /\ UNCHANGED stoppers
                /\ \E port \in Candidates(s.selected_port) :
                     /\ rt' = StartBegun(s, port)
                     /\ starters' = starters \cup
                          {[op |-> rt'.operation_id, port |-> port, stage |-> "spawning"]}
             \/ /\ s.lifecycle \in {"starting", "running"} /\ UNCHANGED starters
                /\ rt' = StopBegun(s)
                /\ stoppers' = stoppers \cup
                     {[op |-> rt'.operation_id, child |-> s.process,
                       stage |-> IF s.process = NoChild THEN "ok" ELSE "stopping"]}
    BY DEF Command, ServerStatus, ServerStart, ServerStop, threadVars
  <1>2. s \in ServerRuntime
    BY StatusCases DEF TypeOK
  <1>3. /\ s.lifecycle = "running" <=> s.process # NoChild
        /\ s.seen => s.lifecycle = "running"
        /\ s.process # NoChild => s.process.port = s.selected_port
        /\ s.lifecycle = "stopping" <=> rt.lifecycle = "stopping"
        /\ s.lifecycle = "starting" <=> rt.lifecycle = "starting"
        /\ s.process = NoChild \/ s.process = rt.process
        /\ s.operation_id = rt.operation_id /\ s.selected_port = rt.selected_port
        /\ rt.process = NoChild => s.process = NoChild
    BY LookingKeeps
  <1>4. ~closing /\ ~closing' /\ ~exited'
    BY DEF Command
  <1>5. alive' \ lost' \subseteq {s.process} \cup Spawned \cup BeingStopped
    BY <1>1, <1>3 DEF Dropped, SupervisorInv, NoStrayChild
  <1>6. NoChild \notin alive
    BY NoChildIsNotAlive DEF SupervisorInv
  <1>7. s.operation_id \in Nat
    BY <1>2 DEF ServerRuntime
  <1>8. CASE rt' = s /\ UNCHANGED threadVars
    <2>1. Spawned' = Spawned /\ BeingStopped' = BeingStopped
      BY <1>8 DEF threadVars, Spawned, BeingStopped
    <2>2. NoStrayChild'
      BY <1>5, <1>8, <2>1 DEF NoStrayChild
    <2>3. StatusHonest' /\ RunningOnSelectedPort'
      BY <1>3, <1>8 DEF StatusHonest, RunningOnSelectedPort
    <2>4. OperationsNumbered' /\ StarterPorts' /\ StopsExclusive' /\ ClosingEnds'
      BY <1>1, <1>3, <1>4, <1>8 DEF SupervisorInv, threadVars, OperationsNumbered,
        StarterPorts, StillCurrent, StopsExclusive, ClosingEnds
    <2>5. QED
      BY <2>2, <2>3, <2>4 DEF SupervisorInv
  <1>9. CASE Idle(s) /\ rt' = MarkFailed(s) /\ UNCHANGED threadVars
    <2>0. /\ rt'.lifecycle = "failed" /\ rt'.process = NoChild /\ ~rt'.seen
          /\ rt'.operation_id = s.operation_id /\ s.process = NoChild
      BY <1>2, <1>3, <1>9 DEF MarkFailed, ServerRuntime, Idle
    <2>1. Spawned' = Spawned /\ BeingStopped' = BeingStopped
      BY <1>9 DEF threadVars, Spawned, BeingStopped
    <2>2. NoStrayChild'
      BY <1>5, <2>0, <2>1 DEF NoStrayChild
    <2>3. StatusHonest' /\ RunningOnSelectedPort'
      BY <2>0 DEF StatusHonest, RunningOnSelectedPort
    <2>4. OperationsNumbered' /\ StarterPorts' /\ StopsExclusive' /\ ClosingEnds'
      BY <1>1, <1>3, <1>4, <1>9, <2>0 DEF SupervisorInv, threadVars, OperationsNumbered,
        StarterPorts, StillCurrent, StopsExclusive, ClosingEnds, Idle
    <2>5. QED
      BY <2>2, <2>3, <2>4 DEF SupervisorInv
  <1>10. ASSUME Idle(s), UNCHANGED stoppers, NEW port \in Candidates(s.selected_port),
                rt' = StartBegun(s, port),
                starters' = starters \cup
                  {[op |-> rt'.operation_id, port |-> port, stage |-> "spawning"]}
         PROVE  SupervisorInv'
    <2>0. /\ rt'.lifecycle = "starting" /\ rt'.process = NoChild /\ ~rt'.seen
          /\ rt'.operation_id = rt.operation_id + 1 /\ s.process = NoChild
          /\ rt'.selected_port = port /\ rt.operation_id \in Nat
      BY <1>2, <1>3, <1>7, <1>10 DEF StartBegun, ServerRuntime, Idle
    <2>1. Spawned' = Spawned /\ BeingStopped' = BeingStopped
      BY <1>10 DEF Spawned, BeingStopped
    <2>2. NoStrayChild'
      BY <1>5, <2>0, <2>1 DEF NoStrayChild
    <2>3. StatusHonest' /\ RunningOnSelectedPort'
      BY <2>0 DEF StatusHonest, RunningOnSelectedPort
    <2>4. OperationsNumbered' /\ StarterPorts'
      BY <1>1, <1>10, <2>0 DEF SupervisorInv, OperationsNumbered, StarterPorts, StillCurrent,
        TypeOK, Starter, Stopper
    <2>5. StopsExclusive' /\ ClosingEnds'
      BY <1>3, <1>4, <1>10, <2>0 DEF SupervisorInv, StopsExclusive, ClosingEnds, Idle
    <2>6. QED
      BY <2>2, <2>3, <2>4, <2>5 DEF SupervisorInv
  <1>11. CASE /\ s.lifecycle \in {"starting", "running"} /\ UNCHANGED starters
              /\ rt' = StopBegun(s)
              /\ stoppers' = stoppers \cup
                   {[op |-> rt'.operation_id, child |-> s.process,
                     stage |-> IF s.process = NoChild THEN "ok" ELSE "stopping"]}
    <2>0. /\ rt'.lifecycle = "stopping" /\ rt'.process = NoChild /\ ~rt'.seen
          /\ rt'.operation_id = rt.operation_id + 1 /\ rt.operation_id \in Nat
      BY <1>2, <1>3, <1>7, <1>11 DEF StopBegun, ServerRuntime
    <2>1. Spawned' = Spawned
      BY <1>11 DEF Spawned
    <2>2. BeingStopped \cup ({s.process} \ {NoChild}) \subseteq BeingStopped'
      <3> DEFINE new == [op |-> rt'.operation_id, child |-> s.process,
                         stage |-> IF s.process = NoChild THEN "ok" ELSE "stopping"]
      <3>1. BeingStopped \subseteq BeingStopped'
        BY <1>11 DEF BeingStopped
      <3>2. s.process # NoChild => new \in stoppers' /\ new.stage = "stopping"
        BY <1>11
      <3>3. new.child = s.process
        OBVIOUS
      <3>4. s.process # NoChild => s.process \in BeingStopped'
        BY <3>2, <3>3 DEF BeingStopped
      <3>5. QED
        BY <3>1, <3>4
    <2>3. NoStrayChild'
      BY <1>1, <1>5, <1>6, <2>1, <2>2 DEF NoStrayChild
    <2>4. StatusHonest' /\ RunningOnSelectedPort'
      BY <2>0 DEF StatusHonest, RunningOnSelectedPort
    <2>5. OperationsNumbered' /\ StarterPorts'
      BY <1>1, <1>11, <2>0 DEF SupervisorInv, OperationsNumbered, StarterPorts, StillCurrent,
        TypeOK, Starter, Stopper
    <2>6. \A t \in stoppers : t.stage # "stopping"
      BY <1>3, <1>4, <1>11 DEF SupervisorInv, StopsExclusive
    <2>7. StopsExclusive' /\ ClosingEnds'
      BY <1>4, <1>11, <2>0, <2>6 DEF StopsExclusive, ClosingEnds
    <2>8. QED
      BY <2>3, <2>4, <2>5, <2>7 DEF SupervisorInv
  <1>12. QED
    BY <1>1, <1>8, <1>9, <1>10, <1>11

LEMMA StarterKeeps ==
  ASSUME TypeOK, SupervisorInv, ~exited, UNCHANGED <<closing, exited>>,
         NEW t \in starters, Spawn(t) \/ Adopt(t) \/ SpawnFailed(t)
  PROVE  SupervisorInv'
  <1> USE DEF SupervisorInv
  <1>0. /\ ChildOf(t) # NoChild /\ 1 <= ChildOf(t).op /\ ChildOf(t).port = t.port
        /\ UNCHANGED stoppers /\ BeingStopped' = BeingStopped
    BY DEF OperationsNumbered, ChildOf, NoChild, Spawn, Adopt, SpawnFailed, BeingStopped
  <1>1. CASE Spawn(t)
    <2>1. \A u \in starters' : u.op \in {v.op : v \in starters}
      BY <1>1 DEF Spawn, TypeOK, Starter
    <2>2. Spawned \subseteq Spawned'
      BY <1>1 DEF Spawn, Spawned
    <2>3. CASE alive' = alive
      <3>1. NoStrayChild'
        BY <1>0, <1>1, <2>2, <2>3 DEF NoStrayChild, Spawn
      <3>2. OperationsNumbered' /\ StarterPorts'
        BY <1>0, <1>1, <2>3 DEF OperationsNumbered, StarterPorts, StillCurrent, Spawn,
          TypeOK, Starter
      <3>3. QED
        BY <1>0, <1>1, <3>1, <3>2 DEF StatusHonest, RunningOnSelectedPort, StopsExclusive,
          ClosingEnds, Spawn
    <2>4. CASE /\ starters' = (starters \ {t}) \cup {[t EXCEPT !.stage = "spawned"]}
               /\ alive' = alive \cup {ChildOf(t)}
      <3>1. ChildOf(t) \in Spawned'
        <4> DEFINE u == [t EXCEPT !.stage = "spawned"]
        <4>1. u \in starters' /\ u.stage = "spawned" /\ ChildOf(u) = ChildOf(t)
          BY <2>4 DEF TypeOK, Starter, ChildOf
        <4>2. QED
          BY <4>1 DEF Spawned
      <3>2. NoStrayChild'
        BY <1>0, <1>1, <2>2, <2>4, <3>1 DEF NoStrayChild, Spawn
      <3>3. OperationsNumbered' /\ StarterPorts'
        BY <1>0, <1>1, <2>4 DEF OperationsNumbered, StarterPorts, StillCurrent, Spawn,
          TypeOK, Starter
      <3>4. QED
        BY <1>0, <1>1, <3>2, <3>3 DEF StatusHonest, RunningOnSelectedPort, StopsExclusive,
          ClosingEnds, Spawn
    <2>5. QED
      BY <1>1, <2>3, <2>4 DEF Spawn
  <1>2. CASE Adopt(t)
    <2>1. Spawned \subseteq Spawned' \cup {ChildOf(t)}
      BY <1>2 DEF Adopt, Spawned
    <2>2. CASE /\ StillCurrent(t) /\ UNCHANGED <<alive, lost>>
               /\ rt' = [rt EXCEPT !.lifecycle = "running", !.process = ChildOf(t)]
      <3>1. /\ rt'.lifecycle = "running" /\ rt'.process = ChildOf(t)
            /\ rt'.operation_id = rt.operation_id /\ rt'.selected_port = rt.selected_port
        BY <2>2 DEF TypeOK, ServerRuntime
      <3>2. rt.process = NoChild /\ ~closing
        BY <2>2 DEF StatusHonest, StillCurrent, ClosingEnds
      <3>3. NoStrayChild'
        BY <1>0, <2>1, <2>2, <3>1, <3>2, NoChildIsNotAlive DEF NoStrayChild
      <3>4. StatusHonest' /\ RunningOnSelectedPort'
        BY <1>0, <2>2, <3>1 DEF StatusHonest, RunningOnSelectedPort, StarterPorts
      <3>5. \A u \in stoppers : u.stage # "stopping"
        BY <2>2, <3>2 DEF StopsExclusive, StillCurrent
      <3>6. OperationsNumbered' /\ StarterPorts' /\ StopsExclusive' /\ ClosingEnds'
        BY <1>0, <1>2, <2>2, <3>1, <3>2, <3>5 DEF OperationsNumbered, StarterPorts,
          StillCurrent, StopsExclusive, ClosingEnds, Adopt
      <3>7. QED
        BY <3>3, <3>4, <3>6
    <2>3. CASE ~StillCurrent(t)
      <3>1. PICK result \in StopResult(ChildOf(t)) :
              /\ alive' = alive \ result.gone
              /\ lost' = lost \cup ({ChildOf(t)} \cap alive')
        BY <1>2, <2>3 DEF Adopt
      <3>2. rt' = rt /\ starters' = starters \ {t}
        BY <1>2, <2>3 DEF Adopt
      <3>3. NoStrayChild'
        BY <1>0, <2>1, <3>1, <3>2 DEF NoStrayChild
      <3>4. QED
        BY <1>0, <3>1, <3>2, <3>3 DEF StatusHonest, RunningOnSelectedPort, OperationsNumbered,
          StarterPorts, StillCurrent, StopsExclusive, ClosingEnds
    <2>4. QED
      BY <1>2, <2>2, <2>3 DEF Adopt
  <1>3. CASE SpawnFailed(t)
    <2>1. Spawned' = Spawned
      BY <1>3 DEF SpawnFailed, Spawned
    <2>2. CASE ~StillCurrent(t)
      BY <1>0, <1>3, <2>1, <2>2 DEF SpawnFailed, NoStrayChild, StatusHonest,
        RunningOnSelectedPort, OperationsNumbered, StarterPorts, StillCurrent,
        StopsExclusive, ClosingEnds
    <2>3. CASE StillCurrent(t)
      <3>1. /\ rt'.lifecycle = "failed" /\ rt'.process = NoChild /\ ~rt'.seen
            /\ rt'.operation_id = rt.operation_id /\ rt.process = NoChild
        BY <1>3, <2>3 DEF SpawnFailed, MarkFailed, TypeOK, ServerRuntime, StatusHonest,
          StillCurrent
      <3>2. \A u \in stoppers : u.stage = "stopping" => closing
        BY <2>3 DEF StopsExclusive, StillCurrent
      <3>3. QED
        BY <1>0, <1>3, <2>1, <3>1, <3>2 DEF SpawnFailed, NoStrayChild, StatusHonest,
          RunningOnSelectedPort, OperationsNumbered, StarterPorts, StillCurrent,
          StopsExclusive, ClosingEnds
    <2>4. QED
      BY <2>2, <2>3
  <1>4. QED
    BY <1>1, <1>2, <1>3

LEMMA StopperKeeps ==
  ASSUME TypeOK, SupervisorInv, ~exited, UNCHANGED <<closing, exited>>,
         NEW t \in stoppers, StopChild(t) \/ ReportStopped(t)
  PROVE  SupervisorInv'
  <1> USE DEF SupervisorInv
  <1>0. UNCHANGED starters /\ Spawned' = Spawned
    BY DEF StopChild, ReportStopped, Spawned
  <1>1. CASE StopChild(t)
    <2>1. PICK result \in StopResult(t.child) :
            /\ alive' = alive \ result.gone
            /\ lost' = lost \cup ({t.child} \cap alive')
            /\ stoppers' = (stoppers \ {t}) \cup {[t EXCEPT !.stage = result.stage]}
      BY <1>1 DEF StopChild
    <2>2. rt' = rt /\ t.stage = "stopping"
      BY <1>1 DEF StopChild
    <2>3. \A u \in stoppers' : u \in stoppers \/ (u.op = t.op /\ u.stage # "stopping")
      BY <2>1 DEF StopResult, TypeOK, Stopper
    <2>4. BeingStopped \subseteq BeingStopped' \cup {t.child}
      BY <2>1 DEF BeingStopped
    <2>5. NoStrayChild'
      BY <1>0, <2>1, <2>2, <2>4 DEF NoStrayChild
    <2>6. OperationsNumbered'
      <3>1. \A u, v \in stoppers' : u.op = v.op => u = v
        BY <2>1 DEF OperationsNumbered, TypeOK, Stopper
      <3>2. QED
        BY <1>0, <2>1, <2>2, <2>3, <3>1 DEF OperationsNumbered
    <2>7. StopsExclusive'
      BY <2>2, <2>3 DEF StopsExclusive
    <2>8. QED
      BY <1>0, <2>2, <2>5, <2>6, <2>7 DEF StatusHonest, RunningOnSelectedPort, StarterPorts,
        StillCurrent, ClosingEnds
  <1>2. CASE ReportStopped(t)
    <2>1. /\ stoppers' = stoppers \ {t} /\ t.stage # "stopping"
          /\ UNCHANGED <<alive, lost>>
      BY <1>2 DEF ReportStopped
    <2>2. BeingStopped' = BeingStopped
      BY <2>1 DEF BeingStopped
    <2>3. CASE ~(rt.operation_id = t.op /\ rt.lifecycle = "stopping")
      <3>1. rt' = rt
        BY <1>2, <2>3 DEF ReportStopped
      <3>2. QED
        BY <1>0, <2>1, <2>2, <3>1 DEF NoStrayChild, StatusHonest, RunningOnSelectedPort,
          OperationsNumbered, StarterPorts, StillCurrent, StopsExclusive, ClosingEnds
    <2>4. CASE rt.operation_id = t.op /\ rt.lifecycle = "stopping"
      <3>1. /\ rt'.lifecycle \in {"stopped", "failed"} /\ rt'.process = NoChild
            /\ ~rt'.seen /\ rt'.operation_id = rt.operation_id
        BY <1>2, <2>4 DEF ReportStopped, MarkFailed, TypeOK, ServerRuntime
      <3>2. rt.process = NoChild
        BY <2>4 DEF StatusHonest
      <3>3. \A u \in stoppers : u.stage = "stopping" => closing
        BY <2>1, <2>4 DEF StopsExclusive, OperationsNumbered
      <3>4. QED
        BY <1>0, <2>1, <2>2, <3>1, <3>2, <3>3 DEF NoStrayChild, StatusHonest,
          RunningOnSelectedPort, OperationsNumbered, StarterPorts, StillCurrent,
          StopsExclusive, ClosingEnds
    <2>5. QED
      BY <2>3, <2>4
  <1>3. QED
    BY <1>1, <1>2

LEMMA EndKeeps ==
  ASSUME TypeOK, SupervisorInv, CloseRequested \/ Exit
  PROVE  SupervisorInv'
  <1> USE DEF SupervisorInv
  <1>1. CASE CloseRequested
    <2>1. PICK result :
            /\ \/ rt.process = NoChild /\ result.gone = {}
               \/ result \in StopResult(rt.process)
            /\ alive' = alive \ result.gone
            /\ lost' = lost \cup ({rt.process} \cap alive')
            /\ rt' = [StopBegun(rt) EXCEPT
                       !.lifecycle = IF result.stage = "ok" THEN "stopped" ELSE "failed"]
      BY <1>1 DEF CloseRequested
    <2>2. /\ rt'.lifecycle \in {"stopped", "failed"} /\ rt'.process = NoChild /\ ~rt'.seen
          /\ rt'.operation_id = rt.operation_id + 1 /\ rt.operation_id \in Nat
      BY <2>1 DEF StopBegun, TypeOK, ServerRuntime
    <2>3. UNCHANGED threadVars /\ closing' /\ exited' = exited
      BY <1>1 DEF CloseRequested, threadVars
    <2>4. Spawned' = Spawned /\ BeingStopped' = BeingStopped
      BY <2>3 DEF threadVars, Spawned, BeingStopped
    <2>5. NoStrayChild'
      BY <2>1, <2>3, <2>4, NoChildIsNotAlive DEF NoStrayChild
    <2>6. OperationsNumbered'
      BY <2>1, <2>2, <2>3 DEF OperationsNumbered, threadVars, TypeOK, Starter, Stopper
    <2>7. QED
      BY <2>2, <2>3, <2>5, <2>6 DEF StatusHonest, RunningOnSelectedPort, StarterPorts,
        StillCurrent, StopsExclusive, ClosingEnds, threadVars
  <1>2. CASE Exit
    BY <1>2 DEF Exit, NoStrayChild, StatusHonest, RunningOnSelectedPort, OperationsNumbered,
      StarterPorts, StillCurrent, StopsExclusive, ClosingEnds
  <1>3. QED
    BY <1>1, <1>2

\* The invariant holds for any number of overlapping starts and stops.
THEOREM SupervisorInvariant == Spec => []SupervisorInv
<1>1. Init => SupervisorInv
  <2> SUFFICES ASSUME Init PROVE SupervisorInv
    OBVIOUS
  <2>1. rt.lifecycle = "stopped" /\ rt.process = NoChild /\ rt.seen = FALSE
    BY DEF Init
  <2>2. ~closing
    BY DEF Init
  <2>3. QED
    BY <2>1, <2>2 DEF Init, SupervisorInv, StatusHonest, RunningOnSelectedPort, NoStrayChild,
      OperationsNumbered, StarterPorts, StopsExclusive, ClosingEnds
<1>2. TypeOK /\ SupervisorInv /\ [Next]_vars => SupervisorInv'
  <2> SUFFICES ASSUME TypeOK, SupervisorInv, [Next]_vars PROVE SupervisorInv'
    OBVIOUS
  <2>1. CASE Command /\ ~exited /\ UNCHANGED <<closing, exited>>
    BY <2>1, CommandKeeps
  <2>2. CASE Thread /\ ~exited /\ UNCHANGED <<closing, exited>>
    BY <2>2, StarterKeeps, StopperKeeps DEF Thread
  <2>3. CASE ChildExits /\ ~exited /\ UNCHANGED <<closing, exited>>
    BY <2>3 DEF ChildExits, SupervisorInv, threadVars, NoStrayChild, StatusHonest,
      RunningOnSelectedPort, OperationsNumbered, StarterPorts, StillCurrent,
      StopsExclusive, ClosingEnds, Spawned, BeingStopped
  <2>4. CASE CloseRequested \/ Exit
    BY <2>4, EndKeeps
  <2>5. CASE UNCHANGED vars
    BY <2>5 DEF vars, SupervisorInv, threadVars, NoStrayChild, StatusHonest,
      RunningOnSelectedPort, OperationsNumbered, StarterPorts, StillCurrent,
      StopsExclusive, ClosingEnds, Spawned, BeingStopped
  <2>6. QED
    BY <2>1, <2>2, <2>3, <2>4, <2>5 DEF Next
<1>3. QED
  BY <1>1, <1>2, TypeCorrect, PTL DEF Spec

\* "missing_process_handle" is never reported, and the page always gets the
\* port of the child that runs.
THEOREM StatusSafety == Spec => [](StatusHonest /\ RunningOnSelectedPort)
<1>1. SupervisorInv => StatusHonest /\ RunningOnSelectedPort
  BY DEF SupervisorInv
<1>2. QED
  BY <1>1, SupervisorInvariant, PTL

\* While the application runs it forgets no child.
THEOREM ChildrenAreOwned == Spec => []NoStrayChild
<1>1. SupervisorInv => NoStrayChild
  BY DEF SupervisorInv
<1>2. QED
  BY <1>1, SupervisorInvariant, PTL

\* Children that were adopted never overlap.
THEOREM OneServerSafety == Spec => []OneServer
<1>1. SupervisorInv => OneServer
  <2> SUFFICES ASSUME SupervisorInv, ~exited,
                      NEW c \in alive \ (lost \cup Spawned), NEW d \in alive \ (lost \cup Spawned)
               PROVE  c = d
    BY DEF OneServer
  <2>1. c # NoChild /\ d # NoChild
    BY NoChildIsNotAlive DEF SupervisorInv
  <2>2. c \in {rt.process} \cup BeingStopped /\ d \in {rt.process} \cup BeingStopped
    BY DEF SupervisorInv, NoStrayChild
  <2>3. BeingStopped # {} => rt.process = NoChild
    BY DEF SupervisorInv, StopsExclusive, BeingStopped
  <2>4. c \in BeingStopped /\ d \in BeingStopped => c = d
    BY DEF SupervisorInv, StopsExclusive, BeingStopped
  <2>5. QED
    BY <2>1, <2>2, <2>3, <2>4
<1>2. QED
  BY <1>1, SupervisorInvariant, PTL

-----------------------------------------------------------------------------
(* The supervisor, driven by the panel, is the supervisor.                 *)

LEMMA PanelStepsAreSteps ==
  ASSUME [PanelNext]_allVars
  PROVE  [Next]_vars
  <1>2. CASE Poll
    BY <1>2 DEF Poll, Called, Command, Next
  <1>3. CASE HandleStart
    BY <1>3 DEF HandleStart, Called, Command, Next
  <1>4. CASE HandleStop
    BY <1>4 DEF HandleStop, Called, Command, Next
  <1>5. CASE AnswerArrives
    BY <1>5 DEF AnswerArrives
  <1>6. CASE Running(Threads)
    <2>1. Thread
      BY <1>6 DEF Running, Threads, Spawning, Thread
    <2>2. QED
      BY <1>6, <2>1 DEF Running, Next
  <1>7. CASE Running(ChildExits /\ UNCHANGED failure)
    BY <1>7 DEF Running, Next
  <1>8. CASE CloseRequested /\ FailsWith(StopFailures) /\ UNCHANGED <<installation, panelVars>>
    BY <1>8 DEF Next
  <1>9. CASE Exit /\ UNCHANGED <<installation, failure, panelVars>>
    BY <1>9 DEF Next
  <1>10. CASE UNCHANGED allVars
    BY <1>10 DEF allVars
  <1>11. QED
    BY <1>2, <1>3, <1>4, <1>5, <1>6, <1>7, <1>8, <1>9, <1>10 DEF PanelNext

\* However the panel polls, starts and stops, the supervisor behind it
\* behaves as it does for any sequence of commands (server.rs, the commands).
THEOREM PanelDrivesSupervisor == PanelSpec => Spec
<1>1. PanelInit => Init
  BY DEF PanelInit
<1>2. QED
  BY <1>1, PanelStepsAreSteps, PTL DEF PanelSpec, Spec

\* So there is one server at a time, whatever is clicked on however old a
\* status (server.rs, begin_start_transition).
THEOREM OneServerBehindThePanel == PanelSpec => [](TypeOK /\ SupervisorInv /\ OneServer)
  BY PanelDrivesSupervisor, TypeCorrect, SupervisorInvariant, OneServerSafety, PTL

-----------------------------------------------------------------------------
(* Failures.                                                               *)

LEMMA FailuresTyped ==
  /\ PortFailure \in Failure /\ PortFailure.category = "port_resolve"
  /\ ~PortFailure.denied /\ ~PortFailure.port_in_use
  /\ \A c \in FailureCategory : \A f \in FailedBySystem(c) \cup {Failed(c)} :
       f \in Failure /\ f.category = c /\ ~f.port_in_use
  <1>1. "port_resolve" \in FailureCategory
    BY DEF FailureCategory
  <1>2. ASSUME NEW c \in FailureCategory
        PROVE  /\ Failed(c) \in Failure /\ Failed(c).category = c
               /\ ~Failed(c).denied /\ ~Failed(c).port_in_use
    BY DEF Failed, NoFailure, Failure
  <1>3. ASSUME NEW c \in FailureCategory, NEW f \in FailedBySystem(c)
        PROVE  f \in Failure /\ f.category = c /\ ~f.port_in_use
    BY DEF FailedBySystem, Failed, NoFailure, Failure
  <1>4. QED
    BY <1>1, <1>2, <1>3 DEF PortFailure

LEMMA SidecarFailuresTyped ==
  ASSUME NEW i, NEW f \in SidecarFailure(i)
  PROVE  f \in Failure /\ f.category \in SidecarFailures /\ ~f.port_in_use
  <1>1. SidecarFailures \subseteq FailureCategory
    BY DEF FailureCategory
  <1>2. \E c \in SidecarFailures : f \in FailedBySystem(c) \cup {Failed(c)}
    BY DEF SidecarFailure, SidecarFailures
  <1>3. QED
    BY <1>1, <1>2, FailuresTyped

\* Failures other than those of the bundle are never of its categories.
LEMMA OtherFailures ==
  /\ \A f \in StopFailures : f \in Failure /\ f.category = "stop_flow"
  /\ \A x \in BOOLEAN : \A f \in RefreshFailures(x) :
       f \in Failure /\ f.category \in {"process_state", "unexpected_exit"}
  /\ \A i : \A f \in SpawnFailures(i) :
       /\ f \in Failure
       /\ f.category \in SidecarFailures => SidecarFailure(i) # {}
       /\ SidecarFailure(i) # {} => f \in SidecarFailure(i)
  <1>1. {"stop_flow", "process_state", "unexpected_exit", "spawn"} \subseteq FailureCategory
    BY DEF FailureCategory
  <1>2. \A f \in StopFailures : f \in Failure /\ f.category = "stop_flow"
    BY <1>1, FailuresTyped DEF StopFailures
  <1>3. ASSUME NEW x \in BOOLEAN, NEW f \in RefreshFailures(x)
        PROVE  f \in Failure /\ f.category \in {"process_state", "unexpected_exit"}
    <2>1. CASE f \in FailedBySystem("process_state")
      BY <1>1, <2>1, FailuresTyped
    <2>2. CASE f \in {[Failed("unexpected_exit") EXCEPT !.port_in_use = used] : used \in BOOLEAN}
      BY <1>1, <2>2 DEF Failed, NoFailure, Failure
    <2>3. QED
      BY <1>3, <2>1, <2>2 DEF RefreshFailures
  <1>4. ASSUME NEW i, NEW f \in SpawnFailures(i)
        PROVE  /\ f \in Failure
               /\ f.category \in SidecarFailures => SidecarFailure(i) # {}
               /\ SidecarFailure(i) # {} => f \in SidecarFailure(i)
    <2>1. CASE SidecarFailure(i) = {}
      <3>1. f \in Failure /\ f.category = "spawn"
        BY <1>1, <2>1, <1>4, FailuresTyped DEF SpawnFailures
      <3>2. QED
        BY <2>1, <3>1 DEF SidecarFailures
    <2>2. CASE SidecarFailure(i) # {}
      BY <2>2, <1>4, SidecarFailuresTyped DEF SpawnFailures
    <2>3. QED
      BY <2>1, <2>2
  <1>5. QED
    BY <1>2, <1>3, <1>4

-----------------------------------------------------------------------------
(* What the panel advises.                                                 *)

LEMMA TransitionFields ==
  ASSUME NEW r \in ServerRuntime
  PROVE  /\ StopBegun(r).process = NoChild /\ StopBegun(r).lifecycle = "stopping"
         /\ MarkFailed(r).process = NoChild /\ MarkFailed(r).lifecycle = "failed"
         /\ \A port : /\ StartBegun(r, port).process = r.process
                      /\ StartBegun(r, port).lifecycle = "starting"
  BY DEF StopBegun, MarkFailed, StartBegun, ServerRuntime

\* The record is only ever "running" as one that was, or by Adopt; from an
\* incomplete installation no command and no thread starts anything.
LEMMA NeverStartedKeeps ==
  ASSUME TypeOK, NeverStarted, [PanelNext]_allVars
  PROVE  NeverStarted'
  <1> SUFFICES ASSUME SidecarFailure(installation)' # {}
               PROVE  /\ alive' = {} /\ rt'.process = NoChild /\ rt'.lifecycle # "running"
                      /\ \A t \in starters' : t.stage # "spawned"
                      /\ \A t \in stoppers' : t.stage = "ok"
    BY DEF NeverStarted
  <1>1. installation' = installation
    BY DEF PanelNext, Poll, HandleStart, HandleStop, Called, AnswerArrives, Running,
           panelVars, allVars
  <1>2. /\ SidecarFailure(installation) # {}
        /\ alive = {} /\ rt.process = NoChild /\ rt.lifecycle # "running"
        /\ \A t \in starters : t.stage # "spawned"
        /\ \A t \in stoppers : t.stage = "ok"
    BY <1>1 DEF NeverStarted
  <1>3. BuildStatus(rt) = {rt}
    BY <1>2 DEF BuildStatus, Refreshed
  <1>4. rt \in ServerRuntime
    BY DEF TypeOK
  <1>5. CASE Poll \/ HandleStop
    <2>1. CASE ServerStatus
      BY <2>1, <1>2, <1>3 DEF ServerStatus, threadVars
    <2>2. CASE ServerStop
      <3>1. /\ alive' = alive /\ starters' = starters
            /\ \/ rt' = rt /\ stoppers' = stoppers
               \/ /\ rt' = StopBegun(rt)
                  /\ stoppers' = stoppers \cup
                       {[op |-> rt'.operation_id, child |-> rt.process, stage |-> "ok"]}
        BY <2>2, <1>2, <1>3 DEF ServerStop
      <3>2. QED
        BY <3>1, <1>2, <1>4, TransitionFields
    <2>3. QED
      BY <1>5, <2>1, <2>2 DEF Poll, HandleStop, Called
  <1>6. CASE HandleStart
    <2>1. ServerStart
      BY <1>6 DEF HandleStart, Called
    <2>2. /\ alive' = alive /\ stoppers' = stoppers
          /\ \/ rt' = rt /\ starters' = starters
             \/ rt' = MarkFailed(rt) /\ starters' = starters
             \/ \E port : /\ rt' = StartBegun(rt, port)
                          /\ starters' = starters \cup
                               {[op |-> rt'.operation_id, port |-> port, stage |-> "spawning"]}
      BY <2>1, <1>3 DEF ServerStart
    <2>3. QED
      BY <2>2, <1>2, <1>4, TransitionFields
  <1>7. CASE Running(Threads)
    <2>1. ASSUME NEW t \in starters, Spawning(t)
          PROVE  /\ alive' = {} /\ rt' = rt /\ stoppers' = stoppers
                 /\ \A u \in starters' : u.stage # "spawned"
      <3>1. /\ alive' = {} /\ rt' = rt /\ stoppers' = stoppers
            /\ starters' = (starters \ {t}) \cup {[t EXCEPT !.stage = "error"]}
        BY <2>1, <1>2 DEF Spawning, Spawn
      <3>2. [t EXCEPT !.stage = "error"].stage = "error"
        BY DEF TypeOK, Starter
      <3>3. QED
        BY <3>1, <3>2, <1>2
    <2>2. ASSUME NEW t \in starters, Adopt(t)
          PROVE  FALSE
      BY <2>2, <1>2 DEF Adopt
    <2>3. ASSUME NEW t \in starters, SpawnFailed(t)
          PROVE  /\ alive' = {} /\ stoppers' = stoppers /\ starters' \subseteq starters
                 /\ rt'.process = NoChild /\ rt'.lifecycle # "running"
      BY <2>3, <1>2, <1>4 DEF SpawnFailed, MarkFailed, ServerRuntime
    <2>4. ASSUME NEW t \in stoppers, StopChild(t)
          PROVE  FALSE
      BY <2>4, <1>2 DEF StopChild
    <2>5. ASSUME NEW t \in stoppers, ReportStopped(t)
          PROVE  /\ alive' = {} /\ starters' = starters /\ stoppers' \subseteq stoppers
                 /\ rt'.process = NoChild /\ rt'.lifecycle # "running"
      BY <2>5, <1>2, <1>4 DEF ReportStopped, MarkFailed, ServerRuntime
    <2>6. QED
      BY <1>2, <1>7, <2>1, <2>2, <2>3, <2>4, <2>5 DEF Running, Threads
  <1>8. CASE AnswerArrives \/ UNCHANGED allVars
    BY <1>8, <1>2 DEF AnswerArrives, allVars, vars, threadVars
  <1>9. CASE ChildExits
    BY <1>9, <1>2 DEF ChildExits
  <1>10. CASE CloseRequested
    BY <1>10, <1>2, <1>4 DEF CloseRequested, StopBegun, ServerRuntime, threadVars
  <1>11. CASE Exit
    BY <1>11, <1>2 DEF Exit
  <1>12. QED
    BY <1>5, <1>6, <1>7, <1>8, <1>9, <1>10, <1>11 DEF PanelNext, Running

\* FailsWith keeps the failure of the record caused, if its causes are.
LEMMA FailsWithCaused ==
  ASSUME Caused(StatusFromRuntime(rt, failure)), installation' = installation,
         NEW causes, FailsWith(causes),
         \A f \in causes :
           /\ f \in Failure
           /\ f.category \in SidecarFailures => SidecarFailure(installation) # {}
           /\ SidecarFailure(installation) # {} =>
                f \in SidecarFailure(installation) \cup {PortFailure}
  PROVE  Caused(StatusFromRuntime(rt, failure))'
  BY DEF FailsWith, Caused, StatusFromRuntime

\* A call whose outcome keeps the failure caused keeps what is shown caused.
LEMMA AnswersCaused ==
  ASSUME Caused(shown), Caused(late), installation' = installation,
         Caused(StatusFromRuntime(rt, failure))',
         Answered(StatusFromRuntime(rt, failure)')
  PROVE  Caused(shown)' /\ Caused(late)'
  BY DEF Answered, Caused

LEMMA AdviceKeeps ==
  ASSUME TypeOK, AdviceInv, [PanelNext]_allVars
  PROVE  AdviceInv'
  <1>1. NeverStarted'
    BY NeverStartedKeeps DEF AdviceInv
  <1>2. installation' = installation
    BY DEF PanelNext, Poll, HandleStart, HandleStop, Called, AnswerArrives, Running,
           panelVars, allVars
  <1>3. Caused(StatusFromRuntime(rt, failure)) /\ Caused(shown) /\ Caused(late)
    BY DEF AdviceInv
  <1>4. \A f \in StopFailures : f \in Failure /\ f.category \notin SidecarFailures
    BY OtherFailures DEF SidecarFailures
  <1>5. rt \in ServerRuntime
    BY DEF TypeOK
  <1>6. ASSUME Refreshes, ServerStatus \/ ServerStop
        PROVE  Caused(StatusFromRuntime(rt, failure))'
    <2>1. CASE SidecarFailure(installation) = {}
      <3>1. \A f \in RefreshFailures(rt.process \notin alive) :
              f \in Failure /\ f.category \notin SidecarFailures
        BY OtherFailures DEF SidecarFailures
      <3>2. QED
        BY <1>2, <1>3, <1>6, <2>1, <3>1, FailsWithCaused DEF Refreshes
    <2>2. CASE SidecarFailure(installation) # {}
      <3>1. BuildStatus(rt) = {rt}
        BY <2>2 DEF AdviceInv, NeverStarted, BuildStatus, Refreshed
      <3>2. rt' = rt \/ rt'.lifecycle = "stopping"
        BY <1>5, <1>6, <3>1, TransitionFields DEF ServerStatus, ServerStop
      <3>3. rt'.lifecycle = "failed" => rt.lifecycle = "failed" /\ failure' = failure
        BY <1>6, <3>2 DEF Refreshes, FailsWith
      <3>4. QED
        BY <1>2, <1>3, <3>2, <3>3 DEF Caused, StatusFromRuntime
    <2>3. QED
      BY <2>1, <2>2
  <1>7. CASE Poll \/ HandleStop
    <2>1. Refreshes /\ (ServerStatus \/ ServerStop) /\ Answered(StatusFromRuntime(rt, failure)')
      BY <1>7 DEF Poll, HandleStop, Called
    <2>2. QED
      BY <1>1, <1>2, <1>3, <1>6, <2>1, AnswersCaused DEF AdviceInv
  <1>8. CASE HandleStart
    <2>1. StartRefused /\ Answered(StatusFromRuntime(rt, failure)')
      BY <1>8 DEF HandleStart, Called
    <2>2. PortFailure \in Failure /\ PortFailure.category \notin SidecarFailures
      BY FailuresTyped DEF SidecarFailures
    <2>3. Caused(StatusFromRuntime(rt, failure))'
      BY <1>2, <2>1, <2>2 DEF StartRefused, Caused, StatusFromRuntime
    <2>4. QED
      BY <1>1, <1>2, <1>3, <2>1, <2>3, AnswersCaused DEF AdviceInv
  <1>9. CASE AnswerArrives
    <2>1. rt' = rt /\ failure' = failure /\ shown' = late /\ late' = NoStatus
      BY <1>9 DEF AnswerArrives, vars
    <2>2. QED
      BY <1>1, <1>2, <1>3, <2>1 DEF AdviceInv, Caused, StatusFromRuntime, NoStatus
  <1>10. ASSUME shown' = shown, late' = late, Caused(StatusFromRuntime(rt, failure))'
         PROVE  AdviceInv'
    BY <1>1, <1>2, <1>3, <1>10 DEF AdviceInv, Caused
  <1>11. ASSUME rt'.lifecycle = rt.lifecycle \/ rt'.lifecycle # "failed", failure' = failure
         PROVE  Caused(StatusFromRuntime(rt, failure))'
    BY <1>2, <1>3, <1>11 DEF Caused, StatusFromRuntime
  <1>12. CASE Running(Threads)
    <2>1. ASSUME NEW t \in starters, Spawning(t) \/ Adopt(t), UNCHANGED failure
          PROVE  Caused(StatusFromRuntime(rt, failure))'
      BY <1>5, <1>11, <2>1 DEF Spawning, Spawn, Adopt, ServerRuntime
    <2>2. ASSUME NEW t \in starters, FailsWith(SpawnFailures(installation))
          PROVE  Caused(StatusFromRuntime(rt, failure))'
      BY <1>2, <1>3, <2>2, OtherFailures, FailsWithCaused
    <2>3. ASSUME NEW t \in stoppers, StopChild(t), UNCHANGED failure
          PROVE  Caused(StatusFromRuntime(rt, failure))'
      BY <1>11, <2>3 DEF StopChild
    <2>4. ASSUME NEW t \in stoppers, ReportStopped(t), FailsWith(StopFailures)
          PROVE  Caused(StatusFromRuntime(rt, failure))'
      <3>1. CASE SidecarFailure(installation) = {}
        BY <1>2, <1>3, <1>4, <2>4, <3>1, FailsWithCaused
      <3>2. CASE SidecarFailure(installation) # {}
        <4>1. t.stage = "ok"
          BY <3>2 DEF AdviceInv, NeverStarted
        <4>2. rt' = rt \/ rt'.lifecycle = "stopped"
          BY <1>5, <2>4, <4>1 DEF ReportStopped, MarkFailed, ServerRuntime
        <4>3. rt'.lifecycle = "failed" => rt.lifecycle = "failed" /\ failure' = failure
          BY <2>4, <4>2 DEF FailsWith
        <4>4. QED
          BY <1>2, <1>3, <4>2, <4>3 DEF Caused, StatusFromRuntime
      <3>3. QED
        BY <3>1, <3>2
    <2>5. QED
      BY <1>10, <1>12, <2>1, <2>2, <2>3, <2>4 DEF Running, Threads, panelVars
  <1>13. CASE CloseRequested /\ FailsWith(StopFailures) /\ UNCHANGED <<installation, panelVars>>
    <2>1. CASE SidecarFailure(installation) = {}
      BY <1>2, <1>3, <1>4, <1>10, <1>13, <2>1, FailsWithCaused DEF panelVars
    <2>2. CASE SidecarFailure(installation) # {}
      <3>1. rt.process = NoChild
        BY <2>2 DEF AdviceInv, NeverStarted
      <3>2. rt'.lifecycle = "stopped"
        BY <1>5, <1>13, <3>1 DEF CloseRequested, StopBegun, ServerRuntime
      <3>3. QED
        BY <1>10, <1>13, <3>2 DEF Caused, StatusFromRuntime, panelVars
    <2>3. QED
      BY <2>1, <2>2
  <1>14. CASE Running(ChildExits /\ UNCHANGED failure)
    BY <1>10, <1>11, <1>14 DEF Running, ChildExits, panelVars
  <1>15. CASE Exit /\ UNCHANGED <<installation, failure, panelVars>>
    BY <1>10, <1>11, <1>15 DEF Exit, panelVars
  <1>16. CASE UNCHANGED allVars
    BY <1>10, <1>11, <1>16 DEF allVars, vars, panelVars
  <1>17. QED
    BY <1>7, <1>8, <1>9, <1>12, <1>13, <1>14, <1>15, <1>16 DEF PanelNext

\* What the panel advises about a failed server is about what happened, from
\* every installation (docs/release-runbook.ja.md 6-4; recovery.ts,
\* getDesktopFailureGuidance).
THEOREM AdviceFollowsTheFailure == PanelSpec => []AdviceIsTrue
<1>1. PanelInit => AdviceInv
  BY DEF PanelInit, Init, AdviceInv, NeverStarted, Caused, StatusFromRuntime, NoStatus
<1>2. TypeOK /\ AdviceInv /\ [PanelNext]_allVars => AdviceInv'
  BY AdviceKeeps
<1>3. AdviceInv => AdviceIsTrue
  <2> SUFFICES ASSUME AdviceInv, shown.state = "failed"
               PROVE  /\ Advice \notin {"none", "to be looked at"}
                      /\ Advice = "bundled runtime" => SidecarFailure(installation) # {}
                      /\ SidecarFailure(installation) # {} => Advice \in {"bundled runtime", "port"}
    BY DEF AdviceIsTrue
  <2> DEFINE f == shown.failure
  <2>1. /\ f \in Failure
        /\ f.category \in SidecarFailures => SidecarFailure(installation) # {}
        /\ SidecarFailure(installation) # {} =>
             f \in SidecarFailure(installation) \cup {PortFailure}
    BY DEF AdviceInv, Caused
  <2>2. f.category \in FailureCategory
    BY <2>1 DEF Failure
  <2>3. SidecarFailure(installation) # {} =>
          f.category \in SidecarFailures \cup {"port_resolve"} /\ ~f.port_in_use
    BY <2>1, SidecarFailuresTyped, FailuresTyped
  <2> HIDE DEF f
  <2>4. Advice = Guidance("failed", f)
    BY DEF Advice, f
  <2>5. QED
    BY <2>1, <2>2, <2>3, <2>4
       DEF Guidance, IsPortConflict, IsPortResolveError, IsSidecarRuntimeError,
           IsPermissionError, IsSpawnStartError, IsStopFlowError, IsUnexpectedExit,
           FailureCategory, SidecarFailures
<1>4. QED
  BY <1>1, <1>2, <1>3, OneServerBehindThePanel, PTL DEF PanelSpec

-----------------------------------------------------------------------------
(* Types of the panel.                                                     *)

LEMMA FailsWithTyped ==
  ASSUME failure \in Failure \cup {NoFailure},
         NEW causes \in SUBSET Failure, FailsWith(causes)
  PROVE  failure' \in Failure \cup {NoFailure}
  BY DEF FailsWith

LEMMA NoStatusTyped == NoStatus \in Status
  BY BoundsAssumption DEF NoStatus, Status, Lifecycle, Port

LEMMA PanelTypeKeeps ==
  ASSUME TypeOK, TypeOK', PanelTypeOK, [PanelNext]_allVars
  PROVE  PanelTypeOK'
  <1>1. installation' = installation
    BY DEF PanelNext, Poll, HandleStart, HandleStop, Called, AnswerArrives, Running,
           panelVars, allVars
  <1>2. /\ installation \in Installations /\ failure \in Failure \cup {NoFailure}
        /\ shown \in Status /\ late \in Status
    BY DEF PanelTypeOK
  <1>3. failure' \in Failure \cup {NoFailure}
    <2>1. CASE Refreshes
      BY <1>2, <2>1, OtherFailures, FailsWithTyped DEF Refreshes
    <2>2. CASE StartRefused
      BY <2>2, FailuresTyped DEF StartRefused
    <2>3. CASE FailsWith(StopFailures) \/ FailsWith(SpawnFailures(installation))
      BY <1>2, <2>3, OtherFailures, FailsWithTyped
    <2>4. CASE UNCHANGED failure
      BY <1>2, <2>4
    <2>5. QED
      BY <2>1, <2>2, <2>3, <2>4
         DEF PanelNext, Poll, HandleStart, HandleStop, Called, AnswerArrives, Running,
             Threads, allVars
  <1>4. StatusFromRuntime(rt, failure)' \in Status
    BY <1>3 DEF TypeOK, ServerRuntime, StatusFromRuntime, Status
  <1>5. shown' \in Status /\ late' \in Status
    BY <1>2, <1>4, NoStatusTyped
       DEF PanelNext, Poll, HandleStart, HandleStop, Called, Answered, AnswerArrives,
           Running, panelVars, allVars
  <1>6. QED
    BY <1>1, <1>2, <1>3, <1>5 DEF PanelTypeOK

\* What the run checks of the supervisor behind the panel holds for every set
\* of installations, every port range and any number of commands (server.rs).
THEOREM PanelInvariant == PanelSpec => []PanelInv
<1>1. TypeOK /\ PanelInit => PanelTypeOK
  BY NoStatusTyped DEF PanelInit, PanelTypeOK
<1>2. TypeOK /\ TypeOK' /\ PanelTypeOK /\ [PanelNext]_allVars => PanelTypeOK'
  BY PanelTypeKeeps
<1>3. PanelTypeOK /\ SupervisorInv /\ OneServer => PanelInv
  BY DEF PanelInv
<1>4. QED
  BY <1>1, <1>2, <1>3, OneServerBehindThePanel, PTL DEF PanelSpec
=============================================================================
