--------------------------- MODULE LabPageProofs ----------------------------
(***************************************************************************)
(* Proofs about LabPage, for any bounds, any number of operations under    *)
(* way, lost messages and restarts, and whatever Codex does.               *)
(*                                                                         *)
(* The invariant says what the page, and all that is on its way to it, may *)
(* know of the process: an earlier process's state, or one that this       *)
(* process has left behind, or its present state; and that a state with    *)
(* the present generation is the present state.                            *)
(***************************************************************************)
EXTENDS LabPage, FiniteSetTheorems, TLAPS

-----------------------------------------------------------------------------
(* The companion: what it leaves has the types, and only a person's        *)
(* decision makes an approval approved, rejected, sent or declined.        *)

Decided == {"approve", "reject", "sent", "decline"}

\* What an entry in the log leaves of a task.
LEMMA RecordedFacts ==
  ASSUME NEW l \in Service
  PROVE  /\ Recorded(l) \in Service
         /\ Recorded(l).approval.fresh = FALSE
         /\ Recorded(l).approval.status = l.approval.status
         /\ Recorded(l).status = l.status
BY DEF Recorded, Service, Approval

\* A task told of anything but a decision: not fresh, and decided only if
\* it was.
Quiet(l, m) ==
  /\ m \in Service
  /\ m.approval.fresh = FALSE
  /\ m.approval.status \in {l.approval.status, "cancelled", "unknown"}

LEMMA RecordedIsQuiet ==
  ASSUME NEW l \in Service
  PROVE  Quiet(l, Recorded(l))
BY RecordedFacts DEF Quiet

\* What else may be set in a quiet task.
LEMMA StatusSet ==
  ASSUME NEW l \in Service, NEW m, Quiet(l, m), NEW s \in Status
  PROVE  Quiet(l, [m EXCEPT !.status = s])
BY DEF Quiet, Service, Approval

LEMMA ChildSet ==
  ASSUME NEW l \in Service, NEW m, Quiet(l, m),
         NEW s \in {"not-started", "starting", "running", "closing", "closed", "unknown"}
  PROVE  Quiet(l, [m EXCEPT !.child = s])
BY DEF Quiet, Service, Approval

LEMMA TurnStatusSet ==
  ASSUME NEW l \in Service, NEW m, Quiet(l, m),
         NEW s \in Outcome \cup {"not-started", "inProgress", "unknown"}
  PROVE  Quiet(l, [m EXCEPT !.turnStatus = s])
BY DEF Quiet, Service, Approval

LEMMA TurnSet ==
  ASSUME NEW l \in Service, NEW m, Quiet(l, m), NEW t \in Turns
  PROVE  Quiet(l, [m EXCEPT !.turn = t])
BY DEF Quiet, Service, Approval

LEMMA ThreadSet ==
  ASSUME NEW l \in Service, NEW m, Quiet(l, m), NEW b \in BOOLEAN
  PROVE  Quiet(l, [m EXCEPT !.thread = b])
BY DEF Quiet, Service, Approval

LEMMA StopSet ==
  ASSUME NEW l \in Service, NEW m, Quiet(l, m), NEW b \in BOOLEAN
  PROVE  Quiet(l, [m EXCEPT !.stopRequested = b])
BY DEF Quiet, Service, Approval

LEMMA ApprovalSet ==
  ASSUME NEW l \in Service, NEW m, Quiet(l, m), NEW s \in {"cancelled", "unknown"},
         NEW b \in BOOLEAN
  PROVE  /\ Quiet(l, [m EXCEPT !.approval.status = s])
         /\ Quiet(l, [m EXCEPT !.approval.status = s, !.approval.safe = b])
BY DEF Quiet, Service, Approval

\* What the client's observations leave of a task (onObservation).
LEMMA ObservedIsQuiet ==
  ASSUME NEW l \in Service, NEW o \in Observation, ~Ignores(l, o)
  PROVE  Quiet(l, Observed(l, o))
<1> DEFINE r == Recorded(l)
<1>1. Quiet(l, r)
  BY RecordedIsQuiet
<1>2. /\ l.status \in Status /\ l.turnStatus \in Outcome \cup {"not-started", "inProgress", "unknown"}
      /\ l.child \in {"not-started", "starting", "running", "closing", "closed", "unknown"}
  BY DEF Service
<1>3. TurnUnknown(l) \in Outcome \cup {"not-started", "inProgress", "unknown"}
  BY DEF TurnUnknown
<1>4. \A s \in {"stopped", "unknown", "running"} : s \in Status
  BY DEF Status, Terminal
<1>5. \A s \in {"unknown", "not-started", "inProgress"} :
        s \in Outcome \cup {"not-started", "inProgress", "unknown"}
  OBVIOUS
<1>u. Quiet(l, StopUnconfirmed(l))
  <2>1. Quiet(l, [r EXCEPT !.status = "unknown"])
    BY <1>1, <1>4, StatusSet
  <2>2. Quiet(l, [[r EXCEPT !.status = "unknown"] EXCEPT !.turnStatus = TurnUnknown(l)])
    BY <1>3, <2>1, TurnStatusSet
  <2> QED BY <2>2 DEF StopUnconfirmed
<1> HIDE DEF r
<1>6. CASE o.type = "child-status"
  <2>0. o.status \in {"starting", "running", "closing", "closed", "unknown"}
    BY <1>6 DEF Observation
  <2> DEFINE seen == [r EXCEPT !.child = o.status]
  <2>1. Quiet(l, seen)
    BY <1>1, <2>0, ChildSet
  <2>2. Quiet(l, [seen EXCEPT !.status = "unknown"]) /\ Quiet(l, [seen EXCEPT !.status = "stopped"])
    <3> HIDE DEF seen
    <3> QED BY <1>4, <2>1, StatusSet
  <2>3. Quiet(l, [[seen EXCEPT !.status = "unknown"] EXCEPT !.turnStatus = "unknown"])
        /\ Quiet(l, [[seen EXCEPT !.status = "unknown"] EXCEPT !.turnStatus = TurnUnknown(l)])
    <3> DEFINE n == [seen EXCEPT !.status = "unknown"]
    <3>1. Quiet(l, n)
      BY <2>2
    <3> HIDE DEF n
    <3>2. Quiet(l, [n EXCEPT !.turnStatus = "unknown"])
          /\ Quiet(l, [n EXCEPT !.turnStatus = TurnUnknown(l)])
      BY <1>3, <1>5, <3>1, TurnStatusSet
    <3> QED BY <3>2 DEF n
  <2>4. Observed(l, o) = ChildStatusApplied(l, o)
    BY <1>6 DEF Observed
  <2>5. ChildStatusApplied(l, o) \in
          {seen, [seen EXCEPT !.status = "stopped"],
           [seen EXCEPT !.status = "unknown", !.turnStatus = "unknown"],
           [seen EXCEPT !.status = "unknown", !.turnStatus = TurnUnknown(l)]}
    BY DEF ChildStatusApplied, seen, r
  <2>6. /\ [seen EXCEPT !.status = "unknown", !.turnStatus = "unknown"]
             = [[seen EXCEPT !.status = "unknown"] EXCEPT !.turnStatus = "unknown"]
        /\ [seen EXCEPT !.status = "unknown", !.turnStatus = TurnUnknown(l)]
             = [[seen EXCEPT !.status = "unknown"] EXCEPT !.turnStatus = TurnUnknown(l)]
    OBVIOUS
  <2> HIDE DEF seen
  <2> QED BY <2>1, <2>2, <2>3, <2>4, <2>5, <2>6
<1>7. CASE o.type = "thread-started"
  <2>1. Observed(l, o) = [r EXCEPT !.thread = TRUE]
    BY <1>7 DEF Observed, r
  <2> QED BY <1>1, <2>1, ThreadSet
<1>8. CASE o.type = "turn-started"
  <2>1. o.turn \in Turns
    BY <1>8 DEF Observation
  <2> DEFINE a == [r EXCEPT !.turn = o.turn]
             b == [a EXCEPT !.turnStatus = "inProgress"]
  <2>2. Observed(l, o) = [b EXCEPT !.status = "running"]
    BY <1>8 DEF Observed, r
  <2>3. Quiet(l, a)
    BY <1>1, <2>1, TurnSet
  <2> HIDE DEF a
  <2>4. Quiet(l, b)
    BY <1>5, <2>3, TurnStatusSet
  <2> HIDE DEF b
  <2> QED BY <1>4, <2>2, <2>4, StatusSet
<1>9. CASE o.type = "command-completed"
  <2>1. Observed(l, o) = [r EXCEPT !.status = "running"]
    BY <1>9 DEF Observed, r
  <2> QED BY <1>1, <1>4, <2>1, StatusSet
<1>10. CASE o.type \in {"item", "unsupported-request"}
  <2>1. Observed(l, o) = r
    BY <1>10 DEF Observed, r
  <2> QED BY <1>1, <2>1
<1>11. CASE o.type = "turn-completed"
  <2>1. o.outcome \in Outcome /\ Reported(o.outcome) \in Status
    BY <1>11 DEF Observation, Reported, Outcome, Status, Terminal
  <2> DEFINE a == [r EXCEPT !.turnStatus = o.outcome]
  <2>2. Observed(l, o) = [a EXCEPT !.status = Reported(o.outcome)]
    BY <1>11 DEF Observed, r
  <2>3. Quiet(l, a)
    BY <1>1, <2>1, TurnStatusSet
  <2> HIDE DEF a
  <2> QED BY <2>1, <2>2, <2>3, StatusSet
<1>12. CASE o.type = "approval-response-sent"
  <2>1. o.decision = "cancel"
    BY <1>12 DEF Observation
  <2> DEFINE a == [r EXCEPT !.approval.status = "cancelled", !.approval.safe = FALSE]
             s == IF l.status = "stopping" THEN "stopping" ELSE "running"
  <2>2. Observed(l, o) = ResponseApplied(l, o)
    BY <1>12 DEF Observed
  <2>3. ResponseApplied(l, o) = [a EXCEPT !.status = s]
    BY <2>1 DEF ResponseApplied, r
  <2>4. Quiet(l, a)
    BY <1>1, ApprovalSet
  <2>5. s \in Status
    BY DEF Status
  <2> HIDE DEF a, s
  <2> QED BY <2>2, <2>3, <2>4, <2>5, StatusSet
<1>13. CASE o.type = "approval-revoked"
  <2> DEFINE a == [r EXCEPT !.approval.status = "cancelled", !.approval.safe = FALSE]
             s == IF l.status = "awaiting-human" THEN "running" ELSE l.status
  <2>2. Observed(l, o) = RevocationApplied(l)
    BY <1>13 DEF Observed
  <2>3. RevocationApplied(l) = [a EXCEPT !.status = s]
    BY DEF RevocationApplied, r
  <2>4. Quiet(l, a)
    BY <1>1, ApprovalSet
  <2>5. s \in Status
    BY <1>2, <1>4
  <2> HIDE DEF a, s
  <2> QED BY <2>2, <2>3, <2>4, <2>5, StatusSet
<1>14. CASE o.type = "startup-stopped"
  <2> DEFINE a == [r EXCEPT !.status = "stopped"]
             b == [a EXCEPT !.child = "closed"]
  <2>1. Observed(l, o) = [b EXCEPT !.turnStatus = "not-started"]
    BY <1>14 DEF Observed, StartupStopped, r
  <2>2. Quiet(l, a)
    BY <1>1, <1>4, StatusSet
  <2> HIDE DEF a
  <2>3. Quiet(l, b)
    BY <2>2, ChildSet
  <2> HIDE DEF b
  <2> QED BY <1>5, <2>1, <2>3, TurnStatusSet
<1>15. CASE o.type = "stop-unconfirmed"
  BY <1>15, <1>u DEF Observed
<1>16. CASE o.type = "protocol-failure"
  <2> DEFINE c == IF l.child = "closed" THEN "closed" ELSE "unknown"
             u == StopUnconfirmed(l)
  <2>1. Observed(l, o) = [u EXCEPT !.child = c]
    BY <1>16 DEF Observed, ProtocolFailed
  <2>2. c \in {"not-started", "starting", "running", "closing", "closed", "unknown"}
    OBVIOUS
  <2>3. Quiet(l, u)
    BY <1>u
  <2> HIDE DEF c, u
  <2>4. Quiet(l, [u EXCEPT !.child = c])
    BY <2>2, <2>3, ChildSet
  <2> QED BY <2>1, <2>4
<1>17. o.type \in {"child-status", "thread-started", "turn-started", "command-completed",
                  "item", "unsupported-request", "turn-completed", "approval-response-sent",
                  "approval-revoked", "startup-stopped", "stop-unconfirmed",
                  "protocol-failure"}
  BY DEF Observation
<1> QED BY <1>6, <1>7, <1>8, <1>9, <1>10, <1>11, <1>12, <1>13, <1>14, <1>15, <1>16, <1>17

\* A request for approval that is taken up (onApproval).
LEMMA AskedFacts ==
  ASSUME NEW l \in Service, NEW id \in Nat, NEW t \in Turns, NEW safe \in BOOLEAN,
         Asked(l, id, t, safe) # l
  PROVE  /\ Asked(l, id, t, safe) \in Service
         /\ Asked(l, id, t, safe).approval.status = "pending"
<1> DEFINE a == [id |-> id, status |-> "pending", safe |-> safe, fresh |-> TRUE]
<1>1. Asked(l, id, t, safe) = [l EXCEPT !.status = "awaiting-human", !.approval = a]
  BY DEF Asked
<1>2. a \in Approval /\ a.status = "pending"
  BY DEF Approval
<1> HIDE DEF a
<1>3. "awaiting-human" \in Status
  BY DEF Status
<1> QED BY <1>1, <1>2, <1>3 DEF Service

\* Every entry in the log of the simulation.
LEMMA ToldFacts ==
  ASSUME NEW d \in Demo, NEW n \in 0 .. Stages
  PROVE  Told(d, n) \in Demo /\ Told(d, n).gen = d.gen + 1 /\ Told(d, n).approval = d.approval
<1> DEFINE e == [d EXCEPT !.stage = n]
<1>1. e \in Demo /\ e.gen = d.gen /\ e.approval = d.approval
  BY DEF Demo
<1>2. Told(d, n) = [e EXCEPT !.gen = e.gen + 1]
  BY <1>1 DEF Told
<1> HIDE DEF e
<1> QED BY <1>1, <1>2 DEF Demo

\* What the simulation leaves of an operation.
LEMMA DemoResultsFacts ==
  ASSUME NEW d \in Demo, d.approval.of <= d.gen, NEW p, NEW c \in DemoResults(d, p), c # d
  PROVE  /\ c \in Demo /\ c.gen = d.gen + 1 /\ c.approval.of <= c.gen
         /\ c.approval.status \in Decided /\ c.approval.status # d.approval.status =>
              p.op = c.approval.status /\ p.gen = d.approval.of /\ p.gen = d.gen
<1>0. Stages \in Nat /\ Stages > 1
  BY StagesAssumption
<1> DEFINE statuses == {"pending", "approve", "reject", "cancelled"}
<1>d. /\ d.status \in DemoStatus /\ d.session \in Nat /\ d.stage \in 0 .. Stages /\ d.gen \in Nat
      /\ d.approval \in [of : Nat, status : statuses]
      /\ d = [status |-> d.status, session |-> d.session, stage |-> d.stage, gen |-> d.gen,
              approval |-> d.approval]
  BY DEF Demo
<1>1. CASE p.op = "start" /\ MayStartDemo(d, p.gen)
  <2>1. c = DemoStarted(d)
    BY <1>1 DEF DemoResults
  <2>2. c = [status |-> "running", session |-> d.session + 1, stage |-> 1, gen |-> d.gen + 1,
             approval |-> NoDemoApproval]
    BY <1>d, <2>1 DEF DemoStarted, Told
  <2>3. NoDemoApproval \in [of : Nat, status : statuses] /\ NoDemoApproval.of = 0
        /\ NoDemoApproval.status = "cancelled"
    BY DEF NoDemoApproval
  <2>4. "running" \in DemoStatus /\ 1 \in 0 .. Stages
    BY <1>0 DEF DemoStatus
  <2> QED BY <1>d, <2>2, <2>3, <2>4 DEF Demo, Decided
<1>2. CASE p.op = "advance" /\ MayAdvanceDemo(d, p.gen)
  <2>1. c = DemoAdvanced(d)
    BY <1>2 DEF DemoResults
  <2>0. d.stage + 1 \in 0 .. Stages
    BY <1>0, <1>d, <1>2 DEF MayAdvanceDemo
  <2> DEFINE e == Told(d, d.stage + 1)
             f == [e EXCEPT !.status = "awaiting-human",
                            !.approval = [of |-> e.gen, status |-> "pending"]]
  <2>3. c = IF e.stage < Stages THEN e ELSE f
    BY <2>1 DEF DemoAdvanced
  <2>4. e \in Demo /\ e.gen = d.gen + 1 /\ e.approval = d.approval
    BY <2>0, ToldFacts
  <2>5. [of |-> e.gen, status |-> "pending"] \in [of : Nat, status : statuses]
    <3> HIDE DEF e
    <3> QED BY <2>4 DEF Demo
  <2>6. "awaiting-human" \in DemoStatus
    BY DEF DemoStatus
  <2>7. /\ f \in Demo /\ f.gen = e.gen /\ f.approval.of = e.gen /\ f.approval.status = "pending"
    <3> HIDE DEF e
    <3> QED BY <2>4, <2>5, <2>6 DEF Demo
  <2> HIDE DEF e, f
  <2> QED BY <1>d, <2>3, <2>4, <2>7 DEF Decided
<1>3. CASE p.op = "stop" /\ MayStopDemo(d)
  <2>1. c = DemoStopped(d)
    BY <1>3 DEF DemoResults
  <2> DEFINE a == IF d.approval.status = "pending" THEN "cancelled" ELSE d.approval.status
             s == IF d.session = 0 THEN 1 ELSE d.session
  <2>2. c = [status |-> "stopped", session |-> s, stage |-> d.stage, gen |-> d.gen + 1,
             approval |-> [d.approval EXCEPT !.status = a]]
    BY <1>d, <2>1 DEF DemoStopped, Told
  <2>3. a \in statuses /\ s \in Nat /\ "stopped" \in DemoStatus
    BY <1>d DEF DemoStatus, DemoOver
  <2>4. /\ [d.approval EXCEPT !.status = a] \in [of : Nat, status : statuses]
        /\ [d.approval EXCEPT !.status = a].of = d.approval.of
        /\ [d.approval EXCEPT !.status = a].status = a
    <3> HIDE DEF a
    <3> QED BY <1>d, <2>3
  <2>5. a \in Decided => a = d.approval.status
    BY DEF Decided
  <2> DEFINE b == [d.approval EXCEPT !.status = a]
  <2>6. c = [status |-> "stopped", session |-> s, stage |-> d.stage, gen |-> d.gen + 1,
             approval |-> b]
    BY <2>2
  <2>7. b \in [of : Nat, status : statuses] /\ b.of = d.approval.of /\ b.status = a
    BY <2>4
  <2> HIDE DEF a, s, b
  <2> QED BY <1>d, <2>3, <2>5, <2>6, <2>7 DEF Demo
<1>4. CASE /\ p.op \in {"approve", "reject"} /\ p.approval = d.approval.of
           /\ MayDecideDemo(d, IF p.session = Null THEN 0 ELSE p.session[2], p.gen)
  <2>1. c = DemoDecided(d, p.op)
    BY <1>4 DEF DemoResults
  <2>2. c = [status |-> "finished", session |-> d.session, stage |-> d.stage, gen |-> d.gen + 1,
             approval |-> [d.approval EXCEPT !.status = p.op]]
    BY <1>d, <2>1 DEF DemoDecided, Told
  <2> DEFINE b == [d.approval EXCEPT !.status = p.op]
  <2>3. b \in [of : Nat, status : statuses] /\ b.of = d.approval.of /\ b.status = p.op
    BY <1>d, <1>4
  <2>4. "finished" \in DemoStatus
    BY DEF DemoStatus, DemoOver
  <2>5. p.gen = d.approval.of /\ p.gen = d.gen
    BY <1>4 DEF MayDecideDemo
  <2> HIDE DEF b
  <2>6. c = [status |-> "finished", session |-> d.session, stage |-> d.stage, gen |-> d.gen + 1,
             approval |-> b]
    BY <2>2 DEF b
  <2> QED BY <1>d, <2>3, <2>4, <2>5, <2>6 DEF Demo
<1> QED
  <2>1. CASE ~ \/ p.op = "start" /\ MayStartDemo(d, p.gen)
               \/ p.op = "advance" /\ MayAdvanceDemo(d, p.gen)
               \/ p.op = "stop" /\ MayStopDemo(d)
               \/ /\ p.op \in {"approve", "reject"} /\ p.approval = d.approval.of
                  /\ MayDecideDemo(d, IF p.session = Null THEN 0 ELSE p.session[2], p.gen)
    BY <2>1 DEF DemoResults
  <2> QED BY <1>1, <1>2, <1>3, <1>4, <2>1

\* A task whose approval is fresh expects the present generation, and none
\* expects a later one.
TaskSound(c) == c \in Task /\ c.of <= c.gen /\ (c.task.approval.fresh => c.of = c.gen)

\* An entry in the log of a task that is not fresh.
LEMMA RecordingFacts ==
  ASSUME NEW c, TaskSound(c), NEW m, Quiet(c.task, m)
  PROVE  LET d == Recording(c, m) IN
         /\ TaskSound(d) /\ d.gen = c.gen + 1 /\ d.of = c.of /\ d.task = m
<1> DEFINE e == [c EXCEPT !.task = m]
<1>1. m \in Service /\ m.approval.fresh = FALSE
  BY DEF Quiet
<1>2. e \in Task /\ e.gen = c.gen /\ e.of = c.of /\ e.task = m
  BY <1>1 DEF TaskSound, Task
<1>3. Recording(c, m) = [e EXCEPT !.gen = e.gen + 1]
  BY <1>2 DEF Recording, TaskSound, Task
<1>4. c.gen \in Nat /\ c.of \in Nat /\ c.of <= c.gen
  BY DEF TaskSound, Task
<1> HIDE DEF e
<1>5. /\ Recording(c, m) \in Task /\ Recording(c, m).gen = c.gen + 1
      /\ Recording(c, m).of = c.of /\ Recording(c, m).task = m
  BY <1>2, <1>3, <1>4 DEF Task
<1> QED BY <1>1, <1>4, <1>5 DEF TaskSound

\* What the service connected to Codex leaves of an operation.
LEMMA TaskResultsFacts ==
  ASSUME NEW c, TaskSound(c), NEW p, NEW d \in TaskResults(c, p), d # c
  PROVE  /\ TaskSound(d) /\ d.gen > c.gen
         /\ d.task.approval.status \in Decided
            /\ d.task.approval.status # c.task.approval.status =>
              /\ p.gen = c.of /\ p.gen = c.gen
              /\ \/ p.op = "approve" /\ d.task.approval.status = "sent"
                 \/ p.op = "reject" /\ d.task.approval.status = "decline"
<1> DEFINE l == c.task
           r == Recorded(l)
<1>0. l \in Service /\ c.gen \in Nat /\ c.of \in Nat
  BY DEF TaskSound, Task
<1>r. Quiet(l, r)
  BY <1>0, RecordedIsQuiet
<1>q. ASSUME NEW m, Quiet(l, m)
      PROVE  m.approval.status \in Decided => m.approval.status = l.approval.status
  BY <1>q DEF Quiet, Decided
<1>s. "stopping" \in Status /\ "unknown" \in Status /\ "running" \in Status
      /\ "starting" \in Status /\ l.status \in Status
  BY <1>0 DEF Status, Service
<1>1. CASE p.op = "start" /\ p.gen = c.gen /\ MayStart(c.task)
  <2>1. d = Recording(c, Started(l))
    BY <1>1 DEF TaskResults
  <2>2. Quiet(l, Started(l))
    <3> DEFINE i == InitialService
               j == [i EXCEPT !.status = "starting"]
               k == [j EXCEPT !.session = l.session + 1]
    <3>1. Started(l) = [k EXCEPT !.child = "starting"]
      BY DEF Started
    <3>2. /\ NoApproval \in Approval /\ NoApproval.fresh = FALSE
          /\ NoApproval.status = "cancelled"
      BY DEF NoApproval, Approval
    <3>3. i \in Service /\ i.approval = NoApproval
      BY <1>s, <3>2 DEF InitialService, Service, Status
    <3> HIDE DEF i
    <3>4. j \in Service /\ j.approval = NoApproval
      BY <1>s, <3>3 DEF Service
    <3> HIDE DEF j
    <3>5. l.session + 1 \in Nat
      BY <1>0 DEF Service
    <3>6. k \in Service /\ k.approval = NoApproval
      BY <3>4, <3>5 DEF Service
    <3> HIDE DEF k
    <3>7. Started(l) \in Service /\ Started(l).approval = NoApproval
      BY <3>1, <3>6 DEF Service
    <3> QED BY <3>2, <3>7 DEF Quiet
  <2> HIDE DEF l
  <2> QED BY <1>0, <1>q, <2>1, <2>2, RecordingFacts DEF l
<1>2. CASE p.op = "stop" /\ MayStop(c.task)
  <2> DEFINE s == IF l.status \in Terminal THEN l.status ELSE "stopping"
             a == [r EXCEPT !.status = s]
             b == [a EXCEPT !.stopRequested = TRUE]
             e == [b EXCEPT !.status = "unknown"]
             f == [e EXCEPT !.turnStatus = "unknown"]
             g == [f EXCEPT !.child = "unknown"]
  <2>1. s \in Status
    BY <1>s
  <2>2. d \in {Recording(c, StopAsked(l)),
               Recording(Recording(c, StopAsked(l)), StopTargetLost(StopAsked(l)))}
    BY <1>2 DEF TaskResults
  <2>3. StopAsked(l) = b /\ StopTargetLost(b) = g
    BY DEF StopAsked, StopTargetLost
  <2> HIDE DEF r, s
  <2>4. Quiet(l, a)
    BY <1>0, <1>r, <2>1, StatusSet
  <2> HIDE DEF a
  <2>5. Quiet(l, b)
    BY <1>0, <2>4, StopSet
  <2> HIDE DEF b
  <2>6. b \in Service /\ b.approval.status \in {l.approval.status, "cancelled", "unknown"}
        /\ b.approval.fresh = FALSE
    BY <2>5 DEF Quiet
  <2>7. Quiet(b, b)
    BY <2>6 DEF Quiet
  <2>8. Quiet(b, e)
    BY <1>s, <2>6, <2>7, StatusSet
  <2> HIDE DEF e
  <2>9. Quiet(b, f)
    BY <2>6, <2>8, TurnStatusSet
  <2> HIDE DEF f
  <2>10. Quiet(b, g)
    BY <2>6, <2>9, ChildSet
  <2> HIDE DEF g
  <2> DEFINE h == Recording(c, b)
  <2>11. TaskSound(h) /\ h.gen = c.gen + 1 /\ h.task = b
    BY <2>5, RecordingFacts
  <2> HIDE DEF h
  <2>12. LET i == Recording(h, g) IN TaskSound(i) /\ i.gen = h.gen + 1 /\ i.task = g
    BY <2>10, <2>11, RecordingFacts
  <2>13. Quiet(l, g)
    BY <2>6, <2>10 DEF Quiet
  <2>14. d = h \/ d = Recording(h, g)
    BY <2>2, <2>3 DEF h
  <2>15. TaskSound(d) /\ d.gen > c.gen /\ Quiet(l, d.task)
    BY <1>0, <2>5, <2>11, <2>12, <2>13, <2>14
  <2> HIDE DEF l
  <2> QED BY <1>q, <2>15 DEF l
<1>3. CASE p.op \in {"approve", "reject"} /\ TaskMayDecide(c, p)
  <2> DEFINE k == IF p.op = "approve" THEN "accept" ELSE "decline"
             m == DecisionLost(l)
             n == ResponseApplied(l, ResponseSent(l.approval.id, k))
  <2>1. d \in {Recording(c, m), Recording(c, n)}
    BY <1>3 DEF TaskResults
  <2>2. p.gen = c.of /\ l.approval.fresh
    BY <1>3 DEF TaskMayDecide, MayDecide
  <2>3. p.gen = c.gen
    BY <2>2 DEF TaskSound
  <2>4. CASE d = Recording(c, m)
    <3>1. Quiet(l, m)
      <4> DEFINE a == [r EXCEPT !.status = "unknown"]
                 b == [a EXCEPT !.turnStatus = "unknown"]
      <4>1. m = [b EXCEPT !.approval.status = "unknown"]
        BY DEF DecisionLost
      <4> HIDE DEF r, m
      <4>2. Quiet(l, a)
        BY <1>0, <1>r, <1>s, StatusSet
      <4> HIDE DEF a
      <4>3. Quiet(l, b)
        BY <1>0, <4>2, TurnStatusSet
      <4> HIDE DEF b
      <4> QED BY <1>0, <4>1, <4>3, ApprovalSet
    <3> HIDE DEF l, m, n
    <3> QED BY <1>0, <1>q, <2>4, <3>1, RecordingFacts DEF l
  <2>5. CASE d = Recording(c, n)
    <3> DEFINE v == IF p.op = "approve" THEN "sent" ELSE "decline"
               w == IF l.status = "stopping" THEN "stopping" ELSE "running"
               a == [r EXCEPT !.approval.status = v, !.approval.safe = FALSE]
    <3>1. n = [a EXCEPT !.status = w]
      BY <1>3 DEF ResponseApplied, ResponseSent
    <3>2. v \in {"sent", "decline"} /\ w \in Status
      BY <1>s
    <3>3. r \in Service /\ r.approval.fresh = FALSE
      BY <1>0, RecordedFacts
    <3> HIDE DEF r, v, w
    <3>4. a \in Service /\ a.approval.fresh = FALSE /\ a.approval.status = v
      BY <3>2, <3>3 DEF Service, Approval
    <3> HIDE DEF a
    <3>5. n \in Service /\ n.approval.fresh = FALSE /\ n.approval.status = v
      BY <3>1, <3>2, <3>4 DEF Service
    <3> HIDE DEF n
    <3>6. Quiet(n, n)
      BY <3>5 DEF Quiet
    <3>7. TaskSound(c) /\ TaskSound([c EXCEPT !.task = n])
      <4>1. [c EXCEPT !.task = n] \in Task /\ [c EXCEPT !.task = n].of = c.of
            /\ [c EXCEPT !.task = n].gen = c.gen /\ [c EXCEPT !.task = n].task = n
        BY <3>5 DEF TaskSound, Task
      <4> QED BY <3>5, <4>1 DEF TaskSound
    <3>8. Recording(c, n) = Recording([c EXCEPT !.task = n], n)
      BY DEF Recording, TaskSound, Task
    <3> DEFINE e == [c EXCEPT !.task = n]
    <3>9. e.task = n /\ e.gen = c.gen
      BY <3>5 DEF TaskSound, Task
    <3>10. TaskSound(e) /\ Quiet(e.task, n) /\ d = Recording(e, n)
      BY <2>5, <3>6, <3>7, <3>8, <3>9
    <3> HIDE DEF e
    <3>11. TaskSound(d) /\ d.gen = e.gen + 1 /\ d.task = n
      BY <3>10, RecordingFacts
    <3>12. (p.op = "approve" /\ v = "sent") \/ (p.op = "reject" /\ v = "decline")
      BY <1>3 DEF v
    <3> QED BY <1>0, <2>2, <2>3, <3>5, <3>9, <3>11, <3>12
  <2> QED BY <2>1, <2>4, <2>5
<1> QED
  <2>1. CASE ~ \/ p.op = "start" /\ p.gen = c.gen /\ MayStart(c.task)
               \/ p.op = "stop" /\ MayStop(c.task)
               \/ p.op \in {"approve", "reject"} /\ TaskMayDecide(c, p)
    BY <2>1 DEF TaskResults
  <2> QED BY <1>1, <1>2, <1>3, <2>1

-----------------------------------------------------------------------------
(* Snapshots.                                                              *)

\* A snapshot, whose approval expects a generation that has been.
Sound(v) ==
  /\ v \in Snapshot
  /\ IF IsCodex(v) THEN TaskSound(v.core)
     ELSE v.core \in Demo /\ v.core.approval.of <= v.core.gen

\* A later state of the same process.
Later(v, w) ==
  Sound(w) /\ w.epoch = v.epoch /\ w.source = v.source /\ Gen(w) > Gen(v)

LEMMA SoundFacts ==
  ASSUME NEW v, Sound(v)
  PROVE  /\ Gen(v) \in Nat /\ v.epoch \in Nat
         /\ ApprovalOf(v).of \in Nat /\ ApprovalOf(v).of <= Gen(v)
<1>1. v.epoch \in Nat
  BY DEF Sound, Snapshot
<1>2. CASE IsCodex(v)
  <2>1. TaskSound(v.core)
    BY <1>2 DEF Sound
  <2>2. v.core.gen \in Nat /\ v.core.of \in Nat /\ v.core.of <= v.core.gen
    BY <2>1 DEF TaskSound, Task
  <2>3. ApprovalOf(v).of = v.core.of
    BY <1>2 DEF ApprovalOf
  <2> QED BY <1>1, <2>2, <2>3 DEF Gen
<1>3. CASE ~IsCodex(v)
  <2>1. v.core \in Demo /\ v.core.approval.of <= v.core.gen
    BY <1>3 DEF Sound
  <2>2. v.core.gen \in Nat /\ v.core.approval.of \in Nat
    BY <2>1 DEF Demo
  <2>3. ApprovalOf(v).of = v.core.approval.of
    BY <1>3 DEF ApprovalOf
  <2> QED BY <1>1, <2>1, <2>2, <2>3 DEF Gen
<1> QED BY <1>2, <1>3

\* A state of a process with another core.
LEMMA CoreSet ==
  ASSUME NEW v \in Snapshot, NEW c, IF IsCodex(v) THEN c \in Task ELSE c \in Demo
  PROVE  LET w == [v EXCEPT !.core = c] IN
         /\ w \in Snapshot /\ w.epoch = v.epoch /\ w.source = v.source /\ w.core = c
         /\ IsCodex(w) <=> IsCodex(v)
BY DEF Snapshot, IsCodex

\* What a request leaves: the state, or a later one; and where it takes a
\* decision, the decision is about the last request for approval and expects
\* the present generation.
Meant(p, v, w) ==
  ApprovalOf(w).status \in Decided /\ ApprovalOf(w).status # ApprovalOf(v).status =>
    /\ p.gen = ApprovalOf(v).of /\ p.gen = Gen(v)
    /\ p.op = (IF ApprovalOf(w).status \in {"approve", "sent"} THEN "approve" ELSE "reject")

LEMMA ResultsFacts ==
  ASSUME NEW v, Sound(v), NEW p, NEW w \in Results(v, p)
  PROVE  (w = v \/ Later(v, w)) /\ Meant(p, v, w)
<1>1. CASE IsCodex(v)
  <2>1. PICK c \in TaskResults(v.core, p) : w = [v EXCEPT !.core = c]
    BY <1>1 DEF Results
  <2>2. v \in Snapshot /\ TaskSound(v.core) /\ v.core \in Task
    BY <1>1 DEF Sound, TaskSound
  <2>3. CASE c = v.core
    <3>1. w = v
      BY <2>1, <2>2, <2>3 DEF Snapshot
    <3> QED BY <3>1 DEF Meant
  <2>4. CASE c # v.core
    <3>1. /\ TaskSound(c) /\ c.gen > v.core.gen
          /\ c.task.approval.status \in Decided
             /\ c.task.approval.status # v.core.task.approval.status =>
               /\ p.gen = v.core.of /\ p.gen = v.core.gen
               /\ \/ p.op = "approve" /\ c.task.approval.status = "sent"
                  \/ p.op = "reject" /\ c.task.approval.status = "decline"
      BY <2>2, <2>4, TaskResultsFacts
    <3>2. /\ w \in Snapshot /\ w.epoch = v.epoch /\ w.source = v.source /\ w.core = c /\ IsCodex(w)
      BY <1>1, <2>1, <2>2, <3>1, CoreSet DEF TaskSound
    <3>3. Later(v, w)
      BY <3>1, <3>2 DEF Later, Sound, Gen
    <3>4. /\ ApprovalOf(w).status = c.task.approval.status
          /\ ApprovalOf(v).status = v.core.task.approval.status
          /\ ApprovalOf(v).of = v.core.of
      BY <1>1, <3>2 DEF ApprovalOf
    <3>5. Meant(p, v, w)
      BY <3>1, <3>4 DEF Meant, Gen
    <3> QED BY <3>3, <3>5
  <2> QED BY <2>3, <2>4
<1>2. CASE ~IsCodex(v)
  <2>1. PICK c \in DemoResults(v.core, p) : w = [v EXCEPT !.core = c]
    BY <1>2 DEF Results
  <2>2. v \in Snapshot /\ v.core \in Demo /\ v.core.approval.of <= v.core.gen
    BY <1>2 DEF Sound
  <2>3. CASE c = v.core
    <3>1. w = v
      BY <2>1, <2>2, <2>3 DEF Snapshot
    <3> QED BY <3>1 DEF Meant
  <2>4. CASE c # v.core
    <3>1. /\ c \in Demo /\ c.gen = v.core.gen + 1 /\ c.approval.of <= c.gen
          /\ c.approval.status \in Decided /\ c.approval.status # v.core.approval.status =>
               p.op = c.approval.status /\ p.gen = v.core.approval.of /\ p.gen = v.core.gen
      BY <2>2, <2>4, DemoResultsFacts
    <3>2. /\ w \in Snapshot /\ w.epoch = v.epoch /\ w.source = v.source /\ w.core = c /\ ~IsCodex(w)
      BY <1>2, <2>1, <2>2, <3>1, CoreSet
    <3>0. v.core.gen \in Nat /\ v.core.gen + 1 > v.core.gen
      BY <2>2 DEF Demo
    <3>3. Later(v, w)
      BY <3>0, <3>1, <3>2 DEF Later, Sound, Gen
    <3>4. /\ ApprovalOf(w).status = c.approval.status
          /\ ApprovalOf(v).status = v.core.approval.status
          /\ ApprovalOf(v).of = v.core.approval.of
      BY <1>2, <3>2 DEF ApprovalOf
    <3>6. c.approval.status \in {"pending", "approve", "reject", "cancelled"}
      BY <3>1 DEF Demo
    <3>5. Meant(p, v, w)
      BY <3>1, <3>4, <3>6 DEF Meant, Gen, Decided
    <3> QED BY <3>3, <3>5
  <2> QED BY <2>3, <2>4
<1> QED BY <1>1, <1>2

\* The first state of a process.
LEMMA FreshFacts ==
  ASSUME NEW source \in Sources, NEW e \in Nat
  PROVE  LET v == [epoch |-> e, source |-> source, core |-> Fresh(source)] IN
         Sound(v) /\ ApprovalOf(v).status = "cancelled"
<1>1. source \in {"simulation", "codex"}
  BY SourcesAssumption
<1>2. /\ TaskSound(InitialTask) /\ InitialTask.task.approval.status = "cancelled"
  <2>1. NoApproval \in Approval /\ NoApproval.fresh = FALSE /\ NoApproval.status = "cancelled"
    BY DEF NoApproval, Approval
  <2>2. "not-started" \in Status
    BY DEF Status
  <2>3. InitialService \in Service /\ InitialService.approval = NoApproval
    BY <2>1, <2>2 DEF InitialService, Service
  <2>4. InitialTask \in Task /\ InitialTask.of = 0 /\ InitialTask.gen = 0
        /\ InitialTask.task = InitialService
    BY <2>3 DEF InitialTask, Task
  <2> QED BY <2>1, <2>3, <2>4 DEF TaskSound
<1>3. /\ InitialDemo \in Demo /\ InitialDemo.approval.of <= InitialDemo.gen
      /\ InitialDemo.approval.status = "cancelled"
  BY StagesAssumption DEF InitialDemo, Demo, DemoStatus, NoDemoApproval
<1> DEFINE v == [epoch |-> e, source |-> source, core |-> Fresh(source)]
<1>4. CASE source = "codex"
  <2>1. v.core = InitialTask /\ IsCodex(v) /\ v \in Snapshot
    BY <1>2, <1>4 DEF Fresh, IsCodex, Snapshot, TaskSound
  <2> HIDE DEF v
  <2>2. Sound(v) /\ ApprovalOf(v).status = "cancelled"
    BY <1>2, <2>1 DEF Sound, ApprovalOf
  <2> QED BY <2>2 DEF v
<1>5. CASE source = "simulation"
  <2>1. v.core = InitialDemo /\ ~IsCodex(v) /\ v \in Snapshot
    BY <1>3, <1>5 DEF Fresh, IsCodex, Snapshot
  <2> HIDE DEF v
  <2>2. Sound(v) /\ ApprovalOf(v).status = "cancelled"
    BY <1>3, <2>1 DEF Sound, ApprovalOf
  <2> QED BY <2>2 DEF v
<1> QED BY <1>1, <1>4, <1>5

-----------------------------------------------------------------------------
(* What the page knows.                                                    *)

\* A snapshot that may reach a page with this token when the process is in
\* state s.
Knows(x, s, token) ==
  /\ Sound(x) /\ token <= x.epoch /\ x.epoch <= s.epoch
  /\ x.epoch = s.epoch => Gen(x) <= Gen(s) /\ (Gen(x) = Gen(s) => x = s)

\* What a detail is about.
ExplanationType == [epoch : Nat, gen : Nat]

PageType ==
  [snap : Snapshot \cup {Null}, unknown : BOOLEAN, token : Nat, detail : ExplanationType \cup {Null},
   voice : {"none", "detail"}, aloud : BOOLEAN]

\* What is on show was told by the page's own process, and explains a state
\* of the generation that is shown; and what is read.
ShowsOK(g, s) ==
  /\ g \in PageType /\ g.token <= s.epoch
  /\ g.snap # Null => Knows(g.snap, s, g.token) /\ g.token # 0
  /\ g.detail # Null => g.snap # Null /\ g.detail.gen = Gen(g.snap) /\ g.detail.epoch = g.token
ReadsOK(g) == g.voice = "detail" => g.aloud /\ ~g.unknown /\ g.detail # Null

PageOK(g, s) == ShowsOK(g, s) /\ ReadsOK(g)

Post ==
  [op : Operation \cup {"none"}, token : Nat, gen : Nat, session : {Null} \cup (Nat \X Nat),
   approval : Nat, shown : Snapshot \cup {Null}, say : {"drop", "show", "aloud"},
   answer : Snapshot \cup ExplanationType \cup {Null, Refused}]

\* Of an explanation on its way, whose it is; of a decision, what was on the
\* screen.
PostOK(p, s, token) ==
  /\ p \in Post
  /\ p.op # "explain" /\ p.answer \notin {Null, Refused} => Knows(p.answer, s, token)
  /\ p.op = "explain" =>
       /\ p.token = token
       /\ p.answer # Null => p.answer \in ExplanationType /\ p.answer.epoch = token
  /\ p.op \in Decides =>
       Knows(p.shown, s, token) /\ p.token <= p.shown.epoch /\ p.gen = ApprovalOf(p.shown).of

PostsOK(ps, s, g) ==
  /\ IsFiniteSet(ps) /\ Cardinality(ps) <= MaxPosts
  /\ \A p \in ps : PostOK(p, s, g.token)
  /\ ps # {} => g.snap # Null

View == [page : PageType, posts : SUBSET Post]
\* Before the voice is stopped, and otherwise.
LoudOK(u, s) == u \in View /\ ShowsOK(u.page, s) /\ PostsOK(u.posts, s, u.page)
ViewOK(u, s) == LoudOK(u, s) /\ ReadsOK(u.page)

PollOK ==
  poll # Null =>
    /\ page.token # 0
    /\ poll \in [at : Int, answer : Snapshot \cup {Null}]
    /\ poll.answer # Null => Knows(poll.answer, svc, page.token)

ServiceOK ==
  /\ Sound(svc) /\ svc.source \in Sources
  /\ faults \in 0 .. MaxFaults /\ svc.epoch \in 1 .. faults + 1

IInv == ServiceOK /\ ViewOK(Now, svc) /\ PollOK

\* What no operator on the page changes, but for loading it anew.
Kept(u, v) == v.page.token = u.page.token

LEMMA ViewParts ==
  ASSUME NEW g, NEW ps, NEW s, PageOK(g, s), PostsOK(ps, s, g)
  PROVE  ViewOK([page |-> g, posts |-> ps], s)
BY DEF ViewOK, LoudOK, View, PageOK, ShowsOK, PostsOK, PostOK

LEMMA KeptReflexive ==
  ASSUME NEW u, NEW v, v.page.token = u.page.token
  PROVE  Kept(u, v)
BY DEF Kept

\* The posts change one by one: the image of a finite set.
LEMMA ImageOK ==
  ASSUME NEW ps, NEW s, NEW g, NEW h, PostsOK(ps, s, g), g.token = h.token,
         h.snap = g.snap,
         NEW f \in [ps -> Post], \A p \in ps : PostOK(f[p], s, g.token),
         NEW qs, qs = {f[p] : p \in ps}
  PROVE  PostsOK(qs, s, h)
<1>1. f \in Surjection(ps, qs)
  <2>1. f \in [ps -> qs]
    OBVIOUS
  <2> QED BY <2>1 DEF Surjection
<1>2. IsFiniteSet(qs) /\ Cardinality(qs) <= Cardinality(ps)
  BY <1>1, FS_Surjection DEF PostsOK
<1>3. Cardinality(ps) \in Nat /\ Cardinality(qs) \in Nat /\ MaxPosts \in Nat
  BY <1>2, FS_CardinalityType, BoundsAssumption DEF PostsOK
<1> QED BY <1>2, <1>3 DEF PostsOK

LEMMA NoRequestOK ==
  ASSUME NEW s, NEW token
  PROVE  /\ PostOK(NoRequest, s, token)
         /\ PostOK([NoRequest EXCEPT !.answer = Refused], s, token)
         /\ \A v : Knows(v, s, token) => PostOK([NoRequest EXCEPT !.answer = v], s, token)
<1>1. ASSUME NEW v, v \in {Null, Refused} \/ Knows(v, s, token)
      PROVE  PostOK([NoRequest EXCEPT !.answer = v], s, token)
  <2> DEFINE p == [op |-> "none", token |-> 0, gen |-> 0, session |-> Null, approval |-> 0,
                   shown |-> Null, say |-> "drop", answer |-> v]
  <2>1. [NoRequest EXCEPT !.answer = v] = p
    BY DEF NoRequest
  <2>2. v \in Snapshot \cup ExplanationType \cup {Null, Refused}
    BY <1>1 DEF Knows, Sound
  <2>3. p \in Post
    BY <2>2 DEF Post
  <2>4. p.op = "none" /\ p.answer = v
    OBVIOUS
  <2> HIDE DEF p
  <2> QED BY <1>1, <2>1, <2>3, <2>4 DEF PostOK, Decides
<1>2. NoRequest = [NoRequest EXCEPT !.answer = Null]
  BY DEF NoRequest
<1> QED BY <1>1, <1>2

\* stopSpeech
LEMMA StopSpeechOK ==
  ASSUME NEW u, NEW s, LoudOK(u, s)
  PROVE  LET v == StopSpeech(u) IN
         /\ ViewOK(v, s) /\ v.page = [u.page EXCEPT !.voice = "none"]
         /\ Kept(u, v)
<1> DEFINE g == [u.page EXCEPT !.voice = "none"]
           f == [p \in u.posts |-> IF p.op = "explain" THEN NoRequest ELSE p]
           qs == {f[p] : p \in u.posts}
           v == StopSpeech(u)
<1>1. /\ u.page \in PageType /\ ShowsOK(u.page, s) /\ PostsOK(u.posts, s, u.page)
      /\ \A p \in u.posts : PostOK(p, s, u.page.token) /\ p \in Post
  BY DEF LoudOK, PostsOK, ShowsOK, PostOK
<1>2. v = [page |-> g, posts |-> qs]
  <2>1. {IF p.op = "explain" THEN NoRequest ELSE p : p \in u.posts} = qs
    OBVIOUS
  <2> HIDE DEF qs, f, g
  <2> QED BY <2>1 DEF StopSpeech, g
<1>3. /\ g \in PageType /\ g.token = u.page.token /\ g.snap = u.page.snap
      /\ g.detail = u.page.detail /\ g.voice = "none"
  BY <1>1 DEF PageType
<1>4. f \in [u.posts -> Post] /\ \A p \in u.posts : PostOK(f[p], s, u.page.token)
  <2>1. NoRequest \in Post /\ PostOK(NoRequest, s, u.page.token)
    BY NoRequestOK DEF PostOK
  <2> QED BY <1>1, <2>1
<1> HIDE DEF f, g
<1>5. PostsOK(qs, s, g)
  BY <1>1, <1>3, <1>4, ImageOK
<1>6. PageOK(g, s)
  BY <1>1, <1>3 DEF PageOK, ShowsOK, ReadsOK
<1>7. ViewOK(v, s)
  BY <1>2, <1>5, <1>6, ViewParts
<1>8. v.page = g
  BY <1>2
<1> HIDE DEF v
<1>9. Kept(u, v)
  BY <1>3, <1>8, KeptReflexive
<1> QED BY <1>7, <1>8, <1>9 DEF g, v

\* cancelSpeechPlayback
LEMMA CancelSpeechPlaybackOK ==
  ASSUME NEW u, NEW s, LoudOK(u, s)
  PROVE  LET v == CancelSpeechPlayback(u) IN
         ViewOK(v, s) /\ Kept(u, v) /\ v.page.voice = "none"
<1> DEFINE g == [u.page EXCEPT !.voice = "none"]
           f == [p \in u.posts |-> [p EXCEPT !.say = IF p.say = "aloud" THEN "show" ELSE p.say]]
           qs == {f[p] : p \in u.posts}
           v == CancelSpeechPlayback(u)
<1>1. /\ u.page \in PageType /\ ShowsOK(u.page, s) /\ PostsOK(u.posts, s, u.page)
      /\ \A p \in u.posts : PostOK(p, s, u.page.token) /\ p \in Post
  BY DEF LoudOK, PostsOK, ShowsOK, PostOK
<1>2. v = [page |-> g, posts |-> qs]
  <2>1. {[p EXCEPT !.say = IF p.say = "aloud" THEN "show" ELSE p.say] : p \in u.posts} = qs
    OBVIOUS
  <2> HIDE DEF qs, f, g
  <2> QED BY <2>1 DEF CancelSpeechPlayback, g
<1>3. /\ g \in PageType /\ g.token = u.page.token /\ g.snap = u.page.snap
      /\ g.detail = u.page.detail /\ g.voice = "none"
  BY <1>1 DEF PageType
<1>4. ASSUME NEW p \in u.posts
      PROVE  f[p] \in Post /\ PostOK(f[p], s, u.page.token)
  <2> DEFINE say == IF p.say = "aloud" THEN "show" ELSE p.say
             q == [p EXCEPT !.say = say]
  <2>1. f[p] = q
    OBVIOUS
  <2>2. p \in Post /\ PostOK(p, s, u.page.token)
    BY <1>1
  <2>3. say \in {"drop", "show", "aloud"}
    BY <2>2 DEF Post
  <2> HIDE DEF say, f
  <2>4. /\ q \in Post /\ q.op = p.op /\ q.answer = p.answer /\ q.shown = p.shown
        /\ q.token = p.token /\ q.gen = p.gen
    BY <2>2, <2>3 DEF Post
  <2> HIDE DEF q
  <2> QED BY <2>1, <2>2, <2>4 DEF PostOK
<1>5. f \in [u.posts -> Post]
  BY <1>4
<1> HIDE DEF f, g
<1>6. PostsOK(qs, s, g)
  BY <1>1, <1>3, <1>4, <1>5, ImageOK
<1>7. PageOK(g, s)
  BY <1>1, <1>3 DEF PageOK, ShowsOK, ReadsOK
<1>8. ViewOK(v, s)
  BY <1>2, <1>6, <1>7, ViewParts
<1>9. v.page = g
  BY <1>2
<1> HIDE DEF v
<1>10. Kept(u, v)
  BY <1>3, <1>9, KeptReflexive
<1> QED BY <1>3, <1>8, <1>9, <1>10 DEF v

\* A page that shows, or knows, something else.
LEMMA PageSet ==
  ASSUME NEW u, NEW s, LoudOK(u, s), NEW g, ShowsOK(g, s), g.token = u.page.token,
         g.snap = Null => u.page.snap = Null
  PROVE  LoudOK([u EXCEPT !.page = g], s) /\ [u EXCEPT !.page = g].page = g
<1> DEFINE v == [u EXCEPT !.page = g]
<1>1. v.page = g /\ v.posts = u.posts /\ v \in View
  BY DEF LoudOK, View, ShowsOK
<1> HIDE DEF v
<1>2. PostsOK(v.posts, s, g)
  BY <1>1 DEF LoudOK, PostsOK
<1>3. LoudOK(v, s)
  BY <1>1, <1>2 DEF LoudOK
<1> QED BY <1>1, <1>3 DEF v

\* A post that has come back is not under way any more.
LEMMA PostGone ==
  ASSUME NEW u, NEW s, ViewOK(u, s), NEW cut
  PROVE  LET v == [u EXCEPT !.posts = @ \ cut] IN
         ViewOK(v, s) /\ v.page = u.page /\ Kept(u, v)
<1> DEFINE v == [u EXCEPT !.posts = @ \ cut]
<1>1. v.page = u.page /\ v.posts = u.posts \ cut /\ v \in View
  BY DEF ViewOK, LoudOK, View
<1>2. IsFiniteSet(u.posts \ cut) /\ Cardinality(u.posts \ cut) <= Cardinality(u.posts)
  BY FS_Subset DEF ViewOK, LoudOK, PostsOK
<1>3. Cardinality(u.posts) \in Nat /\ Cardinality(u.posts \ cut) \in Nat /\ MaxPosts \in Nat
  BY <1>2, FS_CardinalityType, BoundsAssumption DEF ViewOK, LoudOK, PostsOK
<1> HIDE DEF v
<1>4. PostsOK(v.posts, s, v.page)
  BY <1>1, <1>2, <1>3 DEF ViewOK, LoudOK, PostsOK
<1>5. ViewOK(v, s)
  BY <1>1, <1>4 DEF ViewOK, LoudOK
<1>6. Kept(u, v)
  BY <1>1, KeptReflexive DEF ViewOK
<1> QED BY <1>1, <1>5, <1>6 DEF v

LEMMA KeptTransitive ==
  ASSUME NEW u, NEW v, NEW w, Kept(u, v), Kept(v, w)
  PROVE  Kept(u, w)
BY DEF Kept

\* markConnectionUnknown
LEMMA MarkConnectionUnknownOK ==
  ASSUME NEW u, NEW s, ViewOK(u, s)
  PROVE  ViewOK(MarkConnectionUnknown(u), s) /\ Kept(u, MarkConnectionUnknown(u))
<1>0. LoudOK(u, s)
  BY DEF ViewOK
<1>1. CASE u.page.unknown
  BY <1>0, <1>1, KeptReflexive DEF MarkConnectionUnknown
<1>2. CASE ~u.page.unknown
  <2> DEFINE g == [u.page EXCEPT !.unknown = TRUE]
             v == [u EXCEPT !.page = g]
  <2>1. /\ ShowsOK(g, s) /\ g.token = u.page.token /\ g.snap = u.page.snap
    <3>1. u.page \in PageType
      BY <1>0 DEF LoudOK, ShowsOK
    <3>2. /\ g \in PageType /\ g.token = u.page.token /\ g.snap = u.page.snap
          /\ g.detail = u.page.detail
      BY <3>1 DEF PageType
    <3> HIDE DEF g
    <3> QED BY <1>0, <3>2 DEF LoudOK, ShowsOK
  <2>2. MarkConnectionUnknown(u) = StopSpeech(v)
    BY <1>2 DEF MarkConnectionUnknown
  <2> HIDE DEF g
  <2>3. LoudOK(v, s) /\ v.page = g
    BY <1>0, <2>1, PageSet
  <2> HIDE DEF v
  <2>4. ViewOK(StopSpeech(v), s) /\ Kept(v, StopSpeech(v))
    BY <2>3, StopSpeechOK
  <2>5. Kept(u, v)
    BY <1>0, <2>1, <2>3, KeptReflexive
  <2> QED BY <1>0, <2>2, <2>3, <2>4, <2>5, KeptTransitive DEF ViewOK
<1> QED BY <1>1, <1>2

\* render, of a snapshot of a generation that is not passed over.
LEMMA ShowsLater ==
  ASSUME NEW u, NEW s, ViewOK(u, s), NEW v, Knows(v, s, u.page.token), u.page.token # 0
  PROVE  ViewOK(Shows(u, v), s) /\ Kept(u, Shows(u, v))
<1> DEFINE p == u.page
           g == [[p EXCEPT !.snap = v] EXCEPT !.unknown = FALSE]
           h == [g EXCEPT !.detail = Null]
           w == [u EXCEPT !.page = g]
           x == [u EXCEPT !.page = h]
<1>0. LoudOK(u, s) /\ p \in PageType /\ u \in View /\ v \in Snapshot /\ v # Null
  BY NullAssumption DEF ViewOK, LoudOK, ShowsOK, Knows, Sound
<1>1. /\ g \in PageType /\ g.token = p.token /\ g.snap = v /\ g.detail = p.detail
      /\ g.voice = p.voice /\ g.aloud = p.aloud /\ ~g.unknown
  BY <1>0 DEF PageType
<1>2. /\ h \in PageType /\ h.token = p.token /\ h.snap = v /\ h.detail = Null
  <2> HIDE DEF g
  <2> QED BY <1>1 DEF PageType
<1>3. Shows(u, v) = IF p.snap = Null \/ Gen(v) = Last(p) THEN w ELSE StopSpeech(x)
  <2>1. [u EXCEPT !.page.snap = v, !.page.unknown = FALSE] = w
    BY <1>0 DEF View
  <2>2. [w EXCEPT !.page.detail = Null] = x
    <3>1. w.page = g
      BY <1>0 DEF View
    <3> HIDE DEF g
    <3> QED BY <1>0, <3>1 DEF View
  <2>3. [[u EXCEPT !.page.snap = v, !.page.unknown = FALSE] EXCEPT !.page.detail = Null] = x
    <3> HIDE DEF w, x
    <3> QED BY <2>1, <2>2
  <2> HIDE DEF w, x
  <2> QED BY <2>1, <2>3 DEF Shows
<1> HIDE DEF g, h, w, x
<1>4. CASE p.snap = Null \/ Gen(v) = Last(p)
  <2>1. ShowsOK(g, s) /\ ReadsOK(g)
    <3>1. p.detail # Null =>
            p.snap # Null /\ p.detail.gen = Gen(v) /\ p.detail.epoch = p.token
      BY <1>0, <1>4 DEF LoudOK, ShowsOK, Last
    <3>2. ReadsOK(p)
      BY DEF ViewOK
    <3> QED BY <1>0, <1>1, <3>1, <3>2 DEF LoudOK, ShowsOK, ReadsOK
  <2>2. LoudOK(w, s) /\ w.page = g
    BY <1>0, <1>1, <2>1, PageSet DEF w
  <2>3. ViewOK(w, s)
    BY <2>1, <2>2 DEF ViewOK
  <2>4. Kept(u, w)
    BY <1>0, <1>1, <2>2 DEF Kept
  <2> QED BY <1>3, <1>4, <2>3, <2>4
<1>5. CASE ~(p.snap = Null \/ Gen(v) = Last(p))
  <2>1. ShowsOK(h, s)
    BY <1>0, <1>2 DEF LoudOK, ShowsOK
  <2>2. LoudOK(x, s) /\ x.page = h
    BY <1>0, <1>2, <2>1, PageSet DEF x
  <2>3. ViewOK(StopSpeech(x), s) /\ Kept(x, StopSpeech(x))
    BY <2>2, StopSpeechOK
  <2>4. Kept(u, x)
    BY <1>0, <1>2, <2>2 DEF Kept
  <2>5. Kept(u, StopSpeech(x))
    BY <1>0, <2>2, <2>3, <2>4, KeptTransitive DEF ViewOK
  <2> QED BY <1>3, <1>5, <2>3, <2>5
<1> QED BY <1>4, <1>5

\* render: the page goes on to a later state, or stays where it is.
LEMMA RenderOK ==
  ASSUME NEW u, NEW s, ViewOK(u, s), NEW v, Knows(v, s, u.page.token), u.page.token # 0,
         NEW polled \in BOOLEAN, NEW at
  PROVE  ViewOK(Render(u, v, polled, at), s) /\ Kept(u, Render(u, v, polled, at))
<1> DEFINE p == u.page
           r == Render(u, v, polled, at)
<1>0. LoudOK(u, s) /\ Kept(u, u) /\ Gen(v) \in Nat
  BY KeptReflexive, SoundFacts DEF ViewOK, Knows
<1>1. Last(p) \in Int /\ (p.snap # Null => Last(p) = Gen(p.snap))
  <2>1. p.snap # Null => Gen(p.snap) \in Nat
    BY <1>0, SoundFacts DEF LoudOK, ShowsOK, Knows
  <2> QED BY <2>1 DEF Last
<1>2. CASE Gen(v) < Last(p)
  <2>1. r = u \/ r = MarkConnectionUnknown(u)
    BY <1>2 DEF Render
  <2> HIDE DEF r
  <2> QED BY <1>0, <2>1, MarkConnectionUnknownOK DEF r
<1>3. CASE ~(Gen(v) < Last(p))
  <2>1. r = u \/ r = Shows(u, v)
    BY <1>0, <1>1, <1>3 DEF Render
  <2>3. ViewOK(Shows(u, v), s) /\ Kept(u, Shows(u, v))
    BY ShowsLater
  <2> HIDE DEF r
  <2> QED BY <1>0, <2>1, <2>3 DEF r
<1> QED BY <1>2, <1>3

-----------------------------------------------------------------------------
(* The process moves on, and the page does not notice.                     *)

Moved(s, w) == Sound(w) /\ (w = s \/ Later(s, w) \/ w.epoch > s.epoch)

LEMMA KnowsMoved ==
  ASSUME NEW s, NEW w, Sound(s), Moved(s, w), NEW x, NEW token \in Nat, Knows(x, s, token)
  PROVE  Knows(x, w, token)
<1>1. /\ x.epoch \in Nat /\ s.epoch \in Nat /\ w.epoch \in Nat
      /\ Gen(x) \in Nat /\ Gen(s) \in Nat /\ Gen(w) \in Nat
  BY SoundFacts DEF Moved, Knows
<1>2. CASE w = s
  BY <1>2
<1>3. CASE Later(s, w)
  BY <1>1, <1>3 DEF Later, Knows
<1>4. CASE w.epoch > s.epoch
  BY <1>1, <1>4 DEF Knows
<1> QED BY <1>2, <1>3, <1>4 DEF Moved

LEMMA EpochMoved ==
  ASSUME NEW s, NEW w, Sound(s), Moved(s, w)
  PROVE  s.epoch \in Nat /\ w.epoch \in Nat /\ s.epoch <= w.epoch
BY SoundFacts DEF Moved, Later

LEMMA PostMoved ==
  ASSUME NEW s, NEW w, Sound(s), Moved(s, w), NEW p, NEW token \in Nat, PostOK(p, s, token)
  PROVE  PostOK(p, w, token)
BY KnowsMoved DEF PostOK

LEMMA ViewMoved ==
  ASSUME NEW s, NEW w, Sound(s), Moved(s, w), NEW u, ViewOK(u, s)
  PROVE  ViewOK(u, w)
<1>1. u.page.token \in Nat /\ u.page.token <= s.epoch
  BY DEF ViewOK, LoudOK, ShowsOK, PageType
<1>2. u.page.token <= w.epoch
  BY <1>1, EpochMoved
<1>3. ShowsOK(u.page, w)
  BY <1>1, <1>2, KnowsMoved DEF ViewOK, LoudOK, ShowsOK
<1>4. PostsOK(u.posts, w, u.page)
  BY <1>1, PostMoved DEF ViewOK, LoudOK, PostsOK
<1> QED BY <1>3, <1>4 DEF ViewOK, LoudOK

\* The present state may be known.
LEMMA KnowsItself ==
  ASSUME NEW s, Sound(s), NEW token \in Nat, token <= s.epoch
  PROVE  Knows(s, s, token)
BY SoundFacts DEF Knows

\* What the properties say of a step.
DecidedAsShown ==
  ApprovalOf(svc').status \in Decided /\ ApprovalOf(svc').status # ApprovalOf(svc).status =>
    \E p \in posts : p.answer = Null /\ p.shown = svc
      /\ p.op = (IF ApprovalOf(svc').status \in {"approve", "sent"} THEN "approve" ELSE "reject")

\* The page is a view, and the view the page.
LEMMA NowIs ==
  /\ Now.page = page /\ Now.posts = posts
  /\ Now'.page = page' /\ Now'.posts = posts'
BY DEF Now

LEMMA BecomesIs ==
  ASSUME NEW v, v \in View, Becomes(v)
  PROVE  Now' = v
BY DEF Now, Becomes, View

\* A step that shows a view, and may end the poll; the process may move.
LEMMA ShowStep ==
  ASSUME IInv, ServiceOK', Moved(svc, svc'), NEW v, ViewOK(v, svc), Kept(Now, v), Becomes(v),
         poll' = poll \/ poll' = Null
  PROVE  IInv'
<1>1. Now' = v
  BY BecomesIs DEF ViewOK, LoudOK
<1>2. page'.token = page.token
  BY <1>1, NowIs DEF Kept
<1>3. Sound(svc) /\ page.token \in Nat
  BY NowIs DEF IInv, ServiceOK, ViewOK, LoudOK, ShowsOK, PageType
<1>4. PollOK'
  <2> SUFFICES ASSUME poll # Null, poll' = poll
               PROVE  /\ page'.token # 0
                      /\ poll \in [at : Int, answer : Snapshot \cup {Null}]
                      /\ poll.answer # Null => Knows(poll.answer, svc', page'.token)
    BY DEF PollOK
  <2> QED BY <1>2, <1>3, KnowsMoved DEF IInv, PollOK
<1>5. ViewOK(Now', svc')
  BY <1>1, <1>3, ViewMoved
<1> QED BY <1>4, <1>5 DEF IInv

\* A step of the page, where the process goes on as it was.
LEMMA ViewStep ==
  ASSUME IInv, NEW v, ViewOK(v, svc), Kept(Now, v), Becomes(v),
         UNCHANGED <<svc, faults>>, poll' = poll \/ poll' = Null
  PROVE  IInv' /\ DecidedAsShown
<1>1. ServiceOK' /\ svc' = svc /\ Moved(svc, svc')
  BY DEF IInv, ServiceOK, Moved
<1> QED BY <1>1, ShowStep DEF DecidedAsShown

\* A step of the process, where the page stays as it is.
LEMMA ServiceStep ==
  ASSUME IInv, ServiceOK', Moved(svc, svc'), UNCHANGED page, NEW ps, ViewOK([page |-> page, posts |-> ps], svc'),
         posts' = ps, UNCHANGED poll
  PROVE  IInv'
<1>1. Now' = [page |-> page, posts |-> ps]
  BY DEF Now
<1>2. PollOK'
  <2> SUFFICES ASSUME poll # Null
               PROVE  /\ page.token # 0
                      /\ poll \in [at : Int, answer : Snapshot \cup {Null}]
                      /\ poll.answer # Null => Knows(poll.answer, svc', page.token)
    BY DEF PollOK
  <2>1. page.token \in Nat /\ Sound(svc)
    BY NowIs DEF IInv, ViewOK, LoudOK, ShowsOK, PageType, ServiceOK
  <2> QED BY <2>1, KnowsMoved DEF IInv, PollOK
<1> QED BY <1>1, <1>2 DEF IInv

-----------------------------------------------------------------------------
(* The steps of the page.                                                  *)

LEMMA InvParts ==
  ASSUME IInv
  PROVE  /\ ViewOK(Now, svc) /\ LoudOK(Now, svc) /\ ShowsOK(page, svc) /\ ReadsOK(page)
         /\ PostsOK(posts, svc, page) /\ Now \in View /\ page \in PageType
         /\ Sound(svc) /\ svc.epoch \in Nat /\ svc.epoch # 0
         /\ page.token \in Nat /\ page.token <= svc.epoch /\ PollOK
         /\ Last(page) \in Int
<1>1. /\ ViewOK(Now, svc) /\ LoudOK(Now, svc) /\ ShowsOK(page, svc) /\ ReadsOK(page)
      /\ PostsOK(posts, svc, page) /\ Now \in View /\ page \in PageType /\ PollOK
  BY NowIs DEF IInv, ViewOK, LoudOK, ShowsOK
<1>2. Sound(svc) /\ svc.epoch \in Nat /\ svc.epoch # 0
  BY DEF IInv, ServiceOK
<1>3. page.token \in Nat /\ page.token <= svc.epoch
  BY <1>1 DEF ShowsOK, PageType
<1>4. Last(page) \in Int
  <2>1. page.snap # Null => Gen(page.snap) \in Nat
    BY <1>1, SoundFacts DEF ShowsOK, Knows
  <2> QED BY <2>1 DEF Last
<1> QED BY <1>1, <1>2, <1>3, <1>4

LEMMA PollBeginsStep == ASSUME IInv, PollBegins PROVE IInv' /\ DecidedAsShown
<1>1. page.token # 0 /\ poll' = [at |-> Last(page), answer |-> Null]
      /\ svc' = svc /\ page' = page /\ posts' = posts /\ faults' = faults
  BY DEF PollBegins
<1>2. Last(page) \in Int /\ ViewOK(Now, svc) /\ LoudOK(Now, svc)
  BY InvParts
<1>3. PollOK'
  BY <1>1, <1>2 DEF PollOK
<1>4. Now' = Now
  BY <1>1 DEF Now
<1>5. ServiceOK'
  BY <1>1 DEF IInv, ServiceOK
<1>6. IInv'
  BY <1>1, <1>2, <1>3, <1>4, <1>5 DEF IInv
<1> QED BY <1>1, <1>6 DEF DecidedAsShown

\* The first request of a page that has not been shown anything.
LEMMA RefreshCsrfStep == ASSUME IInv, RefreshCsrf PROVE IInv' /\ DecidedAsShown
<1>1. /\ page.token = 0 /\ page' = [page EXCEPT !.token = svc.epoch]
      /\ poll' = [at |-> Last(page), answer |-> Null]
      /\ svc' = svc /\ posts' = posts /\ faults' = faults
  BY DEF RefreshCsrf
<1>2. /\ Last(page) \in Int /\ ShowsOK(page, svc) /\ ReadsOK(page) /\ PostsOK(posts, svc, page)
      /\ page \in PageType /\ svc.epoch \in Nat /\ svc.epoch # 0
  BY InvParts
<1>3. page.snap = Null /\ posts = {} /\ page.detail = Null
  BY <1>1, <1>2 DEF ShowsOK, PostsOK
<1>4. /\ page' \in PageType /\ page'.token = svc.epoch /\ page'.snap = Null /\ page'.detail = Null
      /\ page'.voice = page.voice
  BY <1>1, <1>2, <1>3 DEF PageType
<1>5. PageOK(page', svc)
  BY <1>2, <1>3, <1>4 DEF PageOK, ShowsOK, ReadsOK
<1>6. PostsOK(posts', svc, page')
  BY <1>1, <1>2, <1>3 DEF PostsOK
<1>7. ViewOK([page |-> page', posts |-> posts'], svc)
  BY <1>5, <1>6, ViewParts
<1>8. Now' = [page |-> page', posts |-> posts']
  BY DEF Now
<1>9. PollOK'
  BY <1>1, <1>2, <1>4 DEF PollOK
<1>10. ServiceOK'
  BY <1>1 DEF IInv, ServiceOK
<1>11. IInv'
  BY <1>1, <1>7, <1>8, <1>9, <1>10 DEF IInv
<1>12. DecidedAsShown
  BY <1>1 DEF DecidedAsShown
<1> QED BY <1>11, <1>12

LEMMA PollArrivesStep == ASSUME IInv, PollArrives PROVE IInv' /\ DecidedAsShown
<1> DEFINE v == Render(Now, poll.answer, TRUE, poll.at)
<1>1. /\ poll # Null /\ poll.answer # Null /\ Becomes(v) /\ poll' = Null /\ UNCHANGED <<svc, faults>>
  BY DEF PollArrives
<1>2. ViewOK(Now, svc) /\ PollOK /\ Now.page = page
  BY InvParts, NowIs
<1>3. Knows(poll.answer, svc, page.token) /\ page.token # 0
  BY <1>1, <1>2 DEF PollOK
<1>4. ViewOK(v, svc) /\ Kept(Now, v)
  BY <1>2, <1>3, RenderOK
<1> HIDE DEF v
<1> QED BY <1>1, <1>4, ViewStep

\* A snapshot's session and approval, as a request names them.
LEMMA NamedFacts ==
  ASSUME NEW v, Sound(v)
  PROVE  /\ SessionOf(v) \in {Null} \cup (Nat \X Nat)
         /\ ApprovalOf(v).id \in Nat
<1>0. v.epoch \in Nat
  BY SoundFacts
<1>1. CASE IsCodex(v)
  <2>1. v.core.task \in Service
    BY <1>1 DEF Sound, TaskSound, Task
  <2>2. v.core.task.session \in Nat /\ v.core.task.approval.id \in Nat
    BY <2>1 DEF Service, Approval
  <2> QED BY <1>0, <1>1, <2>2 DEF SessionOf, ApprovalOf
<1>2. CASE ~IsCodex(v)
  <2>1. v.core \in Demo
    BY <1>2 DEF Sound
  <2>2. v.core.session \in Nat /\ v.core.approval.of \in Nat
    BY <2>1 DEF Demo
  <2> QED BY <1>0, <1>2, <2>2 DEF SessionOf, ApprovalOf
<1> QED BY <1>1, <1>2

\* A request is about what the page shows.
LEMMA RequestOK ==
  ASSUME NEW g, NEW s, ShowsOK(g, s), g.snap # Null, NEW op \in Operation
  PROVE  PostOK(Request(g, op), s, g.token)
<1> DEFINE p == Request(g, op)
           x == g.snap
<1>1. Knows(x, s, g.token) /\ Sound(x) /\ g.token \in Nat /\ g.token <= x.epoch /\ x \in Snapshot
  BY DEF ShowsOK, Knows, PageType, Sound
<1>2. /\ Gen(x) \in Nat /\ ApprovalOf(x).of \in Nat /\ ApprovalOf(x).id \in Nat
      /\ SessionOf(x) \in {Null} \cup (Nat \X Nat)
  BY <1>1, SoundFacts, NamedFacts
<1> HIDE DEF x
<1> DEFINE gen == CASE op \in Decides -> ApprovalOf(x).of
                    [] op \in {"start", "advance", "explain"} -> Gen(x)
                    [] OTHER -> 0
           session == IF op \in Decides \cup {"explain"} THEN SessionOf(x) ELSE Null
           approval == IF op \in Decides THEN ApprovalOf(x).id ELSE 0
           shown == IF op \in Decides THEN x ELSE Null
           say == CASE op # "explain" -> "drop"
                    [] op = "explain" /\ g.aloud -> "aloud"
                    [] OTHER -> "show"
<1>4. p = [op |-> op, token |-> g.token, gen |-> gen, session |-> session,
           approval |-> approval, shown |-> shown, say |-> say, answer |-> Null]
  BY DEF Request, x
<1>3. op \in Decides => gen = ApprovalOf(x).of /\ shown = x
  BY DEF Decides
<1>5. gen \in Nat
  <2>1. op \in Decides \/ op \in {"start", "advance", "explain"} \/ op = "stop"
    BY DEF Operation, Decides
  <2> QED BY <1>2, <2>1 DEF Decides
<1>6. /\ session \in {Null} \cup (Nat \X Nat) /\ approval \in Nat /\ shown \in Snapshot \cup {Null}
      /\ say \in {"drop", "show", "aloud"}
  BY <1>1, <1>2
<1> HIDE DEF p, gen, session, approval, shown, say
<1>7. p \in Post
  BY <1>1, <1>4, <1>5, <1>6 DEF Post
<1>8. p.op = op /\ p.token = g.token /\ p.answer = Null /\ p.gen = gen /\ p.shown = shown
  BY <1>4
<1> QED BY <1>1, <1>3, <1>7, <1>8 DEF PostOK, p

LEMMA ClickStep ==
  ASSUME IInv, NEW op \in Operation, Click(op)
  PROVE  IInv' /\ DecidedAsShown
<1> DEFINE q == Request(page, op)
           v == [page |-> page, posts |-> posts \cup {q}]
<1>1. /\ page.snap # Null /\ Cardinality(posts) < MaxPosts /\ posts' = posts \cup {q}
      /\ UNCHANGED <<svc, page, poll, faults>>
  BY DEF Click, Enabled
<1>2. /\ ShowsOK(page, svc) /\ ReadsOK(page) /\ PostsOK(posts, svc, page) /\ LoudOK(Now, svc)
  BY InvParts
<1>3. PostOK(q, svc, page.token)
  BY <1>1, <1>2, RequestOK
<1> HIDE DEF q
<1>4. IsFiniteSet(posts \cup {q}) /\ Cardinality(posts \cup {q}) <= MaxPosts
  <2>1. IsFiniteSet(posts) /\ Cardinality(posts) \in Nat /\ MaxPosts \in Nat
    BY <1>2, FS_CardinalityType, BoundsAssumption DEF PostsOK
  <2>2. /\ IsFiniteSet(posts \cup {q})
        /\ Cardinality(posts \cup {q}) = IF q \in posts THEN Cardinality(posts)
                                         ELSE Cardinality(posts) + 1
    BY <2>1, FS_AddElement
  <2> QED BY <1>1, <2>1, <2>2
<1>5. PostsOK(posts \cup {q}, svc, page)
  BY <1>1, <1>2, <1>3, <1>4 DEF PostsOK
<1>6. ViewOK(v, svc)
  BY <1>2, <1>5, ViewParts DEF PageOK
<1>7. Kept(Now, v)
  <2>1. v.page = Now.page
    BY NowIs
  <2> HIDE DEF v
  <2> QED BY <1>2, <2>1, KeptReflexive
<1>8. Becomes(v)
  BY <1>1 DEF Becomes
<1> HIDE DEF v
<1> QED BY <1>1, <1>6, <1>7, <1>8, ViewStep

\* The view without some of the posts.
LEMMA Without ==
  ASSUME IInv, NEW cut
  PROVE  LET u == [Now EXCEPT !.posts = @ \ cut] IN
         ViewOK(u, svc) /\ LoudOK(u, svc) /\ Kept(Now, u) /\ u.page = page
BY InvParts, PostGone, NowIs DEF ViewOK

LEMMA PostArrivesStep ==
  ASSUME IInv, NEW p \in posts, PostArrives(p)
  PROVE  IInv' /\ DecidedAsShown
<1> DEFINE u == [Now EXCEPT !.posts = @ \ {p}]
           v == IF p.answer = Refused THEN u ELSE Render(u, p.answer, FALSE, 0)
<1>1. /\ p.answer # Null /\ p.op # "explain" /\ Becomes(v) /\ UNCHANGED <<svc, poll, faults>>
  BY DEF PostArrives
<1>2. ViewOK(u, svc) /\ LoudOK(u, svc) /\ Kept(Now, u) /\ u.page = page /\ LoudOK(Now, svc)
  BY Without, InvParts
<1>3. PostOK(p, svc, page.token) /\ page.token # 0
  BY InvParts DEF PostsOK, ShowsOK
<1>4. ViewOK(v, svc) /\ Kept(Now, v)
  <2>1. CASE p.answer = Refused
    BY <1>2, <2>1
  <2>2. CASE p.answer # Refused
    <3>1. Knows(p.answer, svc, u.page.token)
      BY <1>1, <1>2, <1>3, <2>2 DEF PostOK
    <3> DEFINE r == Render(u, p.answer, FALSE, 0)
    <3> HIDE DEF u
    <3>2. ViewOK(r, svc) /\ Kept(u, r)
      BY <1>2, <1>3, <3>1, RenderOK
    <3> HIDE DEF r
    <3>3. Kept(Now, r)
      BY <1>2, <3>2, KeptTransitive DEF ViewOK
    <3> QED BY <2>2, <3>2, <3>3 DEF r
  <2> QED BY <2>1, <2>2
<1> HIDE DEF v
<1> QED BY <1>1, <1>4, ViewStep

\* speakText
LEMMA SpeakTextOK ==
  ASSUME NEW u, NEW s, LoudOK(u, s), NEW what \in {"none", "detail"},
         what = "detail" => u.page.aloud /\ ~u.page.unknown /\ u.page.detail # Null
  PROVE  ViewOK(SpeakText(u, what), s) /\ Kept(u, SpeakText(u, what))
<1> DEFINE v == StopSpeech(u)
           g == [v.page EXCEPT !.voice = what]
           w == [v EXCEPT !.page = g]
<1>1. ViewOK(v, s) /\ LoudOK(v, s) /\ v.page = [u.page EXCEPT !.voice = "none"] /\ Kept(u, v)
  BY StopSpeechOK DEF ViewOK
<1>2. SpeakText(u, what) = w
  BY DEF SpeakText
<1> HIDE DEF v
<1>3. u.page \in PageType /\ v.page \in PageType
  BY <1>1 DEF LoudOK, ShowsOK
<1>4. /\ v.page.aloud = u.page.aloud /\ v.page.unknown = u.page.unknown
      /\ v.page.detail = u.page.detail
  BY <1>1, <1>3 DEF PageType
<1>5. /\ g \in PageType /\ g.token = v.page.token /\ g.snap = v.page.snap
      /\ g.detail = v.page.detail /\ g.aloud = v.page.aloud /\ g.unknown = v.page.unknown
      /\ g.voice = what
  BY <1>3 DEF PageType
<1> HIDE DEF g
<1>6. ShowsOK(g, s) /\ ReadsOK(g)
  BY <1>1, <1>4, <1>5 DEF LoudOK, ShowsOK, ReadsOK
<1>7. LoudOK(w, s) /\ w.page = g
  <2>1. LoudOK(v, s) /\ g.token = v.page.token /\ (g.snap = Null => v.page.snap = Null)
    BY <1>1, <1>5
  <2> QED BY <1>6, <2>1, PageSet
<1> HIDE DEF w
<1>8. ViewOK(w, s) /\ Kept(v, w)
  BY <1>1, <1>5, <1>6, <1>7, KeptReflexive DEF ViewOK
<1> QED BY <1>1, <1>2, <1>7, <1>8, KeptTransitive

LEMMA DetailArrivesStep ==
  ASSUME IInv, NEW p \in posts, DetailArrives(p)
  PROVE  IInv' /\ DecidedAsShown
<1> DEFINE u == [Now EXCEPT !.posts = @ \ {p}]
           g == [u.page EXCEPT !.detail = p.answer]
           v == [u EXCEPT !.page = g]
<1>1. /\ p.op = "explain" /\ p.answer # Null
      /\ UNCHANGED <<svc, poll, faults>>
      /\ \/ Becomes(u)
         \/ TakesDetail(u, p) /\ Becomes(v)
         \/ TakesDetail(u, p) /\ page.aloud /\ Becomes(SpeakText(v, "detail"))
  BY DEF DetailArrives
<1>2. ViewOK(u, svc) /\ LoudOK(u, svc) /\ Kept(Now, u) /\ u.page = page /\ LoudOK(Now, svc)
  BY Without, InvParts
<1>3. PostOK(p, svc, page.token) /\ page.snap # Null /\ page \in PageType
  BY InvParts DEF PostsOK
<1> HIDE DEF u
<1>4. CASE Becomes(u)
  BY <1>1, <1>2, <1>4, ViewStep
<1>5. CASE TakesDetail(u, p)
  <2>1. /\ p.answer \in ExplanationType /\ p.answer # Null /\ ~page.unknown
        /\ p.answer.gen = Gen(page.snap) /\ p.answer.epoch = page.token
    BY <1>1, <1>2, <1>3, <1>5 DEF TakesDetail, PostOK
  <2>2. /\ g \in PageType /\ g.token = page.token /\ g.snap = page.snap /\ g.detail = p.answer
        /\ g.aloud = page.aloud /\ g.unknown = page.unknown /\ g.voice = page.voice
    BY <1>2, <1>3, <2>1 DEF PageType
  <2> HIDE DEF g
  <2>0. ShowsOK(page, svc) /\ ReadsOK(page) /\ g.detail # Null
    BY <2>1, <2>2, InvParts
  <2>3. ShowsOK(g, svc) /\ ReadsOK(g)
    BY <1>3, <2>0, <2>1, <2>2 DEF ShowsOK, ReadsOK
  <2>4. LoudOK(v, svc) /\ v.page = g
    BY <1>2, <1>3, <2>2, <2>3, PageSet
  <2> HIDE DEF v
  <2>5. ViewOK(v, svc) /\ Kept(u, v)
    BY <1>2, <2>2, <2>3, <2>4, KeptReflexive DEF ViewOK
  <2>6. Kept(Now, v)
    BY <1>2, <2>4, <2>5, KeptTransitive
  <2>7. CASE Becomes(v)
    BY <1>1, <2>5, <2>6, <2>7, ViewStep
  <2>8. CASE page.aloud /\ Becomes(SpeakText(v, "detail"))
    <3> DEFINE w == SpeakText(v, "detail")
    <3>1. ViewOK(w, svc) /\ Kept(v, w)
      BY <2>0, <2>1, <2>2, <2>4, <2>8, SpeakTextOK
    <3> HIDE DEF w
    <3>2. Kept(Now, w)
      BY <1>2, <2>4, <2>6, <3>1, KeptTransitive DEF ViewOK
    <3>3. Becomes(w)
      BY <2>8 DEF w
    <3> QED BY <1>1, <3>1, <3>2, <3>3, ViewStep
  <2> QED BY <1>1, <1>4, <2>7, <2>8
<1> QED BY <1>1, <1>4, <1>5

LEMMA ReadsOutStep == ASSUME IInv, ReadsOut PROVE IInv' /\ DecidedAsShown
<1> DEFINE v == SpeakText(Now, "none")
<1>1. ViewOK(v, svc) /\ Kept(Now, v)
  BY InvParts, SpeakTextOK
<1>2. Becomes(v) /\ UNCHANGED <<svc, poll, faults>>
  BY DEF ReadsOut
<1> HIDE DEF v
<1> QED BY <1>1, <1>2, ViewStep

LEMMA StopSpeechStep ==
  ASSUME IInv, StopSpeechWithNotice PROVE IInv' /\ DecidedAsShown
<1> DEFINE v == StopSpeech(Now)
<1>1. ViewOK(v, svc) /\ Kept(Now, v)
  BY InvParts, StopSpeechOK
<1>2. Becomes(v) /\ UNCHANGED <<svc, poll, faults>>
  BY DEF StopSpeechWithNotice
<1> HIDE DEF v
<1> QED BY <1>1, <1>2, ViewStep

LEMMA VoiceEndsStep == ASSUME IInv, VoiceEnds PROVE IInv' /\ DecidedAsShown
<1> DEFINE g == [page EXCEPT !.voice = "none"]
           v == [Now EXCEPT !.page = g]
<1>1. page' = g /\ posts' = posts /\ poll' = poll /\ UNCHANGED <<svc, faults>>
  BY DEF VoiceEnds
<1>2. ShowsOK(page, svc) /\ page \in PageType /\ LoudOK(Now, svc)
  BY InvParts
<1>3. /\ g \in PageType /\ g.token = page.token /\ g.snap = page.snap /\ g.detail = page.detail
      /\ g.voice = "none"
  BY <1>2 DEF PageType
<1> HIDE DEF g
<1>4. ShowsOK(g, svc) /\ ReadsOK(g)
  BY <1>2, <1>3 DEF ShowsOK, ReadsOK
<1>5. LoudOK(v, svc) /\ v.page = g /\ v.posts = posts
  BY <1>2, <1>3, <1>4, NowIs, PageSet DEF LoudOK, View
<1> HIDE DEF v
<1>6. ViewOK(v, svc) /\ Kept(Now, v)
  BY <1>2, <1>3, <1>4, <1>5, NowIs, KeptReflexive DEF ViewOK
<1>7. Becomes(v)
  BY <1>1, <1>5 DEF Becomes
<1> QED BY <1>1, <1>6, <1>7, ViewStep

LEMMA ToggleStep == ASSUME IInv, ToggleSpeakDetail PROVE IInv' /\ DecidedAsShown
<1> DEFINE g == [page EXCEPT !.aloud = ~page.aloud]
           u == [Now EXCEPT !.page = g]
           v == IF page.aloud THEN CancelSpeechPlayback(u) ELSE u
<1>1. Becomes(v) /\ UNCHANGED <<svc, poll, faults>>
  <2>1. [Now EXCEPT !.page.aloud = ~@] = u
    BY NowIs
  <2> HIDE DEF u
  <2> QED BY <2>1 DEF ToggleSpeakDetail
<1>2. ShowsOK(page, svc) /\ ReadsOK(page) /\ page \in PageType /\ LoudOK(Now, svc)
  BY InvParts
<1>3. /\ g \in PageType /\ g.token = page.token /\ g.snap = page.snap /\ g.detail = page.detail
      /\ g.voice = page.voice /\ g.aloud = ~page.aloud /\ g.unknown = page.unknown
  BY <1>2 DEF PageType
<1> HIDE DEF g
<1>4. ShowsOK(g, svc)
  BY <1>2, <1>3 DEF ShowsOK
<1>5. LoudOK(u, svc) /\ u.page = g
  BY <1>2, <1>3, <1>4, NowIs, PageSet
<1> HIDE DEF u
<1>6. Kept(Now, u)
  BY <1>2, <1>3, <1>5, NowIs, KeptReflexive
<1>7. CASE page.aloud
  <2> DEFINE w == CancelSpeechPlayback(u)
  <2>1. ViewOK(w, svc) /\ Kept(u, w)
    BY <1>5, CancelSpeechPlaybackOK
  <2> HIDE DEF w
  <2>2. Kept(Now, w)
    BY <1>2, <1>5, <1>6, <2>1, KeptTransitive DEF ViewOK
  <2>3. Becomes(w)
    BY <1>1, <1>7 DEF w
  <2> QED BY <1>1, <2>1, <2>2, <2>3, ViewStep
<1>8. CASE ~page.aloud
  <2>1. ViewOK(u, svc)
    BY <1>2, <1>3, <1>5, <1>8 DEF ViewOK, ReadsOK
  <2> QED BY <1>1, <1>6, <1>8, <2>1, ViewStep
<1> QED BY <1>7, <1>8

\* A new page.
LEMMA NewPageOK ==
  ASSUME NEW s, s.epoch \in Nat
  PROVE  ViewOK([page |-> NewPage, posts |-> {}], s)
<1>1. /\ NewPage \in PageType /\ NewPage.token = 0 /\ NewPage.snap = Null /\ NewPage.detail = Null
      /\ NewPage.voice = "none"
  BY DEF NewPage, PageType
<1>2. PageOK(NewPage, s)
  BY <1>1 DEF PageOK, ShowsOK, ReadsOK
<1>3. PostsOK({}, s, NewPage)
  BY FS_EmptySet, BoundsAssumption DEF PostsOK
<1> QED BY <1>2, <1>3, ViewParts

LEMMA ReloadStep == ASSUME IInv, Reload PROVE IInv' /\ DecidedAsShown
<1>1. page' = NewPage /\ poll' = Null /\ posts' = {} /\ svc' = svc /\ faults' = faults
  BY DEF Reload
<1>2. Now' = [page |-> NewPage, posts |-> {}]
  BY <1>1 DEF Now
<1>3. ViewOK(Now', svc')
  BY <1>1, <1>2, InvParts, NewPageOK
<1>4. IInv'
  BY <1>1, <1>3 DEF IInv, ServiceOK, PollOK
<1>5. page'.token = 0
  BY <1>1 DEF NewPage
<1> QED BY <1>1, <1>4, <1>5 DEF DecidedAsShown

-----------------------------------------------------------------------------
(* The steps of the process and the network.                               *)

LEMMA ServePollStep == ASSUME IInv, ServePoll PROVE IInv' /\ DecidedAsShown
<1>1. /\ poll # Null /\ poll' = [poll EXCEPT !.answer = svc]
      /\ UNCHANGED <<svc, page, posts, faults>>
  BY DEF ServePoll
<1>2. /\ page.token # 0 /\ poll \in [at : Int, answer : Snapshot \cup {Null}]
      /\ Sound(svc) /\ page.token \in Nat /\ page.token <= svc.epoch /\ LoudOK(Now, svc)
  BY <1>1, InvParts DEF PollOK
<1>3. Knows(svc, svc, page.token)
  BY <1>2, KnowsItself
<1>4. poll' \in [at : Int, answer : Snapshot \cup {Null}] /\ poll'.answer = svc
  BY <1>1, <1>2 DEF Sound
<1>5. PollOK'
  BY <1>1, <1>2, <1>3, <1>4 DEF PollOK
<1>6. Now' = Now
  BY <1>1 DEF Now
<1>7. IInv'
  BY <1>1, <1>5, <1>6 DEF IInv, ServiceOK
<1> QED BY <1>1, <1>7 DEF DecidedAsShown

\* A step of the companion within its process.
LEMMA CompanionStep ==
  ASSUME IInv, svc' = svc \/ Later(svc, svc'), UNCHANGED faults
  PROVE  ServiceOK' /\ Moved(svc, svc')
BY DEF IInv, ServiceOK, Moved, Later

LEMMA MovedAlone ==
  ASSUME IInv, svc' = svc \/ Later(svc, svc'), UNCHANGED <<page, posts, poll, faults>>
  PROVE  IInv'
<1>1. ServiceOK' /\ Moved(svc, svc') /\ ViewOK(Now, svc) /\ Sound(svc)
  BY CompanionStep, InvParts
<1>2. Now = [page |-> page, posts |-> posts]
  BY DEF Now
<1>3. ViewOK(Now, svc')
  BY <1>1, ViewMoved
<1> QED BY <1>1, <1>2, <1>3, ServiceStep

\* A decision that is taken was posted for the present state: the request it
\* answers expects the present generation, which no earlier snapshot has.
LEMMA MeantIsShown ==
  ASSUME NEW s, Sound(s), NEW token, NEW p, PostOK(p, s, token), p.op \in Decides,
         p.token = s.epoch, p.gen = Gen(s)
  PROVE  p.shown = s
<1>1. /\ Knows(p.shown, s, token) /\ p.token <= p.shown.epoch /\ p.gen = ApprovalOf(p.shown).of
      /\ Sound(p.shown)
  BY DEF PostOK, Knows
<1>2. /\ p.shown.epoch \in Nat /\ s.epoch \in Nat /\ Gen(p.shown) \in Nat /\ Gen(s) \in Nat
      /\ ApprovalOf(p.shown).of <= Gen(p.shown) /\ ApprovalOf(p.shown).of \in Nat
  BY <1>1, SoundFacts
<1>3. p.shown.epoch = s.epoch
  BY <1>1, <1>2 DEF Knows
<1>4. Gen(p.shown) = Gen(s)
  BY <1>1, <1>2, <1>3 DEF Knows
<1> QED BY <1>1, <1>3, <1>4 DEF Knows

LEMMA ServePostStep ==
  ASSUME IInv, NEW p \in posts, ServePost(p)
  PROVE  IInv' /\ DecidedAsShown
<1> DEFINE a == Answered(p, svc')
           ps == (posts \ {p}) \cup {a}
<1>1. /\ p.answer = Null /\ svc' \in Serves(p) /\ posts' = ps /\ UNCHANGED <<page, poll, faults>>
  BY DEF ServePost
<1>2. /\ Sound(svc) /\ svc.epoch \in Nat /\ svc.epoch # 0 /\ PostsOK(posts, svc, page)
      /\ page.token \in Nat /\ page.token <= svc.epoch /\ ShowsOK(page, svc) /\ ReadsOK(page)
  BY InvParts
<1>3. PostOK(p, svc, page.token) /\ page.snap # Null
  BY <1>2 DEF PostsOK
<1>4. /\ svc' = svc \/ Later(svc, svc')
      /\ svc' # svc => p.token = svc.epoch
      /\ Meant(p, svc, svc')
  <2>1. CASE p.token # svc.epoch
    <3>1. svc' = svc
      BY <1>1, <2>1 DEF Serves
    <3> QED BY <3>1 DEF Meant
  <2>2. CASE p.token = svc.epoch
    <3>1. svc' \in Results(svc, p)
      BY <1>1, <2>2 DEF Serves
    <3> QED BY <1>2, <2>2, <3>1, ResultsFacts
  <2> QED BY <2>1, <2>2
<1>5. ServiceOK' /\ Moved(svc, svc')
  BY <1>1, <1>4, CompanionStep
<1>6. Sound(svc') /\ svc'.epoch = svc.epoch
  BY <1>2, <1>4, <1>5 DEF Later, Moved
<1>7. PostOK(a, svc', page.token)
  <2>1. CASE p.op = "explain" /\ p.token = svc.epoch
    <3>1. a = [p EXCEPT !.answer = Explanation(svc')]
      BY <2>1 DEF Answered
    <3>2. Explanation(svc') \in ExplanationType /\ p \in Post /\ Explanation(svc').epoch = svc.epoch
      BY <1>2, <1>3, <1>6, SoundFacts DEF PostOK, Explanation, ExplanationType
    <3>3. /\ a \in Post /\ a.op = p.op /\ a.token = p.token
          /\ a.answer = Explanation(svc')
      BY <3>1, <3>2 DEF Post
    <3> HIDE DEF a
    <3> QED BY <1>3, <2>1, <3>2, <3>3 DEF PostOK, Decides
  <2>2. CASE p.op # "explain" /\ p.token = svc.epoch
    <3>1. a = [NoRequest EXCEPT !.answer = svc']
      BY <2>2 DEF Answered
    <3>2. Knows(svc', svc', page.token)
      BY <1>2, <1>6, KnowsItself
    <3> HIDE DEF a
    <3>3. PostOK([NoRequest EXCEPT !.answer = svc'], svc', page.token)
      BY <3>2, NoRequestOK
    <3> QED BY <3>1, <3>3
  <2>3. CASE p.token # svc.epoch
    <3>1. a = [NoRequest EXCEPT !.answer = Refused]
      BY <2>3 DEF Answered
    <3> QED BY <3>1, NoRequestOK
  <2> QED BY <2>1, <2>2, <2>3
<1> HIDE DEF a
<1>8. IsFiniteSet(ps) /\ Cardinality(ps) <= MaxPosts
  <2>1. IsFiniteSet(posts) /\ Cardinality(posts) \in Nat /\ MaxPosts \in Nat
        /\ Cardinality(posts) <= MaxPosts
    BY <1>2, FS_CardinalityType, BoundsAssumption DEF PostsOK
  <2>2. IsFiniteSet(posts \ {p}) /\ Cardinality(posts \ {p}) = Cardinality(posts) - 1
    BY <2>1, FS_RemoveElement
  <2>3. /\ IsFiniteSet(ps)
        /\ Cardinality(ps) = IF a \in posts \ {p} THEN Cardinality(posts \ {p})
                             ELSE Cardinality(posts \ {p}) + 1
    BY <2>2, FS_AddElement
  <2> QED BY <2>1, <2>2, <2>3
<1>9. \A q \in ps : PostOK(q, svc', page.token)
  BY <1>2, <1>5, <1>7, PostMoved DEF PostsOK
<1> HIDE DEF ps
<1>10. PostsOK(ps, svc', page)
  BY <1>3, <1>8, <1>9 DEF PostsOK
<1>11. PageOK(page, svc')
  <2>1. ViewOK(Now, svc')
    BY <1>2, <1>5, InvParts, ViewMoved
  <2> QED BY <2>1, NowIs DEF ViewOK, LoudOK, PageOK
<1>12. ViewOK([page |-> page, posts |-> ps], svc')
  BY <1>10, <1>11, ViewParts
<1>13. IInv'
  BY <1>1, <1>5, <1>12, ServiceStep
<1>14. DecidedAsShown
  <2> SUFFICES ASSUME ApprovalOf(svc').status \in Decided,
                      ApprovalOf(svc').status # ApprovalOf(svc).status
               PROVE  /\ p.shown = svc
                      /\ p.op = (IF ApprovalOf(svc').status \in {"approve", "sent"}
                                 THEN "approve" ELSE "reject")
    BY <1>1 DEF DecidedAsShown
  <2>1. /\ p.gen = Gen(svc) /\ p.token = svc.epoch
        /\ p.op = (IF ApprovalOf(svc').status \in {"approve", "sent"} THEN "approve" ELSE "reject")
    BY <1>4 DEF Meant
  <2>2. p.op \in Decides
    BY <2>1 DEF Decides
  <2> QED BY <1>2, <1>3, <2>1, <2>2, MeantIsShown
<1> QED BY <1>13, <1>14

\* Something is lost: one fault more, and the process goes on.
LEMMA FaultStep ==
  ASSUME IInv, faults < MaxFaults, faults' = faults + 1, UNCHANGED svc
  PROVE  ServiceOK' /\ Moved(svc, svc')
BY BoundsAssumption DEF IInv, ServiceOK, Moved

LEMMA LosePollStep == ASSUME IInv, LosePoll PROVE IInv' /\ DecidedAsShown
<1> DEFINE v == MarkConnectionUnknown(Now)
<1>1. ServiceOK' /\ Moved(svc, svc') /\ svc' = svc /\ Becomes(v) /\ poll' = Null
  BY FaultStep DEF LosePoll
<1>2. ViewOK(v, svc) /\ Kept(Now, v)
  BY InvParts, MarkConnectionUnknownOK
<1> HIDE DEF v
<1> QED BY <1>1, <1>2, ShowStep DEF DecidedAsShown

LEMMA LosePostStep ==
  ASSUME IInv, NEW p \in posts, LosePost(p)
  PROVE  IInv' /\ DecidedAsShown
<1> DEFINE u == [Now EXCEPT !.posts = @ \ {p}]
           v == MarkConnectionUnknown(u)
<1>1. ServiceOK' /\ Moved(svc, svc') /\ svc' = svc /\ Becomes(v) /\ poll' = poll
  BY FaultStep DEF LosePost
<1>2. ViewOK(u, svc) /\ LoudOK(u, svc) /\ Kept(Now, u) /\ LoudOK(Now, svc)
  BY InvParts, Without
<1> HIDE DEF u
<1>3. ViewOK(v, svc) /\ Kept(u, v)
  BY <1>2, MarkConnectionUnknownOK
<1> HIDE DEF v
<1>4. Kept(Now, v)
  BY <1>2, <1>3, KeptTransitive DEF ViewOK
<1> QED BY <1>1, <1>3, <1>4, ShowStep DEF DecidedAsShown

LEMMA McpToolStep == ASSUME IInv, McpTool PROVE IInv' /\ DecidedAsShown
<1>1. PICK op \in {"start", "advance", "stop"}, g \in 0 .. Gen(svc) :
        svc' \in Results(svc, [op |-> op, gen |-> g])
  BY DEF McpTool
<1>2. UNCHANGED <<page, poll, posts, faults>>
  BY DEF McpTool
<1> DEFINE p == [op |-> op, gen |-> g]
<1>3. Sound(svc) /\ svc' \in Results(svc, p) /\ p.op = op
  BY <1>1, InvParts
<1> HIDE DEF p
<1>4. (svc' = svc \/ Later(svc, svc')) /\ Meant(p, svc, svc')
  BY <1>3, ResultsFacts
<1>5. IInv'
  BY <1>2, <1>4, MovedAlone
<1>6. DecidedAsShown
  BY <1>3, <1>4 DEF DecidedAsShown, Meant
<1> QED BY <1>5, <1>6

\* Nobody decides when Codex tells something.
LEMMA CodexTellsStep == ASSUME IInv, CodexTells PROVE IInv' /\ DecidedAsShown
<1> DEFINE c == svc.core
<1>1. /\ IsCodex(svc) /\ UNCHANGED <<page, poll, posts, faults>>
  BY DEF CodexTells
<1>2. Sound(svc) /\ svc \in Snapshot /\ TaskSound(c)
  BY <1>1, InvParts DEF Sound
<1>3. c.task \in Service /\ c.gen \in Nat /\ c.asked \in Nat /\ c.of \in Nat /\ c \in Task
  BY <1>2 DEF TaskSound, Task
<1>4. \E d : /\ svc' = [svc EXCEPT !.core = d] /\ TaskSound(d) /\ d.gen = c.gen + 1
             /\ d.task.approval.status \in {c.task.approval.status, "pending", "cancelled", "unknown"}
  <2>1. CASE \E o \in Observations : /\ ~Ignores(c.task, o)
                                     /\ svc' = [svc EXCEPT !.core = Recording(c, Observed(c.task, o))]
    <3>1. PICK o \in Observations : /\ ~Ignores(c.task, o)
                                    /\ svc' = [svc EXCEPT !.core = Recording(c, Observed(c.task, o))]
      BY <2>1
    <3> DEFINE m == Observed(c.task, o)
               d == Recording(c, m)
    <3>2. Quiet(c.task, m)
      BY <1>3, <3>1, SourcesAssumption, ObservedIsQuiet
    <3> HIDE DEF m
    <3>3. TaskSound(d) /\ d.gen = c.gen + 1 /\ d.task = m
      BY <1>2, <3>2, RecordingFacts
    <3>4. svc' = [svc EXCEPT !.core = d]
      BY <3>1 DEF m
    <3> HIDE DEF d
    <3> QED BY <3>2, <3>3, <3>4 DEF Quiet
  <2>2. CASE \E t \in Turns, safe \in BOOLEAN :
               /\ Asked(c.task, c.asked + 1, t, safe) # c.task
               /\ svc' = [svc EXCEPT !.core =
                    [Recording(c, Asked(c.task, c.asked + 1, t, safe)) EXCEPT
                       !.asked = @ + 1, !.of = c.gen + 1]]
    <3>1. PICK t \in Turns, safe \in BOOLEAN :
               /\ Asked(c.task, c.asked + 1, t, safe) # c.task
               /\ svc' = [svc EXCEPT !.core =
                    [Recording(c, Asked(c.task, c.asked + 1, t, safe)) EXCEPT
                       !.asked = @ + 1, !.of = c.gen + 1]]
      BY <2>2
    <3> DEFINE m == Asked(c.task, c.asked + 1, t, safe)
               e == [c EXCEPT !.task = m]
               f == [e EXCEPT !.gen = e.gen + 1]
               g == [f EXCEPT !.asked = f.asked + 1]
               d == [g EXCEPT !.of = c.gen + 1]
    <3>2. m \in Service /\ m.approval.status = "pending"
      <4>1. m # c.task
        BY <3>1
      <4>2. c.asked + 1 \in Nat
        BY <1>3
      <4> HIDE DEF c
      <4> QED BY <1>3, <4>1, <4>2, AskedFacts
    <3>3. Recording(c, m) = f
      <4>1. e.gen = c.gen
        BY <1>3 DEF Task
      <4> HIDE DEF m
      <4> QED BY <4>1 DEF Recording
    <3>4. svc' = [svc EXCEPT !.core = d]
      <4> HIDE DEF f
      <4> QED BY <3>1, <3>3 DEF m
    <3> HIDE DEF m
    <3>5. e \in Task /\ e.gen = c.gen /\ e.task = m
      BY <1>3, <3>2 DEF Task
    <3> HIDE DEF e
    <3>6. f \in Task /\ f.gen = c.gen + 1 /\ f.task = m
      BY <1>3, <3>5 DEF Task
    <3> HIDE DEF f
    <3>7. g \in Task /\ g.gen = c.gen + 1 /\ g.task = m
      BY <1>3, <3>6 DEF Task
    <3> HIDE DEF g
    <3>8. d \in Task /\ d.gen = c.gen + 1 /\ d.task = m /\ d.of = c.gen + 1
      BY <1>3, <3>7 DEF Task
    <3> HIDE DEF d
    <3>9. TaskSound(d)
      BY <1>3, <3>8 DEF TaskSound
    <3> QED BY <3>2, <3>4, <3>8, <3>9
  <2> QED BY <2>1, <2>2 DEF CodexTells
<1>5. PICK d : /\ svc' = [svc EXCEPT !.core = d] /\ TaskSound(d) /\ d.gen = c.gen + 1
               /\ d.task.approval.status \in {c.task.approval.status, "pending", "cancelled", "unknown"}
  BY <1>4
<1>6. /\ svc' \in Snapshot /\ svc'.epoch = svc.epoch /\ svc'.source = svc.source /\ svc'.core = d
      /\ IsCodex(svc')
  BY <1>1, <1>2, <1>5, CoreSet DEF TaskSound
<1>7. Later(svc, svc')
  BY <1>3, <1>5, <1>6 DEF Later, Sound, Gen
<1>8. IInv'
  BY <1>1, <1>7, MovedAlone
<1>9. /\ ApprovalOf(svc').status = d.task.approval.status
      /\ ApprovalOf(svc).status = c.task.approval.status
  BY <1>1, <1>6 DEF ApprovalOf
<1>10. DecidedAsShown
  BY <1>5, <1>9 DEF DecidedAsShown, Decided
<1> QED BY <1>8, <1>10

LEMMA RestartStep == ASSUME IInv, Restart PROVE IInv' /\ DecidedAsShown
<1> DEFINE cut == {p \in posts : p.answer = Null}
           u == [Now EXCEPT !.posts = @ \ cut]
           v == MarkConnectionUnknown(u)
<1>1. /\ faults < MaxFaults /\ faults' = faults + 1
      /\ svc' = [svc EXCEPT !.epoch = @ + 1, !.core = Fresh(svc.source)]
      /\ Becomes(u) \/ Becomes(v)
      /\ poll' = poll \/ poll' = Null
  BY DEF Restart
<1>2. /\ ViewOK(u, svc) /\ Kept(Now, u) /\ LoudOK(Now, svc) /\ LoudOK(u, svc) /\ Sound(svc)
      /\ svc \in Snapshot
  BY InvParts, Without DEF Sound
<1> HIDE DEF u
<1>3. ViewOK(v, svc) /\ Kept(u, v)
  BY <1>2, MarkConnectionUnknownOK
<1> HIDE DEF v
<1>4. Kept(Now, v)
  BY <1>2, <1>3, KeptTransitive DEF ViewOK
<1>5. svc' = [epoch |-> svc.epoch + 1, source |-> svc.source, core |-> Fresh(svc.source)]
  BY <1>1, <1>2 DEF Snapshot
<1>6. svc.source \in Sources /\ svc.epoch \in 1 .. faults + 1 /\ faults \in 0 .. MaxFaults
  BY DEF IInv, ServiceOK
<1>7. svc.epoch + 1 \in Nat /\ svc.epoch + 1 \in 1 .. faults' + 1 /\ faults' \in 0 .. MaxFaults
  BY <1>1, <1>6, BoundsAssumption
<1>8. Sound(svc') /\ ApprovalOf(svc').status = "cancelled"
  BY <1>5, <1>6, <1>7, FreshFacts
<1>9. ServiceOK' /\ Moved(svc, svc')
  BY <1>5, <1>6, <1>7, <1>8 DEF ServiceOK, Moved
<1>10. IInv'
  BY <1>1, <1>2, <1>3, <1>4, <1>9, ShowStep
<1>11. DecidedAsShown
  BY <1>8 DEF DecidedAsShown, Decided
<1> QED BY <1>10, <1>11

-----------------------------------------------------------------------------

LEMMA InitInv == Init => IInv
<1> SUFFICES ASSUME Init PROVE IInv
  OBVIOUS
<1>1. PICK source \in Sources : svc = [epoch |-> 1, source |-> source, core |-> Fresh(source)]
  BY DEF Init
<1>2. page = NewPage /\ poll = Null /\ posts = {} /\ faults = 0
  BY DEF Init
<1>3. Sound(svc)
  BY <1>1, FreshFacts
<1>4. ServiceOK
  BY <1>1, <1>2, <1>3, BoundsAssumption DEF ServiceOK
<1>5. ViewOK(Now, svc)
  BY <1>1, <1>2, NewPageOK DEF Now
<1> QED BY <1>2, <1>4, <1>5 DEF IInv, PollOK

LEMMA NextInv ==
  ASSUME IInv, Next
  PROVE  IInv' /\ DecidedAsShown
<1>1. CASE Polls
  BY <1>1, PollBeginsStep, RefreshCsrfStep, ServePollStep, PollArrivesStep DEF Polls
<1>2. CASE \E op \in Operation : Click(op)
  BY <1>2, ClickStep
<1>3. CASE \E p \in posts : ServePost(p) \/ PostArrives(p) \/ DetailArrives(p) \/ LosePost(p)
  BY <1>3, ServePostStep, PostArrivesStep, DetailArrivesStep, LosePostStep
<1>4. CASE ReadsOut \/ StopSpeechWithNotice \/ VoiceEnds
  BY <1>4, ReadsOutStep, StopSpeechStep, VoiceEndsStep
<1>5. CASE ToggleSpeakDetail \/ Reload
  BY <1>5, ToggleStep, ReloadStep
<1>6. CASE LosePoll \/ McpTool \/ CodexTells \/ Restart
  BY <1>6, LosePollStep, McpToolStep, CodexTellsStep, RestartStep
<1> QED BY <1>1, <1>2, <1>3, <1>4, <1>5, <1>6 DEF Next

LEMMA StepInv ==
  ASSUME IInv, [Next]_vars
  PROVE  IInv' /\ DecidedAsShown
<1>1. CASE UNCHANGED vars
  <2>1. svc' = svc /\ page' = page /\ poll' = poll /\ posts' = posts /\ faults' = faults
    BY <1>1 DEF vars
  <2>2. Becomes(Now) /\ Kept(Now, Now) /\ ViewOK(Now, svc)
    BY <2>1, InvParts, KeptReflexive DEF Becomes, Now
  <2> QED BY <2>1, <2>2, ViewStep
<1> QED BY <1>1, NextInv

\* What the page knows of the process, and what is under way, is a state that
\* has been; and one that has the present generation is the present state.
THEOREM PageInvariant == Spec => []IInv
<1>1. IInv /\ [Next]_vars => IInv'
  BY StepInv
<1> QED BY <1>1, InitInv, PTL DEF Spec

\* No late explanation is shown or read (showDetail).
THEOREM DetailSafety == Spec => []DetailIsCurrent
<1>1. IInv => DetailIsCurrent
  <2> SUFFICES ASSUME IInv PROVE DetailIsCurrent
    OBVIOUS
  <2>1. /\ ShowsOK(page, svc) /\ ReadsOK(page) /\ PostsOK(posts, svc, page) /\ page \in PageType
        /\ page.token \in Nat /\ page.token <= svc.epoch
    BY InvParts
  <2>2. /\ Sound(svc) /\ svc.source \in Sources /\ faults \in 0 .. MaxFaults
        /\ svc.epoch \in 1 .. faults + 1
    BY DEF IInv, ServiceOK
  <2>3. svc \in Snapshot
    BY <2>2 DEF Sound
  <2>4. svc.epoch \in 1 .. MaxFaults + 1 /\ page.token \in 0 .. MaxFaults + 1
    BY <2>1, <2>2, BoundsAssumption
  <2>5. page.unknown \in BOOLEAN /\ page.voice \in {"none", "detail"}
    BY <2>1 DEF PageType
  <2>6. TypeOK
    BY <2>1, <2>2, <2>3, <2>4, <2>5 DEF TypeOK, PostsOK
  <2>7. page.snap # Null => page.token <= page.snap.epoch /\ page.snap.epoch \in Nat
    BY <2>1, SoundFacts DEF ShowsOK, Knows
  <2> QED BY <2>1, <2>6, <2>7 DEF DetailIsCurrent, ShowsOK, ReadsOK
<1> QED BY <1>1, PageInvariant, PTL

\* Whoever decides has seen the state that the decision is taken in (decide
\* and decideFromHuman).
THEOREM DecisionsAsMeant == Spec => DecisionMeantHere
<1>1. IInv /\ [Next]_vars =>
        [/\ ApprovalOf(svc').status \in {"approve", "reject", "sent", "decline"}
         /\ ApprovalOf(svc').status # ApprovalOf(svc).status
        => \E p \in posts : p.answer = Null /\ p.shown = svc
             /\ p.op = (IF ApprovalOf(svc').status \in {"approve", "sent"} THEN "approve" ELSE "reject")]_vars
  BY StepInv DEF DecidedAsShown, Decided
<1> QED BY <1>1, PageInvariant, PTL DEF Spec, DecisionMeantHere
=============================================================================
