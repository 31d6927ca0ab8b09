------------------------- MODULE CodexClientProofs -------------------------
(***************************************************************************)
(* Theorems about CodexClient, for any number of sessions, turns and       *)
(* requests: no outcome is made up or taken back, a task that was begun is *)
(* not called stopped, there is one child at a time, and a request of it   *)
(* is answered at most once.                                               *)
(*                                                                         *)
(* Most steps concern one session: what they leave of its context, of the  *)
(* service and of the answers is Good.  The methods the steps are made of  *)
(* keep that.                                                              *)
(***************************************************************************)
EXTENDS CodexClient, FiniteSetTheorems, TLAPS

-----------------------------------------------------------------------------
(* What the service makes of an observation *)

\* The service and the context of the current session agree, and on what its
\* child has said.
Agree(l, c, told) ==
  /\ Knows(l, c)
  /\ l.status \in {"finished", "failed", "interrupted"} => l.status = Reported(l.turnStatus)
  /\ l.turnStatus \in Outcome => l.turnStatus \in told
  /\ l.status = "stopped" => ~c.attempted
  /\ l.approval.status = "pending" => c.pending = l.approval.id

LEMMA StatusKinds ==
  /\ Terminal = {"finished", "stopped", "failed", "interrupted"}
  /\ Outcome = {"completed", "failed", "interrupted"}
  /\ \A l \in Service : Recorded(l) \in Service
  BY DEF Terminal, Outcome, Service, Recorded, Approval

\* The child is being closed.
LEMMA HearsClosing ==
  ASSUME NEW l \in Service
  PROVE  Observed(l, ChildIs("closing")) = [Recorded(l) EXCEPT !.child = "closing"]
  BY DEF Observed, Ignores, ChildIs, ChildStatusApplied, Progress

LEMMA ClosingAgrees ==
  ASSUME NEW l \in Service, NEW c \in Context, NEW told, Agree(l, c, told), c.conn # "none"
  PROVE  /\ Observed(l, ChildIs("closing")) \in Service
         /\ Agree(Observed(l, ChildIs("closing")), c, told)
<1> DEFINE m == [Recorded(l) EXCEPT !.child = "closing"]
<1>1. m \in Service /\ m.child = "closing" /\ m.status = l.status /\ m.turnStatus = l.turnStatus
      /\ m.turn = l.turn /\ m.thread = l.thread /\ m.session = l.session
      /\ m.approval.status = l.approval.status /\ m.approval.id = l.approval.id
      /\ m.approval.safe = l.approval.safe
  BY DEF Service, Recorded, Approval
<1> HIDE DEF m
<1>2. Agree(m, c, told)
  BY <1>1 DEF Agree, Knows
<1> QED BY <1>1, <1>2, HearsClosing DEF m

\* The protocol has failed: what was not known to be over is not known any more.
LEMMA HearsFailure ==
  ASSUME NEW l \in Service
  PROVE  Observed(l, Plain("protocol-failure")) =
           IF l.status \in Terminal THEN l ELSE ProtocolFailed(l)
  BY DEF Observed, Ignores, Plain, Progress

LEMMA HearsUnconfirmed ==
  ASSUME NEW l \in Service
  PROVE  Observed(l, Plain("stop-unconfirmed")) =
           IF l.status \in Terminal THEN l ELSE StopUnconfirmed(l)
  BY DEF Observed, Ignores, Plain, Progress

\* What these two leave.
LEMMA UnknownFields ==
  ASSUME NEW l \in Service, NEW m, m \in {ProtocolFailed(l), StopUnconfirmed(l)}
  PROVE  /\ m \in Service /\ m.status = "unknown"
         /\ m.turnStatus = IF l.turnStatus \in Outcome THEN l.turnStatus ELSE "unknown"
         /\ m.turn = l.turn /\ m.thread = l.thread /\ m.session = l.session
         /\ m.approval.status = l.approval.status /\ m.approval.id = l.approval.id
         /\ m.approval.safe = l.approval.safe
         /\ m.child = "closed" <=> l.child = "closed"
<1>1. Recorded(l) \in Service /\ TurnUnknown(l) \in {"unknown"} \cup Outcome
  BY StatusKinds DEF TurnUnknown, Service
<1>2. /\ Recorded(l).approval.status = l.approval.status
      /\ Recorded(l).approval.id = l.approval.id
      /\ Recorded(l).approval.safe = l.approval.safe /\ Recorded(l).session = l.session
      /\ Recorded(l).turn = l.turn /\ Recorded(l).thread = l.thread
      /\ Recorded(l).child = l.child
  BY DEF Service, Recorded, Approval
<1> DEFINE u == StopUnconfirmed(l)
           r == Recorded(l)
<1>3. u = [r EXCEPT !.status = "unknown", !.turnStatus = TurnUnknown(l)]
  BY DEF StopUnconfirmed
<1>0. r \in Service
  BY <1>1
<1> DEFINE t == TurnUnknown(l)
           v == [r EXCEPT !.status = "unknown"]
<1>a. t \in {"unknown"} \cup Outcome
  BY <1>1
<1>b. u = [v EXCEPT !.turnStatus = t]
  BY <1>3
<1> HIDE DEF r, t, u
<1>c. /\ v \in Service /\ v.status = "unknown" /\ v.turn = r.turn /\ v.thread = r.thread
      /\ v.session = r.session /\ v.approval = r.approval /\ v.child = r.child
  BY <1>0 DEF Service, Status
<1> HIDE DEF v
<1>4. /\ u \in Service /\ u.status = "unknown" /\ u.turnStatus = t
      /\ u.turn = r.turn /\ u.thread = r.thread /\ u.session = r.session
      /\ u.approval = r.approval /\ u.child = r.child
  BY <1>a, <1>b, <1>c DEF Service
<1>5. ProtocolFailed(l) = [u EXCEPT !.child = IF l.child = "closed" THEN "closed" ELSE "unknown"]
  BY DEF ProtocolFailed, u
<1>6. CASE m = u
  BY <1>2, <1>4, <1>6 DEF TurnUnknown, r, t
<1>7. CASE m = ProtocolFailed(l)
  <2>1. /\ m \in Service /\ m.status = u.status /\ m.turnStatus = u.turnStatus
        /\ m.turn = u.turn /\ m.thread = u.thread /\ m.session = u.session
        /\ m.approval = u.approval /\ m.child = IF l.child = "closed" THEN "closed" ELSE "unknown"
    BY <1>4, <1>5, <1>7 DEF Service
  <2> QED BY <2>1, <1>2, <1>4 DEF TurnUnknown, r, t
<1> QED BY <1>6, <1>7 DEF u

\* The service may be told that a protocol failed, or a stop is not confirmed,
\* of a session that cannot spawn any more.
LEMMA UnknownAgrees ==
  ASSUME NEW l \in Service, NEW c \in Context, NEW told, Agree(l, c, told),
         c.run \in Early => c.stopped \/ (c.run \in RpcStage /\ c.reply = "error"),
         NEW type \in {"protocol-failure", "stop-unconfirmed"}
  PROVE  /\ Observed(l, Plain(type)) \in Service
         /\ Observed(l, Plain(type)).session = l.session
         /\ Observed(l, Plain(type)).child = "closed" <=> l.child = "closed"
         /\ Agree(Observed(l, Plain(type)), c, told)
<1> DEFINE m == Observed(l, Plain(type))
<1>1. m = l \/ (l.status \notin Terminal /\ m \in {ProtocolFailed(l), StopUnconfirmed(l)})
  BY HearsFailure, HearsUnconfirmed
<1> HIDE DEF m
<1>2. CASE m = l
  BY <1>2 DEF m
<1>3. CASE l.status \notin Terminal /\ m \in {ProtocolFailed(l), StopUnconfirmed(l)}
  <2>1. Agree(m, c, told)
    BY <1>3, UnknownFields, StatusKinds DEF Agree, Knows
  <2> QED BY <1>3, <2>1, UnknownFields DEF m
<1> QED BY <1>1, <1>2, <1>3

\* A failure stops the session, and the turn it had is not said to go on.
LEMMA FailureAgrees ==
  ASSUME NEW l \in Service, NEW c \in Context, NEW told, Agree(l, c, told), ~c.fatal
  PROVE  /\ Observed(l, Plain("protocol-failure")) \in Service
         /\ Observed(l, Plain("protocol-failure")).session = l.session
         /\ Agree(Observed(l, Plain("protocol-failure")),
                  [c EXCEPT !.fatal = TRUE, !.stopped = TRUE], told)
<1> DEFINE m == Observed(l, Plain("protocol-failure"))
           d == [c EXCEPT !.fatal = TRUE, !.stopped = TRUE]
<1>1. m = IF l.status \in Terminal THEN l ELSE ProtocolFailed(l)
  BY HearsFailure
<1>2. /\ d.stopped = TRUE /\ d.fatal = TRUE
      /\ d.completed = c.completed /\ d.turn = c.turn /\ d.attempted = c.attempted
      /\ d.started = c.started /\ d.blocked = c.blocked /\ d.conn = c.conn /\ d.run = c.run
      /\ d.asked = c.asked /\ d.pending = c.pending /\ d.safe = c.safe
  BY DEF Context
<1> HIDE DEF m, d
<1>3. CASE l.status \in Terminal
  <2>1. m = l
    BY <1>1, <1>3
  <2>2. Agree(m, d, told)
    BY <2>1, <1>2, <1>3, StatusKinds DEF Agree, Knows, Reported
  <2> QED BY <2>1, <2>2 DEF m, d
<1>4. CASE l.status \notin Terminal
  <2>1. m = ProtocolFailed(l)
    BY <1>1, <1>4
  <2>2. Agree(m, d, told)
    BY <2>1, <1>2, <1>4, UnknownFields, StatusKinds DEF Agree, Knows
  <2> QED BY <2>1, <2>2, UnknownFields DEF m, d
<1> QED BY <1>3, <1>4

\* The state of the child is not known, after a failure that stopped nothing.
LEMMA ChildUnknownAgrees ==
  ASSUME NEW l \in Service, NEW c \in Context, NEW told, Agree(l, c, told),
         c.run \notin Early, ~c.blocked \/ l.child # "closed",
         c.completed => c.fatal /\ ~c.stopped
  PROVE  /\ Observed(l, ChildIs("unknown")) \in Service
         /\ Observed(l, ChildIs("unknown")).session = l.session
         /\ Agree(Observed(l, ChildIs("unknown")), c, told)
<1> DEFINE r == [Recorded(l) EXCEPT !.child = "unknown"]
           t == TurnUnknown(l)
           m == [r EXCEPT !.status = "unknown", !.turnStatus = t]
<1>1. Observed(l, ChildIs("unknown")) = m
  BY DEF Observed, Ignores, ChildIs, ChildStatusApplied, Progress
<1>2. /\ r \in Service /\ r.child = "unknown" /\ r.turn = l.turn /\ r.thread = l.thread
      /\ r.session = l.session /\ r.approval.status = l.approval.status
      /\ r.approval.id = l.approval.id /\ r.approval.safe = l.approval.safe
  BY DEF Service, Recorded, Approval
<1>3. t \in {"unknown"} \cup Outcome
      /\ t = IF l.turnStatus \in Outcome THEN l.turnStatus ELSE "unknown"
  BY DEF TurnUnknown
<1> HIDE DEF r, t
<1>4. /\ m \in Service /\ m.status = "unknown" /\ m.turnStatus = t
      /\ m.child = "unknown" /\ m.turn = l.turn /\ m.thread = l.thread
      /\ m.session = l.session /\ m.approval = r.approval
  <2> DEFINE v == [r EXCEPT !.status = "unknown"]
  <2>1. v \in Service /\ v.status = "unknown" /\ v.child = "unknown" /\ v.turn = l.turn
        /\ v.thread = l.thread /\ v.session = l.session /\ v.approval = r.approval
    BY <1>2 DEF Service, Status
  <2>2. m = [v EXCEPT !.turnStatus = t]
    OBVIOUS
  <2> HIDE DEF v, m
  <2> QED BY <1>3, <2>1, <2>2 DEF Service
<1> HIDE DEF m
<1>5. Agree(m, c, told)
  BY <1>2, <1>3, <1>4, StatusKinds DEF Agree, Knows
<1> QED BY <1>1, <1>4, <1>5

\* The end of the child is observed, of a session whose request was settled.
LEMMA ChildClosedAgrees ==
  ASSUME NEW l \in Service, NEW c \in Context, NEW told, Agree(l, c, told),
         NEW expected \in BOOLEAN,
         ~expected => c.stopped \/ c.run \notin Early \/ (c.run \in RpcStage /\ c.reply = "error"),
         ~c.blocked
  PROVE  /\ Observed(l, ChildClosed(expected)) \in Service
         /\ Observed(l, ChildClosed(expected)).session = l.session
         /\ Observed(l, ChildClosed(expected)).child = "closed"
         /\ Agree(Observed(l, ChildClosed(expected)), c, told)
<1> DEFINE r == [Recorded(l) EXCEPT !.child = "closed"]
           m == Observed(l, ChildClosed(expected))
<1>1. m = CASE ~expected /\ l.turnStatus \notin Outcome ->
                 [r EXCEPT !.status = "unknown", !.turnStatus = "unknown"]
            [] /\ expected \/ l.turnStatus \in Outcome
               /\ l.status = "stopping" /\ l.turnStatus = "not-started" ->
                 [r EXCEPT !.status = "stopped"]
            [] OTHER -> r
  BY DEF Observed, Ignores, ChildClosed, ChildStatusApplied, Progress
<1>2. /\ r \in Service /\ r.child = "closed" /\ r.turn = l.turn /\ r.thread = l.thread
      /\ r.session = l.session /\ r.approval.status = l.approval.status
      /\ r.approval.id = l.approval.id
      /\ r.approval.safe = l.approval.safe /\ r.status = l.status /\ r.turnStatus = l.turnStatus
  BY DEF Service, Recorded, Approval
<1> HIDE DEF r, m
<1>3. /\ m \in Service /\ m.child = "closed" /\ m.turn = l.turn /\ m.thread = l.thread
      /\ m.session = l.session /\ m.approval = r.approval
      /\ \/ /\ ~expected /\ l.turnStatus \notin Outcome
            /\ m.status = "unknown" /\ m.turnStatus = "unknown"
         \/ /\ l.status = "stopping" /\ l.turnStatus = "not-started"
            /\ m.status = "stopped" /\ m.turnStatus = "not-started"
         \/ m.status = l.status /\ m.turnStatus = l.turnStatus
  BY ZenonT(60), <1>1, <1>2 DEF Service, Status, Terminal
<1>4. Agree(m, c, told)
  <2>1. CASE ~expected /\ l.turnStatus \notin Outcome
             /\ m.status = "unknown" /\ m.turnStatus = "unknown"
    BY <1>2, <1>3, <2>1, StatusKinds DEF Agree, Knows
  <2>2. CASE l.status = "stopping" /\ l.turnStatus = "not-started"
             /\ m.status = "stopped" /\ m.turnStatus = "not-started"
    BY <1>2, <1>3, <2>2, StatusKinds DEF Agree, Knows
  <2>3. CASE m.status = l.status /\ m.turnStatus = l.turnStatus
    BY <1>2, <1>3, <2>3, StatusKinds DEF Agree, Knows
  <2> QED BY <1>3, <2>1, <2>2, <2>3
<1> QED BY <1>3, <1>4 DEF m

\* A session that asked for no turn is over.
LEMMA StoppedAgrees ==
  ASSUME NEW l \in Service, NEW s, NEW c \in Context, NEW told, Agree(l, c, told), Fits(s, c),
         ~c.attempted, c.stopped, ~c.blocked
  PROVE  /\ Observed(l, Plain("startup-stopped")) \in Service
         /\ Observed(l, Plain("startup-stopped")).session = l.session
         /\ Agree(Observed(l, Plain("startup-stopped")), c, told)
<1> DEFINE m == Observed(l, Plain("startup-stopped"))
<1>1. m = IF l.status \in Terminal THEN l ELSE StartupStopped(l)
  BY DEF Observed, Ignores, Plain, Progress
<1>2. c.turn = NoTurn /\ ~c.completed /\ l.turn = NoTurn /\ l.approval.status # "pending"
  BY DEF Fits, Agree, Knows
<1>3. ASSUME NEW n, n = StartupStopped(l)
      PROVE  /\ n \in Service /\ n.status = "stopped" /\ n.child = "closed"
             /\ n.turnStatus = "not-started" /\ n.turn = l.turn /\ n.thread = l.thread
             /\ n.session = l.session /\ n.approval.status = l.approval.status
  BY <1>3 DEF StartupStopped, Recorded, Service, Approval, Status, Terminal
<1> HIDE DEF m
<1>4. CASE m = StartupStopped(l)
  <2>1. Agree(m, c, told)
    BY <1>2, <1>3, <1>4, StatusKinds DEF Agree, Knows
  <2> QED BY <1>3, <1>4, <2>1 DEF m
<1>5. CASE m = l
  BY <1>5 DEF m
<1> QED BY <1>1, <1>4, <1>5

\* Only the log has grown, or the state of a child that has not closed.
LEMMA SameAgrees ==
  ASSUME NEW l \in Service, NEW c \in Context, NEW told, Agree(l, c, told),
         NEW m \in Service, m.status = l.status, m.turnStatus = l.turnStatus, m.turn = l.turn,
         l.thread => m.thread, m.approval.status = l.approval.status,
         m.approval.id = l.approval.id, m.approval.safe = l.approval.safe,
         m.child = l.child \/ (m.child # "closed" /\ c.conn # "none")
  PROVE  Agree(m, c, told)
  BY DEF Agree, Knows

LEMMA HearsPlain ==
  ASSUME NEW l \in Service
  PROVE  /\ Observed(l, ChildIs("running")) = [Recorded(l) EXCEPT !.child = "running"]
         /\ Observed(l, Plain("thread-started")) =
              IF l.status \in Terminal \cup {"stopping"} THEN l
              ELSE [Recorded(l) EXCEPT !.thread = TRUE]
         /\ Observed(l, Plain("unsupported-request")) \in {l, Recorded(l)}
         /\ \A t : Observed(l, ItemSeen(t)) \in {l, Recorded(l)}
         /\ \A t : Observed(l, CommandCompleted(t)) =
              IF l.status \in Terminal \cup {"stopping"} \/ ~Matches(l, t) THEN l
              ELSE [Recorded(l) EXCEPT !.status = "running"]
<1>1. Observed(l, ChildIs("running")) = [Recorded(l) EXCEPT !.child = "running"]
  BY DEF Observed, Ignores, ChildIs, ChildStatusApplied, Progress
<1>2. Observed(l, Plain("thread-started")) =
        IF l.status \in Terminal \cup {"stopping"} THEN l ELSE [Recorded(l) EXCEPT !.thread = TRUE]
  BY DEF Observed, Ignores, Plain, Progress
<1>3. Observed(l, Plain("unsupported-request")) \in {l, Recorded(l)}
  BY DEF Observed, Ignores, Plain, Progress
<1>4. ASSUME NEW t PROVE Observed(l, ItemSeen(t)) \in {l, Recorded(l)}
  BY DEF Observed, Ignores, ItemSeen, Progress
<1>5. ASSUME NEW t
      PROVE  Observed(l, CommandCompleted(t)) =
               IF l.status \in Terminal \cup {"stopping"} \/ ~Matches(l, t) THEN l
               ELSE [Recorded(l) EXCEPT !.status = "running"]
  BY DEF Observed, Ignores, CommandCompleted, Progress
<1> QED BY <1>1, <1>2, <1>3, <1>4, <1>5

LEMMA RecordedAgrees ==
  ASSUME NEW l \in Service, NEW c \in Context, NEW told, Agree(l, c, told)
  PROVE  /\ Recorded(l) \in Service /\ Recorded(l).session = l.session
         /\ Recorded(l).status = l.status
         /\ Agree(Recorded(l), c, told)
<1>1. /\ Recorded(l) \in Service /\ Recorded(l).status = l.status
      /\ Recorded(l).turnStatus = l.turnStatus /\ Recorded(l).turn = l.turn
      /\ Recorded(l).thread = l.thread /\ Recorded(l).child = l.child
      /\ Recorded(l).approval.status = l.approval.status
      /\ Recorded(l).approval.id = l.approval.id
      /\ Recorded(l).approval.safe = l.approval.safe /\ Recorded(l).session = l.session
  BY DEF Recorded, Service, Approval
<1> QED BY <1>1, SameAgrees

LEMMA RunningAgrees ==
  ASSUME NEW l \in Service, NEW c \in Context, NEW told, Agree(l, c, told), c.conn # "none"
  PROVE  /\ Observed(l, ChildIs("running")) \in Service
         /\ Observed(l, ChildIs("running")).session = l.session
         /\ Agree(Observed(l, ChildIs("running")), c, told)
<1> DEFINE m == [Recorded(l) EXCEPT !.child = "running"]
<1>1. /\ m \in Service /\ m.child = "running" /\ m.status = l.status
      /\ m.turnStatus = l.turnStatus /\ m.turn = l.turn /\ m.thread = l.thread
      /\ m.approval.status = l.approval.status /\ m.approval.id = l.approval.id
      /\ m.approval.safe = l.approval.safe
      /\ m.session = l.session
  BY DEF Recorded, Service, Approval
<1> HIDE DEF m
<1>2. Agree(m, c, told)
  BY <1>1, SameAgrees
<1> QED BY <1>1, <1>2, HearsPlain DEF m

\* Progress that changes the status at most to "running", of a turn that was
\* asked for.
LEMMA ProgressAgrees ==
  ASSUME NEW l \in Service, NEW c \in Context, NEW told, Agree(l, c, told), NEW t,
         c.run \notin Early, c.attempted,
         NEW o \in {ItemSeen(t), CommandCompleted(t)}
  PROVE  /\ Observed(l, o) \in Service /\ Observed(l, o).session = l.session
         /\ Agree(Observed(l, o), c, told)
<1> DEFINE n == [Recorded(l) EXCEPT !.status = "running"]
<1>1. \/ Observed(l, o) \in {l, Recorded(l)}
      \/ Observed(l, o) = n /\ l.status \notin Terminal
  BY HearsPlain
<1>2. /\ n \in Service /\ n.status = "running" /\ n.turnStatus = l.turnStatus
      /\ n.turn = l.turn /\ n.thread = l.thread /\ n.child = l.child
      /\ n.approval.status = l.approval.status /\ n.approval.id = l.approval.id
      /\ n.approval.safe = l.approval.safe
      /\ n.session = l.session
  BY DEF Recorded, Service, Approval, Status
<1> HIDE DEF n
<1>3. l.status \notin Terminal => Agree(n, c, told)
  BY <1>2, StatusKinds DEF Agree, Knows
<1> QED BY <1>1, <1>2, <1>3, RecordedAgrees

\* The thread has started, and a turn is asked for unless the session was
\* stopped.
LEMMA ThreadAgrees ==
  ASSUME NEW l \in Service, NEW s, NEW c \in Context, NEW told, Agree(l, c, told), Fits(s, c),
         c.run = "thread", c.reply = "ok"
  PROVE  LET m == Observed(l, Plain("thread-started"))
         IN /\ m \in Service /\ m.session = l.session
            /\ Agree(m, c, told)
            /\ ~c.stopped => Agree(m, [c EXCEPT !.run = "turn", !.reply = "waiting",
                                                !.attempted = TRUE], told)
<1> DEFINE n == [Recorded(l) EXCEPT !.thread = TRUE]
           m == Observed(l, Plain("thread-started"))
           d == [c EXCEPT !.run = "turn", !.reply = "waiting", !.attempted = TRUE]
<1>1. m = IF l.status \in Terminal \cup {"stopping"} THEN l ELSE n
  BY HearsPlain
<1>2. /\ n \in Service /\ n.status = l.status /\ n.turnStatus = l.turnStatus
      /\ n.turn = l.turn /\ n.thread = TRUE /\ n.child = l.child
      /\ n.approval.status = l.approval.status /\ n.approval.id = l.approval.id
      /\ n.approval.safe = l.approval.safe
      /\ n.session = l.session
  BY DEF Recorded, Service, Approval
<1> HIDE DEF n, m
<1>3. m \in Service /\ m.session = l.session /\ Agree(m, c, told)
  BY <1>1, <1>2, SameAgrees
<1>4. ASSUME ~c.stopped PROVE Agree(m, d, told)
  <2>1. l.status = "starting"
    BY <1>4 DEF Agree, Knows, Early
  <2>2. m = n
    BY <1>1, <2>1 DEF Terminal
  <2>3. ~c.attempted /\ ~c.started /\ ~c.completed
    BY DEF Fits, Early
  <2>4. /\ d.run = "turn" /\ d.stopped = c.stopped /\ d.started = c.started
        /\ d.completed = c.completed /\ d.turn = c.turn /\ d.pending = c.pending /\ d.safe = c.safe
        /\ d.blocked = c.blocked /\ d.conn = c.conn
    BY DEF Context
  <2> HIDE DEF d
  <2>5. m.status = "starting" /\ l.turnStatus \notin Outcome
    BY <1>2, <2>1, <2>2, <2>3 DEF Agree, Knows
  <2> QED BY <1>2, <1>3, <1>4, <2>1, <2>2, <2>3, <2>4, <2>5, StatusKinds DEF Agree, Knows, Early
<1> QED BY <1>3, <1>4 DEF m

\* A session with a turn that has not ended is not over.
LEMMA RunningNotOver ==
  ASSUME NEW l \in Service, NEW c \in Context, NEW told, Agree(l, c, told),
         c.attempted, ~c.completed
  PROVE  l.status \notin Terminal
<1>1. l.turnStatus \notin Outcome
  BY DEF Agree, Knows
<1>2. l.status # "stopped"
  BY DEF Agree
<1>3. ~(l.status \in {"finished", "failed", "interrupted"})
  <2>1. l.turnStatus \in Outcome \cup {"not-started", "inProgress", "unknown"}
    BY DEF Service
  <2> QED BY <1>1, <2>1 DEF Agree, Reported, Outcome
<1> QED BY <1>2, <1>3 DEF Terminal

\* A turn has started.
LEMMA TurnStartedAgrees ==
  ASSUME NEW l \in Service, NEW s, NEW c \in Context, NEW told, Agree(l, c, told), Fits(s, c),
         NEW t \in Turns, c.attempted, ~c.stopped, ~c.completed, c.turn \in {NoTurn, t}
  PROVE  LET m == Observed(l, TurnStarted(t))
         IN /\ m \in Service /\ m.session = l.session
            /\ Agree(m, [c EXCEPT !.turn = t, !.started = TRUE], told)
<1> DEFINE n == [Recorded(l) EXCEPT !.turn = t, !.turnStatus = "inProgress", !.status = "running"]
           m == Observed(l, TurnStarted(t))
           d == [c EXCEPT !.turn = t, !.started = TRUE]
<1>1. l.status \notin Terminal \cup {"stopping"} /\ l.thread /\ l.turn \in {NoTurn, t}
  <2>1. l.status \notin Terminal
    BY RunningNotOver
  <2>2. l.status # "stopping" /\ l.turn \in {NoTurn, t}
    BY DEF Agree, Knows
  <2>3. l.thread
    BY DEF Agree, Knows
  <2> QED BY <2>1, <2>2, <2>3
<1>2. m = n
  BY <1>1 DEF Observed, Ignores, TurnStarted, Progress, Matches
<1>3. /\ n \in Service /\ n.status = "running" /\ n.turnStatus = "inProgress"
      /\ n.turn = t /\ n.thread = l.thread /\ n.child = l.child
      /\ n.approval.status = l.approval.status /\ n.approval.id = l.approval.id
      /\ n.approval.safe = l.approval.safe
      /\ n.session = l.session
  BY DEF Recorded, Service, Approval, Status
<1>4. /\ d.turn = t /\ d.started = TRUE /\ d.run = c.run /\ d.stopped = c.stopped
      /\ d.completed = c.completed /\ d.pending = c.pending /\ d.safe = c.safe
      /\ d.attempted = c.attempted
      /\ d.blocked = c.blocked /\ d.conn = c.conn
  BY DEF Context
<1>5. t # NoTurn /\ c.run \notin Early /\ ~c.blocked
  BY BoundsAssumption DEF Fits
<1> HIDE DEF n, m, d
<1>6. Agree(n, d, told)
  BY <1>1, <1>3, <1>4, <1>5, StatusKinds DEF Agree, Knows
<1> QED BY <1>2, <1>3, <1>6 DEF m, d

\* A turn has ended, as the child says.
LEMMA TurnCompletedAgrees ==
  ASSUME NEW l \in Service, NEW s, NEW c \in Context, NEW told, Agree(l, c, told), Fits(s, c),
         NEW t \in Turns, NEW outcome \in Outcome, outcome \in told,
         c.attempted, ~c.completed, c.turn \in {NoTurn, t}, c.pending = 0, c.conn # "none"
  PROVE  LET m == Observed(l, TurnCompleted(t, outcome))
         IN /\ m \in Service /\ m.session = l.session
            /\ Agree(m, [c EXCEPT !.completed = TRUE, !.ended = TRUE], told)
<1> DEFINE n == [Recorded(l) EXCEPT !.turnStatus = outcome, !.status = Reported(outcome)]
           m == Observed(l, TurnCompleted(t, outcome))
           d == [c EXCEPT !.completed = TRUE, !.ended = TRUE]
<1>1. l.status \notin Terminal /\ l.thread /\ l.turn \in {NoTurn, t}
      /\ l.approval.status # "pending"
  <2>1. l.status \notin Terminal
    BY RunningNotOver
  <2>2. l.turn \in {NoTurn, t} /\ l.approval.status # "pending"
    BY DEF Agree, Knows
  <2>3. l.thread
    BY DEF Agree, Knows
  <2> QED BY <2>1, <2>2, <2>3
<1>2. m = n
  BY <1>1 DEF Observed, Ignores, TurnCompleted, Progress, Matches
<1>3. Reported(outcome) \in {"finished", "failed", "interrupted"}
  BY DEF Reported, Outcome
<1>4. /\ n \in Service /\ n.status = Reported(outcome) /\ n.turnStatus = outcome
      /\ n.turn = l.turn /\ n.thread = l.thread /\ n.child = l.child
      /\ n.approval.status = l.approval.status /\ n.session = l.session
  BY <1>3 DEF Recorded, Service, Approval, Status, Terminal
<1>5. /\ d.completed = TRUE /\ d.turn = c.turn /\ d.started = c.started /\ d.run = c.run
      /\ d.stopped = c.stopped /\ d.attempted = c.attempted
      /\ d.blocked = c.blocked /\ d.conn = c.conn
  BY DEF Context
<1>6. c.run \notin Early /\ ~c.blocked
  BY DEF Fits
<1> HIDE DEF n, m, d
<1>7. Agree(n, d, told)
  BY <1>1, <1>3, <1>4, <1>5, <1>6, StatusKinds DEF Agree, Knows
<1> QED BY <1>2, <1>4, <1>7 DEF m, d

\* The pending request is revoked, or answered by a cancellation: the service
\* does not wait for it any longer.
LEMMA SettledAgrees ==
  ASSUME NEW l \in Service, NEW s, NEW c \in Context, NEW told, Agree(l, c, told), Fits(s, c),
         c.pending # 0,
         NEW o \in {Revoked(c.pending), ResponseSent(c.pending, "cancel")}
  PROVE  /\ Observed(l, o) \in Service /\ Observed(l, o).session = l.session
         /\ Observed(l, o).approval.status # "pending"
         /\ Agree(Observed(l, o), [c EXCEPT !.pending = 0, !.safe = FALSE], told)
<1> DEFINE m == Observed(l, o)
           r == c.pending
           d == [c EXCEPT !.pending = 0, !.safe = FALSE]
           a == [l.approval EXCEPT !.fresh = FALSE, !.status = "cancelled", !.safe = FALSE]
<1>1. ~c.completed /\ c.attempted /\ c.run \notin Early /\ ~c.blocked
  BY DEF Fits
<1>2. /\ d.completed = c.completed /\ d.turn = c.turn /\ d.started = c.started
      /\ d.run = c.run /\ d.reply = c.reply /\ d.stopped = c.stopped
      /\ d.attempted = c.attempted /\ d.blocked = c.blocked /\ d.conn = c.conn
  BY DEF Context
<1>3. a \in Approval /\ a.status = "cancelled"
  BY DEF Service, Approval
<1>4. CASE l.approval.status # "pending"
  <2>1. m = l
    BY <1>4 DEF Observed, Ignores, Revoked, ResponseSent, Progress
  <2> HIDE DEF d, m
  <2>2. Agree(l, d, told)
    BY <1>1, <1>2, <1>4 DEF Agree, Knows
  <2> QED BY <1>4, <2>1, <2>2 DEF d, m
<1>5. CASE l.approval.status = "pending"
  <2>1. l.approval.id = r /\ l.status \notin Terminal
    BY <1>5 DEF Agree, Knows
  <2>2. \/ m = RevocationApplied(l)
        \/ m = ResponseApplied(l, ResponseSent(r, "cancel"))
    <3>1. CASE o = Revoked(r)
      BY <1>5, <2>1, <3>1 DEF Observed, Ignores, Revoked, Progress
    <3>2. CASE o = ResponseSent(r, "cancel")
      <4> DEFINE q == ResponseSent(r, "cancel")
      <4>1. q.type = "approval-response-sent" /\ q.id = r
        BY DEF ResponseSent
      <4> HIDE DEF q
      <4>2. Observed(l, q) = ResponseApplied(l, q)
        BY <1>5, <2>1, <4>1 DEF Observed, Ignores, Progress
      <4> QED BY <3>2, <4>2 DEF q
    <3> QED BY <3>1, <3>2
  <2> HIDE DEF r, m
  <2>3. \E st \in {"stopping", "running", l.status} :
          /\ st = "stopping" => l.status = "stopping"
          /\ st # "awaiting-human"
          /\ m = [l EXCEPT !.approval = a, !.status = st]
    <3>1. CASE m = RevocationApplied(l)
      BY <3>1 DEF RevocationApplied, Recorded, Service, Approval
    <3>2. CASE m = ResponseApplied(l, ResponseSent(r, "cancel"))
      BY <3>2 DEF ResponseApplied, ResponseSent, Recorded, Service, Approval
    <3> QED BY <2>2, <3>1, <3>2
  <2> HIDE DEF a, d
  <2>4. PICK st \in {"stopping", "running", l.status} :
          /\ st = "stopping" => l.status = "stopping"
          /\ st # "awaiting-human"
          /\ m = [l EXCEPT !.approval = a, !.status = st]
    BY <2>3
  <2>5. /\ m \in Service /\ m.status = st /\ m.turnStatus = l.turnStatus /\ m.turn = l.turn
        /\ m.thread = l.thread /\ m.child = l.child /\ m.session = l.session
        /\ m.approval.status = "cancelled"
    BY <1>3, <2>4 DEF Service, Status
  <2>6. st \notin Terminal
    BY <2>1, <2>4 DEF Terminal
  <2>7. Agree(m, d, told)
    BY <1>1, <1>2, <2>1, <2>4, <2>5, <2>6, StatusKinds DEF Agree, Knows
  <2> QED BY <2>5, <2>7 DEF m, d
<1> QED BY <1>4, <1>5

-----------------------------------------------------------------------------
(* What a step of one session leaves behind *)

\* Session s is left with context c, the service with l, the answers with a.
Left(s, c, l, a) == [lab |-> l, ctx |-> [ctx EXCEPT ![s] = c], answered |-> a]

Heard(l, s, o) == IF l.session = s THEN Observed(l, o) ELSE l

Cancelled(c) == IF c.pending = 0 THEN c ELSE [c EXCEPT !.pending = 0, !.safe = FALSE]

Closing(c) ==
  IF c.close \in {"wait", "true"} THEN c
  ELSE [c EXCEPT !.close = IF c.conn = "none" THEN "true" ELSE "wait", !.expectedClose = TRUE]

\* What cancelPendingApprovals tells the service, and what it has answered.
Told(l, s, c, sent) ==
  IF c.pending = 0 THEN l
  ELSE Heard(l, s, IF sent THEN ResponseSent(c.pending, "cancel") ELSE Revoked(c.pending))

Counted(a, c, sent) ==
  IF c.pending # 0 /\ sent THEN [a EXCEPT ![c.pending] = @ + 1] ELSE a

Failing(c) == [c EXCEPT !.fatal = TRUE, !.stopped = TRUE]

Rejecting(c) ==
  [c EXCEPT !.reply = IF @ = "waiting" THEN "error" ELSE @,
            !.stops = IF "interrupt" \in @ THEN (@ \ {"interrupt"}) \cup {"refused"} ELSE @]

Completing(c) == [c EXCEPT !.completed = TRUE, !.ended = TRUE]

Starting(c, t) == [c EXCEPT !.turn = t, !.started = TRUE]

Unblocked(c) == [c EXCEPT !.blocked = FALSE]

Going(c, stage) == [c EXCEPT !.run = stage, !.reply = "waiting"]

\* What is left fits in itself, with the children A that are then alive, and with
\* the service if the session is current.
Fine(s, c, l, a, A, told) ==
  /\ c \in Context /\ l \in Service /\ a \in [Request -> Nat]
  /\ A \subseteq Session \X {"discovery", "main"}
  /\ Fits(s, c) /\ c.run # "none" /\ (s < current => c.close # "null")
  /\ \A k : <<s, k>> \in A => c.conn = k /\ c.close # "true"
  /\ s = current /\ c.conn # "none" => <<s, c.conn>> \in A
  /\ c.run \in RpcStage /\ c.reply = "ok" => <<s, c.conn>> \in A
  /\ c.blocked => ctx[s].blocked
  /\ s = current /\ ~c.blocked => \A child \in A : child[1] = s
  /\ ctx[s].completed => c.completed
  /\ IF s = current THEN l.session = s /\ Agree(l, c, told) ELSE l = lab

\* Its request is as it was, or has been settled.
Settles(s, c, a) ==
  \/ c.pending = ctx[s].pending /\ a = answered
  \/ /\ c.pending = 0
     /\ \/ a = answered
        \/ ctx[s].pending # 0 /\ a = [answered EXCEPT ![ctx[s].pending] = @ + 1]

Good(s, c, l, a, A, told) == Fine(s, c, l, a, A, told) /\ Settles(s, c, a)

Inv == TypeOK /\ OutcomeReported /\ StoppedMeansNoTurn /\ PendingIsHeld /\ AnsweredOnce /\ InStep

\* What has ended stays so.
CompletedStay == \A t \in Session : ctx[t].completed => ctx'[t].completed

LEMMA Types ==
  ASSUME Inv
  PROVE  /\ lab \in Service /\ current \in 0 .. MaxSessions /\ ctx \in [Session -> Context]
         /\ requested \in 0 .. MaxRequests /\ answered \in [Request -> Nat]
         /\ said \in [Session -> SUBSET Outcome] /\ lab.session = current
         /\ MaxSessions \in Nat /\ MaxRequests \in Nat
         /\ \A s \in Session : s \in Nat /\ s > 0
  BY BoundsAssumption DEF Inv, TypeOK, InStep, Session

\* Every session that has begun fits as it stands.
LEMMA StandsGood ==
  ASSUME Inv, NEW s \in Session, s <= current, NEW told, said[s] \subseteq told
  PROVE  /\ Now = Left(s, ctx[s], lab, answered)
         /\ Good(s, ctx[s], lab, answered, alive, told)
<1>0. Now = Left(s, ctx[s], lab, answered)
  BY Types DEF Now, Left
<1>1. /\ Fits(s, ctx[s]) /\ ctx[s].run # "none" /\ (s < current => ctx[s].close # "null")
  BY DEF Inv, InStep
<1>2. /\ \A k : <<s, k>> \in alive => ctx[s].conn = k /\ ctx[s].close # "true"
      /\ s = current /\ ctx[s].conn # "none" => <<s, ctx[s].conn>> \in alive
      /\ ctx[s].run \in RpcStage /\ ctx[s].reply = "ok" => <<s, ctx[s].conn>> \in alive
  BY Types DEF Inv, InStep, ChildrenAreHeld, Conn
<1>3. s = current /\ ~ctx[s].blocked => \A child \in alive : child[1] = s
  <2> SUFFICES ASSUME s = current, ~ctx[s].blocked, NEW child \in alive PROVE child[1] = s
    OBVIOUS
  <2>1. child[1] \in Session /\ child[1] <= current /\ ~(child[1] < current)
    BY Types DEF Inv, InStep, ChildrenAreHeld, TypeOK
  <2> QED BY <2>1, Types
<1>4. s = current => lab.session = s /\ Agree(lab, ctx[s], told)
  <2> SUFFICES ASSUME s = current PROVE lab.session = s /\ Agree(lab, ctx[s], told)
    OBVIOUS
  <2>1. lab.session = s /\ current # 0 /\ Knows(lab, ctx[s])
    BY Types DEF Inv, InStep
  <2> QED BY <2>1 DEF Inv, OutcomeReported, StoppedMeansNoTurn, PendingIsHeld, Agree
<1>5. alive \subseteq Session \X {"discovery", "main"}
  BY DEF Inv, TypeOK
<1> QED BY <1>0, <1>1, <1>2, <1>3, <1>4, <1>5, Types DEF Good, Fine, Settles

\* A session does anything only when it has begun.
LEMMA Begun ==
  ASSUME Inv, NEW s \in Session, ~(s <= current)
  PROVE  /\ ctx[s].run = "none" /\ ctx[s].stops = {} /\ ctx[s].close = "null"
         /\ \A k : <<s, k>> \notin alive
<1>1. s > current
  BY Types
<1>2. ctx[s] = NewContext
  BY <1>1 DEF Inv, InStep
<1>3. \A k : <<s, k>> \notin alive
  BY <1>1, Types DEF Inv, InStep, ChildrenAreHeld
<1> QED BY <1>2, <1>3 DEF NewContext

\* The parts of the invariant, after a step.
LEMMA Together ==
  ASSUME TypeOK', current' # 0,
         \A t \in Session :
           /\ Fits(t, ctx'[t]) /\ (t > current' => ctx'[t] = NewContext)
           /\ (t <= current' => ctx'[t].run # "none") /\ (t < current' => ctx'[t].close # "null"),
         lab'.session = current', Agree(lab', ctx'[current'], said'[current']),
         ChildrenAreHeld', RequestsAreHeld', AnsweredOnce'
  PROVE  Inv'
<1>1. InStep'
  BY DEF InStep, Agree
<1>2. OutcomeReported' /\ StoppedMeansNoTurn' /\ PendingIsHeld'
  BY DEF OutcomeReported, StoppedMeansNoTurn, PendingIsHeld, Agree
<1> QED BY <1>1, <1>2 DEF Inv

\* A request that a step settles, or leaves.
LEMMA RequestsStay ==
  ASSUME Inv, NEW c, NEW a, NEW s \in Session, Settles(s, c, a),
         ctx' \in [Session -> Context], ctx'[s].pending = c.pending,
         \A t \in Session \ {s} : ctx'[t].pending \in {0, ctx[t].pending},
         answered' = a, requested' = requested
  PROVE  RequestsAreHeld' /\ AnsweredOnce'
<1> USE Types
<1> DEFINE q == ctx[s].pending
<1>1. /\ \A r \in Request : (r > requested => answered[r] = 0) /\ answered[r] <= 1
      /\ \A t \in Session : LET r == ctx[t].pending IN
           r # 0 => /\ r <= requested /\ answered[r] = 0
                    /\ \A u \in Session \ {t} : ctx[u].pending # r
  BY DEF Inv, InStep, RequestsAreHeld, AnsweredOnce
<1>2. \A t \in Session : ctx[t].pending \in 0 .. MaxRequests
  BY DEF Context
<1>3. CASE (c.pending = q \/ c.pending = 0) /\ a = answered
  <2>1. \A t \in Session : ctx'[t].pending \in {0, ctx[t].pending}
    BY <1>3
  <2> QED BY <1>1, <1>2, <1>3, <2>1 DEF RequestsAreHeld, AnsweredOnce
<1>4. CASE c.pending = 0 /\ q # 0 /\ a = [answered EXCEPT ![q] = @ + 1]
  <2>1. \A t \in Session : ctx'[t].pending \in {0, ctx[t].pending} /\ ctx'[t].pending # q
    <3>1. \A t \in Session \ {s} : ctx[t].pending # q
      BY <1>1, <1>4
    <3> QED BY <1>4, <3>1
  <2>2. q \in Request /\ q <= requested /\ answered[q] = 0
    BY <1>1, <1>2, <1>4 DEF Request
  <2>3. a[q] = 1 /\ \A r \in Request \ {q} : a[r] = answered[r]
    BY <1>4, <2>2
  <2>4. \A t \in Session : ctx'[t].pending # 0 =>
          answered'[ctx'[t].pending] = answered[ctx'[t].pending]
    BY <1>2, <2>1, <2>3 DEF Request
  <2>5. ASSUME NEW r \in Request PROVE (r > requested => a[r] = 0) /\ a[r] <= 1
    <3>1. CASE r = q
      BY <2>2, <2>3, <3>1 DEF Request
    <3>2. CASE r # q
      BY <1>1, <2>3, <3>2
    <3> QED BY <3>1, <3>2
  <2> QED BY <1>1, <1>2, <2>1, <2>4, <2>5 DEF RequestsAreHeld, AnsweredOnce
<1> QED BY <1>3, <1>4 DEF Settles

\* A step that leaves one session fine, the others alone, and the requests held.
LEMMA FineKeeps ==
  ASSUME Inv, NEW s \in Session, s <= current,
         NEW c, NEW l, NEW a, NEW told \in SUBSET Outcome, Fine(s, c, l, a, alive', told),
         lab' = l, ctx' = [ctx EXCEPT ![s] = c], answered' = a,
         current' = current, said' = [said EXCEPT ![s] = told],
         requested' \in 0 .. MaxRequests, RequestsAreHeld', AnsweredOnce',
         failed' \subseteq Session \X {"discovery", "main"},
         \A t \in Session \ {s} : \A k : <<t, k>> \in alive' <=> <<t, k>> \in alive,
         s < current => alive' \subseteq alive
  PROVE  Inv' /\ CompletedStay
<1> USE Types
<1>1. c \in Context /\ l \in Service /\ a \in [Request -> Nat]
      /\ alive' \subseteq Session \X {"discovery", "main"}
  BY DEF Fine
<1>2. /\ ctx' \in [Session -> Context] /\ ctx'[s] = c
      /\ \A t \in Session \ {s} : ctx'[t] = ctx[t]
  BY <1>1
<1>3. TypeOK'
  BY <1>1, <1>2 DEF TypeOK
<1>4. current # 0 /\ current \in Session /\ \A t \in Session : t # s => s \in Session \ {t}
  BY DEF Session
<1>5. ASSUME NEW t \in Session
      PROVE  /\ Fits(t, ctx'[t]) /\ (t > current => ctx'[t] = NewContext)
             /\ (t <= current => ctx'[t].run # "none") /\ (t < current => ctx'[t].close # "null")
  <2>1. CASE t = s
    <3>1. ~(t > current)
      BY <2>1
    <3> QED BY <1>2, <2>1, <3>1 DEF Fine
  <2>2. CASE t # s
    BY <1>2, <2>2 DEF Inv, InStep
  <2> QED BY <2>1, <2>2
<1>6. lab'.session = current' /\ Agree(lab', ctx'[current], said'[current])
  <2>1. CASE s = current
    <3>1. said'[s] = told
      OBVIOUS
    <3> QED BY <1>2, <2>1, <3>1 DEF Fine
  <2>2. CASE s # current
    <3>1. Good(current, ctx[current], lab, answered, alive, said[current])
      <4>1. current <= current /\ said[current] \subseteq said[current]
        OBVIOUS
      <4> QED BY <1>4, <4>1, StandsGood
    <3>2. Agree(lab, ctx[current], said[current])
      BY <3>1 DEF Good, Fine
    <3>3. said'[current] = said[current] /\ ctx'[current] = ctx[current] /\ lab' = lab
      BY <1>2, <1>4, <2>2 DEF Fine
    <3> QED BY <3>2, <3>3
  <2> QED BY <2>1, <2>2
<1>7. ChildrenAreHeld'
  <2>1. ASSUME NEW child \in alive'
        PROVE  LET t == child[1]
               IN /\ t <= current /\ ctx'[t].conn = child[2] /\ ctx'[t].close # "true"
                  /\ t < current => t = current - 1 /\ ctx'[current].blocked
    <3> DEFINE t == child[1]
               k == child[2]
    <3>1. t \in Session /\ child = <<t, k>>
      BY <1>1
    <3> HIDE DEF t, k
    <3>2. CASE t = s
      <4>1. ctx'[t].conn = k /\ ctx'[t].close # "true" /\ t <= current
        BY <1>2, <3>1, <3>2 DEF Fine
      <4>2. ASSUME t < current PROVE t = current - 1 /\ ctx'[current].blocked
        <5>1. child \in alive /\ current # s
          BY <3>2, <4>2
        <5>2. t = current - 1 /\ ctx[current].blocked
          BY <4>2, <5>1 DEF Inv, InStep, ChildrenAreHeld, t
        <5> QED BY <1>2, <1>4, <5>1, <5>2
      <4> QED BY <4>1, <4>2 DEF t, k
    <3>3. CASE t # s
      <4>1. child \in alive
        BY <3>1, <3>3
      <4>2. /\ t <= current /\ ctx[t].conn = k /\ ctx[t].close # "true"
            /\ t < current => t = current - 1 /\ ctx[current].blocked
        BY <4>1 DEF Inv, InStep, ChildrenAreHeld, t, k
      <4>3. ctx'[t] = ctx[t]
        BY <1>2, <3>1, <3>3
      <4>4. t < current => ctx'[current].blocked
        <5>1. CASE s = current
          <6>1. c.blocked
            BY <3>3, <5>1, <2>1 DEF Fine, t
          <6> QED BY <1>2, <5>1, <6>1
        <5>2. CASE s # current
          BY <1>2, <1>4, <4>2, <5>2
        <5> QED BY <5>1, <5>2
      <4> QED BY <4>2, <4>3, <4>4 DEF t, k
    <3> QED BY <3>2, <3>3
  <2>2. ctx'[current].conn # "none" => Conn(ctx', current) \in alive'
    <3>1. CASE s = current
      BY <1>2, <3>1 DEF Fine, Conn
    <3>2. CASE s # current
      <4>1. ctx'[current] = ctx[current]
        BY <1>2, <1>4, <3>2
      <4>2. ctx[current].conn # "none" => <<current, ctx[current].conn>> \in alive
        BY <1>4 DEF Inv, InStep, ChildrenAreHeld, Conn
      <4> QED BY <1>4, <3>2, <4>1, <4>2 DEF Conn
    <3> QED BY <3>1, <3>2
  <2>3. ASSUME NEW t \in Session, ctx'[t].run \in RpcStage, ctx'[t].reply = "ok"
        PROVE  Conn(ctx', t) \in alive'
    <3>1. CASE t = s
      BY <1>2, <2>3, <3>1 DEF Fine, Conn
    <3>2. CASE t # s
      <4>1. ctx'[t] = ctx[t]
        BY <1>2, <3>2
      <4>2. <<t, ctx[t].conn>> \in alive
        BY <2>3, <4>1 DEF Inv, InStep, ChildrenAreHeld, Conn
      <4> QED BY <3>2, <4>1, <4>2 DEF Conn
    <3> QED BY <3>1, <3>2
  <2> QED BY <2>1, <2>2, <2>3 DEF ChildrenAreHeld
<1>8. Inv'
  BY <1>3, <1>4, <1>5, <1>6, <1>7, Together
<1>9. CompletedStay
  BY <1>2 DEF Fine, CompletedStay
<1> QED BY <1>8, <1>9

LEMMA GoodKeeps ==
  ASSUME Inv, NEW s \in Session, s <= current, NEW w, Becomes(w),
         NEW c, NEW l, NEW a, NEW told \in SUBSET Outcome,
         w = Left(s, c, l, a), Good(s, c, l, a, alive', told),
         current' = current, requested' = requested, said' = [said EXCEPT ![s] = told],
         failed' \subseteq Session \X {"discovery", "main"},
         \A t \in Session \ {s} : \A k : <<t, k>> \in alive' <=> <<t, k>> \in alive,
         s < current => alive' \subseteq alive
  PROVE  Inv' /\ CompletedStay
<1> USE Types
<1>1. ctx' = [ctx EXCEPT ![s] = c] /\ lab' = l /\ answered' = a
  BY DEF Becomes, Left
<1>2. /\ ctx' \in [Session -> Context] /\ ctx'[s] = c
      /\ \A t \in Session \ {s} : ctx'[t] = ctx[t]
  BY <1>1 DEF Good, Fine
<1>3. RequestsAreHeld' /\ AnsweredOnce'
  <2>1. \A t \in Session \ {s} : ctx'[t].pending \in {0, ctx[t].pending}
    BY <1>2
  <2> QED BY <1>1, <1>2, <2>1, RequestsStay DEF Good
<1> QED BY <1>1, <1>3, FineKeeps DEF Good

\* Most steps change neither the children nor what they have said.
LEMMA RestKeeps ==
  ASSUME Inv, NEW s \in Session, s <= current, NEW w, Becomes(w),
         NEW c, NEW l, NEW a, w = Left(s, c, l, a), Good(s, c, l, a, alive, said[s]),
         UNCHANGED rest
  PROVE  Inv' /\ CompletedStay
<1>1. said' = [said EXCEPT ![s] = said[s]] /\ said[s] \in SUBSET Outcome
  BY Types DEF rest
<1>2. failed' \subseteq Session \X {"discovery", "main"}
  BY DEF Inv, TypeOK, rest
<1>3. alive' = alive /\ current' = current /\ requested' = requested
  BY DEF rest
<1>4. Good(s, c, l, a, alive', said[s])
  BY <1>3
<1> QED BY <1>1, <1>2, <1>3, <1>4, GoodKeeps

-----------------------------------------------------------------------------
(* The methods, of one session *)

LEMMA LeftFields ==
  ASSUME Inv, NEW s \in Session, NEW c, NEW l, NEW a, NEW w, w = Left(s, c, l, a)
  PROVE  /\ w.ctx[s] = c /\ w.lab = l /\ w.answered = a
         /\ \A d : [w EXCEPT !.ctx[s] = d] = Left(s, d, l, a)
         /\ \A m : [w EXCEPT !.lab = m] = Left(s, c, m, a)
  BY Types DEF Left

LEMMA LeftObserve ==
  ASSUME Inv, NEW s \in Session, NEW c, NEW l, NEW a, NEW o, NEW w, w = Left(s, c, l, a)
  PROVE  Observe(w, s, o) = Left(s, c, Heard(l, s, o), a)
  BY DEF Observe, Left, Heard

\* The service of the current session is told something.
LEMMA GoodTold ==
  ASSUME Inv, NEW s \in Session, NEW c, NEW l, NEW a, NEW A, NEW told, NEW w, NEW o,
         w = Left(s, c, l, a), Good(s, c, l, a, A, told),
         s = current => /\ Observed(l, o) \in Service /\ Observed(l, o).session = l.session
                        /\ Agree(Observed(l, o), c, told)
  PROVE  /\ Observe(w, s, o) = Left(s, c, Heard(l, s, o), a)
         /\ Good(s, c, Heard(l, s, o), a, A, told)
<1>1. Observe(w, s, o) = Left(s, c, Heard(l, s, o), a)
  BY LeftObserve
<1>2. CASE s = current
  <2>1. Heard(l, s, o) = Observed(l, o)
    BY <1>2 DEF Heard, Good, Fine
  <2> QED BY <1>1, <1>2, <2>1 DEF Good, Fine
<1>3. CASE s # current
  <2>1. Heard(l, s, o) = l
    BY <1>3, Types DEF Heard, Good, Fine
  <2> QED BY <1>1, <2>1
<1> QED BY <1>2, <1>3

\* The context is put in another state.
LEMMA GoodPut ==
  ASSUME Inv, NEW s \in Session, NEW c, NEW l, NEW a, NEW A, NEW told, NEW d \in Context,
         Good(s, c, l, a, A, told), Fits(s, d), d.run # "none",
         d.close = c.close, d.conn = c.conn, d.blocked = c.blocked, d.pending = c.pending,
         d.run \in RpcStage /\ d.reply = "ok" => c.run \in RpcStage /\ c.reply = "ok",
         c.completed => d.completed,
         s = current => Agree(l, d, told)
  PROVE  Good(s, d, l, a, A, told)
  BY DEF Good, Fine, Settles

\* run has gone on to a stage where the session fits.
LEMMA LeftAt ==
  ASSUME Inv, NEW s \in Session, NEW c, NEW l, NEW a, NEW w, NEW stage, w = Left(s, c, l, a)
  PROVE  At(w, s, stage) = Left(s, Going(c, stage), l, a)
<1> DEFINE d == Going(c, stage)
<1>1. w.ctx[s] = c
  BY LeftFields
<1>2. At(w, s, stage) = [w EXCEPT !.ctx[s] = d]
  BY <1>1 DEF At, Going
<1> HIDE DEF d
<1>3. [w EXCEPT !.ctx[s] = d] = Left(s, d, l, a)
  BY LeftFields
<1> QED BY <1>2, <1>3 DEF d

LEMMA GoingFields ==
  ASSUME NEW c \in Context, NEW stage \in RunStage, NEW d, d = Going(c, stage)
  PROVE  /\ d \in Context /\ d.run = stage /\ d.reply = "waiting"
         /\ d.stops = c.stops /\ d.asked = c.asked /\ d.stopped = c.stopped
         /\ d.blocked = c.blocked /\ d.conn = c.conn /\ d.attempted = c.attempted
         /\ d.turn = c.turn /\ d.started = c.started /\ d.completed = c.completed
         /\ d.pending = c.pending /\ d.safe = c.safe /\ d.ended = c.ended
         /\ d.emitted = c.emitted
         /\ d.close = c.close /\ d.expectedClose = c.expectedClose /\ d.fatal = c.fatal
  BY DEF Going, Context

LEMMA GoodAt ==
  ASSUME Inv, NEW s \in Session, NEW c, NEW l, NEW a, NEW A, NEW told, NEW stage \in RunStage,
         stage # "none", Good(s, c, l, a, A, told), Fits(s, Going(c, stage)),
         s = current => Agree(l, Going(c, stage), told)
  PROVE  Good(s, Going(c, stage), l, a, A, told)
<1> DEFINE d == Going(c, stage)
<1>1. c \in Context
  BY DEF Good, Fine
<1>2. /\ d \in Context /\ d.run = stage /\ d.reply = "waiting" /\ d.close = c.close
      /\ d.conn = c.conn /\ d.blocked = c.blocked /\ d.pending = c.pending /\ d.safe = c.safe
      /\ d.completed = c.completed
  BY <1>1, GoingFields
<1> HIDE DEF d
<1>3. Good(s, d, l, a, A, told)
  BY <1>2, GoodPut DEF d
<1> QED BY <1>3 DEF d

\* run is over.
LEMMA GoodDone ==
  ASSUME Inv, NEW s \in Session, NEW c, NEW l, NEW a, NEW A, NEW told,
         Good(s, c, l, a, A, told)
  PROVE  Good(s, Going(c, "done"), l, a, A, told)
<1>1. c \in Context /\ Fits(s, c) /\ (s = current => Agree(l, c, told))
      /\ "done" \in RunStage
  BY DEF Good, Fine, RunStage
<1>2. Fits(s, Going(c, "done"))
  BY <1>1, GoingFields DEF Fits, Early
<1>3. s = current => Agree(l, Going(c, "done"), told)
  BY <1>1, GoingFields DEF Agree, Knows, Early
<1> QED BY <1>1, <1>2, <1>3, GoodAt

\* The child is being closed, of a session that spawns no other.
LEMMA GoodCloses ==
  ASSUME Inv, NEW s \in Session, NEW c, NEW l, NEW a, NEW A, NEW told, NEW w,
         w = Left(s, c, l, a), Good(s, c, l, a, A, told),
         c.run \in Early => c.stopped
  PROVE  \E m : /\ CloseContext(w, s) = Left(s, Closing(c), m, a)
                /\ Good(s, Closing(c), m, a, A, told)
<1>1. w.ctx[s] = c
  BY LeftFields
<1>2. CASE c.close \in {"wait", "true"}
  BY <1>1, <1>2 DEF CloseContext, Closing
<1>3. ASSUME c.close \notin {"wait", "true"}, NEW close \in {"true", "wait"},
             close = "true" => c.conn = "none"
      PROVE  LET d == [c EXCEPT !.close = close, !.expectedClose = TRUE]
             IN [w EXCEPT !.ctx[s] = d] = Left(s, d, l, a) /\ Good(s, d, l, a, A, told)
  <2> DEFINE d == [c EXCEPT !.close = close, !.expectedClose = TRUE]
  <2>1. [w EXCEPT !.ctx[s] = d] = Left(s, d, l, a)
    BY LeftFields
  <2>2. c \in Context
    BY DEF Good, Fine
  <2>3. /\ d \in Context /\ d.run = c.run /\ d.reply = c.reply /\ d.close = close
        /\ d.expectedClose = TRUE
        /\ d.stops = c.stops /\ d.asked = c.asked /\ d.stopped = c.stopped
        /\ d.blocked = c.blocked /\ d.conn = c.conn /\ d.attempted = c.attempted
        /\ d.turn = c.turn /\ d.started = c.started /\ d.completed = c.completed
        /\ d.pending = c.pending /\ d.safe = c.safe /\ d.fatal = c.fatal
    BY <1>3, <2>2 DEF Context
  <2> HIDE DEF d
  <2>4. Fits(s, d)
    BY <1>3, <2>3 DEF Good, Fine, Fits
  <2>5. s = current => Agree(l, d, told)
    BY <2>3 DEF Good, Fine, Agree, Knows
  <2>6. \A k : <<s, k>> \in A => d.conn = k /\ d.close # "true"
    <3>1. \A k : <<s, k>> \in A => c.conn = k /\ k \in {"discovery", "main"}
      BY DEF Good, Fine
    <3> QED BY <1>3, <2>3, <3>1
  <2>7. Good(s, d, l, a, A, told)
    BY <1>3, <2>3, <2>4, <2>5, <2>6 DEF Good, Fine, Settles
  <2> QED BY <2>1, <2>7 DEF d
<1>4. CASE c.close \notin {"wait", "true"} /\ c.conn = "none"
  <2>1. CloseContext(w, s) = [w EXCEPT !.ctx[s] = [c EXCEPT !.close = "true", !.expectedClose = TRUE]]
    BY ZenonT(60), <1>1, <1>4 DEF CloseContext
  <2>2. Closing(c) = [c EXCEPT !.close = "true", !.expectedClose = TRUE]
    BY <1>4 DEF Closing
  <2> QED BY <1>3, <1>4, <2>1, <2>2
<1>5. CASE c.close \notin {"wait", "true"} /\ c.conn # "none"
  <2> DEFINE d == [c EXCEPT !.close = "wait", !.expectedClose = TRUE]
             v == [w EXCEPT !.ctx[s] = d]
  <2>1. CloseContext(w, s) = Observe(v, s, ChildIs("closing"))
    BY ZenonT(60), <1>1, <1>5 DEF CloseContext
  <2>2. Closing(c) = d
    BY <1>5 DEF Closing
  <2>3. v = Left(s, d, l, a) /\ Good(s, d, l, a, A, told)
    BY <1>3, <1>5
  <2>4. d.conn # "none"
    BY <1>5 DEF Good, Fine, Context
  <2> HIDE DEF d, v
  <2>5. s = current => /\ Observed(l, ChildIs("closing")) \in Service
                       /\ Observed(l, ChildIs("closing")).session = l.session
                       /\ Agree(Observed(l, ChildIs("closing")), d, told)
    <3>1. ASSUME s = current PROVE l \in Service /\ d \in Context /\ Agree(l, d, told)
      BY <2>3, <3>1 DEF Good, Fine
    <3>2. l \in Service => Observed(l, ChildIs("closing")).session = l.session
      BY HearsClosing DEF Recorded, Service, Approval
    <3> QED BY <2>4, <3>1, <3>2, ClosingAgrees
  <2> QED BY <2>1, <2>2, <2>3, <2>5, GoodTold
<1> QED BY <1>2, <1>4, <1>5

LEMMA CancelledFields ==
  ASSUME NEW c \in Context, NEW d, d = Cancelled(c)
  PROVE  /\ d \in Context /\ d.pending = 0 /\ d.run = c.run /\ d.reply = c.reply
         /\ d.stops = c.stops /\ d.asked = c.asked /\ d.stopped = c.stopped
         /\ d.blocked = c.blocked /\ d.conn = c.conn /\ d.attempted = c.attempted
         /\ d.turn = c.turn /\ d.started = c.started /\ d.completed = c.completed
         /\ d.close = c.close /\ d.expectedClose = c.expectedClose /\ d.fatal = c.fatal
<1>1. CASE c.pending = 0
  BY <1>1 DEF Cancelled
<1>2. CASE c.pending # 0
  <2>1. d = [c EXCEPT !.pending = 0, !.safe = FALSE]
    BY <1>2 DEF Cancelled
  <2>2. 0 \in 0 .. MaxRequests
    BY BoundsAssumption
  <2> QED BY ZenonT(60), <2>1, <2>2 DEF Context
<1> QED BY <1>1, <1>2

LEMMA LeftCancel ==
  ASSUME Inv, NEW s \in Session, NEW c, NEW l, NEW a, NEW w, NEW sent \in BOOLEAN,
         w = Left(s, c, l, a)
  PROVE  CancelPending(w, s, sent)
           = Left(s, Cancelled(c), Told(l, s, c, sent), Counted(a, c, sent))
<1> DEFINE d == [c EXCEPT !.pending = 0, !.safe = FALSE]
           v == [w EXCEPT !.ctx[s].pending = 0, !.ctx[s].safe = FALSE]
           r == c.pending
<1>1. w.ctx[s] = c
  BY LeftFields
<1>2. v = [w EXCEPT !.ctx[s] = d]
  BY <1>1
<1>3. CancelPending(w, s, sent) =
        CASE r = 0 -> w
          [] r # 0 /\ sent -> Observe(Answer(v, r), s, ResponseSent(r, "cancel"))
          [] OTHER -> Observe(v, s, Revoked(r))
  BY <1>1 DEF CancelPending
<1>4. Cancelled(c) = IF r = 0 THEN c ELSE d
  BY DEF Cancelled
<1> HIDE DEF d, v
<1>5. v = Left(s, d, l, a)
  BY <1>2, LeftFields
<1>6. Answer(v, r) = Left(s, d, l, [a EXCEPT ![r] = @ + 1])
  BY <1>5 DEF Answer, Left
<1>7. /\ Observe(Answer(v, r), s, ResponseSent(r, "cancel"))
           = Left(s, d, Heard(l, s, ResponseSent(r, "cancel")), [a EXCEPT ![r] = @ + 1])
      /\ Observe(v, s, Revoked(r)) = Left(s, d, Heard(l, s, Revoked(r)), a)
  BY <1>5, <1>6, LeftObserve
<1>8. CASE r = 0
  BY <1>3, <1>4, <1>8 DEF Told, Counted
<1>9. CASE r # 0 /\ sent
  BY <1>3, <1>4, <1>7, <1>9 DEF Told, Counted
<1>10. CASE r # 0 /\ ~sent
  BY <1>3, <1>4, <1>7, <1>10 DEF Told, Counted
<1> QED BY <1>8, <1>9, <1>10

\* A pending request is settled.
LEMMA GoodCancels ==
  ASSUME Inv, NEW s \in Session, NEW c, NEW l, NEW a, NEW A, NEW told, NEW sent \in BOOLEAN,
         Good(s, c, l, a, A, told)
  PROVE  Good(s, Cancelled(c), Told(l, s, c, sent), Counted(a, c, sent), A, told)
<1> DEFINE d == Cancelled(c)
           m == Told(l, s, c, sent)
           b == Counted(a, c, sent)
<1>1. CASE c.pending = 0
  <2>1. d = c /\ m = l /\ b = a
    BY <1>1 DEF Cancelled, Told, Counted
  <2> HIDE DEF d, m, b
  <2>2. Good(s, d, m, b, A, told)
    BY <2>1
  <2> QED BY <2>2 DEF d, m, b
<1>2. CASE c.pending # 0
  <2>1. /\ c \in Context /\ l \in Service /\ a \in [Request -> Nat] /\ Fits(s, c)
        /\ c.pending = ctx[s].pending /\ a = answered
        /\ s = current => l.session = s /\ Agree(l, c, told)
        /\ s # current => l = lab
    BY <1>2 DEF Good, Fine, Settles
  <2> DEFINE o == IF sent THEN ResponseSent(c.pending, "cancel") ELSE Revoked(c.pending)
  <2>2. /\ d \in Context /\ d.pending = 0 /\ d.run = c.run /\ d.reply = c.reply
        /\ d.stops = c.stops /\ d.asked = c.asked /\ d.stopped = c.stopped
        /\ d.blocked = c.blocked /\ d.conn = c.conn /\ d.attempted = c.attempted
        /\ d.turn = c.turn /\ d.started = c.started /\ d.completed = c.completed
        /\ d.close = c.close /\ d.expectedClose = c.expectedClose /\ d.fatal = c.fatal
    BY <2>1, CancelledFields
  <2>3. d = [c EXCEPT !.pending = 0, !.safe = FALSE]
    BY <1>2 DEF Cancelled
  <2>4. m = Heard(l, s, o) /\ o \in {Revoked(c.pending), ResponseSent(c.pending, "cancel")}
    BY <1>2 DEF Told
  <2>5. Settles(s, d, b)
    BY <1>2, <2>1, <2>2 DEF Settles, Counted
  <2>6. b \in [Request -> Nat]
    <3>1. c.pending \in Request
      BY <1>2, <2>1, BoundsAssumption DEF Context, Request
    <3>2. [a EXCEPT ![c.pending] = @ + 1] \in [Request -> Nat]
      BY <2>1, <3>1
    <3> QED BY <2>1, <3>2 DEF Counted
  <2> HIDE DEF o, m, b
  <2>7. s = current => m \in Service /\ m.session = s /\ Agree(m, d, told)
    <3> SUFFICES ASSUME s = current PROVE m \in Service /\ m.session = s /\ Agree(m, d, told)
      OBVIOUS
    <3>1. m = Observed(l, o)
      BY <2>1, <2>4 DEF Heard
    <3>2. Observed(l, o) \in Service /\ Observed(l, o).session = l.session
          /\ Agree(Observed(l, o), [c EXCEPT !.pending = 0, !.safe = FALSE], told)
      BY <1>2, <2>1, <2>4, SettledAgrees
    <3> QED BY <2>1, <2>3, <3>1, <3>2
  <2>8. s # current => m = lab /\ m \in Service
    BY <2>1, <2>4, Types DEF Heard
  <2> HIDE DEF d
  <2>9. Fits(s, d)
    BY <2>1, <2>2 DEF Fits
  <2>10. Good(s, d, m, b, A, told)
    BY <2>2, <2>5, <2>6, <2>7, <2>8, <2>9 DEF Good, Fine
  <2> QED BY <2>10 DEF d, m, b
<1> QED BY <1>1, <1>2

\* The requests that wait for the connection are refused.
LEMMA RejectingFields ==
  ASSUME NEW c \in Context, NEW d, d = Rejecting(c)
  PROVE  /\ d \in Context /\ d.pending = c.pending /\ d.safe = c.safe
         /\ d.run = c.run /\ d.asked = c.asked
         /\ d.reply = (IF c.reply = "waiting" THEN "error" ELSE c.reply)
         /\ d.stops = (IF "interrupt" \in c.stops
                       THEN (c.stops \ {"interrupt"}) \cup {"refused"} ELSE c.stops)
         /\ d.stopped = c.stopped
         /\ d.blocked = c.blocked /\ d.conn = c.conn /\ d.attempted = c.attempted
         /\ d.turn = c.turn /\ d.started = c.started /\ d.completed = c.completed
         /\ d.close = c.close /\ d.expectedClose = c.expectedClose /\ d.fatal = c.fatal
<1> DEFINE q == IF c.reply = "waiting" THEN "error" ELSE c.reply
           z == IF "interrupt" \in c.stops
                THEN (c.stops \ {"interrupt"}) \cup {"refused"} ELSE c.stops
           e == [c EXCEPT !.reply = q]
<1>1. q \in {"waiting", "ok", "error"} /\ z \in SUBSET StopStage
  BY DEF Context, StopStage
<1>2. d = [e EXCEPT !.stops = z]
  BY DEF Rejecting
<1> HIDE DEF q, z
<1>3. /\ e \in Context /\ e.pending = c.pending /\ e.safe = c.safe
      /\ e.run = c.run /\ e.asked = c.asked
      /\ e.reply = q /\ e.stopped = c.stopped
      /\ e.blocked = c.blocked /\ e.conn = c.conn /\ e.attempted = c.attempted
      /\ e.turn = c.turn /\ e.started = c.started /\ e.completed = c.completed
      /\ e.close = c.close /\ e.expectedClose = c.expectedClose /\ e.fatal = c.fatal
  BY <1>1 DEF Context
<1> HIDE DEF e
<1>4. /\ d \in Context /\ d.pending = e.pending /\ d.safe = e.safe
      /\ d.run = e.run /\ d.asked = e.asked
      /\ d.reply = e.reply /\ d.stops = z /\ d.stopped = e.stopped
      /\ d.blocked = e.blocked /\ d.conn = e.conn /\ d.attempted = e.attempted
      /\ d.turn = e.turn /\ d.started = e.started /\ d.completed = e.completed
      /\ d.close = e.close /\ d.expectedClose = e.expectedClose /\ d.fatal = e.fatal
  BY <1>1, <1>2, <1>3 DEF Context
<1> QED BY <1>3, <1>4 DEF q, z

LEMMA GoodRejects ==
  ASSUME Inv, NEW s \in Session, NEW c, NEW l, NEW a, NEW A, NEW told, NEW w,
         w = Left(s, c, l, a), Good(s, c, l, a, A, told)
  PROVE  Rejected(w, s) = Left(s, Rejecting(c), l, a) /\ Good(s, Rejecting(c), l, a, A, told)
<1> DEFINE d == Rejecting(c)
<1>1. w.ctx[s] = c
  BY LeftFields
<1>2. Rejected(w, s) = [w EXCEPT !.ctx[s] = d]
  BY ZenonT(60), <1>1 DEF Rejected, Rejecting
<1>3. c \in Context /\ Fits(s, c) /\ c.run # "none" /\ (s = current => Agree(l, c, told))
  BY DEF Good, Fine
<1>4. /\ d \in Context /\ d.pending = c.pending /\ d.safe = c.safe
      /\ d.run = c.run /\ d.asked = c.asked
      /\ d.reply = (IF c.reply = "waiting" THEN "error" ELSE c.reply)
      /\ d.stops = (IF "interrupt" \in c.stops
                    THEN (c.stops \ {"interrupt"}) \cup {"refused"} ELSE c.stops)
      /\ d.stopped = c.stopped
      /\ d.blocked = c.blocked /\ d.conn = c.conn /\ d.attempted = c.attempted
      /\ d.turn = c.turn /\ d.started = c.started /\ d.completed = c.completed
      /\ d.close = c.close /\ d.expectedClose = c.expectedClose /\ d.fatal = c.fatal
  BY <1>3, RejectingFields
<1> HIDE DEF d
<1>5. Fits(s, d)
  BY <1>3, <1>4 DEF Fits
<1>6. s = current => Agree(l, d, told)
  BY <1>3, <1>4 DEF Agree, Knows
<1>7. Good(s, d, l, a, A, told)
  BY <1>3, <1>4, <1>5, <1>6, GoodPut
<1>8. [w EXCEPT !.ctx[s] = d] = Left(s, d, l, a)
  BY LeftFields
<1> QED BY <1>2, <1>7, <1>8 DEF d

LEMMA FailingFields ==
  ASSUME NEW c \in Context, NEW d, d = Failing(c)
  PROVE  /\ d \in Context /\ d.pending = c.pending /\ d.safe = c.safe
         /\ d.run = c.run /\ d.reply = c.reply
         /\ d.stops = c.stops /\ d.asked = c.asked /\ d.stopped /\ d.fatal
         /\ d.blocked = c.blocked /\ d.conn = c.conn /\ d.attempted = c.attempted
         /\ d.turn = c.turn /\ d.started = c.started /\ d.completed = c.completed
         /\ d.close = c.close /\ d.expectedClose = c.expectedClose
  BY DEF Failing, Context

\* A failure of the session stops it, and closes its child.
LEMMA GoodFails ==
  ASSUME Inv, NEW s \in Session, NEW c, NEW l, NEW a, NEW A, NEW told, NEW w,
         w = Left(s, c, l, a), Good(s, c, l, a, A, told)
  PROVE  \E d, m, b : FailContext(w, s) = Left(s, d, m, b) /\ Good(s, d, m, b, A, told)
<1> DEFINE e == Cancelled(c)
           f == Failing(e)
           m == Told(l, s, c, FALSE)
           b == Counted(a, c, FALSE)
           n == Heard(m, s, Plain("protocol-failure"))
           g == Failing(c)
           v == [w EXCEPT !.ctx[s] = g]
<1>1. w.ctx[s] = c
  BY LeftFields
<1>2. CASE c.fatal \/ (c.conn # "none" /\ Conn(w.ctx, s) \notin alive)
  BY <1>1, <1>2 DEF FailContext
<1>3. CASE ~(c.fatal \/ (c.conn # "none" /\ Conn(w.ctx, s) \notin alive))
  <2>1. FailContext(w, s) =
          CloseContext(Observe(CancelPending(v, s, FALSE), s, Plain("protocol-failure")), s)
    BY <1>1, <1>3 DEF FailContext, RevokeAll, Failing
  <2>2. c \in Context /\ e \in Context /\ f \in Context
    BY CancelledFields, FailingFields DEF Good, Fine
  <2>3. Cancelled(g) = f /\ Told(l, s, g, FALSE) = m /\ Counted(a, g, FALSE) = b
    <3>1. g.pending = c.pending
      BY <2>2, FailingFields
    <3>2. Cancelled(g) = f
      <4>1. CASE c.pending = 0
        BY <3>1, <4>1 DEF Cancelled
      <4>2. CASE c.pending # 0
        BY ZenonT(60), <2>2, <3>1, <4>2 DEF Cancelled, Failing, Context
      <4> QED BY <4>1, <4>2
    <3> QED BY <3>1, <3>2 DEF Told, Counted
  <2>f. f = Failing(e)
    OBVIOUS
  <2> HIDE DEF e, f, m, b, n, g
  <2>4. v = Left(s, g, l, a)
    BY LeftFields
  <2> HIDE DEF v
  <2>5. CancelPending(v, s, FALSE) = Left(s, f, m, b)
    <3>1. \A sent \in BOOLEAN :
            CancelPending(v, s, sent)
              = Left(s, Cancelled(g), Told(l, s, g, sent), Counted(a, g, sent))
      BY <2>4, LeftCancel
    <3>2. CancelPending(v, s, FALSE)
            = Left(s, Cancelled(g), Told(l, s, g, FALSE), Counted(a, g, FALSE))
      BY <3>1, Zenon
    <3> QED BY <2>3, <3>2, Zenon
  <2>6. Observe(Left(s, f, m, b), s, Plain("protocol-failure")) = Left(s, f, n, b)
    BY LeftObserve DEF n
  <2>7. Good(s, e, m, b, A, told)
    BY GoodCancels DEF e, m, b
  <2>8. /\ f.pending = e.pending /\ f.safe = e.safe /\ f.run = e.run /\ f.reply = e.reply
        /\ f.stops = e.stops /\ f.asked = e.asked /\ f.stopped /\ f.fatal
        /\ f.blocked = e.blocked /\ f.conn = e.conn /\ f.attempted = e.attempted
        /\ f.turn = e.turn /\ f.started = e.started /\ f.completed = e.completed
        /\ f.close = e.close /\ f.expectedClose = e.expectedClose
    BY <2>2, <2>f, FailingFields
  <2>9. ~e.fatal
    BY <1>3, <2>2, CancelledFields DEF Good, Fine, e
  <2>10. Fits(s, f)
    BY <2>7, <2>8 DEF Good, Fine, Fits
  <2>11. s = current => n \in Service /\ n.session = s /\ Agree(n, f, told)
    <3> SUFFICES ASSUME s = current PROVE n \in Service /\ n.session = s /\ Agree(n, f, told)
      OBVIOUS
    <3>1. m \in Service /\ m.session = s /\ Agree(m, e, told)
      BY <2>7 DEF Good, Fine
    <3>2. n = Observed(m, Plain("protocol-failure"))
      BY <3>1 DEF n, Heard
    <3>3. f = [e EXCEPT !.fatal = TRUE, !.stopped = TRUE]
      BY DEF f, Failing
    <3> QED BY <2>2, <2>9, <3>1, <3>2, <3>3, FailureAgrees
  <2>12. s # current => n = lab /\ n \in Service
    BY <2>7, Types DEF Good, Fine, Heard, n
  <2>13. Good(s, f, n, b, A, told)
    <3>1. Settles(s, f, b)
      BY <2>7, <2>8 DEF Good, Settles
    <3>2. Fine(s, f, n, b, A, told)
      BY <2>2, <2>7, <2>8, <2>10, <2>11, <2>12 DEF Good, Fine
    <3> QED BY <3>1, <3>2 DEF Good
  <2>14. \E q : /\ CloseContext(Left(s, f, n, b), s) = Left(s, Closing(f), q, b)
                /\ Good(s, Closing(f), q, b, A, told)
    BY <2>8, <2>13, GoodCloses
  <2> QED BY <2>1, <2>5, <2>6, <2>14
<1> QED BY <1>2, <1>3

\* A session that asked for no turn says that it is over.
LEMMA GoodEmits ==
  ASSUME Inv, NEW s \in Session, NEW c, NEW l, NEW a, NEW A, NEW told, NEW w,
         w = Left(s, c, l, a), Good(s, c, l, a, A, told),
         ~c.attempted, c.stopped, ~c.blocked
  PROVE  \E d, m : EmitStartupStopped(w, s) = Left(s, d, m, a) /\ Good(s, d, m, a, A, told)
<1> DEFINE d == [c EXCEPT !.emitted = TRUE]
           m == Heard(l, s, Plain("startup-stopped"))
<1>1. w.ctx[s] = c
  BY LeftFields
<1>2. CASE c.emitted
  BY <1>1, <1>2 DEF EmitStartupStopped
<1>3. CASE ~c.emitted
  <2>1. EmitStartupStopped(w, s) = Observe([w EXCEPT !.ctx[s] = d], s, Plain("startup-stopped"))
    BY <1>1, <1>3 DEF EmitStartupStopped
  <2>2. c \in Context /\ Fits(s, c) /\ c.run # "none" /\ (s = current => Agree(l, c, told))
    BY DEF Good, Fine
  <2>3. /\ d \in Context /\ d.pending = c.pending /\ d.safe = c.safe
        /\ d.run = c.run /\ d.asked = c.asked
        /\ d.reply = c.reply /\ d.stops = c.stops /\ d.stopped = c.stopped
        /\ d.blocked = c.blocked /\ d.conn = c.conn /\ d.attempted = c.attempted
        /\ d.turn = c.turn /\ d.started = c.started /\ d.completed = c.completed
        /\ d.close = c.close /\ d.expectedClose = c.expectedClose /\ d.fatal = c.fatal
    BY <2>2 DEF Context
  <2> HIDE DEF d, m
  <2>4. Fits(s, d)
    BY <2>2, <2>3 DEF Fits
  <2>5. s = current => Agree(l, d, told)
    BY <2>2, <2>3 DEF Agree, Knows
  <2>6. Good(s, d, l, a, A, told)
    BY <2>2, <2>3, <2>4, <2>5, GoodPut
  <2>7. [w EXCEPT !.ctx[s] = d] = Left(s, d, l, a)
    BY LeftFields
  <2>8. l \in Service /\ (~d.attempted /\ d.stopped /\ ~d.blocked)
    BY <2>3 DEF Good, Fine
  <2>9. s = current => /\ Observed(l, Plain("startup-stopped")) \in Service
                       /\ Observed(l, Plain("startup-stopped")).session = l.session
                       /\ Agree(Observed(l, Plain("startup-stopped")), d, told)
    BY <2>3, <2>4, <2>5, <2>8, StoppedAgrees
  <2>10. Observe(Left(s, d, l, a), s, Plain("startup-stopped")) = Left(s, d, m, a)
         /\ Good(s, d, m, a, A, told)
    BY <2>6, <2>9, GoodTold DEF m
  <2> QED BY <2>1, <2>7, <2>10
<1> QED BY <1>2, <1>3

\* The catch of start.
LEMMA GoodThrows ==
  ASSUME Inv, NEW s \in Session, NEW c, NEW l, NEW a, NEW A, NEW told, NEW w,
         w = Left(s, c, l, a), Good(s, c, l, a, A, told)
  PROVE  \E d, m : Throw(w, s) = Left(s, d, m, a) /\ Good(s, d, m, a, A, told)
<1> DEFINE d == Going(c, "done")
           v == At(w, s, "done")
           e == [d EXCEPT !.fatal = TRUE]
           x == [v EXCEPT !.ctx[s] = e]
           m == Heard(l, s, Plain("protocol-failure"))
           n == Heard(m, s, ChildIs("unknown"))
<1>1. w.ctx[s] = c
  BY LeftFields
<1>2. c \in Context /\ "done" \in RunStage
  BY DEF Good, Fine, RunStage
<1>3. v = Left(s, d, l, a) /\ Good(s, d, l, a, A, told)
  BY LeftAt, GoodDone
<1>4. d \in Context /\ d.run = "done" /\ (d.fatal <=> c.fatal) /\ (d.stopped <=> c.stopped)
  BY <1>2, GoingFields
<1>5. v.ctx[s] = d
  <2> HIDE DEF d, v
  <2> QED BY <1>3, LeftFields
<1>6. Throw(w, s) =
        CloseContext(IF c.stopped \/ c.fatal \/ current # s THEN v
                     ELSE Observe(Observe(x, s, Plain("protocol-failure")), s,
                                  ChildIs("unknown")), s)
  BY <1>1, <1>5 DEF Throw
<1>7. /\ e \in Context /\ e.pending = d.pending /\ e.safe = d.safe
      /\ e.run = d.run /\ e.asked = d.asked
      /\ e.reply = d.reply /\ e.stops = d.stops /\ e.stopped = d.stopped /\ e.fatal
      /\ e.blocked = d.blocked /\ e.conn = d.conn /\ e.attempted = d.attempted
      /\ e.turn = d.turn /\ e.started = d.started /\ e.completed = d.completed
      /\ e.close = d.close /\ e.expectedClose = d.expectedClose
  <2> HIDE DEF d
  <2> QED BY <1>4 DEF Context
<1> HIDE DEF d, v, e, m, n
<1>8. CASE c.stopped \/ c.fatal \/ current # s
  <2>1. \E q : CloseContext(v, s) = Left(s, Closing(d), q, a) /\ Good(s, Closing(d), q, a, A, told)
    BY <1>3, <1>4, GoodCloses DEF Early
  <2> QED BY <1>6, <1>8, <2>1
<1>9. CASE ~(c.stopped \/ c.fatal \/ current # s)
  <2>1. x = Left(s, e, l, a)
    BY <1>3, LeftFields
  <2> HIDE DEF x
  <2>2. d \in Context /\ Fits(s, d) /\ d.run # "none" /\ Agree(l, d, told) /\ l \in Service
        /\ l.session = s
    BY <1>3, <1>9 DEF Good, Fine
  <2>3. Fits(s, e) /\ e.run \notin Early /\ ~e.stopped
    BY <1>4, <1>7, <1>9, <2>2 DEF Fits, Early
  <2>4. Agree(l, e, told)
    BY <1>7, <2>2 DEF Agree, Knows
  <2>5. Good(s, e, l, a, A, told)
    BY <1>3, <1>4, <1>7, <2>2, <2>3, <2>4, GoodPut
  <2>6. Observe(x, s, Plain("protocol-failure")) = Left(s, e, m, a)
        /\ Good(s, e, m, a, A, told)
    <3>1. /\ Observed(l, Plain("protocol-failure")) \in Service
          /\ Observed(l, Plain("protocol-failure")).session = l.session
          /\ Agree(Observed(l, Plain("protocol-failure")), e, told)
      BY <1>7, <2>2, <2>3, <2>4, UnknownAgrees
    <3> QED BY <2>1, <2>5, <3>1, GoodTold DEF m
  <2>7. Observe(Left(s, e, m, a), s, ChildIs("unknown")) = Left(s, e, n, a)
        /\ Good(s, e, n, a, A, told)
    <3>1. m \in Service /\ Agree(m, e, told)
      BY <1>9, <2>6 DEF Good, Fine
    <3>2. (~e.blocked \/ m.child # "closed") /\ (e.completed => e.fatal /\ ~e.stopped)
      BY <1>7, <2>3, <3>1 DEF Agree, Knows
    <3>3. /\ Observed(m, ChildIs("unknown")) \in Service
          /\ Observed(m, ChildIs("unknown")).session = m.session
          /\ Agree(Observed(m, ChildIs("unknown")), e, told)
      BY <1>7, <2>3, <3>1, <3>2, ChildUnknownAgrees
    <3> QED BY <2>6, <3>3, GoodTold DEF n
  <2>8. \E q : /\ CloseContext(Left(s, e, n, a), s) = Left(s, Closing(e), q, a)
               /\ Good(s, Closing(e), q, a, A, told)
    BY <2>3, <2>7, GoodCloses
  <2> QED BY <1>6, <1>9, <2>6, <2>7, <2>8
<1> QED BY <1>8, <1>9

\* A turn that was asked for ends, as the child has told.
LEMMA GoodCompletes ==
  ASSUME Inv, NEW s \in Session, NEW c, NEW l, NEW a, NEW A, NEW told, NEW w,
         w = Left(s, c, l, a), Good(s, c, l, a, A, told),
         NEW t \in Turns, NEW outcome \in Outcome, outcome \in told, NEW sent \in BOOLEAN,
         c.attempted, c.conn # "none"
  PROVE  \E d, m, b : /\ OnTurnCompleted(w, s, t, outcome, sent) = Left(s, d, m, b)
                      /\ Good(s, d, m, b, A, told)
                      /\ d.attempted /\ (c.stopped => d.stopped) /\ d.blocked = c.blocked
<1> DEFINE e == Cancelled(c)
           d == Completing(e)
           m == Told(l, s, c, sent)
           b == Counted(a, c, sent)
           n == Heard(m, s, TurnCompleted(t, outcome))
           v == CancelPending(w, s, sent)
           x == [v EXCEPT !.ctx[s] = d]
<1>1. w.ctx[s] = c /\ c \in Context
  BY LeftFields DEF Good, Fine
<1>2. CASE c.turn \notin {NoTurn, t} \/ c.completed
  BY <1>1, <1>2 DEF OnTurnCompleted
<1>3. CASE ~(c.turn \notin {NoTurn, t} \/ c.completed)
  <2>1. v = Left(s, e, m, b) /\ Good(s, e, m, b, A, told)
    BY LeftCancel, GoodCancels
  <2> HIDE DEF m, b
  <2>2. v.ctx[s] = e
    <3> HIDE DEF e, v
    <3> QED BY <2>1, LeftFields
  <2>3. OnTurnCompleted(w, s, t, outcome, sent) = Observe(x, s, TurnCompleted(t, outcome))
    <3>1. OnTurnCompleted(w, s, t, outcome, sent)
            = Observe([v EXCEPT !.ctx[s].completed = TRUE, !.ctx[s].ended = TRUE],
                      s, TurnCompleted(t, outcome))
      BY <1>1, <1>3 DEF OnTurnCompleted
    <3> HIDE DEF e, v
    <3>2. [v EXCEPT !.ctx[s].completed = TRUE, !.ctx[s].ended = TRUE] = x
      BY <2>2 DEF Completing
    <3> QED BY <3>1, <3>2
  <2> HIDE DEF v
  <2>4. /\ e \in Context /\ e.pending = 0 /\ e.attempted /\ ~e.completed
        /\ e.turn \in {NoTurn, t} /\ e.conn # "none" /\ e.blocked = c.blocked
        /\ (c.stopped => e.stopped)
    BY <1>1, <1>3, CancelledFields
  <2> HIDE DEF e
  <2>5. /\ d \in Context /\ d.pending = e.pending /\ d.safe = e.safe
        /\ d.run = e.run /\ d.asked = e.asked
        /\ d.reply = e.reply /\ d.stops = e.stops /\ d.stopped = e.stopped
        /\ d.blocked = e.blocked /\ d.conn = e.conn /\ d.attempted = e.attempted
        /\ d.turn = e.turn /\ d.started = e.started /\ d.completed
        /\ d.close = e.close /\ d.expectedClose = e.expectedClose /\ d.fatal = e.fatal
    BY <2>4 DEF Context, Completing
  <2>6. d = [e EXCEPT !.completed = TRUE, !.ended = TRUE]
    BY DEF Completing
  <2> HIDE DEF d, n
  <2>7. x = Left(s, d, m, b)
    BY <2>1, LeftFields
  <2> HIDE DEF x
  <2>8. Observe(x, s, TurnCompleted(t, outcome)) = Left(s, d, n, b)
    BY <2>7, LeftObserve DEF n
  <2>9. Fits(s, e) /\ m \in Service /\ b \in [Request -> Nat]
    BY <2>1 DEF Good, Fine
  <2>10. Fits(s, d)
    BY <2>4, <2>5, <2>9 DEF Fits
  <2>11. s = current => n \in Service /\ n.session = s /\ Agree(n, d, told)
    <3> SUFFICES ASSUME s = current PROVE n \in Service /\ n.session = s /\ Agree(n, d, told)
      OBVIOUS
    <3>1. m.session = s /\ Agree(m, e, told)
      BY <2>1 DEF Good, Fine
    <3>2. n = Observed(m, TurnCompleted(t, outcome))
      BY <3>1 DEF n, Heard
    <3>3. /\ Observed(m, TurnCompleted(t, outcome)) \in Service
          /\ Observed(m, TurnCompleted(t, outcome)).session = m.session
          /\ Agree(Observed(m, TurnCompleted(t, outcome)),
                   [e EXCEPT !.completed = TRUE, !.ended = TRUE], told)
      BY <2>4, <2>9, <3>1, TurnCompletedAgrees
    <3> QED BY <2>6, <3>1, <3>2, <3>3
  <2>12. s # current => n = lab /\ n \in Service
    BY <2>1, Types DEF Good, Fine, Heard, n
  <2>13. Fine(s, d, n, b, A, told)
    BY <2>1, <2>5, <2>10, <2>11, <2>12 DEF Good, Fine
  <2>14. Settles(s, d, b)
    BY <2>1, <2>5 DEF Good, Settles
  <2>15. d.attempted /\ (c.stopped => d.stopped) /\ d.blocked = c.blocked
    BY <2>4, <2>5
  <2> QED BY <2>3, <2>8, <2>13, <2>14, <2>15 DEF Good
<1> QED BY <1>2, <1>3

-----------------------------------------------------------------------------
(* run *)

\* A session whose run or stop is under way has begun, and stands.
LEMMA Stands ==
  ASSUME Inv, NEW s \in Session,
         ctx[s].run # "none" \/ ctx[s].stops # {} \/ ctx[s].close # "null"
           \/ \E k : <<s, k>> \in alive
  PROVE  /\ s <= current /\ ctx[s] \in Context /\ Fits(s, ctx[s])
         /\ Now = Left(s, ctx[s], lab, answered)
         /\ Good(s, ctx[s], lab, answered, alive, said[s])
<1>1. s <= current
  BY Begun
<1>2. Now = Left(s, ctx[s], lab, answered) /\ Good(s, ctx[s], lab, answered, alive, said[s])
  BY <1>1, StandsGood
<1> QED BY <1>1, <1>2, Types DEF Inv, InStep

LEMMA ThrowKeeps ==
  ASSUME Inv, NEW s \in Session, ctx[s].run # "none", Becomes(Throw(Now, s)), UNCHANGED rest
  PROVE  Inv' /\ CompletedStay
<1>1. /\ s <= current /\ Now = Left(s, ctx[s], lab, answered)
      /\ Good(s, ctx[s], lab, answered, alive, said[s])
  BY Stands
<1>2. PICK d, m : /\ Throw(Now, s) = Left(s, d, m, answered)
                  /\ Good(s, d, m, answered, alive, said[s])
  BY <1>1, GoodThrows
<1> QED BY <1>1, <1>2, RestKeeps

LEMMA ThrownSteps ==
  ASSUME Inv, NEW s \in Session,
         DiscoveryStuck(s) \/ RequestRejected(s) \/ TurnTimesOut(s)
  PROVE  Inv' /\ CompletedStay
<1>1. ctx[s].run # "none" /\ Becomes(Throw(Now, s)) /\ UNCHANGED rest
  BY DEF DiscoveryStuck, RequestRejected, TurnTimesOut, RpcStage
<1> QED BY <1>1, ThrowKeeps

LEMMA TurnEndedKeeps ==
  ASSUME Inv, NEW s \in Session, TurnEnded(s)
  PROVE  Inv' /\ CompletedStay
<1>1. ctx[s].run # "none" /\ Becomes(At(Now, s, "done")) /\ UNCHANGED rest
  BY DEF TurnEnded
<1>2. /\ s <= current /\ Now = Left(s, ctx[s], lab, answered)
      /\ Good(s, ctx[s], lab, answered, alive, said[s])
  BY <1>1, Stands
<1>3. /\ At(Now, s, "done") = Left(s, Going(ctx[s], "done"), lab, answered)
      /\ Good(s, Going(ctx[s], "done"), lab, answered, alive, said[s])
  BY <1>2, LeftAt, GoodDone
<1> QED BY <1>1, <1>2, <1>3, RestKeeps

\* An answer takes a session that was not stopped to its next request.
LEMMA GoodAsksNext ==
  ASSUME Inv, NEW s \in Session, NEW c, NEW l, NEW a, NEW A, NEW told,
         NEW stage \in {"config", "thread"},
         Good(s, c, l, a, A, told), c.run \in {"connect", "config"}, c.reply = "ok"
  PROVE  Good(s, Going(c, stage), l, a, A, told)
<1>1. c \in Context /\ Fits(s, c) /\ (s = current => Agree(l, c, told)) /\ stage \in RunStage
  BY DEF Good, Fine, RunStage, RpcStage
<1>2. Fits(s, Going(c, stage))
  BY <1>1, GoingFields DEF Fits, Early, RpcStage
<1>3. s = current => Agree(l, Going(c, stage), told)
  BY <1>1, GoingFields DEF Agree, Knows, Early, RpcStage
<1> QED BY <1>1, <1>2, <1>3, GoodAt

\* finishStartupStop
LEMMA GoodFinishes ==
  ASSUME Inv, NEW s \in Session, NEW c, NEW l, NEW a, NEW A, NEW told, NEW w,
         w = Left(s, c, l, a), Good(s, c, l, a, A, told),
         c.run \in Early, c.run # "previous", c.stopped
  PROVE  \E d, m : /\ CloseContext(At(w, s, "finish"), s) = Left(s, d, m, a)
                   /\ Good(s, d, m, a, A, told) /\ d \in Context /\ ~d.attempted
<1> DEFINE d == Going(c, "finish")
           v == At(w, s, "finish")
<1>1. c \in Context /\ Fits(s, c) /\ (s = current => Agree(l, c, told)) /\ "finish" \in RunStage
  BY DEF Good, Fine, RunStage
<1>2. Fits(s, d)
  BY <1>1, GoingFields DEF Fits, Early, RpcStage
<1>3. s = current => Agree(l, d, told)
  BY <1>1, GoingFields DEF Agree, Knows, Early
<1>4. v = Left(s, d, l, a) /\ Good(s, d, l, a, A, told)
  BY <1>1, <1>2, <1>3, GoodAt, LeftAt
<1>5. d.run \notin Early /\ d \in Context /\ ~d.attempted
  BY <1>1, GoingFields DEF Early, Fits
<1> HIDE DEF d, v
<1>6. PICK m : CloseContext(v, s) = Left(s, Closing(d), m, a) /\ Good(s, Closing(d), m, a, A, told)
  BY <1>4, <1>5, GoodCloses
<1>7. Closing(d) \in Context /\ ~Closing(d).attempted
  BY <1>5, <1>6 DEF Good, Fine, Closing, Context
<1> QED BY <1>6, <1>7 DEF v

LEMMA ConfiguredKeeps ==
  ASSUME Inv, NEW s \in Session, Configured(s)
  PROVE  Inv' /\ CompletedStay
<1> DEFINE c == ctx[s]
<1>1. /\ c.run = "config" /\ c.reply = "ok" /\ UNCHANGED rest
      /\ Becomes(IF c.stopped THEN CloseContext(At(Now, s, "finish"), s) ELSE At(Now, s, "thread"))
  BY DEF Configured, Unless
<1>2. /\ s <= current /\ Now = Left(s, c, lab, answered)
      /\ Good(s, c, lab, answered, alive, said[s])
  BY <1>1, Stands
<1> HIDE DEF c
<1>3. CASE c.stopped
  <2>1. PICK d, m : /\ CloseContext(At(Now, s, "finish"), s) = Left(s, d, m, answered)
                    /\ Good(s, d, m, answered, alive, said[s])
    BY <1>1, <1>2, <1>3, GoodFinishes DEF Early
  <2> QED BY <1>1, <1>2, <1>3, <2>1, RestKeeps
<1>4. CASE ~c.stopped
  <2>1. At(Now, s, "thread") = Left(s, Going(c, "thread"), lab, answered)
        /\ Good(s, Going(c, "thread"), lab, answered, alive, said[s])
    BY <1>1, <1>2, LeftAt, GoodAsksNext DEF Early
  <2> QED BY <1>1, <1>2, <1>4, <2>1, RestKeeps
<1> QED BY <1>3, <1>4

LEMMA ConnectedKeeps ==
  ASSUME Inv, NEW s \in Session, Connected(s)
  PROVE  Inv' /\ CompletedStay
<1> DEFINE c == ctx[s]
           v == Observe(Now, s, ChildIs("running"))
           l == Heard(lab, s, ChildIs("running"))
<1>1. /\ c.run = "connect" /\ c.reply = "ok" /\ UNCHANGED rest
      /\ Becomes(IF c.stopped THEN CloseContext(At(Now, s, "finish"), s) ELSE At(v, s, "config"))
  BY DEF Connected, Unless
<1>2. /\ s <= current /\ Now = Left(s, c, lab, answered)
      /\ Good(s, c, lab, answered, alive, said[s])
  BY <1>1, Stands
<1> HIDE DEF c
<1>3. CASE c.stopped
  <2>1. PICK d, m : /\ CloseContext(At(Now, s, "finish"), s) = Left(s, d, m, answered)
                    /\ Good(s, d, m, answered, alive, said[s])
    BY <1>1, <1>2, <1>3, GoodFinishes DEF Early
  <2> QED BY <1>1, <1>2, <1>3, <2>1, RestKeeps
<1>4. CASE ~c.stopped
  <2>1. /\ c \in Context /\ lab \in Service /\ c.conn # "none"
        /\ s = current => Agree(lab, c, said[s])
    BY <1>1, <1>2 DEF Good, Fine, RpcStage
  <2>2. v = Left(s, c, l, answered) /\ Good(s, c, l, answered, alive, said[s])
    BY <1>2, <2>1, RunningAgrees, GoodTold
  <2> HIDE DEF v, l
  <2>3. At(v, s, "config") = Left(s, Going(c, "config"), l, answered)
        /\ Good(s, Going(c, "config"), l, answered, alive, said[s])
    BY <1>1, <2>2, LeftAt, GoodAsksNext DEF Early
  <2> QED BY <1>1, <1>2, <1>4, <2>3, RestKeeps
<1> QED BY <1>3, <1>4

LEMMA DiscoveredKeeps ==
  ASSUME Inv, NEW s \in Session, Discovered(s)
  PROVE  Inv' /\ CompletedStay
<1> DEFINE c == ctx[s]
           e == Going(c, "closing")
           d == [e EXCEPT !.expectedClose = TRUE]
           v == At(Now, s, "closing")
           x == [v EXCEPT !.ctx[s] = d]
<1>1. /\ c.run = "discovery" /\ c.reply = "ok" /\ UNCHANGED rest
      /\ c.stopped => Becomes(CloseContext(At(Now, s, "finish"), s))
      /\ ~c.stopped => Becomes([v EXCEPT !.ctx[s].expectedClose = TRUE])
  BY DEF Discovered, Unless
<1>2. /\ s <= current /\ c \in Context /\ Fits(s, c) /\ Now = Left(s, c, lab, answered)
      /\ Good(s, c, lab, answered, alive, said[s])
  BY <1>1, Stands
<1>3. CASE c.stopped
  <2> HIDE DEF c
  <2>1. PICK b, m : /\ CloseContext(At(Now, s, "finish"), s) = Left(s, b, m, answered)
                    /\ Good(s, b, m, answered, alive, said[s])
    BY <1>1, <1>2, <1>3, GoodFinishes DEF Early
  <2> QED BY <1>1, <1>2, <1>3, <2>1, RestKeeps
<1>4. CASE ~c.stopped
  <2> HIDE DEF c
  <2>1. v = Left(s, e, lab, answered)
    BY <1>2, LeftAt
  <2>2. [v EXCEPT !.ctx[s].expectedClose = TRUE] = x
    <3> HIDE DEF e, v
    <3>1. v.ctx[s] = e
      BY <2>1, LeftFields
    <3> QED BY <3>1
  <2>3. e \in Context
    BY <1>2, GoingFields DEF RunStage
  <2>4. /\ d \in Context /\ d.run = e.run /\ d.reply = e.reply /\ d.stops = e.stops
        /\ d.asked = e.asked /\ d.stopped = e.stopped /\ d.blocked = e.blocked
        /\ d.conn = e.conn /\ d.attempted = e.attempted /\ d.turn = e.turn
        /\ d.started = e.started /\ d.completed = e.completed /\ d.pending = e.pending /\ d.safe = e.safe
        /\ d.close = e.close /\ d.expectedClose /\ d.fatal = e.fatal
    <3> HIDE DEF e
    <3> QED BY <2>3 DEF Context
  <2>5. /\ e.run = "closing" /\ e.reply = "waiting"
        /\ e.stops = c.stops /\ e.asked = c.asked /\ e.stopped = c.stopped
        /\ e.blocked = c.blocked /\ e.conn = c.conn /\ e.attempted = c.attempted
        /\ e.turn = c.turn /\ e.started = c.started /\ e.completed = c.completed
        /\ e.pending = c.pending /\ e.safe = c.safe /\ e.close = c.close /\ e.fatal = c.fatal
    BY <1>2, GoingFields DEF RunStage
  <2> HIDE DEF d, e, v
  <2>6. Fits(s, d)
    BY <1>1, <1>2, <2>4, <2>5 DEF Fits, Early, RpcStage
  <2>7. s = current => Agree(lab, d, said[s])
    BY <1>1, <1>2, <2>4, <2>5 DEF Good, Fine, Agree, Knows, Early, RpcStage
  <2>8. Good(s, d, lab, answered, alive, said[s])
    BY <1>1, <1>2, <2>4, <2>5, <2>6, <2>7, GoodPut
  <2>9. x = Left(s, d, lab, answered)
    BY <2>1, LeftFields
  <2> QED BY <1>1, <1>2, <1>4, <2>2, <2>8, <2>9, RestKeeps
<1> QED BY <1>3, <1>4

LEMMA StartupStopKeeps ==
  ASSUME Inv, NEW s \in Session, StartupStopFinished(s)
  PROVE  Inv' /\ CompletedStay
<1> DEFINE c == ctx[s]
           d == Going(c, "done")
           v == At(Now, s, "done")
           m == Heard(lab, s, Plain("stop-unconfirmed"))
<1>1. /\ c.run = "finish" /\ UNCHANGED rest
      /\ Becomes(IF c.close = "true" THEN EmitStartupStopped(v, s)
                 ELSE Observe(v, s, Plain("stop-unconfirmed")))
  BY DEF StartupStopFinished
<1>2. /\ s <= current /\ c \in Context /\ Fits(s, c) /\ Now = Left(s, c, lab, answered)
      /\ Good(s, c, lab, answered, alive, said[s])
  BY <1>1, Stands
<1> HIDE DEF c
<1>3. v = Left(s, d, lab, answered) /\ Good(s, d, lab, answered, alive, said[s])
  BY <1>2, LeftAt, GoodDone
<1>4. d \in Context /\ d.run \notin Early /\ ~d.attempted /\ d.stopped /\ ~d.blocked
  BY <1>1, <1>2, GoingFields DEF Fits, Early, RunStage
<1> HIDE DEF d, v
<1>5. CASE c.close = "true"
  <2>1. PICK b, n : /\ EmitStartupStopped(v, s) = Left(s, b, n, answered)
                    /\ Good(s, b, n, answered, alive, said[s])
    BY <1>3, <1>4, GoodEmits
  <2> QED BY <1>1, <1>2, <1>5, <2>1, RestKeeps
<1>6. CASE c.close # "true"
  <2>1. s = current => lab \in Service /\ Agree(lab, d, said[s])
    BY <1>3 DEF Good, Fine
  <2>2. /\ Observe(v, s, Plain("stop-unconfirmed")) = Left(s, d, m, answered)
        /\ Good(s, d, m, answered, alive, said[s])
    BY <1>3, <1>4, <2>1, UnknownAgrees, GoodTold
  <2> HIDE DEF m
  <2> QED BY <1>1, <1>2, <1>6, <2>2, RestKeeps
<1> QED BY <1>5, <1>6

LEMMA ThreadStartedKeeps ==
  ASSUME Inv, NEW s \in Session, ThreadStarted(s)
  PROVE  Inv' /\ CompletedStay
<1> DEFINE c == ctx[s]
           l == Heard(lab, s, Plain("thread-started"))
           v == Observe(Now, s, Plain("thread-started"))
           u == CloseContext(At(v, s, "finish"), s)
           e == Going(c, "turn")
           d == [e EXCEPT !.attempted = TRUE]
           w == At(v, s, "turn")
           x == [w EXCEPT !.ctx[s] = d]
<1>1. /\ c.run = "thread" /\ c.reply = "ok" /\ UNCHANGED rest
      /\ c.stopped => Becomes([u EXCEPT !.ctx[s].attempted = FALSE])
      /\ ~c.stopped => Becomes([w EXCEPT !.ctx[s].attempted = TRUE])
  BY DEF ThreadStarted, Unless
<1>2. /\ s <= current /\ c \in Context /\ Fits(s, c) /\ Now = Left(s, c, lab, answered)
      /\ Good(s, c, lab, answered, alive, said[s])
  BY <1>1, Stands
<1> HIDE DEF c
<1>3. s = current => LET n == Observed(lab, Plain("thread-started"))
                     IN /\ n \in Service /\ n.session = lab.session /\ Agree(n, c, said[s])
                        /\ ~c.stopped => Agree(n, [c EXCEPT !.run = "turn", !.reply = "waiting",
                                                            !.attempted = TRUE], said[s])
  <2>1. s = current => lab \in Service /\ Agree(lab, c, said[s])
    BY <1>2 DEF Good, Fine
  <2> QED BY <1>1, <1>2, <2>1, ThreadAgrees
<1>4. v = Left(s, c, l, answered) /\ Good(s, c, l, answered, alive, said[s])
  BY <1>2, <1>3, GoodTold
<1>5. CASE c.stopped
  <2> HIDE DEF l, v
  <2>1. PICK b, m : /\ u = Left(s, b, m, answered) /\ b \in Context /\ ~b.attempted
                    /\ Good(s, b, m, answered, alive, said[s])
    BY <1>1, <1>4, <1>5, GoodFinishes DEF Early
  <2>2. [u EXCEPT !.ctx[s].attempted = FALSE] = u
    <3>1. u.ctx[s] = b /\ \A f : [u EXCEPT !.ctx[s] = f] = Left(s, f, m, answered)
      BY <2>1, LeftFields
    <3> DEFINE f == [b EXCEPT !.attempted = FALSE]
    <3>2. [u EXCEPT !.ctx[s].attempted = FALSE] = [u EXCEPT !.ctx[s] = f]
      BY <3>1
    <3>3. f = b
      BY <2>1 DEF Context
    <3> HIDE DEF f, u
    <3> QED BY <2>1, <3>1, <3>2, <3>3
  <2> HIDE DEF u
  <2> QED BY <1>1, <1>2, <1>5, <2>1, <2>2, RestKeeps
<1>6. CASE ~c.stopped
  <2>1. w = Left(s, e, l, answered)
    BY <1>4, LeftAt
  <2>2. [w EXCEPT !.ctx[s].attempted = TRUE] = x
    <3> HIDE DEF e, w, l
    <3>1. w.ctx[s] = e
      BY <2>1, LeftFields
    <3> QED BY <3>1
  <2>3. s = current => Agree(l, d, said[s])
    <3>1. s = current => l = Observed(lab, Plain("thread-started"))
      BY Types DEF Heard
    <3>2. d = [c EXCEPT !.run = "turn", !.reply = "waiting", !.attempted = TRUE]
      BY DEF Going
    <3> HIDE DEF d, l
    <3> QED BY <1>3, <1>6, <3>1, <3>2
  <2>4. /\ e \in Context /\ e.run = "turn" /\ e.reply = "waiting"
        /\ e.stops = c.stops /\ e.asked = c.asked /\ e.stopped = c.stopped
        /\ e.blocked = c.blocked /\ e.conn = c.conn /\ e.attempted = c.attempted
        /\ e.turn = c.turn /\ e.started = c.started /\ e.completed = c.completed
        /\ e.pending = c.pending /\ e.safe = c.safe /\ e.close = c.close /\ e.fatal = c.fatal
        /\ e.expectedClose = c.expectedClose
    BY <1>2, GoingFields DEF RunStage, RpcStage
  <2> HIDE DEF e
  <2>5. /\ d \in Context /\ d.run = e.run /\ d.reply = e.reply /\ d.stops = e.stops
        /\ d.asked = e.asked /\ d.stopped = e.stopped /\ d.blocked = e.blocked
        /\ d.conn = e.conn /\ d.attempted /\ d.turn = e.turn
        /\ d.started = e.started /\ d.completed = e.completed /\ d.pending = e.pending /\ d.safe = e.safe
        /\ d.close = e.close /\ d.expectedClose = e.expectedClose /\ d.fatal = e.fatal
    BY <2>4 DEF Context
  <2> HIDE DEF d, l, w
  <2>6. Fits(s, d)
    BY <1>1, <1>2, <1>6, <2>4, <2>5 DEF Fits, Early, RpcStage
  <2>7. Good(s, d, l, answered, alive, said[s])
    BY <1>1, <1>4, <2>3, <2>4, <2>5, <2>6, GoodPut
  <2>8. x = Left(s, d, l, answered)
    BY <2>1, LeftFields
  <2> QED BY <1>1, <1>2, <1>6, <2>2, <2>7, <2>8, RestKeeps
<1> QED BY <1>5, <1>6

\* The session before has closed its child, so that this one is not held up.
LEMMA UnblockedFields ==
  ASSUME NEW c \in Context, NEW d, d = Unblocked(c)
  PROVE  /\ d \in Context /\ d.run = c.run /\ d.reply = c.reply /\ d.stops = c.stops
         /\ d.asked = c.asked /\ d.stopped = c.stopped /\ ~d.blocked
         /\ d.conn = c.conn /\ d.attempted = c.attempted /\ d.turn = c.turn
         /\ d.started = c.started /\ d.completed = c.completed /\ d.pending = c.pending /\ d.safe = c.safe
         /\ d.close = c.close /\ d.expectedClose = c.expectedClose /\ d.fatal = c.fatal
  BY DEF Unblocked, Context

LEMMA GoodUnblocks ==
  ASSUME Inv, NEW s \in Session, NEW c, NEW l, NEW a, NEW told,
         Good(s, c, l, a, alive, told), s - 1 \in Session => ctx[s - 1].close = "true"
  PROVE  Good(s, Unblocked(c), l, a, alive, told)
<1> DEFINE d == Unblocked(c)
<1>1. c \in Context /\ Fits(s, c) /\ (s = current => Agree(l, c, told))
  BY DEF Good, Fine
<1>2. /\ d \in Context /\ d.run = c.run /\ d.reply = c.reply /\ d.stops = c.stops
      /\ d.asked = c.asked /\ d.stopped = c.stopped /\ ~d.blocked
      /\ d.conn = c.conn /\ d.attempted = c.attempted /\ d.turn = c.turn
      /\ d.started = c.started /\ d.completed = c.completed /\ d.pending = c.pending /\ d.safe = c.safe
      /\ d.close = c.close /\ d.expectedClose = c.expectedClose /\ d.fatal = c.fatal
  BY <1>1, UnblockedFields
<1> HIDE DEF d
<1>3. Fits(s, d)
  BY <1>1, <1>2 DEF Fits
<1>4. s = current => Agree(l, d, told)
  BY <1>1, <1>2 DEF Agree, Knows
<1>5. s = current => \A child \in alive : child[1] = s
  <2> SUFFICES ASSUME s = current, NEW child \in alive PROVE child[1] = s
    OBVIOUS
  <2>1. /\ child[1] \in Session /\ child[1] <= current /\ ctx[child[1]].close # "true"
        /\ child[1] < current => child[1] = current - 1
    BY DEF Inv, InStep, ChildrenAreHeld, TypeOK
  <2> QED BY <2>1, Types
<1>6. Good(s, d, l, a, alive, told)
  BY <1>2, <1>3, <1>4, <1>5 DEF Good, Fine, Settles
<1> QED BY <1>6 DEF d

LEMMA LeftUnblocked ==
  ASSUME Inv, NEW s \in Session, NEW c, NEW l, NEW a, NEW w, w = Left(s, c, l, a)
  PROVE  [w EXCEPT !.ctx[s].blocked = FALSE] = Left(s, Unblocked(c), l, a)
<1> DEFINE d == Unblocked(c)
<1>1. w.ctx[s] = c
  BY LeftFields
<1>2. [w EXCEPT !.ctx[s].blocked = FALSE] = [w EXCEPT !.ctx[s] = d]
  BY <1>1 DEF Unblocked
<1> HIDE DEF d
<1>3. [w EXCEPT !.ctx[s] = d] = Left(s, d, l, a)
  BY LeftFields
<1> QED BY <1>2, <1>3 DEF d

\* What can be told of a session that has no turn: nothing went well.
LEMMA NotOver ==
  ASSUME NEW l \in Service, NEW c \in Context, NEW told, Agree(l, c, told), ~c.completed
  PROVE  l.status \notin Terminal \ {"stopped"}
<1>1. l.turnStatus \notin Outcome
  BY DEF Agree, Knows
<1>2. l.turnStatus \in Outcome \cup {"not-started", "inProgress", "unknown"}
  BY DEF Service
<1> QED BY <1>1, <1>2 DEF Agree, Reported, Outcome, Terminal

LEMMA PreviousClosedKeeps ==
  ASSUME Inv, NEW s \in Session, PreviousClosed(s)
  PROVE  Inv' /\ CompletedStay
<1> DEFINE c == ctx[s]
           d == Unblocked(c)
           u == [Now EXCEPT !.ctx[s].blocked = FALSE]
           v == At(Now, s, "done")
           w == Observe(v, s, Plain("protocol-failure"))
<1>1. /\ c.run = "previous" /\ UNCHANGED rest /\ ctx[s - 1].close \in {"true", "false"}
      /\ ctx[s - 1].close = "false" => Becomes(Observe(w, s, ChildIs("unknown")))
      /\ ctx[s - 1].close # "false" /\ c.stopped =>
           Becomes(EmitStartupStopped(At(u, s, "done"), s))
      /\ ctx[s - 1].close # "false" /\ ~c.stopped => Becomes(At(u, s, "files"))
  BY DEF PreviousClosed, RunDue, RpcStage
<1>2. /\ s <= current /\ c \in Context /\ Fits(s, c) /\ Now = Left(s, c, lab, answered)
      /\ Good(s, c, lab, answered, alive, said[s])
  BY <1>1, Stands
<1>3. c.conn = "none" /\ ~c.attempted /\ ~c.completed
  BY <1>1, <1>2 DEF Fits
<1> HIDE DEF c
<1>4. CASE ctx[s - 1].close = "false"
  <2> DEFINE e == Going(c, "done")
             m == Heard(lab, s, Plain("protocol-failure"))
             n == Heard(m, s, ChildIs("unknown"))
  <2>1. v = Left(s, e, lab, answered) /\ Good(s, e, lab, answered, alive, said[s])
    BY <1>2, LeftAt, GoodDone
  <2>2. e \in Context /\ e.run \notin Early /\ ~e.completed
    BY <1>2, <1>3, GoingFields DEF Early, RunStage
  <2> HIDE DEF e, v
  <2>3. s = current => lab \in Service /\ Agree(lab, e, said[s])
    BY <2>1 DEF Good, Fine
  <2>4. w = Left(s, e, m, answered) /\ Good(s, e, m, answered, alive, said[s])
    BY <2>1, <2>2, <2>3, UnknownAgrees, GoodTold
  <2> HIDE DEF m, w
  <2>5. s = current => m \in Service /\ Agree(m, e, said[s]) /\ (~e.blocked \/ m.child # "closed")
    BY <2>4 DEF Good, Fine, Agree, Knows
  <2>6. Observe(w, s, ChildIs("unknown")) = Left(s, e, n, answered)
        /\ Good(s, e, n, answered, alive, said[s])
    BY <2>2, <2>4, <2>5, ChildUnknownAgrees, GoodTold
  <2> HIDE DEF n
  <2> QED BY <1>1, <1>2, <1>4, <2>6, RestKeeps
<1>5. CASE ctx[s - 1].close # "false"
  <2>1. u = Left(s, d, lab, answered) /\ Good(s, d, lab, answered, alive, said[s])
    BY <1>1, <1>2, <1>5, LeftUnblocked, GoodUnblocks
  <2>2. /\ d \in Context /\ d.run = "previous" /\ d.reply = c.reply /\ d.stops = c.stops
        /\ d.asked = c.asked /\ d.stopped = c.stopped /\ ~d.blocked
        /\ d.conn = c.conn /\ d.attempted = c.attempted /\ d.turn = c.turn
        /\ d.started = c.started /\ d.completed = c.completed /\ d.pending = c.pending /\ d.safe = c.safe
        /\ d.close = c.close /\ d.expectedClose = c.expectedClose /\ d.fatal = c.fatal
    BY <1>1, <1>2, UnblockedFields
  <2> HIDE DEF d, u
  <2>3. CASE c.stopped
    <3> DEFINE e == Going(d, "done")
               x == At(u, s, "done")
    <3>1. x = Left(s, e, lab, answered) /\ Good(s, e, lab, answered, alive, said[s])
      BY <2>1, LeftAt, GoodDone
    <3>2. e.attempted = d.attempted /\ e.stopped = d.stopped /\ e.blocked = d.blocked
      BY <2>2, GoingFields DEF RunStage
    <3>4. ~d.attempted /\ d.stopped /\ ~d.blocked
      BY <1>3, <2>2, <2>3
    <3> HIDE DEF e, x
    <3>5. ~e.attempted /\ e.stopped /\ ~e.blocked
      BY <3>2, <3>4
    <3>3. PICK b, m : /\ EmitStartupStopped(x, s) = Left(s, b, m, answered)
                      /\ Good(s, b, m, answered, alive, said[s])
      BY <3>1, <3>5, GoodEmits
    <3> QED BY <1>1, <1>2, <1>5, <2>3, <3>3, RestKeeps DEF x
  <2>4. CASE ~c.stopped
    <3> DEFINE e == Going(d, "files")
    <3>1. At(u, s, "files") = Left(s, e, lab, answered)
      BY <2>1, LeftAt
    <3>2. Fits(s, d) /\ (s = current => Agree(lab, d, said[s])) /\ "files" \in RunStage
      BY <2>1 DEF Good, Fine, RunStage
    <3>3. Fits(s, e)
      BY <1>3, <2>2, <3>2, GoingFields DEF Fits, Early, RpcStage
    <3>4. s = current => Agree(lab, e, said[s])
      BY <2>2, <3>2, GoingFields DEF Agree, Knows, Early, RpcStage
    <3>5. Good(s, e, lab, answered, alive, said[s])
      BY <2>1, <3>2, <3>3, <3>4, GoodAt
    <3> HIDE DEF e
    <3> QED BY <1>1, <1>2, <1>5, <2>4, <3>1, <3>5, RestKeeps
  <2> QED BY <2>3, <2>4
<1> QED BY <1>4, <1>5

\* A child is spawned for the current session, before which no other is left.
LEMMA GoodSpawns ==
  ASSUME Inv, NEW s \in Session, NEW c, NEW l, NEW a, NEW told, NEW d \in Context,
         NEW kind \in {"discovery", "main"},
         s <= current, Good(s, c, l, a, alive, told), c.conn = "none" \/ \A k : <<s, k>> \notin alive,
         c.run \in Early, ~c.stopped, ~c.blocked,
         Fits(s, d), d.run # "none", d.reply = "waiting", d.close = c.close, d.conn = kind,
         ~d.blocked, d.pending = c.pending, d.safe = c.safe, d.completed = c.completed,
         Agree(l, c, told) => Agree(l, d, told)
  PROVE  /\ s = current
         /\ Good(s, d, l, a, alive \cup {<<s, kind>>}, told)
<1>1. /\ c \in Context /\ Fits(s, c) /\ (s < current => c.close # "null")
      /\ alive \subseteq Session \X {"discovery", "main"}
      /\ \A k : <<s, k>> \in alive => c.conn = k
      /\ s = current => (\A child \in alive : child[1] = s) /\ Agree(l, c, told)
      /\ ctx[s].completed => c.completed
  BY DEF Good, Fine
<1>2. c.close = "null"
  BY <1>1 DEF Fits
<1>3. \A k : <<s, k>> \notin alive
  BY <1>1
<1>4. s = current
  BY <1>1, <1>2, Types
<1>5. \A k : <<s, k>> \in alive \cup {<<s, kind>>} => d.conn = k /\ d.close # "true"
  BY <1>2, <1>3
<1>6. alive \cup {<<s, kind>>} \subseteq Session \X {"discovery", "main"}
  BY <1>1
<1>7. Fine(s, d, l, a, alive \cup {<<s, kind>>}, told)
  BY <1>1, <1>4, <1>5, <1>6 DEF Good, Fine
<1> QED BY <1>4, <1>7 DEF Good, Settles

LEMMA SpawnKeeps ==
  ASSUME Inv, NEW s \in Session, s = current, NEW w, Becomes(w), NEW c, NEW l, NEW a, NEW kind,
         w = Left(s, c, l, a), Good(s, c, l, a, alive \cup {<<s, kind>>}, said[s]),
         alive' = alive \cup {<<s, kind>>}, UNCHANGED <<current, failed, requested, said>>
  PROVE  Inv' /\ CompletedStay
<1>1. /\ said' = [said EXCEPT ![s] = said[s]] /\ said[s] \in SUBSET Outcome
      /\ s <= current /\ ~(s < current)
      /\ failed' \subseteq Session \X {"discovery", "main"}
  BY Types DEF Inv, TypeOK
<1>2. Good(s, c, l, a, alive', said[s])
  OBVIOUS
<1>3. \A t \in Session \ {s} : \A k : <<t, k>> \in alive' <=> <<t, k>> \in alive
  OBVIOUS
<1> QED BY <1>1, <1>2, <1>3, GoodKeeps

LEMMA FilesWrittenKeeps ==
  ASSUME Inv, NEW s \in Session, FilesWritten(s)
  PROVE  Inv' /\ CompletedStay
<1> DEFINE c == ctx[s]
           e == Going(c, "done")
           v == At(Now, s, "done")
           f == Going(c, "discovery")
           d == [f EXCEPT !.conn = "discovery"]
           u == At(Now, s, "discovery")
           x == [u EXCEPT !.ctx[s] = d]
<1>1. /\ c.run = "files" /\ UNCHANGED <<current, failed, requested, said>>
      /\ \/ Becomes(Throw(Now, s)) /\ UNCHANGED alive
         \/ c.stopped /\ Becomes(EmitStartupStopped(v, s)) /\ UNCHANGED alive
         \/ /\ ~c.stopped /\ Becomes([u EXCEPT !.ctx[s].conn = "discovery"])
            /\ alive' = alive \cup {<<s, "discovery">>}
  BY DEF FilesWritten
<1>2. /\ s <= current /\ c \in Context /\ Fits(s, c) /\ Now = Left(s, c, lab, answered)
      /\ Good(s, c, lab, answered, alive, said[s])
  BY <1>1, Stands
<1>3. CASE Becomes(Throw(Now, s)) /\ UNCHANGED alive
  BY <1>1, <1>3, ThrowKeeps DEF rest
<1> HIDE DEF c
<1>4. CASE c.stopped /\ Becomes(EmitStartupStopped(v, s)) /\ UNCHANGED alive
  <2>1. v = Left(s, e, lab, answered) /\ Good(s, e, lab, answered, alive, said[s])
    BY <1>2, LeftAt, GoodDone
  <2>2. e.attempted = c.attempted /\ e.stopped = c.stopped /\ e.blocked = c.blocked
    BY <1>2, GoingFields DEF RunStage
  <2> HIDE DEF e, v
  <2>3. ~e.attempted /\ e.stopped /\ ~e.blocked
    BY <1>1, <1>2, <1>4, <2>2 DEF Fits, Early
  <2>4. PICK b, m : /\ EmitStartupStopped(v, s) = Left(s, b, m, answered)
                    /\ Good(s, b, m, answered, alive, said[s])
    BY <2>1, <2>3, GoodEmits
  <2>5. UNCHANGED rest
    BY <1>1, <1>4 DEF rest
  <2> QED BY <1>2, <1>4, <2>4, <2>5, RestKeeps
<1>5. CASE /\ ~c.stopped /\ Becomes([u EXCEPT !.ctx[s].conn = "discovery"])
           /\ alive' = alive \cup {<<s, "discovery">>}
  <2>1. u = Left(s, f, lab, answered)
    BY <1>2, LeftAt
  <2>2. /\ f \in Context /\ f.run = "discovery" /\ f.reply = "waiting"
        /\ f.stops = c.stops /\ f.asked = c.asked /\ f.stopped = c.stopped
        /\ f.blocked = c.blocked /\ f.conn = c.conn /\ f.attempted = c.attempted
        /\ f.turn = c.turn /\ f.started = c.started /\ f.completed = c.completed
        /\ f.pending = c.pending /\ f.safe = c.safe /\ f.close = c.close /\ f.fatal = c.fatal
        /\ f.expectedClose = c.expectedClose
    BY <1>2, GoingFields DEF RunStage, RpcStage
  <2> HIDE DEF f, u
  <2>3. [u EXCEPT !.ctx[s].conn = "discovery"] = x
    <3>1. u.ctx[s] = f
      BY <2>1, LeftFields
    <3> QED BY <3>1
  <2>4. /\ d \in Context /\ d.run = "discovery" /\ d.reply = "waiting" /\ d.conn = "discovery"
        /\ d.stops = f.stops /\ d.asked = f.asked /\ d.stopped = f.stopped
        /\ d.blocked = f.blocked /\ d.attempted = f.attempted
        /\ d.turn = f.turn /\ d.started = f.started /\ d.completed = f.completed
        /\ d.pending = f.pending /\ d.safe = f.safe /\ d.close = f.close /\ d.fatal = f.fatal
        /\ d.expectedClose = f.expectedClose
    BY <2>2 DEF Context
  <2> HIDE DEF d
  <2>5. c.conn = "none" /\ ~c.blocked /\ ~c.attempted /\ ~d.blocked /\ c.run \in Early
    BY <1>1, <1>2, <2>2, <2>4 DEF Fits, Early
  <2>6. Fits(s, d)
    BY <1>1, <1>2, <1>5, <2>2, <2>4, <2>5 DEF Fits, Early, RpcStage
  <2>7. Agree(lab, c, said[s]) => Agree(lab, d, said[s])
    BY <1>1, <1>5, <2>2, <2>4 DEF Agree, Knows, Early, RpcStage
  <2>8. /\ s = current
        /\ Good(s, d, lab, answered, alive \cup {<<s, "discovery">>}, said[s])
    BY ZenonT(60), <1>2, <1>5, <2>2, <2>4, <2>5, <2>6, <2>7, GoodSpawns
  <2>9. x = Left(s, d, lab, answered)
    BY <2>1, LeftFields
  <2> HIDE DEF x
  <2> QED BY <1>1, <1>5, <2>3, <2>8, <2>9, SpawnKeeps
<1> QED BY <1>1, <1>3, <1>4, <1>5

LEMMA DiscoveryClosedKeeps ==
  ASSUME Inv, NEW s \in Session, DiscoveryClosed(s)
  PROVE  Inv' /\ CompletedStay
<1> DEFINE c == ctx[s]
           q == IF c.conn = "discovery" THEN "none" ELSE c.conn
           y == c.expectedClose /\ (c.stopped \/ c.fatal)
           d == [c EXCEPT !.expectedClose = y, !.conn = q]
           v == [Now EXCEPT !.ctx[s] = d]
           f == Going(d, "connect")
           u == At(v, s, "connect")
           e == [f EXCEPT !.conn = "main"]
           x == [u EXCEPT !.ctx[s] = e]
<1>1. /\ c.run = "closing" /\ <<s, "discovery">> \notin alive
      /\ UNCHANGED <<current, failed, requested, said>>
  BY ZenonT(60) DEF DiscoveryClosed, RunDue, RpcStage
<1>2. /\ s <= current /\ c \in Context /\ Fits(s, c) /\ Now = Left(s, c, lab, answered)
      /\ Good(s, c, lab, answered, alive, said[s])
  BY <1>1, Stands
<1> DEFINE g == [Now EXCEPT !.ctx[s].expectedClose = @ /\ (c.stopped \/ c.fatal),
                            !.ctx[s].conn = IF @ = "discovery" THEN "none" ELSE @]
<1>3. g = v
  <2>1. Now.ctx[s] = c
    BY DEF Now
  <2> HIDE DEF c
  <2> QED BY ZenonT(60), <2>1, <1>2, Types DEF Now
<1>d. /\ c.stopped => Becomes(Throw(g, s)) /\ UNCHANGED alive
      /\ ~c.stopped => /\ Becomes([At(g, s, "connect") EXCEPT !.ctx[s].conn = "main"])
                       /\ alive' = alive \cup {<<s, "main">>}
  BY ZenonT(60) DEF DiscoveryClosed, Unless
<1>4. /\ c.stopped => Becomes(Throw(v, s)) /\ UNCHANGED alive
      /\ ~c.stopped => /\ Becomes([u EXCEPT !.ctx[s].conn = "main"])
                       /\ alive' = alive \cup {<<s, "main">>}
  <2> HIDE DEF g, v
  <2> QED BY <1>3, <1>d
<1> HIDE DEF c, g
<1>5. /\ q \in {"none", "discovery", "main"} /\ q # "main" /\ q = "none" /\ y \in BOOLEAN
      /\ \A k : <<s, k>> \notin alive
  <2>1. c.conn # "main" /\ c.conn \in {"none", "discovery", "main"}
        /\ c.expectedClose \in BOOLEAN /\ c.stopped \in BOOLEAN /\ c.fatal \in BOOLEAN
    BY <1>1, <1>2 DEF Fits, Context
  <2>2. \A k : <<s, k>> \in alive => c.conn = k /\ k \in {"discovery", "main"}
    BY <1>2 DEF Good, Fine
  <2> QED BY <1>1, <2>1, <2>2
<1>6. c.stopped => y
  BY <1>1, <1>2 DEF Fits
<1> HIDE DEF q, y
<1>7. /\ d \in Context /\ d.run = "closing" /\ d.reply = c.reply /\ d.conn = "none"
      /\ d.stops = c.stops /\ d.asked = c.asked /\ d.stopped = c.stopped
      /\ d.blocked = c.blocked /\ d.attempted = c.attempted
      /\ d.turn = c.turn /\ d.started = c.started /\ d.completed = c.completed
      /\ d.pending = c.pending /\ d.safe = c.safe /\ d.close = c.close /\ d.fatal = c.fatal
      /\ d.expectedClose = y
  BY ZenonT(60), <1>1, <1>2, <1>5 DEF Context
<1> HIDE DEF d
<1>8. v = Left(s, d, lab, answered)
  BY <1>2, LeftFields
<1>9. ~c.attempted /\ ~c.completed /\ ~c.blocked /\ c.run \in Early /\ ~d.attempted /\ ~d.blocked
  BY <1>1, <1>2, <1>7 DEF Fits, Early
<1> HIDE DEF v
<1>10. CASE c.stopped
  <2>1. Fits(s, d)
    BY <1>1, <1>2, <1>6, <1>7, <1>10 DEF Fits, Early
  <2>2. s = current => Agree(lab, d, said[s])
    <3> SUFFICES ASSUME s = current PROVE Agree(lab, d, said[s])
      OBVIOUS
    <3>1. lab \in Service /\ Agree(lab, c, said[s])
      BY <1>2 DEF Good, Fine
    <3>2. lab.status \notin Terminal \ {"stopped"}
      BY <1>2, <1>9, <3>1, NotOver
    <3> QED BY <1>1, <1>7, <3>1, <3>2 DEF Agree, Knows, Early
  <2>3. Good(s, d, lab, answered, alive, said[s])
    BY <1>2, <1>5, <1>7, <2>1, <2>2 DEF Good, Fine, Settles, RpcStage
  <2>4. PICK b, m : /\ Throw(v, s) = Left(s, b, m, answered)
                    /\ Good(s, b, m, answered, alive, said[s])
    BY <1>8, <2>3, GoodThrows
  <2>5. UNCHANGED rest
    BY <1>1, <1>4, <1>10 DEF rest
  <2> QED BY <1>2, <1>4, <1>10, <2>4, <2>5, RestKeeps
<1>11. CASE ~c.stopped
  <2>1. u = Left(s, f, lab, answered)
    BY <1>8, LeftAt
  <2>2. /\ f \in Context /\ f.run = "connect" /\ f.reply = "waiting"
        /\ f.stops = d.stops /\ f.asked = d.asked /\ f.stopped = d.stopped
        /\ f.blocked = d.blocked /\ f.attempted = d.attempted
        /\ f.turn = d.turn /\ f.started = d.started /\ f.completed = d.completed
        /\ f.pending = d.pending /\ f.safe = d.safe /\ f.close = d.close /\ f.fatal = d.fatal
        /\ f.expectedClose = d.expectedClose
    BY <1>7, GoingFields DEF RunStage, RpcStage
  <2> HIDE DEF f, u
  <2>3. [u EXCEPT !.ctx[s].conn = "main"] = x
    <3>1. u.ctx[s] = f
      BY <2>1, LeftFields
    <3> QED BY <3>1
  <2>4. /\ e \in Context /\ e.run = "connect" /\ e.reply = "waiting" /\ e.conn = "main"
        /\ e.stops = f.stops /\ e.asked = f.asked /\ e.stopped = f.stopped
        /\ e.blocked = f.blocked /\ e.attempted = f.attempted
        /\ e.turn = f.turn /\ e.started = f.started /\ e.completed = f.completed
        /\ e.pending = f.pending /\ e.safe = f.safe /\ e.close = f.close /\ e.fatal = f.fatal
        /\ e.expectedClose = f.expectedClose
    BY <2>2 DEF Context
  <2> HIDE DEF e
  <2>5. c.close = "null" /\ ~c.fatal /\ ~e.blocked /\ ~e.attempted
    BY <1>1, <1>2, <1>7, <1>9, <1>11, <2>2, <2>4 DEF Fits, RpcStage
  <2>6. Fits(s, e)
    BY <1>1, <1>2, <1>7, <1>9, <1>11, <2>2, <2>4, <2>5 DEF Fits, Early, RpcStage
  <2>7. Agree(lab, c, said[s]) => Agree(lab, e, said[s])
    BY <1>1, <1>7, <1>9, <1>11, <2>2, <2>4 DEF Agree, Knows, Early, RpcStage
  <2>8. /\ s = current
        /\ Good(s, e, lab, answered, alive \cup {<<s, "main">>}, said[s])
    BY ZenonT(60), <1>2, <1>5, <1>7, <1>9, <1>11, <2>2, <2>4, <2>5, <2>6, <2>7, GoodSpawns
  <2>9. x = Left(s, e, lab, answered)
    BY <2>1, LeftFields
  <2> HIDE DEF x
  <2> QED BY <1>1, <1>4, <1>11, <2>3, <2>8, <2>9, SpawnKeeps
<1> QED BY <1>10, <1>11

LEMMA StartingFields ==
  ASSUME NEW c \in Context, NEW t \in Turns, NEW d, d = Starting(c, t)
  PROVE  /\ d \in Context /\ d.run = c.run /\ d.reply = c.reply /\ d.stops = c.stops
         /\ d.asked = c.asked /\ d.stopped = c.stopped /\ d.blocked = c.blocked
         /\ d.conn = c.conn /\ d.attempted = c.attempted /\ d.turn = t
         /\ d.started /\ d.completed = c.completed /\ d.pending = c.pending /\ d.safe = c.safe
         /\ d.close = c.close /\ d.expectedClose = c.expectedClose /\ d.fatal = c.fatal
  BY DEF Starting, Context

\* The turn of a session is known; the service is told unless it was before.
LEMMA GoodStarts ==
  ASSUME Inv, NEW s \in Session, NEW c, NEW l, NEW a, NEW A, NEW told, NEW t \in Turns,
         Good(s, c, l, a, A, told), c.attempted, c.turn \in {NoTurn, t}
  PROVE  /\ c.started \/ c.stopped \/ c.completed => Good(s, Starting(c, t), l, a, A, told)
         /\ ~c.stopped /\ ~c.completed =>
              Good(s, Starting(c, t), Heard(l, s, TurnStarted(t)), a, A, told)
<1> DEFINE d == Starting(c, t)
           m == Heard(l, s, TurnStarted(t))
<1>1. d = Starting(c, t)
  OBVIOUS
<1>4. d = [c EXCEPT !.turn = t, !.started = TRUE]
  BY DEF Starting
<1>2. c \in Context /\ Fits(s, c) /\ c.run # "none" /\ (s = current => Agree(l, c, told))
      /\ l \in Service
  BY DEF Good, Fine
<1> HIDE DEF d
<1>3. /\ d \in Context /\ d.run = c.run /\ d.reply = c.reply /\ d.stops = c.stops
      /\ d.asked = c.asked /\ d.stopped = c.stopped /\ d.blocked = c.blocked
      /\ d.conn = c.conn /\ d.attempted = c.attempted /\ d.turn = t
      /\ d.started /\ d.completed = c.completed /\ d.pending = c.pending /\ d.safe = c.safe
      /\ d.close = c.close /\ d.expectedClose = c.expectedClose /\ d.fatal = c.fatal
  BY <1>2, <1>4 DEF Context
<1>5. Fits(s, d)
  BY <1>2, <1>3 DEF Fits
<1>6. ASSUME c.started \/ c.stopped \/ c.completed PROVE Good(s, d, l, a, A, told)
  <2>1. s = current => Agree(l, d, told)
    BY <1>2, <1>3, <1>6, StatusKinds DEF Agree, Knows
  <2>2. Good(s, d, l, a, A, told)
    BY <1>2, <1>3, <1>5, <2>1, GoodPut
  <2> QED BY <2>2
<1>7. ASSUME ~c.stopped, ~c.completed PROVE Good(s, d, m, a, A, told)
  <2>1. s = current => /\ Observed(l, TurnStarted(t)) \in Service
                       /\ Observed(l, TurnStarted(t)).session = l.session
                       /\ Agree(Observed(l, TurnStarted(t)), d, told)
    BY <1>2, <1>4, <1>7, TurnStartedAgrees
  <2>2. s = current => m \in Service /\ m.session = s /\ Agree(m, d, told)
    BY <2>1 DEF Good, Fine, Heard
  <2>3. s # current => m = lab /\ m \in Service
    BY Types DEF Good, Fine, Heard
  <2> HIDE DEF m
  <2>4. Good(s, d, m, a, A, told)
    BY <1>3, <1>5, <2>2, <2>3 DEF Good, Fine, Settles
  <2> QED BY <2>4
<1> QED BY <1>6, <1>7 DEF d

\* run waits for the end of the turn.
LEMMA GoodWaits ==
  ASSUME Inv, NEW s \in Session, NEW c, NEW l, NEW a, NEW A, NEW told,
         NEW stage \in {"wait", "drain"}, Good(s, c, l, a, A, told), c.attempted
  PROVE  Good(s, Going(c, stage), l, a, A, told)
<1>1. c \in Context /\ Fits(s, c) /\ (s = current => Agree(l, c, told)) /\ stage \in RunStage
  BY DEF Good, Fine, RunStage
<1>2. Fits(s, Going(c, stage))
  BY <1>1, GoingFields DEF Fits, Early
<1>3. s = current => Agree(l, Going(c, stage), told)
  BY <1>1, GoingFields DEF Agree, Knows, Early
<1> QED BY <1>1, <1>2, <1>3, GoodAt

LEMMA TurnAnsweredKeeps ==
  ASSUME Inv, NEW s \in Session, TurnAnswered(s)
  PROVE  Inv' /\ CompletedStay
<1> DEFINE c == ctx[s]
           v(t) == [Now EXCEPT !.ctx[s].turn = t, !.ctx[s].started = TRUE]
           u(t) == IF c.started \/ c.stopped \/ c.completed THEN v(t)
                   ELSE Observe(v(t), s, TurnStarted(t))
           w(t, outcome, sent) ==
             IF outcome = "inProgress" THEN u(t) ELSE OnTurnCompleted(u(t), s, t, outcome, sent)
           stage(x) == IF x.ctx[s].completed THEN "done"
                       ELSE IF c.stopped THEN "drain" ELSE "wait"
           told(outcome) == said[s] \cup ({outcome} \cap Outcome)
<1>1. PICK t \in Turns, outcome \in Outcome \cup {"inProgress"}, sent \in Sends(s) :
        /\ IF c.turn \notin {NoTurn, t} THEN Becomes(Throw(Now, s))
           ELSE Becomes(At(w(t, outcome, sent), s, stage(w(t, outcome, sent))))
        /\ said' = [said EXCEPT ![s] = @ \cup ({outcome} \cap Outcome)]
  BY ZenonT(60) DEF TurnAnswered
<1>2. /\ c.run = "turn" /\ c.reply = "ok" /\ UNCHANGED <<current, alive, failed, requested>>
  BY DEF TurnAnswered
<1>3. /\ s <= current /\ c \in Context /\ Fits(s, c) /\ Now = Left(s, c, lab, answered)
  BY <1>2, Stands
<1> DEFINE q == told(outcome)
<1>4. Good(s, c, lab, answered, alive, q)
  BY <1>3, StandsGood
<1>5. /\ said' = [said EXCEPT ![s] = q] /\ q \in SUBSET Outcome /\ sent \in BOOLEAN
      /\ failed' \subseteq Session \X {"discovery", "main"}
      /\ outcome \in Outcome => outcome \in q
  BY <1>1, <1>2, Types DEF Sends, Inv, TypeOK
<1>6. ASSUME NEW d, NEW m, NEW b, NEW x, x = Left(s, d, m, b), Good(s, d, m, b, alive, q), Becomes(x)
      PROVE  Inv' /\ CompletedStay
  <2> HIDE DEF q, c
  <2>1. alive' = alive /\ current' = current /\ requested' = requested
    BY <1>2
  <2>2. /\ Good(s, d, m, b, alive', q) /\ (s < current => alive' \subseteq alive)
        /\ \A t1 \in Session \ {s} : \A k : <<t1, k>> \in alive' <=> <<t1, k>> \in alive
    BY <1>6, <2>1
  <2> QED BY <1>3, <1>5, <1>6, <2>1, <2>2, GoodKeeps
<1>7. CASE c.turn \notin {NoTurn, t}
  <2> HIDE DEF q, c
  <2>1. PICK d, m : /\ Throw(Now, s) = Left(s, d, m, answered)
                    /\ Good(s, d, m, answered, alive, q)
    BY <1>3, <1>4, GoodThrows
  <2> QED BY <1>1, <1>6, <1>7, <2>1
<1>8. CASE c.turn \in {NoTurn, t}
  <2> DEFINE d == Starting(c, t)
             y == u(t)
             z == w(t, outcome, sent)
             g == stage(z)
  <2>1. Becomes(At(z, s, g)) /\ g \in {"done", "drain", "wait"}
    BY <1>1, <1>8
  <2>2. c.attempted /\ c.conn # "none"
    BY <1>2, <1>3, <1>4 DEF Fits, Good, Fine, RpcStage
  <2>3. /\ c.started \/ c.stopped \/ c.completed => y = v(t)
        /\ ~(c.started \/ c.stopped \/ c.completed) => y = Observe(v(t), s, TurnStarted(t))
        /\ outcome # "inProgress" => outcome \in Outcome /\ z = OnTurnCompleted(y, s, t, outcome, sent)
        /\ outcome = "inProgress" => z = y
    OBVIOUS
  <2>4. /\ v(t) = Left(s, d, lab, answered)
        /\ Observe(v(t), s, TurnStarted(t)) = Left(s, d, Heard(lab, s, TurnStarted(t)), answered)
    <3>1. Now.ctx[s] = c
      BY DEF Now
    <3>2. v(t) = [Now EXCEPT !.ctx[s] = d]
      BY <3>1 DEF Starting
    <3> HIDE DEF c, d, v
    <3>3. v(t) = Left(s, d, lab, answered)
      BY <1>3, <3>2, LeftFields
    <3> QED BY <3>3, LeftObserve
  <2> HIDE DEF q, c, d, v, y, z, g
  <2>5. \E m : y = Left(s, d, m, answered) /\ Good(s, d, m, answered, alive, q)
    <3>1. /\ c.started \/ c.stopped \/ c.completed => Good(s, d, lab, answered, alive, q)
          /\ ~(c.started \/ c.stopped \/ c.completed) =>
               Good(s, d, Heard(lab, s, TurnStarted(t)), answered, alive, q)
      BY <1>4, <1>8, <2>2, GoodStarts DEF d
    <3> QED BY <2>3, <2>4, <3>1
  <2>6. PICK m : y = Left(s, d, m, answered) /\ Good(s, d, m, answered, alive, q)
    BY <2>5
  <2>7. d.attempted /\ d.conn # "none"
    BY <1>3, <2>2, StartingFields DEF d
  <2>8. \E e, n, b : z = Left(s, e, n, b) /\ Good(s, e, n, b, alive, q) /\ e.attempted
    <3>1. CASE outcome = "inProgress"
      BY <2>3, <2>6, <2>7, <3>1
    <3>2. CASE outcome # "inProgress"
      <4>1. outcome \in Outcome /\ outcome \in q /\ sent \in BOOLEAN
        BY <1>5, <2>3, <3>2
      <4>2. \E e, n, b : /\ OnTurnCompleted(y, s, t, outcome, sent) = Left(s, e, n, b)
                         /\ Good(s, e, n, b, alive, q) /\ e.attempted
        BY <2>6, <2>7, <4>1, GoodCompletes
      <4> QED BY <2>3, <3>2, <4>2
    <3> QED BY <3>1, <3>2
  <2>9. PICK e, n, b : z = Left(s, e, n, b) /\ Good(s, e, n, b, alive, q) /\ e.attempted
    BY <2>8
  <2>10. At(z, s, g) = Left(s, Going(e, g), n, b) /\ Good(s, Going(e, g), n, b, alive, q)
    BY <2>1, <2>9, LeftAt, GoodDone, GoodWaits
  <2> QED BY <1>6, <2>1, <2>10
<1> QED BY SMTT(30), <1>7, <1>8

-----------------------------------------------------------------------------
(* stopContext *)

Stopping(c, z) == [c EXCEPT !.stops = z]

LEMMA StoppingFields ==
  ASSUME NEW c \in Context, NEW z \in SUBSET StopStage, NEW d, d = Stopping(c, z)
  PROVE  /\ d \in Context /\ d.run = c.run /\ d.reply = c.reply /\ d.stops = z
         /\ d.asked = c.asked /\ d.stopped = c.stopped /\ d.blocked = c.blocked
         /\ d.conn = c.conn /\ d.attempted = c.attempted /\ d.turn = c.turn
         /\ d.started = c.started /\ d.completed = c.completed /\ d.pending = c.pending /\ d.safe = c.safe
         /\ d.close = c.close /\ d.expectedClose = c.expectedClose /\ d.fatal = c.fatal
  BY DEF Stopping, Context

\* The stops of a session that was stopped go on.
LEMMA GoodStops ==
  ASSUME Inv, NEW s \in Session, NEW c, NEW l, NEW a, NEW A, NEW told,
         NEW z \in SUBSET StopStage, Good(s, c, l, a, A, told), c.stopped,
         c.blocked => z \subseteq {"previous"},
         "previous" \in z => s > 1, "cleanup" \in z => ~c.attempted,
         z \cap {"cleanup", "previous"} # {} => c.conn = "none"
  PROVE  Good(s, Stopping(c, z), l, a, A, told)
<1> DEFINE d == Stopping(c, z)
<1>1. c \in Context /\ Fits(s, c) /\ c.run # "none" /\ (s = current => Agree(l, c, told))
  BY DEF Good, Fine
<1>2. /\ d \in Context /\ d.run = c.run /\ d.reply = c.reply /\ d.stops = z
      /\ d.asked = c.asked /\ d.stopped = c.stopped /\ d.blocked = c.blocked
      /\ d.conn = c.conn /\ d.attempted = c.attempted /\ d.turn = c.turn
      /\ d.started = c.started /\ d.completed = c.completed /\ d.pending = c.pending /\ d.safe = c.safe
      /\ d.close = c.close /\ d.expectedClose = c.expectedClose /\ d.fatal = c.fatal
  <2>1. d = [c EXCEPT !.stops = z]
    BY DEF Stopping
  <2> HIDE DEF d
  <2> QED BY <1>1, <2>1 DEF Context
<1> HIDE DEF d
<1>3. Fits(s, d)
  BY <1>1, <1>2 DEF Fits
<1>4. s = current => Agree(l, d, told)
  BY <1>1, <1>2 DEF Agree, Knows
<1>5. Good(s, d, l, a, A, told)
  BY <1>1, <1>2, <1>3, <1>4, GoodPut
<1> QED BY <1>5 DEF d

\* A stop is over, as far as this stage goes.
LEMMA GoodLeaves ==
  ASSUME Inv, NEW s \in Session, NEW c, NEW l, NEW a, NEW A, NEW told, NEW w,
         NEW stage \in c.stops, w = Left(s, c, l, a), Good(s, c, l, a, A, told)
  PROVE  \E d : /\ Leave(w, s, stage) = Left(s, d, l, a) /\ Good(s, d, l, a, A, told)
                /\ d \in Context /\ d.run = c.run /\ d.stopped /\ (d.blocked <=> c.blocked)
                /\ (d.attempted <=> c.attempted) /\ d.completed = c.completed
                /\ d.stops = c.stops \ {stage}
<1> DEFINE z == c.stops \ {stage}
           d == Stopping(c, z)
<1>1. c \in Context /\ Fits(s, c)
  BY DEF Good, Fine
<1>2. z \in SUBSET StopStage /\ z \subseteq c.stops
  BY <1>1 DEF Context
<1>3. /\ c.stopped /\ (c.blocked => z \subseteq {"previous"})
      /\ ("previous" \in z => s > 1) /\ ("cleanup" \in z => ~c.attempted)
      /\ (z \cap {"cleanup", "previous"} # {} => c.conn = "none")
  BY <1>1, <1>2 DEF Fits
<1>4. Leave(w, s, stage) = Left(s, d, l, a)
  <2>1. w.ctx[s] = c
    BY LeftFields
  <2>2. Leave(w, s, stage) = [w EXCEPT !.ctx[s] = d]
    BY <2>1 DEF Leave, Stopping
  <2> HIDE DEF d
  <2> QED BY <2>2, LeftFields
<1> HIDE DEF z
<1>5. Good(s, d, l, a, A, told)
  BY <1>2, <1>3, GoodStops
<1>6. /\ d \in Context /\ d.run = c.run /\ d.stopped = c.stopped /\ d.blocked = c.blocked
      /\ d.attempted = c.attempted /\ d.completed = c.completed /\ d.stops = z
  <2>1. d = Stopping(c, z)
    OBVIOUS
  <2> HIDE DEF d
  <2> QED BY <1>1, <1>2, <2>1, StoppingFields
<1> HIDE DEF d
<1>7. d.stopped
  BY <1>3, <1>6
<1> QED BY <1>4, <1>5, <1>6, <1>7 DEF z

\* It goes on to another.
LEMMA GoodMoves ==
  ASSUME Inv, NEW s \in Session, NEW c, NEW l, NEW a, NEW A, NEW told, NEW w,
         NEW stage \in c.stops, NEW next \in StopStage,
         w = Left(s, c, l, a), Good(s, c, l, a, A, told),
         stage # "previous", next \notin {"previous", "cleanup"}
  PROVE  \E d : /\ [Leave(w, s, stage) EXCEPT !.ctx[s].stops = @ \cup {next}] = Left(s, d, l, a)
                /\ Good(s, d, l, a, A, told)
                /\ d \in Context /\ d.run = c.run /\ d.stopped /\ d.completed = c.completed
<1> DEFINE v == Leave(w, s, stage)
<1>1. PICK d : /\ v = Left(s, d, l, a) /\ Good(s, d, l, a, A, told)
               /\ d \in Context /\ d.run = c.run /\ d.stopped /\ (d.blocked <=> c.blocked)
               /\ (d.attempted <=> c.attempted) /\ d.completed = c.completed
               /\ d.stops = c.stops \ {stage}
  BY GoodLeaves
<1> DEFINE z == d.stops \cup {next}
           e == Stopping(d, z)
<1>2. ~c.blocked /\ ("previous" \in c.stops => s > 1) /\ ("cleanup" \in c.stops => ~c.attempted)
  BY DEF Good, Fine, Fits
<1>3. [v EXCEPT !.ctx[s].stops = @ \cup {next}] = [v EXCEPT !.ctx[s] = e]
  <2> HIDE DEF v
  <2>1. v.ctx[s] = d
    BY <1>1, LeftFields
  <2> QED BY <2>1 DEF Stopping
<1>4. z \in SUBSET StopStage
  BY <1>1 DEF Context
<1>5. /\ ~d.blocked /\ ("previous" \in z => s > 1) /\ ("cleanup" \in z => ~d.attempted)
      /\ z \cap {"cleanup", "previous"} # {} => d.conn = "none"
  BY <1>1, <1>2 DEF Good, Fine, Fits
<1> HIDE DEF z
<1>6. Good(s, e, l, a, A, told)
  BY <1>1, <1>4, <1>5, GoodStops
<1>7. e = Stopping(d, z)
  OBVIOUS
<1> HIDE DEF e, v
<1>8. [v EXCEPT !.ctx[s].stops = @ \cup {next}] = Left(s, e, l, a)
  BY <1>1, <1>3, LeftFields
<1>9. e \in Context /\ e.run = d.run /\ e.stopped = d.stopped /\ e.completed = d.completed
  BY <1>1, <1>4, <1>7, StoppingFields
<1>10. e.stopped
  BY <1>1, <1>9
<1> QED BY <1>1, <1>6, <1>8, <1>9, <1>10 DEF v

LEMMA InterruptStepsKeep ==
  ASSUME Inv, NEW s \in Session, InterruptTimesOut(s) \/ InterruptAnswered(s)
  PROVE  Inv' /\ CompletedStay
<1> DEFINE c == ctx[s]
<1>1. PICK stage \in c.stops, next \in {"turn", "refused"} :
        /\ stage # "previous" /\ UNCHANGED rest
        /\ Becomes([Leave(Now, s, stage) EXCEPT !.ctx[s].stops = @ \cup {next}])
  BY DEF InterruptTimesOut, InterruptAnswered
<1>2. s <= current /\ Now = Left(s, c, lab, answered) /\ Good(s, c, lab, answered, alive, said[s])
  BY <1>1, Stands
<1>3. next \in StopStage /\ next \notin {"previous", "cleanup"}
  BY DEF StopStage
<1> HIDE DEF c
<1>4. PICK d : /\ [Leave(Now, s, stage) EXCEPT !.ctx[s].stops = @ \cup {next}]
                    = Left(s, d, lab, answered)
               /\ Good(s, d, lab, answered, alive, said[s])
  BY <1>1, <1>2, <1>3, GoodMoves
<1> QED BY <1>1, <1>2, <1>4, RestKeeps

\* A stop that is not confirmed, of a session that was stopped.
LEMMA GoodUnconfirmed ==
  ASSUME Inv, NEW s \in Session, NEW c, NEW l, NEW a, NEW A, NEW told, NEW w,
         w = Left(s, c, l, a), Good(s, c, l, a, A, told),
         c.run \in Early => c.stopped \/ (c.run \in RpcStage /\ c.reply = "error"),
         NEW type \in {"protocol-failure", "stop-unconfirmed"}
  PROVE  \E m : /\ Observe(w, s, Plain(type)) = Left(s, c, m, a)
                /\ Good(s, c, m, a, A, told)
                /\ s = current /\ l.child = "closed" => m.child = "closed"
<1> DEFINE m == Heard(l, s, Plain(type))
<1>1. c \in Context /\ (s = current => l \in Service /\ Agree(l, c, told))
  BY DEF Good, Fine
<1>2. s = current => /\ Observed(l, Plain(type)) \in Service
                     /\ Observed(l, Plain(type)).session = l.session
                     /\ Observed(l, Plain(type)).child = "closed" <=> l.child = "closed"
                     /\ Agree(Observed(l, Plain(type)), c, told)
  BY <1>1, UnknownAgrees
<1>3. /\ Observe(w, s, Plain(type)) = Left(s, c, m, a)
      /\ Good(s, c, m, a, A, told)
  BY <1>2, GoodTold
<1>4. s = current /\ l.child = "closed" => m.child = "closed"
  BY <1>2 DEF Heard
<1> QED BY <1>3, <1>4

LEMMA StopInterruptedKeeps ==
  ASSUME Inv, NEW s \in Session, StopInterrupted(s)
  PROVE  Inv' /\ CompletedStay
<1> DEFINE c == ctx[s]
           v(stage) == [Leave(Now, s, stage) EXCEPT !.ctx[s].stops = @ \cup {"closing"}]
           u(stage) == Observe(v(stage), s, Plain("stop-unconfirmed"))
<1>1. PICK stage \in c.stops :
        /\ stage # "previous" /\ UNCHANGED rest
        /\ \/ Becomes(CloseContext(v(stage), s))
           \/ Becomes(CloseContext(u(stage), s))
  BY DEF StopInterrupted
<1>2. s <= current /\ Now = Left(s, c, lab, answered) /\ Good(s, c, lab, answered, alive, said[s])
  BY <1>1, Stands
<1> HIDE DEF c
<1>3. PICK d : /\ v(stage) = Left(s, d, lab, answered) /\ d.stopped
               /\ Good(s, d, lab, answered, alive, said[s])
  <2>1. "closing" \in StopStage /\ "closing" \notin {"previous", "cleanup"}
    BY DEF StopStage
  <2> QED BY <1>1, <1>2, <2>1, GoodMoves
<1> HIDE DEF v
<1>4. PICK m : u(stage) = Left(s, d, m, answered) /\ Good(s, d, m, answered, alive, said[s])
  BY <1>3, GoodUnconfirmed
<1> HIDE DEF u
<1>5. \E n : /\ CloseContext(v(stage), s) = Left(s, Closing(d), n, answered)
             /\ Good(s, Closing(d), n, answered, alive, said[s])
  BY <1>3, GoodCloses
<1>6. \E n : /\ CloseContext(u(stage), s) = Left(s, Closing(d), n, answered)
             /\ Good(s, Closing(d), n, answered, alive, said[s])
  BY <1>3, <1>4, GoodCloses
<1> QED BY <1>1, <1>2, <1>5, <1>6, RestKeeps

LEMMA StopClosedKeeps ==
  ASSUME Inv, NEW s \in Session, StopClosed(s)
  PROVE  Inv' /\ CompletedStay
<1> DEFINE c == ctx[s]
           v == Leave(Now, s, "closing")
<1>1. /\ "closing" \in c.stops /\ UNCHANGED rest
      /\ \/ Becomes(v)
         \/ ~c.attempted /\ Becomes(EmitStartupStopped(v, s))
         \/ Becomes(Observe(v, s, Plain("stop-unconfirmed")))
  BY DEF StopClosed
<1>2. /\ s <= current /\ Now = Left(s, c, lab, answered) /\ Fits(s, c)
      /\ Good(s, c, lab, answered, alive, said[s])
  BY <1>1, Stands
<1> HIDE DEF c
<1>3. PICK d : /\ v = Left(s, d, lab, answered) /\ Good(s, d, lab, answered, alive, said[s])
               /\ d.stopped /\ (d.blocked <=> c.blocked) /\ (d.attempted <=> c.attempted)
  BY <1>1, <1>2, GoodLeaves
<1> HIDE DEF v
<1>4. ~c.blocked
  BY <1>1, <1>2 DEF Fits
<1>5. ~d.blocked
  BY <1>3, <1>4
<1>6. CASE Becomes(v)
  BY <1>1, <1>2, <1>3, <1>6, RestKeeps
<1>7. CASE ~c.attempted /\ Becomes(EmitStartupStopped(v, s))
  <2>1. ~d.attempted
    BY <1>3, <1>7
  <2>2. \E e, m : /\ EmitStartupStopped(v, s) = Left(s, e, m, answered)
                  /\ Good(s, e, m, answered, alive, said[s])
    BY <1>3, <1>5, <2>1, GoodEmits
  <2> QED BY <1>1, <1>2, <1>7, <2>2, RestKeeps
<1>8. CASE Becomes(Observe(v, s, Plain("stop-unconfirmed")))
  <2>1. \E m : /\ Observe(v, s, Plain("stop-unconfirmed")) = Left(s, d, m, answered)
               /\ Good(s, d, m, answered, alive, said[s])
    BY <1>3, GoodUnconfirmed
  <2> QED BY <1>1, <1>2, <1>8, <2>1, RestKeeps
<1> QED BY <1>1, <1>6, <1>7, <1>8

LEMMA StopCleanedUpKeeps ==
  ASSUME Inv, NEW s \in Session, StopCleanedUp(s)
  PROVE  Inv' /\ CompletedStay
<1> DEFINE c == ctx[s]
           v == Leave(Now, s, "cleanup")
<1>1. "cleanup" \in c.stops /\ UNCHANGED rest /\ Becomes(EmitStartupStopped(v, s))
  BY DEF StopCleanedUp
<1>2. /\ s <= current /\ Now = Left(s, c, lab, answered) /\ Fits(s, c)
      /\ Good(s, c, lab, answered, alive, said[s])
  BY <1>1, Stands
<1> HIDE DEF c
<1>3. PICK d : /\ v = Left(s, d, lab, answered) /\ Good(s, d, lab, answered, alive, said[s])
               /\ d.stopped /\ (d.blocked <=> c.blocked) /\ (d.attempted <=> c.attempted)
  BY <1>1, <1>2, GoodLeaves
<1> HIDE DEF v
<1>4. ~c.blocked /\ ~c.attempted
  BY <1>1, <1>2 DEF Fits
<1>5. ~d.blocked /\ ~d.attempted
  BY <1>3, <1>4
<1>6. \E e, m : /\ EmitStartupStopped(v, s) = Left(s, e, m, answered)
                /\ Good(s, e, m, answered, alive, said[s])
  BY <1>3, <1>5, GoodEmits
<1> QED BY <1>1, <1>2, <1>6, RestKeeps

\* The end of the child, as the session expected it.
LEMMA GoodEnds ==
  ASSUME Inv, NEW s \in Session, NEW c, NEW l, NEW a, NEW A, NEW told, NEW w,
         w = Left(s, c, l, a), Good(s, c, l, a, A, told), ~c.blocked,
         NEW expected \in BOOLEAN,
         ~expected => c.stopped \/ c.run \notin Early \/ (c.run \in RpcStage /\ c.reply = "error")
  PROVE  \E m : /\ Observe(w, s, ChildClosed(expected)) = Left(s, c, m, a)
                /\ Good(s, c, m, a, A, told)
                /\ s = current => m.child = "closed"
<1> DEFINE m == Heard(l, s, ChildClosed(expected))
<1>1. c \in Context /\ (s = current => l \in Service /\ l.session = s /\ Agree(l, c, told))
  BY DEF Good, Fine
<1>2. s = current => /\ Observed(l, ChildClosed(expected)) \in Service
                     /\ Observed(l, ChildClosed(expected)).session = l.session
                     /\ Observed(l, ChildClosed(expected)).child = "closed"
                     /\ Agree(Observed(l, ChildClosed(expected)), c, told)
  BY <1>1, ChildClosedAgrees
<1>3. /\ Observe(w, s, ChildClosed(expected)) = Left(s, c, m, a)
      /\ Good(s, c, m, a, A, told)
  BY <1>2, GoodTold
<1>4. s = current => m.child = "closed"
  BY <1>1, <1>2 DEF Heard
<1> QED BY <1>3, <1>4

LEMMA StopPreviousClosedKeeps ==
  ASSUME Inv, NEW s \in Session, StopPreviousClosed(s)
  PROVE  Inv' /\ CompletedStay
<1> DEFINE c == ctx[s]
           v == Leave(Now, s, "previous")
           x == [v EXCEPT !.ctx[s].blocked = FALSE]
           u(expected) == Observe(x, s, ChildClosed(expected))
<1>1. /\ "previous" \in c.stops /\ UNCHANGED rest
      /\ ctx[s - 1].close \in {"true", "false"}
      /\ \/ Becomes(Observe(v, s, Plain("stop-unconfirmed")))
         \/ ctx[s - 1].close = "true" /\ Becomes(u(TRUE))
         \/ ~c.attempted /\ ctx[s - 1].close = "true" /\ Becomes(EmitStartupStopped(u(TRUE), s))
  BY DEF StopPreviousClosed
<1>2. /\ s <= current /\ Now = Left(s, c, lab, answered) /\ Fits(s, c)
      /\ Good(s, c, lab, answered, alive, said[s])
  BY <1>1, Stands
<1> HIDE DEF c
<1>3. PICK d : /\ v = Left(s, d, lab, answered) /\ Good(s, d, lab, answered, alive, said[s])
               /\ d \in Context /\ d.stopped /\ (d.attempted <=> c.attempted)
  BY <1>1, <1>2, GoodLeaves
<1> HIDE DEF v
<1> DEFINE e == Unblocked(d)
<1>4. CASE Becomes(Observe(v, s, Plain("stop-unconfirmed")))
  <2>1. \E m : /\ Observe(v, s, Plain("stop-unconfirmed")) = Left(s, d, m, answered)
               /\ Good(s, d, m, answered, alive, said[s])
    BY <1>3, GoodUnconfirmed
  <2> QED BY <1>1, <1>2, <1>4, <2>1, RestKeeps
<1>5. CASE ctx[s - 1].close = "true" /\ \/ Becomes(u(TRUE))
                                        \/ ~c.attempted /\ Becomes(EmitStartupStopped(u(TRUE), s))
  <2>1. x = Left(s, e, lab, answered) /\ Good(s, e, lab, answered, alive, said[s])
    BY <1>3, <1>5, LeftUnblocked, GoodUnblocks
  <2>2. e.stopped = d.stopped /\ e.attempted = d.attempted /\ ~e.blocked
    BY <1>3, UnblockedFields
  <2> HIDE DEF e, x
  <2>3. e.stopped /\ (e.attempted <=> c.attempted)
    BY <1>3, <2>2
  <2>4. \A expected \in BOOLEAN :
          \E m : u(expected) = Left(s, e, m, answered) /\ Good(s, e, m, answered, alive, said[s])
    BY <2>1, <2>2, <2>3, GoodEnds
  <2> HIDE DEF u
  <2>5. PICK m : u(TRUE) = Left(s, e, m, answered) /\ Good(s, e, m, answered, alive, said[s])
    BY <2>4, Zenon
  <2>6. CASE Becomes(u(TRUE))
    BY <1>1, <1>2, <2>5, <2>6, RestKeeps
  <2>7. CASE ~c.attempted /\ Becomes(EmitStartupStopped(u(TRUE), s))
    <3> DEFINE y == u(TRUE)
    <3>1. ~e.attempted /\ y = Left(s, e, m, answered)
      BY <2>3, <2>5, <2>7
    <3> HIDE DEF y
    <3>2. \E b, n : /\ EmitStartupStopped(y, s) = Left(s, b, n, answered)
                    /\ Good(s, b, n, answered, alive, said[s])
      BY <2>2, <2>3, <2>5, <3>1, GoodEmits
    <3> QED BY <1>1, <1>2, <2>7, <3>2, RestKeeps DEF y
  <2> QED BY <1>5, <2>6, <2>7
<1> QED BY <1>1, <1>4, <1>5

-----------------------------------------------------------------------------
(* closeContext, after its await *)

\* The closing of the child, or of one that is gone, comes to an end.
LEMMA CloseSettles ==
  ASSUME Inv, NEW s \in Session, NEW c, NEW l, NEW a, NEW told, NEW close \in {"true", "false"},
         Good(s, c, l, a, alive, told), c.close = "wait",
         close = "true" => \A k : <<s, k>> \notin alive,
         NEW d, d = [c EXCEPT !.close = close]
  PROVE  Good(s, d, l, a, alive, told) /\ (d.run \in Early => d.stopped)
<1>1. /\ c \in Context /\ Fits(s, c) /\ (s = current => Agree(l, c, told))
      /\ \A k : <<s, k>> \in alive => c.conn = k
  BY DEF Good, Fine
<1>2. /\ d \in Context /\ d.run = c.run /\ d.reply = c.reply /\ d.close = close
      /\ d.stops = c.stops /\ d.asked = c.asked /\ d.stopped = c.stopped
      /\ d.blocked = c.blocked /\ d.conn = c.conn /\ d.attempted = c.attempted
      /\ d.turn = c.turn /\ d.started = c.started /\ d.completed = c.completed
      /\ d.pending = c.pending /\ d.safe = c.safe
      /\ d.fatal = c.fatal /\ d.expectedClose = c.expectedClose
  BY <1>1 DEF Context
<1>3. c.expectedClose /\ (c.run \in Early => c.stopped)
  BY <1>1 DEF Fits
<1>4. Fits(s, d)
  BY <1>1, <1>2, <1>3 DEF Fits
<1>5. s = current => Agree(l, d, told)
  BY <1>1, <1>2 DEF Agree, Knows
<1>6. \A k : <<s, k>> \in alive => d.conn = k /\ d.close # "true"
  BY <1>1, <1>2
<1>7. Good(s, d, l, a, alive, told)
  BY <1>2, <1>4, <1>5, <1>6 DEF Good, Fine, Settles
<1>8. d.run \in Early => d.stopped
  BY <1>2, <1>3
<1> QED BY <1>7, <1>8

LEMMA CloseEndsKeeps ==
  ASSUME Inv, NEW s \in Session, CloseEnds(s)
  PROVE  Inv' /\ CompletedStay
<1> DEFINE c == ctx[s]
           q == IF current = s THEN "none" ELSE c.conn
           w == [Now EXCEPT !.ctx[s].close = "true", !.ctx[s].conn = IF current = s THEN "none" ELSE @]
           e == [c EXCEPT !.close = "true", !.conn = q]
           d == [c EXCEPT !.close = "true"]
<1>1. /\ c.close = "wait" /\ UNCHANGED rest /\ Becomes(w)
      /\ \A k \in {"discovery", "main"} : <<s, k>> \notin alive
  BY DEF CloseEnds, CloseDue
<1>2. /\ s <= current /\ c \in Context /\ Now = Left(s, c, lab, answered)
      /\ Good(s, c, lab, answered, alive, said[s])
  BY <1>1, Stands
<1>3. w = [Now EXCEPT !.ctx[s] = e]
  <2>1. Now.ctx[s] = c
    BY DEF Now
  <2> QED BY <2>1
<1> HIDE DEF c, w
<1>4. \A k : <<s, k>> \notin alive
  BY <1>1, <1>2 DEF Good, Fine
<1>5. q = c.conn
  BY <1>2, <1>4 DEF Good, Fine
<1> HIDE DEF q
<1>6. e = d
  BY <1>2, <1>5 DEF Context
<1>7. Good(s, d, lab, answered, alive, said[s])
  <2>1. "true" \in {"true", "false"} /\ d = [c EXCEPT !.close = "true"]
    OBVIOUS
  <2> HIDE DEF d
  <2> QED BY <1>1, <1>2, <1>4, <2>1, CloseSettles
<1> HIDE DEF d, e
<1>8. w = Left(s, d, lab, answered)
  BY <1>2, <1>3, <1>6, LeftFields
<1> QED BY <1>1, <1>2, <1>7, <1>8, RestKeeps

LEMMA CloseFailsKeeps ==
  ASSUME Inv, NEW s \in Session, CloseFails(s)
  PROVE  Inv' /\ CompletedStay
<1> DEFINE c == ctx[s]
           d == [c EXCEPT !.close = "false"]
           w == [Now EXCEPT !.ctx[s].close = "false"]
<1>1. /\ c.close = "wait" /\ UNCHANGED rest
      /\ Becomes(Observe(w, s, Plain("protocol-failure")))
  BY DEF CloseFails
<1>2. /\ s <= current /\ c \in Context /\ Now = Left(s, c, lab, answered)
      /\ Good(s, c, lab, answered, alive, said[s])
  BY <1>1, Stands
<1>3. w = [Now EXCEPT !.ctx[s] = d]
  <2>1. Now.ctx[s] = c
    BY DEF Now
  <2> QED BY <2>1
<1> HIDE DEF c, w
<1>4. Good(s, d, lab, answered, alive, said[s]) /\ (d.run \in Early => d.stopped)
  <2>1. "false" \in {"true", "false"} /\ d = [c EXCEPT !.close = "false"]
    OBVIOUS
  <2> HIDE DEF d
  <2> QED BY <1>1, <1>2, <2>1, CloseSettles
<1> HIDE DEF d
<1>5. w = Left(s, d, lab, answered)
  BY <1>2, <1>3, LeftFields
<1>6. \E m : /\ Observe(w, s, Plain("protocol-failure")) = Left(s, d, m, answered)
             /\ Good(s, d, m, answered, alive, said[s])
  BY <1>4, <1>5, GoodUnconfirmed
<1> QED BY <1>1, <1>2, <1>6, RestKeeps

-----------------------------------------------------------------------------
(* The connection *)

LEMMA AnsweredKeeps ==
  ASSUME Inv, NEW s \in Session, Answered(s) \/ RequestTimesOut(s)
  PROVE  Inv' /\ CompletedStay
<1> DEFINE c == ctx[s]
<1>1. PICK reply \in {"ok", "error"} :
        /\ c.run \in RpcStage /\ UNCHANGED rest /\ Becomes([Now EXCEPT !.ctx[s].reply = reply])
        /\ reply = "ok" => <<s, c.conn>> \in alive /\ c.reply = "waiting"
  BY DEF Answered, RequestTimesOut, Conn
<1> DEFINE d == [c EXCEPT !.reply = reply]
           w == [Now EXCEPT !.ctx[s].reply = reply]
<1>2. /\ s <= current /\ c \in Context /\ Now = Left(s, c, lab, answered) /\ c.run # "none"
      /\ Good(s, c, lab, answered, alive, said[s])
  BY <1>1, Stands DEF RpcStage
<1>3. w = [Now EXCEPT !.ctx[s] = d]
  <2>1. Now.ctx[s] = c
    BY DEF Now
  <2> QED BY <2>1
<1> HIDE DEF c
<1>4. /\ d \in Context /\ d.run = c.run /\ d.reply = reply /\ d.close = c.close
      /\ d.stops = c.stops /\ d.asked = c.asked /\ d.stopped = c.stopped
      /\ d.blocked = c.blocked /\ d.conn = c.conn /\ d.attempted = c.attempted
      /\ d.turn = c.turn /\ d.started = c.started /\ d.completed = c.completed
      /\ d.pending = c.pending /\ d.safe = c.safe
      /\ d.fatal = c.fatal /\ d.expectedClose = c.expectedClose
  BY <1>2 DEF Context
<1> HIDE DEF d
<1>5. Fits(s, c) /\ (s = current => Agree(lab, c, said[s]))
  BY <1>2 DEF Good, Fine
<1>6. Fits(s, d)
  BY <1>1, <1>4, <1>5 DEF Fits
<1>7. s = current => Agree(lab, d, said[s])
  BY <1>1, <1>4, <1>5 DEF Agree, Knows
<1>8. Good(s, d, lab, answered, alive, said[s])
  BY <1>1, <1>2, <1>4, <1>6, <1>7 DEF Good, Fine, Settles
<1> HIDE DEF w
<1>9. w = Left(s, d, lab, answered)
  BY <1>2, <1>3, LeftFields
<1> QED BY <1>1, <1>2, <1>8, <1>9, RestKeeps DEF w

LEMMA FailKeeps ==
  ASSUME Inv, NEW s \in Session, s <= current, NEW w, NEW c, NEW l, NEW a,
         w = Left(s, c, l, a), Good(s, c, l, a, alive, said[s]), Becomes(FailContext(w, s)),
         UNCHANGED <<current, alive, requested, said>>,
         failed' \subseteq Session \X {"discovery", "main"}
  PROVE  Inv' /\ CompletedStay
<1>1. PICK d, m, b : /\ FailContext(w, s) = Left(s, d, m, b)
                     /\ Good(s, d, m, b, alive, said[s])
  BY GoodFails
<1>2. /\ said' = [said EXCEPT ![s] = said[s]] /\ said[s] \in SUBSET Outcome
      /\ alive' = alive /\ current' = current /\ requested' = requested
  BY Types
<1>3. Good(s, d, m, b, alive', said[s])
  BY <1>1, <1>2
<1>4. /\ \A t \in Session \ {s} : \A k : <<t, k>> \in alive' <=> <<t, k>> \in alive
      /\ s < current => alive' \subseteq alive
  BY <1>2
<1> QED BY <1>1, <1>2, <1>3, <1>4, GoodKeeps

LEMMA ConnectionFailsKeeps ==
  ASSUME Inv, NEW s \in Session, NEW kind, ConnectionFails(s, kind)
  PROVE  Inv' /\ CompletedStay
<1> DEFINE c == ctx[s]
           w == Rejected(Now, s)
<1>1. /\ <<s, kind>> \in alive /\ failed' = failed \cup {<<s, kind>>}
      /\ Becomes(FailContext(w, s)) /\ UNCHANGED <<current, alive, requested, said>>
  BY DEF ConnectionFails
<1>2. /\ s <= current /\ Now = Left(s, c, lab, answered)
      /\ Good(s, c, lab, answered, alive, said[s])
  BY <1>1, Stands
<1> HIDE DEF c
<1>3. /\ w = Left(s, Rejecting(c), lab, answered)
      /\ Good(s, Rejecting(c), lab, answered, alive, said[s])
  BY <1>2, GoodRejects
<1>4. failed' \subseteq Session \X {"discovery", "main"}
  BY <1>1 DEF Inv, TypeOK
<1> HIDE DEF w
<1> QED BY <1>1, <1>2, <1>3, <1>4, FailKeeps

-----------------------------------------------------------------------------
(* Messages of the main child *)

\* The child that is heard is that of the current session, which has one.
LEMMA HearsStands ==
  ASSUME Inv, NEW s \in Session, Hears(s)
  PROVE  /\ s = current /\ ctx[s] \in Context /\ Fits(s, ctx[s]) /\ ctx[s].conn = "main"
         /\ Now = Left(s, ctx[s], lab, answered)
         /\ Good(s, ctx[s], lab, answered, alive, said[s])
<1>1. <<s, "main">> \in alive /\ s = current
  BY DEF Hears
<1>2. ctx[s].conn = "main"
  BY <1>1, Types DEF Inv, InStep, ChildrenAreHeld
<1> QED BY <1>1, <1>2, Stands

LEMMA UnexpectedKeeps ==
  ASSUME Inv, NEW s \in Session, OnUnexpected(s)
  PROVE  Inv' /\ CompletedStay
<1>1. Hears(s) /\ Becomes(FailContext(Now, s)) /\ UNCHANGED rest
  BY DEF OnUnexpected
<1>2. /\ s = current /\ Now = Left(s, ctx[s], lab, answered)
      /\ Good(s, ctx[s], lab, answered, alive, said[s])
  BY <1>1, HearsStands
<1>3. s <= current /\ failed' \subseteq Session \X {"discovery", "main"}
  BY <1>1, <1>2, Types DEF rest, Inv, TypeOK
<1> QED BY <1>1, <1>2, <1>3, FailKeeps DEF rest

LEMMA ResolvedKeeps ==
  ASSUME Inv, NEW s \in Session, OnResolved(s)
  PROVE  Inv' /\ CompletedStay
<1> DEFINE c == ctx[s]
           v(sent) == CancelPending(Now, s, sent)
<1>1. Hears(s) /\ Becomes(v(FALSE)) /\ UNCHANGED rest
  BY DEF OnResolved, RevokeAll
<1>2. /\ s = current /\ Now = Left(s, c, lab, answered) /\ s <= current
      /\ Good(s, c, lab, answered, alive, said[s])
  BY <1>1, HearsStands, Types
<1> HIDE DEF c
<1>3. \A sent \in BOOLEAN : \E d, m, b : v(sent) = Left(s, d, m, b) /\ Good(s, d, m, b, alive, said[s])
  BY <1>2, LeftCancel, GoodCancels
<1> HIDE DEF v
<1>4. \E d, m, b : v(FALSE) = Left(s, d, m, b) /\ Good(s, d, m, b, alive, said[s])
  BY <1>3, Zenon
<1> QED BY <1>1, <1>2, <1>4, RestKeeps

LEMMA TurnStartedMessageKeeps ==
  ASSUME Inv, NEW s \in Session, OnTurnStarted(s)
  PROVE  Inv' /\ CompletedStay
<1> DEFINE c == ctx[s]
           v(t) == [Now EXCEPT !.ctx[s].turn = t, !.ctx[s].started = TRUE]
<1>1. /\ Hears(s) /\ c.attempted /\ ~c.stopped /\ ~c.completed /\ c.turn = NoTurn
      /\ UNCHANGED rest
  BY DEF OnTurnStarted
<1>2. PICK t \in Turns : Becomes(Observe(v(t), s, TurnStarted(t)))
  BY DEF OnTurnStarted
<1>3. /\ s = current /\ Now = Left(s, c, lab, answered) /\ s <= current /\ Fits(s, c)
      /\ Good(s, c, lab, answered, alive, said[s])
  BY <1>1, HearsStands, Types
<1> DEFINE d == Starting(c, t)
           m == Heard(lab, s, TurnStarted(t))
<1>4. Observe(v(t), s, TurnStarted(t)) = Left(s, d, m, answered)
  <2>1. Now.ctx[s] = c
    BY DEF Now
  <2>2. v(t) = [Now EXCEPT !.ctx[s] = d]
    BY <2>1 DEF Starting
  <2> HIDE DEF c, d, v
  <2>3. v(t) = Left(s, d, lab, answered)
    BY <1>3, <2>2, LeftFields
  <2> QED BY <2>3, LeftObserve
<1> HIDE DEF c
<1>5. Good(s, d, m, answered, alive, said[s])
  BY <1>1, <1>3, GoodStarts
<1> HIDE DEF d, m, v
<1> QED BY <1>1, <1>2, <1>3, <1>4, <1>5, RestKeeps

LEMMA ItemKeeps ==
  ASSUME Inv, NEW s \in Session, OnItem(s)
  PROVE  Inv' /\ CompletedStay
<1> DEFINE c == ctx[s]
           w == Observe(Now, s, Plain("protocol-failure"))
<1>1. Hears(s) /\ UNCHANGED rest
  BY DEF OnItem
<1>2. PICK t \in Turns :
        /\ c.attempted
        /\ \/ \E o \in {ItemSeen(t), CommandCompleted(t)} : Becomes(Observe(Now, s, o))
           \/ Becomes(CloseContext(w, s))
  BY DEF OnItem, InTurn
<1>3. /\ s = current /\ Now = Left(s, c, lab, answered) /\ s <= current /\ Fits(s, c)
      /\ c \in Context /\ Good(s, c, lab, answered, alive, said[s])
  BY <1>1, HearsStands, Types
<1> HIDE DEF c
<1>4. c.run \notin Early
  BY <1>2, <1>3 DEF Fits
<1>5. CASE \E o \in {ItemSeen(t), CommandCompleted(t)} : Becomes(Observe(Now, s, o))
  <2>1. PICK o \in {ItemSeen(t), CommandCompleted(t)} : Becomes(Observe(Now, s, o))
    BY <1>5
  <2> DEFINE m == Heard(lab, s, o)
  <2>2. /\ Observed(lab, o) \in Service /\ Observed(lab, o).session = lab.session
        /\ Agree(Observed(lab, o), c, said[s])
    <3>1. lab \in Service /\ Agree(lab, c, said[s])
      BY <1>3 DEF Good, Fine
    <3> QED BY <1>2, <1>3, <1>4, <3>1, ProgressAgrees
  <2>3. Observe(Now, s, o) = Left(s, c, m, answered) /\ Good(s, c, m, answered, alive, said[s])
    BY <1>3, <2>2, GoodTold
  <2> HIDE DEF m
  <2> QED BY <1>1, <1>3, <2>1, <2>3, RestKeeps
<1>6. CASE Becomes(CloseContext(w, s))
  <2>1. PICK m : w = Left(s, c, m, answered) /\ Good(s, c, m, answered, alive, said[s])
    BY <1>3, <1>4, GoodUnconfirmed
  <2> HIDE DEF w
  <2>2. \E n : /\ CloseContext(w, s) = Left(s, Closing(c), n, answered)
               /\ Good(s, Closing(c), n, answered, alive, said[s])
    BY <1>4, <2>1, GoodCloses
  <2> QED BY <1>1, <1>3, <1>6, <2>2, RestKeeps
<1> QED BY <1>2, <1>5, <1>6

LEMMA TurnCompletedMessageKeeps ==
  ASSUME Inv, NEW s \in Session, OnTurnCompletedMessage(s)
  PROVE  Inv' /\ CompletedStay
<1> DEFINE c == ctx[s]
<1>1. Hears(s) /\ c.attempted /\ UNCHANGED <<current, alive, failed, requested>>
  BY DEF OnTurnCompletedMessage
<1>2. PICK t \in Turns, outcome \in Outcome, sent \in Sends(s) :
        /\ said[s] \subseteq {outcome}
        /\ Becomes(OnTurnCompleted(Now, s, t, outcome, sent))
        /\ said' = [said EXCEPT ![s] = {outcome}]
  BY DEF OnTurnCompletedMessage
<1> DEFINE q == {outcome}
<1>3. s = current /\ s <= current /\ c.conn = "main"
  BY <1>1, HearsStands, Types
<1>4. Now = Left(s, c, lab, answered) /\ Good(s, c, lab, answered, alive, q)
  BY <1>2, <1>3, StandsGood
<1>5. /\ sent \in BOOLEAN /\ q \in SUBSET Outcome /\ outcome \in q
      /\ said' = [said EXCEPT ![s] = q]
      /\ failed' \subseteq Session \X {"discovery", "main"}
  BY <1>1, <1>2 DEF Sends, Inv, TypeOK
<1> HIDE DEF c, q
<1>6. PICK d, m, b : /\ OnTurnCompleted(Now, s, t, outcome, sent) = Left(s, d, m, b)
                     /\ Good(s, d, m, b, alive, q)
  <2>1. c.conn # "none"
    BY <1>3
  <2> QED BY <1>1, <1>4, <1>5, <2>1, GoodCompletes
<1>7. /\ Good(s, d, m, b, alive', q) /\ current' = current /\ requested' = requested
      /\ \A u \in Session \ {s} : \A k : <<u, k>> \in alive' <=> <<u, k>> \in alive
      /\ s < current => alive' \subseteq alive
  BY <1>1, <1>6
<1> QED BY <1>2, <1>3, <1>5, <1>6, <1>7, GoodKeeps

\* A request that is received is answered at once, or becomes the pending one of
\* a session that has none.
LEMMA RequestsCount ==
  ASSUME Inv, NEW s \in Session, requested < MaxRequests, requested' = requested + 1,
         \A t \in Session \ {s} : ctx'[t].pending = ctx[t].pending,
         \/ /\ ctx'[s].pending = ctx[s].pending
            /\ answered' \in {answered, [answered EXCEPT ![requested + 1] = @ + 1]}
         \/ ctx'[s].pending = requested + 1 /\ answered' = answered
  PROVE  RequestsAreHeld' /\ AnsweredOnce' /\ requested' \in 0 .. MaxRequests
<1> USE Types
<1> DEFINE r == requested + 1
<1>1. r \in Request
  BY DEF Request
<1>2. /\ \A q \in Request : (q > requested => answered[q] = 0) /\ answered[q] <= 1
      /\ \A t \in Session : LET q == ctx[t].pending IN
           q # 0 => /\ q <= requested /\ answered[q] = 0
                    /\ \A u \in Session \ {t} : ctx[u].pending # q
  BY DEF Inv, InStep, RequestsAreHeld, AnsweredOnce
<1>3. \A t \in Session : ctx[t].pending \in 0 .. MaxRequests
  BY DEF Context
<1>4. answered[r] = 0
  BY <1>1, <1>2
<1>5. CASE /\ ctx'[s].pending = ctx[s].pending
           /\ answered' \in {answered, [answered EXCEPT ![requested + 1] = @ + 1]}
  <2>1. \A t \in Session : ctx'[t].pending = ctx[t].pending
    BY <1>5
  <2>2. /\ answered' \in [Request -> Nat] /\ answered'[r] <= 1
        /\ \A q \in Request : q # r => answered'[q] = answered[q]
    BY <1>1, <1>4, <1>5
  <2>3. \A q \in Request : (q > r => answered'[q] = 0) /\ answered'[q] <= 1
    BY <1>1, <1>2, <2>2 DEF Request
  <2>4. ASSUME NEW t \in Session, ctx'[t].pending # 0
        PROVE  LET q == ctx'[t].pending IN
               /\ q <= r /\ answered'[q] = 0
               /\ \A u \in Session \ {t} : ctx'[u].pending # q
    <3>1. /\ ctx[t].pending # 0 /\ ctx[t].pending <= requested
          /\ ctx[t].pending \in Request /\ ctx[t].pending # r
      BY <1>2, <1>3, <2>1, <2>4 DEF Request
    <3>2. /\ answered[ctx[t].pending] = 0
          /\ \A u \in Session \ {t} : ctx[u].pending # ctx[t].pending
      BY <1>2, <3>1
    <3>3. answered'[ctx[t].pending] = 0
      BY <2>2, <3>1, <3>2
    <3>4. ctx[t].pending <= r
      BY <3>1 DEF Request
    <3> QED BY <2>1, <3>2, <3>3, <3>4
  <2> QED BY <2>3, <2>4 DEF RequestsAreHeld, AnsweredOnce
<1>6. CASE ctx'[s].pending = r /\ answered' = answered
  <2>1. \A t \in Session : ctx[t].pending # r
    BY <1>2, <1>3
  <2>2. \A q \in Request : (q > r => answered'[q] = 0) /\ answered'[q] <= 1
    BY <1>2, <1>6 DEF Request
  <2>3. ASSUME NEW t \in Session, ctx'[t].pending # 0
        PROVE  LET q == ctx'[t].pending IN
               /\ q <= r /\ answered'[q] = 0
               /\ \A u \in Session \ {t} : ctx'[u].pending # q
    <3>1. CASE t = s
      BY <1>4, <1>6, <2>1, <3>1
    <3>2. CASE t # s
      <4>1. ctx'[t].pending = ctx[t].pending /\ ctx[t].pending # 0
        BY <2>3, <3>2
      <4>2. /\ ctx[t].pending <= requested /\ answered[ctx[t].pending] = 0
            /\ ctx[t].pending \in 0 .. MaxRequests
            /\ \A u \in Session \ {t} : ctx[u].pending # ctx[t].pending
        BY <1>2, <1>3, <4>1
      <4> QED BY <1>6, <4>1, <4>2
    <3> QED BY <3>1, <3>2
  <2> QED BY <2>2, <2>3 DEF RequestsAreHeld, AnsweredOnce
<1> QED BY <1>5, <1>6

\* A request of the turn is put to a person, by a session that has none pending.
LEMMA AskedAgrees ==
  ASSUME NEW l \in Service, NEW s, NEW c \in Context, NEW told, Agree(l, c, told), Fits(s, c),
         NEW r \in Request, NEW t \in Turns, NEW safe \in BOOLEAN,
         c.started, ~c.completed, c.pending = 0
  PROVE  /\ Asked(l, r, t, safe) \in Service /\ Asked(l, r, t, safe).session = l.session
         /\ Agree(Asked(l, r, t, safe), [c EXCEPT !.pending = r, !.safe = safe], told)
<1> DEFINE p == [id |-> r, status |-> "pending", safe |-> safe, fresh |-> TRUE]
           n == [l EXCEPT !.status = "awaiting-human", !.approval = p]
           d == [c EXCEPT !.pending = r, !.safe = safe]
<1>1. /\ r \in Nat /\ r # 0 /\ r \in 0 .. MaxRequests
  BY BoundsAssumption DEF Request
<1>2. p \in Approval /\ p.status = "pending" /\ p.id = r /\ p.safe = safe
  BY <1>1 DEF Approval
<1>3. \/ Asked(l, r, t, safe) = l
      \/ Asked(l, r, t, safe) = n /\ l.status = "running" /\ l.turn = t
  BY DEF Asked
<1>4. /\ d.completed = c.completed /\ d.turn = c.turn /\ d.started = c.started
      /\ d.run = c.run /\ d.reply = c.reply /\ d.stopped = c.stopped /\ d.asked = c.asked
      /\ d.attempted = c.attempted /\ d.blocked = c.blocked /\ d.conn = c.conn
      /\ d.pending = r /\ d.safe = safe /\ d.fatal = c.fatal
  BY <1>1 DEF Context
<1>5. l.approval.status # "pending"
  BY DEF Agree, Knows
<1>6. c.attempted /\ c.run \notin Early /\ ~c.blocked /\ t # NoTurn
  BY BoundsAssumption DEF Fits
<1> HIDE DEF p, d
<1>7. /\ n \in Service /\ n.status = "awaiting-human" /\ n.approval = p
      /\ n.turnStatus = l.turnStatus /\ n.turn = l.turn /\ n.thread = l.thread
      /\ n.child = l.child /\ n.session = l.session
  BY <1>2 DEF Service, Status
<1> HIDE DEF n
<1>8. Agree(l, d, told)
  BY <1>4, <1>5 DEF Agree, Knows
<1>9. l.status = "running" /\ l.turn = t => Agree(n, d, told)
  BY <1>1, <1>2, <1>4, <1>6, <1>7, StatusKinds DEF Agree, Knows
<1> QED BY <1>3, <1>7, <1>8, <1>9 DEF d

LEMMA UnsupportedAgrees ==
  ASSUME NEW l \in Service, NEW c \in Context, NEW told, Agree(l, c, told)
  PROVE  LET m == Observed(l, Plain("unsupported-request"))
         IN m \in Service /\ m.session = l.session /\ Agree(m, c, told)
  BY HearsPlain, RecordedAgrees

LEMMA ServerRequestKeeps ==
  ASSUME Inv, NEW s \in Session, OnServerRequest(s)
  PROVE  Inv' /\ CompletedStay
<1> USE Types
<1> DEFINE c == ctx[s]
           l == Heard(lab, s, Plain("unsupported-request"))
           more == ctx[s].attempted /\ requested < MaxRequests /\ requested' = requested + 1
           b(sent) == IF sent THEN [answered EXCEPT ![requested + 1] = @ + 1] ELSE answered
           put(safe) == [c EXCEPT !.pending = requested + 1, !.safe = safe]
<1>1. Hears(s) /\ UNCHANGED <<current, alive, failed, said>>
  BY ZenonT(60) DEF OnServerRequest
<1>2. /\ s = current /\ Now = Left(s, c, lab, answered) /\ s <= current /\ Fits(s, c)
      /\ c \in Context /\ Good(s, c, lab, answered, alive, said[s])
  BY <1>1, HearsStands
<1>3. Observe(Now, s, Plain("unsupported-request")) = Left(s, c, l, answered)
      /\ Good(s, c, l, answered, alive, said[s])
  <2>1. lab \in Service /\ Agree(lab, c, said[s])
    BY <1>2 DEF Good, Fine
  <2> HIDE DEF c
  <2>2. LET m == Observed(lab, Plain("unsupported-request"))
        IN m \in Service /\ m.session = lab.session /\ Agree(m, c, said[s])
    BY <1>2, <2>1, UnsupportedAgrees
  <2> QED BY <1>2, <2>2, GoodTold
<1>4. \/ Becomes(Observe(Now, s, Plain("unsupported-request"))) /\ UNCHANGED requested
      \/ more /\ \E sent \in BOOLEAN : /\ lab' \in {lab, l} /\ ctx' = ctx /\ answered' = b(sent)
      \/ more /\ \E t \in Turns, safe \in BOOLEAN :
           /\ ~c.completed /\ c.started /\ c.pending = 0
           /\ lab' = Asked(lab, requested + 1, t, safe)
           /\ ctx' = [ctx EXCEPT ![s] = put(safe)] /\ answered' = answered
  <2>1. CASE more
    <3>1. PICK t \in Turns, safe \in BOOLEAN, sent \in Sends(s) :
            LET cancelled == IF sent THEN Answer(Now, requested') ELSE Now
                v == [Now EXCEPT !.ctx[s].pending = requested', !.ctx[s].safe = safe]
            IN \/ Becomes(cancelled)
               \/ Becomes(Observe(cancelled, s, Plain("unsupported-request")))
               \/ /\ ~c.completed /\ c.started /\ c.pending = 0
                  /\ Becomes([v EXCEPT !.lab = Asked(@, requested', t, safe)])
      <4>1. requested' # requested /\ lab.session = s
        BY <1>2, <2>1
      <4> QED BY <4>1 DEF OnServerRequest
    <3> DEFINE cancelled == IF sent THEN Answer(Now, requested + 1) ELSE Now
               v == [Now EXCEPT !.ctx[s].pending = requested + 1, !.ctx[s].safe = safe]
    <3>2. sent \in BOOLEAN
      BY DEF Sends
    <3>3. cancelled = Left(s, c, lab, b(sent))
      BY <1>2 DEF Answer, Left
    <3>4. v = Left(s, put(safe), lab, answered)
      <4>1. Now.ctx[s] = c
        BY DEF Now
      <4>2. v = [Now EXCEPT !.ctx[s] = put(safe)]
        BY <4>1
      <4> HIDE DEF c, v, put
      <4> QED BY <1>2, <4>2, LeftFields
    <3>5. \/ Becomes(cancelled)
          \/ Becomes(Observe(cancelled, s, Plain("unsupported-request")))
          \/ /\ ~c.completed /\ c.started /\ c.pending = 0
             /\ Becomes([v EXCEPT !.lab = Asked(@, requested + 1, t, safe)])
      BY <2>1, <3>1
    <3> HIDE DEF cancelled, v, put, b
    <3>6. CASE Becomes(cancelled)
      BY <1>2, <2>1, <3>2, <3>3, <3>6 DEF Becomes, Left
    <3>7. CASE Becomes(Observe(cancelled, s, Plain("unsupported-request")))
      <4>1. Observe(cancelled, s, Plain("unsupported-request")) = Left(s, c, l, b(sent))
        BY <3>3, LeftObserve
      <4> QED BY <2>1, <3>2, <3>7, <4>1 DEF Becomes, Left
    <3>8. CASE /\ ~c.completed /\ c.started /\ c.pending = 0
               /\ Becomes([v EXCEPT !.lab = Asked(@, requested + 1, t, safe)])
      <4>1. [v EXCEPT !.lab = Asked(@, requested + 1, t, safe)]
              = Left(s, put(safe), Asked(lab, requested + 1, t, safe), answered)
        BY SMTT(30), <3>4 DEF Left
      <4> QED BY <2>1, <3>8, <4>1 DEF Becomes, Left
    <3> QED BY SMTT(30), <3>5, <3>6, <3>7, <3>8
  <2>2. CASE ~more
    BY ZenonT(60), <2>2 DEF OnServerRequest
  <2> QED BY <2>1, <2>2
<1>5. /\ said' = [said EXCEPT ![s] = said[s]] /\ said[s] \in SUBSET Outcome
      /\ failed' \subseteq Session \X {"discovery", "main"} /\ current' = current
      /\ \A t \in Session \ {s} : \A k : <<t, k>> \in alive' <=> <<t, k>> \in alive
      /\ s < current => alive' \subseteq alive
  BY <1>1 DEF Inv, TypeOK
<1>6. CASE Becomes(Observe(Now, s, Plain("unsupported-request"))) /\ UNCHANGED requested
  <2> HIDE DEF c, l
  <2> QED BY <1>1, <1>2, <1>3, <1>6, RestKeeps DEF rest
<1>7. CASE more /\ \E sent \in BOOLEAN :
                      /\ lab' \in {lab, l} /\ ctx' = ctx /\ answered' = b(sent)
  <2>1. PICK sent \in BOOLEAN : /\ lab' \in {lab, l} /\ ctx' = ctx /\ answered' = b(sent)
    BY <1>7
  <2>2. answered' \in {answered, [answered EXCEPT ![requested + 1] = @ + 1]}
    BY <2>1
  <2>3. RequestsAreHeld' /\ AnsweredOnce' /\ requested' \in 0 .. MaxRequests
    BY <1>7, <2>1, <2>2, RequestsCount
  <2>4. answered' \in [Request -> Nat]
    BY <2>2
  <2> HIDE DEF l
  <2>5. Fine(s, c, lab', answered', alive', said[s])
    <3>1. alive' = alive
      BY <1>1
    <3> QED BY <1>2, <1>3, <2>1, <2>4, <3>1 DEF Good, Fine
  <2>6. ctx' = [ctx EXCEPT ![s] = c]
    BY <2>1
  <2> HIDE DEF c
  <2> QED BY <1>2, <1>5, <2>3, <2>5, <2>6, FineKeeps
<1>8. CASE more /\ \E t \in Turns, safe \in BOOLEAN :
           /\ ~c.completed /\ c.started /\ c.pending = 0
           /\ lab' = Asked(lab, requested + 1, t, safe)
           /\ ctx' = [ctx EXCEPT ![s] = put(safe)] /\ answered' = answered
  <2>1. PICK t \in Turns, safe \in BOOLEAN :
           /\ ~c.completed /\ c.started /\ c.pending = 0
           /\ lab' = Asked(lab, requested + 1, t, safe)
           /\ ctx' = [ctx EXCEPT ![s] = put(safe)] /\ answered' = answered
    BY <1>8
  <2> DEFINE d == put(safe)
             r == requested + 1
  <2>2. r \in Request /\ r \in 0 .. MaxRequests
    BY <1>8 DEF Request
  <2>3. d = [c EXCEPT !.pending = r, !.safe = safe]
    OBVIOUS
  <2>4. /\ lab' \in Service /\ lab'.session = s /\ Agree(lab', d, said[s])
    <3>1. lab \in Service /\ lab.session = s /\ Agree(lab, c, said[s])
      BY <1>2 DEF Good, Fine
    <3>2. lab' = Asked(lab, r, t, safe) /\ ~c.completed /\ c.started /\ c.pending = 0
      BY <2>1
    <3> HIDE DEF c, r, d
    <3>3. /\ Asked(lab, r, t, safe) \in Service /\ Asked(lab, r, t, safe).session = lab.session
          /\ Agree(Asked(lab, r, t, safe), [c EXCEPT !.pending = r, !.safe = safe], said[s])
      <4>1. c \in Context /\ Fits(s, c)
        BY <1>2
      <4> QED BY <2>2, <3>1, <3>2, <4>1, AskedAgrees, Zenon
    <3> QED BY <2>3, <3>1, <3>2, <3>3
  <2> HIDE DEF r, d
  <2>5. /\ d \in Context /\ d.run = c.run /\ d.reply = c.reply /\ d.close = c.close
        /\ d.stops = c.stops /\ d.asked = c.asked /\ d.stopped = c.stopped
        /\ d.blocked = c.blocked /\ d.conn = c.conn /\ d.attempted = c.attempted
        /\ d.turn = c.turn /\ d.started = c.started /\ d.completed = c.completed
        /\ d.pending = r /\ d.fatal = c.fatal /\ d.expectedClose = c.expectedClose
    <3> HIDE DEF c
    <3> QED BY <1>2, <2>2, <2>3 DEF Context
  <2>6. Fits(s, d)
    BY <1>2, <2>1, <2>5 DEF Fits
  <2>7. Fine(s, d, lab', answered', alive', said[s])
    <3>1. alive' = alive
      BY <1>1
    <3> QED BY <1>2, <2>1, <2>4, <2>5, <2>6, <3>1 DEF Good, Fine
  <2>8. ctx' = [ctx EXCEPT ![s] = d]
    BY <2>1 DEF d
  <2>9. RequestsAreHeld' /\ AnsweredOnce' /\ requested' \in 0 .. MaxRequests
    <3>1. ctx'[s].pending = requested + 1 /\ \A u \in Session \ {s} : ctx'[u].pending = ctx[u].pending
      BY <2>5, <2>8 DEF r
    <3> QED BY <1>8, <2>1, <3>1, RequestsCount
  <2> HIDE DEF c
  <2> QED BY <1>2, <1>5, <2>7, <2>8, <2>9, FineKeeps
<1> QED BY ZenonT(60), <1>4, <1>6, <1>7, <1>8

-----------------------------------------------------------------------------
(* The end of a child *)

\* The child of a session has gone, and so has the connection if the session is
\* current.
LEMMA GoodGone ==
  ASSUME Inv, NEW s \in Session, NEW c, NEW l, NEW a, NEW told, NEW kind, NEW A,
         Good(s, c, l, a, alive, told), <<s, kind>> \in alive, A = alive \ {<<s, kind>>},
         NEW d \in Context, Fits(s, d), d.run # "none",
         d.run \in RpcStage => d.reply # "ok",
         d.conn = IF s = current THEN "none" ELSE c.conn,
         d.close = c.close, d.blocked = c.blocked, d.pending = c.pending, d.safe = c.safe,
         d.completed = c.completed, s = current => Agree(l, d, told)
  PROVE  Good(s, d, l, a, A, told)
<1>1. c.conn = kind /\ \A k : <<s, k>> \in alive => k = kind
  BY DEF Good, Fine
<1>2. A \subseteq alive /\ \A k : <<s, k>> \notin A
  BY <1>1
<1>3. Settles(s, d, a)
  BY DEF Good, Settles
<1>4. Fine(s, d, l, a, A, told)
  BY <1>2 DEF Good, Fine
<1> QED BY <1>3, <1>4 DEF Good

LEMMA ExitKeeps ==
  ASSUME Inv, NEW s \in Session, s <= current, NEW w, Becomes(w), NEW c, NEW l, NEW a, NEW kind,
         w = Left(s, c, l, a), Good(s, c, l, a, alive \ {<<s, kind>>}, said[s]),
         alive' = alive \ {<<s, kind>>}, failed' \subseteq failed,
         UNCHANGED <<current, requested, said>>
  PROVE  Inv' /\ CompletedStay
<1>1. /\ said' = [said EXCEPT ![s] = said[s]] /\ said[s] \in SUBSET Outcome
      /\ failed' \subseteq Session \X {"discovery", "main"}
  BY Types DEF Inv, TypeOK
<1>2. Good(s, c, l, a, alive', said[s])
  OBVIOUS
<1>3. /\ \A t \in Session \ {s} : \A k : <<t, k>> \in alive' <=> <<t, k>> \in alive
      /\ alive' \subseteq alive
  OBVIOUS
<1> QED BY <1>1, <1>2, <1>3, GoodKeeps

\* When the child exits nothing is due: no answer is waiting to be handled.
LEMMA IdleWaits ==
  ASSUME Idle, NEW s \in Session, ctx[s] \in Context, ctx[s].run \in RpcStage
  PROVE  ctx[s].reply = "waiting"
  BY DEF Idle, RunDue, Context

LEMMA DiscoveryExitsKeeps ==
  ASSUME Inv, NEW s \in Session, DiscoveryExits(s)
  PROVE  Inv' /\ CompletedStay
<1> DEFINE c == ctx[s]
           u == Rejected(Now, s)
           e == Rejecting(c)
           q == IF s = current THEN "none" ELSE "discovery"
           v == [u EXCEPT !.ctx[s].conn = IF current = s /\ @ = "discovery" THEN "none" ELSE @]
           d == [e EXCEPT !.conn = q]
           x == [v EXCEPT !.ctx[s].ended = TRUE]
           y == [v EXCEPT !.ctx[s].fatal = TRUE, !.ctx[s].ended = TRUE]
           A == alive \ {<<s, "discovery">>}
           ends(z, expected) == Observe(z, s, ChildClosed(expected))
<1>1. /\ Idle /\ <<s, "discovery">> \in alive /\ alive' = A
      /\ failed' \subseteq failed /\ UNCHANGED <<current, requested, said>>
      /\ \/ /\ ~(c.stopped \/ c.expectedClose \/ c.fatal)
            /\ Becomes(Observe(ends(y, FALSE), s, Plain("protocol-failure")))
         \/ Becomes(ends(x, TRUE))
         \/ Becomes(v)
  BY DEF DiscoveryExits
<1>2. /\ s <= current /\ c \in Context /\ Fits(s, c) /\ Now = Left(s, c, lab, answered)
      /\ Good(s, c, lab, answered, alive, said[s])
  BY <1>1, Stands
<1>3. c.run \in RpcStage => c.reply = "waiting"
  BY <1>1, <1>2, IdleWaits
<1>4. c.conn = "discovery"
  BY <1>1, <1>2 DEF Good, Fine
<1> HIDE DEF c
<1>5. /\ u = Left(s, e, lab, answered) /\ Good(s, e, lab, answered, alive, said[s])
  BY <1>2, GoodRejects
<1>6. e = Rejecting(c)
  OBVIOUS
<1> HIDE DEF e, u
<1>7. /\ e \in Context /\ e.run = c.run /\ e.conn = "discovery" /\ e.stopped = c.stopped
      /\ e.fatal = c.fatal /\ e.expectedClose = c.expectedClose
      /\ c.run \in RpcStage => e.reply = "error"
  BY ZenonT(60), <1>2, <1>3, <1>4, <1>6, RejectingFields
<1>8. /\ Fits(s, e) /\ e.run # "none" /\ ~e.attempted /\ ~e.completed /\ ~e.blocked
      /\ e.run \in RpcStage => e.reply = "error"
      /\ e.run \in Early => e.run \in {"discovery", "closing"}
  <2>1. Fits(s, e) /\ e.run # "none"
    BY <1>5 DEF Good, Fine
  <2> QED BY <1>7, <2>1 DEF Fits, Early
<1> HIDE DEF A
<1>9. v = [u EXCEPT !.ctx[s] = d]
  <2>1. u.ctx[s] = e
    BY <1>5, LeftFields
  <2> QED BY <1>7, <2>1
<1>10. ASSUME NEW g \in Context, g.run = e.run, g.reply = e.reply, g.stops = e.stops,
              g.asked = e.asked, g.stopped = e.stopped, g.blocked = e.blocked, g.conn = q,
              g.attempted = e.attempted, g.turn = e.turn, g.started = e.started,
              g.completed = e.completed, g.pending = e.pending, g.safe = e.safe,
              g.close = e.close,
              g.expectedClose = e.expectedClose,
              g.fatal = e.fatal \/ ~e.expectedClose
       PROVE  Good(s, g, lab, answered, A, said[s])
  <2>1. Fits(s, g)
    BY <1>7, <1>8, <1>10 DEF Fits, Early, RpcStage
  <2>2. s = current => Agree(lab, g, said[s])
    <3> SUFFICES ASSUME s = current PROVE Agree(lab, g, said[s])
      OBVIOUS
    <3>1. lab \in Service /\ Agree(lab, e, said[s])
      BY <1>5 DEF Good, Fine
    <3>2. lab.status \notin Terminal \ {"stopped"}
      BY <1>7, <1>8, <3>1, NotOver
    <3> QED BY <1>8, <1>10, <3>1, <3>2 DEF Agree, Knows
  <2>3. g.conn = IF s = current THEN "none" ELSE e.conn
    BY <1>7, <1>10
  <2>4. g.run # "none" /\ (g.run \in RpcStage => g.reply # "ok")
    BY <1>8, <1>10
  <2> HIDE DEF q
  <2> QED BY <1>1, <1>5, <1>10, <2>1, <2>2, <2>3, <2>4, GoodGone DEF A
<1>11. /\ d \in Context /\ d.run = e.run /\ d.reply = e.reply /\ d.stops = e.stops
       /\ d.asked = e.asked /\ d.stopped = e.stopped /\ d.blocked = e.blocked /\ d.conn = q
       /\ d.attempted = e.attempted /\ d.turn = e.turn /\ d.started = e.started
       /\ d.completed = e.completed /\ d.pending = e.pending /\ d.safe = e.safe
       /\ d.close = e.close
       /\ d.expectedClose = e.expectedClose /\ d.fatal = e.fatal
  BY <1>7 DEF Context
<1> HIDE DEF d, q, v
<1>12. v = Left(s, d, lab, answered)
  BY <1>5, <1>9, LeftFields
<1>13. v.ctx[s] = d
  BY <1>12, LeftFields
<1>14. Good(s, d, lab, answered, A, said[s])
  BY <1>10, <1>11
<1>15. CASE Becomes(v)
  BY <1>1, <1>2, <1>12, <1>14, <1>15, ExitKeeps DEF A
<1>16. CASE Becomes(ends(x, TRUE))
  <2> DEFINE g == [d EXCEPT !.ended = TRUE]
  <2>1. x = [v EXCEPT !.ctx[s] = g]
    BY <1>13
  <2>2. /\ g \in Context /\ g.run = d.run /\ g.reply = d.reply /\ g.stops = d.stops
        /\ g.asked = d.asked /\ g.stopped = d.stopped /\ g.blocked = d.blocked /\ g.conn = d.conn
        /\ g.attempted = d.attempted /\ g.turn = d.turn /\ g.started = d.started
        /\ g.completed = d.completed /\ g.pending = d.pending /\ g.safe = d.safe
        /\ g.close = d.close
        /\ g.expectedClose = d.expectedClose /\ g.fatal = d.fatal
    BY <1>11 DEF Context
  <2> HIDE DEF g, x
  <2>3. x = Left(s, g, lab, answered) /\ Good(s, g, lab, answered, A, said[s])
    BY <1>10, <1>11, <1>12, <2>1, <2>2, LeftFields
  <2>4. ~g.blocked
    BY <1>8, <1>11, <2>2
  <2>5. ASSUME NEW expected \in BOOLEAN, expected
        PROVE  \E m : /\ ends(x, expected) = Left(s, g, m, answered)
                      /\ Good(s, g, m, answered, A, said[s])
    <3>1. ~expected => g.stopped \/ g.run \notin Early \/ (g.run \in RpcStage /\ g.reply = "error")
      BY <2>5
    <3>2. \E m : /\ Observe(x, s, ChildClosed(expected)) = Left(s, g, m, answered)
                 /\ Good(s, g, m, answered, A, said[s])
      BY <2>3, <2>4, <3>1, GoodEnds
    <3> QED BY <3>2
  <2> HIDE DEF ends
  <2>6. \E m : ends(x, TRUE) = Left(s, g, m, answered) /\ Good(s, g, m, answered, A, said[s])
    BY <2>5, Zenon
  <2> QED BY <1>1, <1>2, <1>16, <2>6, ExitKeeps DEF A
<1>17. CASE /\ ~(c.stopped \/ c.expectedClose \/ c.fatal)
            /\ Becomes(Observe(ends(y, FALSE), s, Plain("protocol-failure")))
  <2> DEFINE g == [d EXCEPT !.fatal = TRUE, !.ended = TRUE]
  <2>1. y = [v EXCEPT !.ctx[s] = g]
    BY <1>13
  <2>2. /\ g \in Context /\ g.run = d.run /\ g.reply = d.reply /\ g.stops = d.stops
        /\ g.asked = d.asked /\ g.stopped = d.stopped /\ g.blocked = d.blocked /\ g.conn = d.conn
        /\ g.attempted = d.attempted /\ g.turn = d.turn /\ g.started = d.started
        /\ g.completed = d.completed /\ g.pending = d.pending /\ g.safe = d.safe
        /\ g.close = d.close
        /\ g.expectedClose = d.expectedClose /\ g.fatal
    BY <1>11 DEF Context
  <2> HIDE DEF g, y
  <2>3. g.fatal = (e.fatal \/ ~e.expectedClose)
    BY <1>7, <1>17, <2>2
  <2>4. y = Left(s, g, lab, answered) /\ Good(s, g, lab, answered, A, said[s])
    <3>1. Good(s, g, lab, answered, A, said[s])
      BY <1>10, <1>11, <2>2, <2>3
    <3>2. y = Left(s, g, lab, answered)
      BY <1>12, <2>1, LeftFields
    <3> QED BY <3>1, <3>2
  <2>5. ~g.blocked /\ (g.run \in Early => g.run \in RpcStage /\ g.reply = "error")
    BY <1>7, <1>8, <1>11, <1>17, <2>2 DEF Fits, RpcStage
  <2>6. \A expected \in BOOLEAN :
          \E m : ends(y, expected) = Left(s, g, m, answered) /\ Good(s, g, m, answered, A, said[s])
    BY <2>4, <2>5, GoodEnds
  <2> HIDE DEF ends
  <2>7. PICK m : ends(y, FALSE) = Left(s, g, m, answered) /\ Good(s, g, m, answered, A, said[s])
    BY <2>6, Zenon
  <2> DEFINE z == ends(y, FALSE)
  <2>8. z = Left(s, g, m, answered)
    BY <2>7
  <2> HIDE DEF z
  <2>9. \E n : /\ Observe(z, s, Plain("protocol-failure")) = Left(s, g, n, answered)
               /\ Good(s, g, n, answered, A, said[s])
    BY <2>5, <2>7, <2>8, GoodUnconfirmed
  <2> QED BY <1>1, <1>2, <1>17, <2>9, ExitKeeps DEF A, z
<1> QED BY <1>1, <1>15, <1>16, <1>17

\* What the end of the main child leaves of its session: its requests refused, its
\* approval revoked and its connection gone.
LEMMA MainGone ==
  ASSUME Inv, NEW s \in Session, Idle, <<s, "main">> \in alive, NEW expected \in BOOLEAN,
         expected <=> ctx[s].stopped \/ ctx[s].expectedClose
  PROVE  LET c == ctx[s]
             told == Observe(CancelPending(Rejected(Now, s), s, FALSE), s, ChildClosed(expected))
             v == IF expected \/ c.completed \/ c.fatal THEN told
                  ELSE Observe([told EXCEPT !.ctx[s].fatal = TRUE], s, Plain("protocol-failure"))
             u == [v EXCEPT !.ctx[s].ended = TRUE,
                            !.ctx[s].conn = IF current = s THEN "none" ELSE @]
         IN \E d, m, b : /\ u = Left(s, d, m, b)
                         /\ Good(s, d, m, b, alive \ {<<s, "main">>}, said[s])
<1> DEFINE c == ctx[s]
           r == Rejected(Now, s)
           e == Rejecting(c)
           can(sent) == CancelPending(r, s, sent)
           f == Cancelled(e)
           told == Observe(can(FALSE), s, ChildClosed(expected))
           x == [told EXCEPT !.ctx[s].fatal = TRUE]
           v == IF expected \/ c.completed \/ c.fatal THEN told
                ELSE Observe(x, s, Plain("protocol-failure"))
           u == [v EXCEPT !.ctx[s].ended = TRUE,
                          !.ctx[s].conn = IF current = s THEN "none" ELSE @]
           A == alive \ {<<s, "main">>}
<1>1. /\ s <= current /\ c \in Context /\ Now = Left(s, c, lab, answered)
      /\ Good(s, c, lab, answered, alive, said[s])
  BY Stands
<1>2. c.run \in RpcStage => c.reply = "waiting"
  BY <1>1, IdleWaits
<1>3. c.conn = "main"
  BY <1>1 DEF Good, Fine
<1> SUFFICES \E d, m, b : u = Left(s, d, m, b) /\ Good(s, d, m, b, A, said[s])
  BY ZenonT(60)
<1> HIDE DEF c
<1>4. r = Left(s, e, lab, answered) /\ Good(s, e, lab, answered, alive, said[s])
  BY <1>1, GoodRejects
<1> HIDE DEF r
<1>5. /\ e \in Context /\ e.run = c.run /\ e.conn = "main"
      /\ e.stopped = c.stopped /\ e.completed = c.completed /\ e.fatal = c.fatal
      /\ c.run \in RpcStage => e.reply = "error"
  <2>1. e = Rejecting(c)
    OBVIOUS
  <2> HIDE DEF e
  <2> QED BY ZenonT(60), <1>1, <1>2, <1>3, <2>1, RejectingFields
<1> HIDE DEF e
<1>6. PICK m, b : can(FALSE) = Left(s, f, m, b) /\ Good(s, f, m, b, alive, said[s])
  <2>1. \A sent \in BOOLEAN :
          \E m, b : can(sent) = Left(s, f, m, b) /\ Good(s, f, m, b, alive, said[s])
    BY <1>4, LeftCancel, GoodCancels
  <2> HIDE DEF can, f
  <2> QED BY <2>1, Zenon
<1>7. /\ f \in Context /\ f.run = e.run /\ f.reply = e.reply /\ f.conn = e.conn
      /\ f.stopped = e.stopped /\ f.completed = e.completed /\ f.fatal = e.fatal
  <2>1. f = Cancelled(e)
    OBVIOUS
  <2> HIDE DEF f
  <2> QED BY <1>5, <2>1, CancelledFields
<1> DEFINE y == can(FALSE)
<1>8. y = Left(s, f, m, b)
  BY <1>6
<1> HIDE DEF f, y
<1>9. /\ f.run \in Early => f.run \in RpcStage /\ f.reply = "error"
      /\ ~f.blocked /\ Fits(s, f) /\ f.run # "none"
  <2>1. Fits(s, f) /\ f.run # "none"
    BY <1>6 DEF Good, Fine
  <2> QED BY <1>5, <1>7, <2>1 DEF Fits, Early, RpcStage
<1>10. PICK n : /\ told = Left(s, f, n, b) /\ Good(s, f, n, b, alive, said[s])
                /\ s = current => n.child = "closed"
  <2>1. PICK n : /\ Observe(y, s, ChildClosed(expected)) = Left(s, f, n, b)
                 /\ Good(s, f, n, b, alive, said[s])
                 /\ s = current => n.child = "closed"
    BY <1>6, <1>8, <1>9, GoodEnds
  <2> QED BY <2>1 DEF y
<1> HIDE DEF told
<1>11. \E g, k : /\ v = Left(s, g, k, b) /\ Good(s, g, k, b, alive, said[s])
                 /\ s = current => k.child = "closed"
                 /\ g.run \in Early => g.run \in RpcStage /\ g.reply = "error"
                 /\ g.conn = "main" /\ g.run # "none" /\ (g.run \in RpcStage => g.reply # "ok")
  <2>0. f.run \in RpcStage => f.reply = "error"
    BY <1>5, <1>7
  <2>1. CASE expected \/ c.completed \/ c.fatal
    BY <1>5, <1>7, <1>9, <1>10, <2>0, <2>1
  <2>2. CASE ~(expected \/ c.completed \/ c.fatal)
    <3> DEFINE g == [f EXCEPT !.fatal = TRUE]
    <3>1. told.ctx[s] = f
      BY <1>10, LeftFields
    <3>2. x = [told EXCEPT !.ctx[s] = g]
      BY <3>1
    <3>3. /\ g \in Context /\ g.run = f.run /\ g.reply = f.reply /\ g.stops = f.stops
          /\ g.asked = f.asked /\ g.stopped = f.stopped /\ g.blocked = f.blocked
          /\ g.conn = f.conn /\ g.attempted = f.attempted /\ g.turn = f.turn
          /\ g.started = f.started /\ g.completed = f.completed /\ g.pending = f.pending /\ g.safe = f.safe
          /\ g.close = f.close /\ g.expectedClose = f.expectedClose /\ g.fatal
      BY <1>7 DEF Context
    <3> HIDE DEF g, x
    <3>4. Fits(s, g)
      BY <1>9, <3>3 DEF Fits
    <3>5. s = current => Agree(n, g, said[s])
      <4>1. s = current => Agree(n, f, said[s])
        BY <1>10 DEF Good, Fine
      <4> QED BY <3>3, <4>1 DEF Agree, Knows
    <3>6. Good(s, g, n, b, alive, said[s])
      BY <1>9, <1>10, <3>3, <3>4, <3>5, GoodPut
    <3>7. x = Left(s, g, n, b)
      BY <1>10, <3>2, LeftFields
    <3>8. g.run \in Early => g.run \in RpcStage /\ g.reply = "error"
      BY <1>9, <3>3
    <3>9. PICK k : /\ Observe(x, s, Plain("protocol-failure")) = Left(s, g, k, b)
                   /\ Good(s, g, k, b, alive, said[s])
                   /\ s = current /\ n.child = "closed" => k.child = "closed"
      BY <3>6, <3>7, <3>8, GoodUnconfirmed
    <3>10. v = Left(s, g, k, b)
      BY <2>2, <3>9
    <3> HIDE DEF v
    <3> QED BY <1>5, <1>7, <1>9, <1>10, <2>0, <3>3, <3>8, <3>9, <3>10
  <2> QED BY <2>1, <2>2
<1> HIDE DEF v
<1>12. PICK g, k : /\ v = Left(s, g, k, b) /\ Good(s, g, k, b, alive, said[s])
                   /\ s = current => k.child = "closed"
                   /\ g.run \in Early => g.run \in RpcStage /\ g.reply = "error"
                   /\ g.conn = "main" /\ g.run # "none" /\ (g.run \in RpcStage => g.reply # "ok")
  BY <1>11
<1> DEFINE q == IF s = current THEN "none" ELSE "main"
           d == [g EXCEPT !.ended = TRUE, !.conn = q]
<1>13. g \in Context /\ Fits(s, g)
  BY <1>12 DEF Good, Fine
<1>14. u = [v EXCEPT !.ctx[s] = d]
  <2>1. v.ctx[s] = g
    BY <1>12, LeftFields
  <2> QED BY ZenonT(60), <1>12, <2>1
<1>15. /\ d \in Context /\ d.run = g.run /\ d.reply = g.reply /\ d.stops = g.stops
       /\ d.asked = g.asked /\ d.stopped = g.stopped /\ d.blocked = g.blocked /\ d.conn = q
       /\ d.attempted = g.attempted /\ d.turn = g.turn /\ d.started = g.started
       /\ d.completed = g.completed /\ d.pending = g.pending /\ d.safe = g.safe
       /\ d.close = g.close
       /\ d.expectedClose = g.expectedClose /\ d.fatal = g.fatal
  BY <1>13 DEF Context
<1> HIDE DEF d, u, A
<1>16. Fits(s, d)
  BY <1>12, <1>13, <1>15 DEF Fits, RpcStage
<1>17. s = current => Agree(k, d, said[s])
  <2>1. s = current => Agree(k, g, said[s])
    BY <1>12 DEF Good, Fine
  <2> QED BY <1>12, <1>15, <2>1 DEF Agree, Knows
<1>18. Good(s, d, k, b, A, said[s])
  <2>1. /\ d.run # "none" /\ (d.run \in RpcStage => d.reply # "ok")
        /\ d.conn = IF s = current THEN "none" ELSE g.conn
    BY <1>12, <1>15
  <2> HIDE DEF q
  <2> QED BY <1>12, <1>15, <1>16, <1>17, <2>1, GoodGone DEF A
<1>19. u = Left(s, d, k, b)
  BY <1>12, <1>14, LeftFields
<1> QED BY <1>18, <1>19

\* A step of the session that becomes current, or is, and of the one before it.
LEMMA PairKeeps ==
  ASSUME Inv, NEW s \in Session, NEW p, p = s - 1, current \in {s, p}, current' = s,
         TypeOK',
         \A t \in Session \ {s, p} : ctx'[t] = ctx[t],
         Fits(s, ctx'[s]), ctx'[s].run # "none",
         p \in Session => /\ Fits(p, ctx'[p]) /\ ctx'[p].run # "none" /\ ctx'[p].close # "null"
                          /\ ctx'[p].run \in RpcStage /\ ctx'[p].reply = "ok"
                               => Conn(ctx', p) \in alive',
         lab'.session = s, Agree(lab', ctx'[s], said'[s]),
         alive' \subseteq alive, \A child \in alive : child[1] \in {s, p},
         \A child \in alive' : /\ ctx'[child[1]].conn = child[2] /\ ctx'[child[1]].close # "true"
                               /\ child[1] = p => ctx'[s].blocked,
         ctx'[s].conn # "none" => Conn(ctx', s) \in alive',
         ctx'[s].run \in RpcStage /\ ctx'[s].reply = "ok" => Conn(ctx', s) \in alive',
         RequestsAreHeld', AnsweredOnce',
         \A t \in Session \cap {s, p} : ctx[t].completed => ctx'[t].completed
  PROVE  Inv' /\ CompletedStay
<1> USE Types
<1>1. current' # 0 /\ p < s /\ p \in Nat
  OBVIOUS
<1>2. \A t \in Session : t \in Session \ {s, p} \/ t = s \/ t = p
  OBVIOUS
<1>3. ASSUME NEW t \in Session
      PROVE  /\ Fits(t, ctx'[t]) /\ (t > s => ctx'[t] = NewContext)
             /\ (t <= s => ctx'[t].run # "none") /\ (t < s => ctx'[t].close # "null")
  <2>1. CASE t = s
    BY <2>1
  <2>2. CASE t = p
    BY <1>1, <2>2
  <2>3. CASE t \notin {s, p}
    <3>1. /\ Fits(t, ctx[t]) /\ (t > current => ctx[t] = NewContext)
          /\ (t <= current => ctx[t].run # "none") /\ (t < current => ctx[t].close # "null")
      BY DEF Inv, InStep
    <3>2. (t > s => t > current) /\ (t <= s => t < current)
      BY <1>1, <2>3
    <3> QED BY <2>3, <3>1, <3>2
  <2> QED BY <2>1, <2>2, <2>3
<1>4. ChildrenAreHeld'
  <2>1. ASSUME NEW child \in alive'
        PROVE  LET t == child[1]
               IN /\ t <= s /\ ctx'[t].conn = child[2] /\ ctx'[t].close # "true"
                  /\ t < s => t = s - 1 /\ ctx'[s].blocked
    <3>1. child[1] = s \/ child[1] = p
      OBVIOUS
    <3> QED BY <1>1, <3>1
  <2>2. ASSUME NEW t \in Session, ctx'[t].run \in RpcStage, ctx'[t].reply = "ok"
        PROVE  Conn(ctx', t) \in alive'
    <3>1. CASE t \notin {s, p}
      <4>1. ctx'[t] = ctx[t]
        BY <3>1
      <4>2. <<t, ctx[t].conn>> \in alive
        BY <2>2, <4>1 DEF Inv, InStep, ChildrenAreHeld, Conn
      <4> QED BY <3>1, <4>2
    <3>2. CASE t = s
      BY <2>2, <3>2
    <3>3. CASE t = p
      BY <2>2, <3>3
    <3> QED BY <3>1, <3>2, <3>3
  <2> QED BY <2>1, <2>2 DEF ChildrenAreHeld
<1>5. Inv'
  BY <1>1, <1>3, <1>4, Together
<1>6. CompletedStay
  BY <1>2 DEF CompletedStay
<1> QED BY <1>5, <1>6

\* The end of the main child, which the session that waits for it is told too.
LEMMA MainExitsKeeps ==
  ASSUME Inv, NEW s \in Session, MainExits(s)
  PROVE  Inv' /\ CompletedStay
<1> USE Types
<1> DEFINE c == ctx[s]
           expected == c.stopped \/ c.expectedClose
           told == Observe(CancelPending(Rejected(Now, s), s, FALSE), s, ChildClosed(expected))
           v == IF expected \/ c.completed \/ c.fatal THEN told
                ELSE Observe([told EXCEPT !.ctx[s].fatal = TRUE], s, Plain("protocol-failure"))
           u == [v EXCEPT !.ctx[s].ended = TRUE,
                          !.ctx[s].conn = IF current = s THEN "none" ELSE @]
           x == [u EXCEPT !.ctx[current].blocked = FALSE]
           w == Observe(x, current, ChildClosed(expected))
           A == alive \ {<<s, "main">>}
           waits == current = s + 1 /\ ctx[current].blocked
<1>1. /\ Idle /\ <<s, "main">> \in alive /\ alive' = A
      /\ failed' \subseteq failed /\ UNCHANGED <<current, requested, said>>
      /\ Becomes(IF waits THEN w ELSE u)
  BY ZenonT(60) DEF MainExits
<1>2. s <= current /\ c \in Context /\ Fits(s, c)
  BY ZenonT(60), <1>1, Stands
<1>3. expected \in BOOLEAN
  BY SMTT(30), <1>2 DEF Context
<1>4. PICK d, m, b : u = Left(s, d, m, b) /\ Good(s, d, m, b, A, said[s])
  BY ZenonT(60), <1>1, <1>3, MainGone
<1>5. waits => expected
  BY <1>2 DEF Inv, InStep, Fits
<1> HIDE DEF c, expected, u, A
<1>6. CASE ~waits
  BY <1>1, <1>2, <1>4, <1>6, ExitKeeps DEF A
<1>7. CASE waits
  <2> DEFINE z == current
             g == ctx[z]
             e == Unblocked(g)
             l == Observed(lab, ChildClosed(expected))
  <2>1. z \in Session /\ s = z - 1 /\ s # z /\ g.blocked
    BY <1>7 DEF Session
  <2>2. /\ g \in Context /\ Fits(z, g) /\ g.run # "none" /\ lab.session = z
        /\ Agree(lab, g, said[z])
    <3>1. z <= current /\ said[z] \subseteq said[z]
      OBVIOUS
    <3>2. Good(z, g, lab, answered, alive, said[z])
      BY <2>1, <3>1, StandsGood
    <3> QED BY <3>2 DEF Good, Fine
  <2>3. m = lab /\ d \in Context /\ Settles(s, d, b)
    BY <1>4, <2>1 DEF Good, Fine
  <2>4. x = [lab |-> lab, ctx |-> [[ctx EXCEPT ![s] = d] EXCEPT ![z] = e], answered |-> b]
    <3>1. u = [lab |-> lab, ctx |-> [ctx EXCEPT ![s] = d], answered |-> b]
      BY <1>4, <2>3 DEF Left
    <3>2. u.ctx[z] = g
      BY <2>1, <3>1
    <3>3. x = [u EXCEPT !.ctx[z] = e]
      BY <3>2 DEF Unblocked
    <3> HIDE DEF e, x, z
    <3> QED BY <3>1, <3>3
  <2>5. /\ e \in Context /\ e.run = g.run /\ e.reply = g.reply /\ e.stops = g.stops
        /\ e.asked = g.asked /\ e.stopped = g.stopped /\ ~e.blocked
        /\ e.conn = g.conn /\ e.attempted = g.attempted /\ e.turn = g.turn
        /\ e.started = g.started /\ e.completed = g.completed /\ e.pending = g.pending /\ e.safe = g.safe
        /\ e.close = g.close /\ e.expectedClose = g.expectedClose /\ e.fatal = g.fatal
    BY <2>2, UnblockedFields
  <2> HIDE DEF e, x
  <2>6. /\ lab' = l /\ answered' = b
        /\ ctx' = [[ctx EXCEPT ![s] = d] EXCEPT ![z] = e]
    BY <1>1, <1>7, <2>2, <2>4 DEF Becomes, Observe
  <2> HIDE DEF g
  <2>7. Fits(z, e) /\ Agree(lab, e, said[z])
    <3>1. Fits(z, e)
      BY <2>2, <2>5 DEF Fits
    <3>2. Agree(lab, e, said[z])
      BY <2>2, <2>5 DEF Agree, Knows
    <3> QED BY <3>1, <3>2
  <2>8. l \in Service /\ l.session = z /\ Agree(l, e, said[z])
    BY <1>3, <1>5, <1>7, <2>2, <2>5, <2>7, ChildClosedAgrees
  <2> HIDE DEF l
  <2>9. /\ ctx' \in [Session -> Context] /\ ctx'[s] = d /\ ctx'[z] = e
        /\ \A t \in Session \ {z, s} : ctx'[t] = ctx[t]
    BY <2>1, <2>3, <2>5, <2>6
  <2>10. e.conn = "none" /\ e.run \in {"previous", "done"}
    BY <2>1, <2>2, <2>5 DEF Fits, g
  <2>11. A = {} /\ \A child \in alive : child[1] = s
    <3>1. ASSUME NEW child \in alive PROVE child = <<s, "main">>
      <4>1. /\ child = <<child[1], child[2]>> /\ child[1] \in Session
            /\ child[2] \in {"discovery", "main"}
        BY DEF Inv, TypeOK
      <4>2. /\ child[1] <= z /\ ctx[child[1]].conn = child[2]
            /\ child[1] < z => child[1] = z - 1
        BY DEF Inv, InStep, ChildrenAreHeld
      <4>3. child[1] # z
        BY <2>5, <2>10, <4>1, <4>2 DEF g
      <4>4. child[1] = s
        BY <2>1, <4>1, <4>2, <4>3
      <4>5. ctx[s].conn = "main"
        BY <1>1 DEF Inv, InStep, ChildrenAreHeld
      <4> QED BY <4>1, <4>2, <4>4, <4>5
    <3> QED BY <3>1 DEF A
  <2>12. /\ Fits(s, d) /\ d.run # "none" /\ d.close # "null"
         /\ d.run \in RpcStage => d.reply # "ok"
         /\ ctx[s].completed => d.completed
    BY <1>4, <2>1, <2>11 DEF Good, Fine
  <2>13. RequestsAreHeld' /\ AnsweredOnce'
    <3>1. \A t \in Session \ {s} : ctx'[t].pending \in {0, ctx[t].pending}
      BY <2>5, <2>9 DEF g
    <3> QED BY <1>1, <2>3, <2>6, <2>9, <3>1, RequestsStay
  <2>14. TypeOK'
    BY <1>1, <1>4, <2>6, <2>8, <2>9, <2>11 DEF Inv, TypeOK, Good, Fine
  <2>15. ctx[z].completed => e.completed
    BY <2>5 DEF g
  <2> HIDE DEF z
  <2>16. /\ current = z /\ current' = z /\ said' = said /\ alive' = {}
    BY <1>1, <2>11 DEF z
  <2>17. RpcStage \cap {"previous", "done"} = {}
    BY DEF RpcStage
  <2> QED BY <2>1, <2>6, <2>7, <2>8, <2>9, <2>10, <2>11, <2>12, <2>13, <2>14, <2>15, <2>16, <2>17, PairKeeps
<1> QED BY SMTT(30), <1>6, <1>7

-----------------------------------------------------------------------------
(* The operations of the service *)

\* What the service says of a session that begins.
LEMMA BeginsAgree ==
  ASSUME NEW l \in Service, NEW n, n.stopped = FALSE, n.completed = FALSE, n.turn = NoTurn,
         n.attempted = FALSE, n.started = FALSE, NEW told
  PROVE  LET m == Observed(Started(l), ChildIs("starting"))
         IN m \in Service /\ m.session = l.session + 1 /\ Agree(m, n, told)
<1> DEFINE r == Started(l)
           m == Observed(r, ChildIs("starting"))
<1>1. /\ r.status = "starting" /\ r.turnStatus = "not-started" /\ r.turn = NoTurn
      /\ r.approval = NoApproval /\ r.session = l.session + 1 /\ r \in Service
  <2>1. InitialService \in Service
    BY DEF InitialService, Service, Status, Approval, NoApproval
  <2>2. InitialService.turnStatus = "not-started" /\ InitialService.turn = NoTurn
        /\ InitialService.approval = NoApproval
    BY DEF InitialService
  <2>3. l.session + 1 \in Nat
    BY DEF Service
  <2> QED BY <2>1, <2>2, <2>3 DEF Started, Service, Status
<1>2. m = [Recorded(r) EXCEPT !.child = "starting"]
  BY <1>1 DEF Observed, Ignores, ChildIs, ChildStatusApplied, Progress, Terminal
<1> HIDE DEF r, m
<1>3. /\ m \in Service /\ m.status = "starting" /\ m.turnStatus = "not-started" /\ m.turn = NoTurn
      /\ m.child = "starting" /\ m.session = l.session + 1 /\ m.approval.status = "cancelled"
  <2> DEFINE q == Recorded(r)
  <2>1. /\ q \in Service /\ q.status = r.status /\ q.turnStatus = r.turnStatus
        /\ q.turn = r.turn /\ q.session = r.session /\ q.approval.status = r.approval.status
    BY <1>1 DEF Recorded, Service, Approval
  <2>2. r.approval.status = "cancelled"
    BY <1>1 DEF NoApproval
  <2> HIDE DEF q
  <2>3. m = [q EXCEPT !.child = "starting"]
    BY <1>2 DEF q
  <2> QED BY <1>1, <2>1, <2>2, <2>3 DEF Service
<1>4. Agree(m, n, told)
  BY <1>3, StatusKinds DEF Agree, Knows
<1> QED BY <1>3, <1>4 DEF m, r

\* A child that is closed, or asked to, as closeContext leaves its context.
LEMMA ClosingFields ==
  ASSUME NEW s, NEW c \in Context, Fits(s, c), NEW d, d = Closing(c)
  PROVE  /\ d \in Context /\ d.run = c.run /\ d.reply = c.reply /\ d.stops = c.stops
         /\ d.asked = c.asked /\ d.stopped = c.stopped /\ d.blocked = c.blocked
         /\ d.conn = c.conn /\ d.attempted = c.attempted /\ d.turn = c.turn
         /\ d.started = c.started /\ d.completed = c.completed /\ d.pending = c.pending /\ d.safe = c.safe
         /\ d.fatal = c.fatal /\ d.close # "null" /\ d.expectedClose
         /\ d.close = "true" => c.close = "true" \/ c.conn = "none"
<1>1. CASE c.close \in {"wait", "true"}
  BY <1>1 DEF Closing, Fits
<1>2. CASE c.close \notin {"wait", "true"}
  <2> DEFINE close == IF c.conn = "none" THEN "true" ELSE "wait"
  <2>1. d = [c EXCEPT !.close = close, !.expectedClose = TRUE]
    BY <1>2 DEF Closing
  <2>2. close \in {"true", "wait"} /\ (close = "true" => c.conn = "none")
    OBVIOUS
  <2> HIDE DEF close
  <2> QED BY ZenonT(60), <2>1, <2>2 DEF Context
<1> QED BY <1>1, <1>2

\* The current session closes the child of another one: the service hears
\* nothing of that.
LEMMA ClosesOther ==
  ASSUME NEW s \in Session, NEW p \in Session, p # s, ctx \in [Session -> Context],
         NEW n, NEW l, NEW a, NEW u, u = Left(s, n, l, a), l.session = s
  PROVE  CloseContext(u, p) = [lab |-> l, ctx |-> [[ctx EXCEPT ![s] = n] EXCEPT ![p] = Closing(ctx[p])],
                               answered |-> a]
<1> DEFINE g == ctx[p]
           e == Closing(g)
           x(close) == [u EXCEPT !.ctx[p].close = close, !.ctx[p].expectedClose = TRUE]
<1>1. u.ctx[p] = g /\ u.lab.session = s
  BY DEF Left
<1>2. CASE g.close \in {"wait", "true"}
  <2>1. e = g /\ CloseContext(u, p) = u
    BY <1>1, <1>2 DEF Closing, CloseContext
  <2>2. [[ctx EXCEPT ![s] = n] EXCEPT ![p] = g] = [ctx EXCEPT ![s] = n]
    OBVIOUS
  <2> QED BY <2>1, <2>2 DEF Left
<1>3. CASE g.close \notin {"wait", "true"}
  <2>1. \A close : x(close) = [u EXCEPT !.ctx[p] = [g EXCEPT !.close = close, !.expectedClose = TRUE]]
    BY ZenonT(60), <1>1
  <2>2. CloseContext(u, p) = x(IF g.conn = "none" THEN "true" ELSE "wait")
    <3>1. g.conn = "none" => CloseContext(u, p) = x("true")
      BY <1>1, <1>3 DEF CloseContext
    <3>2. g.conn # "none" => CloseContext(u, p) = x("wait")
      BY <1>1, <1>3 DEF CloseContext, Observe, Left
    <3> QED BY <3>1, <3>2
  <2>3. e = [g EXCEPT !.close = IF g.conn = "none" THEN "true" ELSE "wait", !.expectedClose = TRUE]
    BY <1>3 DEF Closing
  <2> HIDE DEF x, e
  <2>4. CloseContext(u, p) = [u EXCEPT !.ctx[p] = e]
    BY <2>1, <2>2, <2>3
  <2>5. [u EXCEPT !.ctx[p] = e] = [lab |-> l, ctx |-> [[ctx EXCEPT ![s] = n] EXCEPT ![p] = e],
                                   answered |-> a]
    BY DEF Left
  <2> QED BY <2>4, <2>5 DEF e, g
<1> QED BY <1>2, <1>3

\* A start, that closes the child of the session before it.
LEMMA StartKeeps ==
  ASSUME Inv, Start
  PROVE  Inv' /\ CompletedStay
<1> USE Types
<1> DEFINE p == current
           s == p + 1
           g == ctx[p]
           n == [NewContext EXCEPT !.blocked = p # 0,
                                   !.run = IF p = 0 THEN "files" ELSE "previous"]
           l == Observed(Started(lab), ChildIs("starting"))
           v == [Now EXCEPT !.lab = Started(lab),
                            !.ctx[s].blocked = p # 0,
                            !.ctx[s].run = IF p = 0 THEN "files" ELSE "previous"]
           u == Observe(v, s, ChildIs("starting"))
<1>1. /\ Idle /\ MayStart(lab) /\ lab.session = p /\ p < MaxSessions /\ current' = s
      /\ Becomes(IF p = 0 THEN u ELSE CloseContext(u, p))
      /\ UNCHANGED <<alive, failed, requested, said>>
  BY DEF Start
<1>2. s \in Session /\ p \in 0 .. MaxSessions /\ p = s - 1 /\ ctx[s] = NewContext
  BY <1>1 DEF Session, Inv, InStep
<1>3. /\ n \in Context /\ n.run = (IF p = 0 THEN "files" ELSE "previous") /\ n.reply = "waiting"
      /\ n.conn = "none" /\ n.stopped = FALSE /\ n.attempted = FALSE /\ n.started = FALSE
      /\ n.completed = FALSE /\ n.turn = NoTurn /\ (n.blocked <=> p # 0) /\ n.pending = 0
      /\ n.stops = {} /\ n.asked = FALSE /\ n.close = "null" /\ n.fatal = FALSE
  <2>1. 0 \in 0 .. MaxRequests
    OBVIOUS
  <2> DEFINE o == NewContext
             stage == IF p = 0 THEN "files" ELSE "previous"
  <2>2. /\ o \in Context /\ o.reply = "waiting" /\ o.conn = "none" /\ o.stopped = FALSE
        /\ o.attempted = FALSE /\ o.started = FALSE /\ o.completed = FALSE /\ o.turn = NoTurn
        /\ o.pending = 0 /\ o.stops = {} /\ o.asked = FALSE /\ o.close = "null"
        /\ o.fatal = FALSE
    BY <2>1 DEF NewContext, Context, RunStage
  <2>3. stage \in RunStage /\ (p # 0) \in BOOLEAN
    BY DEF RunStage
  <2>4. ASSUME NEW b \in BOOLEAN
        PROVE  LET d == [o EXCEPT !.blocked = b, !.run = stage]
               IN /\ d \in Context /\ d.run = stage /\ d.reply = "waiting" /\ d.conn = "none"
                  /\ d.stopped = FALSE /\ d.attempted = FALSE /\ d.started = FALSE
                  /\ d.completed = FALSE /\ d.turn = NoTurn /\ (d.blocked <=> b)
                  /\ d.pending = 0 /\ d.stops = {} /\ d.asked = FALSE /\ d.close = "null"
                  /\ d.fatal = FALSE
    <3> HIDE DEF o, stage
    <3> QED BY <2>2, <2>3 DEF Context
  <2> QED BY <2>3, <2>4
<1>4. v = [lab |-> Started(lab), ctx |-> [ctx EXCEPT ![s] = n], answered |-> answered]
  <2> DEFINE o == NewContext
             m == Started(lab)
             stage == IF p = 0 THEN "files" ELSE "previous"
             b == p # 0
             y == [[[Now EXCEPT !.lab = m] EXCEPT !.ctx[s].blocked = b] EXCEPT !.ctx[s].run = stage]
  <2>1. v = y
    OBVIOUS
  <2> HIDE DEF o, m, stage, b
  <2>2. [Now EXCEPT !.lab = m] = [lab |-> m, ctx |-> ctx, answered |-> answered]
    BY DEF Now
  <2>3. ctx[s] = o
    BY <1>2 DEF o
  <2>4. y = [lab |-> m, ctx |-> [ctx EXCEPT ![s] = [o EXCEPT !.blocked = b, !.run = stage]],
             answered |-> answered]
    <3> HIDE DEF s
    <3> DEFINE f == [o EXCEPT !.blocked = b]
               y1 == [Now EXCEPT !.lab = m]
               y2 == [y1 EXCEPT !.ctx[s].blocked = b]
    <3>1. y2 = [lab |-> m, ctx |-> [ctx EXCEPT ![s] = f], answered |-> answered]
      <4>1. y1.ctx[s] = o
        BY <2>2, <2>3
      <4> HIDE DEF y1
      <4>2. y2 = [y1 EXCEPT !.ctx[s] = f]
        BY <4>1
      <4>3. y1 = [lab |-> m, ctx |-> ctx, answered |-> answered]
        BY <2>2 DEF y1
      <4> HIDE DEF f, y2
      <4> QED BY <4>2, <4>3
    <3>2. y2.ctx[s] = f /\ y = [y2 EXCEPT !.ctx[s].run = stage]
      BY ZenonT(60), <1>2, <3>1
    <3> HIDE DEF f, y2
    <3>3. [y2 EXCEPT !.ctx[s].run = stage] = [y2 EXCEPT !.ctx[s] = [f EXCEPT !.run = stage]]
      BY <3>2
    <3> DEFINE h == [f EXCEPT !.run = stage]
    <3>4. h = [o EXCEPT !.blocked = b, !.run = stage]
      BY DEF f
    <3> HIDE DEF h
    <3>5. [y2 EXCEPT !.ctx[s] = h] = [lab |-> m, ctx |-> [ctx EXCEPT ![s] = h], answered |-> answered]
      BY <1>2, <3>1
    <3> QED BY <3>2, <3>3, <3>4, <3>5 DEF h
  <2>5. n = [o EXCEPT !.blocked = b, !.run = stage]
    BY DEF o, b, stage
  <2> HIDE DEF n, v, y
  <2> QED BY <2>1, <2>4, <2>5 DEF m
<1> HIDE DEF n
<1>5. l \in Service /\ l.session = s /\ Agree(l, n, said[s])
  BY <1>1, <1>3, BeginsAgree
<1>6. u = [lab |-> l, ctx |-> [ctx EXCEPT ![s] = n], answered |-> answered]
  <2>1. Started(lab).session = s
    BY <1>1 DEF Started, InitialService
  <2> HIDE DEF v
  <2> QED BY <1>4, <2>1 DEF Observe
<1> HIDE DEF u, l
<1>7. Fits(s, n) /\ n.run \notin RpcStage /\ n.run # "none"
  BY <1>2, <1>3 DEF Fits, Early, RpcStage
<1>8. CASE p = 0
  <2>1. lab' = l /\ ctx' = [ctx EXCEPT ![s] = n] /\ answered' = answered
    BY <1>1, <1>6, <1>8 DEF Becomes
  <2>2. alive = {}
    BY <1>8 DEF Inv, InStep, ChildrenAreHeld, TypeOK
  <2>3. ctx' \in [Session -> Context] /\ ctx'[s] = n /\ \A t \in Session \ {s} : ctx'[t] = ctx[t]
    BY <1>2, <1>3, <2>1
  <2>4. TypeOK'
    BY <1>1, <1>2, <1>5, <2>1, <2>3 DEF Inv, TypeOK, Session
  <2>5. RequestsAreHeld' /\ AnsweredOnce'
    <3>1. Settles(s, n, answered)
      BY <1>2, <1>3 DEF Settles, NewContext
    <3>2. \A t \in Session \ {s} : ctx'[t].pending \in {0, ctx[t].pending}
      BY <2>3
    <3> QED BY <1>1, <1>2, <2>1, <2>3, <3>1, <3>2, RequestsStay
  <2>6. s = 1 /\ p \notin Session /\ \A t \in Session : ~ctx[t].completed
    <3>1. \A t \in Session : ctx[t] = NewContext
      BY <1>8 DEF Inv, InStep
    <3> QED BY <1>8, <3>1 DEF Session, NewContext
  <2> HIDE DEF s, p
  <2>7. current \in {s, p} /\ current' = s /\ said' = said /\ alive' = {}
    BY <1>1, <2>2 DEF s, p
  <2> QED BY <1>2, <1>3, <1>5, <1>7, <2>1, <2>2, <2>3, <2>4, <2>5, <2>6, <2>7, PairKeeps
<1>9. CASE p # 0
  <2> DEFINE e == Closing(g)
  <2>1. p \in Session /\ p # s
    BY <1>2, <1>9 DEF Session
  <2>2. g \in Context /\ Fits(p, g) /\ g.run # "none" /\ Agree(lab, g, said[p])
    <3>1. p <= current /\ said[p] \subseteq said[p]
      OBVIOUS
    <3>2. Good(p, g, lab, answered, alive, said[p])
      BY <2>1, <3>1, StandsGood
    <3> QED BY <3>2 DEF Good, Fine
  <2>3. g.run \in RpcStage => g.reply = "waiting"
    BY <1>1, <2>1, <2>2, IdleWaits
  <2>4. lab.status \in Terminal \/ (lab.status = "unknown" /\ lab.child = "closed")
    BY <1>1, <2>2 DEF MayStart, Agree, Knows
  <2>5. ~g.blocked /\ (g.run \in Early => g.stopped)
    BY <2>2, <2>3, <2>4, StatusKinds DEF Agree, Knows
  <2>6. /\ e \in Context /\ e.run = g.run /\ e.reply = g.reply /\ e.stops = g.stops
        /\ e.asked = g.asked /\ e.stopped = g.stopped /\ e.blocked = g.blocked
        /\ e.conn = g.conn /\ e.attempted = g.attempted /\ e.turn = g.turn
        /\ e.started = g.started /\ e.completed = g.completed /\ e.pending = g.pending /\ e.safe = g.safe
        /\ e.fatal = g.fatal /\ e.close # "null" /\ e.expectedClose
        /\ e.close = "true" => g.close = "true" \/ g.conn = "none"
    BY <2>2, ClosingFields
  <2>7. CloseContext(u, p) = [lab |-> l, ctx |-> [[ctx EXCEPT ![s] = n] EXCEPT ![p] = e],
                              answered |-> answered]
    <3>1. u = Left(s, n, l, answered)
      BY <1>6 DEF Left
    <3> HIDE DEF s, p
    <3> QED BY <1>2, <1>5, <2>1, <3>1, ClosesOther
  <2> HIDE DEF e
  <2>8. /\ lab' = l /\ answered' = answered
        /\ ctx' = [[ctx EXCEPT ![s] = n] EXCEPT ![p] = e]
    BY <1>1, <1>9, <2>7 DEF Becomes
  <2>9. /\ ctx' \in [Session -> Context] /\ ctx'[s] = n /\ ctx'[p] = e
        /\ \A t \in Session \ {s, p} : ctx'[t] = ctx[t]
    BY <1>2, <1>3, <2>1, <2>6, <2>8
  <2>10. Fits(p, e)
    BY <2>2, <2>5, <2>6 DEF Fits
  <2>11. \A child \in alive : child[1] = p /\ e.conn = child[2] /\ e.close # "true"
    <3>1. ASSUME NEW child \in alive
          PROVE  child[1] = p /\ e.conn = child[2] /\ e.close # "true"
      <4>1. /\ child[1] \in Session /\ child[2] \in {"discovery", "main"}
            /\ child[1] <= p /\ ctx[child[1]].conn = child[2] /\ ctx[child[1]].close # "true"
            /\ child[1] < p => g.blocked
        BY DEF Inv, InStep, ChildrenAreHeld, TypeOK
      <4>2. child[1] = p
        BY <2>5, <4>1
      <4> QED BY <2>6, <4>1, <4>2
    <3> QED BY <3>1
  <2>12. TypeOK'
    <3>1. s \in 0 .. MaxSessions
      BY <1>2 DEF Session
    <3> QED BY <1>1, <1>5, <2>8, <2>9, <3>1 DEF Inv, TypeOK
  <2>13. RequestsAreHeld' /\ AnsweredOnce'
    <3>1. Settles(s, n, answered)
      BY <1>2, <1>3 DEF Settles, NewContext
    <3>2. \A t \in Session \ {s} : ctx'[t].pending \in {0, ctx[t].pending}
      BY <2>6, <2>9
    <3> QED BY <1>1, <1>2, <1>3, <2>8, <2>9, <3>1, <3>2, RequestsStay
  <2>14. ~ctx[s].completed /\ (g.completed => e.completed)
    BY <1>2, <2>6 DEF NewContext
  <2>15. g.run \in RpcStage => e.reply # "ok"
    BY <2>3, <2>6
  <2> HIDE DEF n
  <2>16. current \in {s, p} /\ said' = said /\ alive' = alive
    BY <1>1
  <2> HIDE DEF s, p
  <2>17. ctx[p].completed => e.completed
    BY <2>14
  <2> QED BY <1>1, <1>2, <1>3, <1>5, <1>7, <1>9, <2>2, <2>6, <2>8, <2>9, <2>10, <2>11, <2>12, <2>13, <2>14, <2>15, <2>16, <2>17, PairKeeps
<1> QED BY <1>8, <1>9

\* A stop that the service was asked for.
LEMMA StopAskedFields ==
  ASSUME NEW l \in Service, NEW m, m = StopAsked(l)
  PROVE  /\ m \in Service /\ m.session = l.session /\ m.turnStatus = l.turnStatus
         /\ m.turn = l.turn /\ m.thread = l.thread /\ m.child = l.child
         /\ m.approval.status = l.approval.status /\ m.approval.id = l.approval.id
         /\ m.approval.safe = l.approval.safe
         /\ m.status = IF l.status \in Terminal THEN l.status ELSE "stopping"
<1> DEFINE q == Recorded(l)
           st == IF l.status \in Terminal THEN l.status ELSE "stopping"
<1>1. /\ q \in Service /\ q.session = l.session /\ q.turnStatus = l.turnStatus
      /\ q.turn = l.turn /\ q.thread = l.thread /\ q.child = l.child
      /\ q.approval.status = l.approval.status /\ q.approval.id = l.approval.id
      /\ q.approval.safe = l.approval.safe
  BY DEF Recorded, Service, Approval
<1>2. st \in Status /\ m = [q EXCEPT !.status = st, !.stopRequested = TRUE]
  BY DEF Status, StopAsked
<1> HIDE DEF q
<1>3. m.status = st
  BY <1>1, <1>2 DEF Service
<1> HIDE DEF st
<1>4. /\ m \in Service /\ m.session = q.session /\ m.turnStatus = q.turnStatus
      /\ m.turn = q.turn /\ m.thread = q.thread /\ m.child = q.child
      /\ m.approval = q.approval
  BY <1>1, <1>2 DEF Service
<1> QED BY <1>1, <1>3, <1>4 DEF st

\* What the service says of a stop that was asked for, to which the client has
\* not come yet.
LEMMA StopAgrees ==
  ASSUME NEW l \in Service, NEW s, NEW c \in Context, NEW d \in Context, NEW told,
         Agree(l, c, told), Fits(s, c),
         d.stopped, c.asked => d.asked, c.stopped \/ d.asked,
         d.blocked = c.blocked, d.conn = c.conn, d.attempted = c.attempted,
         d.turn = c.turn, d.started = c.started, d.completed = c.completed,
         d.pending = c.pending, d.safe = c.safe, d.fatal = c.fatal
  PROVE  LET m == StopAsked(l)
             n == Observed(m, Plain("stop-unconfirmed"))
         IN /\ m \in Service /\ m.session = l.session
            /\ ~c.attempted \/ c.stopped \/ c.started \/ c.completed => Agree(m, d, told)
            /\ n \in Service /\ n.session = l.session
            /\ ~c.completed => Agree(n, d, told)
<1> DEFINE m == StopAsked(l)
           n == Observed(m, Plain("stop-unconfirmed"))
<1>1. /\ m \in Service /\ m.session = l.session /\ m.turnStatus = l.turnStatus
      /\ m.turn = l.turn /\ m.thread = l.thread /\ m.child = l.child
      /\ m.approval.status = l.approval.status /\ m.approval.id = l.approval.id
      /\ m.approval.safe = l.approval.safe
      /\ m.status = IF l.status \in Terminal THEN l.status ELSE "stopping"
  BY StopAskedFields
<1> HIDE DEF m
<1>2. n = IF m.status \in Terminal THEN m ELSE StopUnconfirmed(m)
  BY <1>1, HearsUnconfirmed
<1> HIDE DEF n
<1>3. ~c.attempted \/ c.stopped \/ c.started \/ c.completed => Agree(m, d, told)
  BY <1>1, StatusKinds DEF Agree, Knows
<1>4. n \in Service /\ n.session = l.session
  BY <1>1, <1>2, UnknownFields
<1>5. ASSUME ~c.completed PROVE Agree(n, d, told)
  <2>1. CASE m.status \in Terminal
    <3>1. ~c.attempted
      BY <1>1, <1>5, <2>1, NotOver, StatusKinds DEF Agree
    <3> QED BY <1>2, <1>3, <2>1, <3>1
  <2>2. CASE m.status \notin Terminal
    <3>1. /\ n.status = "unknown"
          /\ n.turnStatus = IF l.turnStatus \in Outcome THEN l.turnStatus ELSE "unknown"
          /\ n.turn = l.turn /\ n.thread = l.thread
          /\ n.approval.status = l.approval.status /\ n.approval.id = l.approval.id
          /\ n.approval.safe = l.approval.safe
          /\ n.child = "closed" <=> l.child = "closed"
      BY <1>1, <1>2, <2>2, UnknownFields
    <3> QED BY <1>1, <1>5, <2>2, <3>1, StatusKinds DEF Agree, Knows
  <2> QED BY <2>1, <2>2
<1> QED BY <1>1, <1>3, <1>4, <1>5 DEF m, n

\* A stop comes to an await.
LEMMA GoodAdds ==
  ASSUME Inv, NEW s \in Session, NEW c, NEW l, NEW a, NEW A, NEW told, NEW w,
         NEW stage \in StopStage, w = Left(s, c, l, a), Good(s, c, l, a, A, told),
         c.stopped, ~c.blocked, stage # "previous",
         stage = "cleanup" => ~c.attempted /\ c.conn = "none"
  PROVE  LET d == Stopping(c, c.stops \cup {stage})
         IN /\ [w EXCEPT !.ctx[s].stops = @ \cup {stage}] = Left(s, d, l, a)
            /\ Good(s, d, l, a, A, told)
            /\ d \in Context /\ d.stopped /\ d.conn = c.conn
<1> DEFINE z == c.stops \cup {stage}
           d == Stopping(c, z)
<1>1. c \in Context /\ Fits(s, c)
  BY DEF Good, Fine
<1>2. z \in SUBSET StopStage
  BY <1>1 DEF Context
<1>3. /\ ("previous" \in z => s > 1) /\ ("cleanup" \in z => ~c.attempted)
      /\ z \cap {"cleanup", "previous"} # {} => c.conn = "none"
  BY <1>1 DEF Fits
<1>4. [w EXCEPT !.ctx[s].stops = @ \cup {stage}] = Left(s, d, l, a)
  <2>1. w.ctx[s] = c
    BY LeftFields
  <2>2. [w EXCEPT !.ctx[s].stops = @ \cup {stage}] = [w EXCEPT !.ctx[s] = d]
    BY <2>1 DEF Stopping
  <2> HIDE DEF d
  <2> QED BY <2>2, LeftFields
<1> HIDE DEF z
<1>5. Good(s, d, l, a, A, told)
  BY <1>2, <1>3, GoodStops
<1>6. d \in Context /\ d.stopped = c.stopped /\ d.conn = c.conn
  <2>1. d = [c EXCEPT !.stops = z]
    BY DEF Stopping
  <2> HIDE DEF d
  <2> QED BY <1>1, <1>2, <2>1 DEF Context
<1> HIDE DEF d
<1>7. d.stopped
  BY <1>6
<1> QED BY <1>4, <1>5, <1>6, <1>7 DEF d, z

\* stopContext, of a session that does not wait for the one before it.  Where
\* the turn was asked for and has not started, the service is in step again when it
\* has been told that the stop is not confirmed.
LEMMA GoodStopContext ==
  ASSUME Inv, NEW s \in Session, NEW e \in Context, NEW d \in Context, NEW l,
         NEW w, w = Left(s, e, l, answered), ~e.asked, d = [e EXCEPT !.asked = TRUE],
         e.stopped, ~(e.conn = "none" /\ e.blocked), NEW sent \in BOOLEAN, NEW told,
         \/ Good(s, d, l, answered, alive, told)
         \/ /\ e.attempted /\ ~e.started /\ ~e.completed /\ Fits(s, d)
            /\ Good(s, d, Heard(l, s, Plain("stop-unconfirmed")), answered, alive, told)
  PROVE  \E h, m, b : /\ StopContext(w, s, sent) = Left(s, h, m, b)
                      /\ Good(s, h, m, b, alive, told)
<1> DEFINE x == [w EXCEPT !.ctx[s].asked = TRUE]
           v == CancelPending(x, s, sent)
           Then(u, stage) == [u EXCEPT !.ctx[s].stops = @ \cup {stage}]
           Lost(u) == Observe(u, s, Plain("stop-unconfirmed"))
           r == StopContext(w, s, sent)
<1>1. w.ctx[s] = e
  BY SMTT(30), LeftFields
<1>2. \/ e.conn = "none" /\ ~e.blocked /\ ~e.attempted /\ r = Then(v, "cleanup")
      \/ e.conn = "none" /\ ~e.blocked /\ e.attempted /\ r = Lost(v)
      \/ /\ e.conn # "none" /\ e.started /\ ~e.completed
         /\ r = Observe(Then(v, "interrupt"), s, ChildIs("closing"))
      \/ /\ e.conn # "none" /\ ~e.started /\ e.attempted /\ ~e.completed
         /\ r = CloseContext(Lost(Then(v, "closing")), s)
      \/ /\ e.conn # "none" /\ (e.started \/ ~e.attempted \/ e.completed)
         /\ r = CloseContext(Then(v, "closing"), s)
  <2> HIDE DEF v
  <2> QED BY <1>1 DEF StopContext, v, Context
<1>3. x = Left(s, d, l, answered)
  <2>1. x = [w EXCEPT !.ctx[s] = d]
    BY <1>1
  <2>2. \A f : [w EXCEPT !.ctx[s] = f] = Left(s, f, l, answered)
    BY LeftFields
  <2> HIDE DEF x
  <2> QED BY <2>1, <2>2
<1>4. /\ d.stopped /\ d.conn = e.conn /\ (d.blocked <=> e.blocked)
      /\ (d.attempted <=> e.attempted) /\ (d.started <=> e.started)
      /\ (d.completed <=> e.completed)
  BY DEF Context
<1>5. ~d.blocked
  <2>1. Fits(s, d)
    BY DEF Good, Fine
  <2> QED BY <1>4, <2>1 DEF Fits
<1> HIDE DEF x, r
<1>6. {"cleanup", "interrupt", "closing"} \subseteq StopStage
  BY DEF StopStage
<1>7. CASE Good(s, d, l, answered, alive, told)
  <2> DEFINE f == Cancelled(d)
  <2>1. PICK m, b : v = Left(s, f, m, b) /\ Good(s, f, m, b, alive, told)
    BY <1>3, <1>7, LeftCancel, GoodCancels
  <2>2. /\ f \in Context /\ f.stopped /\ f.conn = e.conn /\ ~f.blocked
        /\ f.attempted <=> e.attempted
    <3>1. f = Cancelled(d)
      OBVIOUS
    <3> HIDE DEF f
    <3>2. f \in Context /\ f.stopped = d.stopped /\ f.conn = d.conn
          /\ f.blocked = d.blocked /\ f.attempted = d.attempted
      BY ZenonT(60), <3>1, CancelledFields
    <3> QED BY <1>4, <1>5, <3>2
  <2> HIDE DEF v, f
  <2>3. ASSUME NEW stage \in {"cleanup", "interrupt", "closing"},
               stage = "cleanup" => ~e.attempted /\ e.conn = "none"
        PROVE  \E g : /\ Then(v, stage) = Left(s, g, m, b) /\ Good(s, g, m, b, alive, told)
                      /\ g \in Context /\ g.stopped /\ g.conn = e.conn
    <3> DEFINE g == Stopping(f, f.stops \cup {stage})
    <3>1. stage \in StopStage /\ stage # "previous" /\ (stage = "cleanup" => ~f.attempted /\ f.conn = "none")
      BY <1>6, <2>2, <2>3
    <3>2. /\ Then(v, stage) = Left(s, g, m, b) /\ Good(s, g, m, b, alive, told)
          /\ g \in Context /\ g.stopped /\ g.conn = f.conn
      BY <2>1, <2>2, <3>1, GoodAdds
    <3> HIDE DEF g, Then
    <3> QED BY <2>2, <3>2
  <2> HIDE DEF Then
  <2>4. CASE e.conn = "none" /\ ~e.attempted /\ r = Then(v, "cleanup")
    BY <2>3, <2>4 DEF r
  <2>5. CASE r = Lost(v)
    BY <2>1, <2>2, <2>5, GoodUnconfirmed DEF r
  <2>6. CASE e.conn # "none" /\ r = Observe(Then(v, "interrupt"), s, ChildIs("closing"))
    <3> DEFINE y == Then(v, "interrupt")
    <3>1. PICK g : /\ y = Left(s, g, m, b) /\ Good(s, g, m, b, alive, told)
                   /\ g \in Context /\ g.stopped /\ g.conn = e.conn
      BY <2>3
    <3> HIDE DEF y
    <3>2. s = current => /\ Observed(m, ChildIs("closing")) \in Service
                         /\ Observed(m, ChildIs("closing")).session = m.session
                         /\ Agree(Observed(m, ChildIs("closing")), g, told)
      <4>1. ASSUME s = current PROVE m \in Service /\ Agree(m, g, told)
        BY <3>1, <4>1 DEF Good, Fine
      <4>2. m \in Service => Observed(m, ChildIs("closing")).session = m.session
        BY HearsClosing DEF Recorded, Service, Approval
      <4> QED BY <2>6, <3>1, <4>1, <4>2, ClosingAgrees
    <3>3. /\ Observe(y, s, ChildIs("closing")) = Left(s, g, Heard(m, s, ChildIs("closing")), b)
          /\ Good(s, g, Heard(m, s, ChildIs("closing")), b, alive, told)
      BY <3>1, <3>2, GoodTold
    <3> QED BY <2>6, <3>3 DEF y, r
  <2>7. CASE r = CloseContext(Lost(Then(v, "closing")), s)
    <3> DEFINE y == Then(v, "closing")
               z == Lost(y)
    <3>1. PICK g : y = Left(s, g, m, b) /\ Good(s, g, m, b, alive, told) /\ g.stopped
      BY <2>3
    <3> HIDE DEF y
    <3>2. PICK n : z = Left(s, g, n, b) /\ Good(s, g, n, b, alive, told)
      BY <3>1, GoodUnconfirmed
    <3> HIDE DEF z
    <3>3. \E n1 : /\ CloseContext(z, s) = Left(s, Closing(g), n1, b)
                  /\ Good(s, Closing(g), n1, b, alive, told)
      BY <3>1, <3>2, GoodCloses
    <3> QED BY <2>7, <3>3 DEF z, y, r
  <2>8. CASE r = CloseContext(Then(v, "closing"), s)
    <3> DEFINE y == Then(v, "closing")
    <3>1. PICK g : y = Left(s, g, m, b) /\ Good(s, g, m, b, alive, told) /\ g.stopped
      BY <2>3
    <3> HIDE DEF y
    <3>2. \E n : /\ CloseContext(y, s) = Left(s, Closing(g), n, b)
                 /\ Good(s, Closing(g), n, b, alive, told)
      BY <3>1, GoodCloses
    <3> QED BY <2>8, <3>2 DEF y, r
  <2> HIDE DEF Lost
  <2> QED BY <1>2, <2>4, <2>5, <2>6, <2>7, <2>8
<1>8. CASE /\ e.attempted /\ ~e.started /\ ~e.completed /\ Fits(s, d)
           /\ Good(s, d, Heard(l, s, Plain("stop-unconfirmed")), answered, alive, told)
  <2> DEFINE n == Heard(l, s, Plain("stop-unconfirmed"))
  <2>1. v = x
    <3>1. d.pending = 0 /\ x.ctx[s] = d
      BY <1>3, <1>4, <1>8, LeftFields DEF Fits
    <3> QED BY <3>1 DEF CancelPending
  <2> HIDE DEF v
  <2>2. CASE r = Lost(v)
    <3>1. Lost(v) = Left(s, d, n, answered)
      BY <1>3, <2>1, LeftObserve
    <3> QED BY <1>8, <2>2, <3>1 DEF r
  <2>3. CASE r = CloseContext(Lost(Then(v, "closing")), s)
    <3> DEFINE g == Stopping(d, d.stops \cup {"closing"})
               y == Then(v, "closing")
               z == Lost(y)
    <3>1. y = Left(s, g, l, answered)
      <4>1. v.ctx[s] = d
        BY <1>3, <2>1, LeftFields
      <4>2. y = [v EXCEPT !.ctx[s] = g]
        BY <4>1 DEF Stopping
      <4> HIDE DEF g, y
      <4> QED BY <1>3, <2>1, <4>2, LeftFields
    <3>2. Good(s, g, n, answered, alive, told) /\ g.stopped
      <4> HIDE DEF n
      <4>1. Good(s, d, n, answered, alive, told)
        BY <1>8 DEF n
      <4>2. LET k == Stopping(d, d.stops \cup {"closing"})
            IN Good(s, k, n, answered, alive, told) /\ k.stopped
        <5> DEFINE o == Left(s, d, n, answered)
        <5>1. o = Left(s, d, n, answered) /\ "closing" \in StopStage
          BY <1>6
        <5> HIDE DEF o
        <5> QED BY <1>4, <1>5, <4>1, <5>1, GoodAdds
      <4> QED BY <4>2
    <3> HIDE DEF g, y
    <3>3. z = Left(s, g, n, answered)
      BY <3>1, LeftObserve
    <3> HIDE DEF z, n
    <3>4. \E m : /\ CloseContext(z, s) = Left(s, Closing(g), m, answered)
                 /\ Good(s, Closing(g), m, answered, alive, told)
      BY <3>2, <3>3, GoodCloses
    <3> QED BY <2>3, <3>4 DEF z, y, r
  <2> HIDE DEF Lost, Then
  <2> QED BY <1>2, <1>8, <2>2, <2>3
<1> QED BY <1>7, <1>8

\* A stop of a session that waits for the one before it asks that one to close
\* its child.
LEMMA StopWaitsKeeps ==
  ASSUME Inv, NEW s \in Session, s = current, NEW d \in Context, NEW l,
         Good(s, d, l, answered, alive, said[s]), l.session = s, d.stopped, d.blocked,
         d.pending = 0, Becomes(CloseContext([Left(s, d, l, answered) EXCEPT
                                                !.ctx[s].stops = @ \cup {"previous"}], s - 1)),
         UNCHANGED rest
  PROVE  Inv' /\ CompletedStay
<1> USE Types
<1> DEFINE p == s - 1
           g == ctx[p]
           w == Left(s, d, l, answered)
           z == d.stops \cup {"previous"}
           h == Stopping(d, z)
           y == [w EXCEPT !.ctx[s].stops = @ \cup {"previous"}]
           e == Closing(g)
<1>1. /\ Fits(s, d) /\ d.run # "none" /\ ctx[s].blocked /\ (ctx[s].completed => d.completed)
      /\ Agree(l, d, said[s]) /\ l \in Service
  BY DEF Good, Fine
<1>2. s > 1 /\ d.conn = "none" /\ d.stops \subseteq {"previous"}
  BY <1>1 DEF Fits
<1>3. p \in Session /\ p # s /\ p < current
  BY <1>2 DEF Session
<1>4. z \in SUBSET StopStage /\ z \subseteq {"previous"}
  BY <1>2 DEF StopStage
<1>5. Good(s, h, l, answered, alive, said[s])
  <2> HIDE DEF z
  <2> QED BY <1>2, <1>4, GoodStops
<1>6. /\ h \in Context /\ h.run = d.run /\ h.reply = d.reply /\ h.conn = "none"
      /\ h.blocked /\ h.completed = d.completed /\ h.pending = 0
  <2>1. h = [d EXCEPT !.stops = z]
    BY DEF Stopping
  <2> HIDE DEF h, z
  <2> QED BY <1>2, <1>4, <2>1 DEF Context
<1>7. y = Left(s, h, l, answered)
  <2>1. w.ctx[s] = d
    BY LeftFields
  <2>2. y = [w EXCEPT !.ctx[s] = h]
    BY <2>1 DEF Stopping
  <2>3. w = Left(s, d, l, answered)
    OBVIOUS
  <2> HIDE DEF h, y, w
  <2>4. [w EXCEPT !.ctx[s] = h] = Left(s, h, l, answered)
    BY <2>3, LeftFields
  <2> QED BY <2>2, <2>4
<1>8. Becomes(CloseContext(y, p))
  OBVIOUS
<1> HIDE DEF h, y
<1>9. /\ lab' = l /\ answered' = answered
      /\ ctx' = [[ctx EXCEPT ![s] = h] EXCEPT ![p] = e]
  <2>1. CloseContext(y, p) = [lab |-> l, ctx |-> [[ctx EXCEPT ![s] = h] EXCEPT ![p] = Closing(ctx[p])],
                              answered |-> answered]
    <3> HIDE DEF p
    <3> QED BY <1>3, <1>7, ClosesOther
  <2> DEFINE x == CloseContext(y, p)
  <2>2. x = [lab |-> l, ctx |-> [[ctx EXCEPT ![s] = h] EXCEPT ![p] = e], answered |-> answered]
    BY <2>1
  <2>3. lab' = x.lab /\ ctx' = x.ctx /\ answered' = x.answered
    BY <1>8 DEF Becomes
  <2> HIDE DEF x, e, p
  <2> QED BY <2>2, <2>3
<1>10. g \in Context /\ Fits(p, g) /\ g.run # "none" /\ g.close # "null"
  BY <1>3 DEF Inv, InStep
<1>11. /\ e \in Context /\ e.run = g.run /\ e.reply = g.reply /\ e.stops = g.stops
       /\ e.asked = g.asked /\ e.stopped = g.stopped /\ e.blocked = g.blocked
       /\ e.conn = g.conn /\ e.attempted = g.attempted /\ e.turn = g.turn
       /\ e.started = g.started /\ e.completed = g.completed /\ e.pending = g.pending /\ e.safe = g.safe
       /\ e.fatal = g.fatal /\ e.close # "null" /\ e.expectedClose
       /\ e.close = "true" => g.close = "true" \/ g.conn = "none"
  BY <1>10, ClosingFields
<1> HIDE DEF e
<1>12. Fits(p, e)
  BY <1>10, <1>11 DEF Fits
<1>13. /\ ctx' \in [Session -> Context] /\ ctx'[s] = h /\ ctx'[p] = e
       /\ \A t \in Session \ {s, p} : ctx'[t] = ctx[t]
  BY <1>3, <1>6, <1>9, <1>11
<1>14. \A child \in alive : child[1] = p /\ e.conn = child[2] /\ e.close # "true"
  <2>1. ASSUME NEW child \in alive
        PROVE  child[1] = p /\ e.conn = child[2] /\ e.close # "true"
    <3>1. /\ child = <<child[1], child[2]>> /\ child[1] \in Session
          /\ child[2] \in {"discovery", "main"}
          /\ child[1] <= s /\ ctx[child[1]].conn = child[2] /\ ctx[child[1]].close # "true"
          /\ child[1] < s => child[1] = p
      BY DEF Inv, InStep, ChildrenAreHeld, TypeOK
    <3>2. child[1] # s
      BY <1>2, <3>1 DEF Good, Fine
    <3>3. child[1] = p
      BY <3>1, <3>2
    <3> QED BY <1>11, <3>1, <3>3
  <2> QED BY <2>1
<1>15. g.run \in RpcStage /\ g.reply = "ok" => <<p, g.conn>> \in alive
  BY <1>3 DEF Inv, InStep, ChildrenAreHeld, Conn
<1>16. UNCHANGED <<current, alive, failed, requested, said>>
  BY DEF rest
<1>17. RequestsAreHeld' /\ AnsweredOnce'
  <2>1. Settles(s, h, answered)
    BY <1>5 DEF Good
  <2>2. \A t \in Session \ {s} : ctx'[t].pending \in {0, ctx[t].pending}
    BY <1>11, <1>13
  <2> QED BY <1>9, <1>13, <1>16, <2>1, <2>2, RequestsStay
<1>18. TypeOK'
  BY <1>1, <1>9, <1>13, <1>16 DEF Inv, TypeOK
<1>19. /\ Fits(s, h) /\ Agree(l, h, said[s]) /\ (h.run \in RpcStage => h.reply # "ok")
       /\ h.run # "none"
  <2>1. Fits(s, h) /\ Agree(l, h, said[s]) /\ h.run # "none"
    BY <1>5 DEF Good, Fine
  <2>2. h.run \in {"previous", "done"}
    BY <1>6, <2>1 DEF Fits
  <2> QED BY <2>1, <2>2 DEF RpcStage
<1>20. /\ Conn(ctx', p) = <<p, g.conn>> /\ (ctx[p].completed => e.completed)
       /\ (ctx[s].completed => h.completed)
  BY <1>1, <1>6, <1>11, <1>13 DEF Conn
<1> HIDE DEF p, g
<1>21. p = s - 1 /\ current \in {s, p} /\ current' = s /\ ctx'[s].blocked
  BY <1>6, <1>13, <1>16 DEF p
<1>22. p \in Session => /\ Fits(p, ctx'[p]) /\ ctx'[p].run # "none" /\ ctx'[p].close # "null"
                        /\ ctx'[p].run \in RpcStage /\ ctx'[p].reply = "ok"
                             => Conn(ctx', p) \in alive'
  BY <1>10, <1>11, <1>12, <1>13, <1>15, <1>16, <1>20
<1>23. alive' = alive /\ said' = said /\ lab'.session = s /\ Agree(lab', ctx'[s], said'[s])
  BY <1>9, <1>13, <1>16, <1>19
<1>24. /\ \A child \in alive : child[1] \in {s, p}
       /\ \A child \in alive' : /\ ctx'[child[1]].conn = child[2] /\ ctx'[child[1]].close # "true"
                                /\ child[1] = p => ctx'[s].blocked
  BY <1>13, <1>14, <1>21, <1>23
<1>25. \A t \in Session \cap {s, p} : ctx[t].completed => ctx'[t].completed
  BY <1>13, <1>20
<1> QED BY <1>6, <1>13, <1>17, <1>18, <1>19, <1>21, <1>22, <1>23, <1>24, <1>25, PairKeeps

\* A stop that closes the child, or waits for one that is closing.
LEMMA StopContextKeeps ==
  ASSUME Inv, NEW s \in Session, s = current, NEW e \in Context, NEW sent \in BOOLEAN,
         e.stopped, ~e.asked, ctx[s].asked => ctx[s].stopped,
         e.run = ctx[s].run, e.reply = ctx[s].reply, e.stops = ctx[s].stops,
         e.blocked = ctx[s].blocked, e.conn = ctx[s].conn, e.attempted = ctx[s].attempted,
         e.turn = ctx[s].turn, e.started = ctx[s].started, e.completed = ctx[s].completed,
         e.pending = ctx[s].pending, e.safe = ctx[s].safe, e.close = ctx[s].close,
         e.expectedClose = ctx[s].expectedClose, e.fatal = ctx[s].fatal,
         Becomes(StopContext(Left(s, e, StopAsked(lab), answered), s, sent)), UNCHANGED rest
  PROVE  Inv' /\ CompletedStay
<1> USE Types
<1> DEFINE c == ctx[s]
           l == StopAsked(lab)
           d == [e EXCEPT !.asked = TRUE]
           w == Left(s, e, l, answered)
           n == Observed(l, Plain("stop-unconfirmed"))
<1>1. s <= current /\ said[s] \subseteq said[s]
  OBVIOUS
<1>2. Good(s, c, lab, answered, alive, said[s])
  BY <1>1, StandsGood
<1>3. c \in Context /\ Fits(s, c) /\ c.run # "none" /\ Agree(lab, c, said[s]) /\ lab.session = s
  BY <1>2 DEF Good, Fine
<1>4. /\ d \in Context /\ d.run = c.run /\ d.reply = c.reply /\ d.stops = c.stops
      /\ d.asked /\ d.stopped /\ d.blocked = c.blocked /\ d.conn = c.conn
      /\ d.attempted = c.attempted /\ d.turn = c.turn /\ d.started = c.started
      /\ d.completed = c.completed /\ d.pending = c.pending /\ d.safe = c.safe
      /\ d.close = c.close
      /\ d.expectedClose = c.expectedClose /\ d.fatal = c.fatal
  BY DEF Context
<1>5. d = [e EXCEPT !.asked = TRUE]
  OBVIOUS
<1> HIDE DEF d, c
<1>6. Fits(s, d)
  BY <1>3, <1>4 DEF Fits
<1>7. /\ l \in Service /\ l.session = s
      /\ ~c.attempted \/ c.stopped \/ c.started \/ c.completed => Agree(l, d, said[s])
      /\ n \in Service /\ n.session = s
      /\ ~c.completed => Agree(n, d, said[s])
  BY <1>3, <1>4, StopAgrees
<1> HIDE DEF l, n
<1>8. ASSUME NEW m \in Service, m.session = s, Agree(m, d, said[s])
      PROVE  Good(s, d, m, answered, alive, said[s])
  BY <1>2, <1>4, <1>6, <1>8 DEF Good, Fine, Settles, c
<1>9. Heard(l, s, Plain("stop-unconfirmed")) = n
  BY <1>7 DEF Heard, n
<1>10. \/ Good(s, d, l, answered, alive, said[s])
       \/ /\ e.attempted /\ ~e.started /\ ~e.completed /\ Fits(s, d)
          /\ Good(s, d, Heard(l, s, Plain("stop-unconfirmed")), answered, alive, said[s])
  <2>1. CASE ~c.attempted \/ c.stopped \/ c.started \/ c.completed
    BY <1>7, <1>8, <2>1
  <2>2. CASE ~(~c.attempted \/ c.stopped \/ c.started \/ c.completed)
    BY <1>6, <1>7, <1>8, <1>9, <2>2 DEF c
  <2> QED BY <2>1, <2>2
<1>11. w = Left(s, e, l, answered) /\ Becomes(StopContext(w, s, sent))
  BY DEF l
<1> HIDE DEF w
<1>12. CASE ~(e.conn = "none" /\ e.blocked)
  <2>1. \E h, m, b : /\ StopContext(w, s, sent) = Left(s, h, m, b)
                     /\ Good(s, h, m, b, alive, said[s])
    BY <1>4, <1>5, <1>10, <1>11, <1>12, GoodStopContext
  <2> QED BY <1>1, <1>11, <2>1, RestKeeps
<1>13. CASE e.conn = "none" /\ e.blocked
  <2> DEFINE x == [w EXCEPT !.ctx[s].asked = TRUE]
             v == CancelPending(x, s, sent)
             y == [x EXCEPT !.ctx[s].stops = @ \cup {"previous"}]
  <2>1. ~c.attempted /\ ~c.started /\ c.pending = 0
    BY <1>3, <1>13 DEF Fits, c
  <2>2. w.ctx[s] = e
    BY <1>11, LeftFields
  <2>3. x = Left(s, d, l, answered)
    <3>1. x = [w EXCEPT !.ctx[s] = d]
      BY <1>5, <2>2
    <3>2. \A f : [w EXCEPT !.ctx[s] = f] = Left(s, f, l, answered)
      BY <1>11, LeftFields
    <3> HIDE DEF x
    <3> QED BY <3>1, <3>2
  <2> HIDE DEF x
  <2>4. v = x
    <3>1. x.ctx[s] = d
      BY SMTT(30), <2>3, LeftFields
    <3> QED BY <1>4, <2>1, <3>1 DEF CancelPending
  <2>5. StopContext(w, s, sent) = CloseContext([v EXCEPT !.ctx[s].stops = @ \cup {"previous"}], s - 1)
    <3> HIDE DEF v
    <3> QED BY ZenonT(60), <1>13, <2>2 DEF StopContext, v, x
  <2> HIDE DEF v
  <2>6. Becomes(CloseContext([Left(s, d, l, answered) EXCEPT !.ctx[s].stops = @ \cup {"previous"}], s - 1))
    BY <1>11, <2>3, <2>4, <2>5
  <2>7. Good(s, d, l, answered, alive, said[s])
    BY <1>7, <1>8, <2>1
  <2>8. d.blocked /\ d.pending = 0
    BY <1>4, <1>13, <2>1 DEF c
  <2> QED BY <1>4, <1>7, <2>6, <2>7, <2>8, StopWaitsKeeps
<1> QED BY <1>12, <1>13

\* A stop that finds no child to close: the session had told no outcome.
LEMMA TargetLostAgrees ==
  ASSUME NEW l \in Service, NEW s, NEW c \in Context, NEW told, Agree(l, c, told), Fits(s, c),
         MayStop(l), c.stopped, ~c.asked, c.conn = "none"
  PROVE  LET m == StopTargetLost(StopAsked(l))
         IN m \in Service /\ m.session = l.session /\ Agree(m, c, told)
<1> DEFINE q == StopAsked(l)
           m == StopTargetLost(q)
<1>1. /\ q \in Service /\ q.session = l.session /\ q.turn = l.turn /\ q.thread = l.thread
      /\ q.approval.status = l.approval.status /\ q.approval.id = l.approval.id
      /\ q.approval.safe = l.approval.safe
  BY DEF StopAsked, Recorded, Service, Approval, Status
<1> HIDE DEF q
<1>2. /\ m \in Service /\ m.session = q.session /\ m.turn = q.turn /\ m.thread = q.thread
      /\ m.approval = q.approval
      /\ m.status = "unknown" /\ m.turnStatus = "unknown" /\ m.child = "unknown"
  BY <1>1 DEF StopTargetLost, Service, Status
<1> HIDE DEF m
<1>3. ~c.completed
  <2> SUFFICES ASSUME c.completed PROVE FALSE
    OBVIOUS
  <2>1. l.status \in Terminal /\ c.attempted
    BY DEF Agree, Knows, Fits
  <2>2. l.status \in Terminal \ {"stopped"} /\ l.child = "closed"
    BY <2>1 DEF Agree, Knows
  <2> QED BY <2>2 DEF MayStop
<1>4. Agree(m, c, told)
  BY <1>1, <1>2, <1>3, StatusKinds DEF Agree, Knows
<1> QED BY <1>1, <1>2, <1>4 DEF m, q

LEMMA StopKeeps ==
  ASSUME Inv, Stop
  PROVE  Inv' /\ CompletedStay
<1> USE Types
<1> DEFINE s == current
           c == ctx[s]
           l == StopAsked(lab)
           v == [Now EXCEPT !.lab = l]
           x == [v EXCEPT !.ctx[s].stopped = TRUE]
           y == [v EXCEPT !.ctx[s].asked = FALSE]
<1>1. PICK sent \in Sends(s) :
        \/ ~c.stopped /\ Becomes(StopContext(x, s, sent))
        \/ c.stopped /\ Becomes(StopContext(y, s, sent))
        \/ /\ c.stopped /\ ~Closable(s)
           /\ \/ (c.asked \/ c.close \in {"wait", "true"}) /\ Becomes(v)
              \/ /\ ~(c.asked \/ c.close \in {"wait", "true"})
                 /\ Becomes([v EXCEPT !.lab = StopTargetLost(@)])
  BY DEF Stop
<1>2. MayStop(lab) /\ UNCHANGED rest
  BY DEF Stop
<1>3. s \in Session /\ sent \in BOOLEAN
  <2>1. s \in Session
    BY <1>2 DEF MayStop, Session
  <2>2. Sends(s) \subseteq BOOLEAN
    BY DEF Sends
  <2> QED BY <1>1, <2>1, <2>2
<1>4. s <= current /\ said[s] \subseteq said[s]
  OBVIOUS
<1>5. Now = Left(s, c, lab, answered) /\ Good(s, c, lab, answered, alive, said[s])
  BY <1>3, <1>4, StandsGood
<1>6. c \in Context /\ Fits(s, c) /\ c.run # "none" /\ Agree(lab, c, said[s]) /\ lab.session = s
  BY <1>5 DEF Good, Fine
<1>7. c.asked => c.stopped
  BY <1>6 DEF Fits
<1>8. v = Left(s, c, l, answered)
  BY <1>5 DEF Left
<1> HIDE DEF c, v
<1>9. v.ctx[s] = c /\ v.lab = l
  BY <1>3, <1>8, LeftFields
<1>10. CASE ~c.stopped /\ Becomes(StopContext(x, s, sent))
  <2> DEFINE e == [c EXCEPT !.stopped = TRUE]
  <2>1. x = Left(s, e, l, answered)
    <3>1. x = [v EXCEPT !.ctx[s] = e]
      BY <1>9
    <3>2. \A f : [v EXCEPT !.ctx[s] = f] = Left(s, f, l, answered)
      BY <1>3, <1>8, LeftFields
    <3> HIDE DEF x, e, s
    <3> QED BY <3>1, <3>2
  <2>2. /\ e \in Context /\ e.run = c.run /\ e.reply = c.reply /\ e.stops = c.stops
        /\ e.stopped /\ ~e.asked /\ e.blocked = c.blocked /\ e.conn = c.conn
        /\ e.attempted = c.attempted /\ e.turn = c.turn /\ e.started = c.started
        /\ e.completed = c.completed /\ e.pending = c.pending /\ e.safe = c.safe
        /\ e.close = c.close
        /\ e.expectedClose = c.expectedClose /\ e.fatal = c.fatal
    BY <1>6, <1>7, <1>10 DEF Context
  <2> HIDE DEF e, l, x
  <2>3. Becomes(StopContext(Left(s, e, StopAsked(lab), answered), s, sent))
    BY <1>10, <2>1 DEF l
  <2> HIDE DEF s
  <2>4. s = current
    BY DEF s
  <2> QED BY <1>2, <1>3, <1>7, <2>2, <2>3, <2>4, StopContextKeeps DEF c
<1>11. CASE c.stopped /\ Becomes(StopContext(y, s, sent))
  <2> DEFINE e == [c EXCEPT !.asked = FALSE]
  <2>1. y = Left(s, e, l, answered)
    <3>1. y = [v EXCEPT !.ctx[s] = e]
      BY <1>9
    <3>2. \A f : [v EXCEPT !.ctx[s] = f] = Left(s, f, l, answered)
      BY <1>3, <1>8, LeftFields
    <3> HIDE DEF y, e, s
    <3> QED BY <3>1, <3>2
  <2>2. /\ e \in Context /\ e.run = c.run /\ e.reply = c.reply /\ e.stops = c.stops
        /\ e.stopped /\ ~e.asked /\ e.blocked = c.blocked /\ e.conn = c.conn
        /\ e.attempted = c.attempted /\ e.turn = c.turn /\ e.started = c.started
        /\ e.completed = c.completed /\ e.pending = c.pending /\ e.safe = c.safe
        /\ e.close = c.close
        /\ e.expectedClose = c.expectedClose /\ e.fatal = c.fatal
    BY <1>6, <1>11 DEF Context
  <2> HIDE DEF e, l, y
  <2>3. Becomes(StopContext(Left(s, e, StopAsked(lab), answered), s, sent))
    BY <1>11, <2>1 DEF l
  <2> HIDE DEF s
  <2>4. s = current
    BY DEF s
  <2> QED BY <1>2, <1>3, <1>7, <2>2, <2>3, <2>4, StopContextKeeps DEF c
<1>12. ASSUME NEW m \in Service, m.session = s, Agree(m, c, said[s])
       PROVE  Good(s, c, m, answered, alive, said[s])
  BY <1>5, <1>12 DEF Good, Fine
<1>13. CASE c.stopped /\ Becomes(v)
  <2>1. l \in Service /\ l.session = s /\ Agree(l, c, said[s])
    BY <1>6, <1>7, <1>13, StopAgrees
  <2> HIDE DEF l
  <2>2. Good(s, c, l, answered, alive, said[s])
    BY <1>12, <2>1
  <2> QED BY <1>2, <1>3, <1>4, <1>8, <1>13, <2>2, RestKeeps
<1>14. CASE /\ c.stopped /\ ~Closable(s) /\ ~(c.asked \/ c.close \in {"wait", "true"})
            /\ Becomes([v EXCEPT !.lab = StopTargetLost(@)])
  <2> DEFINE m == StopTargetLost(l)
             z == [v EXCEPT !.lab = StopTargetLost(@)]
  <2>1. c.conn = "none"
    <3>1. c.close \in {"null", "false"}
      BY <1>6, <1>14 DEF Context
    <3> QED BY <1>3, <1>14, <3>1 DEF Closable, Inv, InStep, ChildrenAreHeld, c
  <2>2. m \in Service /\ m.session = s /\ Agree(m, c, said[s])
    BY <1>2, <1>6, <1>14, <2>1, TargetLostAgrees
  <2>3. z = Left(s, c, m, answered)
    <3>1. z = [v EXCEPT !.lab = m]
      BY <1>9
    <3>2. \A f : [v EXCEPT !.lab = f] = Left(s, c, f, answered)
      BY <1>3, <1>8, LeftFields
    <3> HIDE DEF z, m
    <3> QED BY <3>1, <3>2
  <2> HIDE DEF m, z
  <2>4. Good(s, c, m, answered, alive, said[s])
    BY <1>12, <2>2
  <2> QED BY <1>2, <1>3, <1>4, <1>14, <2>3, <2>4, RestKeeps DEF z
<1> QED BY <1>1, <1>10, <1>11, <1>13, <1>14

\* What the service says of a decision that was sent, or was not.
LEMMA DecisionAgrees ==
  ASSUME NEW l \in Service, NEW s, NEW c \in Context, NEW told, Agree(l, c, told), Fits(s, c),
         NEW approve \in BOOLEAN, MayDecide(l, approve), l.session = s,
         NEW d \in Context, d.run = c.run, d.reply = c.reply, d.stopped = c.stopped,
         d.asked = c.asked, d.blocked = c.blocked, d.conn = c.conn, d.attempted = c.attempted,
         d.turn = c.turn, d.started = c.started, d.completed = c.completed, d.fatal = c.fatal,
         NEW decision \in {"accept", "decline"}
  PROVE  LET m == DecisionSent(Observed(l, ResponseSent(l.approval.id, decision)), decision)
             n == DecisionLost(l)
         IN /\ l.approval.id # 0 /\ c.pending = l.approval.id
            /\ m \in Service /\ m.session = s /\ Agree(m, d, told)
            /\ m.status = "running" /\ m.child = l.child /\ m.approval.id = l.approval.id
            /\ n \in Service /\ n.session = s /\ Agree(n, c, told)
            /\ n.status = "unknown" /\ n.child = l.child /\ n.approval.status = "unknown"
<1> DEFINE o == ResponseSent(l.approval.id, decision)
           q == Observed(l, o)
           m == DecisionSent(q, decision)
           n == DecisionLost(l)
<1>1. l.status = "awaiting-human" /\ l.approval.status = "pending"
  BY DEF MayDecide
<1>2. l.approval.id # 0 /\ c.pending = l.approval.id /\ ~c.completed
  BY <1>1 DEF Agree, Knows, Fits
<1>3. q = ResponseApplied(l, o)
  BY <1>1 DEF Observed, Ignores, ResponseSent, Progress, Terminal
<1>4. /\ q \in Service /\ q.turnStatus = l.turnStatus /\ q.turn = l.turn /\ q.thread = l.thread
      /\ q.child = l.child /\ q.session = l.session /\ q.approval.id = l.approval.id
  <2> DEFINE a == [Recorded(l).approval EXCEPT
                     !.status = IF decision = "accept" THEN "sent" ELSE decision, !.safe = FALSE]
  <2>1. q = [l EXCEPT !.approval = a, !.status = "running"]
    BY <1>1, <1>3 DEF ResponseApplied, ResponseSent, Recorded, Service
  <2>2. a \in Approval /\ a.id = l.approval.id
    BY DEF Recorded, Service, Approval
  <2> HIDE DEF a, q
  <2> QED BY <2>1, <2>2 DEF Service, Status
<1> HIDE DEF q
<1>5. /\ m \in Service /\ m.turnStatus = l.turnStatus /\ m.turn = l.turn /\ m.thread = l.thread
      /\ m.child = l.child /\ m.session = l.session /\ m.status = "running"
      /\ m.approval.status \in {"sent", "decline"} /\ m.approval.id = l.approval.id
  <2> DEFINE st == IF decision = "accept" THEN "sent" ELSE "decline"
             a == [Recorded(q).approval EXCEPT !.status = st, !.safe = FALSE]
  <2>1. m = [q EXCEPT !.approval = a, !.status = "running"]
    BY <1>4 DEF DecisionSent, Recorded, Service
  <2>2. a \in Approval /\ a.status \in {"sent", "decline"} /\ a.id = l.approval.id
    BY <1>4 DEF Recorded, Service, Approval
  <2> HIDE DEF a, m
  <2> QED BY <1>4, <2>1, <2>2 DEF Service, Status
<1> HIDE DEF m
<1>6. /\ n \in Service /\ n.turn = l.turn /\ n.thread = l.thread /\ n.child = l.child
      /\ n.session = l.session /\ n.status = "unknown" /\ n.turnStatus = "unknown"
      /\ n.approval.status = "unknown"
  <2> DEFINE a == [Recorded(l).approval EXCEPT !.status = "unknown"]
  <2>1. n = [l EXCEPT !.approval = a, !.status = "unknown", !.turnStatus = "unknown"]
    BY DEF DecisionLost, Recorded, Service
  <2>2. a \in Approval /\ a.status = "unknown"
    BY DEF Recorded, Service, Approval
  <2> HIDE DEF a, n
  <2> QED BY <2>1, <2>2 DEF Service, Status
<1> HIDE DEF n
<1>7. Agree(m, d, told)
  BY <1>1, <1>2, <1>5, StatusKinds DEF Agree, Knows
<1>8. Agree(n, c, told)
  BY <1>1, <1>2, <1>6, StatusKinds DEF Agree, Knows
<1> QED BY <1>2, <1>4, <1>5, <1>6, <1>7, <1>8 DEF m, n, q

\* A request that is no longer pending.
Settled(c) == [c EXCEPT !.pending = 0, !.safe = FALSE]

LEMMA SettledFields ==
  ASSUME NEW c \in Context, NEW d, d = Settled(c)
  PROVE  /\ d \in Context /\ d.pending = 0 /\ d.run = c.run /\ d.reply = c.reply
         /\ d.stops = c.stops /\ d.asked = c.asked /\ d.stopped = c.stopped
         /\ d.blocked = c.blocked /\ d.conn = c.conn /\ d.attempted = c.attempted
         /\ d.turn = c.turn /\ d.started = c.started /\ d.completed = c.completed
         /\ d.close = c.close /\ d.expectedClose = c.expectedClose /\ d.fatal = c.fatal
<1>1. 0 \in 0 .. MaxRequests
  BY BoundsAssumption
<1> QED BY <1>1 DEF Context, Settled

\* What a decision leaves, sent or not.
LEMMA DecideLeaves ==
  ASSUME Inv, Decide
  PROVE  LET c == ctx[current]
             r == lab.approval.id
             d == Settled(c)
         IN /\ current \in Session /\ lab.session = current /\ lab.status = "awaiting-human"
            /\ c \in Context /\ r \in Request /\ c.pending = r
            /\ \E m :
                 /\ m \in Service /\ m.session = current /\ m.child = lab.child
                 /\ \/ /\ Becomes(Left(current, c, m, answered))
                       /\ Agree(m, c, said[current])
                       /\ m.status = "unknown" /\ m.approval.status = "unknown"
                    \/ /\ Becomes(Left(current, d, m, [answered EXCEPT ![r] = @ + 1]))
                       /\ Agree(m, d, said[current])
                       /\ m.status = "running" /\ m.approval.id = r
<1> USE Types
<1> DEFINE s == current
           c == ctx[s]
           r == lab.approval.id
           d == Settled(c)
           x == [Now EXCEPT !.ctx[s].pending = 0, !.ctx[s].safe = FALSE]
           v == Answer(x, r)
           Decision(approve) == IF approve THEN "accept" ELSE "decline"
           w(decision) == [Observe(v, s, ResponseSent(r, decision)) EXCEPT
                             !.lab = DecisionSent(@, decision)]
           z == [Now EXCEPT !.lab = DecisionLost(@)]
<1>1. PICK approve \in BOOLEAN :
        /\ MayDecide(lab, approve)
        /\ Becomes(w(Decision(approve))) \/ Becomes(z)
  BY DEF Decide
<1> DEFINE decision == Decision(approve)
           m == DecisionSent(Observed(lab, ResponseSent(r, decision)), decision)
           n == DecisionLost(lab)
           b == [answered EXCEPT ![r] = @ + 1]
<1>2. lab.status = "awaiting-human"
  BY <1>1 DEF MayDecide
<1>3. s \in Session
  <2>1. current # 0
    BY <1>2 DEF Inv, InStep, InitialService
  <2> QED BY <2>1 DEF Session
<1>4. s <= current /\ said[s] \subseteq said[s]
  OBVIOUS
<1>5. Now = Left(s, c, lab, answered) /\ Good(s, c, lab, answered, alive, said[s])
  BY <1>3, <1>4, StandsGood
<1>6. c \in Context /\ Fits(s, c) /\ Agree(lab, c, said[s]) /\ lab.session = s
  BY <1>5 DEF Good, Fine
<1>7. Now.ctx[s] = c /\ Now.lab = lab
  BY DEF Now
<1> HIDE DEF c, d
<1>8. /\ d \in Context /\ d.pending = 0 /\ d.run = c.run /\ d.reply = c.reply
      /\ d.stops = c.stops /\ d.asked = c.asked /\ d.stopped = c.stopped
      /\ d.blocked = c.blocked /\ d.conn = c.conn /\ d.attempted = c.attempted
      /\ d.turn = c.turn /\ d.started = c.started /\ d.completed = c.completed
      /\ d.close = c.close /\ d.expectedClose = c.expectedClose /\ d.fatal = c.fatal
  BY <1>6, SettledFields DEF d
<1>9. /\ r # 0 /\ c.pending = r
      /\ m \in Service /\ m.session = s /\ Agree(m, d, said[s])
      /\ m.status = "running" /\ m.child = lab.child /\ m.approval.id = r
      /\ n \in Service /\ n.session = s /\ Agree(n, c, said[s])
      /\ n.status = "unknown" /\ n.child = lab.child /\ n.approval.status = "unknown"
  <2>1. decision \in {"accept", "decline"}
    OBVIOUS
  <2> HIDE DEF decision, s
  <2>2. MayDecide(lab, approve) /\ lab \in Service
    BY <1>1
  <2>3. LET m1 == DecisionSent(Observed(lab, ResponseSent(lab.approval.id, decision)), decision)
            n1 == DecisionLost(lab)
        IN /\ lab.approval.id # 0 /\ c.pending = lab.approval.id
           /\ m1 \in Service /\ m1.session = s /\ Agree(m1, d, said[s])
           /\ m1.status = "running" /\ m1.child = lab.child
           /\ m1.approval.id = lab.approval.id
           /\ n1 \in Service /\ n1.session = s /\ Agree(n1, c, said[s])
           /\ n1.status = "unknown" /\ n1.child = lab.child /\ n1.approval.status = "unknown"
    BY <1>6, <1>8, <2>1, <2>2, DecisionAgrees
  <2> QED BY <2>3
<1>10. r \in Request
  BY <1>6, <1>9 DEF Context, Request
<1>11. x = [Now EXCEPT !.ctx[s] = d]
  BY <1>7 DEF Settled, d
<1>12. ASSUME Becomes(z) PROVE Becomes(Left(s, c, n, answered))
  <2>1. z = [Now EXCEPT !.lab = n]
    BY <1>7
  <2> HIDE DEF n, z
  <2>2. z = Left(s, c, n, answered)
    BY <1>3, <1>5, <2>1, LeftFields
  <2> QED BY <1>12, <2>2
<1>13. ASSUME Becomes(w(decision)) PROVE Becomes(Left(s, d, m, b))
  <2> DEFINE o == ResponseSent(r, decision)
             u == Observe(v, s, o)
             y == w(decision)
  <2>1. x = Left(s, d, lab, answered)
    BY <1>3, <1>5, <1>11, LeftFields
  <2> HIDE DEF x
  <2>2. v = Left(s, d, lab, b)
    BY <2>1 DEF Answer, Left
  <2> HIDE DEF v, b, o
  <2>3. u = Left(s, d, Observed(lab, o), b)
    BY <1>3, <1>6, <2>2, LeftObserve DEF Heard
  <2>4. y = [u EXCEPT !.lab = DecisionSent(@, decision)]
    BY DEF o
  <2> HIDE DEF u, y, decision
  <2>5. u.lab = Observed(lab, o)
    BY <2>3 DEF Left
  <2>6. y = [u EXCEPT !.lab = m]
    BY <2>4, <2>5 DEF o
  <2> HIDE DEF m
  <2>7. y = Left(s, d, m, b)
    BY <1>3, <2>3, <2>6, LeftFields
  <2>8. Becomes(y)
    BY <1>13 DEF y
  <2> QED BY <2>7, <2>8
<1> HIDE DEF x, v, w, z, m, n, b, decision
<1>14. \/ Becomes(Left(s, c, n, answered)) \/ Becomes(Left(s, d, m, b))
  BY <1>1, <1>12, <1>13 DEF decision
<1> QED BY <1>2, <1>3, <1>6, <1>9, <1>10, <1>14 DEF b, c, d

LEMMA DecideKeeps ==
  ASSUME Inv, Decide
  PROVE  Inv' /\ CompletedStay
<1> USE Types
<1> DEFINE s == current
           c == ctx[s]
           r == lab.approval.id
           d == Settled(c)
           b == [answered EXCEPT ![r] = @ + 1]
<1>1. UNCHANGED rest
  BY DEF Decide
<1>2. s <= current /\ said[s] \subseteq said[s]
  OBVIOUS
<1>0. s \in Session /\ lab.session = s /\ c \in Context /\ r \in Request /\ c.pending = r
  BY DecideLeaves
<1>3. /\ d \in Context /\ d.pending = 0 /\ d.run = c.run /\ d.reply = c.reply
      /\ d.stops = c.stops /\ d.asked = c.asked /\ d.stopped = c.stopped
      /\ d.blocked = c.blocked /\ d.conn = c.conn /\ d.attempted = c.attempted
      /\ d.turn = c.turn /\ d.started = c.started /\ d.completed = c.completed
      /\ d.close = c.close /\ d.expectedClose = c.expectedClose /\ d.fatal = c.fatal
  BY <1>0, SettledFields
<1>4. PICK m : /\ m \in Service /\ m.session = s
               /\ \/ Becomes(Left(s, c, m, answered)) /\ Agree(m, c, said[s])
                  \/ Becomes(Left(s, d, m, b)) /\ Agree(m, d, said[s])
  BY DecideLeaves
<1> HIDE DEF c, r, d
<1>5. Good(s, c, lab, answered, alive, said[s])
  BY <1>0, <1>2, StandsGood DEF c
<1>6. c \in Context /\ Fits(s, c) /\ c.run # "none"
  BY <1>5 DEF Good, Fine
<1>7. r # 0
  BY <1>0 DEF Request
<1>8. CASE Becomes(Left(s, c, m, answered)) /\ Agree(m, c, said[s])
  <2>1. Good(s, c, m, answered, alive, said[s])
    BY <1>4, <1>5, <1>8 DEF Good, Fine
  <2> QED BY <1>0, <1>1, <1>2, <1>8, <2>1, RestKeeps
<1>9. CASE Becomes(Left(s, d, m, b)) /\ Agree(m, d, said[s])
  <2>1. Fits(s, d)
    BY <1>3, <1>6 DEF Fits
  <2>2. b \in [Request -> Nat]
    BY <1>0
  <2>3. Settles(s, d, b)
    BY <1>0, <1>3, <1>7 DEF Settles, c
  <2> HIDE DEF b
  <2>4. Good(s, d, m, b, alive, said[s])
    BY <1>3, <1>4, <1>5, <1>6, <1>9, <2>1, <2>2, <2>3 DEF Good, Fine
  <2> QED BY <1>0, <1>1, <1>2, <1>9, <2>4, RestKeeps
<1> QED BY <1>4, <1>8, <1>9

-----------------------------------------------------------------------------
(* Every step                                                              *)

LEMMA InitInv == Init => Inv
<1> SUFFICES ASSUME Init PROVE Inv
  OBVIOUS
<1>1. InitialService \in Service
  BY DEF InitialService, Service, Status, Approval, NoApproval
<1>2. NewContext \in Context
  <2>1. 0 \in 0 .. MaxRequests
    BY BoundsAssumption
  <2> QED BY <2>1 DEF NewContext, Context, RunStage
<1>3. TypeOK
  BY <1>1, <1>2, BoundsAssumption DEF Init, TypeOK
<1>4. \A s \in Session : ctx[s] = NewContext /\ s > 0
  BY DEF Init, Session
<1>5. ASSUME NEW s \in Session PROVE Fits(s, NewContext)
  BY DEF Fits, NewContext, Early, RpcStage
<1>6. InStep
  <2>1. ChildrenAreHeld
    BY <1>4 DEF ChildrenAreHeld, Init, NewContext, RpcStage
  <2>2. RequestsAreHeld
    BY <1>4 DEF RequestsAreHeld, Init, NewContext
  <2> QED BY <1>4, <1>5, <2>1, <2>2 DEF InStep, Init, InitialService, Session
<1>7. OutcomeReported /\ StoppedMeansNoTurn /\ PendingIsHeld /\ AnsweredOnce
  BY DEF Init, OutcomeReported, StoppedMeansNoTurn, PendingIsHeld, AnsweredOnce,
         InitialService, NoApproval, Outcome
<1> QED BY <1>3, <1>6, <1>7 DEF Inv

LEMMA NextKeeps ==
  ASSUME Inv, [Next]_vars
  PROVE  Inv' /\ CompletedStay
<1>1. ASSUME NEW s \in Session, Scheduled(s) PROVE Inv' /\ CompletedStay
  <2>1. CASE RunGoesOn(s)
    BY <2>1, PreviousClosedKeeps, DiscoveredKeeps, DiscoveryClosedKeeps, ConnectedKeeps,
       ConfiguredKeeps, ThreadStartedKeeps, TurnAnsweredKeeps, ThrownSteps, TurnEndedKeeps,
       StartupStopKeeps DEF RunGoesOn
  <2>2. CASE StopGoesOn(s)
    BY <2>2, StopPreviousClosedKeeps, StopInterruptedKeeps, StopClosedKeeps DEF StopGoesOn
  <2> QED BY <1>1, <2>1, <2>2, CloseEndsKeeps, FilesWrittenKeeps, ThrownSteps, AnsweredKeeps,
             StopCleanedUpKeeps, InterruptStepsKeep, CloseFailsKeeps DEF Scheduled
<1>2. ASSUME NEW s \in Session, Child(s) PROVE Inv' /\ CompletedStay
  BY <1>2, AnsweredKeeps, InterruptStepsKeep, DiscoveryExitsKeeps, MainExitsKeeps,
     ConnectionFailsKeeps, TurnStartedMessageKeeps, ItemKeeps, UnexpectedKeeps,
     TurnCompletedMessageKeeps, ResolvedKeeps, ServerRequestKeeps DEF Child
<1>3. CASE UNCHANGED vars
  <2>1. TypeOK'
    BY <1>3 DEF vars, Inv, TypeOK
  <2>2. InStep'
    BY <1>3 DEF vars, Inv, InStep, ChildrenAreHeld, RequestsAreHeld, Conn
  <2>3. OutcomeReported' /\ StoppedMeansNoTurn' /\ PendingIsHeld' /\ AnsweredOnce'
    BY <1>3 DEF vars, Inv, OutcomeReported, StoppedMeansNoTurn, PendingIsHeld, AnsweredOnce
  <2>4. CompletedStay
    BY <1>3 DEF vars, CompletedStay
  <2> QED BY <2>1, <2>2, <2>3, <2>4 DEF Inv
<1> QED BY <1>1, <1>2, <1>3, StartKeeps, StopKeeps, DecideKeeps DEF Next

-----------------------------------------------------------------------------
(* What a step leaves of the approval that was answered, and of what the   *)
(* service says of the end of the child                                    *)

\* What the client tells the service of, but for the end of the child.
IsRemark(o) ==
  \/ \E x \in {"thread-started", "stop-unconfirmed", "unsupported-request",
                "protocol-failure"} : o = Plain(x)
  \/ \E x \in {"starting", "running", "closing", "unknown"} : o = ChildIs(x)
  \/ \E t \in Turns : o \in {TurnStarted(t), ItemSeen(t), CommandCompleted(t)}
  \/ \E t \in Turns, outcome \in Outcome : o = TurnCompleted(t, outcome)
  \/ \E r : o \in {Revoked(r), ResponseSent(r, "cancel")}

\* The end of the child.
EndOfChild == {Plain("startup-stopped")} \cup {ChildClosed(expected) : expected \in BOOLEAN}

Shown(l) == l.child = "closed" \/ l.status = "stopped"

\* The service is still of the session, and takes no approval for sent.
Heeds(l, m) ==
  /\ m \in Service /\ m.session = l.session
  /\ m.approval.id = l.approval.id
  /\ m.approval.status \in {l.approval.status, "cancelled"}

LEMMA HeedsSame ==
  ASSUME NEW l \in Service, NEW m \in Service, m.session = l.session, m.approval = l.approval
  PROVE  Heeds(l, m)
  BY DEF Heeds

LEMMA HeedsRecorded ==
  ASSUME NEW l \in Service, NEW r, r = Recorded(l)
  PROVE  /\ r \in Service /\ r.session = l.session /\ r.status = l.status /\ r.child = l.child
         /\ r.thread = l.thread /\ r.turn = l.turn /\ r.turnStatus = l.turnStatus
         /\ r.stopRequested = l.stopRequested
         /\ r.approval \in Approval /\ r.approval.status = l.approval.status
         /\ r.approval.id = l.approval.id /\ r.approval.safe = l.approval.safe
         /\ Heeds(l, r)
  BY DEF Recorded, Service, Approval, Heeds

\* The service is told of something.
LEMMA Hearing ==
  ASSUME NEW l \in Service, NEW o, o \in EndOfChild \/ IsRemark(o)
  PROVE  /\ Heeds(l, Observed(l, o))
         /\ IsRemark(o) /\ ~Shown(l) => ~Shown(Observed(l, o))
<1> DEFINE m == Observed(l, o)
           r == Recorded(l)
           Quiet == ~Shown(l) => ~Shown(m)
<1>1. /\ r \in Service /\ r.session = l.session /\ r.status = l.status /\ r.child = l.child
      /\ r.thread = l.thread /\ r.turn = l.turn /\ r.turnStatus = l.turnStatus
      /\ r.approval \in Approval /\ r.approval.status = l.approval.status
      /\ r.approval.id = l.approval.id /\ r.approval.safe = l.approval.safe
      /\ Heeds(l, r) /\ Heeds(l, l)
  BY HeedsRecorded, HeedsSame
<1>2. CASE o \in {Plain("stop-unconfirmed"), Plain("protocol-failure")}
  <2>1. m = l \/ m \in {ProtocolFailed(l), StopUnconfirmed(l)}
    BY <1>2, HearsFailure, HearsUnconfirmed
  <2>2. m # l => /\ m \in Service /\ m.status = "unknown" /\ m.session = l.session
                 /\ m.approval.status = l.approval.status /\ m.approval.id = l.approval.id
                 /\ (m.child = "closed" <=> l.child = "closed")
    BY <2>1, UnknownFields
  <2> HIDE DEF m
  <2> QED BY <1>1, <2>2 DEF Heeds, Shown, m
<1>3. CASE o \in {Plain("thread-started"), Plain("unsupported-request")}
  <2> DEFINE n == [r EXCEPT !.thread = TRUE]
  <2>1. m \in {l, r, n}
    BY <1>3, HearsPlain
  <2>2. /\ n \in Service /\ n.status = r.status /\ n.child = r.child /\ n.session = r.session
        /\ n.approval = r.approval
    BY <1>1 DEF Service
  <2> HIDE DEF m, n, r
  <2> QED BY <1>1, <2>1, <2>2 DEF Heeds, Shown, m
<1>4. ASSUME NEW x \in {"starting", "running", "closing"}, o = ChildIs(x)
      PROVE  Heeds(l, m) /\ Quiet
  <2>1. m = [r EXCEPT !.child = x]
    BY <1>4 DEF Observed, Ignores, ChildIs, ChildStatusApplied, Progress
  <2> HIDE DEF m, r
  <2>2. /\ m \in Service /\ m.status = r.status /\ m.child = x /\ m.session = r.session
        /\ m.approval = r.approval
    BY <1>1, <2>1 DEF Service
  <2> QED BY <1>1, <2>2 DEF Heeds, Shown
<1>5. CASE o = ChildIs("unknown")
  <2> DEFINE t == TurnUnknown(l)
             n == [r EXCEPT !.child = "unknown", !.status = "unknown"]
  <2>1. m = [n EXCEPT !.turnStatus = t]
    BY <1>5 DEF Observed, Ignores, ChildIs, ChildStatusApplied, Progress
  <2>2. t \in Outcome \cup {"not-started", "inProgress", "unknown"}
    BY DEF TurnUnknown
  <2> HIDE DEF m, r, t
  <2>3. /\ n \in Service /\ n.status = "unknown" /\ n.child = "unknown"
        /\ n.session = r.session /\ n.approval = r.approval
    BY <1>1 DEF Service, Status
  <2> HIDE DEF n
  <2>4. /\ m \in Service /\ m.status = "unknown" /\ m.child = "unknown"
        /\ m.session = r.session /\ m.approval = r.approval
    BY <2>1, <2>2, <2>3 DEF Service
  <2> QED BY <1>1, <2>4 DEF Heeds, Shown, m
<1>6. ASSUME NEW t \in Turns, o = TurnStarted(t) PROVE Heeds(l, m) /\ Quiet
  <2> DEFINE n == [r EXCEPT !.turn = t, !.turnStatus = "inProgress", !.status = "running"]
  <2>1. m \in {l, n}
    BY <1>6 DEF Observed, Ignores, TurnStarted, Progress
  <2> HIDE DEF m, r
  <2>2. /\ n \in Service /\ n.status = "running" /\ n.child = r.child
        /\ n.session = r.session /\ n.approval = r.approval
    BY <1>1 DEF Service, Status
  <2> HIDE DEF n
  <2> QED BY <1>1, <2>1, <2>2 DEF Heeds, Shown
<1>7. ASSUME NEW t \in Turns, o \in {ItemSeen(t), CommandCompleted(t)}
      PROVE  Heeds(l, m) /\ Quiet
  <2> DEFINE n == [r EXCEPT !.status = "running"]
  <2>1. m \in {l, r, n}
    BY <1>7, HearsPlain
  <2> HIDE DEF m, r
  <2>2. /\ n \in Service /\ n.status = "running" /\ n.child = r.child
        /\ n.session = r.session /\ n.approval = r.approval
    BY <1>1 DEF Service, Status
  <2> HIDE DEF n
  <2> QED BY <1>1, <2>1, <2>2 DEF Heeds, Shown, r
<1>8. ASSUME NEW t \in Turns, NEW outcome \in Outcome, o = TurnCompleted(t, outcome)
      PROVE  Heeds(l, m) /\ Quiet
  <2> DEFINE st == Reported(outcome)
             n == [r EXCEPT !.turnStatus = outcome, !.status = st]
  <2>1. m \in {l, n}
    BY <1>8 DEF Observed, Ignores, TurnCompleted, Progress
  <2>2. st \in {"finished", "failed", "interrupted"}
    BY DEF Reported, Outcome
  <2> HIDE DEF m, r, st
  <2>3. /\ n \in Service /\ n.status = st /\ n.child = r.child
        /\ n.session = r.session /\ n.approval = r.approval
    BY <1>1, <2>2 DEF Service, Status, Terminal
  <2> HIDE DEF n
  <2> QED BY <1>1, <2>1, <2>2, <2>3 DEF Heeds, Shown
<1>9. ASSUME NEW a, o \in {Revoked(a), ResponseSent(a, "cancel")}
      PROVE  Heeds(l, m) /\ Quiet
  <2> DEFINE p == [r.approval EXCEPT !.status = "cancelled", !.safe = FALSE]
  <2>1. \/ m = l
        \/ \E st \in {"stopping", "running", l.status} :
             /\ st \in {"stopping", "stopped"} => l.status = st
             /\ m = [r EXCEPT !.approval = p, !.status = st]
    <3>1. CASE o = Revoked(a)
      BY ZenonT(60), <1>1, <3>1 DEF Observed, Ignores, Revoked, Progress, RevocationApplied, Service
    <3>2. CASE o = ResponseSent(a, "cancel")
      <4>1. m \in {l, ResponseApplied(l, ResponseSent(a, "cancel"))}
        BY <3>2 DEF Observed, Ignores, ResponseSent, Progress
      <4>2. ResponseApplied(l, ResponseSent(a, "cancel")) =
              [r EXCEPT !.approval = p,
                        !.status = IF l.status = "stopping" THEN "stopping" ELSE "running"]
        BY <1>1 DEF ResponseApplied, ResponseSent, Service
      <4> HIDE DEF m, r, p
      <4> QED BY <4>1, <4>2
    <3> QED BY <1>9, <3>1, <3>2
  <2>2. p \in Approval /\ p.status = "cancelled" /\ p.id = r.approval.id
    BY <1>1 DEF Approval
  <2> HIDE DEF m, r, p
  <2>3. ASSUME NEW st \in {"stopping", "running", l.status},
               st \in {"stopping", "stopped"} => l.status = st,
               m = [r EXCEPT !.approval = p, !.status = st]
        PROVE  Heeds(l, m) /\ Quiet
    <3>1. /\ m \in Service /\ m.status = st /\ m.child = r.child /\ m.session = r.session
          /\ m.approval = p
      BY <1>1, <2>2, <2>3 DEF Service, Status
    <3> QED BY <1>1, <2>2, <2>3, <3>1 DEF Heeds, Shown
  <2> QED BY <1>1, <2>1, <2>3
<1>10. ASSUME o = Plain("startup-stopped") PROVE Heeds(l, m)
  <2> DEFINE n == [r EXCEPT !.status = "stopped", !.child = "closed", !.turnStatus = "not-started"]
  <2>1. m \in {l, n}
    BY <1>10 DEF Observed, Ignores, Plain, Progress, StartupStopped
  <2> HIDE DEF m, r
  <2>2. n \in Service /\ n.session = r.session /\ n.approval = r.approval
    BY <1>1 DEF Service, Status, Terminal
  <2> HIDE DEF n
  <2> QED BY <1>1, <2>1, <2>2 DEF Heeds
<1>11. ASSUME NEW expected \in BOOLEAN, o = ChildClosed(expected) PROVE Heeds(l, m)
  <2> DEFINE n == [r EXCEPT !.child = "closed"]
             u == [n EXCEPT !.status = "unknown"]
  <2>1. m \in {n, [u EXCEPT !.turnStatus = "unknown"], [n EXCEPT !.status = "stopped"]}
    <3>1. m = ChildStatusApplied(l, ChildClosed(expected))
      BY <1>11 DEF Observed, Ignores, ChildClosed, Progress
    <3>2. ChildStatusApplied(l, ChildClosed(expected)) =
            CASE ~expected /\ l.turnStatus \notin Outcome -> [u EXCEPT !.turnStatus = "unknown"]
              [] /\ expected \/ l.turnStatus \in Outcome
                 /\ l.status = "stopping" /\ l.turnStatus = "not-started" ->
                   [n EXCEPT !.status = "stopped"]
              [] OTHER -> n
      BY DEF ChildStatusApplied, ChildClosed
    <3> HIDE DEF m, n, u
    <3> QED BY <3>1, <3>2
  <2> HIDE DEF m, r
  <2>2. n \in Service /\ n.session = r.session /\ n.approval = r.approval
    BY <1>1 DEF Service
  <2> HIDE DEF n
  <2>3. u \in Service /\ u.session = r.session /\ u.approval = r.approval
    BY <2>2 DEF Service, Status
  <2> HIDE DEF u
  <2>4. m \in Service /\ m.session = r.session /\ m.approval = r.approval
    BY <2>1, <2>2, <2>3 DEF Service, Status, Terminal
  <2> QED BY <1>1, <2>4 DEF Heeds
<1>12. ASSUME IsRemark(o) PROVE Heeds(l, m) /\ Quiet
  <2> HIDE DEF m, Quiet
  <2>1. Heeds(l, m) /\ Quiet
    BY <1>2, <1>3, <1>4, <1>5, <1>6, <1>7, <1>8, <1>9, <1>12 DEF IsRemark, m, Quiet
  <2> QED BY <2>1
<1> QED BY <1>10, <1>11, <1>12 DEF EndOfChild

Sent == {"sent", "decline"}

\* What the methods may leave of the state, in a step of session s: the other sessions
\* are as they were, and the service if it is of another; no approval is newly taken
\* for sent, no answer is taken back; and, if nothing told of the end of the child, the
\* service does not say so.
Onward(s, w, quiet) ==
  /\ w = Left(s, w.ctx[s], w.lab, w.answered)
  /\ w.lab \in Service /\ w.lab.session = lab.session
  /\ lab.session # s => w.lab = lab
  /\ w.lab.approval.status \in Sent =>
       w.lab.approval.status = lab.approval.status /\ w.lab.approval.id = lab.approval.id
  /\ w.answered \in [Request -> Nat] /\ \A r \in Request : answered[r] <= w.answered[r]
  /\ quiet /\ ~Shown(lab) => ~Shown(w.lab)

LEMMA OnwardNow ==
  ASSUME Inv, NEW s \in Session, NEW q \in BOOLEAN
  PROVE  Onward(s, Now, q)
<1>1. Now = Left(s, ctx[s], lab, answered)
  BY Types DEF Now, Left
<1>2. Now.lab = lab /\ Now.ctx[s] = ctx[s] /\ Now.answered = answered
  BY DEF Now
<1> HIDE DEF Now
<1> QED BY <1>1, <1>2, Types DEF Onward

\* What is left after that, when the service heeds it.
LEMMA OnwardLeft ==
  ASSUME Inv, NEW s \in Session, NEW w, NEW q \in BOOLEAN, Onward(s, w, q),
         NEW d, NEW m, NEW b, Heeds(w.lab, m), lab.session # s => m = w.lab,
         q /\ ~Shown(w.lab) => ~Shown(m),
         b \in [Request -> Nat], \A r \in Request : w.answered[r] <= b[r],
         NEW v, v = Left(s, d, m, b)
  PROVE  Onward(s, v, q) /\ v.ctx[s] = d /\ v.lab = m /\ v.answered = b
<1>1. v.ctx[s] = d /\ v.lab = m /\ v.answered = b
  BY LeftFields
<1>2. \A r \in Request : answered[r] <= b[r]
  <2>1. w.answered \in [Request -> Nat] /\ \A r \in Request : answered[r] <= w.answered[r]
    BY DEF Onward
  <2> QED BY <2>1, Types
<1> QED BY <1>1, <1>2 DEF Onward, Heeds, Sent

LEMMA OnwardIs ==
  ASSUME Inv, NEW s \in Session, NEW w, NEW q, Onward(s, w, q)
  PROVE  /\ w = Left(s, w.ctx[s], w.lab, w.answered)
         /\ w.lab \in Service /\ w.lab.session = lab.session /\ Heeds(w.lab, w.lab)
         /\ w.answered \in [Request -> Nat] /\ \A r \in Request : w.answered[r] <= w.answered[r]
         /\ \A d : [w EXCEPT !.ctx[s] = d] = Left(s, d, w.lab, w.answered)
         /\ \A m : [w EXCEPT !.lab = m] = Left(s, w.ctx[s], m, w.answered)
<1> DEFINE c == w.ctx[s]
           l == w.lab
           a == w.answered
<1>1. w = Left(s, c, l, a) /\ l \in Service /\ l.session = lab.session /\ a \in [Request -> Nat]
  BY DEF Onward
<1>2. /\ \A d : [w EXCEPT !.ctx[s] = d] = Left(s, d, l, a)
      /\ \A m : [w EXCEPT !.lab = m] = Left(s, c, m, a)
  <2> HIDE DEF c, l, a
  <2> QED BY <1>1, LeftFields
<1>3. Heeds(l, l) /\ \A r \in Request : a[r] <= a[r]
  BY <1>1, HeedsSame
<1> QED BY <1>1, <1>2, <1>3

LEMMA OnwardFields ==
  ASSUME Inv, NEW s \in Session, NEW w, NEW q, Onward(s, w, q)
  PROVE  \A d : [w EXCEPT !.ctx[s] = d].ctx[s] = d
<1>1. \A d : [w EXCEPT !.ctx[s] = d] = Left(s, d, w.lab, w.answered)
  BY OnwardIs
<1>2. ASSUME NEW d, NEW x, x = [w EXCEPT !.ctx[s] = d] PROVE x.ctx[s] = d
  <2>1. x = Left(s, d, w.lab, w.answered)
    BY <1>1, <1>2
  <2> QED BY <2>1, LeftFields
<1>3. \A d : \A x : x = [w EXCEPT !.ctx[s] = d] => x.ctx[s] = d
  BY <1>2
<1> QED BY <1>3

\* An answer more.
LEMMA CountsUp ==
  ASSUME NEW a \in [Request -> Nat], NEW r, NEW b, b = [a EXCEPT ![r] = @ + 1]
  PROVE  b \in [Request -> Nat] /\ \A x \in Request : a[x] <= b[x]
<1>1. b = [x \in Request |-> IF x = r THEN a[x] + 1 ELSE a[x]]
  OBVIOUS
<1>2. \A x \in Request : a[x] \in Nat
  OBVIOUS
<1>3. \A x \in Request : b[x] = IF x = r THEN a[x] + 1 ELSE a[x]
  BY <1>1
<1>4. \A x \in Request : b[x] \in Nat /\ a[x] <= b[x]
  BY <1>2, <1>3
<1> QED BY <1>1, <1>4

\* The context is set.
LEMMA OnwardPut ==
  ASSUME Inv, NEW s \in Session, NEW w, NEW q \in BOOLEAN, Onward(s, w, q), NEW d,
         NEW v, v = [w EXCEPT !.ctx[s] = d]
  PROVE  Onward(s, v, q) /\ v.ctx[s] = d /\ v.lab = w.lab /\ v.answered = w.answered
<1>1. v = Left(s, d, w.lab, w.answered)
  BY OnwardIs
<1> QED BY <1>1, OnwardIs, OnwardLeft

\* The service is changed, that of the session.
LEMMA OnwardLab ==
  ASSUME Inv, NEW s \in Session, NEW w, NEW q \in BOOLEAN, Onward(s, w, q),
         lab.session = s, NEW m \in Service, m.session = s,
         m.approval.status \in Sent =>
           m.approval.status = w.lab.approval.status /\ m.approval.id = w.lab.approval.id,
         ~Shown(w.lab) => ~Shown(m),
         NEW v, v = [w EXCEPT !.lab = m]
  PROVE  Onward(s, v, q) /\ v.ctx[s] = w.ctx[s] /\ v.lab = m /\ v.answered = w.answered
<1>1. v = Left(s, w.ctx[s], m, w.answered)
  BY OnwardIs
<1>2. v.ctx[s] = w.ctx[s] /\ v.lab = m /\ v.answered = w.answered
  BY <1>1, LeftFields
<1> QED BY <1>1, <1>2 DEF Onward

\* What it makes of an observation of a session, if that is its own.
LEMMA HeardHeeds ==
  ASSUME NEW l \in Service, NEW s, NEW o, o \in EndOfChild \/ IsRemark(o)
  PROVE  /\ Heeds(l, Heard(l, s, o)) /\ (l.session # s => Heard(l, s, o) = l)
         /\ IsRemark(o) /\ ~Shown(l) => ~Shown(Heard(l, s, o))
<1>1. CASE l.session = s
  BY <1>1, Hearing DEF Heard
<1>2. CASE l.session # s
  BY <1>2, HeedsSame DEF Heard
<1> QED BY <1>1, <1>2

\* The service is told of something.
LEMMA OnwardTold ==
  ASSUME Inv, NEW s \in Session, NEW w, NEW q \in BOOLEAN, Onward(s, w, q), NEW o,
         IsRemark(o) \/ (o \in EndOfChild /\ ~q), NEW v, v = Observe(w, s, o)
  PROVE  /\ Onward(s, v, q) /\ v.ctx[s] = w.ctx[s] /\ v.lab = Heard(w.lab, s, o)
         /\ v.answered = w.answered
<1>1. v = Left(s, w.ctx[s], Heard(w.lab, s, o), w.answered)
  <2> DEFINE c == w.ctx[s]
             l == w.lab
             a == w.answered
  <2>1. w = Left(s, c, l, a)
    BY OnwardIs
  <2> HIDE DEF c, l, a
  <2>2. v = Left(s, c, Heard(l, s, o), a)
    BY <2>1, LeftObserve
  <2> QED BY <2>2 DEF c, l, a
<1>2. /\ Heeds(w.lab, Heard(w.lab, s, o))
      /\ lab.session # s => Heard(w.lab, s, o) = w.lab
      /\ q /\ ~Shown(w.lab) => ~Shown(Heard(w.lab, s, o))
  BY OnwardIs, HeardHeeds
<1> QED BY <1>1, <1>2, OnwardIs, OnwardLeft

-----------------------------------------------------------------------------
(* The methods *)

LEMMA OnwardAnswer ==
  ASSUME Inv, NEW s \in Session, NEW w, NEW q \in BOOLEAN, Onward(s, w, q), NEW r,
         NEW v, v = Answer(w, r)
  PROVE  Onward(s, v, q) /\ v.ctx[s] = w.ctx[s] /\ v.lab = w.lab
<1> DEFINE c == w.ctx[s]
           l == w.lab
           a == w.answered
           b == [a EXCEPT ![r] = @ + 1]
<1>1. w = Left(s, c, l, a) /\ a \in [Request -> Nat]
  BY OnwardIs
<1>2. v = Left(s, c, l, b)
  <2> HIDE DEF c, l, a
  <2> QED BY <1>1 DEF Answer, Left
<1>3. b \in [Request -> Nat] /\ \A x \in Request : a[x] <= b[x]
  <2> HIDE DEF a
  <2> QED BY <1>1, CountsUp
<1> HIDE DEF b
<1> QED BY <1>2, <1>3, OnwardIs, OnwardLeft

LEMMA OnwardAt ==
  ASSUME Inv, NEW s \in Session, NEW w, NEW q \in BOOLEAN, Onward(s, w, q), NEW stage,
         NEW v, v = At(w, s, stage)
  PROVE  /\ Onward(s, v, q) /\ v.ctx[s] = Going(w.ctx[s], stage)
         /\ v.lab = w.lab /\ v.answered = w.answered
<1>1. v = Left(s, Going(w.ctx[s], stage), w.lab, w.answered)
  <2> DEFINE c == w.ctx[s]
             l == w.lab
             a == w.answered
  <2>1. w = Left(s, c, l, a)
    BY OnwardIs
  <2> HIDE DEF c, l, a
  <2>2. v = Left(s, Going(c, stage), l, a)
    BY <2>1, LeftAt
  <2> QED BY <2>2 DEF c, l, a
<1> QED BY <1>1, OnwardIs, OnwardLeft

LEMMA OnwardCancels ==
  ASSUME Inv, NEW s \in Session, NEW w, NEW q \in BOOLEAN, Onward(s, w, q),
         NEW sent \in BOOLEAN, NEW v, v = CancelPending(w, s, sent)
  PROVE  Onward(s, v, q) /\ v.ctx[s] = Cancelled(w.ctx[s])
<1> DEFINE c == w.ctx[s]
           l == w.lab
           a == w.answered
           m == Told(l, s, c, sent)
           b == Counted(a, c, sent)
<1>1. w = Left(s, c, l, a) /\ l \in Service /\ a \in [Request -> Nat] /\ l.session = lab.session
      /\ Heeds(l, l)
  BY OnwardIs
<1>2. v = Left(s, Cancelled(c), m, b)
  <2> HIDE DEF c, l, a
  <2> QED BY <1>1, LeftCancel DEF m, b
<1>3. /\ Heeds(l, m) /\ (lab.session # s => m = l) /\ (~Shown(l) => ~Shown(m))
  <2> HIDE DEF c, l
  <2> DEFINE o == IF sent THEN ResponseSent(c.pending, "cancel") ELSE Revoked(c.pending)
  <2>1. IsRemark(o)
    BY DEF IsRemark
  <2> HIDE DEF o
  <2>2. m = l \/ m = Heard(l, s, o)
    BY DEF Told, o
  <2> HIDE DEF m
  <2> QED BY <1>1, <2>1, <2>2, HeardHeeds
<1>4. b \in [Request -> Nat] /\ \A x \in Request : a[x] <= b[x]
  <2> HIDE DEF a
  <2>1. b = a \/ b = [a EXCEPT ![c.pending] = @ + 1]
    BY DEF Counted
  <2> HIDE DEF b, c
  <2> QED BY <1>1, <2>1, CountsUp
<1> HIDE DEF m, b
<1> QED BY <1>2, <1>3, <1>4, OnwardLeft

LEMMA OnwardCloses ==
  ASSUME Inv, NEW s \in Session, NEW w, NEW q \in BOOLEAN, Onward(s, w, q),
         NEW v, v = CloseContext(w, s)
  PROVE  Onward(s, v, q) /\ v.ctx[s] = Closing(w.ctx[s])
<1> DEFINE c == w.ctx[s]
           d == [c EXCEPT !.close = "true", !.expectedClose = TRUE]
           e == [c EXCEPT !.close = "wait", !.expectedClose = TRUE]
           y == [w EXCEPT !.ctx[s] = d]
           z == [w EXCEPT !.ctx[s] = e]
<1>1. y = [w EXCEPT !.ctx[s].close = "true", !.ctx[s].expectedClose = TRUE]
      /\ z = [w EXCEPT !.ctx[s].close = "wait", !.ctx[s].expectedClose = TRUE]
  <2>1. \A x : w.ctx[s] = c /\ [w EXCEPT !.ctx[s] = x].ctx[s] = x
    <3>1. ASSUME NEW x, NEW u, u = [w EXCEPT !.ctx[s] = x] PROVE u.ctx[s] = x
      BY <3>1, OnwardPut
    <3> QED BY <3>1
  <2> QED BY ZenonT(60), <2>1, OnwardIs DEF Left
<1>2. \/ v = w /\ Closing(c) = c
      \/ v = y /\ Closing(c) = d
      \/ v = Observe(z, s, ChildIs("closing")) /\ Closing(c) = e
  <2> HIDE DEF y, z
  <2>1. CloseContext(w, s) =
          IF c.close \in {"wait", "true"} THEN w
          ELSE IF c.conn = "none" THEN y ELSE Observe(z, s, ChildIs("closing"))
    BY <1>1 DEF CloseContext
  <2> QED BY <2>1 DEF Closing
<1>3. IsRemark(ChildIs("closing"))
  BY DEF IsRemark
<1> HIDE DEF c, d, e, y, z
<1>4. Onward(s, y, q) /\ y.ctx[s] = d /\ Onward(s, z, q) /\ z.ctx[s] = e
  BY OnwardPut DEF y, z
<1>5. \A u : u = Observe(z, s, ChildIs("closing")) => Onward(s, u, q) /\ u.ctx[s] = e
  BY <1>3, <1>4, OnwardTold
<1> QED BY <1>2, <1>4, <1>5 DEF c

\* The observations of these are none of the end of the child.
LEMMA Remarks ==
  /\ \A x \in {"thread-started", "stop-unconfirmed", "unsupported-request",
               "protocol-failure"} : IsRemark(Plain(x))
  /\ \A x \in {"starting", "running", "closing", "unknown"} : IsRemark(ChildIs(x))
  /\ \A t \in Turns : IsRemark(TurnStarted(t)) /\ IsRemark(ItemSeen(t))
                        /\ IsRemark(CommandCompleted(t))
  /\ \A t \in Turns, outcome \in Outcome : IsRemark(TurnCompleted(t, outcome))
  /\ \A expected \in BOOLEAN : ChildClosed(expected) \in EndOfChild
  /\ Plain("startup-stopped") \in EndOfChild
  BY DEF IsRemark, EndOfChild

LEMMA OnwardFails ==
  ASSUME Inv, NEW s \in Session, NEW w, NEW q \in BOOLEAN, Onward(s, w, q),
         NEW v, v = FailContext(w, s)
  PROVE  Onward(s, v, q)
<1> DEFINE c == w.ctx[s]
           d == [c EXCEPT !.fatal = TRUE, !.stopped = TRUE]
           x == [w EXCEPT !.ctx[s] = d]
           y == CancelPending(x, s, FALSE)
           z == Observe(y, s, Plain("protocol-failure"))
<1>0. \A e : [w EXCEPT !.ctx[s] = e].ctx[s] = e
  BY OnwardFields
<1>1. x = [w EXCEPT !.ctx[s].fatal = TRUE, !.ctx[s].stopped = TRUE]
  BY ZenonT(60), <1>0, OnwardIs DEF Left
<1>2. v = w \/ v = CloseContext(z, s)
  <2> HIDE DEF x
  <2> QED BY <1>1 DEF FailContext, RevokeAll
<1> HIDE DEF d, x, y, z
<1>3. Onward(s, x, q)
  BY OnwardPut DEF x
<1>4. Onward(s, y, q)
  BY <1>3, OnwardCancels DEF y
<1>5. Onward(s, z, q)
  BY <1>4, OnwardTold, Remarks DEF z
<1> QED BY <1>2, <1>5, OnwardCloses

LEMMA OnwardThrows ==
  ASSUME Inv, NEW s \in Session, NEW w, NEW q \in BOOLEAN, Onward(s, w, q),
         NEW v, v = Throw(w, s)
  PROVE  Onward(s, v, q)
<1> DEFINE u == At(w, s, "done")
           d == [u.ctx[s] EXCEPT !.fatal = TRUE]
           x == [u EXCEPT !.ctx[s] = d]
           y == Observe(x, s, Plain("protocol-failure"))
           z == Observe(y, s, ChildIs("unknown"))
<1>1. x = [u EXCEPT !.ctx[s].fatal = TRUE]
  OBVIOUS
<1>2. v \in {CloseContext(u, s), CloseContext(z, s)}
  <2> HIDE DEF x
  <2> QED BY <1>1 DEF Throw
<1> HIDE DEF d, u, x, y, z
<1>3. Onward(s, u, q)
  BY OnwardAt DEF u
<1>4. Onward(s, x, q)
  BY <1>3, OnwardPut DEF x
<1>5. Onward(s, y, q)
  BY <1>4, OnwardTold, Remarks DEF y
<1>6. Onward(s, z, q)
  BY <1>5, OnwardTold, Remarks DEF z
<1> QED BY <1>2, <1>3, <1>6, OnwardCloses

LEMMA OnwardCompletes ==
  ASSUME Inv, NEW s \in Session, NEW w, NEW q \in BOOLEAN, Onward(s, w, q), NEW t \in Turns,
         NEW outcome \in Outcome, NEW sent \in BOOLEAN,
         NEW v, v = OnTurnCompleted(w, s, t, outcome, sent)
  PROVE  Onward(s, v, q)
<1> DEFINE u == CancelPending(w, s, sent)
           d == [u.ctx[s] EXCEPT !.completed = TRUE, !.ended = TRUE]
           x == [u EXCEPT !.ctx[s] = d]
<1>1. Onward(s, u, q)
  <2> HIDE DEF u
  <2> QED BY OnwardCancels DEF u
<1>2. x = [u EXCEPT !.ctx[s].completed = TRUE, !.ctx[s].ended = TRUE]
  <2> HIDE DEF u
  <2>1. \A e : [u EXCEPT !.ctx[s] = e].ctx[s] = e
    BY <1>1, OnwardFields
  <2> QED BY ZenonT(60), <1>1, <2>1, OnwardIs DEF Left
<1>3. v \in {w, Observe(x, s, TurnCompleted(t, outcome))}
  <2> HIDE DEF x
  <2> QED BY <1>2 DEF OnTurnCompleted
<1> HIDE DEF u, d, x
<1>4. Onward(s, x, q)
  BY <1>1, OnwardPut DEF x
<1> QED BY <1>3, <1>4, OnwardTold, Remarks

LEMMA OnwardRejects ==
  ASSUME Inv, NEW s \in Session, NEW w, NEW q \in BOOLEAN, Onward(s, w, q),
         NEW v, v = Rejected(w, s)
  PROVE  Onward(s, v, q) /\ v.ctx[s] = Rejecting(w.ctx[s]) /\ v.lab = w.lab
<1> DEFINE c == w.ctx[s]
           e == [c EXCEPT !.reply = IF @ = "waiting" THEN "error" ELSE @]
           x == [w EXCEPT !.ctx[s] = e]
           d == [e EXCEPT !.stops = IF "interrupt" \in @
                                    THEN (@ \ {"interrupt"}) \cup {"refused"} ELSE @]
           y == [x EXCEPT !.ctx[s] = d]
<1>1. x.ctx[s] = e
  <2> HIDE DEF e
  <2> QED BY OnwardFields
<1>2. v = [x EXCEPT !.ctx[s].stops = IF "interrupt" \in @
                                    THEN (@ \ {"interrupt"}) \cup {"refused"} ELSE @]
  BY ZenonT(60) DEF Rejected
<1>3. v = y
  <2> HIDE DEF x, e
  <2> QED BY <1>1, <1>2
<1>4. d = Rejecting(c)
  BY DEF Rejecting
<1> HIDE DEF c, d, e, x, y
<1>5. Onward(s, x, q) /\ x.lab = w.lab
  BY OnwardPut DEF x
<1>6. y = [x EXCEPT !.ctx[s] = d]
  BY DEF y
<1>7. Onward(s, y, q)
  BY <1>5, <1>6, OnwardPut
<1>8. y.ctx[s] = d
  BY <1>5, <1>6, OnwardPut
<1>9. y.lab = x.lab
  BY <1>5, <1>6, OnwardPut
<1> QED BY <1>3, <1>4, <1>5, <1>7, <1>8, <1>9 DEF c

LEMMA OnwardLeaves ==
  ASSUME Inv, NEW s \in Session, NEW w, NEW q \in BOOLEAN, Onward(s, w, q), NEW stage,
         NEW v, v = Leave(w, s, stage)
  PROVE  Onward(s, v, q) /\ v.lab = w.lab
<1> DEFINE d == [w.ctx[s] EXCEPT !.stops = @ \ {stage}]
<1>1. v = [w EXCEPT !.ctx[s] = d]
  BY DEF Leave
<1> HIDE DEF d
<1> QED BY <1>1, OnwardPut

\* It moves to another await.
LEMMA OnwardMoves ==
  ASSUME Inv, NEW s \in Session, NEW w, NEW q \in BOOLEAN, Onward(s, w, q), NEW next,
         NEW v, v = [w EXCEPT !.ctx[s].stops = @ \cup {next}]
  PROVE  Onward(s, v, q)
<1> DEFINE d == [w.ctx[s] EXCEPT !.stops = @ \cup {next}]
<1>1. v = [w EXCEPT !.ctx[s] = d]
  OBVIOUS
<1> HIDE DEF d
<1> QED BY <1>1, OnwardPut

LEMMA OnwardEmits ==
  ASSUME Inv, NEW s \in Session, NEW w, NEW q \in BOOLEAN, Onward(s, w, q), ~q,
         NEW v, v = EmitStartupStopped(w, s)
  PROVE  Onward(s, v, q)
<1> DEFINE d == [w.ctx[s] EXCEPT !.emitted = TRUE]
           x == [w EXCEPT !.ctx[s] = d]
<1>1. x = [w EXCEPT !.ctx[s].emitted = TRUE]
  OBVIOUS
<1>2. v \in {w, Observe(x, s, Plain("startup-stopped"))}
  <2> HIDE DEF x
  <2> QED BY <1>1 DEF EmitStartupStopped
<1> HIDE DEF d, x
<1>3. Onward(s, x, q)
  BY OnwardPut DEF x
<1> QED BY <1>2, <1>3, OnwardTold, Remarks

LEMMA OnwardUnless ==
  ASSUME Inv, NEW s \in Session, NEW w, NEW q \in BOOLEAN, Onward(s, w, q),
         NEW stopped, NEW stage, NEW v, v = Unless(w, s, stopped, stage)
  PROVE  Onward(s, v, q)
<1> DEFINE x == At(w, s, "finish")
           y == At(w, s, stage)
<1>1. v = CloseContext(x, s) \/ v = y
  BY DEF Unless
<1> HIDE DEF x, y
<1>2. Onward(s, x, q) /\ Onward(s, y, q)
  BY OnwardAt DEF x, y
<1> QED BY <1>1, <1>2, OnwardCloses

-----------------------------------------------------------------------------
(* The steps of one session *)

Moves(s, quiet) == \E w : Becomes(w) /\ Onward(s, w, quiet)

LEMMA SendsOrNot ==
  ASSUME NEW s, NEW sent \in Sends(s)
  PROVE  sent \in BOOLEAN
  BY DEF Sends

\* Those of run.
LEMMA RunMoves ==
  ASSUME Inv, NEW s \in Session, NEW q \in BOOLEAN,
         \/ Discovered(s) \/ DiscoveryClosed(s) \/ DiscoveryStuck(s) \/ Connected(s)
         \/ Configured(s) \/ ThreadStarted(s) \/ RequestRejected(s) \/ TurnEnded(s)
         \/ TurnTimesOut(s)
  PROVE  Moves(s, q)
<1>0. Onward(s, Now, q)
  BY OnwardNow
<1>1. CASE DiscoveryStuck(s) \/ RequestRejected(s) \/ TurnTimesOut(s)
  <2>1. Becomes(Throw(Now, s))
    BY <1>1 DEF DiscoveryStuck, RequestRejected, TurnTimesOut
  <2> QED BY <1>0, <2>1, OnwardThrows DEF Moves
<1>2. CASE TurnEnded(s)
  <2>1. Becomes(At(Now, s, "done"))
    BY <1>2 DEF TurnEnded
  <2> QED BY <1>0, <2>1, OnwardAt DEF Moves
<1>3. CASE Discovered(s)
  <2> DEFINE x == At(Now, s, "closing")
             d == [x.ctx[s] EXCEPT !.expectedClose = TRUE]
             y == [x EXCEPT !.ctx[s] = d]
             z == Unless(Now, s, TRUE, "finish")
  <2>1. y = [x EXCEPT !.ctx[s].expectedClose = TRUE]
    OBVIOUS
  <2>2. Becomes(z) \/ Becomes(y)
    <3> HIDE DEF y, z
    <3> QED BY <1>3, <2>1 DEF Discovered, z
  <2> HIDE DEF d, x, y, z
  <2>3. Onward(s, z, q)
    BY <1>0, OnwardUnless DEF z
  <2>4. Onward(s, x, q)
    BY <1>0, OnwardAt DEF x
  <2>5. Onward(s, y, q)
    BY <2>4, OnwardPut DEF y
  <2> QED BY <2>2, <2>3, <2>5 DEF Moves
<1>4. CASE DiscoveryClosed(s)
  <2> DEFINE e == ctx[s].stopped \/ ctx[s].fatal
             x == [Now EXCEPT !.ctx[s].expectedClose = @ /\ e]
             y == [x EXCEPT !.ctx[s].conn = IF @ = "discovery" THEN "none" ELSE @]
             z == Unless(y, s, FALSE, "connect")
             u == [z EXCEPT !.ctx[s].conn = "main"]
  <2>1. y = [Now EXCEPT !.ctx[s].expectedClose = @ /\ e,
                        !.ctx[s].conn = IF @ = "discovery" THEN "none" ELSE @]
    BY ZenonT(60)
  <2>2. Becomes(Throw(y, s)) \/ Becomes(u)
    <3> HIDE DEF y
    <3> QED BY ZenonT(60), <1>4, <2>1 DEF DiscoveryClosed
  <2>3. Onward(s, x, q)
    <3> HIDE DEF e
    <3> QED BY <1>0, OnwardPut
  <2> HIDE DEF x
  <2>4. Onward(s, y, q)
    BY <2>3, OnwardPut
  <2> HIDE DEF y
  <2>5. Onward(s, z, q)
    BY <2>4, OnwardUnless DEF z
  <2> HIDE DEF z
  <2>6. Onward(s, u, q)
    BY <2>5, OnwardPut
  <2> HIDE DEF u
  <2> QED BY <2>2, <2>4, <2>6, OnwardThrows DEF Moves
<1>5. CASE Connected(s)
  <2> DEFINE x == Observe(Now, s, ChildIs("running"))
             b == ctx[s].stopped
  <2>1. \/ Becomes(Unless(Now, s, b, "config")) \/ Becomes(Unless(x, s, b, "config"))
    BY <1>5 DEF Connected
  <2> HIDE DEF x, b
  <2>2. Onward(s, x, q)
    BY <1>0, OnwardTold, Remarks DEF x
  <2> QED BY <1>0, <2>1, <2>2, OnwardUnless DEF Moves
<1>6. CASE Configured(s)
  <2>1. Becomes(Unless(Now, s, ctx[s].stopped, "thread"))
    BY <1>6 DEF Configured
  <2> QED BY <1>0, <2>1, OnwardUnless DEF Moves
<1>7. CASE ThreadStarted(s)
  <2> DEFINE b == ctx[s].stopped
             x == Observe(Now, s, Plain("thread-started"))
             y == Unless(x, s, b, "turn")
             z == [y EXCEPT !.ctx[s].attempted = ~b]
  <2>1. Becomes(z)
    BY <1>7 DEF ThreadStarted
  <2> HIDE DEF x, b, y
  <2>2. Onward(s, x, q)
    BY <1>0, OnwardTold, Remarks DEF x
  <2>3. Onward(s, y, q)
    BY <2>2, OnwardUnless DEF y
  <2>4. Onward(s, z, q)
    BY <2>3, OnwardPut
  <2> HIDE DEF z
  <2> QED BY <2>1, <2>4 DEF Moves
<1> QED BY <1>1, <1>2, <1>3, <1>4, <1>5, <1>6, <1>7

LEMMA TurnAnsweredMoves ==
  ASSUME Inv, NEW s \in Session, NEW q \in BOOLEAN, TurnAnswered(s)
  PROVE  Moves(s, q)
<1> DEFINE c == ctx[s]
<1>0. Onward(s, Now, q)
  BY SMTT(30), OnwardNow
<1>1. PICK t \in Turns, outcome \in Outcome \cup {"inProgress"}, sent \in Sends(s) :
        LET v == [Now EXCEPT !.ctx[s].turn = t, !.ctx[s].started = TRUE]
            u == IF c.started \/ c.stopped \/ c.completed THEN v
                 ELSE Observe(v, s, TurnStarted(t))
            w == IF outcome = "inProgress" THEN u
                 ELSE OnTurnCompleted(u, s, t, outcome, sent)
        IN IF c.turn \notin {NoTurn, t} THEN Becomes(Throw(Now, s))
           ELSE Becomes(At(w, s, IF w.ctx[s].completed THEN "done"
                                 ELSE IF c.stopped THEN "drain" ELSE "wait"))
  BY ZenonT(60) DEF TurnAnswered
<1> DEFINE x == [Now EXCEPT !.ctx[s].turn = t]
           y == [x EXCEPT !.ctx[s].started = TRUE]
           u == IF c.started \/ c.stopped \/ c.completed THEN y
                ELSE Observe(y, s, TurnStarted(t))
           w == IF outcome = "inProgress" THEN u
                ELSE OnTurnCompleted(u, s, t, outcome, sent)
           stage == IF w.ctx[s].completed THEN "done" ELSE IF c.stopped THEN "drain" ELSE "wait"
<1>2. y = [Now EXCEPT !.ctx[s].turn = t, !.ctx[s].started = TRUE]
  OBVIOUS
<1>3. Becomes(Throw(Now, s)) \/ Becomes(At(w, s, stage))
  <2> HIDE DEF y
  <2> QED BY <1>1, <1>2
<1> HIDE DEF c, stage
<1>4. Onward(s, x, q)
  BY <1>0, OnwardPut
<1> HIDE DEF x
<1>5. Onward(s, y, q)
  BY <1>4, OnwardPut
<1> HIDE DEF y
<1>6. Onward(s, u, q)
  BY <1>5, OnwardTold, Remarks
<1> HIDE DEF u
<1>7. Onward(s, w, q)
  BY <1>6, SendsOrNot, OnwardCompletes
<1> HIDE DEF w
<1> QED BY <1>0, <1>3, <1>7, OnwardThrows, OnwardAt DEF Moves

\* Those of the stops, of the closing, and of the answers of the child.
LEMMA StopMoves ==
  ASSUME Inv, NEW s \in Session, NEW q \in BOOLEAN,
         \/ StopInterrupted(s) \/ InterruptTimesOut(s) \/ CloseEnds(s) \/ CloseFails(s)
         \/ Answered(s) \/ RequestTimesOut(s) \/ InterruptAnswered(s)
         \/ \E kind \in {"discovery", "main"} : ConnectionFails(s, kind)
  PROVE  Moves(s, q)
<1>0. Onward(s, Now, q)
  BY OnwardNow
<1>1. CASE StopInterrupted(s)
  <2>1. PICK stage \in {"refused", "turn"} :
          LET v == [Leave(Now, s, stage) EXCEPT !.ctx[s].stops = @ \cup {"closing"}] IN
          Becomes(CloseContext(
            IF stage = "turn" \/ ctx[s].completed THEN v
            ELSE Observe(v, s, Plain("stop-unconfirmed")), s))
    BY <1>1 DEF StopInterrupted
  <2> DEFINE x == Leave(Now, s, stage)
             y == [x EXCEPT !.ctx[s].stops = @ \cup {"closing"}]
             z == Observe(y, s, Plain("stop-unconfirmed"))
  <2>2. Becomes(CloseContext(y, s)) \/ Becomes(CloseContext(z, s))
    BY <2>1
  <2> HIDE DEF x
  <2>3. Onward(s, x, q)
    BY <1>0, OnwardLeaves DEF x
  <2>4. Onward(s, y, q)
    BY <2>3, OnwardMoves
  <2> HIDE DEF y
  <2>5. Onward(s, z, q)
    BY <2>4, OnwardTold, Remarks
  <2> HIDE DEF z
  <2> QED BY <2>2, <2>4, <2>5, OnwardCloses DEF Moves
<1>2. CASE InterruptTimesOut(s) \/ InterruptAnswered(s)
  <2>1. \E stage, next :
          Becomes([Leave(Now, s, stage) EXCEPT !.ctx[s].stops = @ \cup {next}])
    BY <1>2 DEF InterruptTimesOut, InterruptAnswered
  <2>2. PICK stage, next :
          Becomes([Leave(Now, s, stage) EXCEPT !.ctx[s].stops = @ \cup {next}])
    BY <2>1
  <2> DEFINE x == Leave(Now, s, stage)
             y == [x EXCEPT !.ctx[s].stops = @ \cup {next}]
  <2>3. Becomes(y)
    BY <2>2
  <2> HIDE DEF x
  <2>4. Onward(s, x, q)
    BY <1>0, OnwardLeaves DEF x
  <2>5. Onward(s, y, q)
    BY <2>4, OnwardMoves
  <2> HIDE DEF y
  <2> QED BY <2>3, <2>5 DEF Moves
<1>3. CASE CloseEnds(s)
  <2> DEFINE x == [Now EXCEPT !.ctx[s].close = "true"]
             y == [x EXCEPT !.ctx[s].conn = IF current = s THEN "none" ELSE @]
  <2>1. Becomes(y)
    BY <1>3 DEF CloseEnds
  <2>2. Onward(s, x, q)
    BY <1>0, OnwardPut
  <2> HIDE DEF x
  <2>3. Onward(s, y, q)
    BY <2>2, OnwardPut
  <2> HIDE DEF y
  <2> QED BY <2>1, <2>3 DEF Moves
<1>4. CASE CloseFails(s)
  <2> DEFINE x == [Now EXCEPT !.ctx[s].close = "false"]
             y == Observe(x, s, Plain("protocol-failure"))
  <2>1. Becomes(y)
    BY <1>4 DEF CloseFails
  <2>2. Onward(s, x, q)
    BY <1>0, OnwardPut
  <2> HIDE DEF x
  <2>3. Onward(s, y, q)
    BY <2>2, OnwardTold, Remarks
  <2> HIDE DEF y
  <2> QED BY <2>1, <2>3 DEF Moves
<1>5. CASE Answered(s) \/ RequestTimesOut(s)
  <2>1. \E reply : Becomes([Now EXCEPT !.ctx[s].reply = reply])
    BY <1>5 DEF Answered, RequestTimesOut
  <2>2. PICK reply : Becomes([Now EXCEPT !.ctx[s].reply = reply])
    BY <2>1
  <2> DEFINE x == [Now EXCEPT !.ctx[s].reply = reply]
  <2>3. Onward(s, x, q)
    BY <1>0, OnwardPut
  <2>4. Becomes(x)
    BY <2>2
  <2> HIDE DEF x
  <2> QED BY <2>3, <2>4 DEF Moves
<1>6. CASE \E kind \in {"discovery", "main"} : ConnectionFails(s, kind)
  <2> DEFINE x == Rejected(Now, s)
  <2>1. Becomes(FailContext(x, s))
    BY <1>6 DEF ConnectionFails
  <2> HIDE DEF x
  <2>2. Onward(s, x, q)
    BY <1>0, OnwardRejects DEF x
  <2> QED BY <2>1, <2>2, OnwardFails DEF Moves
<1> QED BY <1>1, <1>2, <1>3, <1>4, <1>5, <1>6

\* Those of the messages of the child.
LEMMA MessageMoves ==
  ASSUME Inv, NEW s \in Session, NEW q \in BOOLEAN,
         \/ OnTurnStarted(s) \/ OnItem(s) \/ OnUnexpected(s) \/ OnTurnCompletedMessage(s)
         \/ OnResolved(s)
  PROVE  Moves(s, q)
<1>0. Onward(s, Now, q)
  BY OnwardNow
<1>1. CASE OnTurnStarted(s)
  <2>1. PICK t \in Turns :
          Becomes(Observe([Now EXCEPT !.ctx[s].turn = t, !.ctx[s].started = TRUE],
                          s, TurnStarted(t)))
    BY <1>1 DEF OnTurnStarted
  <2> DEFINE x == [Now EXCEPT !.ctx[s].turn = t]
             y == [x EXCEPT !.ctx[s].started = TRUE]
             z == Observe(y, s, TurnStarted(t))
  <2>2. Becomes(z)
    BY <2>1
  <2>3. Onward(s, x, q)
    BY <1>0, OnwardPut
  <2> HIDE DEF x
  <2>4. Onward(s, y, q)
    BY <2>3, OnwardPut
  <2> HIDE DEF y
  <2>5. Onward(s, z, q)
    BY <2>4, OnwardTold, Remarks
  <2> HIDE DEF z
  <2> QED BY <2>2, <2>5 DEF Moves
<1>2. CASE OnItem(s)
  <2> DEFINE y == Observe(Now, s, Plain("protocol-failure"))
  <2>1. \/ \E t \in Turns : \E o \in {ItemSeen(t), CommandCompleted(t)} :
             Becomes(Observe(Now, s, o))
        \/ Becomes(CloseContext(y, s))
    BY <1>2 DEF OnItem
  <2> HIDE DEF y
  <2>2. Onward(s, y, q)
    BY <1>0, OnwardTold, Remarks DEF y
  <2>3. ASSUME NEW t \in Turns, NEW o \in {ItemSeen(t), CommandCompleted(t)},
               Becomes(Observe(Now, s, o))
        PROVE  Moves(s, q)
    <3> DEFINE z == Observe(Now, s, o)
    <3>1. IsRemark(o)
      BY Remarks
    <3> HIDE DEF z
    <3>2. Onward(s, z, q)
      BY <1>0, <3>1, OnwardTold DEF z
    <3> QED BY <2>3, <3>2 DEF Moves, z
  <2> QED BY <2>1, <2>2, <2>3, OnwardCloses DEF Moves
<1>3. CASE OnUnexpected(s)
  <2>1. Becomes(FailContext(Now, s))
    BY <1>3 DEF OnUnexpected
  <2> QED BY <1>0, <2>1, OnwardFails DEF Moves
<1>4. CASE OnTurnCompletedMessage(s)
  <2>1. PICK t \in Turns, outcome \in Outcome, sent \in Sends(s) :
          Becomes(OnTurnCompleted(Now, s, t, outcome, sent))
    BY <1>4 DEF OnTurnCompletedMessage
  <2> QED BY <1>0, <2>1, SendsOrNot, OnwardCompletes DEF Moves
<1>5. CASE OnResolved(s)
  <2>1. Becomes(CancelPending(Now, s, FALSE))
    BY <1>5 DEF OnResolved, RevokeAll
  <2> QED BY <1>0, <2>1, OnwardCancels DEF Moves
<1> QED BY <1>1, <1>2, <1>3, <1>4, <1>5

\* Those that may tell of the end of a start: in no session that has a child.
LEMMA EndMoves ==
  ASSUME Inv, NEW s \in Session, NEW q \in BOOLEAN, q => s = current /\ ctx[s].conn # "none",
         \/ PreviousClosed(s) \/ FilesWritten(s) \/ StartupStopFinished(s)
         \/ StopPreviousClosed(s) \/ StopCleanedUp(s) \/ StopClosed(s)
  PROVE  Moves(s, q)
<1> DEFINE c == ctx[s]
<1>0. Onward(s, Now, q)
  BY OnwardNow
<1>1. /\ c.run \in {"previous", "files"} => c.conn = "none"
      /\ c.stops \cap {"cleanup", "previous"} # {} => c.conn = "none"
      /\ q => c.close # "true"
  <2>1. Fits(s, c)
    BY DEF Inv, InStep
  <2>2. q => <<s, c.conn>> \in alive
    BY Types DEF Inv, InStep, ChildrenAreHeld, Conn
  <2>3. q => c.close # "true"
    BY <2>2 DEF Inv, InStep, ChildrenAreHeld
  <2> QED BY <2>1, <2>3 DEF Fits
<1>2. CASE PreviousClosed(s)
  <2> DEFINE x == At(Now, s, "done")
             y == Observe(x, s, Plain("protocol-failure"))
             z == Observe(y, s, ChildIs("unknown"))
             u == [Now EXCEPT !.ctx[s].blocked = FALSE]
             x2 == At(u, s, "done")
             x3 == At(u, s, "files")
  <2>1. c.run = "previous" /\ (Becomes(z) \/ Becomes(EmitStartupStopped(x2, s)) \/ Becomes(x3))
    BY <1>2 DEF PreviousClosed
  <2>2. ~q
    BY <1>1, <2>1
  <2>3. Onward(s, u, q)
    BY <1>0, OnwardPut
  <2> HIDE DEF c, x, y, z, u, x2, x3
  <2>4. Onward(s, x, q)
    BY <1>0, OnwardAt DEF x
  <2>5. Onward(s, y, q)
    BY <2>4, OnwardTold, Remarks DEF y
  <2>6. Onward(s, z, q)
    BY <2>5, OnwardTold, Remarks DEF z
  <2>7. Onward(s, x2, q)
    BY <2>3, OnwardAt DEF x2
  <2>8. Onward(s, x3, q)
    BY <2>3, OnwardAt DEF x3
  <2> QED BY <2>1, <2>2, <2>6, <2>7, <2>8, OnwardEmits DEF Moves
<1>3. CASE FilesWritten(s)
  <2> DEFINE x == At(Now, s, "done")
             y == At(Now, s, "discovery")
             z == [y EXCEPT !.ctx[s].conn = "discovery"]
  <2>1. /\ c.run = "files"
        /\ Becomes(Throw(Now, s)) \/ Becomes(EmitStartupStopped(x, s)) \/ Becomes(z)
    BY <1>3 DEF FilesWritten
  <2>2. ~q
    BY <1>1, <2>1
  <2> HIDE DEF c, x, y
  <2>3. Onward(s, x, q) /\ Onward(s, y, q)
    BY <1>0, OnwardAt DEF x, y
  <2>4. Onward(s, z, q)
    BY <2>3, OnwardPut
  <2> HIDE DEF z
  <2> QED BY <1>0, <2>1, <2>2, <2>3, <2>4, OnwardEmits, OnwardThrows DEF Moves
<1>4. CASE StartupStopFinished(s)
  <2> DEFINE x == At(Now, s, "done")
             y == Observe(x, s, Plain("stop-unconfirmed"))
  <2>1. (c.close = "true" /\ Becomes(EmitStartupStopped(x, s))) \/ Becomes(y)
    BY <1>4 DEF StartupStopFinished
  <2> HIDE DEF c, x, y
  <2>2. Onward(s, x, q)
    BY <1>0, OnwardAt DEF x
  <2>3. Onward(s, y, q)
    BY <2>2, OnwardTold, Remarks DEF y
  <2> QED BY <1>1, <2>1, <2>2, <2>3, OnwardEmits DEF Moves
<1>5. CASE StopPreviousClosed(s)
  <2> DEFINE x == Leave(Now, s, "previous")
             y == [x EXCEPT !.ctx[s].blocked = FALSE]
             u == Observe(y, s, ChildClosed(TRUE))
             z == Observe(x, s, Plain("stop-unconfirmed"))
  <2>1. /\ "previous" \in c.stops
        /\ Becomes(z) \/ Becomes(u) \/ Becomes(EmitStartupStopped(u, s))
    BY <1>5 DEF StopPreviousClosed
  <2>2. ~q
    BY <1>1, <2>1
  <2> HIDE DEF c, x
  <2>3. Onward(s, x, q)
    BY <1>0, OnwardLeaves DEF x
  <2>4. Onward(s, y, q)
    BY <2>3, OnwardPut
  <2> HIDE DEF y, u, z
  <2>5. Onward(s, z, q)
    BY <2>3, OnwardTold, Remarks DEF z
  <2>6. Onward(s, u, q)
    BY <2>2, <2>4, OnwardTold, Remarks DEF u
  <2> QED BY <2>1, <2>2, <2>5, <2>6, OnwardEmits DEF Moves
<1>6. CASE StopCleanedUp(s)
  <2> DEFINE x == Leave(Now, s, "cleanup")
  <2>1. "cleanup" \in c.stops /\ Becomes(EmitStartupStopped(x, s))
    BY <1>6 DEF StopCleanedUp
  <2>2. ~q
    BY <1>1, <2>1
  <2> HIDE DEF c, x
  <2>3. Onward(s, x, q)
    BY <1>0, OnwardLeaves DEF x
  <2> QED BY <2>1, <2>2, <2>3, OnwardEmits DEF Moves
<1>7. CASE StopClosed(s)
  <2> DEFINE x == Leave(Now, s, "closing")
             y == Observe(x, s, Plain("stop-unconfirmed"))
  <2>1. \/ Becomes(x) \/ Becomes(y)
        \/ c.close = "true" /\ Becomes(EmitStartupStopped(x, s))
    BY <1>7 DEF StopClosed
  <2> HIDE DEF c, x, y
  <2>2. Onward(s, x, q)
    BY <1>0, OnwardLeaves DEF x
  <2>3. Onward(s, y, q)
    BY <2>2, OnwardTold, Remarks DEF y
  <2> QED BY <1>1, <2>1, <2>2, <2>3, OnwardEmits DEF Moves
<1> QED BY <1>2, <1>3, <1>4, <1>5, <1>6, <1>7

\* The end of the discovery child.
LEMMA DiscoveryExitMoves ==
  ASSUME Inv, NEW s \in Session, DiscoveryExits(s)
  PROVE  Moves(s, FALSE)
<1> DEFINE c == ctx[s]
           x == Rejected(Now, s)
           v == [x EXCEPT !.ctx[s].conn = IF current = s /\ @ = "discovery" THEN "none" ELSE @]
           y1 == [v EXCEPT !.ctx[s].fatal = TRUE]
           y2 == [y1 EXCEPT !.ctx[s].ended = TRUE]
           y3 == Observe(y2, s, ChildClosed(FALSE))
           y4 == Observe(y3, s, Plain("protocol-failure"))
           z1 == [v EXCEPT !.ctx[s].ended = TRUE]
           z2 == Observe(z1, s, ChildClosed(TRUE))
<1>1. Becomes(y4) \/ Becomes(z2) \/ Becomes(v)
  <2>1. y2 = [v EXCEPT !.ctx[s].fatal = TRUE, !.ctx[s].ended = TRUE]
    OBVIOUS
  <2> HIDE DEF y2, z1
  <2>2. z1 = [v EXCEPT !.ctx[s].ended = TRUE]
    BY DEF z1
  <2> HIDE DEF v
  <2>3. v = [x EXCEPT !.ctx[s].conn = IF current = s /\ @ = "discovery" THEN "none" ELSE @]
    BY DEF v
  <2> HIDE DEF x
  <2> QED BY ZenonT(60), <2>1, <2>2, <2>3 DEF DiscoveryExits, x
<1>2. FALSE \in BOOLEAN
  OBVIOUS
<1>3. Onward(s, Now, FALSE)
  BY <1>2, OnwardNow
<1> HIDE DEF c, x
<1>4. Onward(s, x, FALSE)
  BY <1>2, <1>3, OnwardRejects DEF x
<1>5. Onward(s, v, FALSE)
  BY ZenonT(60), <1>2, <1>4, OnwardPut
<1> HIDE DEF v
<1>6. Onward(s, y1, FALSE) /\ Onward(s, z1, FALSE)
  BY <1>2, <1>5, OnwardPut
<1> HIDE DEF y1, z1
<1>7. Onward(s, y2, FALSE)
  BY <1>2, <1>6, OnwardPut
<1> HIDE DEF y2, y3, y4, z2
<1>8. Onward(s, y3, FALSE)
  BY <1>2, <1>7, OnwardTold, Remarks DEF y3
<1>9. Onward(s, y4, FALSE)
  BY <1>2, <1>8, OnwardTold, Remarks DEF y4
<1>10. Onward(s, z2, FALSE)
  BY <1>2, <1>6, OnwardTold, Remarks DEF z2
<1> QED BY ZenonT(60), <1>1, <1>5, <1>9, <1>10 DEF Moves

\* The end of the main child, of which the session that waits for it is told too.
LEMMA MainExitMoves ==
  ASSUME Inv, NEW s \in Session, MainExits(s)
  PROVE  \E u : \E expected \in BOOLEAN :
           /\ Onward(s, u, FALSE)
           /\ \/ Becomes(u)
              \/ /\ current = s + 1 /\ ctx[current].blocked
                 /\ Becomes(Observe([u EXCEPT !.ctx[current].blocked = FALSE], current,
                                    ChildClosed(expected)))
<1> DEFINE c == ctx[s]
           expected == c.stopped \/ c.expectedClose
           x == Rejected(Now, s)
           y == CancelPending(x, s, FALSE)
           told == Observe(y, s, ChildClosed(expected))
           z1 == [told EXCEPT !.ctx[s].fatal = TRUE]
           z2 == Observe(z1, s, Plain("protocol-failure"))
           v == IF expected \/ c.completed \/ c.fatal THEN told ELSE z2
           u1 == [v EXCEPT !.ctx[s].ended = TRUE]
           e == [u1.ctx[s] EXCEPT !.conn = IF current = s THEN "none" ELSE @]
           u == [u1 EXCEPT !.ctx[s] = e]
<1>1. Becomes(IF current = s + 1 /\ ctx[current].blocked
              THEN Observe([u EXCEPT !.ctx[current].blocked = FALSE], current,
                           ChildClosed(expected))
              ELSE u)
  <2> HIDE DEF v
  <2>1. u = [v EXCEPT !.ctx[s].ended = TRUE, !.ctx[s].conn = IF current = s THEN "none" ELSE @]
    BY ZenonT(60)
  <2> HIDE DEF u
  <2>2. Becomes(
          IF current = s + 1 /\ ctx[current].blocked
          THEN Observe([[v EXCEPT !.ctx[s].ended = TRUE,
                                  !.ctx[s].conn = IF current = s THEN "none" ELSE @]
                          EXCEPT !.ctx[current].blocked = FALSE], current, ChildClosed(expected))
          ELSE [v EXCEPT !.ctx[s].ended = TRUE,
                         !.ctx[s].conn = IF current = s THEN "none" ELSE @])
    BY ZenonT(60) DEF MainExits, v
  <2> QED BY <2>1, <2>2
<1>2. FALSE \in BOOLEAN /\ expected \in BOOLEAN
  <2>1. c \in Context
    BY Types
  <2> QED BY <2>1 DEF Context
<1>3. Onward(s, Now, FALSE)
  BY <1>2, OnwardNow
<1> HIDE DEF c, expected, x, y, told
<1>4. Onward(s, x, FALSE)
  BY <1>2, <1>3, OnwardRejects DEF x
<1>5. Onward(s, y, FALSE)
  BY <1>2, <1>4, OnwardCancels DEF y
<1>6. Onward(s, told, FALSE)
  BY <1>2, <1>5, OnwardTold, Remarks DEF told
<1>7. Onward(s, z1, FALSE)
  BY <1>2, <1>6, OnwardPut
<1> HIDE DEF z1
<1>8. Onward(s, z2, FALSE)
  BY <1>2, <1>7, OnwardTold, Remarks
<1> HIDE DEF z2
<1>9. Onward(s, v, FALSE)
  BY <1>6, <1>8
<1> HIDE DEF v
<1>10. Onward(s, u1, FALSE)
  BY <1>2, <1>9, OnwardPut
<1> HIDE DEF u1, e
<1>11. Onward(s, u, FALSE)
  BY <1>2, <1>10, OnwardPut
<1> HIDE DEF u
<1> QED BY <1>1, <1>2, <1>11

LEMMA ServerRequestMoves ==
  ASSUME Inv, NEW s \in Session, NEW q \in BOOLEAN, OnServerRequest(s)
  PROVE  Moves(s, q)
<1>0. Onward(s, Now, q)
  BY SMTT(30), OnwardNow
<1> DEFINE o == Plain("unsupported-request")
           r == requested'
           a == Answer(Now, r)
           A(t, safe) ==
             LET v == [Now EXCEPT !.ctx[s].pending = r, !.ctx[s].safe = safe]
             IN Becomes(IF lab.session # s THEN v
                        ELSE [v EXCEPT !.lab = Asked(@, r, t, safe)])
<1>1. \/ Becomes(Observe(Now, s, o)) \/ Becomes(a) \/ Becomes(Now)
      \/ Becomes(Observe(a, s, o))
      \/ /\ r \in Nat
         /\ \E t \in Turns, safe \in BOOLEAN : A(t, safe)
  <2> DEFINE c == ctx[s]
             cancelled(sent) == IF sent THEN a ELSE Now
  <2>1. CASE Becomes(Observe(Now, s, o))
    BY <2>1
  <2>2. CASE ~Becomes(Observe(Now, s, o))
    <3>1. /\ r = requested + 1
          /\ \E t \in Turns, safe \in BOOLEAN, sent \in Sends(s) :
               Becomes(cancelled(sent)) \/ Becomes(Observe(cancelled(sent), s, o)) \/ A(t, safe)
      BY ZenonT(60), <2>2 DEF OnServerRequest
    <3>2. r \in Nat
      BY <3>1, Types
    <3> HIDE DEF a, o, A
    <3>3. \A sent : cancelled(sent) = a \/ cancelled(sent) = Now
      OBVIOUS
    <3> HIDE DEF cancelled
    <3> QED BY SMTT(30), <3>1, <3>2, <3>3
  <2> QED BY ZenonT(60), <2>1, <2>2
<1>2. Onward(s, a, q)
  BY <1>0, OnwardAnswer
<1>3. ASSUME NEW w, Onward(s, w, q) PROVE Onward(s, Observe(w, s, o), q)
  <2> DEFINE v == Observe(w, s, o)
  <2>1. IsRemark(o)
    BY Remarks
  <2> HIDE DEF v, o
  <2>2. Onward(s, v, q)
    BY <1>3, <2>1, OnwardTold DEF v
  <2> QED BY <2>2 DEF v
<1>4. ASSUME r \in Nat, NEW t \in Turns, NEW safe \in BOOLEAN, A(t, safe) PROVE Moves(s, q)
  <2> DEFINE x == [Now EXCEPT !.ctx[s].pending = r]
             v == [x EXCEPT !.ctx[s].safe = safe]
             m == Asked(v.lab, r, t, safe)
             z == [v EXCEPT !.lab = m]
  <2>1. v = [Now EXCEPT !.ctx[s].pending = r, !.ctx[s].safe = safe]
    OBVIOUS
  <2>2. (lab.session # s /\ Becomes(v)) \/ (lab.session = s /\ Becomes(z))
    <3> HIDE DEF v
    <3> QED BY <1>4, <2>1
  <2>3. Onward(s, x, q)
    BY <1>0, OnwardPut
  <2> HIDE DEF x, A
  <2>4. Onward(s, v, q)
    BY <2>3, OnwardPut
  <2> HIDE DEF v
  <2>5. CASE lab.session = s /\ Becomes(z)
    <3> DEFINE l == v.lab
               p == [id |-> r, status |-> "pending", safe |-> safe, fresh |-> TRUE]
    <3>1. l \in Service /\ l.session = s
      BY <2>4, <2>5 DEF Onward
    <3>2. m = l \/ (m = [l EXCEPT !.status = "awaiting-human", !.approval = p])
      BY DEF Asked
    <3>3. p \in Approval /\ p.status = "pending"
      BY <1>4 DEF Approval
    <3> HIDE DEF m, l, p
    <3>4. CASE m = [l EXCEPT !.status = "awaiting-human", !.approval = p]
      <4>1. /\ m \in Service /\ m.session = s /\ m.approval = p /\ m.child = l.child
            /\ m.status = "awaiting-human"
        BY <3>1, <3>3, <3>4 DEF Service, Status
      <4>2. m.approval.status \notin Sent
        BY <3>3, <4>1 DEF Sent
      <4>3. ~Shown(l) => ~Shown(m)
        BY <4>1 DEF Shown
      <4> HIDE DEF z
      <4>4. z = [v EXCEPT !.lab = m]
        BY DEF z
      <4>5. Onward(s, z, q)
        BY <2>4, <2>5, <4>1, <4>2, <4>3, <4>4, OnwardLab DEF l
      <4> QED BY <2>5, <4>5 DEF Moves
    <3>5. CASE m = l
      <4>1. z = [v EXCEPT !.lab = m] /\ m = v.lab
        BY <3>5 DEF l
      <4> HIDE DEF z
      <4>2. Onward(s, z, q)
        BY <2>4, <2>5, <3>1, <4>1, OnwardLab DEF l
      <4> QED BY <2>5, <4>2 DEF Moves
    <3> QED BY <3>2, <3>4, <3>5
  <2> QED BY <2>2, <2>4, <2>5 DEF Moves
<1> HIDE DEF a, o, A
<1> QED BY <1>0, <1>1, <1>2, <1>3, <1>4 DEF Moves

\* A stop, of a session that does not wait for the one before it.
LEMMA OnwardStops ==
  ASSUME Inv, NEW s \in Session, NEW w, NEW q \in BOOLEAN, Onward(s, w, q),
         NEW sent \in BOOLEAN, ~(w.ctx[s].conn = "none" /\ w.ctx[s].blocked),
         NEW v, v = StopContext(w, s, sent)
  PROVE  Onward(s, v, q)
<1> DEFINE c == w.ctx[s]
           x == [w EXCEPT !.ctx[s].asked = TRUE]
           y == CancelPending(x, s, sent)
           Then(stage) == [y EXCEPT !.ctx[s].stops = @ \cup {stage}]
           u == Plain("stop-unconfirmed")
           closing == Then("closing")
           cleanup == Then("cleanup")
           interrupt == Then("interrupt")
           told == Observe(closing, s, u)
<1>1. v \in {w, cleanup, Observe(y, s, u), Observe(interrupt, s, ChildIs("closing")),
             CloseContext(told, s), CloseContext(closing, s)}
  <2> HIDE DEF y
  <2>1. v = CASE c.asked -> w
              [] ~c.asked /\ c.conn = "none" /\ c.blocked ->
                   CloseContext(Then("previous"), s - 1)
              [] ~c.asked /\ c.conn = "none" /\ ~c.blocked /\ ~c.attempted -> cleanup
              [] ~c.asked /\ c.conn = "none" /\ ~c.blocked /\ c.attempted -> Observe(y, s, u)
              [] ~c.asked /\ c.conn # "none" /\ c.started /\ ~c.completed ->
                   Observe(interrupt, s, ChildIs("closing"))
              [] ~c.asked /\ c.conn # "none" /\ ~c.started /\ c.attempted /\ ~c.completed ->
                   CloseContext(told, s)
              [] OTHER -> CloseContext(closing, s)
    BY DEF StopContext, y
  <2>2. ~(c.conn = "none" /\ c.blocked)
    OBVIOUS
  <2> HIDE DEF c, Then, closing, cleanup, interrupt, told, u
  <2> QED BY SMTT(30), <2>1, <2>2
<1>2. Onward(s, x, q)
  BY OnwardPut
<1> HIDE DEF c, x
<1>3. Onward(s, y, q)
  BY <1>2, OnwardCancels
<1> HIDE DEF y
<1>4. Onward(s, closing, q) /\ Onward(s, cleanup, q) /\ Onward(s, interrupt, q)
  BY <1>3, OnwardMoves
<1> HIDE DEF closing, cleanup, interrupt
<1>5. \A o, z : Onward(s, z, q) /\ IsRemark(o) => Onward(s, Observe(z, s, o), q)
  <2> SUFFICES ASSUME NEW o, NEW z, Onward(s, z, q), IsRemark(o)
               PROVE  Onward(s, Observe(z, s, o), q)
    OBVIOUS
  <2> DEFINE e == Observe(z, s, o)
  <2> HIDE DEF e
  <2>1. Onward(s, e, q)
    BY OnwardTold DEF e
  <2> QED BY <2>1 DEF e
<1>6. IsRemark(u) /\ IsRemark(ChildIs("closing"))
  BY Remarks
<1> HIDE DEF u
<1>7. Onward(s, told, q) /\ Onward(s, Observe(y, s, u), q)
      /\ Onward(s, Observe(interrupt, s, ChildIs("closing")), q)
  BY <1>3, <1>4, <1>5, <1>6
<1> HIDE DEF told
<1> QED BY <1>1, <1>4, <1>7, OnwardCloses

\* A stop that waits for the session before it closes that one's child.
LEMMA StopsWaiting ==
  ASSUME Inv, NEW s \in Session, NEW w, NEW q \in BOOLEAN, Onward(s, w, q),
         NEW sent \in BOOLEAN, w.ctx[s].conn = "none" /\ w.ctx[s].blocked, lab.session = s,
         NEW v, v = StopContext(w, s, sent)
  PROVE  \E u : Onward(s, u, q) /\ v.lab = u.lab /\ v.answered = u.answered
<1> DEFINE c == w.ctx[s]
           x == [w EXCEPT !.ctx[s].asked = TRUE]
           y == CancelPending(x, s, sent)
           Then(stage) == [y EXCEPT !.ctx[s].stops = @ \cup {stage}]
           u == Then("previous")
<1>1. v = w \/ v = CloseContext(u, s - 1)
  <2> HIDE DEF y
  <2>1. v = CASE c.asked -> w
              [] ~c.asked /\ c.conn = "none" /\ c.blocked ->
                   CloseContext(u, s - 1)
              [] ~c.asked /\ c.conn = "none" /\ ~c.blocked /\ ~c.attempted -> Then("cleanup")
              [] ~c.asked /\ c.conn = "none" /\ ~c.blocked /\ c.attempted ->
                   Observe(y, s, Plain("stop-unconfirmed"))
              [] ~c.asked /\ c.conn # "none" /\ c.started /\ ~c.completed ->
                   Observe(Then("interrupt"), s, ChildIs("closing"))
              [] ~c.asked /\ c.conn # "none" /\ ~c.started /\ c.attempted /\ ~c.completed ->
                   CloseContext(Observe(Then("closing"), s, Plain("stop-unconfirmed")), s)
              [] OTHER -> CloseContext(Then("closing"), s)
    BY DEF StopContext, y
  <2>2. c.conn = "none" /\ c.blocked
    OBVIOUS
  <2> HIDE DEF c, Then, u
  <2> QED BY <2>1, <2>2
<1>2. Onward(s, x, q)
  BY OnwardPut
<1> HIDE DEF c, x
<1>3. Onward(s, y, q)
  BY <1>2, OnwardCancels
<1> HIDE DEF y
<1>4. Onward(s, u, q)
  BY <1>3, OnwardMoves
<1> HIDE DEF u
<1>5. CASE v = w
  BY <1>5
<1>6. CASE v = CloseContext(u, s - 1)
  <2> DEFINE p == s - 1
             y1 == [u EXCEPT !.ctx[p].close = "true", !.ctx[p].expectedClose = TRUE]
             y2 == [u EXCEPT !.ctx[p].close = "wait", !.ctx[p].expectedClose = TRUE]
  <2>1. p # s
    BY Types
  <2>2. u = Left(s, u.ctx[s], u.lab, u.answered) /\ u.lab.session = s
    BY <1>4 DEF Onward
  <2>3. y1.lab = u.lab /\ y1.answered = u.answered /\ y2.lab = u.lab /\ y2.answered = u.answered
    BY <2>2 DEF Left
  <2>4. v \in {u, y1, Observe(y2, p, ChildIs("closing"))}
    BY <1>6 DEF CloseContext
  <2> HIDE DEF y1, y2, p
  <2>5. Observe(y2, p, ChildIs("closing")) = y2
    BY <2>1, <2>2, <2>3 DEF Observe
  <2> QED BY <1>4, <2>3, <2>4, <2>5
<1> QED BY <1>1, <1>5, <1>6

\* A stop: of the current session, and of the one before it if that is waited for.
LEMMA StopOperationMoves ==
  ASSUME Inv, Stop, NEW q \in BOOLEAN
  PROVE  /\ current \in Session
         /\ ctx[current].conn # "none" => Moves(current, q)
         /\ \E u : Onward(current, u, q) /\ lab' = u.lab /\ answered' = u.answered
<1> DEFINE s == current
           c == ctx[s]
           l == StopAsked(lab)
           v == [Now EXCEPT !.lab = l]
           x == [v EXCEPT !.ctx[s].stopped = TRUE]
           y == [v EXCEPT !.ctx[s].asked = FALSE]
           m == StopTargetLost(l)
           z == [v EXCEPT !.lab = m]
<1>1. PICK sent \in Sends(s) :
        \/ Becomes(StopContext(x, s, sent)) \/ Becomes(StopContext(y, s, sent))
        \/ Becomes(v) \/ Becomes(z)
  <2>1. z = [v EXCEPT !.lab = StopTargetLost(@)]
    BY DEF Now
  <2> HIDE DEF z
  <2> QED BY <2>1 DEF Stop
<1>2. s \in Session /\ lab.session = s /\ sent \in BOOLEAN
  BY Types, SendsOrNot DEF Stop, MayStop, Session
<1>3. Onward(s, Now, q) /\ Now.lab = lab
  BY <1>2, OnwardNow DEF Now
<1>4. /\ l \in Service /\ l.session = s /\ l.approval.status = lab.approval.status
      /\ l.approval.id = lab.approval.id /\ (~Shown(lab) => ~Shown(l))
  BY <1>2, Types, StopAskedFields DEF Shown
<1> HIDE DEF s, c, l
<1>5. Onward(s, v, q) /\ v.lab = l /\ v.ctx[s] = Now.ctx[s]
  BY <1>2, <1>3, <1>4, OnwardLab
<1>6. Now.ctx[s] = c
  BY DEF Now, c
<1> HIDE DEF v
<1>7. /\ m \in Service /\ m.session = s /\ m.approval = l.approval /\ ~Shown(m)
  BY <1>4 DEF StopTargetLost, Service, Status, Shown
<1> HIDE DEF m
<1>8. Onward(s, z, q)
  BY <1>2, <1>5, <1>7, OnwardLab
<1> HIDE DEF z
<1>9. Onward(s, x, q) /\ Onward(s, y, q)
  BY <1>2, <1>5, OnwardPut
<1>10. /\ c \in Context /\ x.ctx[s].conn = c.conn /\ x.ctx[s].blocked = c.blocked
       /\ y.ctx[s].conn = c.conn /\ y.ctx[s].blocked = c.blocked
  <2>1. c \in Context
    BY <1>2, Types DEF c
  <2> DEFINE d == [c EXCEPT !.stopped = TRUE]
             e == [c EXCEPT !.asked = FALSE]
  <2>2. x = [v EXCEPT !.ctx[s] = d] /\ y = [v EXCEPT !.ctx[s] = e]
    BY <1>5, <1>6
  <2>3. d.conn = c.conn /\ d.blocked = c.blocked /\ e.conn = c.conn /\ e.blocked = c.blocked
    BY <2>1 DEF Context
  <2> HIDE DEF d, e, x, y
  <2>4. x.ctx[s] = d /\ y.ctx[s] = e
    BY <1>2, <1>5, <2>2, OnwardFields
  <2> QED BY <2>1, <2>3, <2>4
<1> HIDE DEF x, y
<1>11. ASSUME ~(c.conn = "none" /\ c.blocked) PROVE Moves(s, q)
  BY <1>1, <1>2, <1>5, <1>8, <1>9, <1>10, <1>11, OnwardStops DEF Moves
<1>12. ASSUME c.conn = "none" /\ c.blocked
       PROVE  \E u : Onward(s, u, q) /\ lab' = u.lab /\ answered' = u.answered
  <2>1. ASSUME NEW w, Onward(s, w, q), w.ctx[s].conn = "none" /\ w.ctx[s].blocked,
               Becomes(StopContext(w, s, sent))
        PROVE  \E u : Onward(s, u, q) /\ lab' = u.lab /\ answered' = u.answered
    BY <1>2, <2>1, StopsWaiting DEF Becomes
  <2> QED BY <1>1, <1>5, <1>8, <1>9, <1>10, <1>12, <2>1 DEF Becomes
<1>13. Moves(s, q) => \E u : Onward(s, u, q) /\ lab' = u.lab /\ answered' = u.answered
  BY DEF Moves, Becomes
<1> QED BY <1>2, <1>11, <1>12, <1>13 DEF s, c

-----------------------------------------------------------------------------
(* The answer that is said to be sent                                      *)

\* No approval is newly taken for sent, and no answer is taken back.
Follows ==
  /\ lab'.approval.status \in Sent =>
       lab'.approval.status = lab.approval.status /\ lab'.approval.id = lab.approval.id
  /\ \A r \in Request : answered[r] <= answered'[r]

LEMMA OnwardFollows ==
  ASSUME NEW s, NEW u, NEW q, Onward(s, u, q), lab' = u.lab, answered' = u.answered
  PROVE  Follows
  BY DEF Follows, Onward

LEMMA MovesFollow ==
  ASSUME NEW s, NEW q, Moves(s, q)
  PROVE  Follows
  BY OnwardFollows DEF Moves, Becomes

LEMMA MainExitFollows ==
  ASSUME Inv, NEW s \in Session, MainExits(s)
  PROVE  Follows
<1>0. PICK u : \E expected \in BOOLEAN :
        /\ Onward(s, u, FALSE)
        /\ \/ Becomes(u)
           \/ /\ current = s + 1 /\ ctx[current].blocked
              /\ Becomes(Observe([u EXCEPT !.ctx[current].blocked = FALSE], current,
                                 ChildClosed(expected)))
  BY MainExitMoves
<1>1. PICK expected \in BOOLEAN :
        /\ Onward(s, u, FALSE)
        /\ \/ Becomes(u)
           \/ /\ current = s + 1 /\ ctx[current].blocked
              /\ Becomes(Observe([u EXCEPT !.ctx[current].blocked = FALSE], current,
                                 ChildClosed(expected)))
  BY <1>0
<1>2. CASE Becomes(u)
  BY <1>1, <1>2, OnwardFollows DEF Becomes
<1>3. CASE Becomes(Observe([u EXCEPT !.ctx[current].blocked = FALSE], current,
                           ChildClosed(expected)))
  <2> DEFINE x == [u EXCEPT !.ctx[current].blocked = FALSE]
             o == ChildClosed(expected)
  <2>1. u = Left(s, u.ctx[s], u.lab, u.answered) /\ u.lab \in Service
    BY <1>1 DEF Onward
  <2>2. x.lab = u.lab /\ x.answered = u.answered
    BY <2>1 DEF Left
  <2>3. o \in EndOfChild
    BY <1>1, Remarks
  <2> HIDE DEF x, o
  <2>4. answered' = u.answered /\ lab' = Heard(u.lab, current, o)
    <3>1. Becomes(Observe(x, current, o))
      BY <1>3 DEF x, o
    <3> QED BY <2>2, <3>1 DEF Becomes, Observe, Heard
  <2>5. Heeds(u.lab, lab')
    BY <2>1, <2>3, <2>4, HeardHeeds
  <2> QED BY <1>1, <2>4, <2>5 DEF Follows, Heeds, Sent, Onward
<1> QED BY <1>1, <1>2, <1>3

\* A step of a session.
LEMMA StepFollows ==
  ASSUME Inv, NEW s \in Session, Scheduled(s) \/ Child(s)
  PROVE  Follows
<1>1. TRUE \in BOOLEAN /\ FALSE \in BOOLEAN
  OBVIOUS
<1>2. CASE MainExits(s)
  BY <1>2, MainExitFollows
<1>3. CASE ~MainExits(s)
  <2>1. Moves(s, FALSE)
    <3>1. CASE Scheduled(s)
      BY <1>1, <3>1, EndMoves, RunMoves, TurnAnsweredMoves, StopMoves
         DEF Scheduled, RunGoesOn, StopGoesOn
    <3>2. CASE Child(s)
      BY <1>1, <1>3, <3>2, StopMoves, DiscoveryExitMoves, MessageMoves, ServerRequestMoves
         DEF Child
    <3> QED BY <3>1, <3>2
  <2> QED BY <2>1, MovesFollow
<1> QED BY <1>2, <1>3

\* A start asks for nothing yet.
LEMMA StartAsksNothing ==
  ASSUME Inv, Start
  PROVE  lab'.approval.status \notin Sent
<1> USE Types
<1> DEFINE p == current
           s == lab.session + 1
           m == Started(lab)
           y1 == [Now EXCEPT !.lab = m]
           y2 == [y1 EXCEPT !.ctx[s].blocked = p # 0]
           v == [y2 EXCEPT !.ctx[s].run = IF p = 0 THEN "files" ELSE "previous"]
           u == Observe(v, s, ChildIs("starting"))
<1>1. v = [Now EXCEPT !.lab = Started(lab),
                      !.ctx[s].blocked = current # 0,
                      !.ctx[s].run = IF current = 0 THEN "files" ELSE "previous"]
  OBVIOUS
<1>2. Becomes(IF p = 0 THEN u ELSE CloseContext(u, p))
  <2> HIDE DEF v, s
  <2>1. v = [Now EXCEPT !.lab = Started(lab),
                        !.ctx[s].blocked = current # 0,
                        !.ctx[s].run = IF current = 0 THEN "files" ELSE "previous"]
    BY <1>1
  <2> QED BY <2>1 DEF Start, s
<1>3. /\ m \in Service /\ m.approval = NoApproval /\ m.session = s
  <2>1. InitialService \in Service /\ InitialService.approval = NoApproval
    BY DEF InitialService, Service, Status, Approval, NoApproval
  <2>2. s \in Nat
    BY DEF Service
  <2> QED BY <2>1, <2>2 DEF Started, Service, Status
<1>4. v.lab = m
  <2> HIDE DEF m
  <2>1. y1 = [lab |-> m, ctx |-> ctx, answered |-> answered]
    BY DEF Now
  <2> HIDE DEF y1
  <2> QED BY <2>1
<1> HIDE DEF m, v
<1>5. u.lab \in Service /\ u.lab.session = s /\ u.lab.approval.status = "cancelled"
  <2>1. u.lab = Heard(m, s, ChildIs("starting"))
    BY <1>4 DEF Observe, Heard
  <2>2. Heeds(m, u.lab)
    BY <1>3, <2>1, HeardHeeds, Remarks
  <2> QED BY <1>3, <2>2 DEF Heeds, NoApproval
<1> HIDE DEF u
<1>6. lab' = u.lab
  <2> DEFINE z1 == [u EXCEPT !.ctx[p].close = "true", !.ctx[p].expectedClose = TRUE]
             z2 == [u EXCEPT !.ctx[p].close = "wait", !.ctx[p].expectedClose = TRUE]
             o == ChildIs("closing")
  <2>1. z1.lab = u.lab /\ z2.lab = u.lab
    OBVIOUS
  <2>2. CloseContext(u, p) \in {u, z1, Observe(z2, p, o)}
    BY DEF CloseContext
  <2> HIDE DEF z1, z2, o
  <2>3. Observe(z2, p, o) = z2
    BY <1>5, <2>1 DEF Observe
  <2> QED BY <1>2, <2>1, <2>2, <2>3 DEF Becomes
<1> QED BY <1>5, <1>6 DEF Sent

\* Requests are only counted up.
LEMMA RequestsGrow ==
  ASSUME Inv, Next
  PROVE  requested <= requested'
<1>1. ASSUME NEW s \in Session, Scheduled(s) PROVE requested' = requested
  <2>1. CASE RunGoesOn(s)
    BY ZenonT(60), <2>1 DEF RunGoesOn, PreviousClosed, Discovered, DiscoveryClosed, Connected, Configured,
       ThreadStarted, TurnAnswered, RequestRejected, TurnEnded, StartupStopFinished, rest
  <2>2. CASE StopGoesOn(s)
    BY ZenonT(60), <2>2 DEF StopGoesOn, StopPreviousClosed, StopInterrupted, StopClosed, rest
  <2> QED BY SMTT(30), <1>1, <2>1, <2>2 DEF Scheduled, CloseEnds, FilesWritten, DiscoveryStuck,
             TurnTimesOut, RequestTimesOut, StopCleanedUp, InterruptTimesOut, CloseFails, rest
<1>2. ASSUME NEW s \in Session, OnServerRequest(s)
      PROVE  requested' = requested \/ requested' = requested + 1
  BY ZenonT(60), <1>2 DEF OnServerRequest
<1>3. ASSUME NEW s \in Session, Child(s), ~OnServerRequest(s) PROVE requested' = requested
  BY ZenonT(60), <1>3 DEF Child, Answered, InterruptAnswered, DiscoveryExits, MainExits, ConnectionFails,
     OnTurnStarted, OnItem, OnUnexpected, OnTurnCompletedMessage, OnResolved, rest
<1>4. ASSUME Start \/ Stop \/ Decide PROVE requested' = requested
  BY <1>4 DEF Start, Stop, Decide, rest
<1>5. requested' = requested \/ requested' = requested + 1
  BY <1>1, <1>2, <1>3, <1>4 DEF Next
<1> QED BY <1>5, Types

LEMMA ReplyKept ==
  ASSUME Inv, Inv', [Next]_vars, ReplyIsSent
  PROVE  ReplyIsSent'
<1>1. /\ requested \in 0 .. MaxRequests /\ requested' \in 0 .. MaxRequests
      /\ MaxRequests \in Nat
      /\ answered \in [Request -> Nat] /\ answered' \in [Request -> Nat]
      /\ \A r \in Request : answered'[r] <= 1
      /\ \A r \in Request : r \in Nat
  BY BoundsAssumption DEF Inv, TypeOK, AnsweredOnce, Request
<1>2. CASE UNCHANGED vars
  BY <1>2 DEF vars, ReplyIsSent
<1>3. CASE Start
  BY <1>3, StartAsksNothing DEF ReplyIsSent, Sent
<1>4. CASE Next /\ Follows
  <2> SUFFICES ASSUME lab'.approval.status \in Sent
               PROVE  /\ lab'.approval.id \in Request /\ lab'.approval.id <= requested'
                      /\ answered'[lab'.approval.id] = 1
    BY DEF ReplyIsSent, Sent
  <2> DEFINE r == lab.approval.id
  <2>1. lab'.approval.id = r /\ lab.approval.status \in Sent
    BY <1>4 DEF Follows
  <2>2. r \in Request /\ r <= requested /\ answered[r] = 1
    BY <2>1 DEF ReplyIsSent, Sent
  <2>3. requested <= requested'
    BY <1>4, RequestsGrow
  <2>4. answered[r] <= answered'[r]
    BY <1>4, <2>2 DEF Follows
  <2> HIDE DEF r
  <2>5. r <= requested' /\ answered'[r] = 1
    BY <1>1, <2>2, <2>3, <2>4
  <2> QED BY <2>1, <2>2, <2>5
<1>5. CASE Decide
  <2> DEFINE r == lab.approval.id
             c == ctx[current]
             b == [answered EXCEPT ![r] = @ + 1]
  <2>1. /\ current \in Session /\ r \in Request /\ c.pending = r
        /\ \E m : /\ lab' = m
                  /\ \/ m.approval.status = "unknown"
                     \/ answered' = b /\ m.approval.id = r
    <3>1. /\ current \in Session /\ r \in Request /\ c.pending = r
          /\ \E m :
               \/ /\ Becomes(Left(current, c, m, answered))
                  /\ m.approval.status = "unknown"
               \/ /\ Becomes(Left(current, Settled(c), m, b)) /\ m.approval.id = r
      BY <1>5, DecideLeaves
    <3> HIDE DEF r, c, b
    <3> QED BY <3>1 DEF Becomes, Left
  <2>2. r <= requested /\ answered[r] = 0
    BY SMTT(30), <1>1, <2>1 DEF Inv, InStep, RequestsAreHeld, Request
  <2>3. requested' = requested
    BY <1>5 DEF Decide, rest
  <2>4. b[r] = 1
    BY <1>1, <2>1, <2>2
  <2> HIDE DEF r, b
  <2> QED BY <2>1, <2>2, <2>3, <2>4 DEF ReplyIsSent
<1>6. CASE Stop
  <2>1. TRUE \in BOOLEAN
    OBVIOUS
  <2>2. Follows
    BY <1>6, <2>1, StopOperationMoves, OnwardFollows
  <2> QED BY <1>4, <1>6, <2>2 DEF Next
<1> QED BY <1>2, <1>3, <1>4, <1>5, <1>6, StepFollows DEF Next

-----------------------------------------------------------------------------
(* The end that is shown                                                   *)

\* A child that is spoken of as there is not shown to have ended.
LEMMA ChildHides ==
  ASSUME NEW l \in Service, NEW x, \/ x \in {"running", "closing"} /\ l.status # "stopped"
                                   \/ x = "unknown",
         NEW m, m = Observed(l, ChildIs(x))
  PROVE  ~Shown(m) /\ m.status # "stopped"
<1> DEFINE r == Recorded(l)
<1>1. r \in Service /\ r.status = l.status
  BY HeedsRecorded
<1>2. CASE x \in {"running", "closing"} /\ l.status # "stopped"
  <2>1. m = [r EXCEPT !.child = x]
    BY <1>2 DEF Observed, Ignores, ChildIs, ChildStatusApplied, Progress
  <2> HIDE DEF r
  <2>2. m.child = x /\ m.status = r.status
    BY <1>1, <1>2, <2>1 DEF Service
  <2> QED BY <1>1, <1>2, <2>2 DEF Shown
<1>3. CASE x = "unknown"
  <2> DEFINE t == TurnUnknown(l)
  <2>1. m = [r EXCEPT !.child = "unknown", !.status = "unknown", !.turnStatus = t]
    BY <1>3 DEF Observed, Ignores, ChildIs, ChildStatusApplied, Progress
  <2> HIDE DEF r, t
  <2>2. m.child = "unknown" /\ m.status = "unknown"
    BY <1>1, <2>1 DEF Service
  <2> QED BY <2>2 DEF Shown
<1> QED BY <1>2, <1>3

\* The closing of a child is told.
LEMMA CloseHides ==
  ASSUME Inv, NEW s \in Session, NEW w, NEW q \in BOOLEAN, Onward(s, w, q), lab.session = s,
         w.ctx[s].close = "null", w.ctx[s].conn # "none", w.lab.status # "stopped",
         NEW v, v = CloseContext(w, s)
  PROVE  ~Shown(v.lab)
<1> DEFINE z == [w EXCEPT !.ctx[s].close = "wait", !.ctx[s].expectedClose = TRUE]
           o == ChildIs("closing")
<1>1. v = Observe(z, s, o)
  BY DEF CloseContext
<1>2. z.lab = w.lab
  <2>1. w = Left(s, w.ctx[s], w.lab, w.answered)
    BY DEF Onward
  <2> QED BY <2>1 DEF Left
<1>3. w.lab \in Service /\ w.lab.session = s
  BY DEF Onward
<1> HIDE DEF z, o
<1>4. v.lab = Observed(w.lab, o)
  BY <1>1, <1>2, <1>3 DEF Observe
<1> QED BY <1>3, <1>4, ChildHides DEF o

LEMMA FailureStops ==
  ASSUME NEW l \in Service, NEW s, l.status # "stopped",
         NEW m, m = Heard(l, s, Plain("protocol-failure"))
  PROVE  m.status # "stopped"
<1>1. m = l \/ m = ProtocolFailed(l)
  BY HearsFailure DEF Heard
<1>2. m = ProtocolFailed(l) => m.status = "unknown"
  BY UnknownFields
<1> QED BY <1>1, <1>2

\* So is a failure of a start that has a child.
LEMMA FailHides ==
  ASSUME Inv, NEW s \in Session, NEW w, NEW q \in BOOLEAN, Onward(s, w, q), lab.session = s,
         w.ctx[s] \in Context,
         w.ctx[s].close = "null", w.ctx[s].conn # "none", ~w.ctx[s].fatal, w.ctx[s].pending = 0,
         <<s, w.ctx[s].conn>> \in alive, w.lab.status # "stopped",
         NEW v, v = FailContext(w, s)
  PROVE  ~Shown(v.lab)
<1> DEFINE c == w.ctx[s]
           x1 == [w EXCEPT !.ctx[s].fatal = TRUE]
           d1 == [c EXCEPT !.fatal = TRUE]
           x == [x1 EXCEPT !.ctx[s].stopped = TRUE]
           d == [d1 EXCEPT !.stopped = TRUE]
           o == Plain("protocol-failure")
           z == Observe(x, s, o)
<1>1. x1.ctx[s] = d1 /\ Onward(s, x1, q) /\ x1.lab = w.lab
  <2>1. x1 = [w EXCEPT !.ctx[s] = d1]
    OBVIOUS
  <2> HIDE DEF x1, d1
  <2> QED BY SMTT(30), <2>1, OnwardPut
<1>2. x.ctx[s] = d /\ Onward(s, x, q) /\ x.lab = w.lab
  <2> HIDE DEF x1, d1
  <2>1. x = [x1 EXCEPT !.ctx[s] = d]
    BY <1>1
  <2> HIDE DEF x, d
  <2> QED BY SMTT(30), <1>1, <2>1, OnwardPut
<1>3. d.pending = 0 /\ d.close = "null" /\ d.conn = c.conn
  BY DEF Context
<1>4. v = CloseContext(z, s)
  <2>1. x = [w EXCEPT !.ctx[s].fatal = TRUE, !.ctx[s].stopped = TRUE]
    OBVIOUS
  <2> HIDE DEF x, d
  <2>2. CancelPending(x, s, FALSE) = x
    BY <1>2, <1>3 DEF CancelPending
  <2> HIDE DEF o
  <2>3. v = CloseContext(Observe(RevokeAll(x, s), s, Plain("protocol-failure")), s)
    BY <2>1 DEF FailContext, Conn
  <2> QED BY <2>2, <2>3 DEF RevokeAll, o
<1> HIDE DEF x, x1, d, d1
<1>5. Onward(s, z, q) /\ z.ctx[s] = d /\ z.lab = Heard(w.lab, s, o)
  <2>1. IsRemark(o)
    BY Remarks
  <2> HIDE DEF z, o
  <2> QED BY <1>2, <2>1, OnwardTold DEF z
<1> HIDE DEF z
<1>6. z.lab.status # "stopped"
  <2>1. w.lab \in Service
    BY DEF Onward
  <2>2. z.lab = Heard(w.lab, s, Plain("protocol-failure"))
    BY <1>5 DEF o
  <2> HIDE DEF o
  <2> QED BY <2>1, <2>2, FailureStops
<1> QED BY <1>3, <1>4, <1>5, <1>6, CloseHides

LEMMA ThrowHides ==
  ASSUME Inv, NEW s \in Session, NEW q \in BOOLEAN, s = current, ctx[s].close = "null", ctx[s].conn # "none",
         ~ctx[s].fatal, ~ctx[s].stopped,
         NEW v, v = Throw(Now, s)
  PROVE  ~Shown(v.lab)
<1> DEFINE c == ctx[s]
           e == Going(c, "done")
           u == At(Now, s, "done")
           d == [e EXCEPT !.fatal = TRUE]
           x == [u EXCEPT !.ctx[s] = d]
           y == Observe(x, s, Plain("protocol-failure"))
           z == Observe(y, s, ChildIs("unknown"))
<1>1. Onward(s, Now, q) /\ Now.ctx[s] = c /\ lab.session = s
  BY OnwardNow, Types DEF Now
<1>2. x = [u EXCEPT !.ctx[s].fatal = TRUE]
  <2> HIDE DEF u
  <2>1. u.ctx[s] = e
    BY <1>1, OnwardAt DEF u
  <2> QED BY <2>1
<1>3. v = CloseContext(z, s)
  <2> HIDE DEF x
  <2> QED BY <1>1, <1>2 DEF Throw
<1>4. c \in Context /\ e \in Context /\ e.close = "null" /\ e.conn # "none"
  <2>1. c \in Context
    BY Types
  <2> HIDE DEF c
  <2> QED BY <2>1, GoingFields DEF c, RunStage
<1> HIDE DEF c, u, e
<1>5. Onward(s, u, q)
  BY <1>1, OnwardAt DEF u
<1>6. d.close = "null" /\ d.conn # "none"
  BY <1>4 DEF Context
<1> HIDE DEF d
<1>7. Onward(s, x, q) /\ x.ctx[s] = d
  <2>1. x = [u EXCEPT !.ctx[s] = d]
    OBVIOUS
  <2> HIDE DEF x
  <2> QED BY SMTT(30), <1>5, <2>1, OnwardPut
<1> HIDE DEF x
<1> DEFINE o == Plain("protocol-failure")
           p == ChildIs("unknown")
<1>8. IsRemark(o) /\ IsRemark(p) /\ y = Observe(x, s, o) /\ z = Observe(y, s, p)
  BY Remarks
<1> HIDE DEF y, z, o, p
<1>9. Onward(s, y, q) /\ y.ctx[s] = d
  BY <1>7, <1>8, OnwardTold
<1>10. Onward(s, z, q) /\ z.ctx[s] = y.ctx[s] /\ z.lab = Heard(y.lab, s, p)
  BY <1>8, <1>9, OnwardTold
<1>11. z.lab.status # "stopped"
  <2>1. y.lab \in Service /\ y.lab.session = s
    BY <1>1, <1>9 DEF Onward
  <2>2. z.lab = Observed(y.lab, ChildIs("unknown"))
    BY <1>10, <2>1 DEF Heard, p
  <2> QED BY <2>1, <2>2, ChildHides
<1> QED BY <1>1, <1>3, <1>6, <1>9, <1>10, <1>11, CloseHides

\* A session that has no child, in a step that spawns none.
LEMMA EndWithoutChild ==
  ASSUME Inv, Inv', current' = current, alive' \subseteq alive,
         current # 0 => ctx[current].conn = "none"
  PROVE  EndIsShown'
<1>1. current # 0 => ctx'[current].conn = "none"
  <2>1. /\ \A child \in alive : ctx[child[1]].conn = child[2]
        /\ current # 0 /\ ctx'[current].conn # "none" => <<current, ctx'[current].conn>> \in alive'
    BY DEF Inv, InStep, ChildrenAreHeld, Conn
  <2> QED BY <2>1
<1> QED BY <1>1 DEF EndIsShown

\* The child of the session has gone.
LEMMA EndOfOwn ==
  ASSUME Inv, Inv', current' = current, NEW kind, <<current, kind>> \in alive,
         alive' = alive \ {<<current, kind>>}
  PROVE  EndIsShown'
<1>1. current # 0 => ctx'[current].conn = "none"
  <2>1. /\ \A child \in alive : ctx[child[1]].conn = child[2]
        /\ current # 0 /\ ctx'[current].conn # "none" => <<current, ctx'[current].conn>> \in alive'
    BY DEF Inv, InStep, ChildrenAreHeld, Conn
  <2> QED BY <2>1
<1> QED BY <1>1 DEF EndIsShown

LEMMA EndHidden ==
  ASSUME current' = current, ~Shown(lab')
  PROVE  EndIsShown'
BY DEF EndIsShown, Shown

\* A step of an earlier session.
LEMMA EndEarlier ==
  ASSUME Inv, EndIsShown, current' = current, NEW s \in Session, s # current, Moves(s, FALSE)
  PROVE  EndIsShown'
<1>1. PICK w : Becomes(w) /\ Onward(s, w, FALSE)
  BY DEF Moves
<1>2. lab' = lab
  BY <1>1, Types DEF Onward, Becomes
<1>3. current # 0 => current \in Session
  BY Types DEF Session
<1>4. current # 0 => ctx'[current] = ctx[current]
  BY <1>1, <1>3, Types DEF Onward, Becomes, Left
<1> QED BY <1>2, <1>4 DEF EndIsShown

\* A step of the current session, when the end is not shown.
LEMMA EndStaysHidden ==
  ASSUME Inv, current \in Session, current' = current, Moves(current, TRUE), ~Shown(lab)
  PROVE  EndIsShown'
<1>1. PICK w : Becomes(w) /\ Onward(current, w, TRUE)
  BY DEF Moves
<1>2. ~Shown(lab')
  BY <1>1 DEF Onward, Becomes
<1> QED BY <1>2, EndHidden

\* Of a start that has a child while the end is shown, nothing else is under way.
EndedBefore(s) ==
  LET c == ctx[s]
  IN /\ lab.status = "starting" /\ lab.session = s /\ lab \in Service /\ c \in Context
     /\ ~c.stopped /\ ~c.fatal /\ ~c.attempted /\ ~c.asked /\ ~c.blocked /\ ~c.started
     /\ c.pending = 0 /\ c.close = "null" /\ c.stops = {}
     /\ c.run \in {"discovery", "closing", "connect"} /\ c.conn # "none"
     /\ <<s, c.conn>> \in alive /\ (c.run = "closing" => c.conn = "discovery")

LEMMA ShownEarly ==
  ASSUME Inv, EndIsShown, current \in Session, Shown(lab), ctx[current].conn # "none"
  PROVE  EndedBefore(current)
<1> DEFINE s == current
           c == ctx[s]
<1>1. /\ lab.status = "starting" /\ ~c.stopped /\ ~c.fatal
      /\ c.run \in {"discovery", "closing", "connect"} /\ s # 0 /\ c.conn # "none"
  BY Types DEF EndIsShown, Shown
<1>2. c \in Context /\ Fits(s, c) /\ <<s, c.conn>> \in alive
  BY <1>1, Types DEF Inv, InStep, ChildrenAreHeld, Conn
<1>3. lab \in Service /\ lab.session = s
  BY Types
<1> HIDE DEF c
<1>4. ~c.attempted /\ c.close = "null" /\ c.stops = {} /\ ~c.asked
  BY <1>1, <1>2 DEF Fits, Early
<1>5. ~c.started /\ c.pending = 0
  BY <1>2, <1>4 DEF Fits
<1>6. ~c.blocked /\ (c.run = "closing" => c.conn = "discovery")
  BY <1>1, <1>2 DEF Fits, Context
<1> QED BY <1>1, <1>2, <1>3, <1>4, <1>5, <1>6 DEF EndedBefore, c

\* Its start goes on, as it was told of.
LEMMA EndStaysShown ==
  ASSUME current \in Session, EndedBefore(current), current' = current,
         lab'.status = "starting", ctx'[current].stopped = ctx[current].stopped,
         ctx'[current].fatal = ctx[current].fatal,
         ctx'[current].run \in {"discovery", "closing", "connect"}
  PROVE  EndIsShown'
BY DEF EndIsShown, EndedBefore

LEMMA DiscoveryGone ==
  ASSUME NEW s \in Session, DiscoveryClosed(s)
  PROVE  ctx[s].run = "closing" /\ <<s, "discovery">> \notin alive
<1>1. ctx[s].run = "closing" /\ RunDue(s)
  BY ZenonT(60) DEF DiscoveryClosed
<1> QED BY <1>1 DEF RunDue, RpcStage

LEMMA EndRuns ==
  ASSUME Inv, current \in Session, EndedBefore(current), current' = current,
         NEW q \in BOOLEAN, RunGoesOn(current)
  PROVE  EndIsShown'
<1> DEFINE s == current
           c == ctx[s]
<1>1. /\ c \in Context /\ ctx \in [Session -> Context] /\ lab \in Service
      /\ ~c.stopped /\ c.run \in {"discovery", "closing", "connect"}
      /\ lab.session = s /\ lab.status = "starting"
  BY Types DEF EndedBefore
<1>2. CASE Discovered(s)
  <2>1. Becomes([At(Now, s, "closing") EXCEPT !.ctx[s].expectedClose = TRUE])
    BY <1>1, <1>2 DEF Discovered
  <2>2. lab' = lab /\ ctx'[s].stopped = c.stopped /\ ctx'[s].fatal = c.fatal
          /\ ctx'[s].run = "closing"
    BY <1>1, <2>1 DEF Becomes, At, Now, Context
  <2> QED BY <1>1, <2>2, EndStaysShown
<1>3. CASE DiscoveryClosed(s)
  <2>1. c.run = "closing" /\ <<s, "discovery">> \notin alive
    BY <1>3, DiscoveryGone
  <2>3. <<s, "discovery">> \in alive
    BY <2>1 DEF EndedBefore
  <2> QED BY <2>1, <2>3
<1>4. CASE Connected(s)
  <2> DEFINE v == Observe(Now, s, ChildIs("running"))
  <2>1. Becomes(At(v, s, "config"))
    BY <1>1, <1>4 DEF Connected, Unless
  <2>2. v.lab = Observed(lab, ChildIs("running"))
    BY <1>1 DEF Observe, Now
  <2> HIDE DEF v
  <2>3. lab' = v.lab
    <3>1. Onward(s, v, q)
      <4>1. Onward(s, Now, q) /\ IsRemark(ChildIs("running"))
        BY OnwardNow, Remarks
      <4> QED BY <4>1, OnwardTold DEF v
    <3> QED BY <2>1, <3>1, OnwardAt DEF Becomes
  <2>4. ~Shown(lab')
    BY <1>1, <2>2, <2>3, ChildHides
  <2> QED BY <2>4, EndHidden
<1>5. CASE RequestRejected(s)
  <2> DEFINE v == Throw(Now, s)
  <2>1. Becomes(v)
    BY <1>5 DEF RequestRejected
  <2>2. ~Shown(v.lab)
    <3>1. c.close = "null" /\ c.conn # "none" /\ ~c.fatal /\ ~c.stopped
      BY DEF EndedBefore
    <3> HIDE DEF v
    <3> QED BY <3>1, ThrowHides DEF v
  <2> QED BY <2>1, <2>2, EndHidden DEF Becomes
<1>6. ~(PreviousClosed(s) \/ Configured(s) \/ ThreadStarted(s) \/ TurnAnswered(s)
         \/ TurnEnded(s) \/ StartupStopFinished(s))
  <2>1. ~PreviousClosed(s)
    BY <1>1 DEF PreviousClosed
  <2>2. ~Configured(s) /\ ~ThreadStarted(s)
    BY <1>1 DEF Configured, ThreadStarted
  <2>3. ~TurnAnswered(s)
    <3>1. TurnAnswered(s) => c.run = "turn"
      BY ONLY DEF TurnAnswered, c
    <3> QED BY <1>1, <3>1
  <2>4. ~TurnEnded(s) /\ ~StartupStopFinished(s)
    BY <1>1 DEF TurnEnded, StartupStopFinished
  <2> QED BY <2>1, <2>2, <2>3, <2>4
<1> QED BY <1>2, <1>3, <1>4, <1>5, <1>6 DEF RunGoesOn

\* The timers, and what the child answers and ends with.
LEMMA EndTimes ==
  ASSUME Inv, current \in Session, EndedBefore(current), current' = current,
         NEW q \in BOOLEAN,
         \/ StopGoesOn(current) \/ CloseEnds(current) \/ FilesWritten(current)
         \/ DiscoveryStuck(current) \/ TurnTimesOut(current) \/ RequestTimesOut(current)
         \/ StopCleanedUp(current) \/ InterruptTimesOut(current) \/ CloseFails(current)
         \/ Answered(current) \/ InterruptAnswered(current)
  PROVE  EndIsShown'
<1> DEFINE s == current
           c == ctx[s]
<1>1. /\ c \in Context /\ ctx \in [Session -> Context] /\ lab \in Service
      /\ ~c.stopped /\ ~c.fatal /\ c.run \in {"discovery", "closing", "connect"}
      /\ c.close = "null" /\ c.stops = {} /\ c.conn # "none"
      /\ lab.session = s /\ lab.status = "starting"
  BY Types DEF EndedBefore
<1>2. CASE Answered(s) \/ RequestTimesOut(s)
  <2>1. PICK reply : Becomes([Now EXCEPT !.ctx[s].reply = reply])
    BY <1>2 DEF Answered, RequestTimesOut
  <2>2. lab' = lab /\ ctx'[s].stopped = c.stopped /\ ctx'[s].fatal = c.fatal
          /\ ctx'[s].run = c.run
    BY <1>1, <2>1 DEF Becomes, Now, Context
  <2> QED BY <1>1, <2>2, EndStaysShown
<1>3. CASE DiscoveryStuck(s)
  <2> DEFINE v == Throw(Now, s)
  <2>1. Becomes(v)
    BY <1>3 DEF DiscoveryStuck
  <2>2. ~Shown(v.lab)
    <3> HIDE DEF v
    <3> QED BY <1>1, ThrowHides DEF v
  <2> QED BY <2>1, <2>2, EndHidden DEF Becomes
<1>4. ~StopGoesOn(s) /\ ~StopCleanedUp(s)
  BY <1>1 DEF StopGoesOn, StopPreviousClosed, StopInterrupted, StopClosed, StopCleanedUp
<1>5. ~CloseEnds(s) /\ ~CloseFails(s)
  BY <1>1 DEF CloseEnds, CloseDue, CloseFails
<1>6. ~FilesWritten(s) /\ ~TurnTimesOut(s)
  BY <1>1 DEF FilesWritten, TurnTimesOut
<1>7. ~InterruptTimesOut(s) /\ ~InterruptAnswered(s)
  BY <1>1 DEF InterruptTimesOut, InterruptAnswered
<1> QED BY <1>2, <1>3, <1>4, <1>5, <1>6, <1>7

\* The failures, and the messages of the child.
LEMMA EndSpeaks ==
  ASSUME Inv, current \in Session, EndedBefore(current), current' = current,
         NEW q \in BOOLEAN,
         \/ \E kind \in {"discovery", "main"} : ConnectionFails(current, kind)
         \/ OnTurnStarted(current) \/ OnItem(current) \/ OnUnexpected(current)
         \/ OnTurnCompletedMessage(current) \/ OnResolved(current) \/ OnServerRequest(current)
  PROVE  EndIsShown'
<1> DEFINE s == current
           c == ctx[s]
<1>1. /\ c \in Context /\ ctx \in [Session -> Context] /\ lab \in Service
      /\ ~c.stopped /\ ~c.fatal /\ ~c.attempted /\ c.pending = 0
      /\ c.run \in {"discovery", "closing", "connect"}
      /\ c.close = "null" /\ c.stops = {} /\ c.conn # "none" /\ <<s, c.conn>> \in alive
      /\ lab.session = s /\ lab.status = "starting"
  BY Types DEF EndedBefore
<1>2. Onward(s, Now, q) /\ Now.ctx[s] = c /\ Now.lab = lab
  BY OnwardNow DEF Now
<1>3. CASE \E kind \in {"discovery", "main"} : ConnectionFails(s, kind)
  <2> DEFINE w == Rejected(Now, s)
             v == FailContext(w, s)
  <2>1. Becomes(v)
    BY <1>3 DEF ConnectionFails
  <2>2. Onward(s, w, q) /\ w.ctx[s] = Rejecting(c) /\ w.lab = lab
    <3> HIDE DEF c
    <3> QED BY <1>2, OnwardRejects
  <2> HIDE DEF w
  <2> DEFINE d == Rejecting(c)
  <2>3. /\ d \in Context /\ d.close = c.close /\ d.conn = c.conn /\ d.fatal = c.fatal
        /\ d.pending = c.pending
    <3> HIDE DEF c
    <3> QED BY <1>1, RejectingFields
  <2> HIDE DEF d, v
  <2>4. ~Shown(v.lab)
    BY <1>1, <2>2, <2>3, FailHides DEF v, d
  <2> QED BY <2>1, <2>4, EndHidden DEF Becomes
<1>4. CASE OnUnexpected(s)
  <2> DEFINE v == FailContext(Now, s)
  <2>1. Becomes(v)
    BY <1>4 DEF OnUnexpected
  <2> HIDE DEF v
  <2>2. ~Shown(v.lab)
    BY <1>1, <1>2, FailHides DEF v
  <2> QED BY <2>1, <2>2, EndHidden DEF Becomes
<1>5. CASE OnServerRequest(s)
  <2> DEFINE o == Plain("unsupported-request")
             v == Observe(Now, s, o)
  <2>1. Becomes(v)
    <3>1. ~ctx[s].attempted
      BY <1>1
    <3> HIDE DEF c
    <3> QED BY ZenonT(60), <1>5, <3>1 DEF OnServerRequest
  <2>2. v.ctx[s] = c /\ v.lab = Heard(lab, s, o)
    <3>1. IsRemark(o)
      BY Remarks
    <3> HIDE DEF v, o, c
    <3> QED BY <1>2, <3>1, OnwardTold DEF v
  <2> HIDE DEF v
  <2>3. v.lab.status = "starting"
    <3>1. v.lab = lab \/ v.lab = Recorded(lab)
      BY <2>2 DEF Heard, Observed, Plain
    <3> QED BY <1>1, <3>1, HeedsRecorded
  <2> QED BY <1>1, <2>1, <2>2, <2>3, EndStaysShown DEF Becomes
<1>6. ~OnTurnStarted(s) /\ ~OnItem(s)
  <2>1. OnTurnStarted(s) => c.attempted
    BY ZenonT(60) DEF OnTurnStarted
  <2>2. OnItem(s) => \E t \in Turns : InTurn(s, t)
    BY ZenonT(60) DEF OnItem
  <2> QED BY <1>1, <2>1, <2>2 DEF InTurn
<1>7. ~OnTurnCompletedMessage(s) /\ ~OnResolved(s)
  BY <1>1 DEF OnTurnCompletedMessage, OnResolved
<1> QED BY <1>3, <1>4, <1>5, <1>6, <1>7

\* A stop of a start that has a child has it closed.
LEMMA EndStops ==
  ASSUME Inv, current \in Session, EndedBefore(current), current' = current,
         NEW q \in BOOLEAN, Stop
  PROVE  EndIsShown'
<1> DEFINE s == current
           c == ctx[s]
           l == StopAsked(lab)
           v == [Now EXCEPT !.lab = l]
           x == [v EXCEPT !.ctx[s].stopped = TRUE]
           d == [c EXCEPT !.stopped = TRUE]
<1>1. PICK sent \in Sends(s) : Becomes(StopContext(x, s, sent))
  <2>1. ~c.stopped
    BY DEF EndedBefore
  <2> HIDE DEF c
  <2> QED BY ZenonT(60), <2>1 DEF Stop, c
<1>2. /\ c \in Context /\ ctx \in [Session -> Context] /\ lab \in Service
      /\ ~c.asked /\ ~c.blocked /\ ~c.started /\ ~c.attempted /\ c.pending = 0
      /\ c.close = "null" /\ c.conn # "none"
      /\ lab.session = s /\ lab.status = "starting" /\ s \in Session
  BY Types DEF EndedBefore
<1>3. /\ l \in Service /\ l.session = s /\ l.status = "stopping"
      /\ l.approval.status = lab.approval.status /\ l.approval.id = lab.approval.id
      /\ l.child = lab.child
  BY <1>2, StopAskedFields DEF Terminal
<1> HIDE DEF l
<1> HIDE DEF s, c, v
<1>4. Onward(s, v, q) /\ v.ctx[s] = c /\ v.lab = l
  <2>1. Onward(s, Now, q) /\ Now.lab = lab /\ Now.ctx[s] = c
    BY <1>2, OnwardNow DEF Now, c
  <2>2. ~Shown(lab) => ~Shown(l)
    BY <1>3 DEF Shown
  <2> QED BY <1>2, <1>3, <2>1, <2>2, OnwardLab DEF v
<1>5. Onward(s, x, q) /\ x.ctx[s] = d /\ x.lab = l
  <2>1. x = [v EXCEPT !.ctx[s] = d]
    BY <1>4
  <2> HIDE DEF x, d
  <2> QED BY <1>2, <1>4, <2>1, OnwardPut
<1>6. /\ d \in Context /\ ~d.asked /\ ~d.started /\ ~d.attempted /\ d.pending = 0
      /\ d.close = "null" /\ d.conn = c.conn
  BY <1>2 DEF Context
<1> HIDE DEF x, d
<1> DEFINE e == [d EXCEPT !.asked = TRUE]
           y == [x EXCEPT !.ctx[s].asked = TRUE]
           f == [e EXCEPT !.stops = @ \cup {"closing"}]
           z == [y EXCEPT !.ctx[s].stops = @ \cup {"closing"}]
<1>7. Onward(s, y, q) /\ y.ctx[s] = e /\ y.lab = l
  <2>1. y = [x EXCEPT !.ctx[s] = e]
    BY <1>5
  <2> HIDE DEF y, e
  <2>2. s \in Session /\ q \in BOOLEAN /\ Onward(s, x, q)
    BY <1>2, <1>5
  <2>3. Onward(s, y, q) /\ y.ctx[s] = e /\ y.lab = x.lab
    BY <2>1, <2>2, OnwardPut
  <2> QED BY <1>5, <2>3
<1>8. e \in Context /\ e.pending = 0 /\ e.close = "null" /\ e.conn = c.conn
  BY <1>6 DEF Context
<1>9. StopContext(x, s, sent) = CloseContext(z, s)
  <2>1. CancelPending(y, s, sent) = y
    <3> HIDE DEF y, e
    <3> QED BY <1>7, <1>8 DEF CancelPending
  <2> DEFINE Then(stage) == [y EXCEPT !.ctx[s].stops = @ \cup {stage}]
             u == Plain("stop-unconfirmed")
  <2>2. StopContext(x, s, sent) =
          CASE d.asked -> x
            [] ~d.asked /\ d.conn = "none" /\ d.blocked -> CloseContext(Then("previous"), s - 1)
            [] ~d.asked /\ d.conn = "none" /\ ~d.blocked /\ ~d.attempted -> Then("cleanup")
            [] ~d.asked /\ d.conn = "none" /\ ~d.blocked /\ d.attempted -> Observe(y, s, u)
            [] ~d.asked /\ d.conn # "none" /\ d.started /\ ~d.completed ->
                 Observe(Then("interrupt"), s, ChildIs("closing"))
            [] ~d.asked /\ d.conn # "none" /\ ~d.started /\ d.attempted /\ ~d.completed ->
                 CloseContext(Observe(Then("closing"), s, u), s)
            [] OTHER -> CloseContext(Then("closing"), s)
    BY <1>5, <2>1 DEF StopContext
  <2> HIDE DEF u, Then
  <2>3. d.conn # "none"
    BY <1>2, <1>6
  <2> QED BY <1>6, <2>2, <2>3 DEF Then
<1>10. Onward(s, z, q) /\ z.ctx[s] = f /\ z.lab = l
  <2> HIDE DEF y, e
  <2>1. z = [y EXCEPT !.ctx[s] = f]
    BY <1>7
  <2> HIDE DEF z, f
  <2> QED BY SMTT(30), <1>2, <1>7, <2>1, OnwardPut
<1>11. f.close = "null" /\ f.conn # "none"
  BY <1>2, <1>8 DEF Context
<1> HIDE DEF x, y, z, d, e, f
<1> DEFINE n == StopContext(x, s, sent)
<1>12. ~Shown(n.lab)
  <2>1. n = CloseContext(z, s) /\ l.status # "stopped"
    BY <1>3, <1>9
  <2> HIDE DEF n
  <2> QED BY <1>2, <1>10, <1>11, <2>1, CloseHides
<1> QED BY <1>1, <1>12, EndHidden DEF Becomes, s

\* A child is spawned by a start that was not stopped, and has not failed.
LEMMA EndSpawns ==
  ASSUME Inv, current \in Session, current' = current,
         FilesWritten(current) \/ DiscoveryClosed(current), alive' # alive
  PROVE  EndIsShown'
<1> DEFINE s == current
           c == ctx[s]
<1>1. /\ c \in Context /\ Fits(s, c) /\ Knows(lab, c) /\ ctx \in [Session -> Context]
      /\ s \in Session
  BY Types DEF Inv, InStep
<1>2. ASSUME c.run \in {"files", "closing"}, ~c.stopped
      PROVE  lab.status = "starting" /\ ~c.fatal
  BY <1>1, <1>2 DEF Fits, Knows, Early, RpcStage
<1>3. ASSUME NEW stage \in {"discovery", "connect"}, lab' = lab, lab.status = "starting",
             ~ctx'[s].stopped, ~ctx'[s].fatal, ctx'[s].run = stage
      PROVE  EndIsShown'
  BY <1>3 DEF EndIsShown
<1>4. CASE FilesWritten(s)
  <2>1. /\ c.run = "files" /\ ~c.stopped
        /\ Becomes([At(Now, s, "discovery") EXCEPT !.ctx[s].conn = "discovery"])
    BY ZenonT(60), <1>4 DEF FilesWritten
  <2>2. /\ lab' = lab /\ ctx'[s].stopped = c.stopped /\ ctx'[s].fatal = c.fatal
        /\ ctx'[s].run = "discovery"
    BY <1>1, <2>1 DEF Becomes, At, Now, Context
  <2> QED BY <1>2, <1>3, <2>1, <2>2
<1>5. CASE DiscoveryClosed(s)
  <2> DEFINE e == c.stopped \/ c.fatal
             v == [Now EXCEPT !.ctx[s].expectedClose = @ /\ (c.stopped \/ c.fatal),
                              !.ctx[s].conn = IF @ = "discovery" THEN "none" ELSE @]
  <2>1. /\ c.run = "closing" /\ ~c.stopped
        /\ Becomes([At(v, s, "connect") EXCEPT !.ctx[s].conn = "main"])
    <3>1. c.run = "closing"
      BY <1>5, DiscoveryGone
    <3> HIDE DEF v
    <3>2. ~c.stopped /\ Becomes([Unless(v, s, FALSE, "connect") EXCEPT !.ctx[s].conn = "main"])
      BY ZenonT(60), <1>5 DEF DiscoveryClosed, v
    <3> QED BY <3>1, <3>2 DEF Unless
  <2> DEFINE y == c.expectedClose /\ (c.stopped \/ c.fatal)
             n == IF c.conn = "discovery" THEN "none" ELSE c.conn
             d == [c EXCEPT !.expectedClose = y, !.conn = n]
  <2>4. v = [Now EXCEPT !.ctx[s] = d]
    <3>1. Now.ctx[s] = c
      BY DEF Now
    <3> HIDE DEF c
    <3> QED BY ZenonT(60), <1>1, <3>1 DEF Now
  <2>5. d \in Context /\ d.stopped = c.stopped /\ d.fatal = c.fatal
    <3> HIDE DEF c
    <3>1. y \in BOOLEAN /\ n \in {"none", "discovery", "main"}
      BY <1>1 DEF Context
    <3> HIDE DEF y, n
    <3> QED BY ZenonT(60), <1>1, <3>1 DEF Context
  <2> HIDE DEF d
  <2>2. /\ v.lab = lab /\ v.ctx[s].stopped = c.stopped /\ v.ctx[s].fatal = c.fatal
        /\ v.ctx[s] \in Context /\ v.ctx \in [Session -> Context]
    <3>1. v.lab = lab /\ v.ctx = [ctx EXCEPT ![s] = d]
      BY <2>4 DEF Now
    <3> HIDE DEF c
    <3> QED BY <1>1, <2>5, <3>1
  <2> HIDE DEF v
  <2>3. /\ lab' = lab /\ ctx'[s].stopped = c.stopped /\ ctx'[s].fatal = c.fatal
        /\ ctx'[s].run = "connect"
    BY <1>1, <2>1, <2>2 DEF Becomes, At, Context
  <2> QED BY <1>2, <1>3, <2>1, <2>3
<1> QED BY <1>4, <1>5

\* Nothing else spawns one.
LEMMA ChildrenOnlyGo ==
  ASSUME NEW s \in Session, Scheduled(s) \/ Child(s), ~FilesWritten(s), ~DiscoveryClosed(s)
  PROVE  alive' \subseteq alive
<1>1. ASSUME RunGoesOn(s) PROVE alive' = alive
  <2>1. TurnAnswered(s) => alive' = alive
    BY ZenonT(60) DEF TurnAnswered
  <2>2. PreviousClosed(s) \/ Discovered(s) \/ Connected(s) \/ Configured(s) => alive' = alive
    BY ZenonT(60) DEF PreviousClosed, Discovered, Connected, Configured, rest
  <2>3. \/ ThreadStarted(s) \/ RequestRejected(s) \/ TurnEnded(s) \/ StartupStopFinished(s)
        => alive' = alive
    BY ZenonT(60) DEF ThreadStarted, RequestRejected, TurnEnded, StartupStopFinished, rest
  <2> QED BY <1>1, <2>1, <2>2, <2>3 DEF RunGoesOn
<1>2. ASSUME StopGoesOn(s) PROVE alive' = alive
  BY <1>2 DEF StopGoesOn, StopPreviousClosed, StopInterrupted, StopClosed, rest
<1>3. ASSUME Scheduled(s) PROVE alive' = alive
  BY <1>1, <1>2, <1>3 DEF Scheduled, CloseEnds, DiscoveryStuck,
     TurnTimesOut, RequestTimesOut, StopCleanedUp, InterruptTimesOut, CloseFails, rest
<1>4. ASSUME DiscoveryExits(s) \/ MainExits(s) PROVE alive' \subseteq alive
  <2>1. DiscoveryExits(s) => alive' = alive \ {<<s, "discovery">>}
    BY ZenonT(60) DEF DiscoveryExits
  <2>2. MainExits(s) => alive' = alive \ {<<s, "main">>}
    BY ZenonT(60) DEF MainExits
  <2> QED BY <1>4, <2>1, <2>2
<1>5. ASSUME Child(s), ~DiscoveryExits(s), ~MainExits(s) PROVE alive' = alive
  <2>1. Answered(s) \/ InterruptAnswered(s) \/ OnTurnStarted(s) => alive' = alive
    BY ZenonT(60) DEF Answered, InterruptAnswered, OnTurnStarted, rest
  <2>2. OnItem(s) \/ OnUnexpected(s) \/ OnResolved(s) => alive' = alive
    BY ZenonT(60) DEF OnItem, OnUnexpected, OnResolved, rest
  <2>3. (\E kind \in {"discovery", "main"} : ConnectionFails(s, kind)) => alive' = alive
    BY ZenonT(60) DEF ConnectionFails
  <2>4. OnTurnCompletedMessage(s) \/ OnServerRequest(s) => alive' = alive
    BY ZenonT(60) DEF OnTurnCompletedMessage, OnServerRequest
  <2> QED BY <1>5, <2>1, <2>2, <2>3, <2>4 DEF Child
<1> QED BY <1>3, <1>4, <1>5

\* A step of the current session.
LEMMA EndOfCurrent ==
  ASSUME Inv, Inv', EndIsShown, current \in Session, current' = current,
         NEW q \in BOOLEAN, q = TRUE, Scheduled(current) \/ Child(current)
  PROVE  EndIsShown'
<1> DEFINE s == current
           c == ctx[s]
<1>1. CASE DiscoveryExits(s) \/ MainExits(s)
  <2>1. PICK kind \in {"discovery", "main"} :
          <<s, kind>> \in alive /\ alive' = alive \ {<<s, kind>>}
    <3>1. DiscoveryExits(s) => <<s, "discovery">> \in alive /\ alive' = alive \ {<<s, "discovery">>}
      BY ZenonT(60) DEF DiscoveryExits
    <3>2. MainExits(s) => <<s, "main">> \in alive /\ alive' = alive \ {<<s, "main">>}
      BY ZenonT(60) DEF MainExits
    <3> QED BY <1>1, <3>1, <3>2
  <2> QED BY <2>1, EndOfOwn
<1>2. CASE ~(DiscoveryExits(s) \/ MainExits(s)) /\ c.conn # "none" /\ Shown(lab)
  <2>1. EndedBefore(s)
    BY <1>2, ShownEarly
  <2> QED BY <1>2, <2>1, EndRuns, EndTimes, EndSpeaks DEF Scheduled, Child
<1>3. CASE ~(DiscoveryExits(s) \/ MainExits(s)) /\ c.conn # "none" /\ ~Shown(lab)
  <2>1. Moves(s, q)
    <3>1. q => s = current /\ ctx[s].conn # "none"
      BY <1>3
    <3>2. CASE Scheduled(s)
      BY <3>1, <3>2, RunMoves, TurnAnsweredMoves, StopMoves, EndMoves
         DEF Scheduled, RunGoesOn, StopGoesOn
    <3>3. CASE Child(s)
      BY <1>3, <3>3, StopMoves, MessageMoves, ServerRequestMoves DEF Child
    <3> QED BY <3>2, <3>3
  <2> QED BY <1>3, <2>1, EndStaysHidden
<1>4. CASE ~(DiscoveryExits(s) \/ MainExits(s)) /\ c.conn = "none"
  <2>1. CASE (FilesWritten(s) \/ DiscoveryClosed(s)) /\ alive' # alive
    BY <2>1, EndSpawns
  <2>2. CASE alive' \subseteq alive
    BY <1>4, <2>2, EndWithoutChild
  <2> QED BY <2>1, <2>2, ChildrenOnlyGo
<1> QED BY <1>1, <1>2, <1>3, <1>4

\* Another session's step.
LEMMA EndOfEarlier ==
  ASSUME Inv, Inv', EndIsShown, NEW s \in Session, s # current, current' = current,
         NEW q \in BOOLEAN, q = FALSE, Scheduled(s) \/ Child(s)
  PROVE  EndIsShown'
<1>1. CASE MainExits(s)
  <2>1. alive' \subseteq alive
    <3>1. alive' = alive \ {<<s, "main">>}
      BY ZenonT(60), <1>1 DEF MainExits
    <3> QED BY <3>1
  <2>2. PICK u : \E expected \in BOOLEAN :
          /\ Onward(s, u, FALSE)
          /\ \/ Becomes(u)
             \/ /\ current = s + 1 /\ ctx[current].blocked
                /\ Becomes(Observe([u EXCEPT !.ctx[current].blocked = FALSE], current,
                                   ChildClosed(expected)))
    BY <1>1, MainExitMoves
  <2>3. CASE Becomes(u)
    BY <2>2, <2>3, EndEarlier DEF Moves
  <2>4. CASE ctx[current].blocked
    <3>1. current # 0 => ctx[current].conn = "none"
      BY <2>4, Types DEF Inv, InStep, Fits, Session
    <3> QED BY <2>1, <3>1, EndWithoutChild
  <2> QED BY <2>2, <2>3, <2>4
<1>2. CASE DiscoveryExits(s)
  BY <1>2, DiscoveryExitMoves, EndEarlier
<1>3. CASE Scheduled(s)
  <2>1. Moves(s, q)
    BY <1>3, RunMoves, TurnAnsweredMoves, StopMoves, EndMoves
       DEF Scheduled, RunGoesOn, StopGoesOn
  <2> QED BY <2>1, EndEarlier
<1>4. CASE Child(s) /\ ~MainExits(s) /\ ~DiscoveryExits(s)
  <2>1. Moves(s, q)
    BY <1>4, StopMoves, MessageMoves, ServerRequestMoves DEF Child
  <2> QED BY <2>1, EndEarlier
<1> QED BY <1>1, <1>2, <1>3, <1>4

\* Only a start makes another session the current one.
LEMMA CurrentStays ==
  ASSUME NEW s \in Session, Scheduled(s) \/ Child(s)
  PROVE  current' = current
<1>1. ASSUME RunGoesOn(s) PROVE current' = current
  <2>1. TurnAnswered(s) \/ DiscoveryClosed(s) => current' = current
    BY ZenonT(60) DEF TurnAnswered, DiscoveryClosed
  <2>2. PreviousClosed(s) \/ Discovered(s) \/ Connected(s) \/ Configured(s) => current' = current
    BY ZenonT(60) DEF PreviousClosed, Discovered, Connected, Configured, rest
  <2>3. \/ ThreadStarted(s) \/ RequestRejected(s) \/ TurnEnded(s) \/ StartupStopFinished(s)
        => current' = current
    BY ZenonT(60) DEF ThreadStarted, RequestRejected, TurnEnded, StartupStopFinished, rest
  <2> QED BY <1>1, <2>1, <2>2, <2>3 DEF RunGoesOn
<1>2. ASSUME StopGoesOn(s) PROVE current' = current
  BY <1>2 DEF StopGoesOn, StopPreviousClosed, StopInterrupted, StopClosed, rest
<1>3. ASSUME Scheduled(s) PROVE current' = current
  <2>1. FilesWritten(s) => current' = current
    BY ZenonT(60) DEF FilesWritten
  <2> QED BY <1>1, <1>2, <1>3, <2>1 DEF Scheduled, CloseEnds, DiscoveryStuck,
     TurnTimesOut, RequestTimesOut, StopCleanedUp, InterruptTimesOut, CloseFails, rest
<1>4. ASSUME Child(s) PROVE current' = current
  <2>1. Answered(s) \/ InterruptAnswered(s) \/ OnTurnStarted(s) => current' = current
    BY ZenonT(60) DEF Answered, InterruptAnswered, OnTurnStarted, rest
  <2>2. OnItem(s) \/ OnUnexpected(s) \/ OnResolved(s) => current' = current
    BY ZenonT(60) DEF OnItem, OnUnexpected, OnResolved, rest
  <2>3. (\E kind \in {"discovery", "main"} : ConnectionFails(s, kind)) => current' = current
    BY ZenonT(60) DEF ConnectionFails
  <2>4. OnTurnCompletedMessage(s) \/ OnServerRequest(s) => current' = current
    BY ZenonT(60) DEF OnTurnCompletedMessage, OnServerRequest
  <2>5. DiscoveryExits(s) \/ MainExits(s) => current' = current
    BY ZenonT(60) DEF DiscoveryExits, MainExits
  <2> QED BY <1>4, <2>1, <2>2, <2>3, <2>4, <2>5 DEF Child
<1> QED BY <1>3, <1>4

LEMMA EndKept ==
  ASSUME Inv, Inv', [Next]_vars, EndIsShown
  PROVE  EndIsShown'
<1>1. CASE UNCHANGED vars
  BY <1>1 DEF vars, EndIsShown
<1>2. CASE Start
  <2>1. alive' = alive /\ current' = lab.session + 1
    BY ZenonT(60), <1>2 DEF Start
  <2>2. /\ \A child \in alive : child[1] <= current
        /\ current' # 0 /\ ctx'[current'].conn # "none" =>
             <<current', ctx'[current'].conn>> \in alive'
    BY DEF Inv, InStep, ChildrenAreHeld, Conn
  <2>3. lab.session = current /\ current \in Nat
    BY Types
  <2>4. ctx'[current'].conn = "none"
    BY <2>1, <2>2, <2>3
  <2> QED BY <2>4 DEF EndIsShown
<1>3. CASE Stop
  <2>1. alive' = alive /\ current' = current
    BY ZenonT(60), <1>3 DEF Stop, rest
  <2>2. current \in Session
    BY <1>3, StopOperationMoves
  <2>3. CASE ctx[current].conn = "none"
    BY <2>1, <2>3, EndWithoutChild
  <2>4. CASE ctx[current].conn # "none" /\ ~Shown(lab)
    BY <1>3, <2>1, <2>2, <2>4, StopOperationMoves, EndStaysHidden
  <2>5. CASE ctx[current].conn # "none" /\ Shown(lab)
    BY <1>3, <2>1, <2>2, <2>5, ShownEarly, EndStops
  <2> QED BY <2>3, <2>4, <2>5
<1>4. CASE Decide
  <2>1. alive' = alive /\ current' = current
    BY ZenonT(60), <1>4 DEF Decide, rest
  <2>2. /\ current \in Session /\ lab.status = "awaiting-human"
        /\ lab'.child = lab.child /\ lab'.status # "stopped"
    BY <1>4, DecideLeaves DEF Becomes, Left
  <2>3. CASE ctx[current].conn = "none"
    BY <2>1, <2>3, EndWithoutChild
  <2>4. CASE ctx[current].conn # "none"
    <3>1. lab.child # "closed"
      BY <2>2, <2>4, Types DEF EndIsShown, Session
    <3> QED BY <2>1, <2>2, <3>1, EndHidden DEF Shown
  <2> QED BY <2>3, <2>4
<1>5. ASSUME NEW s \in Session, Scheduled(s) \/ Child(s) PROVE EndIsShown'
  <2>1. current' = current
    BY <1>5, CurrentStays
  <2>2. CASE s = current
    BY <1>5, <2>1, <2>2, EndOfCurrent
  <2>3. CASE s # current
    BY <1>5, <2>1, <2>3, EndOfEarlier
  <2> QED BY <2>2, <2>3
<1> QED BY <1>1, <1>2, <1>3, <1>4, <1>5 DEF Next

\* What the page announces, reads out and explains rests on the service's status, on
\* the child it takes for closed or not, and on the approval.
LEMMA ClaimsRest ==
  ASSUME NEW l \in Service, NEW claims, claims = Announced(l) \cup ReadOut(l) \cup Explained(l)
  PROVE  /\ \A outcome \in Outcome \cap claims :
              l.status \in {"finished", "failed", "interrupted"} /\ outcome = Ended(l.status)
         /\ "closed" \in claims => l.child = "closed" \/ l.status = "stopped"
         /\ "open" \in claims => l.child # "closed" /\ l.status \in {"finished", "failed", "interrupted"}
         /\ "not-begun" \in claims => l.status \in {"not-started", "stopped"}
         /\ "begun" \in claims => l.status = "running"
         /\ "replied" \in claims => l.approval.status \in {"sent", "decline"}
         /\ "asked" \in claims => l.status = "awaiting-human"
         /\ "safe" \in claims => l.status = "awaiting-human" /\ l.approval.safe
<1> DEFINE a == Announced(l)
           r == ReadOut(l)
           x == Explained(l)
           e == Ended(l.status)
           Words == {"asked", "safe", "replied", "closed", "open", "not-begun", "begun"}
           Rest(y) ==
             /\ y \subseteq Words \cup {e}
             /\ e \in y \ Words => l.status \in {"finished", "failed", "interrupted"}
             /\ "closed" \in y => l.child = "closed" \/ l.status = "stopped"
             /\ "open" \in y => l.child # "closed" /\ l.status \in {"finished", "failed", "interrupted"}
             /\ "not-begun" \in y => l.status \in {"not-started", "stopped"}
             /\ "begun" \in y => l.status = "running"
             /\ "replied" \in y => l.approval.status \in {"sent", "decline"}
             /\ "asked" \in y => l.status = "awaiting-human"
             /\ "safe" \in y => l.status = "awaiting-human" /\ l.approval.safe
<1>1. l.status \in Status /\ e \notin Words
  BY DEF Service, Status, Terminal, Ended
<1>2. Connection(l) \subseteq {"closed", "open"}
      /\ ("closed" \in Connection(l) => l.child = "closed")
      /\ ("open" \in Connection(l) => l.child # "closed")
  BY DEF Connection
<1>3. Rest(a)
  BY <1>1, <1>2 DEF Announced
<1>4. Rest(r)
  BY <1>1 DEF ReadOut, Outcome
<1>5. Rest(x)
  BY <1>1, <1>3 DEF Explained
<1>6. Outcome \cap Words = {}
  BY DEF Outcome
<1>7. claims = a \cup r \cup x
  OBVIOUS
<1> HIDE DEF a, r, x, e, Words
<1> QED BY <1>3, <1>4, <1>5, <1>6, <1>7 DEF e

LEMMA ClaimsFollow == Inv /\ EndIsShown /\ ReplyIsSent => ClaimsAreTrue
<1> SUFFICES ASSUME Inv, EndIsShown, ReplyIsSent PROVE ClaimsAreTrue
  OBVIOUS
<1> DEFINE s == lab.session
           claims == Announced(lab) \cup ReadOut(lab) \cup Explained(lab)
           c == ctx[s]
<1>1. /\ lab \in Service /\ s = current /\ current \in 0 .. MaxSessions
      /\ \A z \in Session : z > 0 /\ z \in Nat
      /\ s # 0 => s \in Session /\ c \in Context /\ Fits(s, c) /\ Knows(lab, c)
      /\ s = 0 => lab = InitialService
  BY Types DEF Inv, InStep, Session
<1>2. /\ \A outcome \in Outcome \cap claims :
           lab.status \in {"finished", "failed", "interrupted"} /\ outcome = Ended(lab.status)
      /\ "closed" \in claims => lab.child = "closed" \/ lab.status = "stopped"
      /\ "open" \in claims =>
           lab.child # "closed" /\ lab.status \in {"finished", "failed", "interrupted"}
      /\ "not-begun" \in claims => lab.status \in {"not-started", "stopped"}
      /\ "begun" \in claims => lab.status = "running"
      /\ "replied" \in claims => lab.approval.status \in {"sent", "decline"}
      /\ "asked" \in claims => lab.status = "awaiting-human"
      /\ "safe" \in claims => lab.status = "awaiting-human" /\ lab.approval.safe
  <2>1. claims = Announced(lab) \cup ReadOut(lab) \cup Explained(lab)
    OBVIOUS
  <2> HIDE DEF claims
  <2> QED BY <1>1, <2>1, ClaimsRest
<1>3. lab.status # "not-started" => s # 0
  BY <1>1 DEF InitialService
<1>4. s # 0 => lab.status # "not-started"
  BY <1>1 DEF Knows
<1> HIDE DEF claims
<1>5. ASSUME NEW outcome \in Outcome \cap claims PROVE outcome \in said[s]
  <2>1. /\ lab.status \in {"finished", "failed", "interrupted"} /\ outcome = Ended(lab.status)
        /\ lab.status = Reported(lab.turnStatus)
    BY <1>2 DEF Inv, OutcomeReported
  <2>2. lab.turnStatus = outcome
    BY <1>1, <2>1 DEF Ended, Reported, Service, Outcome
  <2> QED BY <2>2 DEF Inv, OutcomeReported
<1>6. ASSUME "closed" \in claims, lab.status \in Terminal \cup {"unknown"},
             NEW kind \in {"discovery", "main"}
      PROVE  <<s, kind>> \notin alive
  <2>1. s # 0 /\ lab.status # "starting"
    BY <1>3, <1>6 DEF Terminal
  <2>2. c.conn = "none"
    BY <1>1, <1>2, <1>6, <2>1 DEF EndIsShown
  <2>3. <<s, kind>> \in alive => c.conn = kind
    BY DEF Inv, InStep, ChildrenAreHeld
  <2> QED BY <2>2, <2>3
<1>7. ASSUME "open" \in claims PROVE <<s, "main">> \in alive
  <2>1. /\ s # 0 /\ lab.child # "closed" /\ lab.status \in Terminal \ {"stopped"}
        /\ lab.status = Reported(lab.turnStatus)
    BY <1>2, <1>3, <1>7 DEF Terminal, Inv, OutcomeReported
  <2>2. c.conn # "none"
    BY <1>1, <2>1 DEF Knows
  <2>3. c.completed
    <3>1. lab.turnStatus \in Outcome
      BY <1>1, <2>1 DEF Reported, Service, Outcome, Terminal
    <3> QED BY <1>1, <2>1, <3>1 DEF Knows
  <2>4. c.conn = "main"
    BY <1>1, <2>1, <2>2, <2>3 DEF Fits, Context
  <2> QED BY <1>1, <2>1, <2>4 DEF Inv, InStep, ChildrenAreHeld, Conn
<1>8. "not-begun" \in claims => s = 0 \/ ~ctx[s].attempted
  BY <1>2, <1>4 DEF Inv, StoppedMeansNoTurn
<1>9. "begun" \in claims => ctx[s].attempted
  BY <1>1, <1>2, <1>3 DEF Knows
<1>10. "replied" \in claims => answered[lab.approval.id] = 1
  BY <1>2 DEF ReplyIsSent
<1>11. "asked" \in claims => ctx[s].pending = lab.approval.id
  BY <1>1, <1>2, <1>3 DEF Knows, Inv, PendingIsHeld
<1>12. "safe" \in claims => ctx[s].safe
  BY <1>1, <1>2, <1>3 DEF Knows
<1> QED BY <1>5, <1>6, <1>7, <1>8, <1>9, <1>10, <1>11, <1>12 DEF ClaimsAreTrue, claims

-----------------------------------------------------------------------------
(* What the page says                                                      *)

\* The service, the sessions, their children and their requests are in step after
\* every step of the client, its timers and its children (codex-client.ts,
\* codex-service.ts): what ClientSafety and OutcomeStays follow from.
THEOREM ClientInvariant == Spec => []Inv
<1>1. Inv /\ [Next]_vars => Inv'
  BY NextKeeps
<1> QED BY <1>1, InitInv, PTL DEF Spec

\* With what the service says of the end of the child and of the answer that was sent.
LEMMA ToldInvariant == Spec => [](Inv /\ EndIsShown /\ ReplyIsSent)
<1>1. Init => EndIsShown /\ ReplyIsSent
  BY DEF Init, EndIsShown, ReplyIsSent, InitialService, NoApproval
<1>2. Inv /\ Inv' /\ [Next]_vars /\ EndIsShown /\ ReplyIsSent => (EndIsShown /\ ReplyIsSent)'
  BY EndKept, ReplyKept
<1> QED BY <1>1, <1>2, ClientInvariant, PTL DEF Spec

\* Two children would belong to one session, or to two of which the later does not
\* wait for the earlier.
LEMMA InvOneChild == Inv => OneChild
<1> SUFFICES ASSUME Inv PROVE OneChild
  OBVIOUS
<1>1. ASSUME NEW x \in alive, NEW y \in alive PROVE x = y
  <2>1. ASSUME NEW z \in alive
        PROVE  /\ z = <<z[1], ctx[z[1]].conn>> /\ z[1] \in Session /\ ctx[z[1]].conn # "none"
               /\ z[1] \in {current, current - 1}
               /\ z[1] # current => ctx[current].conn = "none"
    <3>1. /\ z = <<z[1], z[2]>> /\ z[1] \in Session /\ z[2] \in {"discovery", "main"}
      BY DEF Inv, TypeOK
    <3>2. /\ z[1] <= current /\ ctx[z[1]].conn = z[2]
          /\ z[1] < current => z[1] = current - 1 /\ ctx[current].blocked
      BY DEF Inv, InStep, ChildrenAreHeld
    <3>3. current # 0 /\ current \in Session
      BY <3>1, <3>2, Types DEF Session
    <3>4. ctx[current].blocked => ctx[current].conn = "none"
      BY <3>3 DEF Inv, InStep, Fits
    <3> QED BY <3>1, <3>2, <3>4, Types
  <2> QED BY <2>1
<1>2. CASE alive = {}
  BY <1>2, FS_EmptySet DEF OneChild
<1>3. CASE alive # {}
  <2>1. PICK x : alive = {x}
    BY <1>1, <1>3
  <2> QED BY <2>1, FS_Singleton DEF OneChild
<1> QED BY <1>2, <1>3

\* What the page says and what the child did agree, for any number of sessions,
\* turns and requests: no outcome is made up, no task that was begun is called
\* stopped, there is one child at a time, and each of its requests is answered at
\* most once (codex-client.ts, codex-service.ts).
THEOREM ClientSafety == Spec => []ClientInv
<1>1. Inv /\ EndIsShown /\ ReplyIsSent => ClientInv
  BY InvOneChild DEF Inv, ClientInv
<1> QED BY <1>1, ToldInvariant, PTL

\* Whatever the page announces, reads out and explains of the task is true of it.
THEOREM ClaimsHold == Spec => []ClaimsAreTrue
BY ClaimsFollow, ToldInvariant, PTL

\* A child tells one outcome.
SaidOnce == \A s \in Session : \A x, y \in said[s] : x = y

LEMMA SaidSteps ==
  ASSUME Inv, Next
  PROVE  \/ said' = said
         \/ \E s \in Session, outcome \in Outcome :
              said[s] \subseteq {outcome} /\ said' = [said EXCEPT ![s] = {outcome}]
<1>1. ASSUME NEW s \in Session, TurnAnswered(s)
      PROVE  \/ said' = said
             \/ \E outcome \in Outcome :
                  said[s] \subseteq {outcome} /\ said' = [said EXCEPT ![s] = {outcome}]
  <2>1. PICK outcome \in Outcome \cup {"inProgress"} :
          /\ outcome \in Outcome => said[s] \subseteq {outcome}
          /\ said' = [said EXCEPT ![s] = @ \cup ({outcome} \cap Outcome)]
    BY ZenonT(60), <1>1 DEF TurnAnswered
  <2>2. CASE outcome \in Outcome
    <3>1. said[s] \cup ({outcome} \cap Outcome) = {outcome}
      BY <2>1, <2>2
    <3> QED BY <2>1, <2>2, <3>1
  <2>3. CASE outcome \notin Outcome
    <3>1. said[s] \cup ({outcome} \cap Outcome) = said[s]
      BY <2>3
    <3> QED BY <2>1, <3>1, Types
  <2> QED BY <2>2, <2>3
<1>2. ASSUME NEW s \in Session, OnTurnCompletedMessage(s)
      PROVE  \E outcome \in Outcome :
               said[s] \subseteq {outcome} /\ said' = [said EXCEPT ![s] = {outcome}]
  BY <1>2 DEF OnTurnCompletedMessage
<1>3. ASSUME NEW s \in Session, Scheduled(s), ~TurnAnswered(s) PROVE said' = said
  <2>1. CASE RunGoesOn(s)
    BY ZenonT(60), <1>3, <2>1 DEF RunGoesOn, PreviousClosed, Discovered, DiscoveryClosed, Connected,
       Configured, ThreadStarted, RequestRejected, TurnEnded, StartupStopFinished, rest
  <2>2. CASE StopGoesOn(s)
    BY ZenonT(60), <2>2 DEF StopGoesOn, StopPreviousClosed, StopInterrupted, StopClosed, rest
  <2> QED BY <1>3, <2>1, <2>2 DEF Scheduled, CloseEnds, FilesWritten, DiscoveryStuck,
             TurnTimesOut, RequestTimesOut, StopCleanedUp, InterruptTimesOut, CloseFails, rest
<1>4. ASSUME NEW s \in Session, Child(s), ~OnTurnCompletedMessage(s) PROVE said' = said
  BY ZenonT(60), <1>4 DEF Child, Answered, InterruptAnswered, DiscoveryExits, MainExits, ConnectionFails,
     OnTurnStarted, OnItem, OnUnexpected, OnResolved, OnServerRequest, rest
<1>5. CASE Start \/ Stop \/ Decide
  BY <1>5 DEF Start, Stop, Decide, rest
<1> QED BY <1>1, <1>2, <1>3, <1>4, <1>5 DEF Next

\* How a task ended is not taken back, by late notifications, failures of the
\* connection or the end of the child.
THEOREM OutcomeStays == Spec => OutcomeKept
<1> DEFINE Kept == lab.turnStatus \in Outcome /\ lab'.session = lab.session =>
                     lab'.turnStatus = lab.turnStatus
<1>1. Init => SaidOnce
  BY DEF Init, SaidOnce
<1>2. ASSUME Inv, SaidOnce, [Next]_vars
      PROVE  SaidOnce' /\ \A s \in Session : said[s] \subseteq said'[s]
  <2>1. CASE said' = said
    BY <1>2, <2>1 DEF SaidOnce
  <2>2. ASSUME NEW s \in Session, NEW outcome \in Outcome, said[s] \subseteq {outcome},
               said' = [said EXCEPT ![s] = {outcome}]
        PROVE  SaidOnce' /\ \A t \in Session : said[t] \subseteq said'[t]
    <3>1. \A t \in Session : said'[t] = IF t = s THEN {outcome} ELSE said[t]
      BY <1>2, <2>2, Types
    <3> QED BY <1>2, <2>2, <3>1 DEF SaidOnce
  <2> QED BY <1>2, <2>1, <2>2, SaidSteps DEF vars
<1>3. ASSUME Inv, Inv', SaidOnce, [Next]_vars PROVE [Kept]_vars
  <2> SUFFICES ASSUME lab.turnStatus \in Outcome, lab'.session = lab.session
               PROVE  lab'.turnStatus = lab.turnStatus
    OBVIOUS
  <2>1. current' = current /\ lab.session = current
    BY <1>3 DEF Inv, InStep
  <2>2. current # 0 /\ current \in Session /\ lab.turnStatus \in said[current]
    BY <1>3, <2>1, Types DEF Inv, OutcomeReported, Session
  <2>3. ctx[current].completed
    BY <1>3, <2>2 DEF Inv, InStep, Knows
  <2>4. ctx'[current].completed
    BY <1>3, <2>2, <2>3, NextKeeps DEF CompletedStay
  <2>5. lab'.turnStatus \in Outcome
    BY <1>3, <2>1, <2>2, <2>4 DEF Inv, InStep, Knows
  <2>6. lab'.turnStatus \in said'[current]
    BY <1>3, <2>1, <2>5 DEF Inv, OutcomeReported
  <2> QED BY <1>2, <1>3, <2>2, <2>6 DEF SaidOnce
<1> QED BY <1>1, <1>2, <1>3, ClientInvariant, PTL DEF Spec, OutcomeKept
=============================================================================
