----------------------------- MODULE CodexClient -----------------------------
(***************************************************************************)
(* apps/companion-lab/src/codex-client.ts with the service that uses it:   *)
(* each session runs a discovery child, then a main child, and talks to    *)
(* it over pipes.  Three routines of a session overlap at their awaits:    *)
(* its run, the stops that were asked for, and the closing of its child.   *)
(*                                                                         *)
(* An action is a callback up to its next await.  An await that is due     *)
(* goes on before the next timer, operation or system event; only messages *)
(* that arrive in the same chunk as an answer come in between.             *)
(***************************************************************************)
EXTENDS LabText, FiniteSets

CONSTANTS MaxSessions, MaxRequests   \* bounds

ASSUME BoundsAssumption ==
  /\ MaxSessions \in Nat /\ MaxRequests \in Nat
  /\ NoTurn \notin Turns

VARIABLES
  lab,       \* the service
  current,   \* the session of the current RunContext, or 0
  ctx,       \* the RunContexts, by session
  alive,     \* children whose close event has not come: <<session, kind>>
  failed,    \* those of them whose connection has failed
  requested, \* approval requests that were received
  answered,  \* how often each has been answered
  said       \* the outcome that each session's own child has told, if any

vars == <<lab, current, ctx, alive, failed, requested, answered, said>>

Session == 1 .. MaxSessions
Request == 1 .. MaxRequests

\* The awaits of run, and those of stopContext.
RpcStage == {"discovery", "connect", "config", "thread", "turn"}
RunStage == RpcStage \cup
  {"none", "previous", "files", "closing", "wait", "drain", "finish", "done"}
StopStage == {"previous", "cleanup", "interrupt", "refused", "turn", "closing"}

\* `reply` is that of the request run awaits.  `stops` are the stopContexts
\* under way and `asked` says that context.closing is set.  `close` is
\* context.childClosing: null, pending, resolved to true, or null again after
\* it resolved to false.
Context ==
  [run : RunStage, reply : {"waiting", "ok", "error"}, conn : {"none", "discovery", "main"},
   stopped : BOOLEAN, emitted : BOOLEAN, attempted : BOOLEAN, started : BOOLEAN,
   completed : BOOLEAN, ended : BOOLEAN, turn : Turns \cup {NoTurn},
   blocked : BOOLEAN, pending : 0 .. MaxRequests, safe : BOOLEAN,
   stops : SUBSET StopStage, asked : BOOLEAN,
   close : {"null", "wait", "true", "false"}, expectedClose : BOOLEAN, fatal : BOOLEAN]

\* createRunContext
NewContext ==
  [run |-> "none", reply |-> "waiting", conn |-> "none",
   stopped |-> FALSE, emitted |-> FALSE, attempted |-> FALSE, started |-> FALSE,
   completed |-> FALSE, ended |-> FALSE, turn |-> NoTurn,
   blocked |-> FALSE, pending |-> 0, safe |-> FALSE,
   stops |-> {}, asked |-> FALSE,
   close |-> "null", expectedClose |-> FALSE, fatal |-> FALSE]

Conn(c, s) == <<s, c[s].conn>>

\* `send` fails on a connection that is closed or has failed, and may fail on
\* one whose child is about to go.
Sends(s) ==
  IF Conn(ctx, s) \in alive \ failed THEN BOOLEAN ELSE {FALSE}

-----------------------------------------------------------------------------
(* Methods, as operators on what they may change: the service, the         *)
(* contexts and the answers that were sent.                                *)

Now == [lab |-> lab, ctx |-> ctx, answered |-> answered]
Becomes(w) == lab' = w.lab /\ ctx' = w.ctx /\ answered' = w.answered

Observe(w, s, o) ==
  IF w.lab.session = s THEN [w EXCEPT !.lab = Observed(@, o)] ELSE w

Answer(w, r) == [w EXCEPT !.answered[r] = @ + 1]

EmitStartupStopped(w, s) ==
  IF w.ctx[s].emitted THEN w
  ELSE Observe([w EXCEPT !.ctx[s].emitted = TRUE], s, Plain("startup-stopped"))

\* cancelPendingApprovals; `sent` says whether the answer could be sent.
CancelPending(w, s, sent) ==
  LET r == w.ctx[s].pending
      v == [w EXCEPT !.ctx[s].pending = 0, !.ctx[s].safe = FALSE]
  IN CASE r = 0 -> w
       [] r # 0 /\ sent -> Observe(Answer(v, r), s, ResponseSent(r, "cancel"))
       [] OTHER -> Observe(v, s, Revoked(r))

\* revokeAllApprovals
RevokeAll(w, s) == CancelPending(w, s, FALSE)

\* closeContext, to its await.
CloseContext(w, s) ==
  LET c == w.ctx[s] IN
  CASE c.close \in {"wait", "true"} -> w
    [] c.close \notin {"wait", "true"} /\ c.conn = "none" ->
         [w EXCEPT !.ctx[s].close = "true", !.ctx[s].expectedClose = TRUE]
    [] OTHER ->
         Observe([w EXCEPT !.ctx[s].close = "wait", !.ctx[s].expectedClose = TRUE],
                 s, ChildIs("closing"))

\* failContext
FailContext(w, s) ==
  IF w.ctx[s].fatal \/ (w.ctx[s].conn # "none" /\ Conn(w.ctx, s) \notin alive)
  THEN w
  ELSE LET v == RevokeAll([w EXCEPT !.ctx[s].fatal = TRUE, !.ctx[s].stopped = TRUE], s)
       IN CloseContext(Observe(v, s, Plain("protocol-failure")), s)

\* run goes on to its next await.
At(w, s, stage) == [w EXCEPT !.ctx[s].run = stage, !.ctx[s].reply = "waiting"]

\* The catch of start: run has thrown.
Throw(w, s) ==
  LET c == w.ctx[s]
      v == At(w, s, "done")
  IN CloseContext(
       IF c.stopped \/ c.fatal \/ current # s THEN v
       ELSE Observe(Observe([v EXCEPT !.ctx[s].fatal = TRUE], s,
                            Plain("protocol-failure")), s, ChildIs("unknown")),
       s)

\* onTurnCompleted
OnTurnCompleted(w, s, t, outcome, sent) ==
  LET c == w.ctx[s] IN
  IF c.turn \notin {NoTurn, t} \/ c.completed THEN w
  ELSE Observe([CancelPending(w, s, sent) EXCEPT !.ctx[s].completed = TRUE,
                                                 !.ctx[s].ended = TRUE],
               s, TurnCompleted(t, outcome))

\* stopContext, to its first await.
StopContext(w, s, sent) ==
  LET c == w.ctx[s]
      v == CancelPending([w EXCEPT !.ctx[s].asked = TRUE], s, sent)
      Then(u, stage) == [u EXCEPT !.ctx[s].stops = @ \cup {stage}]
  IN CASE c.asked -> w
       [] ~c.asked /\ c.conn = "none" /\ c.blocked ->
            CloseContext(Then(v, "previous"), s - 1)
       [] ~c.asked /\ c.conn = "none" /\ ~c.blocked /\ ~c.attempted -> Then(v, "cleanup")
       [] ~c.asked /\ c.conn = "none" /\ ~c.blocked /\ c.attempted ->
            Observe(v, s, Plain("stop-unconfirmed"))
       [] ~c.asked /\ c.conn # "none" /\ c.started /\ ~c.completed ->
            Observe(Then(v, "interrupt"), s, ChildIs("closing"))
       [] ~c.asked /\ c.conn # "none" /\ ~c.started /\ c.attempted /\ ~c.completed ->
            CloseContext(Observe(Then(v, "closing"), s, Plain("stop-unconfirmed")), s)
       [] OTHER -> CloseContext(Then(v, "closing"), s)

-----------------------------------------------------------------------------
(* Awaits that are due.                                                    *)

RunDue(s) ==
  LET c == ctx[s] IN
  \/ c.run \in RpcStage /\ c.reply # "waiting"
  \/ c.run = "previous" /\ ctx[s - 1].close \in {"true", "false"}
  \/ c.run = "closing" /\ <<s, "discovery">> \notin alive
  \/ c.run \in {"wait", "drain"} /\ c.ended
  \/ c.run = "finish" /\ c.close \in {"true", "false"}

StopDue(s) ==
  LET c == ctx[s] IN
  \/ "previous" \in c.stops /\ ctx[s - 1].close \in {"true", "false"}
  \/ "refused" \in c.stops
  \/ "turn" \in c.stops /\ c.ended
  \/ "closing" \in c.stops /\ c.close \in {"true", "false"}

CloseDue(s) == ctx[s].close = "wait" /\ \A k \in {"discovery", "main"} : <<s, k>> \notin alive

Idle == \A s \in Session : ~RunDue(s) /\ ~StopDue(s) /\ ~CloseDue(s)

\* A message of the session's child may be handled now.
Chunk(s) == Idle \/ (ctx[s].run \in RpcStage /\ ctx[s].reply = "ok")

-----------------------------------------------------------------------------
(* run                                                                     *)

rest == <<current, alive, failed, requested, said>>

\* Ends with the session's child being closed (finishStartupStop), or goes on
\* to the stage.
Unless(w, s, stopped, stage) ==
  IF stopped THEN CloseContext(At(w, s, "finish"), s) ELSE At(w, s, stage)

MutPreviousClosed(s) ==
  /\ ctx[s].run = "previous" /\ RunDue(s)
  /\ LET unblocked == [Now EXCEPT !.ctx[s].blocked = FALSE] IN
     Becomes(IF ctx[s].stopped THEN EmitStartupStopped(At(unblocked, s, "done"), s)
             ELSE At(unblocked, s, "files"))
  /\ UNCHANGED rest
PreviousClosed(s) ==
  /\ ctx[s].run = "previous" /\ RunDue(s)
  /\ LET unblocked == [Now EXCEPT !.ctx[s].blocked = FALSE] IN
     IF ctx[s - 1].close = "false"
     THEN Becomes(Observe(Observe(At(Now, s, "done"), s, Plain("protocol-failure")), s,
                          ChildIs("unknown")))
     ELSE IF ctx[s].stopped
     THEN Becomes(EmitStartupStopped(At(unblocked, s, "done"), s))
     ELSE Becomes(At(unblocked, s, "files"))
  /\ UNCHANGED rest

\* The sample is written, or cannot be.
FilesWritten(s) ==
  /\ Idle /\ ctx[s].run = "files"
  /\ \/ Becomes(Throw(Now, s)) /\ UNCHANGED alive
     \/ /\ ctx[s].stopped
        /\ Becomes(EmitStartupStopped(At(Now, s, "done"), s))
        /\ UNCHANGED alive
     \/ /\ ~ctx[s].stopped
        /\ Becomes([At(Now, s, "discovery") EXCEPT !.ctx[s].conn = "discovery"])
        /\ alive' = alive \cup {<<s, "discovery">>}
  /\ UNCHANGED <<current, failed, requested, said>>

Discovered(s) ==
  /\ ctx[s].run = "discovery" /\ ctx[s].reply = "ok"
  /\ IF ctx[s].stopped THEN Becomes(Unless(Now, s, TRUE, "finish"))
     ELSE Becomes([At(Now, s, "closing") EXCEPT !.ctx[s].expectedClose = TRUE])
  /\ UNCHANGED rest

\* The discovery child has closed, and the main one is spawned.
DiscoveryClosed(s) ==
  /\ ctx[s].run = "closing" /\ RunDue(s)
  /\ LET c == ctx[s]
         v == [Now EXCEPT
                 !.ctx[s].expectedClose = @ /\ (c.stopped \/ c.fatal),
                 !.ctx[s].conn = IF @ = "discovery" THEN "none" ELSE @]
     IN IF c.stopped THEN Becomes(Throw(v, s)) /\ UNCHANGED alive
        ELSE /\ Becomes([Unless(v, s, FALSE, "connect") EXCEPT !.ctx[s].conn = "main"])
             /\ alive' = alive \cup {<<s, "main">>}
  /\ UNCHANGED <<current, failed, requested, said>>

DiscoveryStuck(s) ==
  /\ Idle /\ ctx[s].run = "closing"
  /\ Becomes(Throw(Now, s))
  /\ UNCHANGED rest

Connected(s) ==
  /\ ctx[s].run = "connect" /\ ctx[s].reply = "ok"
  /\ LET v == IF ctx[s].stopped THEN Now ELSE Observe(Now, s, ChildIs("running"))
     IN Becomes(Unless(v, s, ctx[s].stopped, "config"))
  /\ UNCHANGED rest

Configured(s) ==
  /\ ctx[s].run = "config" /\ ctx[s].reply = "ok"
  /\ Becomes(Unless(Now, s, ctx[s].stopped, "thread"))
  /\ UNCHANGED rest

ThreadStarted(s) ==
  /\ ctx[s].run = "thread" /\ ctx[s].reply = "ok"
  /\ LET v == Observe(Now, s, Plain("thread-started"))
     IN Becomes([Unless(v, s, ctx[s].stopped, "turn") EXCEPT
                   !.ctx[s].attempted = ~ctx[s].stopped])
  /\ UNCHANGED rest

\* The answer to turn/start tells the turn, and that it is in progress or over.
TurnAnswered(s) ==
  /\ ctx[s].run = "turn" /\ ctx[s].reply = "ok"
  /\ \E t \in Turns, outcome \in Outcome \cup {"inProgress"}, sent \in Sends(s) :
       LET c == ctx[s]
           v == [Now EXCEPT !.ctx[s].turn = t, !.ctx[s].started = TRUE]
           u == IF c.started \/ c.stopped \/ c.completed THEN v
                ELSE Observe(v, s, TurnStarted(t))
           w == IF outcome = "inProgress" THEN u
                ELSE OnTurnCompleted(u, s, t, outcome, sent)
       IN /\ IF c.turn \notin {NoTurn, t} THEN Becomes(Throw(Now, s))
             ELSE Becomes(At(w, s, IF w.ctx[s].completed THEN "done"
                                   ELSE IF c.stopped THEN "drain" ELSE "wait"))
          /\ outcome \in Outcome => said[s] \subseteq {outcome}
          /\ said' = [said EXCEPT ![s] = @ \cup ({outcome} \cap Outcome)]
  /\ UNCHANGED <<current, alive, failed, requested>>

RequestRejected(s) ==
  /\ ctx[s].run \in RpcStage /\ ctx[s].reply = "error"
  /\ Becomes(Throw(Now, s))
  /\ UNCHANGED rest

TurnEnded(s) ==
  /\ ctx[s].run \in {"wait", "drain"} /\ RunDue(s)
  /\ Becomes(At(Now, s, "done"))
  /\ UNCHANGED rest

TurnTimesOut(s) ==
  /\ Idle /\ ctx[s].run = "wait"
  /\ Becomes(Throw(Now, s))
  /\ UNCHANGED rest

StartupStopFinished(s) ==
  /\ ctx[s].run = "finish" /\ RunDue(s)
  /\ LET v == At(Now, s, "done") IN
     IF ctx[s].close = "true" THEN Becomes(EmitStartupStopped(v, s))
     ELSE Becomes(Observe(v, s, Plain("stop-unconfirmed")))
  /\ UNCHANGED rest

RunGoesOn(s) ==
  \/ PreviousClosed(s) \/ Discovered(s) \/ DiscoveryClosed(s)
  \/ Connected(s) \/ Configured(s) \/ ThreadStarted(s) \/ TurnAnswered(s)
  \/ RequestRejected(s) \/ TurnEnded(s) \/ StartupStopFinished(s)

-----------------------------------------------------------------------------
(* stopContext, after its first await.                                     *)

Leave(w, s, stage) == [w EXCEPT !.ctx[s].stops = @ \ {stage}]

StopPreviousClosed(s) ==
  /\ "previous" \in ctx[s].stops /\ ctx[s - 1].close \in {"true", "false"}
  /\ LET v == Leave(Now, s, "previous")
         u == Observe([v EXCEPT !.ctx[s].blocked = FALSE], s, ChildClosed(TRUE))
     IN Becomes(IF ctx[s - 1].close = "false" THEN Observe(v, s, Plain("stop-unconfirmed"))
                ELSE IF ctx[s].attempted THEN u
                ELSE EmitStartupStopped(u, s))
  /\ UNCHANGED rest

StopCleanedUp(s) ==
  /\ Idle /\ "cleanup" \in ctx[s].stops
  /\ Becomes(EmitStartupStopped(Leave(Now, s, "cleanup"), s))
  /\ UNCHANGED rest

\* The interrupt is refused, or the turn has ended.
StopInterrupted(s) ==
  /\ \E stage \in {"refused", "turn"} :
       /\ stage \in ctx[s].stops
       /\ stage = "turn" => ctx[s].ended
       /\ LET v == [Leave(Now, s, stage) EXCEPT !.ctx[s].stops = @ \cup {"closing"}] IN
          Becomes(CloseContext(
            IF stage = "turn" \/ ctx[s].completed THEN v
            ELSE Observe(v, s, Plain("stop-unconfirmed")), s))
  /\ UNCHANGED rest

MutStopClosed(s) ==
  /\ "closing" \in ctx[s].stops /\ ctx[s].close \in {"true", "false"}
  /\ LET v == Leave(Now, s, "closing") IN
     Becomes(IF ctx[s].close = "true" THEN EmitStartupStopped(v, s)
             ELSE Observe(v, s, Plain("stop-unconfirmed")))
  /\ UNCHANGED rest
StopClosed(s) ==
  /\ "closing" \in ctx[s].stops /\ ctx[s].close \in {"true", "false"}
  /\ LET v == Leave(Now, s, "closing") IN
     Becomes(IF ctx[s].attempted THEN v
             ELSE IF ctx[s].close = "true" THEN EmitStartupStopped(v, s)
             ELSE Observe(v, s, Plain("stop-unconfirmed")))
  /\ UNCHANGED rest

MutInterruptTimesOut(s) ==
  /\ Idle /\ "interrupt" \in ctx[s].stops
  /\ Becomes([Leave(Now, s, "interrupt") EXCEPT !.ctx[s].stops = @ \cup {"refused"}])
  /\ UNCHANGED rest
\* The time for the answer to turn/interrupt, or for the turn to end, is over.
InterruptTimesOut(s) ==
  /\ Idle
  /\ \E stage \in ctx[s].stops \cap {"interrupt", "turn"} :
       Becomes([Leave(Now, s, stage) EXCEPT !.ctx[s].stops = @ \cup {"refused"}])
  /\ UNCHANGED rest

StopGoesOn(s) == StopPreviousClosed(s) \/ StopInterrupted(s) \/ StopClosed(s)

-----------------------------------------------------------------------------
(* closeContext, after its await.                                          *)

CloseEnds(s) ==
  /\ CloseDue(s)
  /\ Becomes([Now EXCEPT !.ctx[s].close = "true",
                         !.ctx[s].conn = IF current = s THEN "none" ELSE @])
  /\ UNCHANGED rest

\* The child has outlived SIGKILL.
CloseFails(s) ==
  /\ Idle /\ ctx[s].close = "wait"
  /\ Becomes(Observe([Now EXCEPT !.ctx[s].close = "false"], s, Plain("protocol-failure")))
  /\ UNCHANGED rest

-----------------------------------------------------------------------------
(* The connection.                                                         *)

\* failPending
Rejected(w, s) ==
  [w EXCEPT
     !.ctx[s].reply = IF @ = "waiting" THEN "error" ELSE @,
     !.ctx[s].stops = IF "interrupt" \in @
                      THEN (@ \ {"interrupt"}) \cup {"refused"} ELSE @]

Answered(s) ==
  /\ Chunk(s) /\ ctx[s].run \in RpcStage /\ ctx[s].reply = "waiting"
  /\ Conn(ctx, s) \in alive \ failed
  /\ \E reply \in {"ok", "error"} : Becomes([Now EXCEPT !.ctx[s].reply = reply])
  /\ UNCHANGED rest

RequestTimesOut(s) ==
  /\ Idle /\ ctx[s].run \in RpcStage
  /\ Becomes([Now EXCEPT !.ctx[s].reply = "error"])
  /\ UNCHANGED rest

InterruptAnswered(s) ==
  /\ Chunk(s) /\ "interrupt" \in ctx[s].stops /\ Conn(ctx, s) \in alive \ failed
  /\ \E stage \in {"turn", "refused"} :
       Becomes([Leave(Now, s, "interrupt") EXCEPT !.ctx[s].stops = @ \cup {stage}])
  /\ UNCHANGED rest

\* A line is malformed, answers nothing that is pending (as an answer does
\* that comes after its time), or the pipe or the process reports an error.
ConnectionFails(s, kind) ==
  /\ Chunk(s) /\ <<s, kind>> \in alive \ failed
  /\ failed' = failed \cup {<<s, kind>>}
  /\ Becomes(FailContext(Rejected(Now, s), s))
  /\ UNCHANGED <<current, alive, requested, said>>

\* The close event of the discovery child.
DiscoveryExits(s) ==
  /\ Idle /\ <<s, "discovery">> \in alive
  /\ alive' = alive \ {<<s, "discovery">>} /\ failed' = failed \ {<<s, "discovery">>}
  /\ LET c == ctx[s]
         u == Rejected(Now, s)
         v == [u EXCEPT !.ctx[s].conn = IF current = s /\ @ = "discovery" THEN "none" ELSE @]
     IN Becomes(
          IF ~(c.stopped \/ c.expectedClose \/ c.fatal)
          THEN Observe(Observe([v EXCEPT !.ctx[s].fatal = TRUE, !.ctx[s].ended = TRUE],
                               s, ChildClosed(FALSE)), s, Plain("protocol-failure"))
          ELSE IF c.stopped \/ c.fatal
          THEN Observe([v EXCEPT !.ctx[s].ended = TRUE], s, ChildClosed(TRUE))
          ELSE v)
  /\ UNCHANGED <<current, requested, said>>

\* onChildClosed: the close event of the main child, of which the session that
\* waits for it is told too.
MainExits(s) ==
  /\ Idle /\ <<s, "main">> \in alive
  /\ alive' = alive \ {<<s, "main">>} /\ failed' = failed \ {<<s, "main">>}
  /\ LET c == ctx[s]
         expected == c.stopped \/ c.expectedClose
         told == Observe(CancelPending(Rejected(Now, s), s, FALSE), s, ChildClosed(expected))
         v == IF expected \/ c.completed \/ c.fatal THEN told
              ELSE Observe([told EXCEPT !.ctx[s].fatal = TRUE], s, Plain("protocol-failure"))
         u == [v EXCEPT !.ctx[s].ended = TRUE,
                        !.ctx[s].conn = IF current = s THEN "none" ELSE @]
     IN Becomes(
          IF current = s + 1 /\ ctx[current].blocked
          THEN Observe([u EXCEPT !.ctx[current].blocked = FALSE], current,
                       ChildClosed(expected))
          ELSE u)
  /\ UNCHANGED <<current, requested, said>>

-----------------------------------------------------------------------------
(* Messages of the main child.  It speaks of turns once one was asked for, *)
(* and tells one outcome.                                                  *)

Hears(s) ==
  /\ Chunk(s) /\ <<s, "main">> \in alive
  /\ current = s /\ (ctx[s].stopped => ctx[s].turn # NoTurn)

InTurn(s, t) == ctx[s].attempted /\ ctx[s].turn \in {NoTurn, t}

OnTurnStarted(s) ==
  /\ Hears(s) /\ ctx[s].attempted
  /\ ~ctx[s].stopped /\ ~ctx[s].completed /\ ctx[s].turn = NoTurn
  /\ \E t \in Turns :
       Becomes(Observe([Now EXCEPT !.ctx[s].turn = t, !.ctx[s].started = TRUE],
                       s, TurnStarted(t)))
  /\ UNCHANGED rest

\* An item starts or completes; one that is not read-only is a failure.
OnItem(s) ==
  /\ Hears(s)
  /\ \E t \in Turns : InTurn(s, t) /\
       \/ \E o \in {ItemSeen(t), CommandCompleted(t)} : Becomes(Observe(Now, s, o))
       \/ Becomes(CloseContext(Observe(Now, s, Plain("protocol-failure")), s))
  /\ UNCHANGED rest

\* A notification or an item that the task has no place for, the end of its
\* thread, or a message that is not well-formed.
OnUnexpected(s) ==
  /\ Hears(s)
  /\ Becomes(FailContext(Now, s))
  /\ UNCHANGED rest

OnTurnCompletedMessage(s) ==
  /\ Hears(s) /\ ctx[s].attempted
  /\ \E t \in Turns, outcome \in Outcome, sent \in Sends(s) :
       /\ said[s] \subseteq {outcome}
       /\ Becomes(OnTurnCompleted(Now, s, t, outcome, sent))
       /\ said' = [said EXCEPT ![s] = {outcome}]
  /\ UNCHANGED <<current, alive, failed, requested>>

\* The child has settled its request by itself.
OnResolved(s) ==
  /\ Hears(s) /\ ctx[s].pending # 0
  /\ Becomes(RevokeAll(Now, s))
  /\ UNCHANGED rest

OnServerRequest(s) ==
  /\ Hears(s)
  /\ \/ /\ Becomes(Observe(Now, s, Plain("unsupported-request")))
        /\ UNCHANGED requested
     \/ /\ ctx[s].attempted /\ requested < MaxRequests
        /\ requested' = requested + 1
        /\ LET c == ctx[s] IN
           \E t \in Turns, safe \in BOOLEAN, sent \in Sends(s) :
             LET cancelled == IF sent THEN Answer(Now, requested') ELSE Now IN
             \/ /\ c.stopped \/ c.completed \/ ~c.started \/ c.turn # t
                /\ Becomes(cancelled)
             \/ /\ ~c.stopped /\ ~c.completed /\ c.started /\ c.turn = t
                /\ c.pending # 0
                /\ Becomes(Observe(cancelled, s, Plain("unsupported-request")))
             \/ /\ ~c.stopped /\ ~c.completed /\ c.started /\ c.turn = t
                /\ c.pending = 0
                /\ LET v == [Now EXCEPT !.ctx[s].pending = requested', !.ctx[s].safe = safe]
                   IN Becomes(IF lab.session # s THEN v
                              ELSE [v EXCEPT !.lab = Asked(@, requested', t, safe)])
  /\ UNCHANGED <<current, alive, failed, said>>

-----------------------------------------------------------------------------
(* The operations of the service.                                          *)

Start ==
  /\ Idle /\ MayStart(lab) /\ lab.session < MaxSessions
  /\ LET s == lab.session + 1
         v == [Now EXCEPT !.lab = Started(lab),
                          !.ctx[s].blocked = current # 0,
                          !.ctx[s].run = IF current = 0 THEN "files" ELSE "previous"]
         u == Observe(v, s, ChildIs("starting"))
     IN /\ current' = s
        /\ Becomes(IF current = 0 THEN u ELSE CloseContext(u, current))
  /\ UNCHANGED <<alive, failed, requested, said>>

\* A child that a stop may ask to close once more.
Closable(s) == Conn(ctx, s) \in alive /\ ctx[s].close \in {"null", "false"}

Stop ==
  /\ Idle /\ MayStop(lab)
  /\ LET s == current
         c == ctx[s]
         v == [Now EXCEPT !.lab = StopAsked(lab)]
     IN \E sent \in Sends(s) :
          \/ /\ ~c.stopped
             /\ Becomes(StopContext([v EXCEPT !.ctx[s].stopped = TRUE], s, sent))
          \/ /\ c.stopped /\ (Closable(s) \/ (c.blocked /\ Closable(s - 1)))
             /\ Becomes(StopContext([v EXCEPT !.ctx[s].asked = FALSE], s, sent))
          \/ /\ c.stopped /\ ~(Closable(s) \/ (c.blocked /\ Closable(s - 1)))
             /\ Becomes(IF c.asked \/ c.close \in {"wait", "true"} THEN v
                        ELSE [v EXCEPT !.lab = StopTargetLost(@)])
  /\ UNCHANGED rest

\* decideFromHuman and respond
Decide ==
  /\ Idle
  /\ \E approve \in BOOLEAN :
       /\ MayDecide(lab, approve)
       /\ LET s == current
              c == ctx[s]
              r == lab.approval.id
              v == Answer([Now EXCEPT !.ctx[s].pending = 0, !.ctx[s].safe = FALSE], r)
              decision == IF approve THEN "accept" ELSE "decline"
          IN \E sent \in Sends(s) :
               IF c.pending = r /\ (approve => c.safe) /\ sent
               THEN Becomes([Observe(v, s, ResponseSent(r, decision)) EXCEPT
                               !.lab = DecisionSent(@, decision)])
               ELSE Becomes([Now EXCEPT !.lab = DecisionLost(@)])
  /\ UNCHANGED rest

-----------------------------------------------------------------------------

Init ==
  /\ lab = InitialService
  /\ current = 0
  /\ ctx = [s \in Session |-> NewContext]
  /\ alive = {} /\ failed = {}
  /\ requested = 0
  /\ answered = [r \in Request |-> 0]
  /\ said = [s \in Session |-> {}]

\* Callbacks that are due, and timers.
Scheduled(s) ==
  \/ RunGoesOn(s) \/ StopGoesOn(s) \/ CloseEnds(s)
  \/ FilesWritten(s) \/ DiscoveryStuck(s) \/ TurnTimesOut(s) \/ RequestTimesOut(s)
  \/ StopCleanedUp(s) \/ InterruptTimesOut(s) \/ CloseFails(s)

Child(s) ==
  \/ Answered(s) \/ InterruptAnswered(s) \/ DiscoveryExits(s) \/ MainExits(s)
  \/ \E kind \in {"discovery", "main"} : ConnectionFails(s, kind)
  \/ OnTurnStarted(s) \/ OnItem(s) \/ OnUnexpected(s) \/ OnTurnCompletedMessage(s)
  \/ OnResolved(s) \/ OnServerRequest(s)

Next == Start \/ Stop \/ Decide \/ \E s \in Session : Scheduled(s) \/ Child(s)

Spec == Init /\ [][Next]_vars

FairSpec == Spec /\ \A s \in Session : WF_vars(Scheduled(s))

-----------------------------------------------------------------------------

\* Types of the variables.
TypeOK ==
  /\ lab \in Service /\ current \in 0 .. MaxSessions
  /\ ctx \in [Session -> Context]
  /\ alive \subseteq Session \X {"discovery", "main"}
  /\ failed \subseteq Session \X {"discovery", "main"}
  /\ requested \in 0 .. MaxRequests
  /\ answered \in [Request -> Nat]
  /\ said \in [Session -> SUBSET Outcome]

\* No outcome is made up: what the page says of how the task ended is what the
\* child of this very session said, whatever fails, times out or is stopped.
OutcomeReported ==
  /\ lab.status \in {"finished", "failed", "interrupted"} =>
       lab.status = Reported(lab.turnStatus)
  /\ lab.turnStatus \in Outcome =>
       lab.session # 0 /\ lab.turnStatus \in said[lab.session]

\* "Stopped" is only said of a task that Codex was never asked to do: a stop
\* that comes after turn/start ends in an outcome or in "unknown".
StoppedMeansNoTurn == lab.status = "stopped" => ~ctx[lab.session].attempted

\* What the page announces and reads out of a task, and what the service explains
\* of it, is true of its child, however stops, failures, late messages and the
\* end of the child come together.
ClaimsAreTrue ==
  LET s == lab.session
      claims == Announced(lab) \cup ReadOut(lab) \cup Explained(lab)
  IN /\ \A outcome \in Outcome \cap claims : outcome \in said[s]
     /\ "closed" \in claims /\ lab.status \in Terminal \cup {"unknown"} => \A kind \in {"discovery", "main"} : <<s, kind>> \notin alive
     /\ "open" \in claims => <<s, "main">> \in alive
     /\ "not-begun" \in claims => s = 0 \/ ~ctx[s].attempted
     /\ "begun" \in claims => ctx[s].attempted
     /\ "replied" \in claims => answered[lab.approval.id] = 1
     /\ "asked" \in claims => ctx[s].pending = lab.approval.id
     /\ "safe" \in claims => ctx[s].safe

\* A child is spawned when those before it are gone, however starts, stops,
\* failures and children that do not die overlap.
OneChild == Cardinality(alive) <= 1

\* The service and the client agree on the approval that a person is asked
\* for: a pending one can be answered, revoked or cancelled by the client.
PendingIsHeld ==
  lab.approval.status = "pending" => ctx[current].pending = lab.approval.id

\* A request of the child is answered at most once, by the person, by a stop
\* or by the end of the turn.
AnsweredOnce == \A r \in Request : answered[r] <= 1

\* Where the run of a session that was not stopped may yet spawn a child.
Early == {"previous", "files", "discovery", "closing", "connect", "config", "thread"}

\* The awaits of a session fit together: its run, its stops and its closing
\* (run, stopContext, closeContext).
Fits(s, c) ==
  /\ c.run \in Early \cup {"finish"} => ~c.attempted
  /\ c.run \in {"turn", "wait", "drain"} => c.attempted
  /\ c.run = "finish" \/ c.stops # {} \/ c.asked => c.stopped
  /\ c.run = "previous" \/ c.blocked => s > 1 /\ c.conn = "none" /\ ~c.attempted
  /\ c.blocked => c.run \in {"previous", "done"} /\ c.stops \subseteq {"previous"}
  /\ "previous" \in c.stops => s > 1
  /\ "cleanup" \in c.stops => ~c.attempted
  /\ c.stops \cap {"cleanup", "previous"} # {} => c.conn = "none"
  /\ c.run = "files" => c.conn = "none"
  /\ c.run \in {"discovery", "closing"} => c.conn # "main"
  /\ c.run = "closing" => c.expectedClose
  /\ c.run \in {"connect", "config", "thread"} \/ c.attempted => c.conn # "discovery"
  /\ ~c.attempted => c.turn = NoTurn /\ ~c.started /\ ~c.completed
  /\ ~c.started \/ c.completed => c.pending = 0
  /\ c.close # "null" => c.expectedClose
  /\ c.run \in Early /\ c.close # "null" => c.stopped
  /\ c.run \in Early /\ c.fatal => c.stopped \/ (c.run \in RpcStage /\ c.reply = "error")

\* What the service has been told of the start, the turn, the stop and the
\* approval of a session is what its context knows of them.
Knows(l, c) ==
  /\ l.status # "not-started"
  /\ l.status \in {"stopping", "stopped"} => c.stopped
  /\ l.turnStatus \in Outcome <=> c.completed
  /\ l.turn # NoTurn => l.turn = c.turn /\ l.turnStatus # "not-started"
  /\ c.attempted => l.thread
  /\ c.attempted /\ (c.stopped \/ c.started) => l.turnStatus # "not-started"
  /\ l.approval.status = "pending" =>
       l.approval.id # 0 /\ l.status \notin Terminal /\ l.turn # NoTurn
  /\ c.blocked => l.child # "closed" /\ l.status \notin Terminal
  /\ c.run \in Early /\ ~c.stopped /\ (c.run \in RpcStage => c.reply # "error")
       => l.status = "starting"
  /\ c.completed /\ l.status \notin Terminal => c.fatal /\ (c.stopped => c.asked)
  /\ l.status \in Terminal \ {"stopped"} /\ c.conn = "none" => l.child = "closed"
  /\ l.status \in {"running", "awaiting-human"} => c.attempted
  /\ l.status = "awaiting-human" => l.approval.status = "pending"
  /\ l.approval.status = "pending" /\ l.approval.safe => c.safe

\* A session holds its only child, and gives it up when that has gone; of the
\* sessions before the current one only the last may still have one, and then the
\* current one waits for it.
ChildrenAreHeld ==
  /\ \A child \in alive :
       LET s == child[1]
       IN /\ s <= current /\ ctx[s].conn = child[2] /\ ctx[s].close # "true"
          /\ s < current => s = current - 1 /\ ctx[current].blocked
  /\ current # 0 /\ ctx[current].conn # "none" => Conn(ctx, current) \in alive
  /\ \A s \in Session : ctx[s].run \in RpcStage /\ ctx[s].reply = "ok" => Conn(ctx, s) \in alive

\* A request that is pending was received, and was not answered.
RequestsAreHeld ==
  /\ \A r \in Request : r > requested => answered[r] = 0
  /\ \A s \in Session : LET r == ctx[s].pending IN
       r # 0 => /\ r <= requested /\ answered[r] = 0
                /\ \A t \in Session \ {s} : ctx[t].pending # r

\* What the above rest on: each session, the service, the children and the
\* requests are in step.
InStep ==
  /\ \A s \in Session :
       /\ Fits(s, ctx[s])
       /\ s > current => ctx[s] = NewContext
       /\ s <= current => ctx[s].run # "none"
       /\ s < current => ctx[s].close # "null"
  /\ lab.session = current
  /\ IF current = 0 THEN lab = InitialService ELSE Knows(lab, ctx[current])
  /\ ChildrenAreHeld /\ RequestsAreHeld

\* The connection is called closed, or the task stopped, when its child is gone; but
\* for a start that was told of the end of the previous child, and not yet of its own.
EndIsShown ==
  current # 0 =>
    LET c == ctx[current]
    IN (lab.child = "closed" \/ lab.status = "stopped") /\ c.conn # "none" =>
         /\ lab.status = "starting" /\ ~c.stopped /\ ~c.fatal
         /\ c.run \in {"discovery", "closing", "connect"}

\* A decision that is said to be sent is the only answer to its request.
ReplyIsSent ==
  lab.approval.status \in {"sent", "decline"} =>
    lab.approval.id \in Request /\ lab.approval.id <= requested
      /\ answered[lab.approval.id] = 1

\* What the page says and what the child did agree: no outcome made up, none
\* called stopped that was begun, one child, every question answered once and
\* held by the client while it is put.
ClientInv ==
  /\ TypeOK /\ OutcomeReported /\ StoppedMeansNoTurn
  /\ OneChild /\ PendingIsHeld /\ AnsweredOnce /\ InStep /\ EndIsShown /\ ReplyIsSent

\* The outcome of a session is never taken back, by late notifications, failures
\* of the connection or the end of the child.
OutcomeKept ==
  [][lab.turnStatus \in Outcome /\ lab'.session = lab.session =>
       lab'.turnStatus = lab.turnStatus]_vars

\* A start comes to something: it does not wait forever for the previous child,
\* for a child that is silent, or for one that does not die.
StartSettles == lab.status = "starting" ~> lab.status # "starting"

\* A stop that is under way ends the stopping state, or at least the end of
\* the child is shown.
StopSettles ==
  lab.status = "stopping" /\ ctx[lab.session].stops # {}
    ~> lab.status # "stopping" \/ lab.child = "closed"

\* A start and a stop both come to an end, with a child that is silent, fails
\* or does not die.
OperationsSettle == StartSettles /\ StopSettles

\* docs/reconstruction/codex-bridge.ja.md: where the connection is lost, the
\* state is unknown.  When the child is closed and nothing is under way, the
\* turn is not said to be in progress.
LostConnectionIsTold ==
  lab.child = "closed" /\ alive = {} /\ Idle => lab.turnStatus # "inProgress"
=============================================================================
