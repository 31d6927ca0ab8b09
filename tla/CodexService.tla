---------------------------- MODULE CodexService ----------------------------
(***************************************************************************)
(* apps/companion-lab/src/codex-service.ts: what the companion tells of a  *)
(* task it delegated to Codex.  The service is a record, and each method   *)
(* an operator that returns the record it leaves behind.  Texts, evidence  *)
(* and the display phase are left out.                                     *)
(*                                                                         *)
(* Of the generation, which every entry of the log advances, only one use  *)
(* has an effect on the task: a decision must quote the generation of its  *)
(* approval.  `fresh` says that they are still the same.                   *)
(***************************************************************************)
EXTENDS Naturals

CONSTANTS Turns, NoTurn   \* turn identities, and null

Outcome == {"completed", "failed", "interrupted"}
Terminal == {"finished", "stopped", "failed", "interrupted"}
Status == Terminal \cup
  {"not-started", "starting", "running", "awaiting-human", "stopping", "unknown"}

\* The approval with id 0 is null.
Approval == [id : Nat, status : {"pending", "sent", "decline", "cancelled", "unknown"},
             safe : BOOLEAN, fresh : BOOLEAN]
NoApproval == [id |-> 0, status |-> "cancelled", safe |-> FALSE, fresh |-> FALSE]

Service ==
  [status : Status, session : Nat,
   child : {"not-started", "starting", "running", "closing", "closed", "unknown"},
   thread : BOOLEAN, turn : Turns \cup {NoTurn},
   turnStatus : Outcome \cup {"not-started", "inProgress", "unknown"},
   stopRequested : BOOLEAN, approval : Approval]

InitialService ==
  [status |-> "not-started", session |-> 0, child |-> "not-started",
   thread |-> FALSE, turn |-> NoTurn, turnStatus |-> "not-started",
   stopRequested |-> FALSE, approval |-> NoApproval]

Recorded(l) == [l EXCEPT !.approval.fresh = FALSE]

\* The status an outcome is reported as.
Reported(outcome) == IF outcome = "completed" THEN "finished" ELSE outcome

MutTurnUnknown(l) == "unknown"
\* Where the outcome of the turn is not known, it becomes unknown.
TurnUnknown(l) == IF l.turnStatus \in Outcome THEN l.turnStatus ELSE "unknown"

-----------------------------------------------------------------------------
(* Observations, as the client makes them.                                 *)

ChildIs(status) == [type |-> "child-status", status |-> status, expected |-> FALSE]
ChildClosed(expected) ==
  [type |-> "child-status", status |-> "closed", expected |-> expected]
TurnStarted(t) == [type |-> "turn-started", turn |-> t]
CommandCompleted(t) == [type |-> "command-completed", turn |-> t]
\* An item that has started, or the final answer.
ItemSeen(t) == [type |-> "item", turn |-> t]
TurnCompleted(t, outcome) ==
  [type |-> "turn-completed", turn |-> t, outcome |-> outcome]
ResponseSent(id, decision) ==
  [type |-> "approval-response-sent", id |-> id, decision |-> decision]
Revoked(id) == [type |-> "approval-revoked", id |-> id]
\* "thread-started", "startup-stopped", "stop-unconfirmed",
\* "unsupported-request", "protocol-failure"
Plain(type) == [type |-> type]

Progress == {"thread-started", "turn-started", "item", "command-completed",
             "unsupported-request"}

-----------------------------------------------------------------------------
(* onObservation                                                           *)

Matches(l, t) == l.thread /\ l.turn \in {NoTurn, t}

\* applyChildStatus
ChildStatusApplied(l, o) ==
  LET seen == [Recorded(l) EXCEPT !.child = o.status] IN
  CASE o.status = "closed" /\ ~o.expected /\ l.turnStatus \notin Outcome ->
         [seen EXCEPT !.status = "unknown", !.turnStatus = "unknown"]
    [] /\ o.status = "closed" /\ (o.expected \/ l.turnStatus \in Outcome)
       /\ l.status = "stopping" /\ l.turnStatus = "not-started" ->
         [seen EXCEPT !.status = "stopped"]
    [] o.status = "unknown" ->
         [seen EXCEPT !.status = "unknown", !.turnStatus = TurnUnknown(l)]
    [] OTHER -> seen

ResponseApplied(l, o) ==
  [Recorded(l) EXCEPT
     !.approval.status = CASE o.decision = "accept" -> "sent"
                           [] o.decision = "cancel" -> "cancelled"
                           [] OTHER -> o.decision,
     !.approval.safe = FALSE,
     !.status = IF l.status = "stopping" THEN "stopping" ELSE "running"]

RevocationApplied(l) ==
  [Recorded(l) EXCEPT
     !.approval.status = "cancelled", !.approval.safe = FALSE,
     !.status = IF l.status = "awaiting-human" THEN "running" ELSE l.status]

StopUnconfirmed(l) ==
  [Recorded(l) EXCEPT !.status = "unknown", !.turnStatus = TurnUnknown(l)]

ProtocolFailed(l) ==
  [StopUnconfirmed(l) EXCEPT
     !.child = IF l.child = "closed" THEN "closed" ELSE "unknown"]

\* The client says so only of a session that asked for no turn.
StartupStopped(l) ==
  [Recorded(l) EXCEPT !.status = "stopped", !.child = "closed",
                      !.turnStatus = "not-started"]

Ignores(l, o) ==
  \/ l.status \in Terminal /\ o.type # "child-status"
  \/ l.status = "stopping" /\ o.type \in Progress
  \/ /\ o.type \in {"turn-started", "item", "command-completed", "turn-completed"}
     /\ ~Matches(l, o.turn)
  \/ /\ o.type \in {"approval-response-sent", "approval-revoked"}
     /\ ~(l.approval.id = o.id /\ l.approval.status = "pending")

Observed(l, o) ==
  IF Ignores(l, o) THEN l ELSE
  CASE o.type = "child-status" -> ChildStatusApplied(l, o)
    [] o.type = "thread-started" -> [Recorded(l) EXCEPT !.thread = TRUE]
    [] o.type = "turn-started" ->
         [Recorded(l) EXCEPT !.turn = o.turn, !.turnStatus = "inProgress",
                             !.status = "running"]
    [] o.type = "command-completed" -> [Recorded(l) EXCEPT !.status = "running"]
    [] o.type \in {"item", "unsupported-request"} -> Recorded(l)
    [] o.type = "turn-completed" ->
         [Recorded(l) EXCEPT !.turnStatus = o.outcome,
                             !.status = Reported(o.outcome)]
    [] o.type = "approval-response-sent" -> ResponseApplied(l, o)
    [] o.type = "approval-revoked" -> RevocationApplied(l)
    [] o.type = "startup-stopped" -> StartupStopped(l)
    [] o.type = "stop-unconfirmed" -> StopUnconfirmed(l)
    [] o.type = "protocol-failure" -> ProtocolFailed(l)

\* onApproval
Asked(l, id, t, safe) ==
  IF l.status = "running" /\ l.approval.status # "pending" /\ l.thread /\ l.turn = t
  THEN [l EXCEPT !.status = "awaiting-human",
          !.approval = [id |-> id, status |-> "pending", safe |-> safe, fresh |-> TRUE]]
  ELSE l

-----------------------------------------------------------------------------
(* The operations of the page and of the MCP tools.                        *)

MayStart(l) ==
  \/ l.status \in Terminal \cup {"not-started"}
  \/ l.status = "unknown" /\ l.child = "closed"

Started(l) ==
  [InitialService EXCEPT !.status = "starting", !.session = l.session + 1,
                         !.child = "starting"]

MayStop(l) ==
  /\ l.session # 0
  /\ ~(l.status \in Terminal /\ l.child = "closed")
  /\ ~(l.status = "stopping" /\ l.stopRequested)

StopAsked(l) ==
  [Recorded(l) EXCEPT
     !.status = IF l.status \in Terminal THEN l.status ELSE "stopping",
     !.stopRequested = TRUE]

\* The client had nothing to stop.
StopTargetLost(l) ==
  [l EXCEPT !.status = "unknown", !.turnStatus = "unknown", !.child = "unknown"]

MayDecide(l, approve) ==
  /\ l.status = "awaiting-human"
  /\ l.approval.status = "pending" /\ l.approval.fresh
  /\ approve => l.approval.safe

\* The client has sent the decision.
DecisionSent(l, decision) ==
  [Recorded(l) EXCEPT !.approval.status = IF decision = "accept" THEN "sent" ELSE "decline",
                      !.approval.safe = FALSE, !.status = "running"]

\* The client could not send the decision.
DecisionLost(l) ==
  [Recorded(l) EXCEPT !.status = "unknown", !.turnStatus = "unknown",
                      !.approval.status = "unknown"]
=============================================================================
