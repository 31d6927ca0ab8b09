---------------------------- MODULE MCCodexClient ----------------------------
(***************************************************************************)
(* CodexClient for TLC.  View leaves out what no action and no property    *)
(* asks for any more: of a session that was replaced and is over, all but  *)
(* how its child was closed; of one whose child is gone and whose run is   *)
(* over, what only they asked; of an approval that is settled, its number; *)
(* of the answers, all but those to a request that is pending, or that the *)
(* service calls answered, and those given twice.  What InStep says of the *)
(* rest, ClientSafety (CodexClientProofs) shows of every state.            *)
(***************************************************************************)
EXTENDS CodexClient

Gone(s) ==
  ctx[s].run = "done" /\ \A k \in {"discovery", "main"} : <<s, k>> \notin alive

Over(s) == s < current /\ Gone(s) /\ ctx[s].stops = {}

\* What the service still says of its approval.
Question ==
  LET a == lab.approval
  IN IF a.status = "pending" THEN <<a, FALSE>>
     ELSE <<[a EXCEPT !.id = 0, !.fresh = FALSE],
            a.status \in {"sent", "decline"} /\ answered[a.id] = 1>>

Left(s) ==
  LET c == [ctx[s] EXCEPT !.reply = IF ctx[s].run \in RpcStage THEN @ ELSE "waiting"]
  IN IF Gone(s) THEN [c EXCEPT !.expectedClose = TRUE, !.fatal = TRUE, !.safe = FALSE,
                        !.ended = @ /\ ctx[s].stops # {}]
     ELSE c

View ==
  <<[lab EXCEPT !.approval = NoApproval], Question, current, alive, failed, requested,
    {r \in Request : answered[r] > 1},
    [s \in Session |->
       IF Over(s) THEN <<ctx[s].conn, ctx[s].close>>
       ELSE <<Left(s), said[s],
              IF ctx[s].pending = 0 THEN 0 ELSE answered[ctx[s].pending]>>]>>
=============================================================================
