------------------------------ MODULE LabDemo -------------------------------
(***************************************************************************)
(* apps/companion-lab/src/core.ts: the fictional task the companion        *)
(* demonstrates when it is not connected to Codex.  The service is a       *)
(* record, and each method an operator that returns the record it leaves   *)
(* behind; MayX says whether the service accepts.  Of a scene only its     *)
(* number is kept: texts, evidence and dialogue are left out.              *)
(***************************************************************************)
EXTENDS Naturals

CONSTANT Stages   \* scenes of the scenario; the last one asks for approval

ASSUME StagesAssumption == Stages \in Nat /\ Stages > 1

DemoOver == {"finished", "stopped"}
DemoStatus == DemoOver \cup {"not-started", "running", "awaiting-human"}

\* `stage` is the scene shown, 0 for none.  An approval expects the generation
\* `of`, which names it; 0 is no approval.
Demo == [status : DemoStatus, session : Nat, stage : 0 .. Stages, gen : Nat,
         approval : [of : Nat, status : {"pending", "approve", "reject", "cancelled"}]]
NoDemoApproval == [of |-> 0, status |-> "cancelled"]
InitialDemo == [status |-> "not-started", session |-> 0, stage |-> 0, gen |-> 0,
                approval |-> NoDemoApproval]

\* recordStage, and the event a decision or a stop leaves
Told(d, n) == [d EXCEPT !.stage = n, !.gen = @ + 1]

MayStartDemo(d, expected) ==
  expected = d.gen /\ d.status \in DemoOver \cup {"not-started"}
DemoStarted(d) ==
  Told([d EXCEPT !.status = "running", !.session = @ + 1,
                 !.approval = NoDemoApproval], 1)

MayAdvanceDemo(d, expected) ==
  expected = d.gen /\ d.status = "running" /\ d.stage < Stages
DemoAdvanced(d) ==
  LET e == Told(d, d.stage + 1) IN
  IF e.stage < Stages THEN e
  ELSE [e EXCEPT !.status = "awaiting-human",
                 !.approval = [of |-> e.gen, status |-> "pending"]]

MutMayDecideDemo(d, session, of) ==
  session = d.session /\ of = d.approval.of
\* decideFromHuman
MayDecideDemo(d, session, of) ==
  /\ session = d.session
  /\ d.status = "awaiting-human" /\ d.approval.status = "pending"
  /\ of = d.approval.of /\ of = d.gen
DemoDecided(d, decision) ==
  [Told(d, d.stage) EXCEPT !.status = "finished", !.approval.status = decision]

\* stop: one that comes before any start has a session too.
MayStopDemo(d) == d.status \notin DemoOver
DemoStopped(d) ==
  [Told(d, d.stage) EXCEPT
     !.status = "stopped",
     !.session = IF @ = 0 THEN 1 ELSE @,
     !.approval.status = IF @ = "pending" THEN "cancelled" ELSE @]
=============================================================================
