------------------------------ MODULE LabText -------------------------------
(***************************************************************************)
(* apps/companion-lab/public/app.js: what the page announces and reads out *)
(* of a task it shows; and what the service says when it is asked to       *)
(* explain it (codex-service.ts).  A text is the set of its claims:        *)
(*   "completed", "failed", "interrupted"  how the work ended              *)
(*   "closed", "open"    the connection to Codex has ended, or goes on     *)
(*   "begun", "not-begun"  Codex was, or was not, asked to do the work     *)
(*   "replied"           a person's decision was sent                      *)
(*   "asked"             Codex waits for a person's decision               *)
(*   "safe"              which may be an approval                          *)
(* A text that only says what is asked for or not known claims nothing.    *)
(***************************************************************************)
EXTENDS CodexService

\* What a text that names the outcome calls it.
Ended(status) == IF status = "finished" THEN "completed" ELSE status

\* The end of the announcement of a task that has ended.
Connection(l) ==
  CASE l.child = "closed" -> {"closed"}
    [] l.child # "closed" /\ (l.stopRequested \/ l.status = "interrupted") -> {}
    [] OTHER -> {"open"}

\* describeCodexStateAnnouncement
Announced(l) ==
  CASE l.status = "awaiting-human" ->
         {"asked"} \cup (IF l.approval.safe THEN {"safe"} ELSE {})
    [] l.status = "running" /\ l.approval.status \in {"sent", "decline"} -> {"replied"}
    [] l.status \in {"finished", "failed", "interrupted"} ->
         {Ended(l.status)} \cup Connection(l)
    [] l.status = "stopped" -> {"not-begun", "closed"}
    [] l.status = "unknown" /\ l.child = "closed" -> {"closed"}
    [] OTHER -> {}

\* buildAutoVoiceMessage, and the silence where it has none: of a turn that is
\* not known to have ended, a closed connection is all it tells.
ReadOut(l) ==
  IF l.child = "closed" /\ l.turnStatus \notin Outcome /\ l.status # "stopped" THEN {"closed"}
  ELSE CASE l.status \in {"finished", "failed", "interrupted"} ->
              {Ended(l.status)} \cup
                (CASE l.child = "closed" -> {"closed"}
                   [] l.child # "closed" /\ l.status = "finished" /\ l.stopRequested -> {}
                   [] OTHER -> {"open"})
         [] l.status = "stopped" -> {"not-begun", "closed"}
         [] l.status = "unknown" /\ l.child = "closed" -> {"closed"}
         [] l.status = "awaiting-human" -> {"asked"}
         [] OTHER -> {}

\* buildExplanation: it claims what the announcement does, and says whether
\* the work has begun.  What it tells of the command and of the answer is left
\* out.
Explained(l) ==
  Announced(l) \cup (CASE l.status = "not-started" -> {"not-begun"}
                       [] l.status = "running" -> {"begun"}
                       [] OTHER -> {})
=============================================================================
