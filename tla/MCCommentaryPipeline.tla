------------------------ MODULE MCCommentaryPipeline ------------------------
(* The pipeline for TLC: chunks of each source, and what a human types. *)
EXTENDS CommentaryPipeline

CONSTANTS a, b, p, q

L(text, says) == [NoLine EXCEPT !.text = text, !.says = says]
Of(file, says) == [L(file, says) EXCEPT !.target = file]
Ends(lines) == [lines |-> lines, partial |-> NoLine]

Fails(text) == [L(text, {"error word", "current error"}) EXCEPT !.outcome = "failure"]

MCChunk == {
  \* any source
  Ends(<<L("blank", {"blank"}), Fails("e1"), Fails("e1")>>),
  Ends(<<Fails("e2"), L("end", {"complete", "failed exit"})>>),
  \* Claude
  Ends(<<Of(a, {"Read("}), [L("test", {"tests", "verifies"}) EXCEPT !.outcome = "success"],
         L("push", {"git", "publishes"}), Of(b, {"Write("}),
         L("ask", {"permission", "permission dialog"})>>),
  Ends(<<Of(a, {"Edit("}), L("ask", {"question"}), Fails("e1"), Of(b, {"Grep("})>>),
  \* Codex
  Ends(<<L("header", {"OpenAI Codex (v"}), [Of(a, {"ToolCall"}) EXCEPT !.tool = "view"]>>),
  Ends(<<L("ask", {"would you like"}), L("why", {"quoted"}), L("ls", {"command line", "quoted"}),
         L("yes", {"you approved"})>>),
  Ends(<<[L("ls", {"Ran"}) EXCEPT !.command = "lists"], L("tree", {"card end"}),
         L("rule", {"rule"}), L("fine", {"prose", "bullet"}), L("rule", {"rule"})>>),
  \* Hermes
  Ends(<<L("hermes", {"identity", "cli"}), L("feed", {"terminal feed"}),
         L("run?", {"approval"})>>),
  Ends(<<L("hermes", {"identity"}), L("web", {"web feed"}), L("run?", {"approval"}),
         L("gone", {"hermes error"}), L("bye", {"session ended"})>>),
  [lines |-> <<L("rows", {"search row"}), L("so", {"response"}), L("rows", {"search row"})>>,
   partial |-> L(">", {"prompt"})],
  [lines |-> <<L(">", {"prompt"}), L("a title", {"title"})>>,
   partial |-> L("so", {"response", "short"})]}

MCInput == {<<p, "enter">>, <<Short, "enter", q>>, <<"erase", p, Short, "enter", q, "enter">>,
            <<"enter">>}
=============================================================================
