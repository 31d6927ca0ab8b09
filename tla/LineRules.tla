----------------------------- MODULE LineRules -----------------------------
(***************************************************************************)
(* What the server makes of one line of a CLI's output: which assistant it *)
(* speaks for (rulesets/detect.ts), which lines are noise (extract.ts,     *)
(* progress-noise.ts) and which rule of which rule set names the event     *)
(* (rulesets/*.ts).                                                        *)
(*                                                                         *)
(* A line is [text, says, target, tool, command, outcome]: its identity,   *)
(* the set of patterns it matches, the file it names, the tool call it     *)
(* logs, what that tool runs, and whether it reports a success.  A pattern *)
(* stands for a regular expression, or for several that lead to the same   *)
(* place; wording and letters are left out.                                *)
(***************************************************************************)
EXTENDS Naturals, Sequences, FiniteSets

NoTarget == "no target"
NoTool == "no tool"
Nothing == "nothing"

Sources == {"claude", "codex", "hermes", "generic"}

\* What a summary asks of the human: "asks" is one of the urgent waiting
\* summaries, "answered" reports an approval, "silence" is the silence timer.
Cues == {"asks", "answered", "silence", "plain"}

-----------------------------------------------------------------------------
(* The rule tables.  Neighbours in a table that yield the same kind of     *)
(* event are one entry.                                                    *)

Rule(p, patterns, t, cue) ==
  [priority |-> p, patterns |-> patterns, type |-> t, cue |-> cue]

genericRules == <<
  Rule(60, {"searches"}, "search", "plain"),
  Rule(55, {"builds"}, "build", "plain"),
  Rule(50, {"tests"}, "test", "plain"),
  Rule(45, {"lints"}, "lint", "plain"),
  Rule(40, {"gh"}, "github", "plain"),
  Rule(35, {"serves"}, "server", "plain"),
  Rule(30, {"git"}, "git", "plain"),
  Rule(20, {"installs"}, "install", "plain"),
  Rule(10, {"error word"}, "error", "plain") >>

claudeRules == <<
  Rule(130, {"permission", "question"}, "stdout", "asks"),
  Rule(120, {"complete"}, "done", "plain"),
  Rule(115, {"failed exit"}, "error", "plain"),
  Rule(110, {"$ search"}, "search", "plain"),
  Rule(106, {"$ test"}, "test", "plain"),
  Rule(100, {"Read("}, "read", "plain"),
  Rule(95, {"Glob(", "Grep("}, "search", "plain"),
  Rule(90, {"Update(", "Edit(", "Write("}, "write", "plain"),
  Rule(70, {"Bash(", "prose", "listing"}, "stdout", "plain"),
  Rule(60, {"searches"}, "search", "plain"),
  Rule(50, {"tests"}, "test", "plain"),
  Rule(40, {"gh"}, "github", "plain"),
  Rule(30, {"git"}, "git", "plain"),
  Rule(20, {"installs"}, "install", "plain"),
  Rule(15, {"$ command"}, "stdout", "plain"),
  Rule(12, {"read only", "current error"}, "error", "plain") >>

codexRules == <<
  Rule(100, {"Read("}, "read", "plain"),
  Rule(95, {"Glob(", "Grep("}, "search", "plain"),
  Rule(90, {"Update(", "Write(", "apply_patch"}, "write", "plain"),
  Rule(70, {"bullet"}, "stdout", "plain"),
  Rule(66, {"open question", "would you like"}, "stdout", "asks"),
  Rule(64, {"you approved"}, "stdout", "answered"),
  Rule(60, {"searches"}, "search", "plain"),
  Rule(50, {"tests"}, "test", "plain"),
  Rule(40, {"gh"}, "github", "plain"),
  Rule(30, {"git"}, "git", "plain"),
  Rule(20, {"installs"}, "install", "plain"),
  Rule(18, {"Bash(", "ToolCall"}, "stdout", "plain"),
  Rule(15, {"current error"}, "error", "plain") >>

hermesRules == <<
  Rule(150, {"identity", "cli", "banner"}, "start", "plain"),
  Rule(145, {"session ended"}, "done", "plain"),
  Rule(144, {"turn complete"}, "done", "plain"),
  Rule(140, {"hermes error"}, "error", "plain"),
  Rule(135, {"interrupted"}, "stdout", "plain"),
  Rule(130, {"approval"}, "stdout", "asks"),
  Rule(125, {"slash"}, "stdout", "plain"),
  Rule(120, {"terminal feed"}, "stdout", "plain"),
  Rule(119, {"web feed"}, "search", "plain"),
  Rule(118, {"skills feed"}, "read", "plain"),
  Rule(122, {"search row"}, "search", "plain"),
  Rule(121, {"read row"}, "read", "plain"),
  Rule(120, {"terminal row"}, "stdout", "plain"),
  Rule(119, {"tool row"}, "stdout", "plain"),
  Rule(115, {"running commands"}, "stdout", "plain"),
  Rule(112, {"title"}, "stdout", "plain"),
  Rule(106, {"thinking"}, "stdout", "plain"),
  Rule(110, {"prompt"}, "stdout", "asks"),
  Rule(105, {"progress"}, "stdout", "plain"),
  Rule(40, {"response"}, "stdout", "plain") >>

\* rulesForLine sorts by priority; the sort is stable.
Hit(rules, line) ==
  LET hits == {i \in DOMAIN rules : rules[i].patterns \cap line.says # {}}
  IN CHOOSE i \in hits :
       \A j \in hits : \/ rules[j].priority < rules[i].priority
                       \/ rules[j].priority = rules[i].priority /\ i <= j

IsHit(rules, line) == \E i \in DOMAIN rules : rules[i].patterns \cap line.says # {}

\* The rules a line is tried against outside the Hermes extractor.
RulesOf(source) ==
  CASE source = "claude" -> claudeRules
    [] source = "codex" -> codexRules
    [] source = "hermes" -> hermesRules
    [] OTHER -> genericRules

-----------------------------------------------------------------------------
(* createAutoDetector.                                                     *)

ToolCalls == {"Read(", "Bash(", "Glob(", "Grep(", "Update(", "Write(", "Edit("}

Undecided == [detected |-> Nothing, seen |-> 0, signals |-> {},
              scores |-> [claude |-> 0, codex |-> 0, hermes |-> 0]]

\* scoreLine: strong patterns weigh 4, medium ones 2, weak ones 1.
Weight(line, strong, medium, weak) ==
  4 * Cardinality(strong \cap line.says) + 2 * Cardinality(medium \cap line.says)
    + Cardinality(weak \cap line.says)

ClaudeScore(line) ==
  Weight(line, {"$ command", "Claude Code v"}, {"AskUserQuestion", "read only", "prose", "listing"}, {})
    + (IF ToolCalls \cap line.says # {} THEN 4 ELSE 0)

CodexScore(line) ==
  Weight(line, {"OpenAI Codex (v", "would you like", "you approved", "apply_patch", "codex_core ToolCall",
                "ToolCall"},
               {"codex", "codex_core"}, {"ELIFECYCLE", "exit code"})

toolFeeds == {"terminal feed", "web feed", "skills feed"}

HermesSignals(line) ==
  (line.says \cap {"identity", "cli", "tui", "slash"})
    \cup (IF toolFeeds \cap line.says # {} THEN {"tool"} ELSE {})

HermesScore(signals) ==
  4 * Cardinality(signals \cap {"identity", "cli", "tool"})
    + 2 * Cardinality(signals \cap {"tui", "slash"})

\* decide: the leader, if it leads by the threshold.  Hermes stands only with
\* two kinds of signal, one of them its own.
Decided(scores, signals, threshold) ==
  LET hermesEligible == /\ Cardinality(signals) >= 2
                        /\ signals \cap {"identity", "cli", "tool"} # {}
      candidates == {"claude", "codex"} \cup (IF hermesEligible THEN {"hermes"} ELSE {})
  IN {s \in candidates : \A o \in candidates \ {s} : scores[s] >= scores[o] + threshold}

\* update
Detect(d, line, threshold, maxLines) ==
  IF d.detected # Nothing THEN d
  ELSE LET scores == [claude |-> d.scores.claude + ClaudeScore(line),
                      codex |-> d.scores.codex + CodexScore(line),
                      hermes |-> d.scores.hermes + HermesScore(HermesSignals(line))]
           signals == d.signals \cup HermesSignals(line)
           winners == Decided(scores, signals, threshold)
       IN [detected |-> CASE winners # {} -> CHOOSE w \in winners : TRUE
                          [] winners = {} /\ d.seen + 1 >= maxLines -> "generic"
                          [] OTHER -> Nothing,
           seen |-> d.seen + 1, signals |-> signals, scores |-> scores]

\* detectSourceFromCommand
DetectFromCommand(cmd) == IF cmd = "hermes" THEN "hermes" ELSE Nothing

-----------------------------------------------------------------------------
(* preprocessLine.                                                         *)

\* classifyExecCommand, isFileListExecution, isSearchExecution: how the tool
\* call that ran a command is written in the log.
ExecPattern(command) ==
  CASE command = "lists" -> "Glob("
    [] command = "searches" -> "Grep("
    [] command = "reads" -> "Read("
    [] OTHER -> "Bash("

\* canonicalizeCodexToolCall: the patterns of the line that replaces a
\* logged tool call, none when the call is not worth a line.
CanonicalCall(line) ==
  CASE line.tool \in {"exec", "exec_command"} ->
         IF line.command = Nothing THEN {}
         ELSE (line.says \ {"ToolCall"}) \cup {ExecPattern(line.command)}
    [] line.tool = "apply_patch" -> {"apply_patch"}
    [] line.tool \in {"wait", "write_stdin"} -> {}
    [] line.tool = "view" -> {"Read("}
    [] OTHER -> {"ToolCall"}

\* Terminal redraws and counters, per source.
IsNoise(line, source) ==
  \/ source # "generic" /\ "rendering" \in line.says
  \/ source = "codex" /\ "codex progress" \in line.says
  \/ source = "claude" /\ "claude chrome" \in line.says

\* isRoutineCodexInternalLog, hasOnlyEmptyFailureMarkers and the bare log lines.
IsInternalLog(line) == {"routine log", "empty failures", "codex_core"} \cap line.says # {}

AlwaysKept == {"Read(", "Glob(", "Grep(", "Update(", "Write(", "Bash("}

\* The patterns of the line that is tried against the rules, {} when it is
\* dropped.  `assistant` is the last message Codex was heard to say.
Preprocessed(line, source, assistant) ==
  IF "blank" \in line.says \/ IsNoise(line, source) THEN {}
  ELSE IF "would you like" \in line.says THEN {"would you like"}
  ELSE IF "closed question" \in line.says THEN {}
  ELSE IF {"open question", "you approved"} \cap line.says # {} THEN line.says
  ELSE IF line.tool # NoTool THEN CanonicalCall(line)
  ELSE IF IsInternalLog(line) THEN {}
  ELSE IF AlwaysKept \cap line.says # {} THEN line.says
  ELSE IF source = "codex" /\ "bullet" \in line.says
       THEN IF line.text = assistant THEN {} ELSE line.says
  ELSE IF {"quoted", "apply_patch"} \cap line.says # {} THEN line.says
  ELSE IF source = "codex" /\ "current error" \notin line.says THEN {}
  ELSE line.says \cup {"text"}

\* Whether the line is what Codex says last now.
IsAssistantLine(line, source) ==
  /\ source = "codex" /\ "bullet" \in line.says
  /\ line.tool = NoTool
  /\ ~IsNoise(line, source) /\ ~IsInternalLog(line)
  /\ ({"would you like", "closed question", "open question", "you approved"} \cup AlwaysKept)
       \cap line.says = {}

-----------------------------------------------------------------------------
(* event-priority.ts: getEventPriority.                                    *)

EventTypes == {"start", "stdout", "error", "read", "search", "write", "test", "build", "lint",
               "server", "git", "github", "install", "done"}

Priority(e) ==
  IF e.alert \/ e.type = "error" \/ e.cue = "asks" THEN "urgent"
  ELSE IF e.answer \/ e.type = "done" \/ e.cue = "silence" THEN "notice"
  ELSE "progress"

\* An event: the rule's type and cue, and the line's text, file and outcome.
\* `alert` marks a repeated error, `answer` a reply of Codex (both carry
\* their own priority).
EventOf(t, cue, line) ==
  [type |-> t, cue |-> cue, text |-> line.text, target |-> line.target,
   outcome |-> line.outcome, says |-> line.says, alert |-> FALSE, answer |-> FALSE]
=============================================================================
