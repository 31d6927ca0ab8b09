----------------------------- MODULE Extraction -----------------------------
(***************************************************************************)
(* extractEvents: the events of one chunk of output, and what the          *)
(* extractors remember between chunks.  rulesets/hermes.ts remembers which *)
(* lines it has told and what the agent is doing, extract.ts the           *)
(* unfinished cards of the Codex screen and what it told last,             *)
(* rulesets/detect.ts which assistant is speaking.                         *)
(*                                                                         *)
(* A chunk is [lines, partial]: the lines it completes and the unfinished  *)
(* one it ends with (NoLine if it ends with a newline).                    *)
(***************************************************************************)
EXTENDS LineRules, SequencesExt

CONSTANTS
  Threshold,       \* MIN_DELTA
  MaxDetectLines,  \* MAX_DETECT_LINES
  SeenKeyLimit,    \* HERMES_SEEN_KEY_LIMIT
  BufferLimit      \* CODEX_TUI_BUFFER_LIMIT, in lines

ASSUME LimitsAssumption ==
  MaxDetectLines \in Nat \ {0} /\ SeenKeyLimit \in Nat /\ BufferLimit \in Nat

NoLine == [text |-> "no line", says |-> {}, target |-> NoTarget, tool |-> NoTool,
           command |-> Nothing, outcome |-> "none"]

-----------------------------------------------------------------------------
(* Hermes.  matchRule tries the table in order, not by priority.           *)

FirstHit(line) ==
  CHOOSE i \in DOMAIN hermesRules :
    /\ hermesRules[i].patterns \cap line.says # {}
    /\ \A j \in 1..(i - 1) : hermesRules[j].patterns \cap line.says = {}

toolRows == {"search row", "read row", "terminal row", "tool row"}

Means(i, pattern) == pattern \in hermesRules[i].patterns
MeansOne(i, patterns) == hermesRules[i].patterns \cap patterns # {}

\* fingerprint: what makes two lines the same news.
Fingerprint(i, line) ==
  CASE MeansOne(i, {"response", "progress", "thinking"}) -> <<0>>
    [] MeansOne(i, {"prompt", "identity", "session ended", "turn complete", "interrupted",
                    "hermes error"}) -> <<i>>
    [] OTHER -> <<i, line.text>>

\* createState, without the row being drawn.
HermesInitial == [started |-> FALSE, ended |-> FALSE, waitingForInput |-> FALSE,
                  streaming |-> FALSE, seenKeys |-> <<>>, lastToolCategory |-> 0]

\* remember: a set in order of insertion, the oldest key leaves.
Remembered(keys, key) ==
  LET grown == Append(keys, key)
  IN IF Len(grown) > SeenKeyLimit THEN Tail(grown) ELSE grown

\* What a line that is news does to the state (the switch of shouldEmit): a
\* thought changes nothing, every other line says whether Hermes waits or streams.
HermesNews(h, i) ==
  IF Means(i, "thinking") THEN h
  ELSE [h EXCEPT
          !.started = @ \/ Means(i, "identity"),
          !.ended = Means(i, "session ended") \/ (@ /\ ~Means(i, "identity")),
          !.waitingForInput = MeansOne(i, {"prompt", "approval", "interrupted"}),
          !.streaming = MeansOne(i, {"progress", "response"}),
          !.lastToolCategory = IF MeansOne(i, toolRows) THEN i
                               ELSE IF MeansOne(i, {"prompt", "title"}) THEN 0 ELSE @]

\* News that is not told: a stream that goes on, a tool of the same category.
IsMuted(h, i) ==
  \/ MeansOne(i, {"progress", "response"}) /\ h.streaming
  \/ MeansOne(i, toolRows) /\ h.lastToolCategory = i

\* eventForLine: [h, events].
HermesLine(h, line, provisional) ==
  LET matches == \E i \in DOMAIN hermesRules : hermesRules[i].patterns \cap line.says # {}
      i == FirstHit(line)
      key == Fingerprint(i, line)
      short == provisional /\ Means(i, "response") /\ "short" \in line.says
      told == [h EXCEPT !.seenKeys = Remembered(@, key)]
  IN IF h.ended \/ ~matches \/ short \/ key \in ToSet(h.seenKeys)
     THEN [h |-> h, events |-> <<>>]
     ELSE [h |-> HermesNews(told, i),
           events |-> IF IsMuted(told, i) THEN <<>>
                      ELSE <<EventOf(hermesRules[i].type, hermesRules[i].cue, line)>>]

HermesLines(h, lines) ==
  FoldLeft(LAMBDA acc, line :
             LET step == HermesLine(acc.h, line, FALSE)
             IN [h |-> step.h, events |-> acc.events \o step.events],
           [h |-> h, events |-> <<>>], lines)

\* extractHermesEvents
ExtractHermes(h, chunk) ==
  LET done == HermesLines(h, chunk.lines)
      step == HermesLine(done.h, chunk.partial, TRUE)
  IN IF chunk.partial = NoLine THEN done
     ELSE [h |-> step.h, events |-> done.events \o step.events]

-----------------------------------------------------------------------------
(* The Codex screen: command cards ("Ran" ... "└") and answers between two *)
(* full-width rules.  The buffer rejoins a line that was cut in two, which *)
(* is not modelled: a chunk for it ends with a newline.                    *)

CodexInitial == [buffer |-> <<>>, lastCommand |-> Nothing, lastAnswer |-> <<>>,
                 lastAssistant |-> Nothing]

LastLines(lines, n) == IF Len(lines) > n THEN SubSeq(lines, Len(lines) - n + 1, Len(lines))
                       ELSE lines

\* A finished card: the command is told unless it was the last one told.
TellCommand(c, line) ==
  IF line.text = c.last THEN c
  ELSE LET says == (line.says \ {"Ran"}) \cup {ExecPattern(line.command)}
           card == [line EXCEPT !.says = says]
       IN [c EXCEPT !.last = line.text,
                    !.events = Append(@, EventOf(codexRules[Hit(codexRules, card)].type,
                                                 "plain", card))]

Cards(buffer, last) ==
  FoldLeft(LAMBDA c, i :
             CASE "Ran" \in buffer[i].says /\ c.open = 0 -> [c EXCEPT !.open = i]
               [] "card end" \in buffer[i].says /\ c.open # 0 ->
                    [TellCommand(c, buffer[c.open]) EXCEPT !.open = 0, !.through = i]
               [] OTHER -> c,
           [open |-> 0, through |-> 0, last |-> last, events |-> <<>>],
           [i \in DOMAIN buffer |-> i])

\* A finished answer: told unless it holds a card, says nothing, or repeats.
TellAnswer(b, body) ==
  LET prose == {i \in DOMAIN body : "prose" \in body[i].says}
      first == CHOOSE i \in prose : \A j \in prose : i <= j
      said == SelectSeq(body, LAMBDA line : "prose" \in line.says)
      answer == [i \in DOMAIN said |-> said[i].text]
  IN IF \/ \E i \in DOMAIN body : "Ran" \in body[i].says
        \/ prose = {} \/ answer = b.last
     THEN b
     ELSE [b EXCEPT !.last = answer,
                    !.events = Append(@, [EventOf("stdout", "plain", body[first])
                                            EXCEPT !.answer = TRUE])]

Answers(buffer, last) ==
  FoldLeft(LAMBDA b, i :
             CASE "rule" \in buffer[i].says /\ b.open = 0 -> [b EXCEPT !.open = i]
               [] "rule" \in buffer[i].says /\ b.open # 0 /\ b.open + 1 < i ->
                    [TellAnswer(b, SubSeq(buffer, b.open + 1, i - 1))
                       EXCEPT !.open = 0, !.through = i]
               [] OTHER -> b,
           [open |-> 0, through |-> 0, last |-> last, events |-> <<>>],
           [i \in DOMAIN buffer |-> i])

\* extractCodexTuiEvents: what a finished card or answer ends is consumed.
ExtractCodex(x, lines) ==
  LET buffer == LastLines(x.buffer \o lines, BufferLimit)
      cards == Cards(buffer, x.lastCommand)
      answers == Answers(buffer, x.lastAnswer)
      through == IF cards.through > answers.through THEN cards.through ELSE answers.through
  IN [x |-> [x EXCEPT !.buffer = SubSeq(buffer, through + 1, Len(buffer)),
                      !.lastCommand = cards.last, !.lastAnswer = answers.last],
      events |-> cards.events \o answers.events]

-----------------------------------------------------------------------------
(* Claude's questions span several lines of a redraw.                      *)

\* extractClaudeSupervisionEvents: what the whole chunk says together.
Supervision(lines) ==
  LET says == UNION {lines[i].says : i \in DOMAIN lines}
      line == lines[1]
  IN (IF says \cap {"trust dialog", "permission dialog"} # {}
        THEN <<EventOf("stdout", "asks", line)>> ELSE <<>>)
     \o (IF "select menu" \in says THEN <<EventOf("stdout", "asks", line)>> ELSE <<>>)
     \o (IF "failed exit" \in says THEN <<EventOf("error", "plain", line)>> ELSE <<>>)
     \o (IF "complete" \in lines[Len(lines)].says
           THEN <<EventOf("done", "plain", lines[Len(lines)])>> ELSE <<>>)

-----------------------------------------------------------------------------
(* extractEvents.  The state is [auto, hermes, codex].                     *)

ExtractInitial == [auto |-> Undecided, hermes |-> HermesInitial, codex |-> CodexInitial]

\* resetExtractionState; the detector is reset apart.
ResetExtraction(x) == [x EXCEPT !.hermes = HermesInitial, !.codex = CodexInitial]

ResolvedSource(x, source) ==
  IF source # "auto" THEN source
  ELSE IF x.auto.detected = Nothing THEN "generic" ELSE x.auto.detected

\* In automatic mode every line is scored before any is read, until one decides.
PreScan(x, lines, source) ==
  IF source # "auto" THEN x
  ELSE [x EXCEPT !.auto =
          FoldLeft(LAMBDA d, line : IF "blank" \in line.says THEN d
                                    ELSE Detect(d, line, Threshold, MaxDetectLines),
                   @, lines)]

\* The approval's command is looked for in the next five lines, and what is
\* between is skipped with it.
CommandAfter(lines, i) ==
  LET later == {j \in (i + 1)..Len(lines) : j <= i + 5 /\ "command line" \in lines[j].says}
  IN IF later = {} THEN i ELSE CHOOSE j \in later : \A k \in later : j <= k

\* One line of the loop: acc is [x, events, upto], upto the last line read.
ReadLine(acc, lines, i, source) ==
  LET line == lines[i]
      resolved == ResolvedSource(acc.x, source)
      says == Preprocessed(line, resolved, acc.x.codex.lastAssistant)
      heard == IF IsAssistantLine(line, resolved)
               THEN [acc.x EXCEPT !.codex.lastAssistant = line.text] ELSE acc.x
      scored == IF source = "auto"
                THEN [heard EXCEPT !.auto = Detect(@, line, Threshold, MaxDetectLines)]
                ELSE heard
      read == [line EXCEPT !.says = says]
      rules == RulesOf(ResolvedSource(scored, source))
      rule == rules[Hit(rules, read)]
  IN CASE i <= acc.upto -> acc
       [] i > acc.upto /\ says = {} -> [acc EXCEPT !.x = heard, !.upto = i]
       [] i > acc.upto /\ says # {} /\ IsHit(rules, read) ->
            [x |-> scored, events |-> Append(acc.events, EventOf(rule.type, rule.cue, read)),
             upto |-> IF "would you like" \in says /\ rule.cue = "asks"
                      THEN CommandAfter(lines, i) ELSE i]
       [] OTHER ->
            [x |-> scored, upto |-> i,
             events |-> IF ResolvedSource(scored, source) = "claude" THEN acc.events
                        ELSE Append(acc.events, EventOf("stdout", "plain", read))]

Extract(x, chunk, source) ==
  LET lines == IF chunk.partial = NoLine THEN chunk.lines
               ELSE Append(chunk.lines, chunk.partial)
      scanned == PreScan(x, lines, source)
      resolved == ResolvedSource(scanned, source)
      supervised == Supervision(lines)
      hermes == ExtractHermes(scanned.hermes, chunk)
      codex == IF resolved = "codex" THEN ExtractCodex(scanned.codex, lines)
               ELSE [x |-> scanned.codex, events |-> <<>>]
      loop == FoldLeft(LAMBDA acc, i : ReadLine(acc, lines, i, source),
                       [x |-> [scanned EXCEPT !.codex = codex.x],
                        events |-> codex.events, upto |-> 0],
                       [i \in DOMAIN lines |-> i])
  IN CASE resolved = "claude" /\ supervised # <<>> -> [x |-> scanned, events |-> supervised]
       [] resolved = "hermes" -> [x |-> [scanned EXCEPT !.hermes = hermes.h],
                                  events |-> hermes.events]
       [] OTHER -> [x |-> loop.x, events |-> loop.events]
=============================================================================
