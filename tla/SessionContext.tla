--------------------------- MODULE SessionContext ---------------------------
(***************************************************************************)
(* session-context.ts: what the server believes the work is about, which   *)
(* phase it is in and whether the human has to act, and from that, which   *)
(* commentaries are worth speaking.  repeated-error-detector.ts and the    *)
(* commentary gate of event-priority.ts, which an event passes first.      *)
(*                                                                         *)
(* Times are ages that stop growing at the interval they are compared to.  *)
(***************************************************************************)
EXTENDS LineRules, SequencesExt

CONSTANTS
  Prompt,            \* instructions a human may type
  GateInterval,      \* createCommentaryGate's intervalMs
  ProgressInterval,  \* progressSpeechIntervalMs
  ErrorWindow,       \* the detector's windowMs
  ErrorThreshold     \* the detector's threshold

NoTask == "no task"
Short == "short"      \* typed text that is no request ("y", a slash command)

Phases == {"unknown", "investigation", "editing", "verification", "publishing", "waiting"}
WorkPhases == Phases \ {"unknown", "waiting"}

AtMost(n, limit) == IF n < limit THEN n ELSE limit

-----------------------------------------------------------------------------
(* What an event means.                                                    *)

Waits(e) == e.cue \in {"asks", "silence"}

Publishes(e) == e.type \in {"git", "github"} /\ "publishes" \in e.says

\* verificationCommand, and the event types that say so themselves.
Verifies(e) ==
  \/ e.type \in {"test", "lint", "build"}
  \/ e.type \in {"stdout", "install"} /\ "verifies" \in e.says

\* explicitPhaseFor, "unknown" for an event that says nothing.
ExplicitPhase(e) ==
  IF Waits(e) THEN "waiting"
  ELSE IF Publishes(e) THEN "publishing"
  ELSE IF e.type = "write" THEN "editing"
  ELSE IF Verifies(e) THEN "verification"
  ELSE IF e.type \in {"read", "search"} THEN "investigation"
  ELSE "unknown"

\* nextPhase
NextPhase(c, e) ==
  LET explicit == ExplicitPhase(e)
  IN CASE explicit = "waiting" -> "waiting"
       [] explicit # "waiting" /\ c.phase = "waiting" ->
            IF explicit # "unknown" THEN explicit
            ELSE IF e.cue # "answered" /\ e.type \in {"start", "stderr", "error", "done"}
                 THEN "waiting" ELSE c.phaseBeforeWaiting
       [] explicit = "unknown" /\ c.phase # "waiting" -> c.phase
       [] explicit = "investigation" /\ c.phase \in {"editing", "verification", "publishing"} ->
            c.phase
       [] OTHER -> explicit

\* observedOutcome
Outcome(e) ==
  CASE e.type = "error" -> "failure"
    [] e.type \in {"done", "stdout", "test", "build", "lint", "server"} -> e.outcome
    [] OTHER -> "none"

-----------------------------------------------------------------------------
(* The context.                                                            *)

ContextInitial ==
  [task |-> NoTask, target |-> NoTarget, phase |-> "unknown", previousPhase |-> "unknown",
   phaseChanged |-> FALSE, targetChanged |-> FALSE, humanRequired |-> FALSE, sequence |-> 0,
   phaseBeforeWaiting |-> "unknown", inputBuffer |-> Nothing, acceptsHumanInput |-> FALSE,
   lastProgress |-> <<>>, progressAge |-> ProgressInterval, lastSpokenTarget |-> NoTarget]

\* reset
ResetContext(accepts) == [ContextInitial EXCEPT !.acceptsHumanInput = accepts]

\* The event ends what the human was asked for.
Resumes(c, e) ==
  \/ e.cue = "answered" \/ e.type = "done"
  \/ c.phase = "waiting" /\ NextPhase(c, e) # "waiting"
  \/ ~Waits(e) /\ ExplicitPhase(e) # "unknown"

HumanAfter(c, e) == e.cue = "asks" \/ (c.humanRequired /\ ~Resumes(c, e))

\* Pending targets and the phase of one event, before it is decided what to say.
Situation(c, e) ==
  LET target == IF e.target = NoTarget THEN c.target ELSE e.target
      phase == NextPhase(c, e)
  IN [c EXCEPT
        !.sequence = AtMost(@ + 1, 2),
        !.target = target,
        !.targetChanged = target # NoTarget /\ target # c.lastSpokenTarget,
        !.phaseBeforeWaiting = IF phase = "waiting" /\ c.phase # "waiting" THEN c.phase ELSE @,
        !.previousPhase = c.phase,
        !.phase = phase,
        !.phaseChanged = c.phase # phase,
        !.humanRequired = HumanAfter(c, e)]

\* progressKey and progressEventKey
ProgressKey(c, e) == <<c.task, c.phase, e.type, e.text>>

\* decideSpeech: the reason to speak, "none" when the event is only shown.
Reason(c, e) ==
  IF c.humanRequired THEN "human_required"
  ELSE IF Priority(e) = "urgent" THEN "urgent"
  ELSE IF Outcome(e) = "failure" THEN "failure"
  ELSE IF e.type = "done" THEN "completion"
  ELSE IF Outcome(e) = "success" THEN "success"
  ELSE IF c.sequence = 1 THEN "new_task"
  ELSE IF c.phaseChanged THEN "phase_change"
  ELSE IF c.targetChanged THEN "new_target"
  ELSE IF /\ Priority(e) = "progress"
          /\ c.lastProgress # ProgressKey(c, e) \/ c.progressAge >= ProgressInterval
       THEN "progress_refresh" ELSE "none"

MutSpoken(c, e, eligible, reason) ==
  [c EXCEPT
     !.lastProgress = IF Priority(e) = "progress" THEN ProgressKey(c, e) ELSE @,
     !.progressAge = IF Priority(e) = "progress" THEN 0 ELSE @,
     !.lastSpokenTarget = IF reason \in {"new_task", "new_target"} THEN c.target ELSE @]

\* What speaking leaves behind; a commentary that the gate holds back leaves
\* nothing, so that its target stays to be announced.
Spoken(c, e, eligible, reason) ==
  IF ~eligible \/ reason = "none" THEN c
  ELSE [c EXCEPT
          !.lastProgress = IF Priority(e) = "progress" THEN ProgressKey(c, e) ELSE @,
          !.progressAge = IF Priority(e) = "progress" THEN 0 ELSE @,
          !.lastSpokenTarget = IF reason \in {"new_task", "new_target"} THEN c.target ELSE @]

\* observeEvent
Observe(c, e, eligible) ==
  LET s == Situation(c, e)
      reason == Reason(s, e)
  IN [context |-> Spoken(s, e, eligible, reason), reason |-> reason]

-----------------------------------------------------------------------------
(* What the human types: a sequence of prompts, short words and keys.      *)

Keys == Prompt \cup {Short, "enter", "erase"}

\* Short words before or after a request are part of it; ^C and ^U erase all
\* of it (appendTerminalInput).
Typed(buffer, word) == IF word = Short /\ buffer # Nothing THEN buffer ELSE word

\* resumeFromHumanResponse
Resumed(c) ==
  [c EXCEPT !.phase = c.phaseBeforeWaiting, !.previousPhase = "waiting",
            !.phaseChanged = c.phaseBeforeWaiting # "waiting", !.humanRequired = FALSE]

\* A confirmed instruction starts a new task in the same terminal.
NewTask(c, prompt) ==
  [ContextInitial EXCEPT !.acceptsHumanInput = c.acceptsHumanInput, !.task = prompt]

\* The complete lines of a chunk of keys, and what is typed after them.
SplitInput(buffer, keys) ==
  FoldLeft(LAMBDA acc, key :
             CASE key = "erase" -> [lines |-> <<>>, buffer |-> Nothing]
               [] key = "enter" -> [lines |-> Append(acc.lines, acc.buffer), buffer |-> Nothing]
               [] OTHER -> [acc EXCEPT !.buffer = Typed(@, key)],
           [lines |-> <<>>, buffer |-> buffer], keys)

\* A line: a request answers what the work waits for, or is a new task.
Enter(acc, line) ==
  CASE line \notin Prompt -> acc
    [] line \in Prompt /\ acc.context.phase = "waiting" ->
         [acc EXCEPT !.context = Resumed(acc.context)]
    [] OTHER -> [context |-> NewTask(acc.context, line), newTask |-> TRUE]

\* observeInput: [context, newTask].  A new task forgets what was typed after it.
ObserveInput(c, keys) ==
  LET split == SplitInput(c.inputBuffer, keys)
      entered == FoldLeft(Enter, [context |-> [c EXCEPT !.inputBuffer = split.buffer],
                                  newTask |-> FALSE], split.lines)
  IN IF c.acceptsHumanInput THEN entered ELSE [context |-> c, newTask |-> FALSE]

-----------------------------------------------------------------------------
(* createRepeatedErrorDetector.                                            *)

DetectorInitial == [signature |-> Nothing, count |-> 0, age |-> ErrorWindow + 1,
                    alerted |-> FALSE]

MutCounted(d, e) ==
  [signature |-> e.text, count |-> AtMost(d.count + 1, ErrorThreshold), age |-> 0,
   alerted |-> d.alerted]

\* The state after an error: the streak goes on, or a new one begins.
Counted(d, e) ==
  LET goesOn == d.signature = e.text /\ d.age <= ErrorWindow
  IN [signature |-> e.text, age |-> 0,
      count |-> IF goesOn THEN AtMost(d.count + 1, ErrorThreshold) ELSE 1,
      alerted |-> goesOn /\ d.alerted]

\* observe: [detector, event].
ObserveError(d, e) ==
  LET counted == Counted(d, e)
      alert == counted.count >= ErrorThreshold /\ ~counted.alerted
  IN CASE e.type \in {"start", "done"} -> [detector |-> DetectorInitial, event |-> e]
       [] e.type = "error" -> [detector |-> [counted EXCEPT !.alerted = @ \/ alert],
                               event |-> [e EXCEPT !.alert = alert]]
       [] OTHER -> [detector |-> d, event |-> e]

\* createCommentaryGate's shouldEmit, on the age of the last progress line.
GateOpens(gate, e) == Priority(e) # "progress" \/ gate >= GateInterval
GateAfter(gate, e) == IF Priority(e) = "progress" /\ gate >= GateInterval THEN 0 ELSE gate
=============================================================================
