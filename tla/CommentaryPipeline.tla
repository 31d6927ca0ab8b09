------------------------- MODULE CommentaryPipeline -------------------------
(***************************************************************************)
(* From a chunk of terminal output to what is said about it:               *)
(* processInputData and emitEvent of index.ts, over the extractors, the    *)
(* repeated-error detector, the commentary gate and the session context,   *)
(* and comment() of commentary/orchestrator.ts, which asks the language    *)
(* models and falls back to the rules.                                     *)
(***************************************************************************)
EXTENDS Extraction, SessionContext

CONSTANTS
  Mode,         \* currentSourceMode: "auto" or a source
  Chunk,        \* what a terminal may print at once
  Input,        \* what a human may type at once
  Command,      \* what may be launched; "file" is a tailed log
  Adapter,      \* the models configured, of {"narration", "explanation"}
  MaxChunks,    \* bound: chunks of output and of input in all
  MaxSessions,  \* bound: generations, of inputs started and of those retired
  MaxPending    \* bound: commentaries in the making

ASSUME BoundsAssumption ==
  /\ MaxChunks \in Nat /\ MaxSessions \in Nat /\ MaxPending \in Nat
  /\ GateInterval \in Nat /\ ProgressInterval \in Nat /\ ErrorWindow \in Nat
  /\ ErrorThreshold \in Nat \ {0, 1}
  /\ Adapter \subseteq {"narration", "explanation"}

\* What breaks a row of errors, in the history of them.
Gap == "gap"

IsLine(line) ==
  /\ line = [text |-> line.text, says |-> line.says, target |-> line.target,
             tool |-> line.tool, command |-> line.command, outcome |-> line.outcome]
  /\ line.text # Gap

\* A chunk prints something, and a human presses keys.
ASSUME InputAssumption ==
  /\ Mode \in Sources \cup {"auto"}
  /\ \A chunk \in Chunk :
       /\ chunk.lines \in Seq(ToSet(chunk.lines))
       /\ chunk.lines # <<>> \/ chunk.partial # NoLine
       /\ \A line \in ToSet(chunk.lines) \cup {chunk.partial} : IsLine(line)
  /\ Input \subseteq Seq(Keys)

VARIABLES
  x,           \* what the extractors remember
  shown,       \* sourceState.detected
  context,     \* sessionContext
  errors,      \* repeatedErrorDetector
  gate,        \* commentaryGate: the age of the last progress commentary
  silence,     \* silenceTimer
  comments,    \* comment() promises that have not settled, oldest first
  generation,  \* commentaryGeneration
  session,     \* the generation the callbacks of the input have captured
  input,       \* what is running, or Nothing
  fed,         \* chunks so far (the bound)
  \* Observed by the properties only:
  named,       \* targets that a commentary of this task was made to name
  told,        \* the listener heard the newest request
  history,     \* the last errors, and what broke their row
  warned       \* the last error was reported as a repeated one

decisionVars == <<context, errors, gate, comments, named, told, history, warned>>
origin == <<generation, session>>
vars == <<x, shown, decisionVars, silence, origin, input, fed>>

-----------------------------------------------------------------------------
(* One event.                                                              *)

\* isSuppressedCommentaryEvent: a redraw that no rule names.
Suppressed(e) ==
  /\ e.type = "stdout" /\ e.cue = "plain"
  /\ {"rendering", "codex progress", "chrome"} \cap e.says # {}

\* The call of comment(): which models it still waits for.  `asks` marks the
\* commentary of the newest request.
Comment(e, s) ==
  [session |-> s, asks |-> e.cue = "asks", open |-> IF Suppressed(e) THEN {} ELSE Adapter]

Recent(h) == LastLines(h, ErrorThreshold + 1)

\* What the errors look like to someone who hears them.
HeardError(h, e) ==
  CASE e.type = "error" -> Recent(Append(h, e.text))
    [] e.type \in {"start", "done"} -> Recent(Append(h, Gap))
    [] OTHER -> h

\* d is a decision: [context, errors, gate, comments, named, told, history, warned].
Decision == [context |-> context, errors |-> errors, gate |-> gate, comments |-> comments,
             named |-> named, told |-> told, history |-> history, warned |-> warned]

\* The session context sees an event and, if eligible, it is commented on.
Decide(d, e, eligible, s) ==
  LET observed == Observe(d.context, e, eligible)
      made == observed.context
      asks == e.cue = "asks"
      earlier == [i \in DOMAIN d.comments |-> [d.comments[i] EXCEPT !.asks = @ /\ ~asks]]
  IN [d EXCEPT
        !.context = made,
        !.comments = IF eligible THEN Append(earlier, Comment(e, s)) ELSE earlier,
        !.named = IF eligible /\ observed.reason \in {"new_task", "new_target"}
                  THEN @ \cup {made.target} ELSE @,
        !.told = @ /\ ~asks]

MutGated(d, e, s) ==
  LET seen == ObserveError(d.errors, e)
      eligible == d.gate >= GateInterval
  IN Decide([d EXCEPT !.errors = seen.detector,
                      !.gate = IF eligible THEN 0 ELSE @,
                      !.history = HeardError(@, e),
                      !.warned = IF e.type = "error" THEN seen.event.alert ELSE @],
            seen.event, eligible, s)

\* emitEvent
EmitEvent(d, e, s) ==
  LET seen == ObserveError(d.errors, e)
      eligible == GateOpens(d.gate, seen.event)
  IN Decide([d EXCEPT !.errors = seen.detector,
                      !.gate = GateAfter(@, seen.event),
                      !.history = HeardError(@, e),
                      !.warned = IF e.type = "error" THEN seen.event.alert ELSE @],
            seen.event, eligible, s)

\* The events of a chunk, one after the other.
EmitEvents(d, events, s) == FoldLeft(LAMBDA made, e : EmitEvent(made, e, s), d, events)

Becomes(d) ==
  /\ Len(d.comments) <= MaxPending
  /\ context' = d.context /\ errors' = d.errors /\ gate' = d.gate /\ comments' = d.comments
  /\ named' = d.named /\ told' = d.told /\ history' = d.history /\ warned' = d.warned

-----------------------------------------------------------------------------
(* The input: it starts, prints, falls silent, is typed to, and ends.      *)

BareEvent(t, outcome) ==
  [type |-> t, cue |-> "plain", text |-> t, target |-> NoTarget, outcome |-> outcome,
   says |-> {}, alert |-> FALSE, answer |-> FALSE]

\* setupPTY and setupFileTail.  The start event passes neither the detector
\* nor the gate.
StartInput(cmd) ==
  /\ generation < MaxSessions
  /\ generation' = generation + 1 /\ session' = generation'
  /\ input' = cmd
  /\ x' = [ResetExtraction(x) EXCEPT !.auto = IF Mode = "auto" THEN Undecided ELSE @]
  /\ shown' = IF Mode = "auto" THEN DetectFromCommand(cmd) ELSE shown
  /\ silence' = "armed"
  /\ Becomes(Decide([Decision EXCEPT
                       !.context = ResetContext(cmd \in {"codex", "claude", "hermes"}),
                       !.gate = GateInterval, !.named = {}, !.told = FALSE],
                    BareEvent("start", "none"), TRUE, generation + 1))
  /\ UNCHANGED fed

\* restartPTY and launchAdHocSession retire the generation before anything
\* else.  A restart that is skipped, queued or does not find its profile, and
\* a launch that is refused, leave the input running under the old one.
Retire ==
  /\ generation < MaxSessions
  /\ generation' = generation + 1
  /\ UNCHANGED <<x, shown, decisionVars, silence, session, input, fed>>

\* activeSource
ActiveSource == IF Mode = "auto" /\ shown # Nothing THEN shown ELSE Mode

\* broadcastSource
ShownAfter(auto) ==
  IF Mode = "auto" /\ auto.detected # Nothing THEN auto.detected ELSE shown

\* processInputData
Output(chunk) ==
  LET read == Extract(x, chunk, ActiveSource)
  IN /\ input # Nothing /\ fed < MaxChunks
     /\ fed' = fed + 1
     /\ silence' = "armed"
     /\ x' = read.x
     /\ shown' = ShownAfter(read.x.auto)
     /\ Becomes(EmitEvents(Decision, read.events, session))
     /\ UNCHANGED <<origin, input>>

\* onSilence: whatever generation is current then.
FallsSilent ==
  /\ silence = "armed"
  /\ silence' = "fired"
  /\ Becomes(EmitEvent(Decision, [BareEvent("stdout", "none") EXCEPT !.cue = "silence"],
                       generation))
  /\ UNCHANGED <<x, shown, origin, input, fed>>

\* writeInput: a new task resets the gate and the detector with the context.
WriteInput(keys) ==
  LET observed == ObserveInput(context, keys)
  IN /\ fed < MaxChunks
     /\ fed' = fed + 1
     /\ context' = observed.context
     /\ IF observed.newTask
        THEN /\ gate' = GateInterval /\ errors' = DetectorInitial
             /\ named' = {} /\ history' = Recent(Append(history, Gap))
        ELSE UNCHANGED <<gate, errors, named, history>>
     /\ UNCHANGED <<x, shown, silence, comments, origin, input, told, warned>>

\* The terminal exits under a supervisor: the done event passes neither the
\* detector nor the gate.
InputEnds(outcome) ==
  /\ input \notin {Nothing, "file"}
  /\ input' = Nothing
  /\ silence' = "off"
  /\ Becomes(Decide(Decision, BareEvent("done", outcome), TRUE, session))
  /\ UNCHANGED <<x, shown, origin, fed>>

\* The tail reports an error: it is shown, never commented on.
TailFails ==
  /\ input = "file" /\ fed < MaxChunks
  /\ fed' = fed + 1
  /\ Becomes(Decide(Decision, BareEvent("error", "none"), FALSE, session))
  /\ UNCHANGED <<x, shown, silence, origin, input>>

Older(age, limit) == AtMost(age + 1, limit)

\* Time passes: the gate opens, a progress line may be repeated, a row of
\* errors is too old to go on.
Tick ==
  /\ gate' = Older(gate, GateInterval)
  /\ context' = [context EXCEPT !.progressAge = Older(@, ProgressInterval)]
  /\ errors' = [errors EXCEPT !.age = Older(@, ErrorWindow + 1)]
  /\ history' = IF errors.age = ErrorWindow THEN Recent(Append(history, Gap)) ELSE history
  /\ UNCHANGED <<x, shown, silence, comments, origin, input, fed, named, told, warned>>

-----------------------------------------------------------------------------
(* comment(): the models answer, fail or are waited for too long.          *)

AdapterAnswers(i) ==
  \E a \in comments[i].open :
    /\ comments' = [comments EXCEPT ![i].open = @ \ {a}]
    /\ UNCHANGED <<x, shown, context, errors, gate, silence, origin, input, fed,
                   named, told, history, warned>>

\* broadcastIfCurrentGeneration, once comment() is through.
Says(i) ==
  /\ comments' = RemoveAt(comments, i)
  /\ told' = (told \/ (comments[i].session = generation /\ comments[i].asks))
  /\ UNCHANGED <<x, shown, context, errors, gate, silence, origin, input, fed,
                 named, history, warned>>

\* commentInternal is through: the models' words, or the rules' where a
\* model failed, or all of the rules' where every model did.
CommentSettles(i) == comments[i].open = {} /\ Says(i)

\* withTimeout: what has not answered is given up, and the rules speak.
MutCommentTimesOut(i) == comments[i].open \notin {{}, Adapter} /\ Says(i)
CommentTimesOut(i) == comments[i].open # {} /\ Says(i)

-----------------------------------------------------------------------------
Init ==
  /\ x = ExtractInitial /\ shown = Nothing
  /\ context = ContextInitial /\ errors = DetectorInitial /\ gate = GateInterval
  /\ silence = "off" /\ comments = <<>> /\ generation = 0 /\ session = 0 /\ input = Nothing /\ fed = 0
  /\ named = {} /\ told = FALSE /\ history = <<>> /\ warned = FALSE

OldestCommentEnds == comments # <<>> /\ (CommentSettles(1) \/ CommentTimesOut(1))

Next ==
  \/ \E cmd \in Command : StartInput(cmd)
  \/ Retire
  \/ \E chunk \in Chunk : Output(chunk)
  \/ FallsSilent
  \/ \E keys \in Input : WriteInput(keys)
  \/ \E outcome \in {"none", "success", "failure"} : InputEnds(outcome)
  \/ TailFails
  \/ Tick
  \/ \E i \in DOMAIN comments : AdapterAnswers(i) \/ CommentSettles(i) \/ CommentTimesOut(i)

Spec == Init /\ [][Next]_vars

\* The event loop runs what has settled and every timer that is due, and the
\* timer of the oldest comment is due first; no model has to answer and
\* nobody has to type.
FairSpec == Spec /\ WF_vars(OldestCommentEnds)

-----------------------------------------------------------------------------
(* Properties.                                                             *)

TypeOK ==
  /\ shown \in Sources \cup {Nothing}
  /\ x.auto.detected \in Sources \cup {Nothing} /\ x.auto.seen \in 0..MaxDetectLines
  /\ context.phase \in Phases /\ context.task \in Prompt \cup {NoTask}
  /\ context.sequence \in 0..2
  /\ gate \in 0..GateInterval /\ context.progressAge \in 0..ProgressInterval
  /\ errors.count \in 0..ErrorThreshold /\ errors.age \in 0..(ErrorWindow + 1)
  /\ silence \in {"off", "armed", "fired"}
  /\ Len(comments) <= MaxPending
  /\ \A i \in DOMAIN comments : comments[i].open \subseteq Adapter
  /\ generation \in 0..MaxSessions /\ session \in 0..generation /\ fed \in 0..MaxChunks

\* The work never waits without an end: what it was doing before is
\* remembered and is not waiting itself, so an answer always resumes it; the
\* human is only asked for while it waits, and Hermes is never both waiting
\* for input and streaming.  What was detected is what the page is shown.
WaitingHasAWayOut ==
  /\ context.phaseBeforeWaiting # "waiting"
  /\ context.humanRequired => context.phase = "waiting"
  /\ ~(x.hermes.streaming /\ x.hermes.waitingForInput)
  /\ Len(x.hermes.seenKeys) <= SeenKeyLimit /\ IsInjective(x.hermes.seenKeys)
  /\ x.auto.detected # Nothing => shown = x.auto.detected

\* While the work waits for the human, the listener has heard the newest
\* request or its commentary is on its way: neither the gate nor a repeated
\* progress line nor an earlier request holds it back.  Not so once the
\* generation was retired while the input goes on (restartPTY, index.ts:666):
\* what the input asks from then on is dropped, and so is what was pending.
HumanIsBeingTold ==
  context.humanRequired /\ session = generation =>
    \/ told
    \/ \E i \in DOMAIN comments : comments[i].session = generation /\ comments[i].asks

\* A file counts as announced only when a commentary of this task was made
\* to name it; one first seen behind the gate stays to be announced.
AnnouncedWasNamed == context.lastSpokenTarget \in named \cup {NoTarget}

\* A repeated error is reported when its row reaches the threshold and on no
\* other error: not for a mixture, not for a row that is too old or that a new
\* task broke, not twice for one row.
LastOf(h, n) == SubSeq(h, Len(h) - n + 1, Len(h))
Same(h, n) == Len(h) >= n /\ Cardinality(ToSet(LastOf(h, n))) = 1
ReportedOncePerRow ==
  history # <<>> /\ Last(history) # Gap =>
    (warned <=> Same(history, ErrorThreshold) /\ ~Same(history, ErrorThreshold + 1))

\* The reader and the context stay in step over every input: a wait has a way
\* out, and a row of errors is reported once.
PipelineInv == TypeOK /\ WaitingHasAWayOut /\ ReportedOncePerRow

\* However the models behave, a human who is awaited hears of it, unless the
\* wait ends first or the generation of the input is retired.
HumanHears ==
  context.humanRequired /\ session = generation
    ~> (told \/ ~context.humanRequired \/ session # generation)
=============================================================================
