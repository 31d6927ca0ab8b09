--------------------------- MODULE SessionRuntime ---------------------------
(***************************************************************************)
(* The input switch of the server runtime, apps/server/src/index.ts: which *)
(* terminal or file the server listens to, how profile switches and ad hoc *)
(* launches replace it, what its exit does, and which of the commentaries  *)
(* still being generated may be broadcast.                                 *)
(*                                                                         *)
(* Node runs one callback at a time, so a callback is one action.  A       *)
(* session is named by the commentary generation its setup was given;      *)
(* generations are never reused, so the name is unique.                    *)
(***************************************************************************)
EXTENDS Naturals, Sequences, FiniteSets, InitialStart

CONSTANTS
  Profile,        \* profile ids
  Env,            \* the null profile id: run what the environment names
  AdHoc,          \* what launchSession runs: no profile at all
  None,           \* no request
  Client,         \* WebSocket clients
  Managed,        \* MANAGED_SERVER: a supervisor owns the server process
  EnvFileMode,    \* INPUT_MODE = "file"
  LookupYields,   \* profileManager.get has to read the disk (cold cache)
  MaxGeneration,  \* bound: no client request that could number past it
  MaxComments     \* bound: no line is commented on while so many are pending

Request == Profile \cup {Env}
NoSession == 0

ASSUME NamesAssumption ==
  /\ Env \notin Profile /\ AdHoc \notin Request /\ None \notin Request \cup {AdHoc}
ASSUME FlagsAssumption ==
  /\ Managed \in BOOLEAN /\ EnvFileMode \in BOOLEAN /\ LookupYields \in BOOLEAN
  /\ MaxGeneration \in Nat /\ MaxComments \in Nat

VARIABLES
  lifecycle,      \* lifecycleState
  generation,     \* commentaryGeneration
  runningProfile, \* currentlyRunningProfileId
  inFlight,       \* the request whose profile is being looked up, or None
  queuedProfile,  \* queuedProfileId
  immediates,     \* restarts handed to setImmediate, oldest first
  ptyCurrent,     \* ptyManager.current
  procs,          \* terminal processes that have not exited
  killed,         \* those among them that were sent a kill
  fileTail,       \* fileTail
  watchers,       \* tails whose fs watcher is open
  reads,          \* tails with a read in flight
  nodePty,        \* the native module: "unknown", "loaded" or "broken"
  silence,        \* silenceTimer: "off", "armed", or "fired" (active, no timer)
  comments,       \* comment() promises that have not settled
  exitTimers,     \* sessions whose exit scheduled safeCleanup
  initialStart,   \* initialStartDelivery
  open,           \* clients whose socket is open
  greeting,       \* clients whose connection handler has not sent hello
  cleaning,       \* isCleaningUp
  exited,         \* the process has exited
  \* Observed by the properties only:
  latest,         \* generation of the last setup that was begun
  missed,         \* the terminal whose exit was ignored last
  wanted,         \* the last request a client made
  answer,         \* what became of it
  heard           \* the last commentary broadcast: the session it is about,
                  \* and the latest setup when it was

restartVars == <<runningProfile, inFlight, queuedProfile, immediates>>
inputVars   == <<ptyCurrent, procs, killed, fileTail, watchers, nodePty, silence>>
clientVars  == <<open, greeting>>
endVars     == <<cleaning, exited>>
exitVars    == <<exitTimers, missed>>
userVars    == <<wanted, answer>>
sessionVars == <<lifecycle, generation, latest>>
speechVars  == <<comments, initialStart, heard>>
vars == <<restartVars, inputVars, clientVars, endVars, userVars, sessionVars,
          speechVars, reads, exitVars>>

\* What the behaviour depends on: the user variables and `missed` decide no
\* step, so a run may identify states by this whose properties do not read
\* the former, and of the latter whether it is the current terminal.
RuntimeView == <<restartVars, inputVars, clientVars, endVars, lifecycle, generation,
                 latest, speechVars, reads, exitTimers,
                 ptyCurrent # NoSession /\ missed = ptyCurrent>>

Lifecycles == {"starting", "pty_running", "file_running", "restarting",
               "failed", "pty_idle", "shutting_down", "stopped"}

\* A commentary in generation: about session `sess`, captured generation
\* `gen`.  "first" is the buffered start, "exit" the unguarded one.
CommentKinds == {"first", "start", "line", "done", "exit"}
Comment == [sess : Nat, gen : Nat, kind : CommentKinds]
Say(s, g, k) == [sess |-> s, gen |-> g, kind |-> k]

-----------------------------------------------------------------------------
(* silence-timer.ts: start, stop, and activity on output.                  *)

SilenceStarted == silence' = "armed"

MutSilenceStopped == silence' = IF silence = "armed" THEN "fired" ELSE silence
SilenceStopped == silence' = "off"

Activity == silence' = IF silence = "off" THEN "off" ELSE "armed"

(* Setting an input up.  `s` is the generation the setup is given, `b` the *)
(* start buffer as the caller leaves it.                                   *)

\* silenceTimer.stop(); ptyManager.kill(); stopFileTail(true): the tail's
\* exit handler runs inside stop() and ignores the exit.
MutOldPtyKilled == UNCHANGED killed
OldPtyKilled == killed' = killed \cup ({ptyCurrent} \cap procs)
OtherWatchers == watchers \ {fileTail}

\* setupPTY once the spawn has succeeded.
PtyStarted(s, b) ==
  /\ OldPtyKilled
  /\ ptyCurrent' = s
  /\ procs' = procs \cup {s}
  /\ fileTail' = NoSession /\ watchers' = OtherWatchers
  /\ SilenceStarted
  /\ lifecycle' = "pty_running"
  /\ generation' = s /\ latest' = s
  /\ initialStart' = Begun(b, s, open = {})
  /\ comments' = comments \cup
       {Say(s, s, IF Buffers(b, open = {}) THEN "first" ELSE "start")}

\* The old input is gone and nothing replaces it.
InputLost(s, b) ==
  /\ OldPtyKilled
  /\ ptyCurrent' = NoSession
  /\ fileTail' = NoSession /\ watchers' = OtherWatchers
  /\ SilenceStopped
  /\ lifecycle' = "failed"
  /\ generation' = s /\ latest' = s
  /\ initialStart' = b
  /\ UNCHANGED <<procs, comments>>

\* The first lines of a tailed file may already call for a commentary.
FirstLines(s) == {{}, {Say(s, s, "line")}}

\* setupFileTail, and the same when start() throws: `fileTail` keeps the
\* tail although nothing is watched.
TailStarted(s) ==
  /\ OldPtyKilled
  /\ ptyCurrent' = NoSession
  /\ fileTail' = s /\ watchers' = OtherWatchers \cup {s}
  /\ SilenceStarted
  /\ lifecycle' = "file_running"
  /\ generation' = s /\ latest' = s
  /\ initialStart' = Invalidated(initialStart)
  /\ \E lines \in FirstLines(s) :
       comments' = comments \cup lines \cup {Say(s, s, "start")}
  /\ UNCHANGED procs

TailFailed(s) ==
  /\ OldPtyKilled
  /\ ptyCurrent' = NoSession
  /\ fileTail' = s /\ watchers' = OtherWatchers
  /\ SilenceStopped
  /\ lifecycle' = "failed"
  /\ generation' = s /\ latest' = s
  /\ initialStart' = Invalidated(initialStart)
  /\ \E lines \in FirstLines(s) : comments' = comments \cup lines
  /\ UNCHANGED procs

\* What loading node-pty and spawning come to; a failed load is remembered.
Spawns       == nodePty # "broken" /\ nodePty' = "loaded"
SpawnThrows  == nodePty # "broken" /\ nodePty' = "loaded"
LoadFails    == nodePty # "loaded" /\ nodePty' = "broken"

\* handlePtyUnavailableFailure and tryStartFileFallback: INPUT_FILE is tailed
\* instead if it exists: the environment's input, whatever was asked for.
\* That setup is a fatal one: if it fails it ends the process.
FallBack(s, b) ==
  \/ InputLost(s, b) /\ UNCHANGED exited
  \/ TailStarted(s + 1) /\ UNCHANGED exited
  \/ TailFailed(s + 1) /\ exited' = TRUE

\* What becomes of a request for p, if it is the last one a client made.
Answers == {"open", "run", "failed", "skipped", "displaced"}
Answered(p, how) == answer' = IF p = wanted' THEN how ELSE answer

\* The second half of restartPTY: from the kill to the catch clauses.
SwitchToPty(p, s, b) ==
  \/ /\ Spawns /\ PtyStarted(s, b)
     /\ runningProfile' = p
     /\ Answered(p, "run")
     /\ UNCHANGED exited
  \/ /\ SpawnThrows /\ InputLost(s, b)
     /\ Answered(p, "failed")
     /\ UNCHANGED <<runningProfile, exited>>
  \/ /\ LoadFails /\ FallBack(s, b)
     /\ Answered(p, "failed")
     /\ UNCHANGED runningProfile

SwitchToFile(p, s) ==
  /\ \/ /\ TailStarted(s)
        /\ runningProfile' = p
        /\ Answered(p, "run")
     \/ /\ TailFailed(s)
        /\ Answered(p, "failed")
        /\ UNCHANGED runningProfile
  /\ UNCHANGED <<nodePty, exited>>

-----------------------------------------------------------------------------
(* restartPTY, called by a client's request and by setImmediate.           *)

Live == ptyCurrent # NoSession \/ fileTail # NoSession

\* The two early returns.
QueueRestart(p) ==
  /\ inFlight # None
  /\ queuedProfile' = p
  /\ IF p # wanted' /\ queuedProfile = wanted'
     THEN answer' = "displaced"
     ELSE Answered(p, "open")
  /\ generation' = generation + 1
  /\ initialStart' = Invalidated(initialStart)
  /\ UNCHANGED <<inputVars, lifecycle, latest, runningProfile, inFlight,
                 comments, exited>>

SkipRestart(p, force) ==
  /\ inFlight = None
  /\ ~force /\ p = runningProfile /\ Live
  /\ Answered(p, "skipped")
  /\ generation' = generation + 1
  /\ initialStart' = Invalidated(initialStart)
  /\ UNCHANGED <<inputVars, lifecycle, latest, runningProfile, inFlight,
                 queuedProfile, comments, exited>>

Switches(p, force) ==
  /\ inFlight = None
  /\ force \/ p # runningProfile \/ ~Live

\* A profile is looked up first; the null profile needs no lookup, so the
\* whole restart is one step.
BeginLookup(p, force) ==
  /\ p \in Profile /\ Switches(p, force)
  /\ inFlight' = p
  /\ Answered(p, "open")
  /\ lifecycle' = "restarting"
  /\ generation' = generation + 1
  /\ initialStart' = Invalidated(initialStart)
  /\ UNCHANGED <<inputVars, latest, runningProfile, queuedProfile,
                 comments, exited>>

RestartEnv(p, force) ==
  /\ p = Env /\ Switches(p, force)
  /\ IF EnvFileMode
     THEN SwitchToFile(p, generation + 2)
     ELSE SwitchToPty(p, generation + 2, Invalidated(initialStart))
  /\ UNCHANGED <<inFlight, queuedProfile>>

RestartPTY(p, force) ==
  /\ \/ QueueRestart(p)
     \/ SkipRestart(p, force)
     \/ BeginLookup(p, force)
     \/ RestartEnv(p, force)
  /\ UNCHANGED <<reads, exitVars, clientVars, cleaning, heard>>

\* The finally clause: the queued request is handed to setImmediate.
MutFinishDropsQueued ==
  inFlight' = None /\ queuedProfile' = None /\ UNCHANGED immediates
Finish ==
  /\ inFlight' = None
  /\ queuedProfile' = None
  /\ immediates' = IF queuedProfile = None THEN immediates
                   ELSE Append(immediates, queuedProfile)

\* The lookup settles: the profile is gone, names no file, or is switched to.
LookupSettles ==
  /\ inFlight # None /\ UNCHANGED wanted
  /\ \/ /\ Answered(inFlight, "failed")
        /\ lifecycle' \in {lifecycle, "failed"}
        /\ UNCHANGED <<inputVars, generation, latest, runningProfile,
                       comments, initialStart, exited>>
     \/ SwitchToPty(inFlight, generation + 1, initialStart)
     \/ SwitchToFile(inFlight, generation + 1)
  /\ Finish
  /\ UNCHANGED <<reads, exitVars, clientVars, cleaning, heard>>

RunImmediate ==
  /\ immediates # <<>> /\ UNCHANGED wanted
  /\ immediates' = Tail(immediates)
  /\ RestartPTY(Head(immediates), FALSE)

-----------------------------------------------------------------------------
(* What clients ask for.  A selection waits for the profile store before   *)
(* it restarts anything: by then its client may be gone and the cleanup    *)
(* begun.  A launch is acted on at once, for a greeted client.             *)

Asks(p) ==
  /\ lifecycle # "starting"
  /\ generation + 3 <= MaxGeneration
  /\ wanted' = p

\* setActiveProfile and saveProfile, once the profile store has answered.
RequestRestart(p, force) ==
  /\ Asks(p)
  /\ RestartPTY(p, force)
  /\ UNCHANGED immediates

Launches == Asks(AdHoc) /\ open \ greeting # {}

\* launchAdHocSession, and its early failure on an empty command.
LaunchRejected ==
  /\ Launches /\ answer' = "failed"
  /\ generation' = generation + 1
  /\ initialStart' = Invalidated(initialStart)
  /\ UNCHANGED <<inputVars, restartVars, clientVars, endVars, lifecycle, latest,
                 comments, heard, reads, exitVars>>

LaunchSession ==
  LET s == generation + 2
      b == Invalidated(initialStart)
  IN /\ Launches
     /\ \/ /\ Spawns /\ PtyStarted(s, b)
           /\ runningProfile' = Env /\ answer' = "run"
        \/ /\ SpawnThrows \/ LoadFails
           /\ InputLost(s, b)
           /\ answer' = "failed" /\ UNCHANGED runningProfile
     /\ UNCHANGED <<inFlight, queuedProfile, immediates, clientVars, endVars,
                    heard, reads, exitVars>>

-----------------------------------------------------------------------------
(* Output, silence and exit of the input.                                  *)

\* The commentary gate lets the line through, or it does not.
MaybeComment(c) ==
  \/ UNCHANGED comments
  \/ Cardinality(comments) < MaxComments /\ comments' = comments \cup {c}

\* onData of the current terminal: processInputData; the commentary gate
\* decides whether the line is commented on.
PtyData ==
  /\ ptyCurrent \in procs
  /\ Activity
  /\ MaybeComment(Say(ptyCurrent, ptyCurrent, "line"))
  /\ UNCHANGED <<sessionVars, restartVars, ptyCurrent, procs, killed, fileTail,
                 watchers, nodePty, reads, exitVars, initialStart, heard,
                 clientVars, endVars, userVars>>

\* A watched file changes, and the read that this started delivers its data:
\* possibly after the tail was stopped.
FileChange(s) ==
  /\ s \in watchers /\ s \notin reads
  /\ reads' = reads \cup {s}
  /\ UNCHANGED <<sessionVars, restartVars, inputVars, exitVars, speechVars,
                 clientVars, endVars, userVars>>

FileData(s) ==
  /\ s \in reads
  /\ reads' = reads \ {s}
  /\ Activity
  /\ MaybeComment(Say(s, s, "line"))
  /\ UNCHANGED <<sessionVars, restartVars, ptyCurrent, procs, killed, fileTail,
                 watchers, nodePty, exitVars, initialStart, heard,
                 clientVars, endVars, userVars>>

\* The silence line captures the generation that is current when it is said.
CurrentInput == IF ptyCurrent # NoSession THEN ptyCurrent ELSE fileTail

SilenceFires ==
  /\ silence = "armed"
  /\ silence' = "fired"
  /\ MaybeComment(Say(CurrentInput, generation, "line"))
  /\ UNCHANGED <<sessionVars, restartVars, ptyCurrent, procs, killed, fileTail,
                 watchers, nodePty, reads, exitVars, initialStart, heard,
                 clientVars, endVars, userVars>>

\* onExit.  Only the exit of the current terminal counts, and not while a
\* restart is under way.
ProcessGone(s) ==
  /\ s \in procs
  /\ procs' = procs \ {s} /\ killed' = killed \ {s}

OtherPtyExit(s) ==
  /\ ProcessGone(s)
  /\ s # ptyCurrent
  /\ UNCHANGED <<sessionVars, restartVars, ptyCurrent, fileTail, watchers,
                 nodePty, silence, reads, exitVars, speechVars, clientVars,
                 endVars, userVars>>

\* "If we're restarting, don't broadcast done or trigger cleanup"
SwallowedExit(s) ==
  /\ inFlight # None \/ queuedProfile # None
  /\ missed' = s
  /\ UNCHANGED <<lifecycle, runningProfile, ptyCurrent, comments, exitTimers>>

\* A managed server lets go of the terminal and idles.
IdleExit(s) ==
  /\ inFlight = None /\ queuedProfile = None /\ Managed
  /\ ptyCurrent' = NoSession
  /\ runningProfile' = Env
  /\ lifecycle' = "pty_idle"
  /\ comments' = comments \cup {Say(s, s, "done")}
  /\ UNCHANGED exitVars

\* An unmanaged one says goodbye and schedules its own cleanup.
FinalExit(s) ==
  /\ inFlight = None /\ queuedProfile = None /\ ~Managed
  /\ exitTimers' = exitTimers \cup {s}
  /\ comments' = comments \cup {Say(s, s, "exit")}
  /\ UNCHANGED <<lifecycle, runningProfile, ptyCurrent, missed>>

CurrentPtyExit(s) ==
  /\ ProcessGone(s)
  /\ s = ptyCurrent
  /\ SilenceStopped
  /\ SwallowedExit(s) \/ IdleExit(s) \/ FinalExit(s)
  /\ UNCHANGED <<generation, latest, inFlight, queuedProfile, immediates,
                 fileTail, watchers, nodePty, reads, initialStart, heard,
                 clientVars, endVars, userVars>>

-----------------------------------------------------------------------------
(* Commentaries settle, and clients come and go.                           *)

\* broadcastCommentary, or the buffered start sent to one client.
Hear(s) == heard' = [about |-> s, during |-> latest]

\* deliverPendingInitialStart
DeliverStart(b, someoneOpen) ==
  IF Deliverable(b, someoneOpen)
  THEN initialStart' = Consumed(b) /\ Hear(b.pending)
  ELSE initialStart' = b /\ UNCHANGED heard

\* broadcastIfCurrentGeneration, and the unguarded then() of the exit path.
MutGuarded(c) == c.kind \notin {"exit", "done"}
Guarded(c) == c.kind # "exit"

CommentSettles(c) ==
  /\ c \in comments
  /\ comments' = comments \ {c}
  /\ \/ /\ Guarded(c) => c.gen = generation
        /\ c.kind # "first"
        /\ Hear(c.sess)
        /\ UNCHANGED initialStart
     \/ /\ c.kind = "first" /\ c.gen = generation
        /\ DeliverStart(WithCommentary(initialStart, c.gen), open # {})
     \/ /\ \/ Guarded(c) /\ c.gen # generation
           \/ c.kind \in {"line", "done", "exit"}    \* comment() rejected
        /\ UNCHANGED <<initialStart, heard>>
  /\ UNCHANGED <<sessionVars, restartVars, inputVars, reads, exitVars,
                 clientVars, endVars, userVars>>

Connect(c) ==
  /\ ~cleaning /\ lifecycle # "starting"
  /\ c \notin open \cup greeting
  /\ open' = open \cup {c} /\ greeting' = greeting \cup {c}
  /\ UNCHANGED <<sessionVars, restartVars, inputVars, reads, exitVars,
                 speechVars, endVars, userVars>>

\* The connection handler after its two awaits; the socket may be closed.
Greet(c) ==
  /\ c \in greeting
  /\ greeting' = greeting \ {c}
  /\ DeliverStart(initialStart, open # {})
  /\ UNCHANGED <<sessionVars, restartVars, inputVars, reads, exitVars,
                 comments, open, endVars, userVars>>

Disconnect(c) ==
  /\ c \in open
  /\ open' = open \ {c}
  /\ UNCHANGED <<sessionVars, restartVars, inputVars, reads, exitVars,
                 speechVars, greeting, endVars, userVars>>

-----------------------------------------------------------------------------
(* Shutdown.                                                               *)

Cleanup ==
  /\ cleaning' = TRUE
  /\ lifecycle' = "shutting_down"
  /\ SilenceStopped
  /\ OldPtyKilled
  /\ ptyCurrent' = NoSession
  /\ fileTail' = NoSession /\ watchers' = OtherWatchers
  /\ open' = {}
  /\ UNCHANGED <<generation, latest, restartVars, procs, nodePty, reads,
                 speechVars, greeting, exited, userVars>>

Signal ==
  /\ ~cleaning /\ lifecycle # "starting"
  /\ Cleanup
  /\ UNCHANGED exitVars

\* safeCleanup, from the hard timeout or 100 ms after the exit commentary.
MutExitTimer(s) ==
  /\ s \in exitTimers
  /\ exitTimers' = exitTimers \ {s} /\ UNCHANGED missed
  /\ \/ ~cleaning /\ s = generation /\ Cleanup
     \/ /\ cleaning \/ s # generation
        /\ UNCHANGED <<sessionVars, restartVars, inputVars, reads, speechVars,
                       clientVars, endVars, userVars>>
ExitTimer(s) ==
  /\ s \in exitTimers
  /\ exitTimers' = exitTimers \ {s} /\ UNCHANGED missed
  /\ \/ ~cleaning /\ Cleanup
     \/ /\ cleaning
        /\ UNCHANGED <<sessionVars, restartVars, inputVars, reads, speechVars,
                       clientVars, endVars, userVars>>

\* Both servers have closed, or the 3 s timer forces the exit.
ProcessExit ==
  /\ cleaning
  /\ exited' = TRUE
  /\ lifecycle' = "stopped"
  /\ UNCHANGED <<generation, latest, restartVars, inputVars, reads,
                 exitVars, speechVars, clientVars, cleaning, userVars>>

-----------------------------------------------------------------------------

\* INPUT_FILE is not set or does not exist: a server in file mode ends.
NoInputFile ==
  /\ lifecycle' = "failed" /\ exited' = TRUE
  /\ UNCHANGED <<generation, latest, initialStart, comments, ptyCurrent,
                 procs, killed, fileTail, watchers, silence>>

\* The module body up to server.listen.
Boot ==
  /\ lifecycle = "starting"
  /\ IF EnvFileMode
     THEN /\ \/ TailStarted(generation + 1) /\ UNCHANGED exited
             \/ TailFailed(generation + 1) /\ exited' = TRUE
             \/ NoInputFile
          /\ UNCHANGED nodePty
     ELSE \/ /\ Spawns /\ PtyStarted(generation + 1, initialStart)
             /\ UNCHANGED exited
          \/ /\ SpawnThrows /\ InputLost(generation + 1, initialStart)
             /\ UNCHANGED exited
          \/ LoadFails /\ FallBack(generation + 1, initialStart)
  /\ UNCHANGED <<restartVars, reads, exitVars, heard, clientVars, cleaning,
                 userVars>>

Init ==
  /\ lifecycle = "starting"
  /\ generation = 0 /\ latest = 0
  /\ heard = [about |-> NoSession, during |-> NoSession]
  /\ runningProfile = Env /\ inFlight = None /\ queuedProfile = None
  /\ immediates = <<>>
  /\ ptyCurrent = NoSession /\ procs = {} /\ killed = {}
  /\ fileTail = NoSession /\ watchers = {} /\ reads = {}
  /\ nodePty = "unknown" /\ silence = "off"
  /\ comments = {} /\ exitTimers = {}
  /\ initialStart = EmptyStart
  /\ open = {} /\ greeting = {}
  /\ cleaning = FALSE /\ exited = FALSE
  /\ missed = NoSession /\ wanted = Env /\ answer = "run"

\* With a warm cache the lookup settles in the microtasks of the callback
\* that began it, before any other callback gets its turn.
Turn == ~exited /\ (LookupYields \/ inFlight = None)

ResolveLookup == ~exited /\ LookupSettles

OtherCallback ==
  \/ Boot
  \/ RunImmediate
  \/ \E p \in Request, force \in BOOLEAN : RequestRestart(p, force)
  \/ LaunchRejected \/ LaunchSession
  \/ PtyData \/ SilenceFires
  \/ \E s \in watchers : FileChange(s)
  \/ \E s \in reads : FileData(s)
  \/ \E s \in procs : OtherPtyExit(s) \/ CurrentPtyExit(s)
  \/ \E c \in comments : CommentSettles(c)
  \/ \E c \in Client : Connect(c) \/ Greet(c) \/ Disconnect(c)
  \/ Signal
  \/ \E s \in exitTimers : ExitTimer(s)
  \/ ProcessExit

Next == ResolveLookup \/ (Turn /\ OtherCallback)

Spec == Init /\ [][Next]_vars

\* The event loop runs every callback that is due: a lookup and an immediate
\* settle, timers fire, comment() has a timeout, a started connection handler
\* runs on.  Clients, commands, silence and signals owe nothing.
FirstStartSettles ==
  \E c \in comments : c.kind = "first" /\ CommentSettles(c)

Fairness ==
  /\ WF_vars(ResolveLookup)
  /\ WF_vars(Turn /\ RunImmediate)
  /\ WF_vars(Turn /\ ProcessExit)
  /\ WF_vars(Turn /\ \E s \in exitTimers : ExitTimer(s))
  /\ WF_vars(Turn /\ FirstStartSettles)
  /\ WF_vars(Turn /\ \E c \in greeting : Greet(c))

FairSpec == Spec /\ Fairness

-----------------------------------------------------------------------------
(* Properties.                                                             *)

TypeOK ==
  /\ lifecycle \in Lifecycles
  /\ generation \in Nat /\ latest \in Nat
  /\ heard \in [about : Nat, during : Nat]
  /\ runningProfile \in Request
  /\ inFlight \in Profile \cup {None}
  /\ queuedProfile \in Request \cup {None}
  /\ immediates \in Seq(Request)
  /\ ptyCurrent \in Nat /\ procs \subseteq Nat /\ killed \subseteq Nat
  /\ fileTail \in Nat /\ watchers \subseteq Nat /\ reads \subseteq Nat
  /\ nodePty \in {"unknown", "loaded", "broken"}
  /\ silence \in {"off", "armed", "fired"}
  /\ comments \subseteq Comment /\ exitTimers \subseteq Nat
  /\ initialStart \in StartBuffer
  /\ open \subseteq Client /\ greeting \subseteq Client
  /\ cleaning \in BOOLEAN /\ exited \in BOOLEAN
  /\ wanted \in Request \cup {AdHoc}
  /\ missed \in Nat /\ answer \in Answers

\* In a managed server no commentary of a replaced session is ever broadcast,
\* however late comment() settles: the generation captured at setup decides.
VoiceIsCurrent == Managed => heard.about = heard.during

\* Switching leaks no input: a terminal process that was not killed is the
\* manager's current one, an open watcher belongs to the current tail, and
\* the server never listens to both.
OneInput ==
  /\ procs \ killed \subseteq {ptyCurrent}
  /\ watchers \subseteq {fileTail}
  /\ watchers # {} => ptyCurrent = NoSession

\* The buffered start always belongs to the current generation: tryDeliver
\* checks no generation on the connection path and relies on every bump being
\* paired with invalidate().
PendingStartIsCurrent ==
  initialStart.pending # NoGeneration => initialStart.pending = generation

\* Once the first start was delivered, dropped or broadcast directly, it is
\* never buffered again, so no client can be sent it twice.
StartConsumedForGood ==
  [][initialStart.started /\ initialStart.consumed
       => initialStart'.consumed /\ initialStart'.pending = NoGeneration]_vars

\* The reported lifecycle state names an input only while it runs, and
\* idleness only while there is none.  A terminal that has exited is reported
\* on where its exit is about to end the server, where the server is already
\* shutting down, or where the exit was ignored, as a restart was under way
\* (onExit, index.ts:556): for good, if that restart then finds no profile.
LifecycleHonest ==
  /\ lifecycle = "pty_running" =>
       \/ ptyCurrent \in procs \ killed
       \/ ptyCurrent # NoSession /\ (ptyCurrent \in exitTimers \/ cleaning \/ missed = ptyCurrent)
  /\ lifecycle = "file_running" => fileTail \in watchers
  /\ lifecycle = "pty_idle" => ptyCurrent = NoSession /\ watchers = {}

\* The silence line is only ever said about an input that is really running:
\* every path that ends an input stops the timer.
SilenceOnlyWithInput ==
  silence # "off" => ptyCurrent \in procs \ killed \/ watchers # {}

\* What the server says of its input is about an input that runs: its remark
\* on a long silence never outlives the terminal or the tail, and the
\* lifecycle it reports only where the exit of a terminal is ignored or ends
\* the server, whatever switch, exit or failure overtakes which.
InputIsReal == LifecycleHonest /\ SilenceOnlyWithInput

\* The last selection a client made does not stay open: an input is set up
\* for it, it is reported as failed, it is skipped as already running
\* (restartPTY, index.ts:674), a later one overtakes it, or an earlier one
\* that comes back from setImmediate takes its place in the queue (668); a
\* queued request is not forgotten.  That what is skipped does run is not
\* said: after a failed switch to a file, and for the null profile after an
\* ad hoc launch, it does not.
RequestAnswered ==
  \A p \in Request :
    (wanted = p /\ answer = "open") ~> (answer # "open" \/ wanted # p \/ cleaning \/ exited)

\* A terminal that exits in an unmanaged server ends the server, even if the
\* exit commentary hangs.
ExitEndsServer == exitTimers # {} ~> exited

\* The buffered first start reaches a client that stays connected.
StartReachesClient ==
  (initialStart.pending # NoGeneration /\ open # {})
    ~> (initialStart.pending = NoGeneration \/ open = {})

-----------------------------------------------------------------------------
(* The inductive invariant behind VoiceIsCurrent and PendingStartIsCurrent *)

\* Generations only grow, and every input was set up at the latest setup or
\* before it.
SessionsDated ==
  /\ latest <= generation
  /\ \A s \in {ptyCurrent, fileTail} \cup watchers \cup reads : s <= latest

\* A guarded commentary that may still pass the generation check is about
\* the latest session.
CommentsDated ==
  \A c \in comments :
    /\ c.gen <= generation
    /\ Guarded(c) /\ c.gen >= latest => c.sess = latest
    /\ Managed => Guarded(c)

\* The silence timer runs for the latest session only.
SilenceDated == silence # "off" => CurrentInput = latest

\* A buffered start is the latest session's, and none is held across a
\* profile lookup, during which setupPTY would bump the generation alone.
StartDated ==
  initialStart.pending # NoGeneration =>
    /\ initialStart.pending = generation
    /\ initialStart.pending = latest
    /\ inFlight = None

\* Until the module body has run nothing has happened.
BootDated ==
  lifecycle = "starting" =>
    /\ inFlight = None /\ immediates = <<>> /\ open = {}
    /\ initialStart.pending = NoGeneration

\* The strengthening that the proof of both properties needs.
RuntimeInv ==
  /\ SessionsDated /\ CommentsDated /\ SilenceDated /\ StartDated /\ BootDated
  /\ VoiceIsCurrent

\* A terminal carries the number of its setup, so that a new one is neither
\* among those that were sent a kill nor mistaken for "no session".
ProcsDated == \A s \in procs \cup killed : s # NoSession /\ s <= generation

\* The strengthening behind InputIsReal.
InputInv == ProcsDated /\ InputIsReal

\* What was consumed, or never begun, holds no generation back.
ConsumedIsEmpty ==
  initialStart.consumed \/ ~initialStart.started
    => initialStart.pending = NoGeneration

-----------------------------------------------------------------------------
(* What the comments of index.ts say, and the code does not do.            *)

\* "Already running this profile - no restart needed": after a selection that
\* is skipped the session goes on, and with it its commentary, which is
\* broadcast only in its own generation.
RunningSessionIsHeard ==
  lifecycle = "pty_running" /\ inFlight = None /\ ptyCurrent \in procs
    => generation = ptyCurrent

\* "only trigger cleanup for final exit, not for profile switch": the exit
\* timer of a session ends the server only while that session is the last.
ExitCleanupIsFinal ==
  [][\A s \in exitTimers \ exitTimers' : ~cleaning /\ cleaning' => s = latest]_vars

=============================================================================
