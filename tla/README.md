# A verification development for cli-commentator

cli-commentator runs a command-line program in a pseudo-terminal (or follows a
log file), turns what the program prints into events, has each event commented
on by rules or by a language model, and sends terminal output and commentaries
over WebSockets to a web page that shows them and speaks them aloud. A Tauri
desktop application supervises the server as a child process. A second,
separate application, the companion lab, delegates work to a Codex process and
reports on it.

This directory holds TLA+ models of the parts of that system whose correctness
depends on the order in which things happen, TLC configurations that check
them on small instances, and TLAPS proofs of their main invariants for every
value of the constants. Everything is translated from the source; the file and
the lines behind each definition are in `PROJECT.json` under `map`.

To run it, in this directory:

    tlc -workers 2 -config ProfileStore_overlap.cfg MCProfileStore.tla
    tlapm ServerProofs.tla

A configuration is named `<module>_<what it shows>.cfg`; where there is a module
`MC<module>`, it is run with that, which only defines the instance's constants.
The run, its module and its properties are listed in `PROJECT.json` under `runs`.

Two conventions. Definitions that a proof expands have disjoint `CASE` arms, or
`IF`, since a `CASE` whose arms overlap has no definite value in TLA+; elsewhere
overlapping arms are read in order, as TLC evaluates them. Definitions whose name starts with `Mut` are broken variants
of the definition below them; they are used by no specification. Replacing the
definition by its variant shows that a property can fail.

## The system: an inventory

Paths are relative to `src/`. "Server" is `apps/server/src`, "web" is
`apps/web/src`, "lab" is `apps/companion-lab/src`.

| Component | State it keeps | Operations | What is hard |
|---|---|---|---|
| **Session runtime** (server `index.ts`, `pty/manager.ts`, `runtime/*`, `silence-timer.ts`) | current input (terminal or tail), lifecycle, commentary generation, buffered first start, restart in flight and one queued request, timers | boot, restart for a profile, ad hoc launch, terminal data and exit, silence, cleanup | callbacks of a replaced terminal, file or commentary arrive after its replacement; a restart awaits in the middle; failures half-way |
| **Profile store** (server `profile/*`) | `profiles.json`, a cached copy | list, get, create, update, remove, set active | handlers overlap at every await; crash between write and rename |
| **File tail** (server `input/file-tail.ts`) | read position, read in flight, watcher | start, change event, stop | appends and truncations during a read |
| **PTY control and sockets** (server `runtime/pty-owner.ts`, connection handler and message handlers; web `useCommentatorSocket.ts`, `useProfileActions.ts`, `App.tsx`) | the identity that controls the terminal, connected sockets; the page's socket, timer, style, size, open editor | connect, greet, close, reconnect, every message | messages before the greeting, a displaced controller, stale sockets, answers out of order |
| **Event pipeline** (server `extract.ts`, `rulesets/*`, `event-priority.ts`, `repeated-error-detector.ts`, `session-context.ts`) | per session: recent lines, gate times, repeated errors, task context | a chunk of output, typed input, silence | state that must survive, or be reset, when the session, the task or the phase changes |
| **Commentary** (server `commentary/*`, `llm/*`, `utils/timeout.ts`) | none beyond a call | comment on one event | a model answers late, fails, or not at all |
| **History store** (server `history/store.ts`) | settings, manifest, one JSON-lines file per session | create, append, end, list, prune, delete, settings | a lock queue; failures and crashes between a file and the manifest. Not called by the server yet |
| **Web speech** (web `speech-scheduler.ts`, `speech-lifecycle.ts`, `tts.ts`, `useTTS.ts`) | the queue, what is being spoken, recently spoken keys, a batch, a registry of read events | queue, speak, cancel, switch | engine callbacks of cancelled utterances |
| **Desktop supervisor** (`apps/desktop/src-tauri/src/server.rs`) | status, child handle, operation number | start, stop, status, shutdown | background threads and commands share one mutex |
| **Desktop panel** (web `TauriStatusPanel.tsx`, `recovery.ts`) | the status it last received | poll, start, stop, advise | answers out of order; advice from an old status |
| **Companion lab** (lab `core.ts`, `codex-client.ts`, `codex-service.ts`; `http.ts`, `mcp.ts`, `public/app.js`) | sessions, turns, pending approvals, a child process; the page's snapshot and voice | start, send, approve, stop, observe; poll, click, read aloud | notifications and answers of an old child, approvals raced by completion; requests that overtake each other |

The components interact as follows. The desktop application starts the server
process and reads its health endpoint. A page opens a WebSocket to the server;
the connection handler registers it for control of the terminal, waits for the
profile store, greets it and only then listens to its messages. A message
handler waits for the profile store, then asks the runtime to restart. The
runtime owns at most one input; its data goes through the event pipeline, each
event is broadcast at once and its commentary when it settles. The tail is one
of the two inputs. The page reads commentaries, and urgent events before them,
through the speech scheduler. The companion lab is a process of its own, which a
page polls and posts to over HTTP and other programs drive over MCP.

What makes each part correct:

- *Session runtime*: nothing about a replaced session is broadcast; there is
  one input and it is the one listened to; an input that is reported as running
  runs, but for exits the code ignores; no request stays open; the first commentary of a session reaches a client
  that connects late, once, and never that of an old session.
- *Profile store*: the file always holds a well-formed store; while operations do
  not overlap, each takes effect at once or not at all, and the cache agrees with
  the file as it was last read.
- *File tail*: nothing is skipped and nothing is repeated.
- *PTY control and sockets*: control is not lost to an observer; a page that is
  connected is listened to; pages and server agree on the style and the size; no
  page waits forever.
- *Event pipeline and commentary*: a human who is awaited hears of it, however
  the models behave, as long as the session's generation is the current one;
  nothing counts as announced that was not.
- *History store*: what was acknowledged is counted and can be read back after
  any crash; limits hold and cost nothing that is being recorded.
- *Web speech*: one line at a time, each settled once, nothing of an old session.
- *Desktop supervisor and panel*: at most one child, none left behind, and the
  panel comes to show, and advises by, what happened.
- *Companion lab*: no outcome is claimed without a completed turn, an approval
  is answered at most once and only as it was shown, a new child only after the
  old one is closed, the page catches up, and what it explains is what it shows.

## Modules

| Module | Models | Uses |
|---|---|---|
| `InitialStart` | the buffered first start, as pure operators | |
| `SessionRuntime` | the session runtime | `InitialStart` |
| `ProfileOps` | stores and the effect of an operation, as pure operators | |
| `AtomicStore` | what the profile store promises: operations that happen at once | `ProfileOps` |
| `ProfileStore` | the store's handlers, cache, file and crashes; instantiates `AtomicStore` under a refinement mapping | `ProfileOps`, `AtomicStore` |
| `FileTail` | the tail and the process that writes the log | |
| `DesktopSupervisor` | the desktop application's supervisor and its child processes | |
| `DesktopFailure` | failures, the search for the bundled runtime, and the page's advice, as pure operators | |
| `DesktopPanel` | the panel in front of the supervisor | `DesktopSupervisor`, `DesktopFailure` |
| `DesktopProofs` | theorems about the supervisor, alone and behind the panel | `DesktopPanel` |
| `Gateway` | the sockets between pages and server, with both ends | |
| `GatewayProofs` | its theorems | |
| `LineRules` | what one line of output means to which rule set | |
| `Extraction` | the events of a chunk, and what extractors remember between chunks | `LineRules` |
| `SessionContext` | phase, target, human-required, gate, repeated errors | `LineRules` |
| `CommentaryPipeline` | from a chunk to a sentence, with the models | `Extraction`, `SessionContext` |
| `FoldRule` | what a fold over a sequence keeps, for any step: a lemma to instantiate | |
| `CommentaryPipelineProofs` | its theorems | `FoldRule` |
| `WebSpeech` | reading aloud in the page | |
| `WebSpeechProofs` | its theorems | |
| `HistoryStore` | the store, call by call, with failures and crashes | |
| `ServerProofs` | theorems about the session runtime, the profile store, the tail and the history | `SessionRuntime`, `ProfileStore`, `FileTail`, `HistoryStore` |
| `CodexService` | what the companion tells of a delegated task, as pure operators | |
| `CodexClient` | the companion's client: sessions, child processes, requests, stopping, closing | `CodexService`, `LabText` |
| `CodexClientProofs` | its theorems | |
| `LabText` | what the page announces and reads out of a task, as claims | `CodexService` |
| `LabDemo` | the simulated task, as pure operators | |
| `LabPage` | the companion's page, its process, HTTP and MCP | `LabDemo`, `LabText` |
| `LabPageProofs` | its theorems | |

### SessionRuntime

One action is one callback of Node's event loop, up to its next await: nothing
else runs in between. The variables are the module's variables in `index.ts`
under the names they have there. Ghost variables, which only properties read, keep
the generation of the last setup (`latest`), what a client has heard, the last
request of a client and what became of it (`wanted`, `answer`), and the terminal
whose exit was ignored last (`missed`).

- `Boot` is the module's tail: it reads the configuration and sets up the first
  input, falls back to the file, or reports the failure.
- `RequestRestart` is a message handler that ends in `restartPTY`
  (`saveProfile`, `setActiveProfile`). The request waited for the profile store,
  so its client may be gone and the cleanup may have begun.
- `RestartPTY` is `restartPTY` up to its await: invalidation, the queue of one,
  the skip, and the switch. `LookupSettles` is everything after the await,
  including the `finally` clause that takes up the queued request.
  `LookupYields` says whether that await lets other callbacks run. It does when
  the profile store's cache is cold, and in the passing runs it may at any
  time, which allows more than the code does.
- `LaunchSession`, `LaunchRejected` are `launchAdHocSession`.
- `PtyData`, `FileData`, `FileChange`, `SilenceFires`, `CurrentPtyExit`,
  `OtherPtyExit` are callbacks of inputs, current or replaced.
- `CommentSettles` is a commentary that arrives: dropped, broadcast, or
  buffered as the first start.
- `Connect`, `Greet`, `Disconnect`, `DeliverStart` are the sockets.
- `Cleanup`, `Signal`, `ExitTimer`, `ProcessExit` end the process.

Left out: terminal input and resizing, stdin passthrough, style and source
notices, the text of events (a chunk either yields an event or not), the
handlers of uncaught errors, and `ignoredFileTailExit`, which has no effect
because `stop()` emits its exit synchronously. A socket is open from its
connection to its close, although `wss.clients` briefly holds closing ones.

Properties, with the hazards they answer:

- `VoiceIsCurrent`, a part of `RuntimeInv`: a managed server never broadcasts a
  commentary about a session that has been replaced. An unmanaged server's exit
  commentary is not guarded by the generation, so nothing is claimed of it.
- `OneInput`: at most one input is listened to, it is the one the server thinks
  it has, and no terminal or watcher is leaked.
- `PendingStartIsCurrent` (part of `RuntimeInv`), `StartConsumedForGood`,
  `StartReachesClient`: the buffered start.
- `InputIsReal`: a terminal or a tail is reported as running only while it does,
  and idleness only where nothing runs (`LifecycleHonest`), and silence is only
  remarked on while something runs (`SilenceOnlyWithInput`). A dead terminal is
  reported as running in three cases, which the property names: its exit is about
  to end the server, the server is shutting down, or its exit was ignored because
  a restart was under way (`index.ts:556`). The last one can last for good: a
  session launched during the lookup of a profile ends, and then the profile is
  not found (`index.ts:698`).
- `RequestAnswered`: the last request of a client is not left open. It is run,
  reported as failed, skipped as already running, or gives way to another: a later
  one, or an earlier one that comes back from `setImmediate` and takes the one
  place in the queue (`displaced`). That a skipped one does run is not claimed:
  after a failed switch to a file, and for the null profile after an ad hoc
  launch, `currentlyRunningProfileId` names what does not run. A displacement
  needs a lookup that awaits the disk, which the model allows more often than the
  code does (`LookupYields`).
- `ExitEndsServer`: the exit of an unmanaged server's terminal ends the server.
- Fairness of the liveness properties is that the event loop runs callbacks that
  are due: awaits that settle, immediates and timers. Nothing is assumed of
  clients, programs or signals.
- `RunningSessionIsHeard`, `ExitCleanupIsFinal` state what comments in the code
  say of the skip and of the exit cleanup, and do not hold (see below).

The proof. `RuntimeInv` is the inductive invariant. Its heart is that the commentary
generation, the generation of the current input and those of pending
commentaries and of the buffered start are ordered: a commentary that passes
the generation test can only be about an input set up since. `VoiceIsCurrent`
alone is not inductive, since it says nothing of commentaries still pending.
`OneInput` needs in addition that a terminal that is not current is dead or
being killed. `InputIsReal` is proved with `ProcsDated`, that every terminal was
set up in a generation up to the present one: the process of a new session is
then not among those that were killed. `StartConsumedForGood` is proved by
sorting the steps by what they do to the buffered start (nothing, begin it, keep
a commentary for it, or consume it), with `ConsumedIsEmpty`, that a start that
was consumed holds no generation back.

### ProfileStore

A caller is a message handler between its awaits. Its stages are the awaits of
the code: loading the file (if the cache is cold), saving the temporary file
and renaming it, updating the cache. `Restart` is the end of the process at any
point and a new one. A profile is a version number, counted up to `MaxVersion`
by updates.

A load that fails for any reason gives an empty store (`store.ts:105-108`), which
is cached like any other: the server then goes on with no profiles, and its next
save replaces the file, with every profile in it. `FileRead` may fail at any time,
and the ghost `misread` says that it did and that the file was not written since.
The ghost `overlapped` says that two operations were inside at once since the
server was started.

- `IsAtomic`: as long as no two operations overlap, the store implements
  `AtomicStore` (the refinement maps the abstract store to the file), whatever
  fails and whenever the process ends. `AtomicStore` knows of failed loads: the
  store is then an empty one to those who use it, and the file is kept until the
  first operation that succeeds.
- `CacheAgrees`: as long as no two operations overlap, what is served from memory
  is what the file holds, or the empty store after a failed load.
- `AlwaysWellFormed`: with overlapping operations too, the file never names an
  active profile it lacks.
- `CreatedProfilesPersist` does not hold where operations overlap (below).

The refinement proof uses that, until two operations overlap, at most one handler
is inside, and that past its load it holds the store that is in use (`AloneInv`);
it is for any set of handlers. `StoreWellFormed` rests on a lemma on every
operation.

### FileTail

Lines are numbered as they are written and the position counts lines of the
present file. The writer is any process: it appends and truncates at any time.
A read is two awaits, `fs.stat` and the stream, and either may fail. `Show`
and `Watch` are two actions because the writer may append in between.

- `ExactlyTheReadLines`: until the file is truncated, what was emitted is what
  lies between the first line and the position. `TailInv` is the inductive form:
  a read never asks beyond the end of the file, and the position never passes
  the size that was found.
- `ChangesAreRead` (`IdleChangeIsRead`, `ShortFileIsReread`): a change event that finds no read in
  flight leads to the lines written so far, and a file that is shorter than the
  position is read again from its start. Fairness is that events are delivered
  and file operations return, one way or the other; a read may fail, and then
  nothing is promised. Nothing is assumed of the writer.
- What a file loses that is truncated and grows past the old position before
  the next look (it is taken for an appended one) the model reaches and no
  property excludes.

Of a change event that arrives during a read nothing is claimed: the code drops
it, and what it was about is read on the next event, if one comes.

### DesktopSupervisor

The supervisor's commands and background threads share one mutex, and an action
is one critical section, or one system call between two of them. `rt` is the
structure under the mutex, field by field; `starters` and `stoppers` are the
background threads with what they captured when they were spawned; `alive` are
the child processes that run, `lost` those the system reported an error about.
`wanted`, `closing` and `exited` say what the user and the application are doing.

- `ServerStatus`, `ServerStart`, `ServerStop` are the window's commands. Each
  first refreshes the record (`BuildStatus`), which notices a child that has
  exited and probes the health of one that has not; a start searches for a port,
  numbers its operation and hands the spawn to a thread, a stop takes the handle
  out of the record and hands the killing to one.
- `Spawn`, `Adopt`, `SpawnFailed` are the steps of a start thread; `StopChild`,
  `ReportStopped` those of a stop thread. They interleave with all the others,
  and each re-checks under the lock that its operation is still the current one.
- `ChildExits`: a child may end by itself at any time.
- `CloseRequested`, `Exit` are the shutdown, which stops the child it finds with
  the lock held, and the end of the application and of its threads. The window
  sends no command once it was asked to close.

Properties, with the hazards they answer:

- `StatusHonest`, `RunningOnSelectedPort`: the status the window shows describes
  the child that is held, on the port that was chosen.
- `OneServer`, `NoStrayChild`: two starts that overlap leave one server, and a
  child that was spawned for an operation since overtaken is killed rather than
  forgotten.
- `StopEmpties`: a stop that nothing overtakes leaves no child. Fairness is that
  threads are scheduled and that the system calls they make return; no command
  is assumed.

The proof. `SupervisorInv` adds to the safety properties that operations are
numbered as they begin, that a start thread which may still be adopted holds
the selected port, and that while a child is being stopped there is no other
handle and no other stop thread with a child. `OneServer` follows from it but is
not inductive, because it says nothing of the handle a stop thread took along.
An application that exits while a background start or stop is under way
can leave a child behind. The model reaches this state; nothing in the
repository promises otherwise, so no property excludes it.

### DesktopFailure and DesktopPanel

A failure is a text of the form `[category] summary | key=value`, which the page
takes apart again. The model keeps the category and the two phrases the page's
tests look for. `SidecarFailure` is the search for the bundled runtime over an
installation (which manifests can be read, which files exist); `Guidance` is the
page's order of tests.

The panel's action is a call and its execution by the supervisor in one step;
the answer is applied at once or later, one late answer at a time, after those
of calls made in between. `installation` is where the application was started
from; `failure` is the text in the record.

- `PanelInv`: the supervisor's invariants and `OneServer`, behind a panel that
  clicks on an old status.
- `AdviceIsTrue`: whatever old status the advice is derived from, the bundle is
  blamed only if a part of it is missing, and then every failed start leads to
  that advice, or to the one about ports where no port was free.
- `PanelKeepsUp`: the panel comes to show what stays (`PanelFollows`) and is never
  locked in "starting" or "stopping" (`PanelUnlocks`). Fairness adds to that of
  the supervisor that answers arrive and that the panel polls.

Left out are the start at login, the updater, the copy buttons, and with them the
panel's own error texts. Those are appended to the status text without a
separator: after a port failure they hide `port_in_use=true`, so that the advice
becomes that of an unexpected exit, and a "permission denied" in them turns the
advice for a failed stop into the one for permissions, until the next answered
poll. The model has no such texts, so `AdviceIsTrue` says nothing of them.

### Gateway

`page` is what a page keeps, `link` is its socket with both ends and what is
under way, `server` what `index.ts` keeps, `work` the message handlers between
their awaits, `restart` the restart call of such a handler as far as pages can
tell (its real effect is `SessionRuntime`'s). All parties are on one machine,
so nothing sent on an old socket is read after the next one is accepted.

- `Accept`, `ListForGreeting`, `Greet`, `LostEarly` are the connection handler:
  it registers the page, awaits the profile store twice, greets it, and only then
  listens; what arrives before is lost.
- `Drop`, `TimerFires`, `Resubscribe`, `Reload`, `ServerStops`, `ServerStarts`:
  sockets close, reconnect after a delay, are opened anew for another port; pages
  and the server are restarted.
- `Deliver` is the page's `onmessage`, with the effects that follow; `ChooseStyle`
  to `CancelEdit` are what a person does; `SetStyle` to `RestartOver` what the
  server does about it.

Properties, with the hazards they answer:

- `GatewayInv`: types; a page has a socket, or the timer that opens the next
  (`OneWayBack`); a page that thinks it is connected is listened to
  (`ConnectedIsHeard`); an editor shows the profile last asked for
  (`EditorIsOfTheAsked`). `SocketsAreWired` is what these rest on: a socket is
  open exactly while its handler is at work, one that was closed carries nothing,
  a greeting is on its way only to a page that is listened to, and a message
  handler that awaits the store answers such a page or none.
- `PagesAgree`: the style a page shows is the server's unless it is an observer
  that chose its own (`StyleIsShared`), and the terminal has the size of the
  controller's window (`TerminalFits`), after reconnections, lost words and
  restarts of the server; in both cases as soon as what is under way has arrived.
  `SentArrives` is about the time in between, while the page's resize timer runs
  and its window is already larger or smaller: what is under way, or arrived, is
  the size last sent.
- `ControllerStays`: control passes only from nobody, or from a browser to the
  desktop window.
- `PagesAreServed`: a page comes back to a server that lives, and an editor that
  waits for a profile gets it or gives up while its socket holds. Fairness is that
  the event loops run, sockets deliver, timers fire, and the server goes on
  accepting; nothing is assumed of people, closing sockets and failures.

The proof. The invariant speaks of one page at a time, its socket, and the
server, so a step of one page is checked against that page, and against the
others only where it changes the server, which it then announces to them.
`StyleIsShared` is stated of every page that is listened to, connected or not:
said only of connected pages it is not inductive, since a page becomes connected
by the greeting it reads, and the words behind that greeting must already be the
right ones. `TerminalFits` is not inductive either, because a page that is being
resized sends nothing yet; `SentArrives` closes that gap.

What the model reaches and nothing promises otherwise: an editor whose socket
closes while it loads keeps loading after the reconnection; an error of another
request ends the wait with a form filled from the list alone, without arguments;
the list in a greeting may be older than one announced before it; the style of
the environment is overwritten by that of the stored profile only at a restart.

### LineRules, Extraction, SessionContext, CommentaryPipeline

A line of output is a record of the patterns it matches and of the file and
command it names; a regular expression is a member of a set. `LineRules` holds
the tables of the rule sets, in their order of priority, `Extraction` the
functions that read a chunk: detection of the assistant from its first lines,
the Hermes reader (which remembers lines it has told, in a bounded list, and
whether the agent streams or waits), the Codex reader (which joins cards over
several chunks), and the pass over single lines. `SessionContext` is what an
event does to the context, and when it is worth a sentence. All three are
operators; the variables are `CommentaryPipeline`'s, whose actions are:

- `StartInput`, `Output`, `FallsSilent`, `WriteInput`, `InputEnds`, `TailFails`:
  a session starts, its output is read, the silence timer fires, a human types,
  the session ends. Each is one callback of `index.ts`, with everything it calls.
- `Retire`: a restart or an ad hoc launch advances the generation before anything
  else (`index.ts:666`, `340`). Where the restart is then skipped, queued or does
  not find its profile, or the launch is refused, the session goes on under the
  generation it captured (`session`), and its commentaries no longer count.
- `AdapterAnswers`, `CommentSettles`, `CommentTimesOut`: the models behind
  `comment()`, which may answer late or never; the rules answer then.
- `Tick`: time, which only matters up to the intervals it is compared to.

Properties, with the hazards they answer:

- `HumanIsBeingTold`: while the work waits for the human, and the generation is
  still the session's, the newest request was heard or is on its way.
  `HumanHears`: and it is heard, or the wait ends, or the generation is retired.
  After that nothing is claimed, and nothing could be: the requests of a session
  that goes on under a retired generation are all dropped, which is the defect
  described below under `RunningSessionIsHeard`. Fairness is that the oldest pending comment ends, by its timer if not by an
  answer; nothing is assumed of the models.
- `AnnouncedWasNamed`: a file counts as announced only if a commentary was made
  to name it.
- `PipelineInv`: what was interrupted by a wait is a working phase, so that an
  answer always resumes it; a row of equal errors is reported once, by the
  history of the errors that were counted (`ReportedOncePerRow`).

The proof. The invariant (`IInv` of `CommentaryPipelineProofs`) says of the readers
that the assistant is decided before more lines were seen than detection looks
at, that Hermes never waits and streams at once, and that its list of told lines
has no line twice and is bounded; of the detector, that its count is the length
of the row of equal errors in the history, and that it has reported exactly the
rows that reached the threshold; of the context, that what a wait interrupted is
a working phase; that a human who is awaited was told, or that a pending
commentary of this session asks, unless its generation was retired; and that the target last spoken of was named by
a commentary of this task. A chunk is read by folds over its lines, and over the
events these give; `FoldRule` states once that what the first value has and
every step keeps, the result of the fold has, and each fold is an instance of it.
The assumptions on the constants are what the code has: limits and intervals are
numbers, detection looks at one line at least, and a row has two errors at least
(`LimitsAssumption`, `BoundsAssumption`; `detect.ts:18` says 50, and
`repeated-error-detector.ts:22` takes the larger of 2 and what it is given); a chunk holds lines or the beginning
of one, and what is typed is a sequence of keys (`InputAssumption`).

Left out: the glossary, recent events, labels and presets of sessions, fixture
tasks, measurements, and all wording. What the model reaches and no document
decides: a row of errors goes on into the next session, because the events of a
session's start and exit bypass the detector; an instruction typed while mere
silence put the work in the waiting phase is taken for an answer; the second
prompt or the same approval asked again in Hermes is dropped until enough other
lines were news; lines between a Codex approval and its command are consumed with
it.

### WebSpeech

`tts` is the scheduler with its sink and recorder, `voice` the utterances the
browser holds, also dropped ones, whose callbacks still come. A text is its
repetition key and a sequence of letters and breaks, cut into chunks as `tts.ts`
cuts it. `ServerEvent` and `Commentary` are the messages that lead to reading,
`BatchTimer` the batch of `useTTS.ts`, `PtyRestart`, `SocketCloses`, `SwitchOff`,
`SwitchOn`, `TestSpeak`, `ResetLog` what else touches the queue.

- `ReadingInv`: the queue never stands still, the voice holds one live utterance,
  which is the scheduler's (`OneLineIsRead`); the exported log adds up
  (`LogBalances`); nothing of an ended session waits or is read
  (`OnlyThisSessionIsRead`).
- `ReadAtMostOnce`: an urgent event read at once is not read again as commentary
  while the registry remembers it.
- `ReadToTheEnd`: only its own end or failure, an urgent line or a stop takes the
  voice from a line.
- `EveryLineSettles`: every line is over at some time. Fairness is that the
  batch timer fires and the browser reports the end of what it speaks.

The proof. The scheduler, its sink and the recorder are one record, changed by
functions that call each other; each is shown to keep it `Steady`, and `Loose`
where the next line has yet to be pumped. What such a function does to the lines
(`Moves`: new numbers, and none of a line the sink let go of) is all that the
voice needs. `Holds` says that the voice keeps one live utterance of the line
that is read and that no late one names a line that is read or waits: without the
second half `OneLineIsRead` is not inductive, since a late callback could settle a
line that is yet to be read. `BatchFits` keeps room for the batch's line and says
that its event was not read at once; for `ReadAtMostOnce` this matters, because
the registry is asked when a commentary arrives and the event counts only when the
batch is flushed. Where a line is cut and where it is put before the heartbeats is
found by the least or the greatest number of a set, which exist because the numbers
are well-founded.

It is assumed that a commentary whose text is not empty has something to say:
`speakWithPriority` of `tts.ts` returns before the scheduler when nothing of it is
left.

Voice settings, text cleaning and waiting times are left out. A line is
remembered as spoken when it is queued: one that an urgent line drops mutes its
repetition for 120 seconds although it was not heard. The model has it; no
document promises otherwise.

### HistoryStore

`settings`, `manifest` and `files` are the disk, `queue` and `call` the promise
chain of `withLock` and the operation that holds it, at the disk call it awaits.
Every operation is modelled call by call, and a call may fail (`DiskError`,
`AppendFails`), a read may fail (`MayFail`), an append may be cut off (`Cut`), and
the process may end at any step (`Crash`), `MaxFaults` times in all. `Tick` is a
day. Ghosts count what was acknowledged (`acked`), and say which files a deletion
or pruning has chosen (`dropped`), which had an append cut off (`damaged`), and
what a failed read made the store lose sight of (`forgotten`, `overlooked`).

A read that fails throws nothing: it gives the default settings, with saving off,
or an empty manifest (`store.ts:578-583`). So an update of the retention alone,
when it cannot read the settings, writes saving off and leaves the open sessions
open (`overlooked`). A creation or an enforcement of the limits that cannot read
the manifest writes the other sessions out of it (`forgotten`): their files stay,
unlisted, until the deletion of the last listed session removes the directory.

- `StoreInv`: types; every caller stands in the chain once and only the first has
  begun, also after operations that throw (`LockIsHandedOn`); with saving off no
  session is open that the switch has seen (`DisabledMeansClosed`, all but those
  `overlooked`), also when the process ends between the two writes of that switch;
  what an operation read before an await still holds
  when it goes on (`NothingChangesMeanwhile`).
- `CountsAreHeld`: acknowledged records of a listed session are counted, counted
  ones are on the disk and can be read; a session with acknowledged records is
  listed, unless it was chosen for removal or forgotten.
- `ActiveIsNotPruned`: limits never cost a session that is being recorded.
- `AckedWithinLimits`: an acknowledged record is within both limits.
- `OnlyLastLineIncomplete` states what a comment says, and does not hold (below).

The proof. `StoreInv` and `CountsAreHeld` are inductive together. The lock alone
does not give `CountsAreHeld`: an append counts a record in the manifest it read
three awaits earlier, so the invariant says, per await, what the operation that
holds the lock knows (`InMemory`: the manifest it keeps is the one on the disk;
`Holding`: what an await of each kind may rely on, at "count" that the file
already holds more records than the manifest counts). Steps of other callers only
queue up, and a crash drops every call. `AckedWithinLimits` needs that the
comparison of the limits before the append is still true when the record is
counted (`Within`): the settings change only under the lock, and pruning takes
out only other sessions. What counting adds to the total of a set of sizes is
shown from a solution of that recursion, which exists for every finite manifest
(`SumExists`, `CountedTotal`).

Partial reads are not modelled: a read that succeeds is what the disk holds at one
moment.

### CodexService and CodexClient

The companion's service is one record (`lab`), and each of its methods is an
operator from the record to the one it leaves: `Observed` is `onObservation`,
`Asked` is `onApproval`, `MayStart` and `Started`, `MayStop` and `StopAsked`,
`MayDecide` are the page's operations. The client calls the service back in the
same step, so there is one state machine. Of the generation, which every log
entry advances and a decision must quote, only `fresh` is kept: whether it is
still that of the approval. Operations quote the current one.

In `CodexClient`, `ctx` holds a `RunContext` per session, with the await at
which `run`, the `stopContext`s and `closeContext` stand. An action is a
callback up to its next await. Continuations of awaits that are due go first
(`Idle`), except that the messages of one chunk of the child's output are
handled before the continuation of an answer in the same chunk (`Chunk`).

- `Start`, `Stop`, `Decide` are the operations, each with what the client does
  up to its first await.
- `PreviousClosed` to `StartupStopFinished` are the steps of `run`: waiting for
  the previous session's child, the discovery child, the main child, its
  requests, and the turn.
- `StopPreviousClosed` to `InterruptTimesOut` are those of `stopContext`,
  `CloseEnds` and `CloseFails` those of `closeContext`.
- `Answered`, `RequestTimesOut`, `InterruptAnswered`, `ConnectionFails` are the
  connection: an answer that comes after its time is one that nobody waits for,
  which fails the connection. `DiscoveryExits` and `MainExits` are the children's
  close events.
- `OnTurnStarted` to `OnServerRequest` are the main child's messages, in any
  order. It is assumed that it speaks of a turn only after one was asked for,
  and tells one outcome per turn; `said` records which.

Properties, with the hazards they answer:

- `ClientInv`: what the page says of the end of a task is what the child said,
  "stopped" is said only where no turn was asked for, a new child is spawned only
  after the old one is gone, also if that one outlives SIGKILL, the service and
  the client agree on the approval that is pending, and no request is answered
  twice. `InStep` is what these rest on: the awaits of a session fit together
  (`Fits`), the service has been told what the session knows of its start, turn,
  stop and approval (`Knows`), each child is held by the session that will close
  it (`ChildrenAreHeld`), and a pending request was received and not answered
  (`RequestsAreHeld`). The end of a child is shown only where there is none
  (`EndIsShown`, with one exception below), and a decision that is said to be sent
  is the only answer to its request (`ReplyIsSent`).
- `ClaimsAreTrue`: what the page announces and reads out, and what the service
  explains when it is asked (`LabText`), as the claims it makes: an outcome, that
  the connection is closed or goes on, that a task was begun or never was, that a
  decision is awaited and which, and that it was sent. One case is excepted:
  a new task that is started while the previous child is still open gets the
  child status "closed" (`codex-client.ts:638`) until its own child runs, and for
  that time the page takes the connection for ended and disables the stop.
- `OutcomeKept`: an outcome is never taken back.
- `OperationsSettle`: a start and a stop come to an end. Fairness is that
  continuations run and timers fire (`Scheduled`). Nothing is assumed of the
  child, which may be silent forever or survive being killed, nor of the page.
- `LostConnectionIsTold` states what a document says of lost connections, and
  does not hold (below).

The proof. None of the other parts of `ClientInv` is inductive alone. That one
child runs at a time needs `blocked`: a session whose start or stop waits for the
previous child has no child, and once that is closed it is the only one that may
spawn. That no request is answered twice needs that no other session holds it, and
that a session without a turn holds none. Most steps are of one session, and made
of the same methods (`emit`, `fail`, `rejectPending`, `closeContext`, ...), also
several in one step: each is shown to lead from a context, a service and answers
that agree to others that do (`Good`), and a step that ends in such a triple
preserves the invariant (`GoodKeeps`). Three steps touch two sessions: a start, a
stop that waits for the previous child, and the end of that child. `OutcomeKept` rests
on a completed turn staying completed, and on a child telling one outcome.
`ClaimsAreTrue` follows from what the service has been told (`Knows`), with
`EndIsShown` and `ReplyIsSent`: a step of a session goes through the client's
methods, and each of them leaves the other sessions alone, takes no approval newly
for sent and no answer back, and shows the end of the child only if it was told of
it (`Onward`). The exception of `ClaimsAreTrue` is the one of `EndIsShown`: a start
that was told of the previous child's end, and has no child of its own yet
(`EndedBefore`).

`close()` at the end of the application, message contents, the checks of the
configuration and of previews, and the log are left out.

### LabDemo and LabPage

`svc` is the whole process: its companion (`LabDemo`'s record, or `CodexService`'s
with any sequence of observations from Codex), and an epoch, which stands for the
random identities of a process. A page polls (`PollBegins`, `ServePoll`,
`PollArrives`), posts an operation (`Click`, `ServePost`, `PostArrives`), asks for
the explanation of a state and reads it (`DetailArrives`, `ReadsOut`). MCP tools
operate the same service. A poll or a post may be lost before or after it was
served, and the process may be restarted (`MaxFaults` times together).

- `DecisionMeantHere`: when a decision takes effect, what it answers is what the
  page showed at the click, in this process.
- `DetailIsCurrent`: an explanation on show, or being read, is that of the state
  shown, of the same process and generation, and is read only where reading is on
  and the connection stands. One case is excepted: when the companion was restarted
  and its new process reaches a state with the generation of the one on show, the
  page takes that state and keeps the old explanation, because `render` compares
  generations only (`app.js:115`). TLC reaches this state.
- `CatchesUp`: the page shows the present state again and again. Fairness is that
  polls go on and are answered; nothing else is assumed.

What Codex may tell is any sequence of `Observations`, of the kinds its client has
(`CodexObservation`); a decision that the client reports by itself, not from the
service's own call, is always a cancellation (`codex-client.ts:596`).

The proof. The invariant says what the page can know of the process (`Knows`):
every state on the page, on its way to it or quoted by a decision is of an earlier
process, or an earlier generation of this one, or the present state itself. A
generation is never used twice for two states, because every operation and every
observation that changes the state advances it. So a decision that quotes the
present generation, with the token of the present process, quotes the present
state, and nothing else is accepted. An explanation comes from the process that
the page was loaded from, since others refuse its token; so one of the generation
on show either explains what is on show, or what is on show is of a later process.
When the process is restarted everything the page knows becomes "of an earlier
process" at once.

Single keys, focus, the repetition check of the automatic voice, and the
validation of headers and bodies are left out.

## Runs

| Configuration | Instance | What is checked |
|---|---|---|
| `SessionRuntime_managed` | 1 profile and the environment's input, 1 client, generation up to 6 | safety |
| `SessionRuntime_live` | unsupervised, generation up to 5 | liveness |
| `ProfileStore_overlap` | 2 handlers, 2 profiles, 2 versions, failed reads and writes | safety, refinement of `AtomicStore` |
| `FileTail_follow` | 5 lines, truncation and failures | safety and liveness |
| `DesktopPanel_lifecycle` | 3 operations, 2 ports, two installations | safety and liveness |
| `Gateway_pages` | a browser and a window, 2 profiles, 2 styles, 3 sizes, 2 events | safety and liveness |
| `CommentaryPipeline_pipeline` | 2 chunks or inputs, 2 generations, 11 kinds of chunk | safety and liveness |
| `WebSpeech_reading` | 3 lines, 2 urgent events, 2 sessions | safety and liveness |
| `HistoryStore_faults` | 2 sessions, 2 callers, 1 fault | safety |
| `CodexClient_task` | 2 sessions, 2 requests of approval | safety |
| `CodexClient_settles` | 2 sessions, no requests | liveness |
| `LabPage_races` | both sources, 1 post in flight, 1 fault | safety and liveness |

Bounds. `MaxGeneration` bounds the number of sessions: a request is made only
while two more sessions and the one it starts fit; with 6 there are two
successive switches with a third queued between them, with 5 one switch. Every
hazard of the runtime involves at most the current session, its predecessor and
a queued request. `MaxComments` bounds the line commentaries that are pending at
once; exits, silence and starts are not bounded by it. A server that starts on
`INPUT_FILE` (`EnvFileMode`) is not run; the theorems hold for it too.
Two handlers of the profile store overlap at each of their awaits, and `MaxVersion`
bounds the updates of a profile. `MaxWritten` bounds the lines of a
log; five lines are enough for a read in flight, one dropped event, a truncation
and a regrown file. `MaxOperations` bounds the commands given to the supervisor;
three are a start, a stop that overtakes it, and a restart that overtakes the
stop. `MaxPort` and `ScanAttempts` make the port scan both find and exhaust its
candidates. The two installations are a complete one, and one whose first manifest
cannot be read although a later place has a good one.

`MaxEvents` of `Gateway` bounds what people do, together with closing sockets,
reloads, and stops of the server: two are a fault and an act during it, or two
acts that race. With two acts and a further fault the safety properties held as
well (1.5 million states); a profile can then be gone between its saving and its
announcement. `Size` has one size that no terminal can have. In the pipeline,
limits are as small as leaves each of them both reached and not: two generations
are two sessions, or one that goes on after its generation was retired; three lines to
remember, three equal errors, an interval of one tick; two chunks are a request
and what follows it, and one chunk holds several lines. `MaxLines` of `WebSpeech`
is one line being read, one waiting and one that interrupts; `RegistryLimit` 1
with 2 events makes the registry forget. One fault in `HistoryStore` falls at
every disk call of every operation; two callers suffice because a third one would
only wait, and `MaxTime` lets a session's retention expire. `MaxSessions` bounds
the sessions of the companion, each of which meets at most its predecessor, and
`MaxRequests` the approval requests: two are a parallel request, or one that
follows another that was settled. The liveness run needs none, since neither a
start nor a stop waits for one. `MaxGen` of `LabPage` bounds the states of the
companion far enough for a decision, and `MaxPosts` the operations in flight: one
races the poll and MCP. The theorems hold for every value of the bounds of their
modules.

The `managed` run uses a VIEW that leaves out the ghost variables only other
properties read, and of `missed` all but whether it is the current terminal; the runs of `MCCodexClient` one that forgets what a session that
is over can no longer show. `HistoryStore_faults` is reduced by the symmetry of
sessions and callers, `ProfileStore_overlap` by that of profiles and handlers, which
their safety properties respect.

Deadlock is not checked where a process really may stop: the server exits, a tail
is stopped, the application ends, the companion's sessions are used up, the people
at the pages have done what `MaxEvents` allows and everything they asked for is
delivered.

## Theorems

| Module | Theorem | Says |
|---|---|---|
| `ServerProofs` | `TypeCorrect`, `RuntimeInvariant` | types and the generation discipline are invariant |
| | `VoiceSafety`, `PendingStartSafety`, `OneInputSafety`, `InputSafety` | `VoiceIsCurrent`, `PendingStartIsCurrent`, `OneInput`, `InputIsReal` |
| | `StartConsumedOnce` | `StartConsumedForGood`: a buffered start that was consumed is never buffered again |
| | `StoreTypeCorrect`, `StoreWellFormed` | the profile store, for any number of handlers |
| | `AloneIsAtomic`, `AloneCacheAgrees` | the profile store, for any number of handlers while no two operations overlap, by refinement |
| | `TailTypeCorrect`, `TailInvariant`, `NothingSkippedOrRepeated` | the tail, for any number of lines |
| | `StoreInvariant`, `LimitsInvariant` | the invariants of the history: lock, disk and limits, for any callers, sessions, limits and faults |
| | `StoreSafety`, `CountsSafety`, `PruningSpares`, `RecordsFit` | `StoreInv`, `CountsAreHeld`, `ActiveIsNotPruned`, `AckedWithinLimits` |
| `DesktopProofs` | `TypeCorrect`, `SupervisorInvariant`, `ChildrenAreOwned`, `OneServerSafety` | for any number of commands and ports |
| | `PanelDrivesSupervisor` | the supervisor behind the panel behaves as the supervisor alone: every theorem about it carries over |
| | `OneServerBehindThePanel`, `PanelInvariant` | types, bookkeeping and one server at a time, behind the panel |
| | `AdviceFollowsTheFailure` | the advice is true, from every installation |
| `GatewayProofs` | `TypeCorrect`, `GatewayInvariant` | types; the invariant of pages, sockets and server, for any pages, profiles, styles and sizes |
| | `GatewaySafety`, `AgreementSafety` | `GatewayInv`, `PagesAgree` |
| | `ControlStays` | `ControllerStays` |
| `CommentaryPipelineProofs` | `Inductive` | the invariant of readers, detector, gate, context and pending commentaries, for any chunks, commands and limits |
| | `InStep`, `HumanTold`, `TargetsNamed` | `PipelineInv`, `HumanIsBeingTold`, `AnnouncedWasNamed` |
| `CodexClientProofs` | `ClientInvariant` | the invariant of service, sessions, children and requests, for any number of sessions, turns and requests |
| | `ClientSafety`, `OutcomeStays`, `ClaimsHold` | `ClientInv`, `OutcomeKept`, `ClaimsAreTrue` |
| `LabPageProofs` | `PageInvariant` | the invariant of page, requests and process, for any number of requests, losses and restarts |
| | `DetailSafety`, `DecisionsAsMeant` | `DetailIsCurrent`, `DecisionMeantHere` |
| `WebSpeechProofs` | `SpeechInvariant` | the invariant of scheduler, voice, batch and registry, for any lines, lengths, limits and sessions |
| | `ReadingSafety`, `ReadOnce` | `ReadingInv`, `ReadAtMostOnce` |
| | `ReadingGoesOn` | `ReadToTheEnd`: a line keeps the voice until it is over |

They assume only the modules' named assumptions on constants.

The proof of `AdviceFollowsTheFailure` rests on `AdviceInv`: from an installation
that lacks a part nothing is ever started (`NeverStarted`), and every status
there is, in the record, on its way and on the screen, carries a failure that the
installation can cause (`Caused`). `AdviceIsTrue` alone is not inductive, since it
says nothing of the answers that are still to arrive.

Every safety property that a run checks has its theorem. Only model-checked are
the liveness properties (`RequestAnswered`, `ExitEndsServer`, `StartReachesClient`,
`ChangesAreRead`, `StopEmpties`, `PanelKeepsUp`, `PagesAreServed`, `HumanHears`,
`EveryLineSettles`, `OperationsSettle`, `CatchesUp`), since the prover does not
handle fairness.

## What the code does not keep

Five definitions state what a comment, a document or a test says and the code
does not do. No configuration here asks for them; TLC refutes each within seconds
in place of the properties of `SessionRuntime_managed.cfg`, `SessionRuntime_live.cfg`
(as a PROPERTY, under `Spec`), `ProfileStore_overlap.cfg` (as a PROPERTY),
`CodexClient_task.cfg` without its VIEW, and `HistoryStore_faults.cfg`, in the order
they are listed here.

- `RunningSessionIsHeard` ("Already running this profile - no restart needed",
  `index.ts:675`). `restartPTY` retires the commentary generation before it
  decides to skip, and the session it leaves running keeps the generation of its
  setup: all its later commentaries fail the generation test. The session it names
  need not be running at all: the comparison reads the configuration, which an ad
  hoc launch and a failed switch to a file leave unchanged.
- `ExitCleanupIsFinal` ("only trigger cleanup for final exit, not for profile
  switch", `index.ts:548`). The exit of an unmanaged terminal arms a timer that
  does not check whether the terminal is still current: a profile selected before
  it fires starts a session that the cleanup kills.
- `CreatedProfilesPersist` (`profile.manager.test.ts:129`, create "persists to
  disk"). Every operation saves the store it read before its awaits, with no lock
  between handlers: one that overlaps a creation replaces the file, and the cache,
  by a store without the created profile, although that was acknowledged. A load that failed
  does the same to every profile in the file; the definition leaves that case out.
- `LostConnectionIsTold` (`docs/reconstruction/codex-bridge.ja.md:33`: after an
  abnormal notification, a cut connection or an expired time the state cannot be
  confirmed). When `turn/start` times out the state becomes unknown and the child
  is told to end; a `turn/started` that it still sends makes the state running
  again, and the close that follows, an expected one, changes nothing. The page
  then says that the AI works on a connection that is closed, and neither start
  nor stop is possible. A child that answers an interrupt and ends without the end
  of its turn leaves the state at "stopping" in the same way.
- `OnlyLastLineIncomplete` ("A crash can leave only the final JSONL line
  incomplete", `history/store.ts:279`). `appendRecord` appends behind whatever the
  file ends with: after an append that was cut off, or failed half way without any
  crash, the next record, which is acknowledged, completes that fragment to an
  unparsable line in the middle, and every later read of the session throws.

## Not modelled

The wording of commentaries (`rule-based.ts`, `beginner-lines.ts`,
`bash-meaning.ts`, `narration-subject.ts`, `styles/prompt.ts`, `redact.ts`) is text
produced from arguments, without state. LLM providers appear only as commentaries
that settle late, fail or never come. The rendering of the web view and its
guidance texts are derived state; the messages of the shared protocol are their
kinds. Offline evaluation, release and packaging scripts have no run-time
behaviour. What is left out inside a modelled component is said in its section
above.

## Plan

1. Done: `SessionRuntime`, `ProfileStore`, `FileTail`, `DesktopSupervisor` and
   `DesktopPanel` with their proofs; `CodexClient`, `LabPage`, `Gateway`,
   `CommentaryPipeline`, `WebSpeech`, `HistoryStore`.
2. Done: the proofs of `Gateway`, `HistoryStore`, `CodexClient`, `WebSpeech`,
   `CommentaryPipeline` and `LabPage`, and the rest of `SessionRuntime`'s: every
   safety property that is checked is proved.
3. To state: an abstract contract of a delegated task (asked, answered, over) that
   `CodexClient` implements, and an abstract log of records for `HistoryStore`.
