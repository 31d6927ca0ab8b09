------------------------------ MODULE LabPage -------------------------------
(***************************************************************************)
(* apps/companion-lab: the page (public/app.js) and the process it talks   *)
(* to, which serves one companion, simulated or connected to Codex, over   *)
(* HTTP (http.ts) and MCP (mcp.ts).  The page polls, posts operations and  *)
(* reads out; requests are served and answers arrive in any order, either  *)
(* may be lost, and the process may be restarted.  What Codex does is any  *)
(* sequence of Observations.                                               *)
(*                                                                         *)
(* A snapshot is the whole state `svc`.  Its `epoch` stands for what the   *)
(* random identities of a process, its csrf token too, tell apart.         *)
(***************************************************************************)
EXTENDS Integers, LabDemo, LabText, FiniteSets

CONSTANTS
  Sources,       \* kinds of companion: "simulation", "codex"
  Observations,  \* observations the client of Codex may make
  Null, Refused,
  MaxPosts, MaxFaults,
  MaxGen         \* bounds; that of the generation, by source and epoch

\* CodexObservation (codex-client.ts).  That a decision was sent is left to
\* TaskResults; by itself the client only cancels.
Observation ==
  [type : {"child-status"},
   status : {"starting", "running", "closing", "closed", "unknown"}, expected : BOOLEAN]
  \cup [type : {"turn-started", "item", "command-completed"}, turn : Turns]
  \cup [type : {"turn-completed"}, turn : Turns, outcome : Outcome]
  \cup [type : {"approval-response-sent"}, id : Nat, decision : {"cancel"}]
  \cup [type : {"approval-revoked"}, id : Nat]
  \cup [type : {"thread-started", "startup-stopped", "stop-unconfirmed",
                "unsupported-request", "protocol-failure"}]

ASSUME SourcesAssumption ==
  Sources \subseteq {"simulation", "codex"} /\ Observations \subseteq Observation
ASSUME BoundsAssumption == MaxPosts \in Nat /\ MaxFaults \in Nat

VARIABLES
  svc,    \* [epoch, source, core]: the process and its companion
  page,   \* the page, a record
  poll,   \* the state fetch under way, or Null
  posts,  \* the operations under way
  faults  \* messages lost and restarts so far

vars == <<svc, page, poll, posts, faults>>

-----------------------------------------------------------------------------
(* The companion.                                                          *)

\* `asked` counts requests for approval; `of` is the generation that the
\* last of them expects.
InitialTask == [gen |-> 0, task |-> InitialService, asked |-> 0, of |-> 0]

Task == [gen : Nat, task : Service, asked : Nat, of : Nat]
Snapshot == [epoch : Nat, source : {"simulation"}, core : Demo]
            \cup [epoch : Nat, source : {"codex"}, core : Task]

ASSUME NullAssumption == Null \notin Snapshot

Fresh(source) == IF source = "codex" THEN InitialTask ELSE InitialDemo

Gen(v) == v.core.gen
Room(v) == Gen(v) <= MaxGen[v.source][v.epoch]
IsCodex(v) == v.source = "codex"
StatusOf(v) == IF IsCodex(v) THEN v.core.task.status ELSE v.core.status
\* The session and the approval as requests name them.
SessionOf(v) ==
  LET n == IF IsCodex(v) THEN v.core.task.session ELSE v.core.session
  IN IF n = 0 THEN Null ELSE <<v.epoch, n>>
ApprovalOf(v) ==
  IF IsCodex(v) THEN [id |-> v.core.task.approval.id, of |-> v.core.of,
                      status |-> v.core.task.approval.status]
  ELSE [id |-> v.core.approval.of, of |-> v.core.approval.of,
        status |-> v.core.approval.status]

\* What a service method leaves of the core; the methods of Codex may find
\* that their client cannot send what they ask for.
DemoResults(d, p) ==
  CASE p.op = "start" /\ MayStartDemo(d, p.gen) -> {DemoStarted(d)}
    [] p.op = "advance" /\ MayAdvanceDemo(d, p.gen) -> {DemoAdvanced(d)}
    [] p.op = "stop" /\ MayStopDemo(d) -> {DemoStopped(d)}
    [] p.op \in {"approve", "reject"} /\ p.approval = d.approval.of
         /\ MayDecideDemo(d, IF p.session = Null THEN 0 ELSE p.session[2], p.gen) ->
         {DemoDecided(d, p.op)}
    [] OTHER -> {d}

Recording(c, task) == [c EXCEPT !.task = task, !.gen = @ + 1]

TaskMayDecide(c, p) ==
  /\ p.session # Null /\ p.session[2] = c.task.session
  /\ p.approval = c.task.approval.id /\ p.gen = c.of
  /\ MayDecide(c.task, p.op = "approve")

TaskResults(c, p) ==
  CASE p.op = "start" /\ p.gen = c.gen /\ MayStart(c.task) ->
         {Recording(c, Started(c.task))}
    [] p.op = "stop" /\ MayStop(c.task) ->
         {Recording(c, StopAsked(c.task)),
          Recording(Recording(c, StopAsked(c.task)), StopTargetLost(StopAsked(c.task)))}
    [] p.op \in {"approve", "reject"} /\ TaskMayDecide(c, p) ->
         {Recording(c, DecisionLost(c.task)),
          Recording(c, ResponseApplied(c.task, ResponseSent(c.task.approval.id,
            IF p.op = "approve" THEN "accept" ELSE "decline")))}
    [] OTHER -> {c}

\* What a request may leave, if it is this process's page that sends it.
Results(v, p) ==
  {[v EXCEPT !.core = c] :
     c \in IF IsCodex(v) THEN TaskResults(v.core, p) ELSE DemoResults(v.core, p)}

-----------------------------------------------------------------------------
(* The page.  `unknown` is connectionUnknown, `detail` says what state the *)
(* explanation on show is about, or is Null, and `voice` what is being     *)
(* read, the detail or "none" of it;                                       *)
(* `aloud` is the toggle for reading it.  Of a request for the detail,     *)
(* `say` is what its counters still allow: read it, show it, or drop it.   *)
(* What is read of the state by itself is left out: it is read when a      *)
(* state is shown, which has stopped what was read before.                 *)
(*                                                                         *)
(* Operators on the page and its posts, u.                                 *)

Now == [page |-> page, posts |-> posts]
Becomes(u) == page' = u.page /\ posts' = u.posts

Last(p) == IF p.snap = Null THEN -1 ELSE Gen(p.snap)

NoRequest == [op |-> "none", token |-> 0, gen |-> 0, session |-> Null, approval |-> 0,
              shown |-> Null, say |-> "drop", answer |-> Null]

\* stopSpeech and cancelSpeechPlayback.  It does not matter any more what a
\* request that is dropped has asked for.
StopSpeech(u) ==
  [page |-> [u.page EXCEPT !.voice = "none"],
   posts |-> {IF p.op = "explain" THEN NoRequest ELSE p : p \in u.posts}]
CancelSpeechPlayback(u) ==
  [page |-> [u.page EXCEPT !.voice = "none"],
   posts |-> {[p EXCEPT !.say = IF @ = "aloud" THEN "show" ELSE @] : p \in u.posts}]
SpeakText(u, what) == [StopSpeech(u) EXCEPT !.page.voice = what]

\* markConnectionUnknown
MarkConnectionUnknown(u) ==
  IF u.page.unknown THEN u
  ELSE StopSpeech([u EXCEPT !.page.unknown = TRUE])

\* hasCodexStateChanged
HasCodexStateChanged(old, v) ==
  IF old = Null \/ ~IsCodex(old) THEN TRUE
  ELSE LET a == old.core.task
           b == v.core.task
       IN <<a.turnStatus, a.child, a.stopRequested>> # <<b.turnStatus, b.child, b.stopRequested>>

\* render, of a snapshot the page does not pass over.
Shows(u, v) ==
  LET p == u.page
      w == [u EXCEPT !.page.snap = v, !.page.unknown = FALSE]
  IN IF p.snap = Null \/ Gen(v) = Last(p) THEN w
     ELSE StopSpeech([w EXCEPT !.page.detail = Null])

MutRenderStuck(u, v, polled, at) ==
  CASE Gen(v) < Last(u.page) ->
         IF polled /\ Last(u.page) <= at THEN MarkConnectionUnknown(u) ELSE u
    [] Gen(v) = Last(u.page) -> u
    [] OTHER -> Shows(u, v)
\* render: an earlier generation is an answer that was overtaken, or, where a
\* poll has begun after the page had shown a later one, another process's.
Render(u, v, polled, at) ==
  LET p == u.page IN
  CASE Gen(v) < Last(p) ->
         IF polled /\ Last(p) <= at THEN MarkConnectionUnknown(u) ELSE u
    [] /\ Gen(v) = Last(p) /\ ~p.unknown
       /\ ~(IsCodex(v) /\ HasCodexStateChanged(p.snap, v)) -> u
    [] OTHER -> Shows(u, v)

\* The controls, as render leaves them.
Active(v) == StatusOf(v) \in {"starting", "running", "awaiting-human", "stopping"}
Enabled(p, op) ==
  LET v == p.snap IN
  /\ v # Null /\ ~p.unknown
  /\ CASE op = "start" ->
            /\ ~Active(v)
            /\ ~(IsCodex(v) /\ StatusOf(v) = "unknown" /\ v.core.task.child # "closed")
       [] op = "advance" -> ~IsCodex(v) /\ StatusOf(v) = "running"
       [] op = "stop" ->
            IF IsCodex(v) THEN v.core.task.child # "closed" /\ ~v.core.task.stopRequested
            ELSE StatusOf(v) \notin DemoOver
       [] op = "approve" ->
            ApprovalOf(v).status = "pending" /\ (IsCodex(v) => v.core.task.approval.safe)
       [] op = "reject" -> ApprovalOf(v).status = "pending"
       [] op = "explain" -> TRUE

\* (hold changes nothing, neither in the service nor on the page.)
Operation == {"start", "advance", "stop", "approve", "reject", "explain"}

\* What a click posts, and in `shown` what the person who decides saw.
Decides == {"approve", "reject"}
Request(p, op) ==
  [op |-> op, token |-> p.token,
   gen |-> CASE op \in Decides -> ApprovalOf(p.snap).of
             [] op \in {"start", "advance", "explain"} -> Gen(p.snap)
             [] OTHER -> 0,
   session |-> IF op \in Decides \cup {"explain"} THEN SessionOf(p.snap) ELSE Null,
   approval |-> IF op \in Decides THEN ApprovalOf(p.snap).id ELSE 0,
   shown |-> IF op \in Decides THEN p.snap ELSE Null,
   say |-> CASE op # "explain" -> "drop"
             [] op = "explain" /\ p.aloud -> "aloud"
             [] OTHER -> "show",
   answer |-> Null]

-----------------------------------------------------------------------------
(* What the page does.                                                     *)

\* schedulePolling and refreshState: one fetch at a time, after the token.
PollBegins ==
  /\ poll = Null /\ page.token # 0
  /\ poll' = [at |-> Last(page), answer |-> Null]
  /\ UNCHANGED <<svc, page, posts, faults>>

\* refreshCsrf, once for the life of the page.
RefreshCsrf ==
  /\ poll = Null /\ page.token = 0
  /\ page' = [page EXCEPT !.token = svc.epoch]
  /\ poll' = [at |-> Last(page), answer |-> Null]
  /\ UNCHANGED <<svc, posts, faults>>

PollArrives ==
  /\ poll # Null /\ poll.answer # Null
  /\ Becomes(Render(Now, poll.answer, TRUE, poll.at))
  /\ poll' = Null
  /\ UNCHANGED <<svc, faults>>

Click(op) ==
  /\ Enabled(page, op) /\ Cardinality(posts) < MaxPosts
  /\ posts' = posts \cup {Request(page, op)}
  /\ UNCHANGED <<svc, page, poll, faults>>

\* post, of an operation: the snapshot, if it was not refused for its token.
PostArrives(p) ==
  /\ p \in posts /\ p.answer # Null /\ p.op # "explain"
  /\ LET u == [Now EXCEPT !.posts = @ \ {p}] IN
     Becomes(IF p.answer = Refused THEN u ELSE Render(u, p.answer, FALSE, 0))
  /\ UNCHANGED <<svc, poll, faults>>

MutTakesDetail(u, p) ==
  /\ p.answer # Refused /\ ~u.page.unknown
  /\ u.page.snap.core.gen = p.gen /\ p.say # "drop"
\* An explanation is for the state that it was asked for.
TakesDetail(u, p) ==
  /\ p.answer # Refused /\ ~u.page.unknown
  /\ p.answer.gen = p.gen /\ Gen(u.page.snap) = p.gen
  /\ SessionOf(u.page.snap) = p.session
  /\ p.say # "drop"

\* showDetail, after its await.
DetailArrives(p) ==
  /\ p \in posts /\ p.answer # Null /\ p.op = "explain"
  /\ LET u == [Now EXCEPT !.posts = @ \ {p}]
         v == [u EXCEPT !.page.detail = p.answer]
     IN Becomes(CASE ~TakesDetail(u, p) -> u
                  [] TakesDetail(u, p) /\ p.say = "aloud" /\ page.aloud ->
                       SpeakText(v, "detail")
                  [] OTHER -> v)
  /\ UNCHANGED <<svc, poll, faults>>

\* speakLatest and announceAvailableControls, which read something else.
ReadsOut ==
  /\ page.snap # Null /\ ~page.unknown /\ Gen(page.snap) > 0
  /\ Becomes(SpeakText(Now, "none"))
  /\ UNCHANGED <<svc, poll, faults>>

\* The button that stops the voice, or Escape.
StopSpeechWithNotice == Becomes(StopSpeech(Now)) /\ UNCHANGED <<svc, poll, faults>>

VoiceEnds ==
  /\ page.voice # "none"
  /\ page' = [page EXCEPT !.voice = "none"]
  /\ UNCHANGED <<svc, poll, posts, faults>>

ToggleSpeakDetail ==
  /\ LET u == [Now EXCEPT !.page.aloud = ~@] IN
     Becomes(IF page.aloud THEN CancelSpeechPlayback(u) ELSE u)
  /\ UNCHANGED <<svc, poll, faults>>

NewPage == [snap |-> Null, unknown |-> FALSE, token |-> 0, detail |-> Null,
            voice |-> "none", aloud |-> FALSE]

\* The answers to what was under way have no one to go to.
Reload ==
  /\ page.token # 0 /\ page.token # svc.epoch
  /\ page' = NewPage /\ poll' = Null /\ posts' = {}
  /\ UNCHANGED <<svc, faults>>

-----------------------------------------------------------------------------
(* The process and the network.                                            *)

\* handleRequest: /api/state
ServePoll ==
  /\ poll # Null /\ poll.answer = Null
  /\ poll' = [poll EXCEPT !.answer = svc]
  /\ UNCHANGED <<svc, page, posts, faults>>

Serves(p) == IF p.token # svc.epoch THEN {svc} ELSE Results(svc, p)

\* What state an explanation is about.  Its generation is in the answer; the
\* process is the one that gave it.
Explanation(v) == [epoch |-> v.epoch, gen |-> Gen(v)]

\* The answer to p; nothing else of an operation matters any more.
Answered(p, v) ==
  CASE p.op = "explain" /\ p.token = svc.epoch -> [p EXCEPT !.answer = Explanation(v)]
    [] p.op # "explain" /\ p.token = svc.epoch ->
         [NoRequest EXCEPT !.answer = v]
    [] OTHER -> [NoRequest EXCEPT !.answer = Refused]

\* handleRequest: a post, with its token, then the method.
ServePost(p) ==
  /\ p \in posts /\ p.answer = Null
  /\ \E v \in Serves(p) :
       /\ Room(v)
       /\ svc' = v
       /\ posts' = (posts \ {p}) \cup {Answered(p, v)}
  /\ UNCHANGED <<page, poll, faults>>

\* A request or its answer does not come through.
LosePoll ==
  /\ poll # Null /\ faults < MaxFaults
  /\ faults' = faults + 1 /\ poll' = Null
  /\ Becomes(MarkConnectionUnknown(Now))
  /\ UNCHANGED svc
LosePost(p) ==
  /\ p \in posts /\ faults < MaxFaults
  /\ faults' = faults + 1
  /\ Becomes(MarkConnectionUnknown([Now EXCEPT !.posts = @ \ {p}]))
  /\ UNCHANGED <<svc, poll>>

\* The tools of mcp.ts; the caller knows the generation, or an earlier one.
McpTool ==
  /\ \E op \in {"start", "advance", "stop"}, g \in 0 .. Gen(svc) :
       /\ op = "advance" => ~IsCodex(svc)
       /\ svc' \in Results(svc, [op |-> op, gen |-> g])
  /\ svc' # svc /\ Room(svc')
  /\ UNCHANGED <<page, poll, posts, faults>>

\* onObservation and onApproval
CodexTells ==
  /\ IsCodex(svc) /\ svc.core.task.session # 0
  /\ LET c == svc.core IN
     \/ \E o \in Observations :
          /\ ~Ignores(c.task, o)
          /\ svc' = [svc EXCEPT !.core = Recording(c, Observed(c.task, o))]
     \/ \E t \in Turns, safe \in BOOLEAN :
          /\ Asked(c.task, c.asked + 1, t, safe) # c.task
          /\ svc' = [svc EXCEPT !.core =
               [Recording(c, Asked(c.task, c.asked + 1, t, safe)) EXCEPT
                  !.asked = @ + 1, !.of = c.gen + 1]]
  /\ Room(svc')
  /\ UNCHANGED <<page, poll, posts, faults>>

\* shutdown of main.ts or mcp-main.ts, which closes all connections, and a new
\* process, started the same way: what was not answered fails.
Restart ==
  /\ faults < MaxFaults /\ faults' = faults + 1
  /\ svc' = [svc EXCEPT !.epoch = @ + 1, !.core = Fresh(svc.source)]
  /\ LET cut == {p \in posts : p.answer = Null}
         u == [Now EXCEPT !.posts = @ \ cut]
         fails == poll # Null /\ poll.answer = Null
     IN /\ Becomes(IF cut # {} \/ fails THEN MarkConnectionUnknown(u) ELSE u)
        /\ poll' = IF fails THEN Null ELSE poll

-----------------------------------------------------------------------------

Init ==
  /\ \E source \in Sources : svc = [epoch |-> 1, source |-> source, core |-> Fresh(source)]
  /\ page = NewPage
  /\ poll = Null /\ posts = {} /\ faults = 0

Polls == PollBegins \/ RefreshCsrf \/ ServePoll \/ PollArrives

Next ==
  \/ Polls
  \/ \E op \in Operation : Click(op)
  \/ \E p \in posts : ServePost(p) \/ PostArrives(p) \/ DetailArrives(p) \/ LosePost(p)
  \/ ReadsOut \/ StopSpeechWithNotice \/ VoiceEnds
  \/ ToggleSpeakDetail \/ Reload
  \/ LosePoll \/ McpTool \/ CodexTells \/ Restart

Spec == Init /\ [][Next]_vars

FairSpec == Spec /\ WF_vars(Polls)

-----------------------------------------------------------------------------

\* Types of the variables.
TypeOK ==
  /\ svc \in Snapshot /\ svc.epoch \in 1 .. MaxFaults + 1 /\ svc.source \in Sources
  /\ page.token \in 0 .. MaxFaults + 1
  /\ page.unknown \in BOOLEAN /\ page.voice \in {"none", "detail"}
  /\ Cardinality(posts) <= MaxPosts /\ faults \in 0 .. MaxFaults

\* companion-lab.ja.md and codex-bridge.ja.md: a person decides what is on
\* the screen.  When a decision is taken, the request it answers, and all that
\* is said of it, is what the page showed at the click, by this process.
DecisionMeantHere ==
  [][/\ ApprovalOf(svc').status \in {"approve", "reject", "sent", "decline"}
      /\ ApprovalOf(svc').status # ApprovalOf(svc).status
     => \E p \in posts : p.answer = Null /\ p.shown = svc
          /\ p.op = (IF ApprovalOf(svc').status \in {"approve", "sent"} THEN "approve" ELSE "reject")]_vars

\* codex-bridge.ja.md: a detail that comes late is neither shown nor read.
\* What is on show, or being read, explains the very state that is shown, by
\* generation and process; it is read only where reading it is switched on and
\* the connection stands.  Where a restarted companion has a state of the same
\* generation, and the page comes to show that one, the old explanation stays
\* (render, app.js:115): its process is then the one the page was loaded from.
DetailIsCurrent ==
  /\ TypeOK
  /\ page.detail # Null =>
       /\ page.detail.gen = Gen(page.snap)
       /\ \/ page.detail.epoch = page.snap.epoch
          \/ page.detail.epoch = page.token /\ page.token < page.snap.epoch
  /\ page.voice = "detail" => page.aloud /\ ~page.unknown /\ page.detail # Null

\* The page comes to show the state of the process that it was loaded from,
\* after losses, stale answers and operations of others.
CatchesUp == []<>(page.token = svc.epoch => page.snap = svc /\ ~page.unknown)
=============================================================================
