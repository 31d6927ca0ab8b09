------------------------------ MODULE Gateway ------------------------------
(***************************************************************************)
(* The web socket between the pages and the server: who controls the       *)
(* terminal (runtime/pty-owner.ts), the connection handler of index.ts,    *)
(* and the page's side of it (useCommentatorSocket.ts, useProfileActions,  *)
(* pty-resize.ts and the senders of App.tsx).  The session that runs       *)
(* behind it is SessionRuntime's; here a restart is only what it tells.    *)
(*                                                                         *)
(* A page has one socket at a time, and both its ends are one record: what *)
(* is under way when a socket closes is lost, in both directions.  All     *)
(* parties are on one machine (ws://localhost), so nothing a page sent on  *)
(* an old socket is read after its next socket is accepted.                *)
(***************************************************************************)
EXTENDS Naturals, Sequences, SequencesExt

CONSTANTS
  Web, Desktop,      \* the pages in a browser, and in the application's window
  ProfileId, Style, Size,
  Fitting,           \* the sizes parsePtySize accepts
  None,
  FirstProfiles,     \* the profiles stored at first, with their styles
  FirstActive, FirstSize,
  DefaultStyle,      \* of a process and of a page that have just started
  EnvStyle,          \* of the environment's input, once it is switched to
  MaxEvents          \* bound: what the people at the pages do, together with
                     \* closed sockets, reloads, port changes and server stops

Page == Web \cup Desktop

ASSUME PageAssumption == Web \cap Desktop = {} /\ None \notin Page
ASSUME EventsAssumption == MaxEvents \in Nat
ASSUME SizeAssumption == Fitting \subseteq Size /\ None \notin Size /\ FirstSize \in Size
ASSUME StyleAssumption == None \notin Style /\ {DefaultStyle, EnvStyle} \subseteq Style
ASSUME ProfileAssumption ==
  /\ None \notin ProfileId
  /\ FirstProfiles \in [ProfileId -> Style \cup {None}]
  /\ FirstActive \in ProfileId \cup {None}

VARIABLES
  server,   \* what the server process holds, and the profile store behind it
  link,     \* the socket of each page, with the words under way on it
  page,     \* the state of each page
  work,     \* the message handlers that are awaiting the store
  restart,  \* restartInFlight, queuedProfileId and the setImmediate calls
  events    \* how many of what MaxEvents bounds has happened

vars == <<server, link, page, work, restart, events>>

Stored(profiles) == {id \in ProfileId : profiles[id] # None}

IdleRestart == [busy |-> FALSE, id |-> None, queued |-> <<>>, next |-> <<>>]

\* A server that has just been started: it runs what its environment names.
FreshServer(profiles, active) ==
  [up |-> TRUE, profiles |-> profiles, active |-> active, style |-> DefaultStyle,
   running |-> None, size |-> None, controller |-> None]

NoLink  == [client |-> "none", phase |-> "none", list |-> {}, active |-> None,
            up |-> <<>>, down |-> <<>>]
Opening == [NoLink EXCEPT !.client = "opening"]

NoEditor == [kind |-> "none", id |-> None]

\* A page that is loading; its terminal has been fitted to the window, and the
\* size goes out with the greeting.
\* `own` (the person chose a style the page was not told since) and `asked`
\* (the profile the person asked to edit) are for the properties.
FreshPage ==
  [status |-> "connecting", retried |-> FALSE, timer |-> FALSE,
   style |-> DefaultStyle, own |-> FALSE, list |-> {}, active |-> None,
   editing |-> NoEditor, pending |-> None, asked |-> None,
   size |-> FirstSize, sent |-> None, resizing |-> FALSE]

Init ==
  /\ server = FreshServer(FirstProfiles, FirstActive)
  /\ link = [p \in Page |-> Opening]
  /\ page = [p \in Page |-> FreshPage]
  /\ work = <<>>
  /\ restart = IdleRestart
  /\ events = 0

-----------------------------------------------------------------------------
(* Sockets *)

Open(p) == link[p].client = "open"

\* broadcast: every socket that is open, greeted or not.
Told(l, word) ==
  [q \in Page |-> IF l[q].client = "open" THEN [l[q] EXCEPT !.down = Append(@, word)] ELSE l[q]]

\* The answer of a handler, to the socket the request came on if it still is.
Reply(job, word) ==
  link' = IF job.live THEN [link EXCEPT ![job.page].down = Append(@, word)]
                      ELSE link

\* The page's end of an open socket.
Says(p, word) == link' = [link EXCEPT ![p].up = Append(@, word)]

\* register of pty-owner.ts: the first page, or a window after a browser.
Register(p) ==
  CASE server.controller = None -> p
    [] p \in Desktop /\ server.controller \in Web -> p
    [] OTHER -> server.controller

IsController(p) == p = server.controller

\* unregister of pty-owner.ts: control stays reserved for the page.
MutUnregister(p) == IF IsController(p) THEN None ELSE server.controller
Unregister(p) == server.controller

\* The handlers still at work for a socket that has closed answer nobody.
Orphaned(P) == [i \in DOMAIN work |->
                 IF work[i].page \in P THEN [work[i] EXCEPT !.live = FALSE] ELSE work[i]]

\* onclose: the page will try again.
Disconnected(pg) == [pg EXCEPT !.status = "disconnected", !.timer = TRUE]

\* connect: what the page shows while it tries.
Connecting(pg) ==
  [pg EXCEPT !.status = IF pg.retried THEN "reconnecting" ELSE "connecting",
             !.timer = FALSE]

\* The reconnect timer.
TimerFires(p) ==
  /\ page[p].timer
  /\ page' = [page EXCEPT ![p] = Connecting([page[p] EXCEPT !.retried = TRUE])]
  /\ link' = [link EXCEPT ![p] = Opening]
  /\ UNCHANGED <<server, work, restart, events>>

\* Nobody listens on the port.
Refused(p) ==
  /\ link[p].client = "opening" /\ ~server.up
  /\ link' = [link EXCEPT ![p] = NoLink]
  /\ page' = [page EXCEPT ![p] = Disconnected(@)]
  /\ UNCHANGED <<server, work, restart, events>>

\* The handler of a connection, until it awaits the list of the profiles.
Accept(p) ==
  /\ link[p].client = "opening" /\ server.up
  /\ server' = [server EXCEPT !.controller = Register(p)]
  /\ link' = [link EXCEPT ![p].client = "open", ![p].phase = "listing"]
  /\ UNCHANGED <<page, work, restart, events>>

\* It has the list and the active id.
ListForGreeting(p) ==
  /\ link[p].phase = "listing"
  /\ link' = [link EXCEPT ![p].phase = "greeting",
                          ![p].list = Stored(server.profiles),
                          ![p].active = server.active]
  /\ UNCHANGED <<server, page, work, restart, events>>

\* It greets the page and listens to it, in one turn.  The words "hello" and
\* "profiles" follow each other on the socket and are one here.
Greet(p) ==
  /\ link[p].phase = "greeting"
  /\ link' = [link EXCEPT
                ![p].phase = "listening", ![p].list = {}, ![p].active = None,
                ![p].down = Append(@, [kind |-> "hello", style |-> server.style,
                                       list |-> link[p].list, active |-> link[p].active])]
  /\ UNCHANGED <<server, page, work, restart, events>>

\* A word that arrives before the handler listens is lost.
LostEarly(p) ==
  /\ link[p].phase \in {"listing", "greeting"} /\ link[p].up # <<>>
  /\ link' = [link EXCEPT ![p].up = Tail(@)]
  /\ UNCHANGED <<server, page, work, restart, events>>

-----------------------------------------------------------------------------
(* Faults *)

Event == events < MaxEvents /\ events' = events + 1

\* The socket breaks.
Drop(p) ==
  /\ Event /\ link[p].client # "none"
  /\ server' = [server EXCEPT !.controller = Unregister(p)]
  /\ link' = [link EXCEPT ![p] = NoLink]
  /\ page' = [page EXCEPT ![p] = Disconnected(@)]
  /\ work' = Orphaned({p})
  /\ UNCHANGED <<restart>>

\* The window learns another port: the effect of the hook is cleaned up (the
\* timer and the socket) and runs again.
Resubscribe(p) ==
  /\ Event /\ p \in Desktop
  /\ server' = [server EXCEPT !.controller = Unregister(p)]
  /\ link' = [link EXCEPT ![p] = Opening]
  /\ page' = [page EXCEPT ![p] = Connecting(@)]
  /\ work' = Orphaned({p})
  /\ UNCHANGED <<restart>>

\* The page is loaded again; the browser keeps its client id.
Reload(p) ==
  /\ Event
  /\ server' = [server EXCEPT !.controller = Unregister(p)]
  /\ link' = [link EXCEPT ![p] = Opening]
  /\ page' = [page EXCEPT ![p] = FreshPage]
  /\ work' = Orphaned({p})
  /\ UNCHANGED <<restart>>

\* The process ends: the store is left, the sockets close.
ServerStops ==
  /\ Event /\ server.up
  /\ server' = [FreshServer(server.profiles, server.active) EXCEPT !.up = FALSE]
  /\ link' = [p \in Page |-> IF Open(p) THEN NoLink ELSE link[p]]
  /\ page' = [p \in Page |-> IF Open(p) THEN Disconnected(page[p]) ELSE page[p]]
  /\ work' = <<>>
  /\ restart' = IdleRestart

ServerStarts ==
  /\ ~server.up
  /\ server' = [server EXCEPT !.up = TRUE]
  /\ UNCHANGED <<link, page, work, restart, events>>

-----------------------------------------------------------------------------
(* What the page does with a word: onmessage *)

Hello(pg, w) ==
  [pg EXCEPT !.status = "connected", !.retried = FALSE, !.style = w.style, !.own = FALSE,
             !.list = w.list, !.active = w.active]

\* The detail counts only while the page waits for it.
MutDetail(pg, w) ==
  [pg EXCEPT !.editing = [kind |-> "full", id |-> w.id], !.pending = None]
Detail(pg, w) ==
  IF pg.pending = w.id
  THEN [pg EXCEPT !.editing = [kind |-> "full", id |-> w.id], !.pending = None]
  ELSE pg

\* Any error ends the wait, with what the list says of the profile.
MutErrorShown(pg) ==
  IF pg.pending \in pg.list
  THEN [pg EXCEPT !.editing = [kind |-> "stub", id |-> pg.pending], !.pending = None]
  ELSE pg
ErrorShown(pg) ==
  CASE pg.pending = None -> pg
    [] pg.pending \in pg.list ->
         [pg EXCEPT !.editing = [kind |-> "stub", id |-> pg.pending], !.pending = None]
    [] OTHER -> [pg EXCEPT !.editing = NoEditor, !.pending = None]

Shown(pg, w) ==
  CASE w.kind = "hello"          -> Hello(pg, w)
    [] w.kind = "style"          -> [pg EXCEPT !.style = w.style, !.own = FALSE]
    [] w.kind = "profiles"       -> [pg EXCEPT !.list = w.list, !.active = w.active]
    [] w.kind = "profileSaved"   -> [pg EXCEPT !.list = @ \cup {w.id}, !.active = w.active,
                                               !.editing = NoEditor]
    [] w.kind = "profileDeleted" -> [pg EXCEPT !.list = @ \ {w.id}, !.active = w.active]
    [] w.kind = "profileDetail"  -> Detail(pg, w)
    [] w.kind = "profileError"   -> ErrorShown(pg)
    [] w.kind = "ptyRestart"     -> [pg EXCEPT !.style = w.style, !.own = FALSE]

\* resendLatest, in the effect that follows a greeting and a restart: the size
\* goes out whatever was sent before.
MutResends(pg, w) == w.kind \in {"hello", "ptyRestart"} /\ pg.size # pg.sent
Resends(pg, w) == w.kind = "hello" \/ (w.kind = "ptyRestart" /\ pg.status = "connected")

Resized(pg) == [pg EXCEPT !.sent = pg.size, !.resizing = FALSE]
SizeWord(pg) == [kind |-> "resizePty", size |-> pg.size]

Deliver(p) ==
  /\ link[p].down # <<>>
  /\ LET w == Head(link[p].down) IN
     IF Resends(page[p], w)
     THEN /\ page' = [page EXCEPT ![p] = Resized(Shown(@, w))]
          /\ link' = [link EXCEPT ![p].down = Tail(@), ![p].up = Append(@, SizeWord(page[p]))]
     ELSE /\ page' = [page EXCEPT ![p] = Shown(@, w)]
          /\ link' = [link EXCEPT ![p].down = Tail(@)]
  /\ UNCHANGED <<server, work, restart, events>>

-----------------------------------------------------------------------------
(* The size of the terminal: the timer of pty-resize.ts *)

\* Only a size that differs from the last one sent, and if there is a socket.
ResizeTimer(p) ==
  /\ page[p].resizing
  /\ IF page[p].size # page[p].sent /\ Open(p)
     THEN /\ page' = [page EXCEPT ![p] = Resized(@)]
          /\ Says(p, SizeWord(page[p]))
     ELSE page' = [page EXCEPT ![p].resizing = FALSE] /\ UNCHANGED link
  /\ UNCHANGED <<server, work, restart, events>>

-----------------------------------------------------------------------------
(* What a person does *)

\* sendStyle: the page shows it at once, and sends it if it can.
ChooseStyle(p, s) ==
  /\ Event /\ s # page[p].style
  /\ page' = [page EXCEPT ![p].style = s, ![p].own = TRUE]
  /\ IF Open(p) THEN Says(p, [kind |-> "setStyle", style |-> s]) ELSE UNCHANGED link
  /\ UNCHANGED <<server, work, restart>>

ResizeWindow(p, s) ==
  /\ Event /\ s # page[p].size
  /\ page' = [page EXCEPT ![p].size = s, ![p].resizing = TRUE]
  /\ UNCHANGED <<server, link, work, restart>>

\* The controls of the profiles and of the launcher are enabled while the
\* page is connected; an open editor covers them.
Controls(p) == page[p].status = "connected" /\ Open(p) /\ page[p].editing = NoEditor

Launch(p) ==
  /\ Event /\ Controls(p)
  /\ Says(p, [kind |-> "launchSession", style |-> page[p].style])
  /\ UNCHANGED <<server, page, work, restart>>

SelectProfile(p, id) ==
  /\ Event /\ Controls(p) /\ id \in page[p].list \cup {None} /\ id # page[p].active
  /\ Says(p, [kind |-> "setActiveProfile", id |-> id])
  /\ UNCHANGED <<server, page, work, restart>>

DeleteProfile(p) ==
  /\ Event /\ Controls(p) /\ page[p].active # None
  /\ Says(p, [kind |-> "deleteProfile", id |-> page[p].active])
  /\ UNCHANGED <<server, page, work, restart>>

EditProfile(p) ==
  LET id == page[p].active IN
  /\ Event /\ Controls(p) /\ id # None
  /\ page' = [page EXCEPT ![p].pending = id, ![p].asked = id,
                          ![p].editing = [kind |-> "loading", id |-> None]]
  /\ Says(p, [kind |-> "getProfile", id |-> id])
  /\ UNCHANGED <<server, work, restart>>

CreateProfile(p) ==
  /\ Event /\ Controls(p)
  /\ page' = [page EXCEPT ![p].editing = [kind |-> "new", id |-> None]]
  /\ UNCHANGED <<server, link, work, restart>>

\* The editor stays open until the server says that it has saved.
SaveProfile(p, s) ==
  /\ Event /\ page[p].status = "connected" /\ Open(p)
  /\ page[p].editing.kind \in {"new", "full", "stub"}
  /\ Says(p, [kind |-> "saveProfile", id |-> page[p].editing.id, style |-> s])
  /\ UNCHANGED <<server, page, work, restart>>

CancelEdit(p) ==
  /\ Event /\ page[p].editing # NoEditor
  /\ page' = [page EXCEPT ![p].editing = NoEditor, ![p].pending = None, ![p].asked = None]
  /\ UNCHANGED <<server, link, work, restart>>

-----------------------------------------------------------------------------
(* The server's message handler *)

Job(p, w) ==
  [page |-> p, live |-> TRUE, kind |-> w.kind, id |-> w.id,
   style |-> IF w.kind = "saveProfile" THEN w.style ELSE None,
   step |-> IF w.kind = "getProfile" THEN "read" ELSE "store",
   list |-> {}, active |-> None]

Controlled == {"setStyle", "launchSession", "resizePty", "saveProfile",
               "deleteProfile", "setActiveProfile"}

\* `p` has said a word of this kind, and the handler takes it.
Heard(p, kinds) ==
  link[p].phase = "listening" /\ link[p].up # <<>> /\ Head(link[p].up).kind \in kinds

Consumed(p) == [link EXCEPT ![p].up = Tail(@)]

\* What an observer may not say is dropped.
Refuse(p) ==
  /\ Heard(p, Controlled) /\ ~IsController(p)
  /\ link' = Consumed(p)
  /\ UNCHANGED <<server, page, work, restart, events>>

SetStyle(p) ==
  /\ Heard(p, {"setStyle"}) /\ IsController(p)
  /\ LET s == Head(link[p].up).style IN
       /\ server' = [server EXCEPT !.style = s]
       /\ link' = Told(Consumed(p), [kind |-> "style", style |-> s])
  /\ UNCHANGED <<page, work, restart, events>>

\* parsePtySize refuses what no terminal has; the size also counts for the
\* terminals that are spawned later.
ResizePty(p) ==
  /\ Heard(p, {"resizePty"}) /\ IsController(p)
  /\ LET s == Head(link[p].up).size IN
       server' = [server EXCEPT !.size = IF s \in Fitting THEN s ELSE @]
  /\ link' = Consumed(p)
  /\ UNCHANGED <<page, work, restart, events>>

\* "ptyRestart" and "style" follow each other on the socket and are one here.
RestartTold(s) == [kind |-> "ptyRestart", style |-> s]

\* launchAdHocSession does everything in one turn; one that does not start
\* leaves currentlyRunningProfileId as it was.
LaunchSession(p) ==
  /\ Heard(p, {"launchSession"}) /\ IsController(p)
  /\ LET s == Head(link[p].up).style IN
       /\ \E runs \in {None, server.running} :
            server' = [server EXCEPT !.style = s, !.running = runs]
       /\ link' = Told(Consumed(p), RestartTold(s))
  /\ UNCHANGED <<page, work, restart, events>>

\* The other requests await the store.
Stores == {"saveProfile", "deleteProfile", "setActiveProfile"}
BeginWork(p) ==
  /\ Heard(p, Stores \cup {"getProfile"})
  /\ Head(link[p].up).kind \in Stores => IsController(p)
  /\ work' = Append(work, Job(p, Head(link[p].up)))
  /\ link' = Consumed(p)
  /\ UNCHANGED <<server, page, restart, events>>

-----------------------------------------------------------------------------
(* The handlers after their awaits *)

\* getProfile: the profile, or that there is none.
Read(i) ==
  /\ work[i].step = "read"
  /\ Reply(work[i], IF work[i].id \in Stored(server.profiles)
                    THEN [kind |-> "profileDetail", id |-> work[i].id]
                    ELSE [kind |-> "profileError"])
  /\ work' = RemoveAt(work, i)
  /\ UNCHANGED <<server, page, restart, events>>

Missing(job) == job.id # None /\ job.id \notin Stored(server.profiles)

\* The manager throws: "Profile not found".
Throw(i) ==
  /\ work[i].step = "store" /\ Missing(work[i])
  /\ Reply(work[i], [kind |-> "profileError"])
  /\ work' = RemoveAt(work, i)
  /\ UNCHANGED <<server, page, restart, events>>

\* update or create, remove, setActive of the profile manager.
Put(i, id) ==
  /\ work[i].step = "store" /\ ~Missing(work[i])
  /\ CASE work[i].kind = "saveProfile" ->
            /\ id \in IF work[i].id = None THEN ProfileId \ Stored(server.profiles)
                                       ELSE {work[i].id}
            /\ server' = [server EXCEPT !.profiles[id] = work[i].style]
       [] work[i].kind = "deleteProfile" ->
            /\ id = work[i].id
            /\ server' = [server EXCEPT !.profiles[id] = None,
                                        !.active = IF @ = id THEN None ELSE @]
       [] work[i].kind = "setActiveProfile" ->
            /\ id = work[i].id
            /\ server' = [server EXCEPT !.active = id]
  /\ work' = [work EXCEPT ![i].step = "list", ![i].id = id]
  /\ UNCHANGED <<link, page, restart, events>>

\* The list and the active id, read back for the announcement.
List(i) ==
  /\ work[i].step = "list"
  /\ work' = [work EXCEPT ![i].step = "tell", ![i].list = Stored(server.profiles),
                          ![i].active = server.active]
  /\ UNCHANGED <<server, link, page, restart, events>>

\* restartPTY until its await: queue behind the one under way, skip what
\* already runs (if its input is alive, which is not modelled), or begin.
RestartCall(id, force, r) ==
  IF r.busy THEN {[r EXCEPT !.queued = <<id>>]}
  ELSE {[r EXCEPT !.busy = TRUE, !.id = id]}
         \cup (IF ~force /\ id = server.running THEN {r} ELSE {})

\* The announcement, and the restart it asks for in the same turn.
Announce(i) ==
  LET job == work[i] IN
  /\ job.step = "tell"
  /\ CASE job.kind = "saveProfile" /\ job.id \in job.list ->
            /\ link' = Told(link, [kind |-> "profileSaved", id |-> job.id, active |-> job.active])
            /\ IF job.active = job.id
               THEN restart' \in RestartCall(job.id, TRUE, restart)
               ELSE UNCHANGED restart
       [] job.kind = "saveProfile" /\ job.id \notin job.list ->
            Reply(job, [kind |-> "profileError"]) /\ UNCHANGED restart
       [] job.kind = "deleteProfile" ->
            /\ link' = Told(link, [kind |-> "profileDeleted", id |-> job.id, active |-> job.active])
            /\ UNCHANGED restart
       [] job.kind = "setActiveProfile" ->
            /\ link' = Told(link, [kind |-> "profiles", list |-> job.list, active |-> job.id])
            /\ restart' \in RestartCall(job.id, FALSE, restart)
  /\ work' = RemoveAt(work, i)
  /\ UNCHANGED <<server, page, events>>

\* The finally of restartPTY: the queued request comes back by setImmediate.
RestartOver ==
  restart' = [restart EXCEPT !.busy = FALSE, !.id = None, !.queued = <<>>,
                             !.next = @ \o restart.queued]

\* The profile is gone, or names no input: nothing was touched.
RestartRefused ==
  /\ restart.busy /\ restart.id # None
  /\ RestartOver
  /\ UNCHANGED <<server, link, page, work, events>>

\* The old input is killed, the style changes and is told, the new one is
\* started or fails to.
RestartRuns ==
  LET id == restart.id
      s  == IF id = None THEN EnvStyle ELSE server.profiles[id] IN
  /\ restart.busy /\ (id = None \/ id \in Stored(server.profiles))
  /\ \E runs \in {id, server.running} :
       server' = [server EXCEPT !.style = s, !.running = runs]
  /\ link' = Told(link, RestartTold(s))
  /\ RestartOver
  /\ UNCHANGED <<page, work, events>>

QueuedRestart ==
  /\ restart.next # <<>>
  /\ restart' \in RestartCall(Head(restart.next), FALSE, [restart EXCEPT !.next = Tail(@)])
  /\ UNCHANGED <<server, link, page, work, events>>

-----------------------------------------------------------------------------
(* The specification *)

Handled(i) == Read(i) \/ Throw(i) \/ List(i) \/ Announce(i)
                \/ \E id \in ProfileId \cup {None} : Put(i, id)
Working == \E i \in DOMAIN work : Handled(i)

Listening(p) == Refuse(p) \/ SetStyle(p) \/ ResizePty(p) \/ LaunchSession(p) \/ BeginWork(p)

Connects(p) == TimerFires(p) \/ Refused(p) \/ Accept(p)

Faults(p) == Drop(p) \/ Resubscribe(p) \/ Reload(p)

Person(p) ==
  \/ \E s \in Style : ChooseStyle(p, s) \/ SaveProfile(p, s)
  \/ \E s \in Size : ResizeWindow(p, s)
  \/ \E id \in ProfileId \cup {None} : SelectProfile(p, id)
  \/ Launch(p) \/ DeleteProfile(p) \/ EditProfile(p) \/ CreateProfile(p) \/ CancelEdit(p)

Next ==
  \/ ServerStops \/ ServerStarts
  \/ Working \/ RestartRefused \/ RestartRuns \/ QueuedRestart
  \/ \E p \in Page :
       \/ Connects(p) \/ ListForGreeting(p) \/ Greet(p) \/ LostEarly(p) \/ Listening(p)
       \/ Deliver(p) \/ ResizeTimer(p)
       \/ Person(p) \/ Faults(p)

Spec == Init /\ [][Next]_vars

\* Timers fire, the store answers, and words arrive; nobody has to act, to
\* fail or to start the server again.
Serving(p) ==
  Connects(p) \/ ListForGreeting(p) \/ Greet(p) \/ Listening(p) \/ Deliver(p)

Fairness == WF_vars(Working) /\ \A p \in Page : WF_vars(Serving(p))

FairSpec == Spec /\ Fairness

-----------------------------------------------------------------------------
(* Properties *)

Chosen == ProfileId \cup {None}

\* What the server says.
Word == [kind : {"style", "ptyRestart"}, style : Style]
          \cup [kind : {"hello"}, style : Style, list : SUBSET ProfileId, active : Chosen]
          \cup [kind : {"profiles"}, list : SUBSET ProfileId, active : Chosen]
          \cup [kind : {"profileSaved", "profileDeleted"}, id : ProfileId, active : Chosen]
          \cup [kind : {"profileDetail"}, id : ProfileId]
          \cup [kind : {"profileError"}]

\* What a page says.
Said == [kind : {"setStyle", "launchSession"}, style : Style]
          \cup [kind : {"resizePty"}, size : Size]
          \cup [kind : {"getProfile", "deleteProfile"}, id : ProfileId]
          \cup [kind : {"setActiveProfile"}, id : Chosen]
          \cup [kind : {"saveProfile"}, id : Chosen, style : Style]

ServerType ==
  [up : BOOLEAN, profiles : [ProfileId -> Style \cup {None}], active : Chosen, style : Style,
   running : Chosen, size : Fitting \cup {None}, controller : Page \cup {None}]

LinkType ==
  [client : {"none", "opening", "open"}, phase : {"none", "listing", "greeting", "listening"},
   list : SUBSET ProfileId, active : Chosen, up : Seq(Said), down : Seq(Word)]

EditorType == [kind : {"none", "new", "loading", "full", "stub"}, id : Chosen]

PageType ==
  [status : {"connecting", "connected", "disconnected", "reconnecting"},
   retried : BOOLEAN, timer : BOOLEAN, style : Style, own : BOOLEAN,
   list : SUBSET ProfileId, active : Chosen,
   editing : EditorType,
   pending : Chosen, asked : Chosen,
   size : Size, sent : Size \cup {None}, resizing : BOOLEAN]

JobType ==
  [page : Page, live : BOOLEAN, kind : Stores \cup {"getProfile"}, id : Chosen,
   style : Style \cup {None}, step : {"read", "store", "list", "tell"},
   list : SUBSET ProfileId, active : Chosen]

\* A handler knows what it needs for its step.
JobOK(job) ==
  /\ job.kind = "saveProfile" => job.style \in Style
  /\ job.kind \in {"getProfile", "deleteProfile"} => job.id \in ProfileId
  /\ job.step = "read" <=> job.kind = "getProfile"

Jobs(jobs) == jobs \in Seq(JobType) /\ \A i \in DOMAIN jobs : JobOK(jobs[i])

RestartType == [busy : BOOLEAN, id : Chosen, queued : Seq(Chosen), next : Seq(Chosen)]

\* Every variable has its type (index.ts, useCommentatorSocket.ts).
TypeOK ==
  /\ server \in ServerType
  /\ link \in [Page -> LinkType]
  /\ page \in [Page -> PageType]
  /\ Jobs(work)
  /\ restart \in RestartType
  /\ events \in 0 .. MaxEvents

\* A page always has a way back to the server, and only one: a socket, or the
\* timer that opens the next (lines 110-290 of useCommentatorSocket.ts).
OneWayBack == \A p \in Page : page[p].timer <=> link[p].client = "none"

\* What a page may do once it shows that it is connected is listened to: the
\* handler hears every word said after its greeting (index.ts:872).
ConnectedIsHeard ==
  \A p \in Page : page[p].status = "connected" => link[p].phase = "listening"

\* The editor shows the profile last asked for, and not one whose request was
\* cancelled: answers may come late (useProfileActions.ts:100).
EditorIsOfTheAsked ==
  \A p \in Page : page[p].editing.kind \in {"full", "stub"} =>
                    page[p].editing.id = page[p].asked

\* No word of these kinds is under way; the greeting is.
Silent(s, kinds) == \A i \in DOMAIN s : s[i].kind \notin kinds
Greeted(l) == ~Silent(l.down, {"hello"})

\* What the three above rest on.  A socket is open exactly while its handler is
\* at work; a handler that is awaiting the store answers a page it listens to;
\* and a page that is listened to has been greeted, or will be.
SocketsAreWired ==
  /\ \A p \in Page :
       /\ link[p].client = "open" <=> link[p].phase # "none"
       /\ link[p].client # "open" => link[p].up = <<>> /\ link[p].down = <<>>
       /\ Greeted(link[p]) => link[p].phase = "listening"
       /\ link[p].phase = "listening" => page[p].status = "connected" \/ Greeted(link[p])
       /\ page[p].pending \in {None, page[p].asked}
       /\ page[p].status = "connected" => page[p].resizing \/ page[p].sent = page[p].size
  /\ \A i \in DOMAIN work : work[i].live => link[work[i].page].phase = "listening"

\* The five above, checked together.
GatewayInv == TypeOK /\ OneWayBack /\ ConnectedIsHeard /\ EditorIsOfTheAsked /\ SocketsAreWired

\* Control passes only from nobody, or from a browser to the window, while the
\* server lives: nobody takes it in a moment without its page (pty-owner.ts).
ControllerStays ==
  [][server.up /\ server'.up /\ server.controller # server'.controller =>
       \/ server.controller = None
       \/ server.controller \in Web /\ server'.controller \in Desktop]_vars

StyleWords == {"hello", "style", "ptyRestart"}
SizeWords  == {"resizePty"}

\* The last word of a kind that is under way, if any is.
LastAt(s, kinds, i) ==
  /\ i \in DOMAIN s /\ s[i].kind \in kinds
  /\ \A j \in DOMAIN s : j > i => s[j].kind \notin kinds

LastStyle(s, style) == \E i \in DOMAIN s : LastAt(s, StyleWords, i) /\ s[i].style = style
LastSize(s, size)   == \E i \in DOMAIN s : LastAt(s, SizeWords, i) /\ s[i].size = size

\* The style of a page that is listened to, once what is under way to it has
\* arrived, is the server's; only an observer who has chosen one for itself may
\* see another (App.tsx:306, index.ts:888 and the restarts).
StyleIsShared ==
  \A p \in Page : link[p].phase = "listening" =>
    \/ LastStyle(link[p].down, server.style)
    \/ /\ Silent(link[p].down, StyleWords)
       /\ \/ page[p].style = server.style
          \/ page[p].own /\ (IsController(p) => ~Silent(link[p].up, {"setStyle"}))

\* The terminal has the size of the controller's window, unless a size is under
\* way, still waits to be sent, or is one no terminal can have: after reconnects,
\* restarts of the server, and words lost before the greeting.
TerminalFits ==
  \A p \in Page : page[p].status = "connected" /\ ~page[p].resizing =>
    \/ LastSize(link[p].up, page[p].size)
    \/ /\ Silent(link[p].up, SizeWords)
       /\ IsController(p) /\ page[p].size \in Fitting => server.size = page[p].size

\* What is under way may be older than the window: it is the size last sent, and
\* where the terminal is not being resized that is the window's.
SentArrives ==
  \A p \in Page : page[p].status = "connected" =>
    \/ LastSize(link[p].up, page[p].sent)
    \/ /\ Silent(link[p].up, SizeWords)
       /\ IsController(p) /\ page[p].sent \in Fitting => server.size = page[p].sent

\* Pages and server agree on the style and on the size of the terminal, as soon
\* as what is under way has arrived.
PagesAgree == StyleIsShared /\ TerminalFits /\ SentArrives

\* While the server lives every page comes back to it (the timer of onclose).
PageReconnects ==
  \A p \in Page : server.up ~> (page[p].status = "connected" \/ ~server.up)

\* A profile that is asked for on a socket is shown, or the wait ends with what
\* is known of it, as long as that socket holds (useCommentatorSocket.ts:186-203).
EditorOpens ==
  \A p \in Page :
    page[p].editing.kind = "loading" /\ ~Silent(link[p].up, {"getProfile"})
      ~> (page[p].status # "connected" \/ page[p].editing.kind # "loading")

\* A page is not left waiting: for its server, or for the profile it asked for.
PagesAreServed == PageReconnects /\ EditorOpens
=============================================================================
