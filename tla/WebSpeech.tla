----------------------------- MODULE WebSpeech -----------------------------
(***************************************************************************)
(* The spoken commentary of the web page: messages of the server are       *)
(* batched (useTTS.ts), put in order by the priority scheduler             *)
(* (speech-scheduler.ts) and handed chunk by chunk to the browser's voice, *)
(* whose callbacks come later, also those of utterances dropped meanwhile  *)
(* (tts.ts); the recorder of speech-lifecycle.ts keeps count.              *)
(*                                                                         *)
(* Texts are the keys of speech-repetition.ts.  A line's id stands for the *)
(* scheduler's generation as well: ids are never used twice, so a line of  *)
(* an earlier generation is never the active one.                          *)
(***************************************************************************)
EXTENDS Integers, Sequences, FiniteSets, SequencesExt

CONSTANTS
  Items,          \* commentaries the server may send
  Text, NoText,   \* what is said, up to repetition
  None,
  Letter, Break,  \* what long lines are cut at: breaks (spaces, punctuation) and the rest
  ChunkLimit,     \* longest utterance
  RegistryLimit,  \* events the page remembers to have read at once
  MaxEvents,      \* bound: urgent events
  MaxLines,       \* bound: lines handed to the scheduler
  MaxSessions     \* bound: terminal sessions

\* What waits for the batch timer, and what the scheduler is given.
Batch == [item : Items, event : 0..MaxEvents, session : 1..MaxSessions]
Line == [id : 1..MaxLines, priority : {"urgent", "notice", "progress"}, heartbeat : BOOLEAN,
         text : Text \cup {NoText}, chars : Seq({Letter, Break}), session : 1..MaxSessions]

\* Texts of which nothing is left to say do not reach the scheduler.
ASSUME SpeechAssumption ==
  /\ NoText \notin Text
  /\ Items \subseteq [priority : {"urgent", "notice", "progress"}, text : Text \cup {NoText},
                      groupable : BOOLEAN, heartbeat : BOOLEAN, displayOnly : BOOLEAN,
                      chars : Seq({Letter, Break})]
  /\ \A item \in Items : item.text # NoText => item.chars # <<>>
  /\ {ChunkLimit, RegistryLimit, MaxEvents, MaxLines, MaxSessions} \subseteq Nat \ {0}
  /\ None \notin Batch \cup Line

VARIABLES
  enabled,    \* the reading switch
  batch,      \* the commentary whose batch timer is armed, or None
  tts,        \* scheduler, sink and recorder of tts.ts
  voice,      \* utterances given to the browser that have not called back for good
  registry,   \* events read at once, oldest first
  events,     \* urgent events so far
  due,        \* those whose commentary may still come
  session,    \* terminal session the page is showing
  readings    \* history: how often an event was handed to the scheduler

vars == <<enabled, batch, tts, voice, registry, events, due, session, readings>>

Event == 1..MaxEvents
NoEvent == 0

-----------------------------------------------------------------------------
(* splitForSpeech: pieces no longer than the limit, cut behind a break if   *)
(* there is one in the last two fifths.                                     *)

PreferredMinimum == Max({1, (ChunkLimit * 6) \div 10})
ChunkLength(chars, offset) ==
  LET breaks == {n \in PreferredMinimum..ChunkLimit : chars[offset + n] = Break}
  IN  IF Len(chars) - offset <= ChunkLimit THEN Len(chars) - offset
      ELSE IF breaks = {} THEN ChunkLimit ELSE Max(breaks)

\* The utterance of a line that begins after `offset` characters.
ChunkAt(chars, offset) == SubSeq(chars, offset + 1, offset + ChunkLength(chars, offset))

-----------------------------------------------------------------------------
(* The recorder. *)

NewLog == [queued |-> 0, started |-> 0, ended |-> 0, cancelled |-> 0, tracked |-> {}]
RecordQueued(log, id) == [log EXCEPT !.queued = @ + 1, !.tracked = @ \cup {id}]
RecordStarted(log) == [log EXCEPT !.started = @ + 1]
RecordEnded(log, id) == [log EXCEPT !.ended = @ + 1, !.tracked = @ \ {id}]
RecordCancelled(log, ids) ==
  [log EXCEPT !.cancelled = @ + Cardinality(ids), !.tracked = @ \ ids]

-----------------------------------------------------------------------------
(* The scheduler and its sink, as functions on their state. *)

\* What the sink knows of the line being read, and an utterance at the voice.
Reading(line) ==
  [id |-> line.id, chars |-> line.chars, spoken |-> 0, chunk |-> ChunkAt(line.chars, 0), started |-> FALSE]
Utterance(id) == [id |-> id, started |-> FALSE, dropped |-> FALSE]
Speaking(t) == {a.id : a \in t.sink}

\* sink.cancel: what is being spoken is recorded as cancelled and forgotten.
SinkCancel(t) == [t EXCEPT !.log = RecordCancelled(@, Speaking(t)), !.sink = {}]

Pump(t) ==
  IF t.active # None \/ t.waiting = <<>> THEN t
  ELSE LET next == Head(t.waiting)
       IN  [t EXCEPT !.active = next, !.waiting = Tail(@),
                     !.sink = @ \cup {Reading(next)},
                     !.log = RecordQueued(@, next.id)]

\* Heartbeats wait behind everything else.
Enqueue(t, line) ==
  LET at == SelectInSeq(t.waiting, LAMBDA l : l.heartbeat)
  IN  Pump([t EXCEPT !.waiting =
        IF line.heartbeat \/ at = 0 THEN Append(@, line) ELSE InsertAt(@, at, line)])

Reset(t) == [t EXCEPT !.active = None, !.waiting = <<>>]

\* scheduler.cancel: also what was said lately is forgotten.
CancelAll(t) == [Reset(SinkCancel(t)) EXCEPT !.recent = {}]

\* A line is settled once: only while it is the active one.
Settled(t, id) ==
  IF t.active # None /\ t.active.id = id THEN Pump([t EXCEPT !.active = None]) ELSE t

\* The line a text becomes: its number is taken even when it is dropped.
LineOf(t, item) ==
  [id |-> t.lines + 1, priority |-> item.priority, heartbeat |-> item.heartbeat,
   text |-> item.text, chars |-> item.chars, session |-> session]

Speak(t0, item) ==
  LET line    == LineOf(t0, item)
      t       == [t0 EXCEPT !.lines = line.id]
      noted   == [t EXCEPT !.recent = @ \cup {item.text}]
      behind  == \E i \in DOMAIN t.waiting :
                    t.waiting[i].priority = "progress" /\ ~t.waiting[i].heartbeat
  IN  IF item.priority = "urgent" THEN Enqueue(Reset(SinkCancel(t)), line)
      ELSE IF item.priority = "notice" THEN Enqueue(t, line)
      ELSE IF item.text \in t.recent THEN t
      ELSE IF item.heartbeat /\ behind THEN noted
      ELSE Enqueue(noted, line)

-----------------------------------------------------------------------------
(* The browser's voice.  speechSynthesis.cancel() drops what it holds; a   *)
(* dropped utterance may still call back.                                  *)

\* What the voice holds after the sink went from `tts` to t: an utterance for
\* every line newly handed to it, everything else dropped if the sink cancelled it.
Heard(t) ==
  {IF u.id \in Speaking(t) THEN u ELSE [u EXCEPT !.dropped = TRUE] : u \in voice}
    \cup {Utterance(id) : id \in Speaking(t) \ Speaking(tts)}
Becomes(t) == tts' = t /\ voice' = Heard(t)

VoiceStarts(u) ==
  /\ ~u.started /\ ~u.dropped
  /\ voice' = (voice \ {u}) \cup {[u EXCEPT !.started = TRUE]}
  /\ tts' = IF \E a \in tts.sink : a.id = u.id /\ ~a.started
            THEN [tts EXCEPT !.sink = {[a EXCEPT !.started = TRUE] : a \in @},
                             !.log = RecordStarted(@)]
            ELSE tts
  /\ UNCHANGED <<enabled, batch, registry, events, due, session, readings>>

\* The next chunk is spoken; after the last one the sink lets go of the line.
Spoken(a) == a.spoken + Len(a.chunk)
NextChunk(a) == [a EXCEPT !.spoken = Spoken(a), !.chunk = ChunkAt(a.chars, Spoken(a))]
Ended(t, id) ==
  Settled([t EXCEPT !.sink = {a \in @ : a.id # id}, !.log = RecordEnded(@, id)], id)
MutVoiceEnds(u) ==
  /\ u.started \/ u.dropped
  /\ LET t == IF tts.active # None THEN Ended(tts, tts.active.id) ELSE tts IN
       /\ tts' = t
       /\ voice' = (voice \ {u}) \cup {Utterance(id) : id \in Speaking(t) \ Speaking(tts)}
  /\ UNCHANGED <<enabled, batch, registry, events, due, session, readings>>
VoiceEnds(u) ==
  /\ u.started \/ u.dropped
  /\ IF u.id \notin Speaking(tts)
     THEN voice' = voice \ {u} /\ UNCHANGED tts
     ELSE IF \E a \in tts.sink : a.id = u.id /\ Spoken(a) < Len(a.chars)
     THEN /\ voice' = (voice \ {u}) \cup {Utterance(u.id)}
          /\ tts' = [tts EXCEPT !.sink = {NextChunk(a) : a \in @}]
     ELSE LET t == Ended(tts, u.id) IN
          /\ tts' = t
          /\ voice' = (voice \ {u}) \cup {Utterance(id) : id \in Speaking(t) \ Speaking(tts)}
  /\ UNCHANGED <<enabled, batch, registry, events, due, session, readings>>

MutVoiceFails(u) ==
  /\ voice' = voice \ {u}
  /\ tts' = [tts EXCEPT !.sink = {a \in @ : a.id # u.id}]
  /\ UNCHANGED <<enabled, batch, registry, events, due, session, readings>>
VoiceFails(u) ==
  /\ IF u.id \notin Speaking(tts)
     THEN voice' = voice \ {u} /\ UNCHANGED tts
     ELSE LET t == Settled([tts EXCEPT !.sink = {a \in @ : a.id # u.id},
                                       !.log = RecordCancelled(@, {u.id})], u.id) IN
          /\ tts' = t
          /\ voice' = (voice \ {u}) \cup {Utterance(id) : id \in Speaking(t) \ Speaking(tts)}
  /\ UNCHANGED <<enabled, batch, registry, events, due, session, readings>>

\* 120 seconds have passed since the text was taken up.
WindowPasses(x) ==
  /\ x \in tts.recent
  /\ tts' = [tts EXCEPT !.recent = @ \ {x}]
  /\ UNCHANGED <<enabled, batch, voice, registry, events, due, session, readings>>

-----------------------------------------------------------------------------
(* The page. *)

Urgent == [priority |-> "urgent", text |-> NoText, groupable |-> FALSE,
           heartbeat |-> FALSE, displayOnly |-> FALSE, chars |-> <<Letter>>]
CountReading(e) == [readings EXCEPT ![e] = @ + 1]

\* Room for the line of the batch, which must never be held up by the bound.
HasRoom(n) == tts.lines + n + (IF batch = None THEN 0 ELSE 1) <= MaxLines

Remember(e) ==
  IF Len(registry) < RegistryLimit THEN Append(registry, e) ELSE Append(Tail(registry), e)

\* An urgent event interrupts, and is remembered only if it was read.
ServerEvent(e) ==
  /\ e = events + 1 /\ HasRoom(1)
  /\ events' = e /\ due' = due \cup {e}
  /\ IF enabled
     THEN /\ Becomes(Speak(tts, Urgent))
          /\ registry' = Remember(e) /\ readings' = CountReading(e)
     ELSE UNCHANGED <<tts, voice, registry, readings>>
  /\ UNCHANGED <<enabled, batch, session>>

\* flushPendingSpeech: the batch goes to the scheduler, unless reading is off
\* or nothing of it is to be said.
Flush(t) ==
  IF batch = None \/ ~enabled \/ batch.item.text = NoText THEN t ELSE Speak(t, batch.item)
FlushedReadings ==
  IF batch # None /\ enabled /\ batch.item.text # NoText /\ batch.event # NoEvent
  THEN CountReading(batch.event) ELSE readings

BatchTimer ==
  /\ batch # None
  /\ Becomes(Flush(tts)) /\ readings' = FlushedReadings
  /\ batch' = None
  /\ UNCHANGED <<enabled, registry, events, due, session>>

SameGroup(item) ==
  /\ batch # None /\ item.groupable /\ batch.item.groupable
  /\ item.text = batch.item.text /\ item.text # NoText

\* A commentary joins the batch of its group, or flushes another's and starts its own.
QueueSpeech(item, e) ==
  IF ~enabled \/ item.displayOnly
  THEN UNCHANGED <<batch, tts, voice, readings>>
  ELSE /\ batch' = [item |-> item, event |-> e, session |-> session]
       /\ IF SameGroup(item)
          THEN UNCHANGED <<tts, voice, readings>>
          ELSE Becomes(Flush(tts)) /\ readings' = FlushedReadings

\* queueSpeechDeduped: what was read at once is not read again.
MutCommentary(item, e) ==
  /\ HasRoom(1) /\ (e # NoEvent => e \in due) /\ (item.priority = "urgent") = (e # NoEvent)
  /\ due' = due \ {e}
  /\ QueueSpeech(item, e)
  /\ UNCHANGED <<enabled, registry, events, session>>
Commentary(item, e) ==
  /\ HasRoom(1) /\ (e # NoEvent => e \in due) /\ (item.priority = "urgent") = (e # NoEvent)
  /\ due' = due \ {e}
  /\ IF \E i \in DOMAIN registry : registry[i] = e
     THEN UNCHANGED <<batch, tts, voice, readings>>
     ELSE QueueSpeech(item, e)
  /\ UNCHANGED <<enabled, registry, events, session>>

\* ptyRestart: nothing of the old session is read out, and the counts begin anew.
MutPtyRestart ==
  /\ session < MaxSessions /\ session' = session + 1
  /\ Becomes([CancelAll(tts) EXCEPT !.log = NewLog])
  /\ due' = {}
  /\ UNCHANGED <<enabled, registry, events, readings, batch>>
PtyRestart ==
  /\ session < MaxSessions /\ session' = session + 1
  /\ batch' = None
  /\ Becomes([CancelAll(tts) EXCEPT !.log = NewLog])
  /\ due' = {}
  /\ UNCHANGED <<enabled, registry, events, readings>>

\* The socket closes: the batch is dropped, and messages sent meanwhile are lost.
SocketCloses ==
  /\ batch' = None
  /\ \E lost \in SUBSET due : due' = due \ lost
  /\ UNCHANGED <<enabled, tts, voice, registry, events, session, readings>>

SwitchOff ==
  /\ enabled /\ enabled' = FALSE
  /\ batch' = None /\ Becomes(CancelAll(tts))
  /\ UNCHANGED <<registry, events, due, session, readings>>

\* The switch starts a log and says so; a test line and a new log likewise.
SwitchOn ==
  /\ ~enabled /\ HasRoom(1) /\ enabled' = TRUE
  /\ Becomes(Speak([CancelAll(tts) EXCEPT !.log = NewLog], Urgent))
  /\ UNCHANGED <<batch, registry, events, due, session, readings>>

TestSpeak ==
  /\ enabled /\ HasRoom(1)
  /\ Becomes(Speak(tts, Urgent))
  /\ UNCHANGED <<enabled, batch, registry, events, due, session, readings>>

ResetLog ==
  /\ enabled
  /\ Becomes([CancelAll(tts) EXCEPT !.log = NewLog])
  /\ UNCHANGED <<enabled, batch, registry, events, due, session, readings>>

-----------------------------------------------------------------------------
Init ==
  /\ enabled \in BOOLEAN
  /\ batch = None
  /\ tts = [active |-> None, waiting |-> <<>>, recent |-> {}, sink |-> {},
            log |-> NewLog, lines |-> 0]
  /\ voice = {} /\ registry = <<>> /\ events = 0 /\ due = {} /\ session = 1
  /\ readings = [e \in Event |-> 0]

Voice == \E u \in voice : VoiceStarts(u) \/ VoiceEnds(u) \/ VoiceFails(u)

Next ==
  \/ Voice
  \/ \E x \in Text : WindowPasses(x)
  \/ \E e \in Event : ServerEvent(e)
  \/ \E item \in Items, e \in {NoEvent} \cup Event : Commentary(item, e)
  \/ BatchTimer \/ PtyRestart \/ SocketCloses
  \/ SwitchOff \/ SwitchOn \/ TestSpeak \/ ResetLog

Spec == Init /\ [][Next]_vars
\* Timers fire, and the voice finishes what it was not told to drop.
FairSpec == Spec /\ WF_vars(BatchTimer)
                 /\ WF_vars(\E u \in voice : ~u.dropped /\ (VoiceStarts(u) \/ VoiceEnds(u)))

-----------------------------------------------------------------------------
Lines == (IF tts.active = None THEN {} ELSE {tts.active})
           \cup {tts.waiting[i] : i \in DOMAIN tts.waiting}

TypeOK ==
  /\ enabled \in BOOLEAN /\ session \in 1..MaxSessions
  /\ batch \in Batch \cup {None}
  /\ Lines \subseteq Line /\ tts.lines \in 0..MaxLines /\ tts.recent \subseteq Text
  /\ \A u \in voice : u.id \in 1..MaxLines
  /\ registry \in Seq(Event) /\ Len(registry) <= RegistryLimit /\ events \in 0..MaxEvents /\ due \subseteq 1..events
  /\ readings \in [Event -> Nat]

\* The queue never stands still: whenever a line waits, another is being read,
\* the sink knows exactly that line, and the voice holds one utterance that will
\* report its end - whatever dropped utterances still call back.  No utterance is
\* empty or too long, and heartbeats wait behind everything else.
OneLineIsRead ==
  /\ TypeOK
  /\ tts.waiting # <<>> => tts.active # None
  /\ Speaking(tts) = (IF tts.active = None THEN {} ELSE {tts.active.id})
  /\ {u.id : u \in {v \in voice : ~v.dropped}} = Speaking(tts)
  /\ Cardinality({u \in voice : ~u.dropped}) <= 1
  /\ \A a \in tts.sink : Len(a.chunk) \in 1..ChunkLimit
  /\ \A i, j \in DOMAIN tts.waiting :
       i < j /\ tts.waiting[i].heartbeat => tts.waiting[j].heartbeat

\* An exported log adds up: each line given to the voice ended, was cancelled
\* or is the one being read, and none counts twice through a late callback.
LogBalances ==
  /\ tts.log.tracked = Speaking(tts)
  /\ tts.log.queued = tts.log.ended + tts.log.cancelled + Cardinality(tts.log.tracked)
  /\ tts.log.ended <= tts.log.started /\ tts.log.started <= tts.log.queued

\* Nothing of an ended session, and nothing at all while the switch is off, is
\* being read, waits to be read or sits in the batch.
OnlyThisSessionIsRead ==
  /\ \A l \in Lines : l.session = session
  /\ batch # None => batch.session = session
  /\ ~enabled => Lines = {} /\ batch = None

\* The scheduler, the sink and the voice agree on the one line that is read, the
\* log counts it once, and it is a line of this session, whatever dropped
\* utterances still call back.
ReadingInv == OneLineIsRead /\ LogBalances /\ OnlyThisSessionIsRead

\* An event read at once is not read again as commentary while the registry
\* remembers it, that is until RegistryLimit later events were read.
ReadAtMostOnce ==
  \A e \in Event :
    readings[e] > 1 => \A i \in DOMAIN registry : registry[i] # e

\* A line keeps the voice until it is over: only its own end or failure, an
\* urgent line or a stop takes it away, never a notice, a progress line or the
\* callback of a line dropped before.
ReadToTheEnd ==
  [][tts.active # None /\ tts'.active # tts.active =>
       \/ \E u \in voice : u.id = tts.active.id /\ ~u.dropped /\ u \notin voice'
                           /\ tts.active.id \notin {w.id : w \in voice'}
       \/ tts'.active # None /\ tts'.active.priority = "urgent" /\ tts'.waiting = <<>>
       \/ tts'.active = None /\ tts'.waiting = <<>> /\ tts'.recent = {}]_vars

\* Every line that waits is read or dropped, also when the voice fails before it.
EveryLineSettles ==
  \A id \in 1..MaxLines : (\E l \in Lines : l.id = id) ~> ~(\E l \in Lines : l.id = id)
=============================================================================
