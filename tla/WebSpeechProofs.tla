-------------------------- MODULE WebSpeechProofs --------------------------
(***************************************************************************)
(* Theorems about WebSpeech, for all lines, limits and sessions: one line  *)
(* is read at a time, to its end, counted once and of this session, and no *)
(* event is read twice while it is remembered.                             *)
(*                                                                         *)
(* The scheduler, its sink and the recorder change together, by functions  *)
(* on one record that keep it Steady.  What that record becomes tells what *)
(* the voice holds (Holds): callbacks of dropped utterances name no line.  *)
(***************************************************************************)
EXTENDS WebSpeech, FiniteSetTheorems, SequenceTheorems, WellFoundedInduction, TLAPS

-----------------------------------------------------------------------------
(* The invariant *)

Sunk == [id : Nat, chars : Seq({Letter, Break}), spoken : Nat,
         chunk : Seq({Letter, Break}), started : BOOLEAN]
Log == [queued : Nat, started : Nat, ended : Nat, cancelled : Nat, tracked : SUBSET Nat]
Scheduler == [active : Line \cup {None}, waiting : Seq(Line), recent : SUBSET Text,
              sink : SUBSET Sunk, log : Log, lines : 0..MaxLines]

LinesOf(t) == (IF t.active = None THEN {} ELSE {t.active})
                \cup {t.waiting[i] : i \in 1..Len(t.waiting)}

\* Lines that wait are lines of their own, and heartbeats wait behind the others.
Ordered(t) ==
  /\ \A l \in LinesOf(t) : l.id <= t.lines /\ l.chars # <<>>
  /\ \A i, j \in 1..Len(t.waiting) : t.waiting[i].id = t.waiting[j].id => i = j
  /\ t.active # None => \A i \in 1..Len(t.waiting) : t.waiting[i].id # t.active.id
  /\ \A i, j \in 1..Len(t.waiting) :
       i < j /\ t.waiting[i].heartbeat => t.waiting[j].heartbeat

\* The sink reads the active line, at the place it has come to.
Reads(a, line) ==
  /\ a.id = line.id /\ a.chars = line.chars
  /\ a.spoken < Len(a.chars) /\ a.chunk = ChunkAt(a.chars, a.spoken)

\* The record, but for the line that is being read, adds up.
Settles(log) == log.queued = log.ended + log.cancelled /\ log.ended <= log.started
                  /\ log.started <= log.queued /\ log.tracked = {}

Counts(log, a) ==
  /\ log.tracked = {a.id}
  /\ log.queued = log.ended + log.cancelled + 1
  /\ log.started <= log.queued /\ log.ended <= log.started
  /\ IF a.started THEN log.ended < log.started ELSE log.started < log.queued

Loose(t) ==
  /\ t \in Scheduler
  /\ Ordered(t)
  /\ t.active = None => t.sink = {} /\ Settles(t.log)
  /\ t.active # None => \E a \in t.sink : t.sink = {a} /\ Reads(a, t.active) /\ Counts(t.log, a)

\* Nothing waits unless a line is read.
Steady(t) == Loose(t) /\ (t.active = None => t.waiting = <<>>)

\* The voice holds one utterance of the line that is read; the others name no line.
Utterances == [id : 1..MaxLines, started : BOOLEAN, dropped : BOOLEAN]
Live(u, t) == ~u.dropped /\ u.id \in Speaking(t)
Late(u, t) == u.dropped /\ u.id <= t.lines /\ \A l \in LinesOf(t) : l.id # u.id
Holds(v, t) ==
  /\ v \subseteq Utterances
  /\ \A u \in v : Live(u, t) \/ Late(u, t)
  /\ \A id \in Speaking(t) : \E u \in v : ~u.dropped /\ u.id = id
  /\ \A u, w \in v : ~u.dropped /\ ~w.dropped => u = w
  /\ \A u \in v, a \in t.sink : ~u.dropped /\ u.started => a.started

Rest ==
  /\ enabled \in BOOLEAN /\ session \in 1..MaxSessions
  /\ batch \in Batch \cup {None}
  /\ registry \in Seq(Event) /\ Len(registry) <= RegistryLimit
  /\ events \in 0..MaxEvents /\ due \subseteq 1..events
  /\ readings \in [Event -> Nat]

\* There is room for the line of the batch, and its event was not read at once.
BatchFits ==
  batch # None =>
    /\ tts.lines < MaxLines
    /\ \A i \in 1..Len(registry) : registry[i] # batch.event

\* An event is remembered from the time it is read at once, and only then read.
Remembered ==
  \A i \in 1..Len(registry) : registry[i] <= events /\ readings[registry[i]] <= 1
NotYetRead == \A e \in Event : e > events => readings[e] = 0
BatchIsPast == batch # None => batch.event <= events

Inv ==
  /\ Rest /\ Steady(tts) /\ Holds(voice, tts)
  /\ BatchFits /\ Remembered /\ NotYetRead /\ BatchIsPast
  /\ OnlyThisSessionIsRead

-----------------------------------------------------------------------------
(* Where a line is cut *)

Less == {pair \in Nat \X Nat : pair[1] < pair[2]}

LEMMA LeastNumber ==
  ASSUME NEW S, S \subseteq Nat, S # {}
  PROVE  /\ Min(S) \in S
         /\ \A n \in S : Min(S) <= n
<1>1. IsWellFoundedOn(Less, Nat)
  BY NatLessThanWellFounded DEF OpToRel, Less
<1>2. \E m \in S : \A n \in S : ~(<<n, m>> \in Less)
  BY <1>1, WFMin
<1>3. \A m, n \in Nat : ~(<<n, m>> \in Less) => m =< n
  BY DEF Less
<1>4. \E m \in S : \A n \in S : m =< n
  BY <1>2, <1>3
<1> QED BY <1>4 DEF Min

LEMMA GreatestNumber ==
  ASSUME NEW S, NEW bound \in Nat, S \subseteq 0..bound, S # {}
  PROVE  /\ Max(S) \in S
         /\ \A n \in S : Max(S) >= n
<1> DEFINE T == {bound - n : n \in S}
<1>1. T \subseteq Nat /\ T # {}
  <2>1. \A n \in S : bound - n \in Nat
    OBVIOUS
  <2> QED BY <2>1
<1>2. PICK m \in S : Min(T) = bound - m
  BY <1>1, LeastNumber
<1>3. \A n \in S : bound - m <= bound - n
  BY <1>1, <1>2, LeastNumber
<1>4. \A n \in S : m >= n
  BY <1>3
<1>5. \E k \in S : \A n \in S : k >= n
  BY <1>4
<1> QED BY <1>5 DEF Max

\* No utterance is empty or too long, and none reaches beyond its line.
LEMMA ChunkFacts ==
  ASSUME NEW chars \in Seq({Letter, Break}), NEW offset \in Nat, offset < Len(chars)
  PROVE  /\ ChunkLength(chars, offset) \in 1..ChunkLimit
         /\ offset + ChunkLength(chars, offset) <= Len(chars)
         /\ ChunkAt(chars, offset) \in Seq({Letter, Break})
         /\ Len(ChunkAt(chars, offset)) = ChunkLength(chars, offset)
<1> DEFINE sixths == (ChunkLimit * 6) \div 10
           breaks == {n \in PreferredMinimum..ChunkLimit : chars[offset + n] = Break}
           length == ChunkLength(chars, offset)
<1>1. ChunkLimit \in Nat /\ ChunkLimit > 0 /\ Len(chars) \in Nat
  BY SpeechAssumption, LenProperties
<1>2. sixths \in Nat
  BY <1>1
<1>3. PreferredMinimum \in Nat /\ PreferredMinimum >= 1
  <2> HIDE DEF sixths
  <2>1. {1, sixths} \subseteq 0..(sixths + 1) /\ {1, sixths} # {} /\ sixths + 1 \in Nat
    BY <1>2
  <2>2. Max({1, sixths}) \in {1, sixths} /\ \A n \in {1, sixths} : Max({1, sixths}) >= n
    BY <2>1, GreatestNumber
  <2>3. PreferredMinimum = Max({1, sixths})
    BY DEF PreferredMinimum, sixths
  <2> QED BY <1>2, <2>2, <2>3
<1>4. breaks # {} => Max(breaks) \in breaks
  <2>1. breaks \subseteq 0..ChunkLimit
    BY <1>1, <1>3
  <2> QED BY <1>1, <2>1, GreatestNumber
<1>5. length = IF Len(chars) - offset <= ChunkLimit THEN Len(chars) - offset
               ELSE IF breaks = {} THEN ChunkLimit ELSE Max(breaks)
  BY DEF ChunkLength
<1>6. breaks # {} => Max(breaks) \in 1..ChunkLimit
  BY <1>1, <1>3, <1>4
<1>7. length \in 1..ChunkLimit /\ offset + length <= Len(chars)
  <2> HIDE DEF breaks, length
  <2> QED BY <1>1, <1>5, <1>6
<1> HIDE DEF length
<1>8. \A i \in offset + 1 .. offset + length : chars[i] \in {Letter, Break}
  BY <1>1, <1>7, ElementOfSeq
<1>9. ChunkAt(chars, offset) = SubSeq(chars, offset + 1, offset + length)
  BY DEF ChunkAt, length
<1>10. /\ ChunkAt(chars, offset) \in Seq({Letter, Break})
       /\ Len(ChunkAt(chars, offset)) = length
  BY <1>1, <1>7, <1>8, <1>9, SubSeqProperties
<1> QED BY <1>7, <1>10 DEF length

-----------------------------------------------------------------------------
(* Where a line waits *)

\* The line is put behind the first `place` of those that wait.
Inserted(t, line, place) ==
  [i \in 1..Len(t.waiting) + 1 |->
     IF i <= place THEN t.waiting[i] ELSE IF i = place + 1 THEN line ELSE t.waiting[i - 1]]

LEMMA InsertFacts ==
  ASSUME NEW t, t.waiting \in Seq(Line), NEW line \in Line, NEW k \in 1..Len(t.waiting)
  PROVE  /\ InsertAt(t.waiting, k, line) = Inserted(t, line, k - 1)
         /\ InsertAt(t.waiting, k, line) \in Seq(Line)
         /\ Len(InsertAt(t.waiting, k, line)) = Len(t.waiting) + 1
<1> DEFINE w == t.waiting
           n == Len(w)
           a == SubSeq(w, 1, k - 1)
           b == <<line>>
           c == SubSeq(w, k, n)
           d == a \o b
           r == d \o c
<1>1. n \in Nat /\ \A i \in 1..n : w[i] \in Line
  BY LenProperties, ElementOfSeq
<1>2. a \in Seq(Line) /\ Len(a) = k - 1 /\ \A i \in 1..k - 1 : a[i] = w[i]
  <2>1. \A i \in 1..k - 1 : w[i] \in Line
    BY <1>1
  <2>2. /\ SubSeq(w, 1, k - 1) \in Seq(Line)
        /\ Len(SubSeq(w, 1, k - 1)) = IF 1 <= k - 1 THEN (k - 1) - 1 + 1 ELSE 0
        /\ \A i \in 1..(k - 1) - 1 + 1 : SubSeq(w, 1, k - 1)[i] = w[1 + i - 1]
    BY <2>1, SubSeqProperties
  <2> QED BY <2>2
<1>3. c \in Seq(Line) /\ Len(c) = n - k + 1 /\ \A i \in 1..n - k + 1 : c[i] = w[k + i - 1]
  <2>1. \A i \in k..n : w[i] \in Line
    BY <1>1
  <2> QED BY <1>1, <2>1, SubSeqProperties
<1>4. b \in Seq(Line) /\ Len(b) = 1 /\ b[1] = line
  OBVIOUS
<1> HIDE DEF a, b, c
<1>5. /\ d \in Seq(Line) /\ Len(d) = Len(a) + Len(b)
      /\ \A i \in 1..Len(a) + Len(b) : d[i] = IF i <= Len(a) THEN a[i] ELSE b[i - Len(a)]
  BY <1>2, <1>4, ConcatProperties, Zenon
<1> HIDE DEF d
<1>6. /\ r \in Seq(Line) /\ Len(r) = Len(d) + Len(c)
      /\ \A i \in 1..Len(d) + Len(c) : r[i] = IF i <= Len(d) THEN d[i] ELSE c[i - Len(d)]
  <2>1. d \in Seq(Line) /\ c \in Seq(Line)
    BY <1>3, <1>5
  <2> QED BY <2>1, ConcatProperties, Zenon
<1>7. r = [i \in 1..Len(r) |-> r[i]]
  BY <1>6, LenProperties
<1> HIDE DEF r
<1>8. Len(d) = k /\ \A i \in 1..k : d[i] = IF i <= k - 1 THEN w[i] ELSE line
  BY <1>2, <1>4, <1>5
<1>9. Len(r) = n + 1 /\ \A i \in 1..n + 1 : r[i] = Inserted(t, line, k - 1)[i]
  BY <1>1, <1>3, <1>6, <1>8 DEF Inserted
<1>10. r = Inserted(t, line, k - 1)
  BY <1>7, <1>9 DEF Inserted
<1> QED BY <1>6, <1>9, <1>10 DEF InsertAt, a, b, c, d, r

\* What findIndex finds: the first heartbeat, unless there is none.
LEMMA FirstHeartbeat ==
  ASSUME NEW t, t.waiting \in Seq(Line)
  PROVE  LET at == SelectInSeq(t.waiting, LAMBDA l : l.heartbeat) IN
           \/ at = 0 /\ \A i \in 1..Len(t.waiting) : ~t.waiting[i].heartbeat
           \/ /\ at \in 1..Len(t.waiting) /\ t.waiting[at].heartbeat
              /\ \A i \in 1..at - 1 : ~t.waiting[i].heartbeat
<1> DEFINE beats == {i \in 1..Len(t.waiting) : t.waiting[i].heartbeat}
           at == IF beats # {} THEN Min(beats) ELSE 0
<1>1. beats \subseteq Nat /\ Len(t.waiting) \in Nat
  BY LenProperties
<1>2. beats # {} => Min(beats) \in beats /\ \A n \in beats : Min(beats) <= n
  BY <1>1, LeastNumber
<1>3. \/ at = 0 /\ \A i \in 1..Len(t.waiting) : ~t.waiting[i].heartbeat
      \/ /\ at \in 1..Len(t.waiting) /\ t.waiting[at].heartbeat
         /\ \A i \in 1..at - 1 : ~t.waiting[i].heartbeat
  <2>1. CASE beats = {}
    BY <2>1
  <2>2. CASE beats # {}
    <3>1. at \in beats /\ \A i \in 1..at - 1 : i \notin beats
      <4>1. at = Min(beats) /\ at \in beats /\ \A n \in beats : at <= n
        BY <1>2, <2>2
      <4> HIDE DEF at, beats
      <4> QED BY <1>1, <4>1
    <3>2. \A i \in 1..at - 1 : i \in 1..Len(t.waiting)
      BY <1>1, <3>1
    <3> QED BY <3>1, <3>2
  <2> QED BY <2>1, <2>2
<1>4. SelectInSeq(t.waiting, LAMBDA l : l.heartbeat) = at
  BY DEF SelectInSeq
<1> QED BY <1>3, <1>4

Placed(t, line) ==
  LET at == SelectInSeq(t.waiting, LAMBDA l : l.heartbeat)
  IN  IF line.heartbeat \/ at = 0 THEN Append(t.waiting, line) ELSE InsertAt(t.waiting, at, line)

\* A line waits behind all that are not heartbeats, and a heartbeat behind all.
LEMMA PlacedFacts ==
  ASSUME NEW t, t.waiting \in Seq(Line), NEW line \in Line,
         \A i, j \in 1..Len(t.waiting) :
           i < j /\ t.waiting[i].heartbeat => t.waiting[j].heartbeat
  PROVE  \E place \in 0..Len(t.waiting) :
           /\ Placed(t, line) = Inserted(t, line, place)
           /\ Placed(t, line) \in Seq(Line) /\ Len(Placed(t, line)) = Len(t.waiting) + 1
           /\ line.heartbeat => place = Len(t.waiting)
           /\ ~line.heartbeat => \A i \in 1..place : ~t.waiting[i].heartbeat
           /\ \A i \in place + 1..Len(t.waiting) : t.waiting[i].heartbeat
<1> DEFINE w == t.waiting
           at == SelectInSeq(w, LAMBDA l : l.heartbeat)
<1>1. \/ at = 0 /\ \A i \in 1..Len(w) : ~w[i].heartbeat
      \/ /\ at \in 1..Len(w) /\ w[at].heartbeat
         /\ \A i \in 1..at - 1 : ~w[i].heartbeat
  BY FirstHeartbeat
<1>2. Placed(t, line) = IF line.heartbeat \/ at = 0 THEN Append(w, line) ELSE InsertAt(w, at, line)
  BY DEF Placed
<1> HIDE DEF at
<1>3. Len(w) \in Nat
  BY LenProperties
<1>4. CASE line.heartbeat \/ at = 0
  <2>1. /\ Append(w, line) \in Seq(Line) /\ Len(Append(w, line)) = Len(w) + 1
        /\ \A i \in 1..Len(w) : Append(w, line)[i] = w[i]
        /\ Append(w, line)[Len(w) + 1] = line
    BY AppendProperties
  <2> DEFINE a == Append(w, line)
  <2>2. a = [i \in 1..Len(a) |-> a[i]]
    BY <2>1, LenProperties
  <2> HIDE DEF a
  <2>3. Len(a) = Len(w) + 1 /\ \A i \in 1..Len(w) + 1 : a[i] = Inserted(t, line, Len(w))[i]
    BY <1>3, <2>1 DEF Inserted, a
  <2>4. a = Inserted(t, line, Len(w))
    BY <2>2, <2>3 DEF Inserted
  <2> QED BY <1>1, <1>2, <1>3, <1>4, <2>1, <2>4 DEF a
<1>5. CASE ~(line.heartbeat \/ at = 0)
  <2>1. at \in 1..Len(w) /\ w[at].heartbeat /\ \A i \in 1..at - 1 : ~w[i].heartbeat
    BY <1>1, <1>5
  <2>2. /\ Placed(t, line) = Inserted(t, line, at - 1)
        /\ Placed(t, line) \in Seq(Line) /\ Len(Placed(t, line)) = Len(w) + 1
    BY <1>2, <1>5, <2>1, InsertFacts
  <2>3. \A i \in at..Len(w) : w[i].heartbeat
    BY <1>3, <2>1
  <2>4. at - 1 \in 0..Len(w) /\ (at - 1) + 1 = at
    BY <1>3, <2>1
  <2> QED BY <1>5, <2>1, <2>2, <2>3, <2>4
<1> QED BY <1>4, <1>5

\* The line has a number of its own and something to say.
Fresh(t, line) ==
  /\ line \in Line /\ line.id <= t.lines /\ line.chars # <<>>
  /\ \A l \in LinesOf(t) : l.id # line.id

LEMMA LineFields ==
  ASSUME NEW l \in Line
  PROVE  /\ l.id \in Nat /\ l.id \in 1..MaxLines /\ l.heartbeat \in BOOLEAN /\ l # None
         /\ l.chars \in Seq({Letter, Break}) /\ l.session \in 1..MaxSessions
  BY SpeechAssumption DEF Line

LEMMA QueuedLoose ==
  ASSUME NEW t, Loose(t), NEW line, Fresh(t, line)
  PROVE  LET q == [t EXCEPT !.waiting = Placed(t, line)]
         IN  /\ Loose(q)
             /\ LinesOf(q) = LinesOf(t) \cup {line}
             /\ q.active = t.active /\ q.sink = t.sink /\ q.lines = t.lines
             /\ q.recent = t.recent /\ q.log = t.log
             /\ Len(q.waiting) = Len(t.waiting) + 1
             /\ t.waiting = <<>> => q.waiting = <<line>>
<1> DEFINE q == [t EXCEPT !.waiting = Placed(t, line)]
           w == t.waiting
<1>1. t \in Scheduler /\ Ordered(t) /\ w \in Seq(Line) /\ Len(w) \in Nat
  BY LenProperties DEF Loose, Scheduler
<1>2. PICK place \in 0..Len(w) :
        /\ Placed(t, line) = Inserted(t, line, place)
        /\ Placed(t, line) \in Seq(Line) /\ Len(Placed(t, line)) = Len(w) + 1
        /\ line.heartbeat => place = Len(w)
        /\ ~line.heartbeat => \A i \in 1..place : ~w[i].heartbeat
        /\ \A i \in place + 1..Len(w) : w[i].heartbeat
  BY <1>1, PlacedFacts DEF Ordered, Fresh
<1> DEFINE v == Inserted(t, line, place)
<1>3. \A i \in 1..Len(w) : w[i] \in Line
  BY <1>1, ElementOfSeq
<1>4. /\ \A i \in 1..Len(w) + 1 :
           v[i] = IF i <= place THEN w[i] ELSE IF i = place + 1 THEN line ELSE w[i - 1]
      /\ v \in [1..Len(w) + 1 -> Line]
  <2>1. \A i \in 1..Len(w) + 1 :
          (IF i <= place THEN w[i] ELSE IF i = place + 1 THEN line ELSE w[i - 1]) \in Line
    BY <1>1, <1>2, <1>3 DEF Fresh
  <2> QED BY <2>1 DEF Inserted
<1> HIDE DEF v
<1>5. v \in Seq(Line) /\ Len(v) = Len(w) + 1
  BY <1>2 DEF v
<1>6. /\ q \in Scheduler /\ q.waiting = v /\ q.active = t.active /\ q.sink = t.sink
      /\ q.lines = t.lines /\ q.recent = t.recent /\ q.log = t.log
  BY <1>1, <1>2, <1>5 DEF Scheduler, v
<1> HIDE DEF q
<1>7. {v[i] : i \in 1..Len(v)} = {w[i] : i \in 1..Len(w)} \cup {line}
  <2>1. \A i \in 1..Len(v) : v[i] \in {w[j] : j \in 1..Len(w)} \cup {line}
    <3> SUFFICES ASSUME NEW i \in 1..Len(v)
                 PROVE  v[i] = line \/ \E j \in 1..Len(w) : v[i] = w[j]
      OBVIOUS
    <3>1. CASE i <= place
      BY <1>1, <1>2, <1>4, <1>5, <3>1
    <3>2. CASE i = place + 1
      BY <1>1, <1>2, <1>4, <1>5, <3>2
    <3>3. CASE i > place + 1
      <4>1. v[i] = w[i - 1] /\ i - 1 \in 1..Len(w)
        BY <1>1, <1>2, <1>4, <1>5, <3>3
      <4> QED BY <4>1
    <3> QED BY <1>2, <3>1, <3>2, <3>3
  <2>2. v[place + 1] = line /\ place + 1 \in 1..Len(v)
    BY <1>1, <1>2, <1>4, <1>5
  <2>3. ASSUME NEW i \in 1..Len(w) PROVE \E j \in 1..Len(v) : w[i] = v[j]
    <3>1. CASE i <= place
      BY <1>1, <1>4, <1>5, <3>1
    <3>2. CASE i > place
      <4>1. i + 1 \in 1..Len(v) /\ v[i + 1] = w[i]
        BY <1>1, <1>2, <1>4, <1>5, <3>2
      <4> QED BY <4>1
    <3> QED BY <1>2, <3>1, <3>2
  <2> QED BY <2>1, <2>2, <2>3
<1>8. LinesOf(q) = LinesOf(t) \cup {line}
  <2>1. q.waiting = v
    BY <1>6
  <2>2. LinesOf(q) = (IF t.active = None THEN {} ELSE {t.active}) \cup {v[i] : i \in 1..Len(v)}
    BY <1>6 DEF LinesOf
  <2> QED BY <1>7, <2>2 DEF LinesOf
<1>9. Ordered(q)
  <2>1. \A l \in LinesOf(q) : l.id <= q.lines /\ l.chars # <<>>
    BY <1>1, <1>6, <1>8 DEF Ordered, Fresh
  <2>2. \A i \in 1..Len(w) : w[i].id # line.id
    BY DEF Fresh, LinesOf
  <2>3. \A i, j \in 1..Len(w) : w[i].id = w[j].id => i = j
    BY <1>1 DEF Ordered
  <2>4. \A i, j \in 1..Len(v) : v[i].id = v[j].id => i = j
    <3> SUFFICES ASSUME NEW i \in 1..Len(v), NEW j \in 1..Len(v), v[i].id = v[j].id, i < j
                 PROVE  FALSE
      BY <1>1, <1>5
    <3>1. \/ v[i] = w[i] /\ i \in 1..Len(w) /\ i <= place
          \/ v[i] = line /\ i = place + 1
          \/ v[i] = w[i - 1] /\ i - 1 \in 1..Len(w) /\ i > place + 1
      BY <1>1, <1>2, <1>4, <1>5
    <3>2. \/ v[j] = w[j] /\ j \in 1..Len(w) /\ j <= place
          \/ v[j] = line /\ j = place + 1
          \/ v[j] = w[j - 1] /\ j - 1 \in 1..Len(w) /\ j > place + 1
      BY <1>1, <1>2, <1>4, <1>5
    <3>3. CASE v[i] = line \/ v[j] = line
      <4>1. \E k \in 1..Len(w) : w[k].id = line.id
        BY <1>1, <1>2, <3>1, <3>2, <3>3
      <4> QED BY <4>1, <2>2
    <3>4. CASE v[i] # line /\ v[j] # line
      <4> DEFINE k == IF i <= place THEN i ELSE i - 1
                 m == IF j <= place THEN j ELSE j - 1
      <4>1. k \in 1..Len(w) /\ v[i] = w[k]
        BY <1>1, <1>2, <3>1, <3>4
      <4>2. m \in 1..Len(w) /\ v[j] = w[m]
        BY <1>1, <1>2, <3>2, <3>4
      <4>3. k # m
        BY <1>1, <1>2, <3>1, <3>2, <3>4
      <4> QED BY <4>1, <4>2, <4>3, <2>3
    <3> QED BY <3>3, <3>4
  <2>5. q.active # None => \A i \in 1..Len(v) : v[i].id # q.active.id
    <3>1. t.active # None => \A i \in 1..Len(w) : w[i].id # t.active.id
      BY <1>1 DEF Ordered
    <3>2. t.active # None => line.id # t.active.id
      BY DEF Fresh, LinesOf
    <3>3. \A i \in 1..Len(v) : v[i] \in LinesOf(q) /\ (v[i] = line \/ \E j \in 1..Len(w) : v[i] = w[j])
      BY <1>6, <1>7 DEF LinesOf
    <3> HIDE DEF w
    <3> QED BY <1>6, <3>1, <3>2, <3>3
  <2>6. \A i, j \in 1..Len(v) : i < j /\ v[i].heartbeat => v[j].heartbeat
    <3>1. \A i, j \in 1..Len(w) : i < j /\ w[i].heartbeat => w[j].heartbeat
      BY <1>1 DEF Ordered
    <3> SUFFICES ASSUME NEW i \in 1..Len(v), NEW j \in 1..Len(v), i < j, v[i].heartbeat
                 PROVE  v[j].heartbeat
      OBVIOUS
    <3>2. CASE j <= place
      <4>1. v[i] = w[i] /\ v[j] = w[j] /\ i \in 1..Len(w) /\ j \in 1..Len(w)
        BY <1>1, <1>2, <1>4, <1>5, <3>2
      <4> QED BY <4>1, <3>1
    <3>3. CASE j = place + 1
      <4>1. v[i] = w[i] /\ v[j] = line /\ i \in 1..place
        BY <1>1, <1>2, <1>4, <1>5, <3>3
      <4> QED BY <4>1, <1>2
    <3>4. CASE j > place + 1
      <4>1. v[j] = w[j - 1] /\ j - 1 \in place + 1..Len(w)
        BY <1>1, <1>4, <1>5, <3>4
      <4> QED BY <4>1, <1>2
    <3> QED BY <1>2, <3>2, <3>3, <3>4
  <2> QED BY <1>6, <2>1, <2>4, <2>5, <2>6 DEF Ordered
<1>10. Loose(q)
  BY <1>6, <1>9 DEF Loose
<1>11. w = <<>> => v = <<line>>
  <2>1. w = <<>> => Len(v) = 1 /\ v[1] = line
    BY <1>2, <1>4, <1>5
  <2> QED BY <1>4, <1>5, <2>1
<1> QED BY <1>5, <1>6, <1>8, <1>10, <1>11 DEF q

-----------------------------------------------------------------------------
(* The scheduler goes on *)

LEMMA SchedulerFields ==
  ASSUME NEW t \in Scheduler
  PROVE  /\ t.active \in Line \cup {None} /\ t.waiting \in Seq(Line) /\ t.recent \subseteq Text
         /\ t.sink \subseteq Sunk /\ t.log \in Log /\ t.lines \in 0..MaxLines /\ t.lines \in Nat
         /\ MaxLines \in Nat
  BY SpeechAssumption DEF Scheduler

LEMMA QueuedFields ==
  ASSUME NEW log \in Log, NEW id \in Nat
  PROVE  /\ RecordQueued(log, id) \in Log
         /\ RecordQueued(log, id).queued = log.queued + 1
         /\ RecordQueued(log, id).tracked = log.tracked \cup {id}
         /\ RecordQueued(log, id).started = log.started
         /\ RecordQueued(log, id).ended = log.ended
         /\ RecordQueued(log, id).cancelled = log.cancelled
<1>1. log.queued + 1 \in Nat /\ log.tracked \cup {id} \in SUBSET Nat
  BY DEF Log
<1> DEFINE n == log.queued + 1
           T == log.tracked \cup {id}
           r == [log EXCEPT !.queued = n, !.tracked = T]
<1>2. RecordQueued(log, id) = r
  BY DEF RecordQueued
<1> HIDE DEF n, T
<1>3. /\ r \in Log /\ r.queued = n /\ r.tracked = T /\ r.started = log.started
      /\ r.ended = log.ended /\ r.cancelled = log.cancelled
  BY <1>1 DEF Log, n, T
<1> QED BY <1>2, <1>3 DEF n, T

LEMMA ReadingFacts ==
  ASSUME NEW line \in Line, line.chars # <<>>
  PROVE  Reading(line) \in Sunk /\ Reads(Reading(line), line) /\ Reading(line).started = FALSE
<1>1. line.chars \in Seq({Letter, Break}) /\ line.id \in Nat
  BY LineFields
<1>2. Len(line.chars) \in Nat /\ 0 < Len(line.chars)
  BY <1>1, EmptySeq
<1>3. ChunkAt(line.chars, 0) \in Seq({Letter, Break})
  BY <1>1, <1>2, ChunkFacts
<1> QED BY <1>1, <1>2, <1>3 DEF Reading, Sunk, Reads

\* When nothing is read the next line is, and otherwise nothing changes.
LEMMA PumpKeeps ==
  ASSUME NEW t, Loose(t)
  PROVE  LET s == Pump(t)
         IN  /\ Steady(s) /\ LinesOf(s) = LinesOf(t)
             /\ s.lines = t.lines /\ s.recent = t.recent
             /\ t.active # None \/ t.waiting = <<>> => s = t
             /\ t.active = None /\ t.waiting # <<>> =>
                  s.active = t.waiting[1] /\ s.waiting = Tail(t.waiting)
<1> DEFINE s == Pump(t)
           w == t.waiting
<1>1. t \in Scheduler /\ Ordered(t) /\ w \in Seq(Line) /\ Len(w) \in Nat
  BY LenProperties DEF Loose, Scheduler
<1>2. CASE t.active # None \/ w = <<>>
  BY <1>2 DEF Pump, Steady
<1>3. CASE ~(t.active # None \/ w = <<>>)
  <2> DEFINE next == Head(w)
             a == Reading(next)
             log == RecordQueued(t.log, next.id)
  <2>1. /\ s = [t EXCEPT !.active = next, !.waiting = Tail(w), !.sink = t.sink \cup {a}, !.log = log]
    BY <1>3 DEF Pump
  <2>2. /\ next \in Line /\ Tail(w) \in Seq(Line) /\ Len(Tail(w)) = Len(w) - 1
        /\ \A i \in 1..Len(Tail(w)) : Tail(w)[i] = w[i + 1]
    BY <1>1, <1>3, HeadTailProperties
  <2>3. next = w[1] /\ 1 \in 1..Len(w)
    BY <1>1, <1>3, EmptySeq
  <2>4. next.chars # <<>> /\ next.id <= t.lines /\ next.id \in Nat /\ next # None
    BY <1>1, <2>2, <2>3, LineFields DEF Ordered, LinesOf
  <2>5. a \in Sunk /\ Reads(a, next) /\ a.started = FALSE
    BY <2>2, <2>4, ReadingFacts
  <2>6. t.sink = {} /\ Settles(t.log) /\ t.log \in Log
    BY <1>1, <1>3, SchedulerFields DEF Loose
  <2>7. log \in Log /\ Counts(log, a)
    <3>1. a.id = next.id
      BY <2>5 DEF Reads
    <3>2. /\ log \in Log /\ log.queued = t.log.queued + 1
          /\ log.tracked = t.log.tracked \cup {next.id} /\ log.started = t.log.started
          /\ log.ended = t.log.ended /\ log.cancelled = t.log.cancelled
      BY <2>4, <2>6, QueuedFields
    <3> HIDE DEF a, next, log
    <3> QED BY <2>5, <2>6, <3>1, <3>2 DEF Settles, Counts, Log
  <2> HIDE DEF next, a, log, s
  <2>8. /\ s \in Scheduler /\ s.active = next /\ s.waiting = Tail(w) /\ s.sink = {a}
        /\ s.log = log /\ s.lines = t.lines /\ s.recent = t.recent
    BY <1>1, <2>1, <2>2, <2>5, <2>6, <2>7 DEF Scheduler
  <2>9. LinesOf(s) = LinesOf(t)
    <3>1. {Tail(w)[i] : i \in 1..Len(Tail(w))} \cup {w[1]} = {w[i] : i \in 1..Len(w)}
      <4>1. ASSUME NEW i \in 1..Len(Tail(w)) PROVE Tail(w)[i] = w[i + 1] /\ i + 1 \in 1..Len(w)
        BY <1>1, <2>2
      <4>2. ASSUME NEW i \in 1..Len(w), i # 1
            PROVE  w[i] = Tail(w)[i - 1] /\ i - 1 \in 1..Len(Tail(w))
        BY <1>1, <2>2, <4>2
      <4> QED BY <2>3, <4>1, <4>2
    <3>2. LinesOf(s) = {next} \cup {Tail(w)[i] : i \in 1..Len(Tail(w))}
      BY <2>4, <2>8 DEF LinesOf
    <3>3. LinesOf(t) = {w[i] : i \in 1..Len(w)}
      BY <1>3 DEF LinesOf
    <3> QED BY <2>3, <3>1, <3>2, <3>3
  <2>10. Ordered(s)
    <3>1. \A l \in LinesOf(s) : l.id <= s.lines /\ l.chars # <<>>
      BY <1>1, <2>8, <2>9 DEF Ordered
    <3>2. \A i \in 1..Len(Tail(w)) : i + 1 \in 1..Len(w) /\ Tail(w)[i] = w[i + 1] /\ i + 1 # 1
      BY <1>1, <2>2
    <3>3. \A i, j \in 1..Len(w) : w[i].id = w[j].id => i = j
      BY <1>1 DEF Ordered
    <3>4. \A i, j \in 1..Len(Tail(w)) : Tail(w)[i].id = Tail(w)[j].id => i = j
      BY <1>1, <2>2, <3>2, <3>3
    <3>5. \A i \in 1..Len(Tail(w)) : Tail(w)[i].id # next.id
      BY <2>3, <3>2, <3>3
    <3>6. \A i, j \in 1..Len(w) : i < j /\ w[i].heartbeat => w[j].heartbeat
      BY <1>1 DEF Ordered
    <3>7. ASSUME NEW i \in 1..Len(Tail(w)), NEW j \in 1..Len(Tail(w)), i < j, Tail(w)[i].heartbeat
          PROVE  Tail(w)[j].heartbeat
      <4>1. w[i + 1].heartbeat /\ i + 1 < j + 1
        BY <1>1, <2>2, <3>2, <3>7
      <4>2. w[j + 1].heartbeat
        BY <3>2, <3>6, <4>1
      <4> QED BY <3>2, <4>2
    <3> QED BY <2>8, <3>1, <3>4, <3>5, <3>7 DEF Ordered
  <2>11. Steady(s)
    BY <2>4, <2>5, <2>7, <2>8, <2>10 DEF Steady, Loose
  <2> QED BY <1>3, <2>3, <2>8, <2>9, <2>11 DEF s
<1> QED BY <1>2, <1>3

\* A line is read at once when nothing else is, and otherwise waits.
LEMMA EnqueueKeeps ==
  ASSUME NEW t, Loose(t), NEW line, Fresh(t, line)
  PROVE  LET s == Enqueue(t, line)
         IN  /\ Steady(s) /\ LinesOf(s) = LinesOf(t) \cup {line}
             /\ s.lines = t.lines /\ s.recent = t.recent
             /\ t.active # None => s.active = t.active /\ s.sink = t.sink
             /\ t.active = None /\ t.waiting = <<>> => s.active = line /\ s.waiting = <<>>
<1> DEFINE q == [t EXCEPT !.waiting = Placed(t, line)]
           s == Enqueue(t, line)
<1>1. s = Pump(q)
  BY DEF Enqueue, Placed
<1>2. /\ Loose(q) /\ LinesOf(q) = LinesOf(t) \cup {line}
      /\ q.active = t.active /\ q.sink = t.sink /\ q.lines = t.lines /\ q.recent = t.recent
      /\ t.waiting = <<>> => q.waiting = <<line>>
  BY QueuedLoose
<1> HIDE DEF q, s
<1>3. /\ Steady(Pump(q)) /\ LinesOf(Pump(q)) = LinesOf(q)
      /\ Pump(q).lines = q.lines /\ Pump(q).recent = q.recent
      /\ q.active # None \/ q.waiting = <<>> => Pump(q) = q
      /\ q.active = None /\ q.waiting # <<>> =>
           Pump(q).active = q.waiting[1] /\ Pump(q).waiting = Tail(q.waiting)
  BY <1>2, PumpKeeps
<1>4. <<line>>[1] = line /\ Tail(<<line>>) = <<>> /\ <<line>> # <<>>
  OBVIOUS
<1> QED BY <1>1, <1>2, <1>3, <1>4 DEF s

LEMMA SpeakingFacts ==
  ASSUME NEW t, Loose(t)
  PROVE  /\ t.active = None => Speaking(t) = {} /\ Cardinality(Speaking(t)) = 0
         /\ t.active # None => Speaking(t) = {t.active.id} /\ Cardinality(Speaking(t)) = 1
         /\ t.log.tracked = Speaking(t)
<1>1. CASE t.active = None
  <2>1. Speaking(t) = {} /\ t.log.tracked = {}
    BY <1>1 DEF Loose, Speaking, Settles
  <2> QED BY <1>1, <2>1, FS_EmptySet
<1>2. CASE t.active # None
  <2>1. Speaking(t) = {t.active.id} /\ t.log.tracked = {t.active.id}
    BY <1>2 DEF Loose, Speaking, Reads, Counts
  <2> QED BY <1>2, <2>1, FS_Singleton
<1> QED BY <1>1, <1>2

\* All that was read or waited is dropped and recorded.
LEMMA CancelKeeps ==
  ASSUME NEW t, Loose(t)
  PROVE  LET s == Reset(SinkCancel(t))
         IN  /\ Steady(s) /\ LinesOf(s) = {} /\ s.active = None /\ s.waiting = <<>> /\ s.sink = {}
             /\ s.lines = t.lines /\ s.recent = t.recent
<1> DEFINE s == Reset(SinkCancel(t))
           log == RecordCancelled(t.log, Speaking(t))
<1>1. t \in Scheduler /\ t.log \in Log
  BY DEF Loose, Scheduler
<1>2. /\ s.active = None /\ s.waiting = <<>> /\ s.sink = {} /\ s.log = log
      /\ s.lines = t.lines /\ s.recent = t.recent
      /\ s = [active |-> None, waiting |-> <<>>, recent |-> t.recent, sink |-> {},
              log |-> log, lines |-> t.lines]
  <2>1. s = Reset([t EXCEPT !.log = log, !.sink = {}])
    BY DEF SinkCancel
  <2> HIDE DEF log, s
  <2> QED BY <1>1, <2>1 DEF Reset, Scheduler
<1>3. Cardinality(Speaking(t)) \in {0, 1} /\ t.log.tracked = Speaking(t)
  BY SpeakingFacts
<1> DEFINE n == Cardinality(Speaking(t))
<1>4. /\ t.log.queued = t.log.ended + t.log.cancelled + n
      /\ t.log.ended <= t.log.started /\ t.log.started <= t.log.queued
  <2>1. CASE t.active = None
    BY <1>1, <2>1, SpeakingFacts DEF Loose, Settles, Log
  <2>2. CASE t.active # None
    BY <1>1, <2>2, SpeakingFacts DEF Loose, Counts, Log
  <2> QED BY <2>1, <2>2
<1>5. log = [t.log EXCEPT !.cancelled = t.log.cancelled + n, !.tracked = t.log.tracked \ Speaking(t)]
  BY DEF RecordCancelled
<1> DEFINE m == t.log.cancelled + n
<1>6. log \in Log /\ Settles(log)
  <2>1. m \in Nat /\ n \in {0, 1} /\ t.log.tracked \ Speaking(t) = {}
    BY <1>1, <1>3 DEF Log
  <2>2. log = [t.log EXCEPT !.cancelled = m, !.tracked = {}]
    BY <1>5, <2>1
  <2> HIDE DEF n, m, log
  <2>3. /\ log \in Log /\ log.cancelled = m /\ log.tracked = {} /\ log.queued = t.log.queued
        /\ log.started = t.log.started /\ log.ended = t.log.ended
    BY <1>1, <2>1, <2>2 DEF Log
  <2> QED BY <1>1, <1>4, <2>1, <2>3 DEF Log, Settles, m
<1> HIDE DEF n, log, s
<1>7. s \in Scheduler
  BY <1>1, <1>2, <1>6, EmptySeq DEF Scheduler
<1>8. LinesOf(s) = {}
  BY <1>2 DEF LinesOf
<1>9. Ordered(s)
  <2>1. 1..Len(s.waiting) = {}
    BY <1>2
  <2> HIDE DEF s
  <2> QED BY <1>2, <1>8, <2>1 DEF Ordered
<1> QED BY <1>2, <1>6, <1>7, <1>8, <1>9 DEF s, Steady, Loose

-----------------------------------------------------------------------------
(* What is spoken *)

\* A commentary of which something is left to say.
Speakable(item) ==
  /\ item \in Items \cup {Urgent} /\ item.chars # <<>>
  /\ item.priority # "urgent" => item.text \in Text

\* How the scheduler moves on: lines are new ones or were there before, and those
\* that the sink has let go of are gone.
Moves(t, s) ==
  /\ t.lines <= s.lines
  /\ \A l \in LinesOf(s) : l \in LinesOf(t) \/ l.id > t.lines
  /\ s.sink = t.sink \/ \A l \in LinesOf(s) : l.id \notin Speaking(t)

LEMMA SameKeeps ==
  ASSUME NEW t, NEW s \in Scheduler, s.active = t.active, s.waiting = t.waiting,
         s.sink = t.sink, s.log = t.log, t.lines <= s.lines, Loose(t)
  PROVE  /\ Loose(s) /\ LinesOf(s) = LinesOf(t)
         /\ Steady(t) => Steady(s)
<1>1. LinesOf(s) = LinesOf(t)
  BY DEF LinesOf
<1>2. \A l \in LinesOf(t) : l.id \in Nat
  <2>1. t.active \in Line \cup {None} /\ t.waiting \in Seq(Line)
    BY DEF Loose, Scheduler
  <2>2. \A l \in LinesOf(t) : l \in Line
    BY <2>1, ElementOfSeq DEF LinesOf
  <2> QED BY <2>2, LineFields
<1>3. t.lines \in Nat /\ s.lines \in Nat
  BY SchedulerFields DEF Loose
<1>4. Ordered(s)
  BY <1>1, <1>2, <1>3 DEF Loose, Ordered
<1>5. Loose(s)
  BY <1>4 DEF Loose
<1> QED BY <1>1, <1>5 DEF Steady

LEMMA LinesAreLines ==
  ASSUME NEW t, Loose(t)
  PROVE  \A l \in LinesOf(t) : l \in Line /\ l.id \in 1..t.lines
<1>1. t.active \in Line \cup {None} /\ t.waiting \in Seq(Line) /\ t.lines \in Nat
  BY SchedulerFields DEF Loose, Scheduler
<1>2. \A l \in LinesOf(t) : l \in Line
  BY <1>1, ElementOfSeq DEF LinesOf
<1>3. \A l \in LinesOf(t) : l.id <= t.lines
  BY DEF Loose, Ordered
<1>4. \A l \in Line : l.id \in 1..MaxLines /\ MaxLines \in Nat
  BY SpeechAssumption DEF Line
<1> QED BY <1>1, <1>2, <1>3, <1>4

LEMMA LineOfTyped ==
  ASSUME NEW t, t.lines \in Nat, t.lines < MaxLines, NEW item, Speakable(item),
         session \in 1..MaxSessions
  PROVE  /\ LineOf(t, item) \in Line /\ LineOf(t, item).id = t.lines + 1
         /\ LineOf(t, item).chars # <<>> /\ LineOf(t, item).priority = item.priority
         /\ LineOf(t, item).session = session
<1>1. t.lines + 1 \in 1..MaxLines
  BY SpeechAssumption
<1>2. item.priority \in {"urgent", "notice", "progress"} /\ item.text \in Text \cup {NoText}
      /\ item.heartbeat \in BOOLEAN /\ item.chars \in Seq({Letter, Break})
  <2>1. CASE item \in Items
    BY <2>1, SpeechAssumption
  <2>2. CASE item = Urgent
    BY <2>2 DEF Urgent
  <2> QED BY <2>1, <2>2 DEF Speakable
<1> QED BY <1>1, <1>2 DEF LineOf, Line, Speakable

LEMMA SpeakKeeps ==
  ASSUME NEW t, Steady(t), t.lines < MaxLines, NEW item, Speakable(item),
         session \in 1..MaxSessions
  PROVE  LET s == Speak(t, item)
         IN  /\ Steady(s) /\ s.lines = t.lines + 1 /\ Moves(t, s)
             /\ LinesOf(s) \subseteq LinesOf(t) \cup {LineOf(t, item)}
             /\ t.active # None =>
                  \/ s.active = t.active
                  \/ s.active # None /\ s.active.priority = "urgent" /\ s.waiting = <<>>
<1> DEFINE line == LineOf(t, item)
           u == [t EXCEPT !.lines = line.id]
           n == [u EXCEPT !.recent = u.recent \cup {item.text}]
           s == Speak(t, item)
           behind == \E i \in DOMAIN u.waiting :
                       u.waiting[i].priority = "progress" /\ ~u.waiting[i].heartbeat
<1>1. t \in Scheduler /\ Loose(t)
  BY DEF Steady, Loose
<1>2. t.lines \in Nat /\ t.recent \subseteq Text /\ MaxLines \in Nat
  BY <1>1, SchedulerFields
<1>3. line \in Line /\ line.id = t.lines + 1 /\ line.chars # <<>> /\ line.priority = item.priority
      /\ line # None
  BY <1>2, LineOfTyped, LineFields
<1>4. s = IF item.priority = "urgent" THEN Enqueue(Reset(SinkCancel(u)), line)
          ELSE IF item.priority = "notice" THEN Enqueue(u, line)
          ELSE IF item.text \in u.recent THEN u
          ELSE IF item.heartbeat /\ behind THEN n
          ELSE Enqueue(n, line)
  BY DEF Speak
<1> HIDE DEF line, s, behind
<1>5. /\ u \in Scheduler /\ u.active = t.active /\ u.waiting = t.waiting /\ u.sink = t.sink
      /\ u.log = t.log /\ u.lines = t.lines + 1 /\ u.recent = t.recent
  BY <1>1, <1>2, <1>3 DEF Scheduler
<1> HIDE DEF u
<1>6. Loose(u) /\ Steady(u) /\ LinesOf(u) = LinesOf(t)
  <2>1. t.lines <= u.lines
    BY <1>2, <1>5
  <2> QED BY <1>1, <1>5, <2>1, SameKeeps
<1>7. \A l \in LinesOf(t) : l.id \in 1..t.lines
  BY <1>1, LinesAreLines
<1>8. item.priority # "urgent" =>
        /\ n \in Scheduler /\ n.active = t.active /\ n.waiting = t.waiting /\ n.sink = t.sink
        /\ n.log = t.log /\ n.lines = t.lines + 1
  BY <1>2, <1>5 DEF Scheduler, Speakable
<1> HIDE DEF n
<1>9. item.priority # "urgent" => Loose(n) /\ Steady(n) /\ LinesOf(n) = LinesOf(t)
  <2> SUFFICES ASSUME item.priority # "urgent" PROVE Loose(n) /\ Steady(n) /\ LinesOf(n) = LinesOf(t)
    OBVIOUS
  <2>1. t.lines <= n.lines
    BY <1>2, <1>8
  <2> QED BY <1>1, <1>8, <2>1, SameKeeps
<1>10. ASSUME NEW v, Loose(v), LinesOf(v) \subseteq LinesOf(t), v.lines = t.lines + 1
       PROVE  Fresh(v, line)
  BY <1>2, <1>3, <1>7, <1>10 DEF Fresh
<1>11. CASE item.priority = "urgent"
  <2> DEFINE c == Reset(SinkCancel(u))
  <2>1. /\ Steady(c) /\ LinesOf(c) = {} /\ c.active = None /\ c.waiting = <<>> /\ c.sink = {}
        /\ c.lines = t.lines + 1
    BY <1>5, <1>6, CancelKeeps
  <2> HIDE DEF c
  <2>2. Loose(c) /\ Fresh(c, line)
    BY <1>10, <2>1 DEF Steady
  <2>3. /\ Steady(Enqueue(c, line)) /\ LinesOf(Enqueue(c, line)) = LinesOf(c) \cup {line}
        /\ Enqueue(c, line).lines = c.lines
        /\ c.active = None /\ c.waiting = <<>> =>
             Enqueue(c, line).active = line /\ Enqueue(c, line).waiting = <<>>
    BY <2>2, EnqueueKeeps
  <2>4. s = Enqueue(c, line)
    BY <1>4, <1>11 DEF c
  <2>5. /\ Steady(s) /\ LinesOf(s) = {line} /\ s.lines = t.lines + 1 /\ s.active = line
        /\ s.waiting = <<>>
    BY <2>1, <2>3, <2>4
  <2>6. \A id \in Speaking(t) : id \in 1..t.lines
    BY <1>1, <1>7, SpeakingFacts DEF LinesOf
  <2>7. Moves(t, s)
    BY <1>2, <1>3, <2>5, <2>6 DEF Moves
  <2> QED BY <1>3, <1>11, <2>5, <2>7 DEF line, s
<1>12. ASSUME NEW v, Steady(v), LinesOf(v) = LinesOf(t), v.active = t.active,
              v.sink = t.sink, v.lines = t.lines + 1, s = v \/ s = Enqueue(v, line)
       PROVE  /\ Steady(s) /\ s.lines = t.lines + 1 /\ Moves(t, s)
              /\ LinesOf(s) \subseteq LinesOf(t) \cup {line}
              /\ t.active # None => s.active = t.active
  <2>1. CASE s = v
    BY <1>2, <1>12, <2>1 DEF Moves
  <2>2. CASE s = Enqueue(v, line)
    <3>1. Loose(v) /\ Fresh(v, line)
      BY <1>10, <1>12 DEF Steady
    <3>2. /\ Steady(Enqueue(v, line)) /\ LinesOf(Enqueue(v, line)) = LinesOf(v) \cup {line}
          /\ Enqueue(v, line).lines = v.lines
          /\ v.active # None => Enqueue(v, line).active = v.active /\ Enqueue(v, line).sink = v.sink
      BY <3>1, EnqueueKeeps
    <3>3. t.active = None => Speaking(t) = {}
      BY <1>1, SpeakingFacts
    <3>4. Moves(t, s)
      BY <1>2, <1>3, <1>12, <2>2, <3>2, <3>3 DEF Moves
    <3> QED BY <1>12, <2>2, <3>2, <3>4
  <2> QED BY <1>12, <2>1, <2>2
<1>13. CASE item.priority # "urgent"
  <2>1. s \in {u, Enqueue(u, line), n, Enqueue(n, line)}
    BY <1>4, <1>13
  <2>2. CASE s \in {u, Enqueue(u, line)}
    BY <1>5, <1>6, <1>12, <2>2 DEF line, s
  <2>3. CASE s \in {n, Enqueue(n, line)}
    BY <1>8, <1>9, <1>12, <1>13, <2>3 DEF line, s
  <2> QED BY <2>1, <2>2, <2>3
<1> QED BY <1>11, <1>13

-----------------------------------------------------------------------------
(* What the voice holds *)

\* The sink speaks the line that is read.
LEMMA SpeakingIsActive ==
  ASSUME NEW t, Steady(t)
  PROVE  /\ \A id \in Speaking(t) : id \in 1..t.lines /\ \E l \in LinesOf(t) : l.id = id
         /\ \A a, b \in t.sink : a = b
         /\ \A a \in t.sink : a.id \in Speaking(t)
         /\ \A id \in Speaking(t) : t.active # None /\ id = t.active.id
         /\ t.lines \in 0..MaxLines /\ MaxLines \in Nat
<1>1. t \in Scheduler /\ Loose(t)
  BY DEF Steady, Loose
<1>2. CASE t.active = None
  BY <1>1, <1>2, SchedulerFields DEF Loose, Speaking
<1>3. CASE t.active # None
  <2>1. Speaking(t) = {t.active.id} /\ t.active \in LinesOf(t)
    BY <1>1, <1>3, SpeakingFacts DEF LinesOf
  <2>2. t.active.id \in 1..t.lines
    BY <1>1, <2>1, LinesAreLines
  <2>3. \A a, b \in t.sink : a = b
    BY <1>1, <1>3 DEF Loose
  <2> QED BY <1>1, <1>3, <2>1, <2>2, <2>3, SchedulerFields DEF Speaking
<1> QED BY <1>2, <1>3

LEMMA UtteranceFields ==
  ASSUME NEW u \in Utterances
  PROVE  /\ u.id \in 1..MaxLines /\ u.started \in BOOLEAN /\ u.dropped \in BOOLEAN
         /\ [u EXCEPT !.dropped = TRUE] \in Utterances
         /\ [u EXCEPT !.dropped = TRUE].id = u.id /\ [u EXCEPT !.dropped = TRUE].dropped
         /\ [u EXCEPT !.started = TRUE] \in Utterances
         /\ [u EXCEPT !.started = TRUE].id = u.id /\ [u EXCEPT !.started = TRUE].dropped = u.dropped
  BY DEF Utterances

LEMMA NewUtterance ==
  ASSUME NEW id \in 1..MaxLines
  PROVE  /\ Utterance(id) \in Utterances /\ Utterance(id).id = id
         /\ Utterance(id).started = FALSE /\ Utterance(id).dropped = FALSE
  BY DEF Utterance, Utterances

\* The sink drops what it lets go of, and hands over what it takes up.
LEMMA HeardHolds ==
  ASSUME Steady(tts), Holds(voice, tts), NEW s, Steady(s), Moves(tts, s)
  PROVE  Holds(Heard(s), s)
<1> DEFINE kept(u) == IF u.id \in Speaking(s) THEN u ELSE [u EXCEPT !.dropped = TRUE]
           old == {kept(u) : u \in voice}
           new == {Utterance(id) : id \in Speaking(s) \ Speaking(tts)}
<1>1. Heard(s) = old \cup new
  BY DEF Heard
<1>2. /\ \A id \in Speaking(tts) : id \in 1..tts.lines /\ \E l \in LinesOf(tts) : l.id = id
      /\ tts.lines \in 0..MaxLines /\ MaxLines \in Nat
  BY SpeakingIsActive
<1>3. /\ \A id \in Speaking(s) : id \in 1..s.lines /\ \E l \in LinesOf(s) : l.id = id
      /\ \A a \in s.sink : a.id \in Speaking(s)
      /\ \A a, b \in s.sink : a = b
      /\ \A id, k \in Speaking(s) : id = k
      /\ s.lines \in 0..MaxLines
  BY SpeakingIsActive
<1>4. \A l \in LinesOf(s) : l.id \in 1..s.lines
  BY LinesAreLines DEF Steady
<1>5. \A u \in voice : u \in Utterances /\ (Live(u, tts) \/ Late(u, tts))
  BY DEF Holds
<1>6. ASSUME NEW u \in voice, u.id \notin Speaking(s)
      PROVE  \A l \in LinesOf(s) : l.id # u.id
  <2>1. CASE Late(u, tts)
    BY <1>2, <1>4, <1>5, <2>1, UtteranceFields DEF Late, Moves
  <2>2. CASE Live(u, tts)
    <3>1. s.sink # tts.sink
      BY <1>6, <2>2 DEF Live, Speaking
    <3> QED BY <2>2, <3>1 DEF Live, Moves
  <2> QED BY <1>5, <2>1, <2>2
<1>7. ASSUME NEW u \in voice, u.id \in Speaking(s)
      PROVE  ~u.dropped /\ u.id \in Speaking(tts) /\ s.sink = tts.sink
  <2>1. PICK l \in LinesOf(s) : l.id = u.id
    BY <1>3, <1>7
  <2>2. ~Late(u, tts)
    BY <1>2, <1>4, <1>5, <2>1, UtteranceFields DEF Late, Moves
  <2>3. Live(u, tts)
    BY <1>5, <2>2
  <2> QED BY <2>1, <2>3 DEF Live, Moves
<1>8. \A u \in voice :
        /\ kept(u) \in Utterances /\ kept(u).id = u.id
        /\ u.id \in Speaking(s) => kept(u) = u /\ ~u.dropped
        /\ u.id \notin Speaking(s) => kept(u).dropped
  BY <1>5, <1>7, UtteranceFields
<1>9. \A u \in new : u \in Utterances /\ u.id \in Speaking(s) \ Speaking(tts) /\ ~u.dropped /\ ~u.started
  <2>1. \A id \in Speaking(s) : id \in 1..MaxLines
    BY <1>2, <1>3
  <2> QED BY <2>1, NewUtterance
<1>10. \A u \in old \cup new : Live(u, s) \/ Late(u, s)
  <2>1. ASSUME NEW u \in voice PROVE Live(kept(u), s) \/ Late(kept(u), s)
    <3>1. CASE u.id \in Speaking(s)
      BY <1>8, <3>1 DEF Live
    <3>2. CASE u.id \notin Speaking(s)
      <4>1. u.id \in 1..tts.lines /\ tts.lines <= s.lines
        <5>1. u.id \in 1..MaxLines /\ tts.lines <= s.lines
          BY <1>5, UtteranceFields DEF Moves
        <5>2. u.id \in Speaking(tts) \/ u.id <= tts.lines
          BY <1>5 DEF Live, Late
        <5> QED BY <1>2, <5>1, <5>2
      <4>2. kept(u).dropped /\ kept(u).id = u.id /\ u.id <= s.lines
        BY <1>2, <1>3, <1>8, <3>2, <4>1
      <4> QED BY <1>6, <3>2, <4>2 DEF Late
    <3> QED BY <3>1, <3>2
  <2>2. \A u \in new : Live(u, s)
    BY <1>9 DEF Live
  <2> HIDE DEF kept, new
  <2> QED BY <2>1, <2>2
<1>11. ASSUME NEW id \in Speaking(s) PROVE \E u \in old \cup new : ~u.dropped /\ u.id = id
  <2>1. CASE id \in Speaking(tts)
    <3>1. PICK u \in voice : ~u.dropped /\ u.id = id
      BY <2>1 DEF Holds
    <3>2. kept(u) = u /\ kept(u) \in old
      BY <1>8, <3>1
    <3> QED BY <3>1, <3>2
  <2>2. CASE id \notin Speaking(tts)
    <3>1. Utterance(id) \in new
      BY <2>2
    <3>2. id \in 1..MaxLines
      BY <1>3, <1>2
    <3> QED BY <3>1, <3>2, NewUtterance
  <2> QED BY <2>1, <2>2
<1>12. ASSUME NEW u \in old \cup new, NEW w \in old \cup new, ~u.dropped, ~w.dropped
       PROVE  u = w
  <2>1. ASSUME NEW x \in old \cup new, ~x.dropped
        PROVE  \/ x \in voice /\ x.id \in Speaking(s) /\ x.id \in Speaking(tts)
               \/ x.id \in Speaking(s) \ Speaking(tts) /\ x = Utterance(x.id)
    <3>1. CASE x \in old
      <4>1. PICK y \in voice : x = kept(y)
        BY <3>1
      <4> QED BY <1>7, <1>8, <2>1, <4>1
    <3>2. CASE x \in new
      <4>1. PICK id \in Speaking(s) \ Speaking(tts) : x = Utterance(id)
        BY <3>2
      <4> QED BY <4>1 DEF Utterance
    <3> QED BY <2>1, <3>1, <3>2
  <2> HIDE DEF old, new
  <2>2. /\ \/ u \in voice /\ u.id \in Speaking(s) /\ u.id \in Speaking(tts)
           \/ u.id \in Speaking(s) \ Speaking(tts) /\ u = Utterance(u.id)
        /\ \/ w \in voice /\ w.id \in Speaking(s) /\ w.id \in Speaking(tts)
           \/ w.id \in Speaking(s) \ Speaking(tts) /\ w = Utterance(w.id)
    BY <1>12, <2>1
  <2>3. u.id = w.id
    BY <1>3, <2>2
  <2> QED BY <1>12, <2>2, <2>3 DEF Holds
<1>13. ASSUME NEW u \in old \cup new, NEW a \in s.sink, ~u.dropped, u.started
       PROVE  a.started
  <2>1. u \in old
    BY <1>9, <1>13
  <2>2. PICK y \in voice : u = kept(y)
    BY <2>1
  <2>3. u = y /\ y.id \in Speaking(s)
    BY <1>8, <1>13, <2>2
  <2>4. s.sink = tts.sink
    BY <1>7, <2>3
  <2> QED BY <1>13, <2>3, <2>4 DEF Holds
<1>14. old \cup new \subseteq Utterances
  <2> HIDE DEF kept, new
  <2> QED BY <1>8, <1>9
<1> HIDE DEF old, new
<1> QED BY <1>1, <1>10, <1>11, <1>12, <1>13, <1>14 DEF Holds

-----------------------------------------------------------------------------
(* The steps of the voice *)

LEMMA LinesAre ==
  ASSUME Steady(tts)
  PROVE  Lines = LinesOf(tts)
<1>1. tts.waiting \in Seq(Line)
  BY DEF Steady, Loose, Scheduler
<1>2. DOMAIN tts.waiting = 1..Len(tts.waiting)
  BY <1>1, LenProperties
<1> QED BY <1>2 DEF Lines, LinesOf

LEMMA LinesArePrimed ==
  ASSUME Steady(tts')
  PROVE  Lines' = LinesOf(tts')
<1>1. tts'.waiting \in Seq(Line)
  BY DEF Steady, Loose, Scheduler
<1>2. DOMAIN tts'.waiting = 1..Len(tts'.waiting)
  BY <1>1, LenProperties
<1> QED BY <1>2 DEF Lines, LinesOf

\* What the voice reports changes only what is read.
LEMMA ReportKeeps ==
  ASSUME Inv, UNCHANGED <<enabled, batch, registry, events, due, session, readings>>,
         Steady(tts'), Holds(voice', tts'), tts'.lines = tts.lines,
         LinesOf(tts') \subseteq LinesOf(tts)
  PROVE  Inv'
<1>1. Lines = LinesOf(tts) /\ Lines' = LinesOf(tts')
  BY LinesAre, LinesArePrimed DEF Inv
<1>2. OnlyThisSessionIsRead'
  BY <1>1 DEF Inv, OnlyThisSessionIsRead
<1>3. Rest' /\ BatchFits' /\ Remembered' /\ NotYetRead' /\ BatchIsPast'
  BY DEF Inv, Rest, BatchFits, Remembered, NotYetRead, BatchIsPast
<1> QED BY <1>2, <1>3 DEF Inv

LEMMA SunkFields ==
  ASSUME NEW a \in Sunk
  PROVE  /\ a.id \in Nat /\ a.chars \in Seq({Letter, Break}) /\ a.spoken \in Nat
         /\ a.chunk \in Seq({Letter, Break}) /\ a.started \in BOOLEAN
  BY DEF Sunk

\* The line that is read, and what is known of it.
LEMMA ActiveFacts ==
  ASSUME NEW t, Steady(t), t.active # None
  PROVE  \E a \in Sunk :
           /\ t.sink = {a} /\ Reads(a, t.active) /\ Counts(t.log, a)
           /\ Speaking(t) = {a.id} /\ a.id = t.active.id
           /\ t.active \in Line /\ t.log \in Log /\ t \in Scheduler
<1>1. t \in Scheduler /\ Loose(t)
  BY DEF Steady, Loose
<1>2. PICK a \in t.sink : t.sink = {a} /\ Reads(a, t.active) /\ Counts(t.log, a)
  BY <1>1 DEF Loose
<1>3. a \in Sunk /\ t.active \in Line /\ t.log \in Log
  BY <1>1, SchedulerFields
<1>4. Speaking(t) = {a.id} /\ a.id = t.active.id
  BY <1>2 DEF Speaking, Reads
<1> QED BY <1>1, <1>2, <1>3, <1>4

\* The sink has begun to speak, or gone on to the next utterance of the line.
LEMMA SinkKeeps ==
  ASSUME NEW t, Steady(t), t.active # None, NEW a \in Sunk, NEW log \in Log,
         Reads(a, t.active), Counts(log, a)
  PROVE  LET s == [t EXCEPT !.sink = {a}, !.log = log]
         IN  /\ Steady(s) /\ LinesOf(s) = LinesOf(t) /\ s.lines = t.lines
             /\ Speaking(s) = Speaking(t) /\ s.sink = {a} /\ s.active = t.active
<1> DEFINE s == [t EXCEPT !.sink = {a}, !.log = log]
<1>1. t \in Scheduler /\ Loose(t) /\ Ordered(t)
  BY DEF Steady, Loose
<1>2. /\ s \in Scheduler /\ s.active = t.active /\ s.waiting = t.waiting /\ s.sink = {a}
      /\ s.log = log /\ s.lines = t.lines
  BY <1>1 DEF Scheduler
<1> HIDE DEF s
<1>3. LinesOf(s) = LinesOf(t)
  BY <1>2 DEF LinesOf
<1>4. Ordered(s)
  BY <1>1, <1>2, <1>3 DEF Ordered
<1>5. Steady(s)
  BY <1>2, <1>4 DEF Steady, Loose
<1>6. Speaking(s) = {a.id} /\ Speaking(t) = {t.active.id}
  BY <1>1, <1>2, SpeakingFacts DEF Speaking
<1> QED BY <1>2, <1>3, <1>5, <1>6 DEF s, Reads

\* onstart: the line has begun, with its first utterance.
LEMMA VoiceStartsKeeps ==
  ASSUME Inv, NEW u \in voice, VoiceStarts(u)
  PROVE  Inv'
<1> DEFINE v == [u EXCEPT !.started = TRUE]
<1>1. Steady(tts) /\ Holds(voice, tts)
  BY DEF Inv
<1>2. /\ ~u.dropped /\ u.id \in Speaking(tts) /\ u \in Utterances
      /\ v \in Utterances /\ v.id = u.id /\ ~v.dropped
      /\ voice' = (voice \ {u}) \cup {v}
  BY <1>1, UtteranceFields DEF VoiceStarts, Holds, Live, Late
<1>3. tts.active # None
  BY <1>1, <1>2, SpeakingIsActive
<1>4. PICK a \in Sunk :
        /\ tts.sink = {a} /\ Reads(a, tts.active) /\ Counts(tts.log, a)
        /\ Speaking(tts) = {a.id} /\ a.id = tts.active.id /\ tts.log \in Log /\ tts \in Scheduler
  BY <1>1, <1>3, ActiveFacts
<1> HIDE DEF v
<1>5. /\ Steady(tts') /\ LinesOf(tts') = LinesOf(tts) /\ tts'.lines = tts.lines
      /\ Speaking(tts') = Speaking(tts) /\ \A b \in tts'.sink : b.started
  <2>1. CASE a.started
    <3>1. tts' = tts
      BY <1>2, <1>4, <2>1 DEF VoiceStarts
    <3> QED BY <1>1, <1>4, <2>1, <3>1
  <2>2. CASE ~a.started
    <3> DEFINE b == [a EXCEPT !.started = TRUE]
               log == RecordStarted(tts.log)
    <3>1. tts' = [tts EXCEPT !.sink = {b}, !.log = log]
      <4>1. {[x EXCEPT !.started = TRUE] : x \in tts.sink} = {b}
        BY <1>4
      <4>2. \E x \in tts.sink : x.id = u.id /\ ~x.started
        BY <1>2, <1>4, <2>2
      <4> QED BY <4>1, <4>2 DEF VoiceStarts
    <3>2. b \in Sunk /\ Reads(b, tts.active) /\ b.id = a.id /\ b.started
      BY <1>4, SunkFields DEF Reads, Sunk
    <3>3. /\ log \in Log /\ log.queued = tts.log.queued /\ log.started = tts.log.started + 1
          /\ log.ended = tts.log.ended /\ log.cancelled = tts.log.cancelled
          /\ log.tracked = tts.log.tracked
      BY <1>4 DEF RecordStarted, Log
    <3> HIDE DEF b, log
    <3>4. Counts(log, b)
      BY <1>4, <2>2, <3>2, <3>3 DEF Counts, Log
    <3>5. LET s == [tts EXCEPT !.sink = {b}, !.log = log]
          IN  /\ Steady(s) /\ LinesOf(s) = LinesOf(tts) /\ s.lines = tts.lines
              /\ Speaking(s) = Speaking(tts) /\ s.sink = {b} /\ s.active = tts.active
      BY <1>1, <1>3, <3>2, <3>3, <3>4, SinkKeeps
    <3> QED BY <3>1, <3>2, <3>5
  <2> QED BY <1>4, <2>1, <2>2, SunkFields
<1>6. Holds(voice', tts')
  <2>1. \A w \in voice \ {u} : w \in Utterances /\ w.dropped /\ Late(w, tts')
    BY <1>1, <1>2, <1>5 DEF Holds, Live, Late
  <2>2. Live(v, tts')
    BY <1>2, <1>5 DEF Live
  <2>3. \A id \in Speaking(tts') : id = v.id
    BY <1>2, <1>4, <1>5
  <2> QED BY <1>2, <1>5, <2>1, <2>2, <2>3 DEF Holds
<1> QED BY <1>5, <1>6, ReportKeeps DEF VoiceStarts

\* onSettled: the next line is read.
LEMMA SettledKeeps ==
  ASSUME NEW t, Steady(t), t.active # None, NEW log \in Log, Settles(log)
  PROVE  LET s == Settled([t EXCEPT !.sink = {}, !.log = log], t.active.id)
         IN  /\ Steady(s) /\ LinesOf(s) \subseteq LinesOf(t) /\ s.lines = t.lines
             /\ \A l \in LinesOf(s) : l.id # t.active.id
<1> DEFINE c == [t EXCEPT !.sink = {}, !.log = log]
           d == [c EXCEPT !.active = None]
<1>1. t \in Scheduler /\ Loose(t) /\ Ordered(t)
  BY DEF Steady, Loose
<1>2. c.active = t.active
  BY <1>1 DEF Scheduler
<1>3. /\ d \in Scheduler /\ d.active = None /\ d.waiting = t.waiting /\ d.sink = {}
      /\ d.log = log /\ d.lines = t.lines
  BY <1>1 DEF Scheduler
<1> HIDE DEF c
<1>4. Settled(c, t.active.id) = Pump(d)
  BY <1>2 DEF Settled
<1> HIDE DEF d
<1>5. LinesOf(d) \subseteq LinesOf(t) /\ \A l \in LinesOf(d) : l.id # t.active.id
  BY <1>1, <1>3 DEF LinesOf, Ordered
<1>6. Ordered(d)
  BY <1>1, <1>3, <1>5 DEF Ordered
<1>7. Loose(d)
  BY <1>3, <1>6 DEF Loose
<1>8. Steady(Pump(d)) /\ LinesOf(Pump(d)) = LinesOf(d) /\ Pump(d).lines = d.lines
  BY <1>7, PumpKeeps
<1> QED BY <1>3, <1>4, <1>5, <1>8 DEF c

\* The live utterance has come to its end: the voice holds late ones, and one of
\* the line that is read next.
LEMMA NextHolds ==
  ASSUME Inv, NEW u \in voice, u.id \in Speaking(tts), Steady(tts'), tts'.lines = tts.lines,
         LinesOf(tts') \subseteq LinesOf(tts), \A l \in LinesOf(tts') : l.id # u.id,
         voice' = (voice \ {u}) \cup {Utterance(id) : id \in Speaking(tts') \ Speaking(tts)}
  PROVE  Holds(voice', tts')
<1> DEFINE new == {Utterance(id) : id \in Speaking(tts') \ Speaking(tts)}
<1>1. Steady(tts) /\ Holds(voice, tts)
  BY DEF Inv
<1>2. ~Late(u, tts) /\ Live(u, tts)
  BY <1>1, SpeakingIsActive DEF Holds, Late
<1>3. \A w \in voice \ {u} : w \in Utterances /\ w.dropped /\ Late(w, tts')
  BY <1>1, <1>2 DEF Holds, Live, Late
<1>4. /\ \A id \in Speaking(tts') : id \in 1..MaxLines /\ id # u.id
      /\ \A id, k \in Speaking(tts') : id = k
  BY <1>1, SpeakingIsActive
<1>5. \A id \in Speaking(tts) : id = u.id
  BY <1>1, SpeakingIsActive
<1>6. \A w \in new : w \in Utterances /\ Live(w, tts') /\ ~w.dropped /\ ~w.started /\ w = Utterance(w.id)
  <2>1. ASSUME NEW id \in Speaking(tts') \ Speaking(tts)
        PROVE  /\ Utterance(id) \in Utterances /\ Live(Utterance(id), tts')
               /\ ~Utterance(id).dropped /\ ~Utterance(id).started /\ Utterance(id).id = id
    BY <1>4, NewUtterance DEF Live
  <2> QED BY <2>1
<1>7. \A id \in Speaking(tts') : Utterance(id) \in new /\ Utterance(id).id = id /\ ~Utterance(id).dropped
  BY <1>4, <1>5, NewUtterance
<1> HIDE DEF new
<1>8. \A w, x \in new : w = x
  BY <1>4, <1>6 DEF Live
<1>9. voice' = (voice \ {u}) \cup new
  BY DEF new
<1> QED BY <1>3, <1>6, <1>7, <1>8, <1>9 DEF Holds

\* A late callback changes nothing but what the voice holds.
LEMMA LateKeeps ==
  ASSUME Inv, NEW u \in voice, u.id \notin Speaking(tts), voice' = voice \ {u}, tts' = tts,
         UNCHANGED <<enabled, batch, registry, events, due, session, readings>>
  PROVE  Inv'
<1>1. Holds(voice', tts')
  BY DEF Inv, Holds, Live, Late
<1> QED BY <1>1, ReportKeeps DEF Inv

\* onend: the next utterance of the line, or the next line.
LEMMA VoiceEndsKeeps ==
  ASSUME Inv, NEW u \in voice, VoiceEnds(u)
  PROVE  Inv'
<1>1. Steady(tts) /\ Holds(voice, tts)
  BY DEF Inv
<1>2. CASE u.id \notin Speaking(tts)
  BY <1>2, LateKeeps DEF VoiceEnds
<1>3. CASE u.id \in Speaking(tts)
  <2>1. tts.active # None
    BY <1>1, <1>3, SpeakingIsActive
  <2>2. PICK a \in Sunk :
          /\ tts.sink = {a} /\ Reads(a, tts.active) /\ Counts(tts.log, a)
          /\ Speaking(tts) = {a.id} /\ a.id = tts.active.id
          /\ tts.active \in Line /\ tts.log \in Log /\ tts \in Scheduler
    BY <1>1, <2>1, ActiveFacts
  <2>3. Live(u, tts) /\ u \in Utterances /\ u.id = a.id
    BY <1>1, <1>3, <2>2, SpeakingIsActive DEF Holds, Late
  <2>4. u.started /\ a.started
    BY <1>1, <2>2, <2>3 DEF VoiceEnds, Holds, Live
  <2>5. CASE Spoken(a) < Len(a.chars)
    <3> DEFINE b == NextChunk(a)
               log == tts.log
               s == [tts EXCEPT !.sink = {b}, !.log = log]
    <3>1. tts' = [tts EXCEPT !.sink = {NextChunk(x) : x \in tts.sink}]
          /\ voice' = (voice \ {u}) \cup {Utterance(u.id)}
      BY <1>3, <2>2, <2>3, <2>5 DEF VoiceEnds
    <3>2. tts' = s
      <4>1. {NextChunk(x) : x \in tts.sink} = {b}
        BY <2>2
      <4> HIDE DEF b
      <4>2. tts' = [tts EXCEPT !.sink = {b}]
        BY <3>1, <4>1
      <4> QED BY <2>2, <4>2 DEF Scheduler
    <3>3. Spoken(a) \in Nat /\ ChunkAt(a.chars, Spoken(a)) \in Seq({Letter, Break})
      <4>1. Len(a.chunk) \in Nat /\ a.spoken \in Nat
        BY <2>2, SunkFields, LenProperties
      <4>2. Spoken(a) \in Nat
        BY <4>1 DEF Spoken
      <4> QED BY <2>2, <2>5, <4>2, SunkFields, ChunkFacts
    <3>4. b \in Sunk /\ b.id = a.id /\ b.chars = a.chars /\ b.started = a.started
          /\ b.spoken = Spoken(a) /\ b.chunk = ChunkAt(a.chars, Spoken(a))
      BY <2>2, <3>3 DEF NextChunk, Sunk
    <3> HIDE DEF b
    <3>5. Reads(b, tts.active) /\ Counts(log, b)
      BY <2>2, <2>5, <3>4 DEF Reads, Counts
    <3> HIDE DEF log
    <3>6. log \in Log
      BY <2>2 DEF log
    <3>7. /\ Steady(s) /\ LinesOf(s) = LinesOf(tts) /\ s.lines = tts.lines
          /\ Speaking(s) = Speaking(tts) /\ s.sink = {b} /\ s.active = tts.active
      BY <1>1, <2>1, <3>4, <3>5, <3>6, SinkKeeps
    <3> HIDE DEF s
    <3>8. u.id \in 1..MaxLines
      BY <2>3, UtteranceFields
    <3>9. /\ Utterance(u.id) \in Utterances /\ Utterance(u.id).id = u.id
          /\ Utterance(u.id).started = FALSE /\ Utterance(u.id).dropped = FALSE
      BY <3>8, NewUtterance
    <3>10. \A w \in voice \ {u} : w \in Utterances /\ w.dropped /\ Late(w, s)
      BY <1>1, <2>3, <3>7 DEF Holds, Live, Late
    <3>11. Live(Utterance(u.id), s) /\ \A id \in Speaking(s) : id = u.id
      BY <2>2, <2>3, <3>7, <3>9 DEF Live
    <3>12. Holds(voice', s)
      BY <3>1, <3>9, <3>10, <3>11 DEF Holds
    <3> QED BY <3>2, <3>7, <3>12, ReportKeeps DEF VoiceEnds
  <2>6. CASE ~(Spoken(a) < Len(a.chars))
    <3> DEFINE log == RecordEnded(tts.log, u.id)
               s == Settled([tts EXCEPT !.sink = {}, !.log = log], tts.active.id)
    <3>1. /\ tts' = Ended(tts, u.id)
          /\ voice' = (voice \ {u}) \cup {Utterance(id) : id \in Speaking(tts') \ Speaking(tts)}
      BY <1>3, <2>2, <2>6 DEF VoiceEnds
    <3>2. tts' = s
      <4>1. {x \in tts.sink : x.id # u.id} = {}
        BY <2>2, <2>3
      <4> HIDE DEF log
      <4> QED BY <2>2, <2>3, <3>1, <4>1 DEF Ended, log
    <3>3. /\ log \in Log /\ log.queued = tts.log.queued /\ log.started = tts.log.started
          /\ log.ended = tts.log.ended + 1 /\ log.cancelled = tts.log.cancelled
          /\ log.tracked = tts.log.tracked \ {u.id}
      <4> DEFINE n == tts.log.ended + 1
                 ids == tts.log.tracked \ {u.id}
      <4>1. n \in Nat /\ ids \in SUBSET Nat
        BY <2>2 DEF Log
      <4>2. log = [tts.log EXCEPT !.ended = n, !.tracked = ids]
        BY DEF RecordEnded
      <4> HIDE DEF n, ids, log
      <4>3. /\ log \in Log /\ log.queued = tts.log.queued /\ log.started = tts.log.started
            /\ log.ended = n /\ log.cancelled = tts.log.cancelled /\ log.tracked = ids
        BY <2>2, <4>1, <4>2 DEF Log
      <4> QED BY <4>3 DEF n, ids
    <3> HIDE DEF log
    <3>4. Settles(log)
      BY <2>2, <2>3, <2>4, <3>3 DEF Counts, Settles, Log
    <3>5. /\ Steady(s) /\ LinesOf(s) \subseteq LinesOf(tts) /\ s.lines = tts.lines
          /\ \A l \in LinesOf(s) : l.id # tts.active.id
      BY <1>1, <2>1, <3>3, <3>4, SettledKeeps
    <3> HIDE DEF s
    <3>6. Holds(voice', tts')
      BY <1>3, <2>2, <2>3, <3>1, <3>2, <3>5, NextHolds
    <3> QED BY <3>2, <3>5, <3>6, ReportKeeps DEF VoiceEnds
  <2> QED BY <2>5, <2>6
<1> QED BY <1>2, <1>3

\* onerror: the line is given up, and the next one is read.
LEMMA VoiceFailsKeeps ==
  ASSUME Inv, NEW u \in voice, VoiceFails(u)
  PROVE  Inv'
<1>1. Steady(tts) /\ Holds(voice, tts)
  BY DEF Inv
<1>2. CASE u.id \notin Speaking(tts)
  BY <1>2, LateKeeps DEF VoiceFails
<1>3. CASE u.id \in Speaking(tts)
  <2>1. tts.active # None
    BY <1>1, <1>3, SpeakingIsActive
  <2>2. PICK a \in Sunk :
          /\ tts.sink = {a} /\ Reads(a, tts.active) /\ Counts(tts.log, a)
          /\ Speaking(tts) = {a.id} /\ a.id = tts.active.id
          /\ tts.active \in Line /\ tts.log \in Log /\ tts \in Scheduler
    BY <1>1, <2>1, ActiveFacts
  <2>3. u.id = a.id
    BY <1>3, <2>2
  <2> DEFINE log == RecordCancelled(tts.log, {u.id})
             s == Settled([tts EXCEPT !.sink = {}, !.log = log], tts.active.id)
  <2>4. /\ tts' = Settled([tts EXCEPT !.sink = {x \in @ : x.id # u.id}, !.log = log], u.id)
        /\ voice' = (voice \ {u}) \cup {Utterance(id) : id \in Speaking(tts') \ Speaking(tts)}
    BY <1>3 DEF VoiceFails
  <2>5. tts' = s
    <3>1. {x \in tts.sink : x.id # u.id} = {}
      BY <2>2, <2>3
    <3> HIDE DEF log
    <3> QED BY <2>2, <2>3, <2>4, <3>1
  <2>6. /\ log \in Log /\ log.queued = tts.log.queued /\ log.started = tts.log.started
        /\ log.ended = tts.log.ended /\ log.cancelled = tts.log.cancelled + 1
        /\ log.tracked = tts.log.tracked \ {u.id}
    <3>1. Cardinality({u.id}) = 1
      BY FS_Singleton
    <3> DEFINE n == tts.log.cancelled + 1
               ids == tts.log.tracked \ {u.id}
    <3>2. n \in Nat /\ ids \in SUBSET Nat
      BY <2>2 DEF Log
    <3>3. log = [tts.log EXCEPT !.cancelled = n, !.tracked = ids]
      BY <3>1 DEF RecordCancelled
    <3> HIDE DEF n, ids, log
    <3>4. /\ log \in Log /\ log.queued = tts.log.queued /\ log.started = tts.log.started
          /\ log.cancelled = n /\ log.ended = tts.log.ended /\ log.tracked = ids
      BY <2>2, <3>2, <3>3 DEF Log
    <3> QED BY <3>4 DEF n, ids
  <2> HIDE DEF log
  <2>7. Settles(log)
    BY <2>2, <2>3, <2>6 DEF Counts, Settles, Log
  <2>8. /\ Steady(s) /\ LinesOf(s) \subseteq LinesOf(tts) /\ s.lines = tts.lines
        /\ \A l \in LinesOf(s) : l.id # tts.active.id
    BY <1>1, <2>1, <2>6, <2>7, SettledKeeps
  <2> HIDE DEF s
  <2>9. Holds(voice', tts')
    BY <1>3, <2>2, <2>3, <2>4, <2>5, <2>8, NextHolds
  <2> QED BY <2>5, <2>8, <2>9, ReportKeeps DEF VoiceFails
<1> QED BY <1>2, <1>3

-----------------------------------------------------------------------------
(* The steps of the page *)

LEMMA Bounds ==
  /\ ChunkLimit \in Nat /\ RegistryLimit \in Nat /\ MaxEvents \in Nat /\ MaxLines \in Nat
  /\ MaxSessions \in Nat /\ RegistryLimit > 0
  BY SpeechAssumption

LEMMA HeardKeeps ==
  ASSUME Inv, NEW s, Steady(s), Moves(tts, s), Becomes(s)
  PROVE  Steady(tts') /\ Holds(voice', tts') /\ tts' = s
<1>1. tts' = s /\ voice' = Heard(s)
  BY DEF Becomes
<1>2. Holds(Heard(s), s)
  BY HeardHolds DEF Inv
<1> QED BY <1>1, <1>2

\* The order of the day after a stop: nothing is read, nothing waits.
LEMMA CancelAllKeeps ==
  ASSUME NEW t, Steady(t)
  PROVE  /\ LET s == CancelAll(t)
            IN  Steady(s) /\ Moves(t, s) /\ LinesOf(s) = {} /\ s.lines = t.lines
                /\ s.active = None /\ s.waiting = <<>> /\ s.recent = {}
         /\ LET s == [CancelAll(t) EXCEPT !.log = NewLog]
            IN  Steady(s) /\ Moves(t, s) /\ LinesOf(s) = {} /\ s.lines = t.lines
                /\ s.active = None /\ s.waiting = <<>> /\ s.recent = {}
<1> DEFINE r == Reset(SinkCancel(t))
           c == CancelAll(t)
           d == [c EXCEPT !.log = NewLog]
<1>1. /\ Steady(r) /\ LinesOf(r) = {} /\ r.active = None /\ r.waiting = <<>> /\ r.sink = {}
      /\ r.lines = t.lines
  BY CancelKeeps DEF Steady
<1>2. c = [r EXCEPT !.recent = {}]
  BY DEF CancelAll
<1> HIDE DEF r, c
<1>3. r \in Scheduler /\ Loose(r) /\ t.lines \in Nat
  BY <1>1, SchedulerFields DEF Steady, Loose
<1>4. /\ c \in Scheduler /\ c.active = r.active /\ c.waiting = r.waiting /\ c.sink = r.sink
      /\ c.log = r.log /\ c.lines = r.lines /\ c.recent = {}
  BY <1>2, <1>3 DEF Scheduler
<1>5. r.lines <= c.lines
  BY <1>1, <1>3, <1>4
<1>6. Steady(c) /\ LinesOf(c) = {}
  BY <1>1, <1>3, <1>4, <1>5, SameKeeps
<1>7. NewLog \in Log /\ Settles(NewLog)
  BY DEF NewLog, Log, Settles
<1>8. /\ d \in Scheduler /\ d.active = None /\ d.waiting = <<>> /\ d.sink = {}
      /\ d.log = NewLog /\ d.lines = t.lines /\ d.recent = {}
  BY <1>1, <1>4, <1>7 DEF Scheduler
<1> HIDE DEF d
<1>9. LinesOf(d) = {}
  BY <1>1, <1>8 DEF LinesOf
<1>10. Ordered(d)
  BY <1>1, <1>4, <1>6, <1>8, <1>9 DEF Ordered, Steady, Loose
<1>11. Steady(d)
  BY <1>7, <1>8, <1>10 DEF Steady, Loose
<1>12. Moves(t, c) /\ Moves(t, d)
  BY <1>1, <1>3, <1>4, <1>6, <1>8, <1>9 DEF Moves
<1> QED BY <1>1, <1>4, <1>6, <1>8, <1>9, <1>11, <1>12 DEF c, d

LEMMA UrgentSpeakable == Speakable(Urgent)
  BY DEF Speakable, Urgent

\* The batch, when it is flushed, is spoken or nothing of it is left to say.
LEMMA FlushKeeps ==
  ASSUME Inv
  PROVE  LET s == Flush(tts)
         IN  /\ Steady(s) /\ Moves(tts, s)
             /\ s.lines \in tts.lines..tts.lines + (IF batch = None THEN 0 ELSE 1)
             /\ \A l \in LinesOf(s) : l.session = session
             /\ ~enabled => s = tts
             /\ tts.active # None =>
                  \/ s.active = tts.active
                  \/ s.active # None /\ s.active.priority = "urgent" /\ s.waiting = <<>>
<1> DEFINE s == Flush(tts)
<1>1. Steady(tts) /\ tts.lines \in Nat /\ session \in 1..MaxSessions
  BY SchedulerFields DEF Inv, Steady, Loose, Rest
<1>2. \A l \in LinesOf(tts) : l.session = session
  BY <1>1, LinesAre DEF Inv, OnlyThisSessionIsRead
<1>3. CASE batch = None \/ ~enabled \/ batch.item.text = NoText
  <2>1. s = tts
    BY <1>3 DEF Flush
  <2>2. Moves(tts, tts)
    BY <1>1 DEF Moves
  <2> QED BY <1>1, <1>2, <2>1, <2>2
<1>4. CASE ~(batch = None \/ ~enabled \/ batch.item.text = NoText)
  <2>1. s = Speak(tts, batch.item)
    BY <1>4 DEF Flush
  <2>2. batch \in Batch /\ tts.lines < MaxLines
    BY <1>4 DEF Inv, Rest, BatchFits
  <2>3. batch.item \in Items
    BY <2>2 DEF Batch
  <2>4. Speakable(batch.item)
    BY <1>4, <2>3, SpeechAssumption DEF Speakable
  <2> HIDE DEF s
  <2>5. /\ Steady(s) /\ s.lines = tts.lines + 1 /\ Moves(tts, s)
        /\ LinesOf(s) \subseteq LinesOf(tts) \cup {LineOf(tts, batch.item)}
        /\ tts.active # None =>
             \/ s.active = tts.active
             \/ s.active # None /\ s.active.priority = "urgent" /\ s.waiting = <<>>
    BY <1>1, <2>1, <2>2, <2>4, SpeakKeeps
  <2>6. LineOf(tts, batch.item).session = session
    BY DEF LineOf
  <2> QED BY <1>1, <1>2, <1>4, <2>5, <2>6 DEF s
<1> QED BY <1>3, <1>4

LEMMA RememberFacts ==
  ASSUME Rest, NEW e \in Event
  PROVE  /\ Remember(e) \in Seq(Event) /\ Len(Remember(e)) <= RegistryLimit
         /\ \A i \in 1..Len(Remember(e)) :
              Remember(e)[i] = e \/ \E j \in 1..Len(registry) : Remember(e)[i] = registry[j]
<1>1. registry \in Seq(Event) /\ Len(registry) \in Nat /\ Len(registry) <= RegistryLimit
  BY LenProperties DEF Rest
<1>2. CASE Len(registry) < RegistryLimit
  <2>1. /\ Append(registry, e) \in Seq(Event) /\ Len(Append(registry, e)) = Len(registry) + 1
        /\ \A i \in 1..Len(registry) : Append(registry, e)[i] = registry[i]
        /\ Append(registry, e)[Len(registry) + 1] = e
    BY <1>1, AppendProperties
  <2>2. Remember(e) = Append(registry, e)
    BY <1>2 DEF Remember
  <2> QED BY <1>1, <1>2, <2>1, <2>2, Bounds
<1>3. CASE ~(Len(registry) < RegistryLimit)
  <2>1. registry # <<>>
    BY <1>1, <1>3, Bounds
  <2> DEFINE rest == Tail(registry)
  <2>2. /\ rest \in Seq(Event) /\ Len(rest) = Len(registry) - 1
        /\ \A i \in 1..Len(rest) : rest[i] = registry[i + 1]
    BY <1>1, <2>1, HeadTailProperties
  <2>3. Remember(e) = Append(rest, e)
    BY <1>3 DEF Remember
  <2> HIDE DEF rest
  <2>4. /\ Append(rest, e) \in Seq(Event) /\ Len(Append(rest, e)) = Len(rest) + 1
        /\ \A i \in 1..Len(rest) : Append(rest, e)[i] = rest[i]
        /\ Append(rest, e)[Len(rest) + 1] = e
    BY <2>2, AppendProperties
  <2>5. ASSUME NEW i \in 1..Len(rest) + 1
        PROVE  Append(rest, e)[i] = e \/ \E j \in 1..Len(registry) : Append(rest, e)[i] = registry[j]
    <3>1. CASE i = Len(rest) + 1
      BY <2>4, <3>1
    <3>2. CASE i # Len(rest) + 1
      <4>1. i \in 1..Len(rest) /\ i + 1 \in 1..Len(registry)
        BY <1>1, <2>2, <3>2
      <4> QED BY <2>2, <2>4, <4>1
    <3> QED BY <3>1, <3>2
  <2> QED BY <1>1, <2>2, <2>3, <2>4, <2>5
<1> QED BY <1>2, <1>3

\* What the invariant says of readings, when an event of the batch is counted.
LEMMA FlushCounts ==
  ASSUME Inv
  PROVE  /\ FlushedReadings \in [Event -> Nat]
         /\ \A e \in Event : e > events => FlushedReadings[e] = 0
         /\ \A i \in 1..Len(registry) : FlushedReadings[registry[i]] <= 1
<1>1. /\ readings \in [Event -> Nat] /\ events \in 0..MaxEvents /\ MaxEvents \in Nat
      /\ \A i \in 1..Len(registry) : registry[i] \in Event
  BY ElementOfSeq, Bounds DEF Inv, Rest
<1>2. CASE FlushedReadings = readings
  BY <1>1, <1>2 DEF Inv, NotYetRead, Remembered
<1>3. CASE FlushedReadings # readings
  <2>1. batch # None /\ batch.event # NoEvent /\ FlushedReadings = CountReading(batch.event)
    BY <1>3 DEF FlushedReadings
  <2>2. /\ batch \in Batch /\ batch.event <= events
        /\ \A i \in 1..Len(registry) : registry[i] # batch.event
    BY <2>1 DEF Inv, Rest, BatchIsPast, BatchFits
  <2> DEFINE b == batch.event
  <2>3. b \in Event /\ b <= events
    BY <1>1, <2>1, <2>2 DEF Batch, Event, NoEvent
  <2> HIDE DEF b
  <2>4. FlushedReadings = [readings EXCEPT ![b] = readings[b] + 1]
    BY <2>1 DEF CountReading, b
  <2>5. /\ FlushedReadings \in [Event -> Nat]
        /\ \A e \in Event : e # b => FlushedReadings[e] = readings[e]
    BY <1>1, <2>3, <2>4
  <2>6. \A e \in Event : e > events => e # b /\ readings[e] = 0
    BY <1>1, <2>3 DEF Inv, NotYetRead, Event
  <2>7. \A i \in 1..Len(registry) : registry[i] # b /\ readings[registry[i]] <= 1
    BY <2>2 DEF Inv, Remembered, b
  <2> QED BY <1>1, <2>5, <2>6, <2>7
<1> QED BY <1>2, <1>3

\* A line read at once.
LEMMA SpokenKeeps ==
  ASSUME Inv, HasRoom(1), NEW item, Speakable(item)
  PROVE  LET s == Speak(tts, item)
         IN  /\ Steady(s) /\ Moves(tts, s) /\ s.lines = tts.lines + 1
             /\ s.lines <= MaxLines /\ (batch # None => s.lines < MaxLines)
             /\ \A l \in LinesOf(s) : l.session = session
             /\ tts.active # None =>
                  \/ s.active = tts.active
                  \/ s.active # None /\ s.active.priority = "urgent" /\ s.waiting = <<>>
<1> DEFINE s == Speak(tts, item)
<1>1. Steady(tts) /\ tts.lines \in Nat /\ session \in 1..MaxSessions
  BY SchedulerFields DEF Inv, Steady, Loose, Rest
<1>2. tts.lines + 1 <= MaxLines /\ (batch # None => tts.lines + 1 < MaxLines)
  BY <1>1, Bounds DEF HasRoom
<1>3. \A l \in LinesOf(tts) : l.session = session
  BY <1>1, LinesAre DEF Inv, OnlyThisSessionIsRead
<1>4. tts.lines < MaxLines
  BY <1>1, <1>2, Bounds
<1> HIDE DEF s
<1>5. /\ Steady(s) /\ s.lines = tts.lines + 1 /\ Moves(tts, s)
      /\ LinesOf(s) \subseteq LinesOf(tts) \cup {LineOf(tts, item)}
      /\ tts.active # None =>
           \/ s.active = tts.active
           \/ s.active # None /\ s.active.priority = "urgent" /\ s.waiting = <<>>
  BY <1>1, <1>4, SpeakKeeps DEF s
<1>6. LineOf(tts, item).session = session
  BY DEF LineOf
<1> QED BY <1>2, <1>3, <1>5, <1>6 DEF s

\* The invariant again, of the parts a step of the page may change.
LEMMA PageKeeps ==
  ASSUME Rest', Steady(tts'), Holds(voice', tts'), BatchFits', Remembered', NotYetRead',
         BatchIsPast', \A l \in LinesOf(tts') : l.session = session',
         batch' # None => batch'.session = session',
         ~enabled' => LinesOf(tts') = {} /\ batch' = None
  PROVE  Inv'
<1>1. Lines' = LinesOf(tts')
  BY LinesArePrimed
<1> QED BY <1>1 DEF Inv, OnlyThisSessionIsRead

LEMMA StillKeeps ==
  ASSUME Inv
  PROVE  /\ \A l \in LinesOf(tts) : l.session = session
         /\ ~enabled => LinesOf(tts) = {} /\ batch = None /\ tts.active = None
         /\ batch # None => batch \in Batch /\ batch.session = session /\ batch.event \in 0..MaxEvents
         /\ tts.lines \in 0..MaxLines /\ tts \in Scheduler
<1>1. Steady(tts)
  BY DEF Inv
<1>2. Lines = LinesOf(tts) /\ tts.lines \in 0..MaxLines /\ tts \in Scheduler
  BY <1>1, LinesAre, SchedulerFields DEF Steady, Loose
<1>3. batch # None => batch \in Batch /\ batch.event \in 0..MaxEvents
  BY DEF Inv, Rest, Batch
<1> QED BY <1>2, <1>3 DEF Inv, OnlyThisSessionIsRead, LinesOf

LEMMA WindowKeeps ==
  ASSUME Inv, NEW x \in Text, WindowPasses(x)
  PROVE  Inv'
<1>1. Steady(tts) /\ tts \in Scheduler /\ tts.lines \in Nat
  BY StillKeeps, Bounds DEF Inv
<1>2. /\ tts' \in Scheduler /\ tts'.active = tts.active /\ tts'.waiting = tts.waiting
      /\ tts'.sink = tts.sink /\ tts'.log = tts.log /\ tts'.lines = tts.lines
  BY <1>1 DEF WindowPasses, Scheduler
<1>3. Steady(tts') /\ LinesOf(tts') = LinesOf(tts)
  <2>1. tts.lines <= tts'.lines
    BY <1>1, <1>2
  <2> QED BY <1>1, <1>2, <2>1, SameKeeps DEF Steady
<1>4. voice' = voice /\ Holds(voice, tts)
  BY DEF Inv, WindowPasses
<1>5. Speaking(tts') = Speaking(tts)
  BY <1>2 DEF Speaking
<1>6. Holds(voice', tts')
  BY <1>2, <1>3, <1>4, <1>5 DEF Holds, Live, Late
<1> QED BY <1>2, <1>3, <1>6, ReportKeeps DEF WindowPasses

\* An event is read at once for the first time, and then remembered.
LEMMA ServerEventKeeps ==
  ASSUME Inv, NEW e \in Event, ServerEvent(e)
  PROVE  Inv'
<1>1. /\ e = events + 1 /\ events' = e /\ due' = due \cup {e} /\ HasRoom(1)
      /\ UNCHANGED <<enabled, batch, session>>
  BY DEF ServerEvent
<1>2. /\ Rest /\ events \in 0..MaxEvents /\ MaxEvents \in Nat /\ e \in 1..MaxEvents
      /\ readings \in [Event -> Nat]
  BY Bounds DEF Inv, Rest, Event
<1>3. due' \subseteq 1..events' /\ events' \in 0..MaxEvents
  BY <1>1, <1>2 DEF Rest
<1>4. BatchIsPast'
  BY <1>1, <1>2, StillKeeps DEF Inv, BatchIsPast
<1>5. CASE ~enabled
  <2>1. UNCHANGED <<tts, voice, registry, readings>>
    BY <1>5 DEF ServerEvent
  <2>2. Rest'
    BY <1>1, <1>2, <1>3, <2>1 DEF Rest
  <2>3. Remembered' /\ NotYetRead'
    <3>1. \A i \in 1..Len(registry) : registry[i] \in Event
      BY <1>2, ElementOfSeq DEF Rest
    <3>2. \A i \in 1..Len(registry) : registry[i] <= events + 1
      BY <1>2, <3>1 DEF Inv, Remembered, Event
    <3>3. \A f \in Event : f > e => f > events
      BY <1>1, <1>2 DEF Event
    <3> QED BY <1>1, <2>1, <3>2, <3>3 DEF Inv, Remembered, NotYetRead
  <2> QED BY <1>1, <1>4, <2>1, <2>2, <2>3, PageKeeps, StillKeeps DEF Inv, BatchFits
<1>6. CASE enabled
  <2> DEFINE s == Speak(tts, Urgent)
  <2>1. Becomes(s) /\ registry' = Remember(e) /\ readings' = CountReading(e)
    BY <1>6 DEF ServerEvent
  <2>2. /\ Steady(s) /\ Moves(tts, s) /\ s.lines = tts.lines + 1
        /\ s.lines <= MaxLines /\ (batch # None => s.lines < MaxLines)
        /\ \A l \in LinesOf(s) : l.session = session
    BY <1>1, UrgentSpeakable, SpokenKeeps
  <2> HIDE DEF s
  <2>3. Steady(tts') /\ Holds(voice', tts') /\ tts' = s
    BY <2>1, <2>2, HeardKeeps
  <2>4. /\ registry' \in Seq(Event) /\ Len(registry') <= RegistryLimit
        /\ \A i \in 1..Len(registry') :
             registry'[i] = e \/ \E j \in 1..Len(registry) : registry'[i] = registry[j]
    BY <1>2, <2>1, RememberFacts
  <2>5. /\ readings' \in [Event -> Nat] /\ readings[e] = 0 /\ readings'[e] = 1
        /\ \A f \in Event : f # e => readings'[f] = readings[f]
    <3>1. readings[e] = 0
      BY <1>1, <1>2 DEF Inv, NotYetRead
    <3>2. readings' = [readings EXCEPT ![e] = 1]
      BY <2>1, <3>1 DEF CountReading
    <3> QED BY <1>2, <3>1, <3>2
  <2>6. Rest'
    BY <1>1, <1>2, <1>3, <2>4, <2>5 DEF Rest
  <2>7. \A j \in 1..Len(registry) :
          registry[j] \in Event /\ registry[j] <= events /\ registry[j] # e /\ readings[registry[j]] <= 1
    <3>1. \A j \in 1..Len(registry) : registry[j] \in Event /\ registry[j] <= events
      BY <1>2, ElementOfSeq DEF Inv, Rest, Remembered
    <3> QED BY <1>1, <1>2, <3>1 DEF Inv, Remembered, Event
  <2>8. Remembered'
    <3> SUFFICES ASSUME NEW i \in 1..Len(registry')
                 PROVE  registry'[i] <= events' /\ readings'[registry'[i]] <= 1
      BY DEF Remembered
    <3>1. CASE registry'[i] = e
      BY <1>1, <1>2, <2>5, <3>1
    <3>2. CASE registry'[i] # e
      <4>1. PICK j \in 1..Len(registry) : registry'[i] = registry[j]
        BY <2>4, <3>2
      <4> DEFINE f == registry[j]
      <4>2. f \in Event /\ f <= events /\ f # e /\ readings'[f] <= 1
        BY <2>5, <2>7
      <4> HIDE DEF f
      <4>3. f <= events'
        BY <1>1, <1>2, <4>2 DEF Event
      <4> QED BY <4>1, <4>2, <4>3 DEF f
    <3> QED BY <3>1, <3>2
  <2>9. NotYetRead'
    <3>1. \A f \in Event : f > e => f > events /\ f # e
      BY <1>1, <1>2 DEF Event
    <3> QED BY <1>1, <2>5, <3>1 DEF Inv, NotYetRead
  <2>10. BatchFits'
    <3> SUFFICES ASSUME batch # None
                 PROVE  s.lines < MaxLines /\ \A i \in 1..Len(registry') : registry'[i] # batch.event
      BY <1>1, <2>3 DEF BatchFits
    <3>1. batch.event # e
      BY <1>1, <1>2, StillKeeps DEF Inv, BatchIsPast
    <3>2. \A j \in 1..Len(registry) : registry[j] # batch.event
      BY DEF Inv, BatchFits
    <3> QED BY <2>2, <2>4, <3>1, <3>2
  <2> QED BY <1>1, <1>4, <1>6, <2>2, <2>3, <2>6, <2>8, <2>9, <2>10, PageKeeps, StillKeeps
<1> QED BY <1>5, <1>6

\* A flushed batch is read or dropped, and its event counted.
LEMMA FlushedKeeps ==
  ASSUME Inv, Becomes(Flush(tts)), readings' = FlushedReadings,
         UNCHANGED <<enabled, registry, events, session>>, due' \subseteq due,
         batch' \in Batch \cup {None},
         batch' # None =>
           /\ enabled /\ batch'.event <= events /\ batch'.session = session
           /\ \A i \in 1..Len(registry) : registry[i] # batch'.event
           /\ tts.lines + (IF batch = None THEN 0 ELSE 1) < MaxLines
  PROVE  Inv'
<1> DEFINE s == Flush(tts)
<1>1. /\ Steady(s) /\ Moves(tts, s)
      /\ s.lines \in tts.lines..tts.lines + (IF batch = None THEN 0 ELSE 1)
      /\ \A l \in LinesOf(s) : l.session = session
      /\ ~enabled => s = tts
  BY FlushKeeps
<1> HIDE DEF s
<1>2. Steady(tts') /\ Holds(voice', tts') /\ tts' = s
  BY <1>1, HeardKeeps DEF s
<1>3. /\ readings' \in [Event -> Nat]
      /\ \A e \in Event : e > events => readings'[e] = 0
      /\ \A i \in 1..Len(registry) : readings'[registry[i]] <= 1
  BY FlushCounts
<1>4. Rest'
  BY <1>3 DEF Inv, Rest
<1>5. Remembered' /\ NotYetRead' /\ BatchIsPast'
  BY <1>3 DEF Inv, Remembered, NotYetRead, BatchIsPast
<1>6. BatchFits'
  <2>1. batch' # None => s.lines < MaxLines
    BY <1>1, StillKeeps, Bounds
  <2> QED BY <1>2, <2>1 DEF BatchFits
<1> QED BY <1>1, <1>2, <1>4, <1>5, <1>6, PageKeeps, StillKeeps

LEMMA BatchTimerKeeps ==
  ASSUME Inv, BatchTimer
  PROVE  Inv'
  BY FlushedKeeps DEF BatchTimer

\* A commentary starts a batch only for an event that was not read at once.
LEMMA CommentaryKeeps ==
  ASSUME Inv, NEW item \in Items, NEW e \in {NoEvent} \cup Event, Commentary(item, e)
  PROVE  Inv'
<1>1. /\ HasRoom(1) /\ (e # NoEvent => e \in due) /\ due' = due \ {e}
      /\ UNCHANGED <<enabled, registry, events, session>>
  BY DEF Commentary
<1>2. Rest /\ registry \in Seq(Event) /\ DOMAIN registry = 1..Len(registry)
  BY LenProperties DEF Inv, Rest
<1>3. CASE UNCHANGED <<batch, tts, voice, readings>>
  <2>1. Rest'
    BY <1>1, <1>2, <1>3 DEF Rest
  <2> QED BY <1>1, <1>3, <2>1, PageKeeps, StillKeeps
          DEF Inv, BatchFits, Remembered, NotYetRead, BatchIsPast
<1>4. CASE ~UNCHANGED <<batch, tts, voice, readings>>
  <2>1. /\ \A i \in 1..Len(registry) : registry[i] # e
        /\ QueueSpeech(item, e)
    BY <1>2, <1>4 DEF Commentary
  <2>2. /\ enabled /\ batch' = [item |-> item, event |-> e, session |-> session]
        /\ \/ UNCHANGED <<tts, voice, readings>>
           \/ Becomes(Flush(tts)) /\ readings' = FlushedReadings
    BY <1>4, <2>1 DEF QueueSpeech
  <2>3. e \in 0..MaxEvents /\ e <= events /\ events \in 0..MaxEvents
    BY <1>1, <1>2, Bounds DEF Rest, NoEvent, Event
  <2>4. /\ batch' \in Batch /\ batch' # None /\ batch'.event = e /\ batch'.session = session
    <3>1. batch' \in Batch /\ batch'.event = e /\ batch'.session = session
      BY <1>2, <2>2, <2>3 DEF Batch, Rest
    <3> QED BY <3>1, SpeechAssumption
  <2>5. tts.lines + (IF batch = None THEN 0 ELSE 1) < MaxLines /\ tts.lines < MaxLines
    BY <1>1, StillKeeps, Bounds DEF HasRoom
  <2>6. CASE UNCHANGED <<tts, voice, readings>>
    <3>1. Rest'
      BY <1>1, <1>2, <2>4, <2>6 DEF Rest
    <3>2. BatchFits' /\ BatchIsPast'
      BY <1>1, <2>1, <2>3, <2>4, <2>5, <2>6 DEF BatchFits, BatchIsPast
    <3> QED BY <1>1, <2>2, <2>4, <2>6, <3>1, <3>2, PageKeeps, StillKeeps
            DEF Inv, Remembered, NotYetRead
  <2>7. CASE Becomes(Flush(tts)) /\ readings' = FlushedReadings
    <3>1. due' \subseteq due
      BY <1>1
    <3> HIDE DEF Flush, FlushedReadings
    <3> QED BY <1>1, <2>1, <2>2, <2>3, <2>4, <2>5, <2>7, <3>1, FlushedKeeps
  <2> QED BY <2>2, <2>6, <2>7
<1> QED BY <1>3, <1>4

\* A stop: all that was read or waited is of no session.
LEMMA StopKeeps ==
  ASSUME Inv, Becomes(CancelAll(tts)) \/ Becomes([CancelAll(tts) EXCEPT !.log = NewLog]),
         enabled' \in BOOLEAN, session' \in 1..MaxSessions,
         batch' = None \/ (batch' = batch /\ session' = session /\ enabled'),
         due' \subseteq due, UNCHANGED <<registry, events, readings>>
  PROVE  Inv'
<1>1. /\ Steady(tts') /\ Holds(voice', tts') /\ LinesOf(tts') = {} /\ tts'.lines = tts.lines
  <2>1. Steady(tts)
    BY DEF Inv
  <2>2. CASE Becomes(CancelAll(tts))
    <3> DEFINE s == CancelAll(tts)
    <3>1. Steady(s) /\ Moves(tts, s) /\ LinesOf(s) = {} /\ s.lines = tts.lines
      BY <2>1, CancelAllKeeps
    <3> HIDE DEF s
    <3> QED BY <2>2, <3>1, HeardKeeps DEF s
  <2>3. CASE Becomes([CancelAll(tts) EXCEPT !.log = NewLog])
    <3> DEFINE s == [CancelAll(tts) EXCEPT !.log = NewLog]
    <3>1. Steady(s) /\ Moves(tts, s) /\ LinesOf(s) = {} /\ s.lines = tts.lines
      BY <2>1, CancelAllKeeps
    <3> HIDE DEF s
    <3> QED BY <2>3, <3>1, HeardKeeps DEF s
  <2> QED BY <2>2, <2>3
<1>2. Rest'
  BY DEF Inv, Rest
<1>3. BatchFits' /\ Remembered' /\ NotYetRead' /\ BatchIsPast'
  BY <1>1 DEF Inv, BatchFits, Remembered, NotYetRead, BatchIsPast
<1> QED BY <1>1, <1>2, <1>3, PageKeeps, StillKeeps

LEMMA PtyRestartKeeps ==
  ASSUME Inv, PtyRestart
  PROVE  Inv'
<1>1. session \in 1..MaxSessions /\ enabled \in BOOLEAN /\ MaxSessions \in Nat
  BY Bounds DEF Inv, Rest
<1>2. session' \in 1..MaxSessions
  BY <1>1 DEF PtyRestart
<1> QED BY <1>1, <1>2, StopKeeps DEF PtyRestart

LEMMA SwitchOffKeeps ==
  ASSUME Inv, SwitchOff
  PROVE  Inv'
<1>1. session \in 1..MaxSessions
  BY DEF Inv, Rest
<1> QED BY <1>1, StopKeeps DEF SwitchOff

LEMMA ResetLogKeeps ==
  ASSUME Inv, ResetLog
  PROVE  Inv'
<1>1. session \in 1..MaxSessions
  BY DEF Inv, Rest
<1> QED BY <1>1, StopKeeps DEF ResetLog

LEMMA SocketClosesKeeps ==
  ASSUME Inv, SocketCloses
  PROVE  Inv'
<1>1. Rest'
  BY DEF Inv, Rest, SocketCloses
<1> QED BY <1>1, PageKeeps, StillKeeps
        DEF Inv, SocketCloses, BatchFits, Remembered, NotYetRead, BatchIsPast

LEMMA TestSpeakKeeps ==
  ASSUME Inv, TestSpeak
  PROVE  Inv'
<1> DEFINE s == Speak(tts, Urgent)
<1>1. /\ Steady(s) /\ Moves(tts, s) /\ s.lines = tts.lines + 1
      /\ s.lines <= MaxLines /\ (batch # None => s.lines < MaxLines)
      /\ \A l \in LinesOf(s) : l.session = session
  BY UrgentSpeakable, SpokenKeeps DEF TestSpeak
<1> HIDE DEF s
<1>2. Steady(tts') /\ Holds(voice', tts') /\ tts' = s
  BY <1>1, HeardKeeps DEF TestSpeak, s
<1>3. UNCHANGED <<enabled, batch, registry, events, due, session, readings>> /\ enabled
  BY DEF TestSpeak
<1>4. Rest'
  BY <1>3 DEF Inv, Rest
<1>5. BatchFits' /\ Remembered' /\ NotYetRead' /\ BatchIsPast'
  BY <1>1, <1>2, <1>3 DEF Inv, BatchFits, Remembered, NotYetRead, BatchIsPast
<1> QED BY <1>1, <1>2, <1>3, <1>4, <1>5, PageKeeps, StillKeeps

\* The switch says that it is on: nothing was read, and nothing waited.
LEMMA SwitchOnKeeps ==
  ASSUME Inv, SwitchOn
  PROVE  Inv'
<1> DEFINE c == [CancelAll(tts) EXCEPT !.log = NewLog]
           s == Speak(c, Urgent)
<1>1. /\ ~enabled /\ enabled' = TRUE /\ HasRoom(1) /\ Becomes(s)
      /\ UNCHANGED <<batch, registry, events, due, session, readings>>
  BY DEF SwitchOn
<1>2. Steady(tts) /\ LinesOf(tts) = {} /\ tts.active = None /\ batch = None
  BY <1>1, StillKeeps DEF Inv
<1>3. Steady(c) /\ LinesOf(c) = {} /\ c.lines = tts.lines /\ c.active = None
  BY <1>2, CancelAllKeeps
<1>4. tts.lines \in Nat /\ tts.lines < MaxLines /\ session \in 1..MaxSessions
  BY <1>1, StillKeeps, Bounds DEF HasRoom, Inv, Rest
<1> HIDE DEF c
<1>5. /\ Steady(s) /\ s.lines = c.lines + 1 /\ LinesOf(s) \subseteq LinesOf(c) \cup {LineOf(c, Urgent)}
  BY <1>3, <1>4, UrgentSpeakable, SpeakKeeps
<1> HIDE DEF s
<1>6. \A l \in LinesOf(s) : l.session = session /\ l.id = tts.lines + 1
  BY <1>3, <1>5 DEF LineOf
<1>7. Speaking(tts) = {}
  BY <1>2, SpeakingFacts DEF Steady
<1>8. Moves(tts, s)
  BY <1>3, <1>4, <1>5, <1>6, <1>7 DEF Moves
<1>9. Steady(tts') /\ Holds(voice', tts') /\ tts' = s
  BY <1>1, <1>5, <1>8, HeardKeeps
<1>10. Rest'
  BY <1>1 DEF Inv, Rest
<1>11. BatchFits' /\ Remembered' /\ NotYetRead' /\ BatchIsPast'
  BY <1>1, <1>2 DEF Inv, BatchFits, Remembered, NotYetRead, BatchIsPast
<1> QED BY <1>1, <1>2, <1>6, <1>9, <1>10, <1>11, PageKeeps

-----------------------------------------------------------------------------
(* The invariant holds *)

LEMMA InitHolds ==
  ASSUME Init
  PROVE  Inv
<1>1. /\ tts.active = None /\ tts.waiting = <<>> /\ tts.sink = {} /\ tts.log = NewLog
      /\ tts.lines = 0 /\ voice = {} /\ registry = <<>> /\ batch = None
      /\ tts \in Scheduler /\ NewLog \in Log
  <2>1. NewLog \in Log
    BY DEF NewLog, Log
  <2>2. 0 \in 0..MaxLines
    BY Bounds
  <2> QED BY <2>1, <2>2, EmptySeq DEF Init, Scheduler
<1>2. 1..Len(<<>>) = {}
  OBVIOUS
<1>3. LinesOf(tts) = {} /\ Speaking(tts) = {}
  BY <1>1, <1>2 DEF LinesOf, Speaking
<1>4. Ordered(tts)
  BY <1>1, <1>2, <1>3 DEF Ordered
<1>5. Steady(tts)
  BY <1>1, <1>4 DEF Steady, Loose, Settles, NewLog
<1>6. Holds(voice, tts)
  BY <1>1, <1>3 DEF Holds
<1>7. Rest
  <2>1. <<>> \in Seq(Event) /\ Len(<<>>) = 0
    OBVIOUS
  <2>2. 0 \in 0..MaxEvents /\ 1 \in 1..MaxSessions /\ 0 <= RegistryLimit
    BY SpeechAssumption
  <2>3. readings \in [Event -> Nat]
    BY DEF Init
  <2>4. enabled \in BOOLEAN /\ session = 1 /\ events = 0 /\ due = {}
    BY DEF Init
  <2> QED BY <1>1, <2>1, <2>2, <2>3, <2>4 DEF Rest
<1>8. BatchFits /\ Remembered /\ NotYetRead /\ BatchIsPast
  BY <1>1, <1>2 DEF Init, BatchFits, Remembered, NotYetRead, BatchIsPast
<1>9. Lines = {}
  BY <1>3, <1>5, LinesAre
<1> QED BY <1>1, <1>5, <1>6, <1>7, <1>8, <1>9 DEF Inv, OnlyThisSessionIsRead

LEMMA NextKeeps ==
  ASSUME Inv, [Next]_vars
  PROVE  Inv'
<1>1. CASE Voice
  BY <1>1, VoiceStartsKeeps, VoiceEndsKeeps, VoiceFailsKeeps DEF Voice
<1>2. CASE \E x \in Text : WindowPasses(x)
  BY <1>2, WindowKeeps
<1>3. CASE \E e \in Event : ServerEvent(e)
  BY <1>3, ServerEventKeeps
<1>4. CASE \E item \in Items, e \in {NoEvent} \cup Event : Commentary(item, e)
  BY <1>4, CommentaryKeeps
<1>5. CASE BatchTimer
  BY <1>5, BatchTimerKeeps
<1>6. CASE PtyRestart
  BY <1>6, PtyRestartKeeps
<1>7. CASE SocketCloses
  BY <1>7, SocketClosesKeeps
<1>8. CASE SwitchOff
  BY <1>8, SwitchOffKeeps
<1>9. CASE SwitchOn
  BY <1>9, SwitchOnKeeps
<1>10. CASE TestSpeak
  BY <1>10, TestSpeakKeeps
<1>11. CASE ResetLog
  BY <1>11, ResetLogKeeps
<1>12. CASE UNCHANGED vars
  <2>1. UNCHANGED <<enabled, batch, tts, voice, registry, events, due, session, readings>>
    BY <1>12 DEF vars
  <2>2. Steady(tts') /\ Holds(voice', tts') /\ LinesOf(tts') \subseteq LinesOf(tts)
    BY <2>1 DEF Inv
  <2> QED BY <2>1, <2>2, ReportKeeps
<1> QED BY <1>1, <1>2, <1>3, <1>4, <1>5, <1>6, <1>7, <1>8, <1>9, <1>10, <1>11, <1>12 DEF Next

\* For all lines, limits and sessions the scheduler is steady, the voice holds one
\* live utterance of the line that is read, late ones name no line any more, and
\* the batch, which still has room, holds no event that was read at once (tts.ts,
\* speech-scheduler.ts, speech-lifecycle.ts, useTTS.ts).
THEOREM SpeechInvariant == Spec => []Inv
<1>1. Init => Inv
  BY InitHolds
<1>2. Inv /\ [Next]_vars => Inv'
  BY NextKeeps
<1> QED BY <1>1, <1>2, PTL DEF Spec

-----------------------------------------------------------------------------
(* What it shows *)

LEMMA OneLine ==
  ASSUME Inv
  PROVE  OneLineIsRead
<1>1. Steady(tts) /\ Holds(voice, tts) /\ Rest /\ Loose(tts) /\ Ordered(tts) /\ tts \in Scheduler
  BY DEF Inv, Steady, Loose
<1>2. TypeOK
  <2>1. Lines \subseteq Line
    BY <1>1, LinesAre, LinesAreLines
  <2>2. tts.lines \in 0..MaxLines /\ tts.recent \subseteq Text
    BY <1>1 DEF Scheduler
  <2>3. \A u \in voice : u.id \in 1..MaxLines
    BY <1>1, UtteranceFields DEF Holds
  <2> QED BY <1>1, <2>1, <2>2, <2>3 DEF TypeOK, Rest
<1>3. Speaking(tts) = (IF tts.active = None THEN {} ELSE {tts.active.id})
  BY <1>1, SpeakingFacts
<1>4. {u.id : u \in {v \in voice : ~v.dropped}} = Speaking(tts)
  <2>1. \A u \in {v \in voice : ~v.dropped} : u.id \in Speaking(tts)
    BY <1>1 DEF Holds, Live, Late
  <2>2. \A id \in Speaking(tts) : \E u \in {v \in voice : ~v.dropped} : id = u.id
    BY <1>1 DEF Holds
  <2> QED BY <2>1, <2>2
<1>5. Cardinality({u \in voice : ~u.dropped}) <= 1
  <2> DEFINE live == {u \in voice : ~u.dropped}
  <2>1. CASE live = {}
    BY <2>1, FS_EmptySet
  <2>2. CASE live # {}
    <3>1. PICK u : u \in live
      BY <2>2
    <3>2. live = {u}
      BY <1>1, <3>1 DEF Holds
    <3> HIDE DEF live
    <3>3. Cardinality(live) = 1
      BY <3>2, FS_Singleton
    <3> QED BY <3>3 DEF live
  <2> QED BY <2>1, <2>2
<1>6. ASSUME NEW a \in tts.sink
      PROVE  Len(a.chunk) \in 1..ChunkLimit
  <2>1. tts.active # None
    BY <1>1 DEF Loose
  <2>2. Reads(a, tts.active) /\ a \in Sunk
    BY <1>1, <2>1 DEF Loose, Scheduler
  <2> QED BY <2>2, SunkFields, ChunkFacts DEF Reads
<1>7. DOMAIN tts.waiting = 1..Len(tts.waiting)
  <2>1. tts.waiting \in Seq(Line)
    BY <1>1 DEF Scheduler
  <2> QED BY <2>1, LenProperties
<1>8. tts.waiting # <<>> => tts.active # None
  BY <1>1 DEF Steady
<1> QED BY <1>1, <1>2, <1>3, <1>4, <1>5, <1>6, <1>7, <1>8 DEF OneLineIsRead, Ordered

LEMMA Balance ==
  ASSUME Inv
  PROVE  LogBalances
<1>1. Loose(tts) /\ tts.log \in Log
  BY DEF Inv, Steady, Loose, Scheduler
<1>2. /\ tts.log.tracked = Speaking(tts)
      /\ tts.active = None => Cardinality(tts.log.tracked) = 0
      /\ tts.active # None => Cardinality(tts.log.tracked) = 1
  BY <1>1, SpeakingFacts
<1>3. CASE tts.active = None
  BY <1>1, <1>2, <1>3 DEF Loose, Settles, Log, LogBalances
<1>4. CASE tts.active # None
  BY <1>1, <1>2, <1>4 DEF Loose, Counts, Log, LogBalances
<1> QED BY <1>3, <1>4

\* In every reachable state the scheduler, the sink and the voice agree on the one
\* line that is read, its utterances are neither empty nor too long, heartbeats
\* wait behind the others, the log adds up, and all that is read or waits is of
\* the terminal session shown (speech-scheduler.ts, tts.ts, speech-lifecycle.ts).
THEOREM ReadingSafety == Spec => []ReadingInv
<1>1. Inv => ReadingInv
  BY OneLine, Balance DEF Inv, ReadingInv
<1> QED BY <1>1, SpeechInvariant, PTL

\* An event read at once is not read again as commentary while the registry
\* remembers it, whatever its limit (queueSpeechDeduped of useTTS.ts).
THEOREM ReadOnce == Spec => []ReadAtMostOnce
<1>1. Inv => ReadAtMostOnce
  <2> SUFFICES ASSUME Inv, NEW e \in Event, readings[e] > 1, NEW i \in DOMAIN registry, registry[i] = e
               PROVE  FALSE
    BY DEF ReadAtMostOnce
  <2>1. registry \in Seq(Event) /\ readings[e] \in Nat
    BY DEF Inv, Rest
  <2>2. i \in 1..Len(registry)
    BY <2>1, LenProperties
  <2>3. readings[e] <= 1
    BY <2>2 DEF Inv, Remembered
  <2> QED BY <2>1, <2>3
<1> QED BY <1>1, SpeechInvariant, PTL

-----------------------------------------------------------------------------
(* A line keeps the voice *)

\* The line is over: its own end or failure was reported.
IsOver ==
  \E u \in voice : /\ u.id = tts.active.id /\ ~u.dropped /\ u \notin voice'
                   /\ tts.active.id \notin {w.id : w \in voice'}
Overruled == tts'.active # None /\ tts'.active.priority = "urgent" /\ tts'.waiting = <<>>
Stopped == tts'.active = None /\ tts'.waiting = <<>> /\ tts'.recent = {}
StaysUntilOver ==
  tts.active # None /\ tts'.active # tts.active => IsOver \/ Overruled \/ Stopped

LEMMA SettledIsOver ==
  ASSUME Inv, NEW u \in voice, u.id \in Speaking(tts),
         voice' = (voice \ {u}) \cup {Utterance(id) : id \in Speaking(tts') \ Speaking(tts)}
  PROVE  IsOver
<1>1. Steady(tts) /\ Holds(voice, tts)
  BY DEF Inv
<1>2. tts.active # None /\ u.id = tts.active.id /\ Speaking(tts) = {tts.active.id}
      /\ tts.active \in LinesOf(tts)
  BY <1>1, SpeakingIsActive, SpeakingFacts DEF Steady, LinesOf
<1>3. ~u.dropped
  BY <1>1, <1>2 DEF Holds, Live, Late
<1>4. \A w \in voice \ {u} : w.id # u.id
  BY <1>1, <1>2, <1>3 DEF Holds, Live, Late
<1>5. \A id \in Speaking(tts') \ Speaking(tts) : Utterance(id).id = id /\ id # u.id
  BY <1>2 DEF Utterance
<1>6. \A w \in voice' : w.id # u.id
  BY <1>4, <1>5
<1> QED BY <1>2, <1>3, <1>6 DEF IsOver

\* Neither the start of an utterance nor the passing of time moves the scheduler.
LEMMA ActiveStays ==
  ASSUME NEW t \in Scheduler, NEW sink, NEW log, NEW recent
  PROVE  /\ [t EXCEPT !.sink = sink, !.log = log].active = t.active
         /\ [t EXCEPT !.sink = sink].active = t.active
         /\ [t EXCEPT !.recent = recent].active = t.active
  BY DEF Scheduler

LEMMA VoiceStays ==
  ASSUME Inv, NEW u \in voice, VoiceStarts(u) \/ VoiceEnds(u) \/ VoiceFails(u)
  PROVE  StaysUntilOver
<1>1. tts \in Scheduler
  BY StillKeeps
<1>2. CASE VoiceStarts(u)
  <2>1. tts'.active = tts.active
    BY <1>1, <1>2, ActiveStays DEF VoiceStarts
  <2> QED BY <2>1 DEF StaysUntilOver
<1>3. CASE VoiceEnds(u)
  <2>1. \/ tts' = tts
        \/ tts' = [tts EXCEPT !.sink = {NextChunk(a) : a \in tts.sink}]
        \/ /\ u.id \in Speaking(tts)
           /\ voice' = (voice \ {u}) \cup {Utterance(id) : id \in Speaking(tts') \ Speaking(tts)}
    BY <1>3 DEF VoiceEnds
  <2>2. tts'.active = tts.active \/ IsOver
    <3> DEFINE sink == {NextChunk(a) : a \in tts.sink}
    <3>1. [tts EXCEPT !.sink = sink].active = tts.active
      BY <1>1, ActiveStays
    <3> HIDE DEF sink
    <3> QED BY <2>1, <3>1, SettledIsOver DEF sink
  <2> QED BY <2>2 DEF StaysUntilOver
<1>4. CASE VoiceFails(u)
  <2>1. \/ tts' = tts
        \/ /\ u.id \in Speaking(tts)
           /\ voice' = (voice \ {u}) \cup {Utterance(id) : id \in Speaking(tts') \ Speaking(tts)}
    BY <1>4 DEF VoiceFails
  <2>2. tts'.active = tts.active \/ IsOver
    BY <2>1, SettledIsOver
  <2> QED BY <2>2 DEF StaysUntilOver
<1> QED BY <1>2, <1>3, <1>4

\* What is spoken or flushed takes the voice only if it is urgent.
LEMMA SpokenStays ==
  ASSUME Inv, \/ tts' = tts
              \/ Becomes(Flush(tts))
              \/ HasRoom(1) /\ Becomes(Speak(tts, Urgent))
  PROVE  StaysUntilOver
<1>1. CASE tts' = tts
  BY <1>1 DEF StaysUntilOver
<1>2. CASE Becomes(Flush(tts))
  <2> DEFINE s == Flush(tts)
  <2>1. tts.active # None =>
          \/ s.active = tts.active
          \/ s.active # None /\ s.active.priority = "urgent" /\ s.waiting = <<>>
    BY FlushKeeps
  <2>2. tts' = s
    BY <1>2 DEF Becomes
  <2> HIDE DEF s
  <2> QED BY <2>1, <2>2 DEF StaysUntilOver, Overruled
<1>3. CASE HasRoom(1) /\ Becomes(Speak(tts, Urgent))
  <2> DEFINE s == Speak(tts, Urgent)
  <2>1. tts.active # None =>
          \/ s.active = tts.active
          \/ s.active # None /\ s.active.priority = "urgent" /\ s.waiting = <<>>
    BY <1>3, UrgentSpeakable, SpokenKeeps
  <2>2. tts' = s
    BY <1>3 DEF Becomes
  <2> HIDE DEF s
  <2> QED BY <2>1, <2>2 DEF StaysUntilOver, Overruled
<1> QED BY <1>1, <1>2, <1>3

LEMMA StopStays ==
  ASSUME Inv, Becomes(CancelAll(tts)) \/ Becomes([CancelAll(tts) EXCEPT !.log = NewLog])
  PROVE  StaysUntilOver
<1>1. Steady(tts)
  BY DEF Inv
<1>2. Stopped
  <2>1. tts' = CancelAll(tts) \/ tts' = [CancelAll(tts) EXCEPT !.log = NewLog]
    BY DEF Becomes
  <2> QED BY <1>1, <2>1, CancelAllKeeps DEF Stopped
<1> QED BY <1>2 DEF StaysUntilOver

LEMMA NextStays ==
  ASSUME Inv, [Next]_vars
  PROVE  StaysUntilOver
<1>1. CASE Voice
  BY <1>1, VoiceStays DEF Voice
<1>2. CASE \E x \in Text : WindowPasses(x)
  <2>1. tts'.active = tts.active
    BY <1>2, StillKeeps, ActiveStays DEF WindowPasses
  <2> QED BY <2>1 DEF StaysUntilOver
<1>3. CASE \E e \in Event : ServerEvent(e)
  BY <1>3, SpokenStays DEF ServerEvent
<1>4. CASE \E item \in Items, e \in {NoEvent} \cup Event : Commentary(item, e)
  BY <1>4, SpokenStays DEF Commentary, QueueSpeech
<1>5. CASE BatchTimer
  BY <1>5, SpokenStays DEF BatchTimer
<1>6. CASE PtyRestart \/ SwitchOff \/ ResetLog
  BY <1>6, StopStays DEF PtyRestart, SwitchOff, ResetLog
<1>7. CASE SwitchOn
  <2>1. tts.active = None
    BY <1>7, StillKeeps DEF SwitchOn
  <2> QED BY <2>1 DEF StaysUntilOver
<1>8. CASE TestSpeak
  BY <1>8, SpokenStays DEF TestSpeak
<1>9. CASE SocketCloses \/ UNCHANGED vars
  <2>1. tts' = tts
    BY <1>9 DEF SocketCloses, vars
  <2> QED BY <2>1 DEF StaysUntilOver
<1> QED BY <1>1, <1>2, <1>3, <1>4, <1>5, <1>6, <1>7, <1>8, <1>9 DEF Next

\* The line that is read is read to its end, whatever else comes to be said and
\* whatever dropped utterances still call back: only its own end or failure, an
\* urgent line or a stop takes the voice from it (speech-scheduler.ts, tts.ts).
THEOREM ReadingGoesOn == Spec => ReadToTheEnd
<1>1. Inv /\ [Next]_vars =>
        [tts.active # None /\ tts'.active # tts.active =>
           \/ \E u \in voice : u.id = tts.active.id /\ ~u.dropped /\ u \notin voice'
                               /\ tts.active.id \notin {w.id : w \in voice'}
           \/ tts'.active # None /\ tts'.active.priority = "urgent" /\ tts'.waiting = <<>>
           \/ tts'.active = None /\ tts'.waiting = <<>> /\ tts'.recent = {}]_vars
  BY NextStays, Zenon DEF StaysUntilOver, IsOver, Overruled, Stopped
<1> QED BY <1>1, SpeechInvariant, PTL DEF Spec, ReadToTheEnd
=============================================================================
