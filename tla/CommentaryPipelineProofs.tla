---------------------- MODULE CommentaryPipelineProofs ----------------------
(***************************************************************************)
(* That the reader, the context and the commentaries stay in step over     *)
(* every chunk, every input and every order of answers: a human who is     *)
(* awaited is told, a file counts as announced only once it was named, and *)
(* a repeated error is reported once for a row.                            *)
(*                                                                         *)
(* The folds over lines, events and keys keep what their steps keep, by    *)
(* FoldRule; one instance of it per fold.                                  *)
(***************************************************************************)
EXTENDS CommentaryPipeline, SequenceTheorems, FiniteSetTheorems, TLAPS

-----------------------------------------------------------------------------
(* Events.                                                                 *)

EventFields == {"type", "cue", "text", "target", "outcome", "says", "alert", "answer"}

IsEvent(e) ==
  /\ e = [field \in EventFields |-> e[field]]
  /\ e.type = "error" => e.text # Gap

\* A sequence of events.
AreEvents(events) ==
  /\ \E S : events \in Seq(S)
  /\ \A i \in 1..Len(events) : IsEvent(events[i])

\* An event after a sequence of events.
LEMMA AppendedEvent ==
  ASSUME NEW events, AreEvents(events), NEW e, IsEvent(e)
  PROVE  AreEvents(Append(events, e))
<1>1. PICK S : events \in Seq(S)
  BY DEF AreEvents
<1>2. events \in Seq(S \cup {e}) /\ e \in S \cup {e}
  BY <1>1
<1>3. /\ Append(events, e) \in Seq(S \cup {e})
      /\ Len(Append(events, e)) = Len(events) + 1
      /\ \A i \in 1..Len(events) : Append(events, e)[i] = events[i]
      /\ Append(events, e)[Len(events) + 1] = e
  BY <1>2, AppendProperties
<1>4. Len(events) \in Nat
  BY <1>1, LenProperties
<1>5. \A i \in 1..(Len(events) + 1) : IsEvent(Append(events, e)[i])
  <2> SUFFICES ASSUME NEW i \in 1..(Len(events) + 1) PROVE IsEvent(Append(events, e)[i])
    OBVIOUS
  <2>1. CASE i \in 1..Len(events)
    BY <1>3, <2>1 DEF AreEvents
  <2>2. CASE i = Len(events) + 1
    BY <1>3, <2>2
  <2> QED BY <1>4, <2>1, <2>2
<1> QED BY <1>3, <1>5 DEF AreEvents

\* Two sequences of events, one after the other.
LEMMA JoinedEvents ==
  ASSUME NEW first, AreEvents(first), NEW second, AreEvents(second)
  PROVE  AreEvents(first \o second)
<1>1. PICK S : first \in Seq(S)
  BY DEF AreEvents
<1>2. PICK T : second \in Seq(T)
  BY DEF AreEvents
<1>3. first \in Seq(S \cup T) /\ second \in Seq(S \cup T)
  BY <1>1, <1>2
<1>4. /\ first \o second \in Seq(S \cup T)
      /\ Len(first \o second) = Len(first) + Len(second)
      /\ \A i \in 1..(Len(first) + Len(second)) :
           (first \o second)[i] = IF i <= Len(first) THEN first[i] ELSE second[i - Len(first)]
  BY <1>3, ConcatProperties
<1>5. Len(first) \in Nat /\ Len(second) \in Nat
  BY <1>3, LenProperties
<1>6. \A i \in 1..(Len(first) + Len(second)) : IsEvent((first \o second)[i])
  <2> SUFFICES ASSUME NEW i \in 1..(Len(first) + Len(second)) PROVE IsEvent((first \o second)[i])
    OBVIOUS
  <2>1. CASE i <= Len(first)
    <3>1. i \in 1..Len(first)
      BY <1>5, <2>1
    <3> QED BY <1>4, <2>1, <3>1 DEF AreEvents
  <2>2. CASE ~(i <= Len(first))
    <3>1. i - Len(first) \in 1..Len(second)
      BY <1>5, <2>2
    <3> QED BY <1>4, <2>2, <3>1 DEF AreEvents
  <2> QED BY <2>1, <2>2
<1> QED BY <1>4, <1>6 DEF AreEvents

\* An extractor may tell nothing.
LEMMA NoEvents == AreEvents(<<>>)
<1>1. <<>> \in Seq({}) /\ Len(<<>>) = 0
  BY EmptySeq
<1> QED BY <1>1 DEF AreEvents

\* An event alone.
LEMMA OneEvent ==
  ASSUME NEW e, IsEvent(e)
  PROVE  AreEvents(<<e>>)
<1>1. <<e>> \in Seq({e}) /\ Len(<<e>>) = 1 /\ <<e>>[1] = e
  OBVIOUS
<1>2. \A i \in 1..Len(<<e>>) : IsEvent(<<e>>[i])
  BY <1>1
<1> QED BY <1>1, <1>2 DEF AreEvents

\* The event that a rule makes of a line is one the decisions understand, and its
\* text never looks like a gap in the history of errors.
LEMMA EventOfLine ==
  ASSUME NEW t, NEW cue, NEW line, IsLine(line)
  PROVE  IsEvent(EventOf(t, cue, line))
BY DEF EventOf, IsLine, IsEvent, EventFields

-----------------------------------------------------------------------------
(* The session context.                                                    *)

ContextFields ==
  {"task", "target", "phase", "previousPhase", "phaseChanged", "targetChanged",
   "humanRequired", "sequence", "phaseBeforeWaiting", "inputBuffer", "acceptsHumanInput",
   "lastProgress", "progressAge", "lastSpokenTarget"}

IsContext(c) ==
  /\ c = [field \in ContextFields |-> c[field]]
  /\ c.task \in Prompt \cup {NoTask}
  /\ c.phase \in Phases
  /\ c.phaseBeforeWaiting \in Phases \ {"waiting"}
  /\ c.humanRequired \in BOOLEAN /\ (c.humanRequired => c.phase = "waiting")
  /\ c.sequence \in 0..2
  /\ c.inputBuffer \in Keys \cup {Nothing}
  /\ c.progressAge \in 0..ProgressInterval

\* A context that is new or reset awaits nobody and has announced nothing.
LEMMA InitialIsContext ==
  /\ IsContext(ContextInitial)
  /\ ContextInitial.humanRequired = FALSE /\ ContextInitial.lastSpokenTarget = NoTarget
  /\ \A accepts : /\ IsContext(ResetContext(accepts))
                  /\ ResetContext(accepts).humanRequired = FALSE
                  /\ ResetContext(accepts).lastSpokenTarget = NoTarget
<1>1. ProgressInterval \in 0..ProgressInterval
  BY BoundsAssumption
<1> DEFINE c == ContextInitial
<1>2. IsContext(c) /\ c.humanRequired = FALSE /\ c.lastSpokenTarget = NoTarget
  BY <1>1 DEF ContextInitial, IsContext, ContextFields, Phases
<1> HIDE DEF c
<1>3. ASSUME NEW accepts
      PROVE  LET r == [c EXCEPT !.acceptsHumanInput = accepts]
             IN IsContext(r) /\ r.humanRequired = FALSE /\ r.lastSpokenTarget = NoTarget
  BY <1>2 DEF IsContext, ContextFields
<1> QED BY <1>2, <1>3 DEF ResetContext, c

\* Every event leads to a phase, and one that waits leads to waiting: nextPhase
\* overrules no request.
LEMMA PhaseOfEvent ==
  ASSUME NEW c, IsContext(c), NEW e
  PROVE  /\ NextPhase(c, e) \in Phases
         /\ Waits(e) => NextPhase(c, e) = "waiting"
<1>1. ExplicitPhase(e) \in Phases /\ (Waits(e) => ExplicitPhase(e) = "waiting")
  <2>1. CASE Waits(e)
    BY <2>1 DEF ExplicitPhase, Phases
  <2>2. CASE ~Waits(e)
    <3>1. ExplicitPhase(e) \in {"publishing", "editing", "verification", "investigation", "unknown"}
      BY <2>2 DEF ExplicitPhase, Waits, Publishes, Verifies
    <3> QED BY <2>2, <3>1 DEF Phases
  <2> QED BY <2>1, <2>2
<1>2. c.phase \in Phases /\ c.phaseBeforeWaiting \in Phases /\ "waiting" \in Phases
  BY DEF IsContext, Phases
<1> QED BY <1>1, <1>2 DEF NextPhase

\* An event begins a wait for the human only by asking, and what was announced
\* is not touched before it is decided what to say.
LEMMA SituationFacts ==
  ASSUME NEW c, IsContext(c), NEW e
  PROVE  /\ IsContext(Situation(c, e))
         /\ Situation(c, e).lastSpokenTarget = c.lastSpokenTarget
         /\ Situation(c, e).humanRequired => e.cue = "asks" \/ c.humanRequired
<1> DEFINE s == Situation(c, e)
           phase == NextPhase(c, e)
           human == HumanAfter(c, e)
           before == IF phase = "waiting" /\ c.phase # "waiting" THEN c.phase
                     ELSE c.phaseBeforeWaiting
<1>1. /\ s = [field \in ContextFields |-> s[field]]
      /\ s.task = c.task /\ s.phase = phase /\ s.phaseBeforeWaiting = before
      /\ s.humanRequired = human /\ s.sequence = AtMost(c.sequence + 1, 2)
      /\ s.inputBuffer = c.inputBuffer /\ s.progressAge = c.progressAge
      /\ s.lastSpokenTarget = c.lastSpokenTarget
  BY DEF Situation, IsContext, ContextFields
<1>2. phase \in Phases /\ (Waits(e) => phase = "waiting")
  BY PhaseOfEvent
<1>3. human \in BOOLEAN /\ (human => phase = "waiting") /\ (human => e.cue = "asks" \/ c.humanRequired)
  <2>1. e.cue = "asks" => Waits(e)
    BY DEF Waits
  <2>2. c.humanRequired \in BOOLEAN /\ (c.humanRequired => c.phase = "waiting")
    BY DEF IsContext
  <2> HIDE DEF phase
  <2> QED BY <1>2, <2>1, <2>2 DEF HumanAfter, Resumes, phase
<1>4. before \in Phases \ {"waiting"}
  <2> HIDE DEF phase
  <2> QED BY DEF IsContext
<1>5. AtMost(c.sequence + 1, 2) \in 0..2
  BY DEF IsContext, AtMost
<1> HIDE DEF s, phase, human, before
<1>6. IsContext(s)
  BY <1>1, <1>2, <1>3, <1>4, <1>5 DEF IsContext
<1> QED BY <1>1, <1>3, <1>6 DEF s

\* Speaking changes neither the wait nor the target, and counts the target as
\* announced exactly when the commentary is eligible and names it.
LEMMA SpokenFacts ==
  ASSUME NEW c, IsContext(c), NEW e, NEW eligible, NEW reason
  PROVE  /\ IsContext(Spoken(c, e, eligible, reason))
         /\ Spoken(c, e, eligible, reason).humanRequired = c.humanRequired
         /\ Spoken(c, e, eligible, reason).target = c.target
         /\ Spoken(c, e, eligible, reason).lastSpokenTarget
              = IF eligible /\ reason \in {"new_task", "new_target"} THEN c.target
                ELSE c.lastSpokenTarget
<1>1. ProgressInterval \in Nat
  BY BoundsAssumption
<1>2. CASE ~eligible \/ reason = "none"
  BY <1>2 DEF Spoken
<1>3. CASE ~(~eligible \/ reason = "none")
  <2> DEFINE progress == IF Priority(e) = "progress" THEN ProgressKey(c, e) ELSE c.lastProgress
             age == IF Priority(e) = "progress" THEN 0 ELSE c.progressAge
             spoken == IF reason \in {"new_task", "new_target"} THEN c.target ELSE c.lastSpokenTarget
  <2>1. Spoken(c, e, eligible, reason)
          = [c EXCEPT !.lastProgress = progress, !.progressAge = age, !.lastSpokenTarget = spoken]
    BY <1>3 DEF Spoken
  <2>2. age \in 0..ProgressInterval
    BY <1>1 DEF IsContext
  <2> HIDE DEF progress, age
  <2> QED BY <1>3, <2>1, <2>2 DEF IsContext, ContextFields
<1> QED BY <1>2, <1>3

\* What an event leaves of the context, and what a commentary on it announces.
LEMMA ObserveFacts ==
  ASSUME NEW c, IsContext(c), NEW e, NEW eligible
  PROVE  LET seen == Observe(c, e, eligible)
         IN /\ IsContext(seen.context)
            /\ seen.context.humanRequired => e.cue = "asks" \/ c.humanRequired
            /\ seen.context.lastSpokenTarget
                 = IF eligible /\ seen.reason \in {"new_task", "new_target"}
                   THEN seen.context.target ELSE c.lastSpokenTarget
<1> DEFINE s == Situation(c, e)
           reason == Reason(s, e)
           seen == Observe(c, e, eligible)
<1>1. IsContext(s) /\ s.lastSpokenTarget = c.lastSpokenTarget
      /\ (s.humanRequired => e.cue = "asks" \/ c.humanRequired)
  BY SituationFacts
<1>2. seen.context = Spoken(s, e, eligible, reason) /\ seen.reason = reason
  BY DEF Observe
<1> HIDE DEF s, reason, seen
<1>3. /\ IsContext(seen.context) /\ seen.context.humanRequired = s.humanRequired
      /\ seen.context.target = s.target
      /\ seen.context.lastSpokenTarget
              = IF eligible /\ reason \in {"new_task", "new_target"} THEN s.target
                ELSE s.lastSpokenTarget
  BY <1>1, <1>2, SpokenFacts
<1>4. IsContext(seen.context) /\ (seen.context.humanRequired => e.cue = "asks" \/ c.humanRequired)
  BY <1>1, <1>3
<1>5. seen.context.lastSpokenTarget
                 = IF eligible /\ seen.reason \in {"new_task", "new_target"}
                   THEN seen.context.target ELSE c.lastSpokenTarget
  BY <1>1, <1>2, <1>3
<1> QED BY <1>4, <1>5 DEF seen

-----------------------------------------------------------------------------
(* The row of errors.                                                      *)

IsSequence(s) == \E S : s \in Seq(S)

\* The last n entries are the same.
Row(h, n) == Len(h) >= n /\ \A i \in (Len(h) - n + 1)..Len(h) : h[i] = h[Len(h)]

DetectorFields == {"signature", "count", "age", "alerted"}

\* The detector against what the listener heard.
RowInv(detector, h, reported) ==
  /\ detector = [field \in DetectorFields |-> detector[field]]
  /\ detector.alerted \in BOOLEAN
  /\ detector.count \in 0..ErrorThreshold /\ detector.age \in 0..(ErrorWindow + 1)
  /\ IsSequence(h)
  /\ h = <<>> \/ h[Len(h)] = Gap => detector.age = ErrorWindow + 1
  /\ h # <<>> /\ h[Len(h)] # Gap =>
       /\ detector.signature = h[Len(h)] /\ detector.age <= ErrorWindow
       /\ \A n \in 1..ErrorThreshold : Row(h, n) <=> detector.count >= n
       /\ detector.alerted <=> detector.count = ErrorThreshold
       /\ reported <=> Row(h, ErrorThreshold) /\ ~Row(h, ErrorThreshold + 1)

\* Entries of a history that is cut to the last ErrorThreshold + 1.
LEMMA RecentFacts ==
  ASSUME NEW h, IsSequence(h), NEW t
  PROVE  LET r == Recent(Append(h, t))
         IN /\ IsSequence(r) /\ r # <<>> /\ r[Len(r)] = t
            /\ Row(r, 1)
            /\ \A n \in 2..(ErrorThreshold + 1) :
                 Row(r, n) <=> h # <<>> /\ h[Len(h)] = t /\ Row(h, n - 1)
<1> DEFINE a == Append(h, t)
           m == ErrorThreshold + 1
           r == Recent(a)
<1>1. PICK S : h \in Seq(S)
  BY DEF IsSequence
<1>2. h \in Seq(S \cup {t}) /\ t \in S \cup {t}
  BY <1>1
<1>3. Len(h) \in Nat /\ (h = <<>> <=> Len(h) = 0)
  BY <1>2, LenProperties, EmptySeq
<1>4. /\ a \in Seq(S \cup {t}) /\ Len(a) = Len(h) + 1
      /\ \A i \in 1..Len(h) : a[i] = h[i]
      /\ a[Len(h) + 1] = t
  BY <1>2, AppendProperties
<1>5. m \in Nat /\ m >= 3
  BY BoundsAssumption
<1> HIDE DEF a, m
<1>6. PICK d \in Nat : /\ r \in Seq(S \cup {t}) /\ Len(r) \in Nat /\ Len(r) >= 1
                       /\ Len(r) + d = Len(a) /\ (d > 0 => Len(r) = m)
                       /\ \A i \in 1..Len(r) : r[i] = a[i + d]
  <2>1. CASE Len(a) > m
    <3> DEFINE d == Len(a) - m
    <3>1. r = SubSeq(a, Len(a) - m + 1, Len(a))
      BY <2>1 DEF Recent, LastLines, m
    <3>2. \A i \in (Len(a) - m + 1)..Len(a) : a[i] \in S \cup {t}
      <4>1. \A i \in (Len(a) - m + 1)..Len(a) : i \in 1..Len(a)
        BY <1>3, <1>4, <1>5, <2>1
      <4> QED BY <1>4, <4>1, ElementOfSeq
    <3>3. Len(a) - m + 1 \in Int /\ Len(a) \in Int /\ Len(a) - m + 1 <= Len(a)
          /\ Len(a) - (Len(a) - m + 1) + 1 = m
      BY <1>3, <1>4, <1>5
    <3>4. /\ r \in Seq(S \cup {t}) /\ Len(r) = m
          /\ \A i \in 1..m : r[i] = a[Len(a) - m + 1 + i - 1]
      BY <3>1, <3>2, <3>3, SubSeqProperties
    <3>5. \A i \in 1..m : Len(a) - m + 1 + i - 1 = i + d
      BY <1>3, <1>4, <1>5
    <3>6. d \in Nat /\ m + d = Len(a)
      BY <1>3, <1>4, <1>5, <2>1
    <3> HIDE DEF d
    <3>7. \A i \in 1..Len(r) : r[i] = a[i + d]
      BY <3>4, <3>5
    <3>8. /\ r \in Seq(S \cup {t}) /\ Len(r) \in Nat /\ Len(r) >= 1
          /\ Len(r) + d = Len(a) /\ (d > 0 => Len(r) = m)
      BY <1>5, <3>4, <3>6
    <3> HIDE DEF a, r
    <3> QED BY <3>6, <3>7, <3>8
  <2>2. CASE ~(Len(a) > m)
    <3>1. r = a
      BY <2>2 DEF Recent, LastLines, m
    <3> QED BY <1>3, <1>4, <3>1
  <2> QED BY <2>1, <2>2
<1> HIDE DEF r
<1>7. IsSequence(r) /\ r # <<>>
  BY <1>6, EmptySeq DEF IsSequence
<1>8. r[Len(r)] = t
  BY <1>3, <1>4, <1>6
<1>9. Row(r, 1)
  BY <1>6 DEF Row
<1>10. ASSUME NEW n \in 2..m
       PROVE  Row(r, n) <=> h # <<>> /\ h[Len(h)] = t /\ Row(h, n - 1)
  <2>1. n \in Nat /\ n >= 2 /\ n <= m
    BY <1>5
  <2>2. \A i \in 1..Len(r) : i < Len(r) => r[i] = h[i + d]
    BY <1>3, <1>4, <1>6
  <2>3. ASSUME Row(r, n) PROVE h # <<>> /\ h[Len(h)] = t /\ Row(h, n - 1)
    <3>1. Len(r) >= n /\ \A i \in (Len(r) - n + 1)..Len(r) : r[i] = t
      BY <1>8, <2>3 DEF Row
    <3>2. Len(h) >= n - 1
      BY <1>3, <1>4, <1>6, <2>1, <3>1
    <3>3. \A j \in (Len(h) - (n - 1) + 1)..Len(h) : h[j] = t
      <4> SUFFICES ASSUME NEW j \in (Len(h) - (n - 1) + 1)..Len(h) PROVE h[j] = t
        OBVIOUS
      <4>1. j - d \in (Len(r) - n + 1)..Len(r) /\ j - d \in 1..Len(r) /\ j - d < Len(r)
            /\ (j - d) + d = j
        BY <1>3, <1>4, <1>6, <2>1, <3>1, <3>2
      <4> QED BY <2>2, <3>1, <4>1
    <3>4. Len(h) \in (Len(h) - (n - 1) + 1)..Len(h)
      BY <1>3, <2>1, <3>2
    <3>5. h[Len(h)] = t /\ h # <<>>
      BY <1>3, <2>1, <3>2, <3>3, <3>4
    <3> QED BY <3>2, <3>3, <3>5 DEF Row
  <2>4. ASSUME h # <<>>, h[Len(h)] = t, Row(h, n - 1) PROVE Row(r, n)
    <3>1. Len(h) >= n - 1 /\ \A j \in (Len(h) - (n - 1) + 1)..Len(h) : h[j] = t
      BY <2>4 DEF Row
    <3>2. Len(r) >= n
      BY <1>3, <1>4, <1>6, <2>1, <3>1
    <3>3. ASSUME NEW i \in (Len(r) - n + 1)..Len(r) PROVE r[i] = t
      <4>1. CASE i = Len(r)
        BY <1>8, <4>1
      <4>2. CASE i # Len(r)
        <5>1. i \in 1..Len(r) /\ i < Len(r)
          BY <1>6, <2>1, <3>2, <4>2
        <5>2. i + d \in (Len(h) - (n - 1) + 1)..Len(h)
          BY <1>3, <1>4, <1>6, <2>1, <3>2, <5>1
        <5> QED BY <2>2, <3>1, <5>1, <5>2
      <4> QED BY <4>1, <4>2
    <3> QED BY <1>8, <3>2, <3>3 DEF Row
  <2> QED BY <2>3, <2>4
<1> QED BY <1>7, <1>8, <1>9, <1>10 DEF a, m, r

\* Entries that form a set of one are a row.
LEMMA SameIsRow ==
  ASSUME NEW h, IsSequence(h), NEW n \in Nat \ {0}
  PROVE  Same(h, n) <=> Row(h, n)
<1>1. PICK S : h \in Seq(S)
  BY DEF IsSequence
<1>2. Len(h) \in Nat
  BY <1>1, LenProperties
<1> SUFFICES ASSUME Len(h) >= n PROVE Same(h, n) <=> Row(h, n)
  BY DEF Same, Row
<1> DEFINE l == LastOf(h, n)
<1>3. /\ Len(l) = n /\ l \in Seq(S)
      /\ \A i \in 1..n : l[i] = h[Len(h) - n + i]
  <2>1. \A i \in (Len(h) - n + 1)..Len(h) : h[i] \in S
    <3>1. \A i \in (Len(h) - n + 1)..Len(h) : i \in 1..Len(h)
      BY <1>2
    <3> QED BY <1>1, <3>1, ElementOfSeq
  <2>2. Len(h) - n + 1 \in Int /\ Len(h) \in Int /\ Len(h) - n + 1 <= Len(h)
        /\ Len(h) - (Len(h) - n + 1) + 1 = n
    BY <1>2
  <2>3. /\ l \in Seq(S) /\ Len(l) = n
        /\ \A i \in 1..n : l[i] = h[Len(h) - n + 1 + i - 1]
    BY <2>1, <2>2, SubSeqProperties DEF LastOf
  <2>4. \A i \in 1..n : Len(h) - n + 1 + i - 1 = Len(h) - n + i
    BY <1>2
  <2> HIDE DEF l
  <2>5. \A i \in 1..n : l[i] = h[Len(h) - n + i]
    BY <2>3, <2>4
  <2> QED BY <2>3, <2>5
<1> HIDE DEF l
<1>4. ToSet(l) = {h[i] : i \in (Len(h) - n + 1)..Len(h)}
  <2>1. DOMAIN l = 1..n
    BY <1>3, LenProperties
  <2>2. \A i \in 1..n : Len(h) - n + i \in (Len(h) - n + 1)..Len(h)
    BY <1>2
  <2>3. \A j \in (Len(h) - n + 1)..Len(h) : /\ j - (Len(h) - n) \in 1..n
                                           /\ Len(h) - n + (j - (Len(h) - n)) = j
    BY <1>2
  <2>4. ToSet(l) = {l[i] : i \in 1..n}
    BY <2>1 DEF ToSet
  <2>5. ASSUME NEW v \in ToSet(l) PROVE v \in {h[i] : i \in (Len(h) - n + 1)..Len(h)}
    <3>1. PICK i \in 1..n : v = l[i]
      BY <2>4
    <3>2. v = h[Len(h) - n + i] /\ Len(h) - n + i \in (Len(h) - n + 1)..Len(h)
      BY <1>3, <2>2, <3>1
    <3> QED BY <3>2
  <2>6. ASSUME NEW j \in (Len(h) - n + 1)..Len(h) PROVE h[j] \in ToSet(l)
    <3>1. h[j] = l[j - (Len(h) - n)]
      BY <1>3, <2>3
    <3> QED BY <2>3, <2>4, <3>1
  <2> QED BY <2>5, <2>6
<1> DEFINE values == {h[i] : i \in (Len(h) - n + 1)..Len(h)}
<1>5. h[Len(h)] \in values
  BY <1>2
<1>6. Row(h, n) <=> values = {h[Len(h)]}
  BY <1>5 DEF Row
<1> HIDE DEF values
<1>7. values = {h[Len(h)]} => Cardinality(values) = 1
  BY FS_Singleton
<1>8. Cardinality(values) = 1 => values = {h[Len(h)]}
  <2> SUFFICES ASSUME Cardinality(values) = 1 PROVE values = {h[Len(h)]}
    OBVIOUS
  <2>1. IsFiniteSet(values)
    <3>1. IsFiniteSet((Len(h) - n + 1)..Len(h))
      BY <1>2, FS_Interval
    <3> DEFINE places == (Len(h) - n + 1)..Len(h)
               f == [i \in places |-> h[i]]
    <3>2. f \in Surjection(places, values)
      BY DEF Surjection, values
    <3> HIDE DEF f, places
    <3>3. IsFiniteSet(places)
      BY <3>1 DEF places
    <3> QED BY <3>2, <3>3, FS_Surjection
  <2>2. PICK v : values = {v}
    BY <2>1, FS_Singleton
  <2> QED BY <1>5, <2>2
<1> QED BY <1>4, <1>6, <1>7, <1>8 DEF Same, l, values

\* An event keeps the detector in step with what is heard.
LEMMA ErrorObserved ==
  ASSUME NEW d, NEW h, NEW w, RowInv(d, h, w), NEW e, IsEvent(e)
  PROVE  LET seen == ObserveError(d, e)
         IN /\ RowInv(seen.detector, HeardError(h, e),
                      IF e.type = "error" THEN seen.event.alert ELSE w)
            /\ seen.event.cue = e.cue
<1> DEFINE seen == ObserveError(d, e)
<1>0. ErrorThreshold \in Nat /\ ErrorThreshold >= 2 /\ ErrorWindow \in Nat
  BY BoundsAssumption
<1>1. CASE e.type \in {"start", "done"}
  <2>1. seen.detector = DetectorInitial /\ seen.event = e
    BY <1>1 DEF ObserveError
  <2>2. HeardError(h, e) = Recent(Append(h, Gap))
    BY <1>1 DEF HeardError
  <2>3. LET r == Recent(Append(h, Gap)) IN IsSequence(r) /\ r # <<>> /\ r[Len(r)] = Gap
    BY RecentFacts DEF RowInv
  <2>4. RowInv(DetectorInitial, Recent(Append(h, Gap)), w)
    BY <1>0, <2>3 DEF RowInv, DetectorInitial, DetectorFields
  <2> QED BY <1>1, <2>1, <2>2, <2>4
<1>2. CASE e.type = "error"
  <2> DEFINE t == e.text
             r == Recent(Append(h, t))
             counted == Counted(d, e)
             alert == counted.count >= ErrorThreshold /\ ~counted.alerted
             goesOn == d.signature = e.text /\ d.age <= ErrorWindow
  <2>1. /\ seen.detector = [counted EXCEPT !.alerted = @ \/ alert]
        /\ seen.event = [e EXCEPT !.alert = alert]
    BY <1>2 DEF ObserveError
  <2>2. seen.event.cue = e.cue /\ seen.event.alert = alert
    <3> HIDE DEF alert
    <3> QED BY <2>1 DEF IsEvent, EventFields
  <2>3. t # Gap
    BY <1>2 DEF IsEvent
  <2>4. /\ IsSequence(r) /\ r # <<>> /\ r[Len(r)] = t /\ Row(r, 1)
        /\ \A n \in 2..(ErrorThreshold + 1) :
             Row(r, n) <=> h # <<>> /\ h[Len(h)] = t /\ Row(h, n - 1)
    BY RecentFacts DEF RowInv
  <2>5. /\ counted.signature = t /\ counted.age = 0
        /\ counted.count = IF goesOn THEN AtMost(d.count + 1, ErrorThreshold) ELSE 1
        /\ counted.alerted <=> goesOn /\ d.alerted
        /\ counted.alerted \in BOOLEAN
        /\ counted = [field \in DetectorFields |-> counted[field]]
    BY DEF Counted, DetectorFields
  <2> HIDE DEF counted
  <2>6. /\ seen.detector.signature = t /\ seen.detector.age = 0
        /\ seen.detector.count = counted.count
        /\ seen.detector.alerted <=> counted.alerted \/ alert
        /\ seen.detector.alerted \in BOOLEAN
        /\ seen.detector = [field \in DetectorFields |-> seen.detector[field]]
    <3>1. alert \in BOOLEAN
      OBVIOUS
    <3> HIDE DEF alert
    <3>2. seen.detector = [field \in DetectorFields |->
                             IF field = "alerted" THEN counted.alerted \/ alert ELSE counted[field]]
      BY <2>1, <2>5 DEF DetectorFields
    <3>3. \A field \in DetectorFields :
            seen.detector[field] =
              (IF field = "alerted" THEN counted.alerted \/ alert ELSE counted[field])
      BY <3>2
    <3>4. seen.detector = [field \in DetectorFields |-> seen.detector[field]]
      BY <3>2, <3>3
    <3> QED BY <2>5, <3>1, <3>3, <3>4 DEF DetectorFields
  <2>7. goesOn <=> h # <<>> /\ h[Len(h)] = t
    <3>1. ASSUME h # <<>>, h[Len(h)] = t PROVE goesOn
      BY <2>3, <3>1 DEF RowInv
    <3>2. ASSUME h = <<>> \/ h[Len(h)] # t PROVE ~goesOn
      BY <1>0, <2>3, <3>2 DEF RowInv
    <3> QED BY <3>1, <3>2
  <2>8. \A n \in 1..ErrorThreshold : Row(r, n) <=> counted.count >= n
    <3>1. CASE goesOn
      <4>1. counted.count = AtMost(d.count + 1, ErrorThreshold) /\ d.count \in Nat
        BY <2>5, <3>1 DEF RowInv
      <4>2. \A n \in 1..ErrorThreshold : Row(h, n) <=> d.count >= n
        BY <2>3, <2>7, <3>1 DEF RowInv
      <4> SUFFICES ASSUME NEW n \in 1..ErrorThreshold PROVE Row(r, n) <=> counted.count >= n
        OBVIOUS
      <4>3. CASE n = 1
        BY <1>0, <2>4, <4>1, <4>3 DEF AtMost
      <4>4. CASE n # 1
        <5>1. n \in 2..(ErrorThreshold + 1) /\ n - 1 \in 1..ErrorThreshold
          BY <1>0, <4>4
        <5>2. Row(r, n) <=> d.count >= n - 1
          BY <2>4, <2>7, <3>1, <4>2, <5>1
        <5> QED BY <1>0, <4>1, <5>1, <5>2 DEF AtMost
      <4> QED BY <4>3, <4>4
    <3>2. CASE ~goesOn
      <4>1. counted.count = 1
        BY <2>5, <3>2
      <4>2. \A n \in 2..(ErrorThreshold + 1) : ~Row(r, n)
        BY <2>4, <2>7, <3>2
      <4>3. \A n \in 1..ErrorThreshold : n = 1 \/ n \in 2..(ErrorThreshold + 1)
        BY <1>0
      <4> QED BY <2>4, <4>1, <4>2, <4>3
    <3> QED BY <3>1, <3>2
  <2>9. counted.count \in 1..ErrorThreshold
    BY <1>0, <2>5 DEF RowInv, AtMost
  <2>10. counted.alerted <=> Row(r, ErrorThreshold + 1)
    <3>1. ErrorThreshold + 1 \in 2..(ErrorThreshold + 1) /\ (ErrorThreshold + 1) - 1 = ErrorThreshold
          /\ ErrorThreshold \in 1..ErrorThreshold
      BY <1>0
    <3>2. Row(r, ErrorThreshold + 1) <=> goesOn /\ Row(h, ErrorThreshold)
      BY <2>4, <2>7, <3>1
    <3>3. goesOn => (Row(h, ErrorThreshold) <=> d.alerted)
      <4> HIDE DEF goesOn
      <4>1. ASSUME goesOn PROVE Row(h, ErrorThreshold) <=> d.alerted
        <5>1. /\ Row(h, ErrorThreshold) <=> d.count >= ErrorThreshold
              /\ d.alerted <=> d.count = ErrorThreshold
              /\ d.count <= ErrorThreshold /\ d.count \in Nat
          <6>1. h # <<>> /\ h[Len(h)] # Gap
            BY <2>3, <2>7, <4>1
          <6> QED BY <1>0, <3>1, <6>1 DEF RowInv
        <5> QED BY <1>0, <5>1
      <4> QED BY <4>1
    <3> QED BY <2>5, <3>2, <3>3
  <2>11. alert <=> Row(r, ErrorThreshold) /\ ~Row(r, ErrorThreshold + 1)
    BY <1>0, <2>8, <2>10
  <2>12. counted.alerted \/ alert <=> counted.count = ErrorThreshold
    <3>1. Row(r, ErrorThreshold + 1) => Row(r, ErrorThreshold)
      <4>1. ErrorThreshold + 1 \in 2..(ErrorThreshold + 1) /\ (ErrorThreshold + 1) - 1 = ErrorThreshold
            /\ ErrorThreshold \in 1..ErrorThreshold
        BY <1>0
      <4>2. PICK S : r \in Seq(S)
        BY <2>4 DEF IsSequence
      <4>3. Len(r) \in Nat
        BY <4>2, LenProperties
      <4> HIDE DEF r
      <4> QED BY <1>0, <4>3 DEF Row
    <3> HIDE DEF r, goesOn, t
    <3> QED BY <1>0, <2>8, <2>9, <2>10, <2>11, <3>1
  <2>13. HeardError(h, e) = r
    BY <1>2 DEF HeardError
  <2> HIDE DEF seen, alert, r, t, goesOn
  <2>14. RowInv(seen.detector, r, alert)
    BY <1>0, <2>3, <2>4, <2>6, <2>8, <2>9, <2>11, <2>12 DEF RowInv
  <2> QED BY <1>2, <2>2, <2>13, <2>14 DEF seen
<1>3. CASE e.type \notin {"start", "done", "error"}
  <2>1. seen.detector = d /\ seen.event = e
    BY <1>3 DEF ObserveError
  <2>2. HeardError(h, e) = h
    BY <1>3 DEF HeardError
  <2> QED BY <1>3, <2>1, <2>2
<1> QED BY <1>1, <1>2, <1>3

-----------------------------------------------------------------------------
(* The commentaries in the making.                                         *)

CommentFields == {"session", "asks", "open"}

IsComment(c) ==
  /\ c = [field \in CommentFields |-> c[field]]
  /\ c.asks \in BOOLEAN /\ c.open \subseteq Adapter

AreComments(list) == IsSequence(list) /\ \A i \in 1..Len(list) : IsComment(list[i])

\* The commentary of the newest request of session s is in the making.
Asked(list, s) == \E i \in 1..Len(list) : list[i].session = s /\ list[i].asks

\* The call of comment().
LEMMA MadeComment ==
  ASSUME NEW s, NEW asks \in BOOLEAN, NEW open, open \subseteq Adapter
  PROVE  LET c == [session |-> s, asks |-> asks, open |-> open]
         IN IsComment(c) /\ c.session = s /\ c.asks = asks /\ c.open = open
BY DEF IsComment, CommentFields

\* A commentary that no longer answers the newest request.
LEMMA ChangedComment ==
  ASSUME NEW c, IsComment(c), NEW asks \in BOOLEAN
  PROVE  LET r == [c EXCEPT !.asks = asks]
         IN IsComment(r) /\ r.session = c.session /\ r.asks = asks
BY DEF IsComment, CommentFields

\* The earlier commentaries stay what they are, but for the request they answer.
LEMMA EarlierComments ==
  ASSUME NEW list, AreComments(list), NEW asks \in BOOLEAN, NEW s
  PROVE  LET earlier == [i \in DOMAIN list |-> [list[i] EXCEPT !.asks = @ /\ ~asks]]
         IN AreComments(earlier) /\ Len(earlier) = Len(list)
            /\ (~asks /\ Asked(list, s) => Asked(earlier, s))
<1> DEFINE now(i) == [list[i] EXCEPT !.asks = list[i].asks /\ ~asks]
           earlier == [i \in DOMAIN list |-> now(i)]
<1>1. PICK S : list \in Seq(S)
  BY DEF AreComments, IsSequence
<1>2. Len(list) \in Nat /\ DOMAIN list = 1..Len(list)
  BY <1>1, LenProperties
<1>3. ASSUME NEW i \in 1..Len(list)
      PROVE  /\ IsComment(now(i)) /\ now(i).session = list[i].session
             /\ (~asks /\ list[i].asks) => now(i).asks
  <2>1. IsComment(list[i])
    BY DEF AreComments
  <2> DEFINE value == list[i].asks /\ ~asks
  <2>2. value \in BOOLEAN
    OBVIOUS
  <2>3. now(i) = [list[i] EXCEPT !.asks = value]
    OBVIOUS
  <2>4. (~asks /\ list[i].asks) => value = TRUE
    OBVIOUS
  <2> HIDE DEF value, now
  <2>5. IsComment(now(i)) /\ now(i).session = list[i].session /\ now(i).asks = value
    BY <2>1, <2>2, <2>3, ChangedComment
  <2> QED BY <2>4, <2>5
<1> HIDE DEF now
<1>4. earlier \in Seq({now(i) : i \in 1..Len(list)})
  <2>1. earlier = [i \in 1..Len(list) |-> now(i)]
    BY <1>2
  <2>2. \A i \in 1..Len(list) : now(i) \in {now(j) : j \in 1..Len(list)}
    OBVIOUS
  <2> DEFINE T == {now(j) : j \in 1..Len(list)}
             n == Len(list)
  <2> HIDE DEF T, n
  <2>3. earlier \in [1..n -> T]
    BY <2>1, <2>2 DEF T, n
  <2>4. n \in Nat
    BY <1>2 DEF n
  <2> HIDE DEF earlier
  <2>5. earlier \in Seq(T)
    BY <2>3, <2>4, SeqDef
  <2> QED BY <2>5 DEF T
<1>5. Len(earlier) = Len(list) /\ \A i \in 1..Len(list) : earlier[i] = now(i)
  <2>1. DOMAIN earlier = 1..Len(earlier) /\ Len(earlier) \in Nat
    <3> HIDE DEF earlier
    <3> QED BY <1>4, LenProperties
  <2>2. DOMAIN earlier = 1..Len(list)
    BY <1>2
  <2>3. \A i \in 1..Len(list) : earlier[i] = now(i)
    BY <1>2
  <2> HIDE DEF earlier
  <2>4. Len(earlier) = Len(list)
    <3> DEFINE m == Len(earlier)
               n == Len(list)
    <3>1. m \in Nat /\ n \in Nat /\ 1..m = 1..n
      BY <1>2, <2>1, <2>2
    <3> HIDE DEF m, n
    <3>2. m < n => n \in 1..n /\ n \notin 1..m
      BY <3>1
    <3>3. n < m => m \in 1..m /\ m \notin 1..n
      BY <3>1
    <3>4. m = n
      BY <3>1, <3>2, <3>3
    <3> QED BY <3>4 DEF m, n
  <2> QED BY <2>3, <2>4
<1>6. earlier = [i \in DOMAIN list |-> [list[i] EXCEPT !.asks = @ /\ ~asks]]
  BY DEF now
<1> HIDE DEF earlier
<1>7. AreComments(earlier)
  BY <1>3, <1>4, <1>5 DEF AreComments, IsSequence
<1>8. ~asks /\ Asked(list, s) => Asked(earlier, s)
  <2> SUFFICES ASSUME ~asks, Asked(list, s) PROVE Asked(earlier, s)
    OBVIOUS
  <2>1. PICK i \in 1..Len(list) : list[i].session = s /\ list[i].asks
    BY DEF Asked
  <2>2. earlier[i].session = s /\ earlier[i].asks
    BY <1>3, <1>5, <2>1
  <2> QED BY <1>5, <2>2 DEF Asked
<1> QED BY <1>5, <1>6, <1>7, <1>8

\* A new commentary joins the earlier ones; if it answers the request of the
\* session, the request is being told.
LEMMA OneMoreComment ==
  ASSUME NEW list, AreComments(list), NEW c, IsComment(c), NEW s
  PROVE  /\ AreComments(Append(list, c))
         /\ Asked(list, s) \/ (c.session = s /\ c.asks) => Asked(Append(list, c), s)
<1> DEFINE grown == Append(list, c)
<1>1. PICK S : list \in Seq(S)
  BY DEF AreComments, IsSequence
<1>2. list \in Seq(S \cup {c}) /\ c \in S \cup {c} /\ Len(list) \in Nat
  BY <1>1, LenProperties
<1>3. /\ grown \in Seq(S \cup {c}) /\ Len(grown) = Len(list) + 1
      /\ \A i \in 1..Len(list) : grown[i] = list[i]
      /\ grown[Len(list) + 1] = c
  BY <1>2, AppendProperties
<1> HIDE DEF grown
<1>4. \A i \in 1..Len(grown) : i \in 1..Len(list) \/ i = Len(list) + 1
  BY <1>2, <1>3
<1>5. AreComments(grown)
  BY <1>3, <1>4 DEF AreComments, IsSequence
<1>6. ASSUME Asked(list, s) PROVE Asked(grown, s)
  <2>1. PICK i \in 1..Len(list) : list[i].session = s /\ list[i].asks
    BY <1>6 DEF Asked
  <2>2. i \in 1..Len(grown)
    BY <1>2, <1>3
  <2> QED BY <1>3, <2>1, <2>2 DEF Asked
<1>7. ASSUME c.session = s, c.asks PROVE Asked(grown, s)
  <2>1. Len(list) + 1 \in 1..Len(grown)
    BY <1>2, <1>3
  <2> QED BY <1>3, <1>7, <2>1 DEF Asked
<1> QED BY <1>5, <1>6, <1>7 DEF grown

-----------------------------------------------------------------------------
(* A decision.                                                             *)

DecisionFields ==
  {"context", "errors", "gate", "comments", "named", "told", "history", "warned"}

\* The human who is awaited in context c is told by a commentary of session s.
\* or, unless it is live, is not.
Telling(c, said, list, s, live) == live /\ c.humanRequired => said \/ Asked(list, s)

DecisionInv(d, s, live) ==
  /\ d = [field \in DecisionFields |-> d[field]]
  /\ IsContext(d.context)
  /\ RowInv(d.errors, d.history, d.warned)
  /\ d.gate \in 0..GateInterval
  /\ AreComments(d.comments)
  /\ d.told \in BOOLEAN
  /\ Telling(d.context, d.told, d.comments, s, live)
  /\ d.context.lastSpokenTarget \in d.named \cup {NoTarget}

\* A decision that comments on every request keeps what is promised.
LEMMA DecideKeeps ==
  ASSUME NEW d, NEW s, NEW live, DecisionInv(d, s, live), NEW e, NEW eligible \in BOOLEAN,
         e.cue = "asks" => eligible
  PROVE  DecisionInv(Decide(d, e, eligible, s), s, live)
<1> DEFINE observed == Observe(d.context, e, eligible)
           made == observed.context
           asks == e.cue = "asks"
           earlier == [i \in DOMAIN d.comments |-> [d.comments[i] EXCEPT !.asks = @ /\ ~asks]]
           comment == Comment(e, s)
           list == IF eligible THEN Append(earlier, comment) ELSE earlier
           called == IF eligible /\ observed.reason \in {"new_task", "new_target"}
                     THEN d.named \cup {made.target} ELSE d.named
           said == d.told /\ ~asks
           r == Decide(d, e, eligible, s)
<1>1. /\ IsContext(made)
      /\ made.humanRequired => asks \/ d.context.humanRequired
      /\ made.lastSpokenTarget = IF eligible /\ observed.reason \in {"new_task", "new_target"}
                                 THEN made.target ELSE d.context.lastSpokenTarget
  BY ObserveFacts DEF DecisionInv
<1>2. r = [d EXCEPT !.context = made, !.comments = list, !.named = called, !.told = said]
  BY DEF Decide
<1>3. asks \in BOOLEAN /\ said \in BOOLEAN
  BY DEF DecisionInv
<1>4. AreComments(earlier) /\ (~asks /\ Asked(d.comments, s) => Asked(earlier, s))
  <2> HIDE DEF asks
  <2> QED BY <1>3, EarlierComments DEF DecisionInv
<1>5. IsComment(comment) /\ comment.session = s /\ comment.asks = asks
  <2> DEFINE open == IF Suppressed(e) THEN {} ELSE Adapter
  <2>1. comment = [session |-> s, asks |-> asks, open |-> open]
    BY DEF Comment
  <2>2. open \subseteq Adapter
    OBVIOUS
  <2> HIDE DEF open, asks, comment
  <2> QED BY <1>3, <2>1, <2>2, MadeComment
<1> HIDE DEF earlier, comment
<1>6. AreComments(list)
  BY <1>4, <1>5, OneMoreComment
<1>7. Telling(made, said, list, s, live)
  <2>1. CASE asks
    <3>1. Asked(Append(earlier, comment), s)
      BY <1>4, <1>5, <2>1, OneMoreComment
    <3> QED BY <2>1, <3>1 DEF Telling
  <2>2. CASE ~asks
    <3>1. live /\ made.humanRequired => d.told \/ Asked(earlier, s)
      BY <1>1, <1>4, <2>2 DEF DecisionInv, Telling
    <3>2. Asked(earlier, s) => Asked(list, s)
      BY <1>4, <1>5, OneMoreComment
    <3> HIDE DEF list
    <3> QED BY <2>2, <3>1, <3>2 DEF Telling
  <2> QED BY <2>1, <2>2
<1>8. made.lastSpokenTarget \in called \cup {NoTarget}
  <2> HIDE DEF made
  <2> QED BY <1>1 DEF DecisionInv
<1> HIDE DEF list, called, said, made, r
<1>9. /\ r = [field \in DecisionFields |-> r[field]]
      /\ r.context = made /\ r.errors = d.errors /\ r.gate = d.gate /\ r.comments = list
      /\ r.named = called /\ r.told = said /\ r.history = d.history /\ r.warned = d.warned
  BY <1>2 DEF DecisionInv, DecisionFields
<1>10. DecisionInv(r, s, live)
  BY <1>1, <1>3, <1>6, <1>7, <1>8, <1>9 DEF DecisionInv
<1> QED BY <1>10 DEF r

\* An event that passes the detector and the gate keeps it too: a request is
\* urgent, so the gate opens for it.
LEMMA EmitKeeps ==
  ASSUME NEW d, NEW s, NEW live, DecisionInv(d, s, live), NEW e, IsEvent(e)
  PROVE  DecisionInv(EmitEvent(d, e, s), s, live)
<1> DEFINE seen == ObserveError(d.errors, e)
           event == seen.event
           eligible == GateOpens(d.gate, event)
           gated == GateAfter(d.gate, event)
           heard == HeardError(d.history, e)
           reported == IF e.type = "error" THEN event.alert ELSE d.warned
           m == [d EXCEPT !.errors = seen.detector, !.gate = gated, !.history = heard,
                          !.warned = reported]
<1>1. RowInv(seen.detector, heard, reported) /\ event.cue = e.cue
  BY ErrorObserved DEF DecisionInv
<1>2. gated \in 0..GateInterval
  BY BoundsAssumption DEF GateAfter, DecisionInv
<1>3. eligible \in BOOLEAN /\ (event.cue = "asks" => eligible)
  BY DEF GateOpens, Priority
<1>4. EmitEvent(d, e, s) = Decide(m, event, eligible, s)
  BY DEF EmitEvent
<1> HIDE DEF heard, gated, reported, event, eligible
<1>5. /\ m = [field \in DecisionFields |-> m[field]]
      /\ m.context = d.context /\ m.errors = seen.detector /\ m.gate = gated
      /\ m.comments = d.comments /\ m.named = d.named /\ m.told = d.told
      /\ m.history = heard /\ m.warned = reported
  <2> HIDE DEF seen
  <2> QED BY DEF DecisionInv, DecisionFields
<1> HIDE DEF m
<1>6. DecisionInv(m, s, live)
  BY <1>1, <1>2, <1>5 DEF DecisionInv
<1> QED BY <1>3, <1>4, <1>6, DecideKeeps

Emitting == INSTANCE FoldRule WITH
  Step <- LAMBDA p, q, d, e : EmitEvent(d, e, p),
  Good <- LAMBDA p, q, d : DecisionInv(d, p, q)

\* So do all events of a chunk, one after the other.
LEMMA EventsKeep ==
  ASSUME NEW d, NEW s, NEW live, DecisionInv(d, s, live), NEW events, AreEvents(events)
  PROVE  DecisionInv(EmitEvents(d, events, s), s, live)
<1>1. PICK S : events \in Seq(S)
  BY DEF AreEvents
<1>2. Len(events) \in Nat /\ DOMAIN events = 1..Len(events)
  BY <1>1, LenProperties
<1>3. \A a, i : i \in 1..Len(events) /\ DecisionInv(a, s, live)
                  => DecisionInv(EmitEvent(a, events[i], s), s, live)
  BY EmitKeeps DEF AreEvents
<1>4. DecisionInv(Emitting!Folded(s, live, d, events), s, live)
  BY <1>2, <1>3, Emitting!FoldKeeps
<1>5. Emitting!Folded(s, live, d, events) = EmitEvents(d, events, s)
  BY DEF EmitEvents, Emitting!Folded, Emitting!FoldLeft, Emitting!MapThenFoldSet, Emitting!Max, FoldLeft,
         MapThenFoldSet, Max
<1> QED BY <1>4, <1>5

-----------------------------------------------------------------------------
(* Lines.                                                                  *)

AreLines(lines) == IsSequence(lines) /\ \A i \in 1..Len(lines) : IsLine(lines[i])

\* A chunk may complete no line.
LEMMA NoLines == AreLines(<<>>)
<1>1. <<>> \in Seq({}) /\ Len(<<>>) = 0
  BY EmptySeq
<1> QED BY <1>1 DEF AreLines, IsSequence

\* A line after lines.
LEMMA OneMoreLine ==
  ASSUME NEW lines, AreLines(lines), NEW line, IsLine(line)
  PROVE  AreLines(Append(lines, line)) /\ Append(lines, line) # <<>>
<1> DEFINE grown == Append(lines, line)
<1>1. PICK S : lines \in Seq(S)
  BY DEF AreLines, IsSequence
<1>2. lines \in Seq(S \cup {line}) /\ line \in S \cup {line} /\ Len(lines) \in Nat
  BY <1>1, LenProperties
<1>3. /\ grown \in Seq(S \cup {line}) /\ grown # <<>> /\ Len(grown) = Len(lines) + 1
      /\ \A i \in 1..Len(lines) : grown[i] = lines[i]
      /\ grown[Len(lines) + 1] = line
  BY <1>2, AppendProperties
<1> HIDE DEF grown
<1>4. \A i \in 1..Len(grown) : i \in 1..Len(lines) \/ i = Len(lines) + 1
  BY <1>2, <1>3
<1>5. AreLines(grown)
  BY <1>3, <1>4 DEF AreLines, IsSequence
<1> QED BY <1>3, <1>5 DEF grown

\* Lines after lines.
LEMMA JoinedLines ==
  ASSUME NEW first, AreLines(first), NEW second, AreLines(second)
  PROVE  AreLines(first \o second)
<1>1. PICK S : first \in Seq(S)
  BY DEF AreLines, IsSequence
<1>2. PICK T : second \in Seq(T)
  BY DEF AreLines, IsSequence
<1>3. first \in Seq(S \cup T) /\ second \in Seq(S \cup T)
  BY <1>1, <1>2
<1>4. /\ first \o second \in Seq(S \cup T)
      /\ Len(first \o second) = Len(first) + Len(second)
      /\ \A i \in 1..(Len(first) + Len(second)) :
           (first \o second)[i] = IF i <= Len(first) THEN first[i] ELSE second[i - Len(first)]
  BY <1>3, ConcatProperties
<1>5. Len(first) \in Nat /\ Len(second) \in Nat
  BY <1>3, LenProperties
<1>6. \A i \in 1..(Len(first) + Len(second)) : IsLine((first \o second)[i])
  <2> SUFFICES ASSUME NEW i \in 1..(Len(first) + Len(second)) PROVE IsLine((first \o second)[i])
    OBVIOUS
  <2>1. CASE i <= Len(first)
    <3>1. i \in 1..Len(first)
      BY <1>5, <2>1
    <3> QED BY <1>4, <2>1, <3>1 DEF AreLines
  <2>2. CASE ~(i <= Len(first))
    <3>1. i - Len(first) \in 1..Len(second)
      BY <1>5, <2>2
    <3> QED BY <1>4, <2>2, <3>1 DEF AreLines
  <2> QED BY <2>1, <2>2
<1> QED BY <1>4, <1>6 DEF AreLines, IsSequence

\* A stretch of lines.
LEMMA SomeLines ==
  ASSUME NEW lines, AreLines(lines), NEW m \in Nat \ {0}, NEW n \in 0..Len(lines)
  PROVE  AreLines(SubSeq(lines, m, n))
<1> DEFINE part == SubSeq(lines, m, n)
<1>1. PICK S : lines \in Seq(S)
  BY DEF AreLines, IsSequence
<1>2. Len(lines) \in Nat
  BY <1>1, LenProperties
<1>3. m \in Int /\ n \in Int /\ \A i \in m..n : i \in 1..Len(lines)
  BY <1>2
<1>4. \A i \in m..n : lines[i] \in S
  BY <1>1, <1>3, ElementOfSeq
<1>5. /\ part \in Seq(S) /\ Len(part) = IF m <= n THEN n - m + 1 ELSE 0
      /\ \A i \in 1..(n - m + 1) : part[i] = lines[m + i - 1]
  BY <1>3, <1>4, SubSeqProperties
<1> HIDE DEF part
<1>6. ASSUME NEW i \in 1..Len(part) PROVE IsLine(part[i])
  <2>1. m <= n
    BY <1>3, <1>5
  <2>2. i \in 1..(n - m + 1) /\ m + i - 1 \in m..n
    BY <1>3, <1>5, <2>1
  <2> QED BY <1>3, <1>5, <2>2 DEF AreLines
<1> QED BY <1>5, <1>6 DEF AreLines, IsSequence, part

\* The last lines of a buffer are lines.
LEMMA LinesKept ==
  ASSUME NEW lines, AreLines(lines), NEW n \in Nat
  PROVE  AreLines(LastLines(lines, n))
<1>1. Len(lines) \in Nat
  BY LenProperties DEF AreLines, IsSequence
<1>2. CASE Len(lines) > n
  <2>1. Len(lines) - n + 1 \in Nat \ {0} /\ Len(lines) \in 0..Len(lines)
    BY <1>1, <1>2
  <2>2. AreLines(SubSeq(lines, Len(lines) - n + 1, Len(lines)))
    BY <2>1, SomeLines
  <2> QED BY <1>2, <2>2 DEF LastLines
<1>3. CASE ~(Len(lines) > n)
  BY <1>3 DEF LastLines
<1> QED BY <1>2, <1>3

-----------------------------------------------------------------------------
(* The source.                                                             *)

AutoFields == {"detected", "seen", "signals", "scores"}

\* Only the automatic mode decides, and it does before it has seen too much.
AutoInv(a) ==
  /\ a = [field \in AutoFields |-> a[field]]
  /\ a.detected \in Sources \cup {Nothing}
  /\ a.seen \in 0..MaxDetectLines
  /\ a.detected = Nothing => a.seen < MaxDetectLines
  /\ Mode # "auto" => a.detected = Nothing

\* A detector that has seen nothing is in order.
LEMMA UndecidedIsAuto == AutoInv(Undecided)
BY LimitsAssumption DEF AutoInv, Undecided, AutoFields

\* Scoring a line decides at the latest when enough lines were seen, and never
\* revises a decision.
LEMMA DetectKeeps ==
  ASSUME NEW a, AutoInv(a), NEW line, NEW threshold, Mode = "auto"
  PROVE  AutoInv(Detect(a, line, threshold, MaxDetectLines))
<1>1. CASE a.detected # Nothing
  BY <1>1 DEF Detect
<1>2. CASE a.detected = Nothing
  <2> DEFINE scores == [claude |-> a.scores.claude + ClaudeScore(line),
                        codex |-> a.scores.codex + CodexScore(line),
                        hermes |-> a.scores.hermes + HermesScore(HermesSignals(line))]
             signals == a.signals \cup HermesSignals(line)
             winners == Decided(scores, signals, threshold)
             detected == CASE winners # {} -> CHOOSE w \in winners : TRUE
                           [] winners = {} /\ a.seen + 1 >= MaxDetectLines -> "generic"
                           [] OTHER -> Nothing
             r == [detected |-> detected, seen |-> a.seen + 1, signals |-> signals,
                   scores |-> scores]
  <2>1. Detect(a, line, threshold, MaxDetectLines) = r
    BY <1>2 DEF Detect
  <2>2. winners \subseteq {"claude", "codex", "hermes"}
    <3> HIDE DEF scores, signals
    <3> QED BY DEF Decided
  <2> HIDE DEF winners, scores, signals
  <2>3. a.seen \in Nat /\ a.seen < MaxDetectLines /\ MaxDetectLines \in Nat
    BY <1>2, LimitsAssumption DEF AutoInv
  <2>4. detected \in Sources \cup {Nothing}
    BY <2>2 DEF Sources
  <2>5. detected = Nothing => a.seen + 1 < MaxDetectLines
    <3>1. CASE winners # {}
      <4>1. detected \in {"claude", "codex", "hermes"}
        BY <2>2, <3>1
      <4> QED BY <4>1 DEF Nothing
    <3>2. CASE winners = {}
      BY <2>3, <3>2 DEF Nothing
    <3> QED BY <3>1, <3>2
  <2> HIDE DEF detected
  <2>6. /\ r = [field \in AutoFields |-> r[field]]
        /\ r.detected = detected /\ r.seen = a.seen + 1
    BY DEF AutoFields
  <2> HIDE DEF r
  <2>7. r.seen \in 0..MaxDetectLines
    BY <2>3, <2>6
  <2>8. AutoInv(r)
    BY <2>4, <2>5, <2>6, <2>7 DEF AutoInv
  <2> QED BY <2>1, <2>8
<1> QED BY <1>1, <1>2

Scanning == INSTANCE FoldRule WITH
  Step <- LAMBDA p, q, a, line : IF "blank" \in line.says THEN a
                                 ELSE Detect(a, line, p, q),
  Good <- LAMBDA p, q, a : AutoInv(a)

XFields == {"auto", "hermes", "codex"}
IsReader(x0) == x0 = [field \in XFields |-> x0[field]]

\* The lines of a chunk are scored before any is read.
LEMMA PreScanKeeps ==
  ASSUME NEW x0, IsReader(x0), AutoInv(x0.auto), NEW lines, IsSequence(lines), NEW source,
         Mode # "auto" => source # "auto"
  PROVE  LET r == PreScan(x0, lines, source)
         IN IsReader(r) /\ AutoInv(r.auto) /\ r.hermes = x0.hermes /\ r.codex = x0.codex
<1>1. CASE source # "auto"
  BY <1>1 DEF PreScan
<1>2. CASE source = "auto"
  <2> DEFINE a == FoldLeft(LAMBDA d, line : IF "blank" \in line.says THEN d
                                           ELSE Detect(d, line, Threshold, MaxDetectLines),
                           x0.auto, lines)
             r == PreScan(x0, lines, source)
  <2>1. Len(lines) \in Nat /\ DOMAIN lines = 1..Len(lines)
    BY LenProperties DEF IsSequence
  <2>2. \A d, i : i \in 1..Len(lines) /\ AutoInv(d)
          => AutoInv(IF "blank" \in lines[i].says THEN d
                     ELSE Detect(d, lines[i], Threshold, MaxDetectLines))
    BY <1>2, DetectKeeps
  <2>3. AutoInv(Scanning!Folded(Threshold, MaxDetectLines, x0.auto, lines))
    BY <2>1, <2>2, Scanning!FoldKeeps
  <2>4. Scanning!Folded(Threshold, MaxDetectLines, x0.auto, lines) = a
    BY DEF Scanning!Folded, Scanning!FoldLeft, Scanning!MapThenFoldSet, Scanning!Max,
           FoldLeft, MapThenFoldSet, Max
  <2>5. r = [x0 EXCEPT !.auto = a]
    BY <1>2 DEF PreScan
  <2> HIDE DEF a, r
  <2>6. IsReader(r) /\ r.auto = a /\ r.hermes = x0.hermes /\ r.codex = x0.codex
    BY <2>5 DEF IsReader, XFields
  <2> QED BY <2>3, <2>4, <2>6 DEF r
<1> QED BY <1>1, <1>2

-----------------------------------------------------------------------------
(* Hermes.                                                                 *)

HermesFields == {"started", "ended", "waitingForInput", "streaming", "seenKeys", "lastToolCategory"}

HermesInv(h) ==
  /\ h = [field \in HermesFields |-> h[field]]
  /\ h.waitingForInput \in BOOLEAN /\ h.streaming \in BOOLEAN
  /\ ~(h.streaming /\ h.waitingForInput)
  /\ IsSequence(h.seenKeys) /\ Len(h.seenKeys) <= SeenKeyLimit /\ IsInjective(h.seenKeys)

\* Hermes starts out neither waiting nor streaming and has told nothing.
LEMMA HermesInitially == HermesInv(HermesInitial)
<1>1. IsSequence(<<>>) /\ Len(<<>>) = 0 /\ IsInjective(<<>>)
  <2>1. <<>> \in Seq({}) /\ Len(<<>>) = 0
    BY EmptySeq
  <2> QED BY <2>1 DEF IsSequence, IsInjective
<1> QED BY <1>1, LimitsAssumption DEF HermesInv, HermesInitial, HermesFields

StreamsNot(rule) == "progress" \notin rule.patterns /\ "response" \notin rule.patterns
WaitsNot(rule) == {"prompt", "approval", "interrupted"} \cap rule.patterns = {}

\* The rules of Hermes are numbered 1 to 20.
LEMMA TableLength == DOMAIN hermesRules = 1..20
BY SMT DEF hermesRules

\* No rule of the table makes Hermes wait and stream.
LEMMA NoRuleDoesBoth ==
  ASSUME NEW i \in DOMAIN hermesRules
  PROVE  ~(MeansOne(i, {"prompt", "approval", "interrupted"})
           /\ MeansOne(i, {"progress", "response"}))
<1>50. \A p, patterns, t, cue :
         "progress" \notin patterns /\ "response" \notin patterns
           => StreamsNot(Rule(p, patterns, t, cue))
  BY DEF StreamsNot, Rule
<1>51. \A p, patterns, t, cue :
         {"prompt", "approval", "interrupted"} \cap patterns = {}
           => WaitsNot(Rule(p, patterns, t, cue))
  BY DEF WaitsNot, Rule
<1>1. StreamsNot(hermesRules[1])
  BY <1>50 DEF hermesRules
<1>2. StreamsNot(hermesRules[2])
  BY <1>50 DEF hermesRules
<1>3. StreamsNot(hermesRules[3])
  BY <1>50 DEF hermesRules
<1>4. StreamsNot(hermesRules[4])
  BY <1>50 DEF hermesRules
<1>5. StreamsNot(hermesRules[5])
  BY <1>50 DEF hermesRules
<1>6. StreamsNot(hermesRules[6])
  BY <1>50 DEF hermesRules
<1>7. StreamsNot(hermesRules[7])
  BY <1>50 DEF hermesRules
<1>8. StreamsNot(hermesRules[8])
  BY <1>50 DEF hermesRules
<1>9. StreamsNot(hermesRules[9])
  BY <1>50 DEF hermesRules
<1>10. StreamsNot(hermesRules[10])
  BY <1>50 DEF hermesRules
<1>11. StreamsNot(hermesRules[11])
  BY <1>50 DEF hermesRules
<1>12. StreamsNot(hermesRules[12])
  BY <1>50 DEF hermesRules
<1>13. StreamsNot(hermesRules[13])
  BY <1>50 DEF hermesRules
<1>14. StreamsNot(hermesRules[14])
  BY <1>50 DEF hermesRules
<1>15. StreamsNot(hermesRules[15])
  BY <1>50 DEF hermesRules
<1>16. StreamsNot(hermesRules[16])
  BY <1>50 DEF hermesRules
<1>17. StreamsNot(hermesRules[17])
  BY <1>50 DEF hermesRules
<1>18. StreamsNot(hermesRules[18])
  BY <1>50 DEF hermesRules
<1>19. WaitsNot(hermesRules[19])
  BY <1>51 DEF hermesRules
<1>20. WaitsNot(hermesRules[20])
  BY <1>51 DEF hermesRules
<1>21. i \in 1..20
  BY TableLength
<1>22. i \in 1..9 => StreamsNot(hermesRules[i])
  BY <1>1, <1>2, <1>3, <1>4, <1>5, <1>6, <1>7, <1>8, <1>9
<1>23. i \in 10..18 => StreamsNot(hermesRules[i])
  BY <1>10, <1>11, <1>12, <1>13, <1>14, <1>15, <1>16, <1>17, <1>18
<1>24. i \in 19..20 => WaitsNot(hermesRules[i])
  BY <1>19, <1>20
<1>25. i \in 1..9 \/ i \in 10..18 \/ i \in 19..20
  BY <1>21
<1>26. StreamsNot(hermesRules[i]) => ~MeansOne(i, {"progress", "response"})
  BY DEF StreamsNot, MeansOne
<1>27. WaitsNot(hermesRules[i]) => ~MeansOne(i, {"prompt", "approval", "interrupted"})
  BY DEF WaitsNot, MeansOne
<1> QED BY <1>22, <1>23, <1>24, <1>25, <1>26, <1>27

\* The first rule that matches is a rule of the table.
LEMMA FirstHitIsRule ==
  ASSUME NEW line, \E i \in DOMAIN hermesRules : hermesRules[i].patterns \cap line.says # {}
  PROVE  FirstHit(line) \in DOMAIN hermesRules
<1> DEFINE hits == {i \in DOMAIN hermesRules : hermesRules[i].patterns \cap line.says # {}}
           P(i) == /\ hermesRules[i].patterns \cap line.says # {}
                   /\ \A j \in 1..(i - 1) : hermesRules[j].patterns \cap line.says = {}
<1>1. DOMAIN hermesRules = 1..20
  BY TableLength
<1>2. hits \subseteq Nat /\ hits # {}
  BY <1>1
<1>3. PICK i \in hits : \A j \in hits : i <= j
  <2> HIDE DEF hits
  <2> QED BY <1>2, Emitting!LeastNumber
<1>4. \A j \in 1..(i - 1) : j \in DOMAIN hermesRules /\ ~(i <= j)
  BY <1>1
<1>5. i \in DOMAIN hermesRules /\ P(i)
  BY <1>3, <1>4
<1>6. FirstHit(line) = CHOOSE k \in DOMAIN hermesRules : P(k)
  BY DEF FirstHit
<1> HIDE DEF P
<1> QED BY <1>5, <1>6

\* A key is remembered once and the oldest one leaves.
LEMMA RememberedFacts ==
  ASSUME NEW keys, IsSequence(keys), Len(keys) <= SeenKeyLimit, IsInjective(keys),
         NEW key, key \notin ToSet(keys)
  PROVE  LET r == Remembered(keys, key)
         IN IsSequence(r) /\ Len(r) <= SeenKeyLimit /\ IsInjective(r)
<1> DEFINE grown == Append(keys, key)
           r == Remembered(keys, key)
<1>1. PICK S : keys \in Seq(S)
  BY DEF IsSequence
<1>2. keys \in Seq(S \cup {key}) /\ key \in S \cup {key} /\ Len(keys) \in Nat
      /\ DOMAIN keys = 1..Len(keys) /\ SeenKeyLimit \in Nat
  BY <1>1, LenProperties, LimitsAssumption
<1>3. /\ grown \in Seq(S \cup {key}) /\ grown # <<>> /\ Len(grown) = Len(keys) + 1
      /\ \A i \in 1..Len(keys) : grown[i] = keys[i]
      /\ grown[Len(keys) + 1] = key
  BY <1>2, AppendProperties
<1>4. \A i \in 1..Len(keys) : keys[i] # key
  BY <1>2 DEF ToSet
<1> HIDE DEF grown
<1>5. DOMAIN grown = 1..(Len(keys) + 1)
  BY <1>3, LenProperties
<1>6. ASSUME NEW i \in 1..(Len(keys) + 1), NEW j \in 1..(Len(keys) + 1), grown[i] = grown[j]
      PROVE  i = j
  <2>1. (i \in 1..Len(keys) \/ i = Len(keys) + 1) /\ (j \in 1..Len(keys) \/ j = Len(keys) + 1)
    BY <1>2
  <2> QED BY <1>2, <1>3, <1>4, <1>6, <2>1 DEF IsInjective
<1>7. CASE Len(grown) > SeenKeyLimit
  <2>1. r = Tail(grown)
    BY <1>7 DEF Remembered, grown
  <2>2. /\ Tail(grown) \in Seq(S \cup {key}) /\ Len(Tail(grown)) = Len(keys)
        /\ \A i \in 1..Len(Tail(grown)) : Tail(grown)[i] = grown[i + 1]
    BY <1>2, <1>3, HeadTailProperties
  <2> HIDE DEF r
  <2>3. DOMAIN r = 1..Len(keys)
    BY <2>1, <2>2, LenProperties
  <2>4. ASSUME NEW i \in DOMAIN r, NEW j \in DOMAIN r, r[i] = r[j] PROVE i = j
    <3>1. i + 1 \in 1..(Len(keys) + 1) /\ j + 1 \in 1..(Len(keys) + 1) /\ i \in Nat /\ j \in Nat
      BY <1>2, <2>3
    <3>2. grown[i + 1] = grown[j + 1]
      BY <2>1, <2>2, <2>3, <2>4
    <3>3. i + 1 = j + 1
      BY <1>6, <3>1, <3>2
    <3> QED BY <3>1, <3>3
  <2>5. IsInjective(r)
    BY <2>4 DEF IsInjective
  <2>6. IsSequence(r) /\ Len(r) <= SeenKeyLimit
    BY <2>1, <2>2 DEF IsSequence
  <2> QED BY <2>5, <2>6 DEF r
<1>8. CASE ~(Len(grown) > SeenKeyLimit)
  <2>1. r = grown
    BY <1>8 DEF Remembered, grown
  <2>2. IsSequence(grown) /\ Len(grown) <= SeenKeyLimit
    BY <1>2, <1>3, <1>8 DEF IsSequence
  <2>3. IsInjective(grown)
    BY <1>5, <1>6 DEF IsInjective
  <2> QED BY <2>1, <2>2, <2>3
<1> QED BY <1>7, <1>8

\* News makes Hermes wait, stream or neither.
LEMMA NewsKeeps ==
  ASSUME NEW h, HermesInv(h), NEW i \in DOMAIN hermesRules
  PROVE  HermesInv(HermesNews(h, i))
<1> DEFINE waits == MeansOne(i, {"prompt", "approval", "interrupted"})
           streams == MeansOne(i, {"progress", "response"})
           started == h.started \/ Means(i, "identity")
           ended == Means(i, "session ended") \/ (h.ended /\ ~Means(i, "identity"))
           category == IF MeansOne(i, toolRows) THEN i
                       ELSE IF MeansOne(i, {"prompt", "title"}) THEN 0 ELSE h.lastToolCategory
           r == [h EXCEPT !.started = started, !.ended = ended, !.waitingForInput = waits,
                          !.streaming = streams, !.lastToolCategory = category]
<1>1. CASE Means(i, "thinking")
  BY <1>1 DEF HermesNews
<1>2. CASE ~Means(i, "thinking")
  <2>1. HermesNews(h, i) = r
    BY <1>2 DEF HermesNews
  <2>2. waits \in BOOLEAN /\ streams \in BOOLEAN /\ ~(streams /\ waits)
    BY NoRuleDoesBoth DEF MeansOne
  <2> HIDE DEF waits, streams, started, ended, category
  <2>3. /\ r = [field \in HermesFields |-> r[field]]
        /\ r.waitingForInput = waits /\ r.streaming = streams /\ r.seenKeys = h.seenKeys
    BY DEF HermesInv, HermesFields
  <2> HIDE DEF r
  <2>4. HermesInv(r)
    BY <2>2, <2>3 DEF HermesInv
  <2> QED BY <2>1, <2>4
<1> QED BY <1>1, <1>2

\* One line of Hermes: what is told once is remembered, so it is not told twice.
LEMMA HermesLineKeeps ==
  ASSUME NEW h, HermesInv(h), NEW line, IsLine(line), NEW provisional
  PROVE  LET r == HermesLine(h, line, provisional)
         IN HermesInv(r.h) /\ AreEvents(r.events)
<1> DEFINE matches == \E i \in DOMAIN hermesRules : hermesRules[i].patterns \cap line.says # {}
           i == FirstHit(line)
           key == Fingerprint(i, line)
           short == provisional /\ Means(i, "response") /\ "short" \in line.says
           kept == [h EXCEPT !.seenKeys = Remembered(@, key)]
           quiet == h.ended \/ ~matches \/ short \/ key \in ToSet(h.seenKeys)
           event == EventOf(hermesRules[i].type, hermesRules[i].cue, line)
           r == HermesLine(h, line, provisional)
<1>1. CASE quiet
  <2>1. r.h = h /\ r.events = <<>>
    BY <1>1 DEF HermesLine
  <2> QED BY <2>1, NoEvents
<1>2. CASE ~quiet
  <2>1. matches /\ key \notin ToSet(h.seenKeys)
    BY <1>2
  <2>2. i \in DOMAIN hermesRules
    BY <2>1, FirstHitIsRule
  <2>3. r.h = HermesNews(kept, i)
        /\ r.events = IF IsMuted(kept, i) THEN <<>> ELSE <<event>>
    BY <1>2 DEF HermesLine
  <2> DEFINE keys == Remembered(h.seenKeys, key)
  <2>4. IsSequence(keys) /\ Len(keys) <= SeenKeyLimit /\ IsInjective(keys)
    BY <2>1, RememberedFacts DEF HermesInv
  <2>5. HermesInv(kept)
    <3>1. kept = [h EXCEPT !.seenKeys = keys]
      OBVIOUS
    <3> HIDE DEF keys, kept
    <3>2. /\ kept = [field \in HermesFields |-> kept[field]]
          /\ kept.seenKeys = keys /\ kept.waitingForInput = h.waitingForInput
          /\ kept.streaming = h.streaming
      BY <3>1 DEF HermesInv, HermesFields
    <3> QED BY <2>4, <3>2 DEF HermesInv
  <2>6. IsEvent(event)
    BY EventOfLine
  <2> HIDE DEF kept, event, i, r
  <2>7. AreEvents(<<event>>) /\ AreEvents(<<>>)
    BY <2>6, OneEvent, NoEvents
  <2>8. HermesInv(r.h)
    BY <2>2, <2>3, <2>5, NewsKeeps
  <2>9. AreEvents(r.events)
    BY <2>3, <2>7
  <2> QED BY <2>8, <2>9 DEF r
<1> QED BY <1>1, <1>2

Reading == INSTANCE FoldRule WITH
  Step <- LAMBDA p, q, acc, line :
            LET step == HermesLine(acc.h, line, FALSE)
            IN [h |-> step.h, events |-> acc.events \o step.events],
  Good <- LAMBDA p, q, acc : HermesInv(acc.h) /\ AreEvents(acc.events)

\* All completed lines of a chunk.
LEMMA HermesLinesKeep ==
  ASSUME NEW h, HermesInv(h), NEW lines, AreLines(lines)
  PROVE  LET r == HermesLines(h, lines)
         IN HermesInv(r.h) /\ AreEvents(r.events)
<1> DEFINE next(acc, line) == [h |-> HermesLine(acc.h, line, FALSE).h,
                               events |-> acc.events \o HermesLine(acc.h, line, FALSE).events]
           base == [h |-> h, events |-> <<>>]
<1>1. Len(lines) \in Nat /\ DOMAIN lines = 1..Len(lines)
  BY LenProperties DEF AreLines, IsSequence
<1>2. HermesInv(base.h) /\ AreEvents(base.events)
  BY NoEvents
<1>3. \A acc, i : i \in 1..Len(lines) /\ HermesInv(acc.h) /\ AreEvents(acc.events)
        => HermesInv(next(acc, lines[i]).h) /\ AreEvents(next(acc, lines[i]).events)
  <2> SUFFICES ASSUME NEW acc, NEW i \in 1..Len(lines), HermesInv(acc.h), AreEvents(acc.events)
               PROVE  /\ HermesInv(next(acc, lines[i]).h)
                      /\ AreEvents(next(acc, lines[i]).events)
    OBVIOUS
  <2> DEFINE line == HermesLine(acc.h, lines[i], FALSE)
  <2>1. HermesInv(line.h) /\ AreEvents(line.events)
    BY HermesLineKeeps DEF AreLines
  <2>2. AreEvents(acc.events \o line.events)
    BY <2>1, JoinedEvents
  <2> QED BY <2>1, <2>2
<1> HIDE DEF base
<1>4. LET r == Reading!Folded(0, 0, base, lines)
      IN HermesInv(r.h) /\ AreEvents(r.events)
  BY <1>1, <1>2, <1>3, Reading!FoldKeeps
<1>5. Reading!Folded(0, 0, base, lines) = HermesLines(h, lines)
  BY DEF HermesLines, base, Reading!Folded, Reading!FoldLeft, Reading!MapThenFoldSet,
         Reading!Max, FoldLeft, MapThenFoldSet, Max
<1> QED BY <1>4, <1>5

\* Lines of a chunk; the unfinished one is a line as well.
IsChunk(chunk) ==
  /\ AreLines(chunk.lines) /\ IsLine(chunk.partial)
  /\ chunk.lines # <<>> \/ chunk.partial # NoLine

\* A chunk of Hermes, its unfinished line included.
LEMMA HermesKeeps ==
  ASSUME NEW h, HermesInv(h), NEW chunk, IsChunk(chunk)
  PROVE  LET r == ExtractHermes(h, chunk)
         IN HermesInv(r.h) /\ AreEvents(r.events)
<1> DEFINE done == HermesLines(h, chunk.lines)
           step == HermesLine(done.h, chunk.partial, TRUE)
<1>1. HermesInv(done.h) /\ AreEvents(done.events)
  BY HermesLinesKeep DEF IsChunk
<1> HIDE DEF done
<1>2. HermesInv(step.h) /\ AreEvents(step.events)
  BY <1>1, HermesLineKeeps DEF IsChunk
<1> HIDE DEF step
<1>3. AreEvents(done.events \o step.events)
  BY <1>1, <1>2, JoinedEvents
<1> QED BY <1>1, <1>2, <1>3 DEF ExtractHermes, done, step

-----------------------------------------------------------------------------
(* The Codex screen.                                                       *)

CodexFields == {"buffer", "lastCommand", "lastAnswer", "lastAssistant"}

CodexInv(c) ==
  /\ c = [field \in CodexFields |-> c[field]]
  /\ AreLines(c.buffer)

\* The Codex extractor starts with an empty buffer.
LEMMA CodexInitially == CodexInv(CodexInitial)
BY NoLines DEF CodexInv, CodexInitial, CodexFields

ScanFields == {"open", "through", "last", "events"}

\* A pass over n lines of the buffer.
ScanInv(c, n) ==
  /\ c = [field \in ScanFields |-> c[field]]
  /\ c.open \in 0..n /\ c.through \in 0..n
  /\ AreEvents(c.events)

\* A pass over the buffer starts with nothing open.
LEMMA ScanInitially ==
  ASSUME NEW last, NEW n \in Nat
  PROVE  ScanInv([open |-> 0, through |-> 0, last |-> last, events |-> <<>>], n)
BY NoEvents DEF ScanInv, ScanFields

\* A finished card is told at most as one more event.
LEMMA TellCommandKeeps ==
  ASSUME NEW n \in Nat, NEW c, ScanInv(c, n), NEW line, IsLine(line)
  PROVE  ScanInv(TellCommand(c, line), n)
<1> DEFINE says == (line.says \ {"Ran"}) \cup {ExecPattern(line.command)}
           card == [line EXCEPT !.says = says]
           event == EventOf(codexRules[Hit(codexRules, card)].type, "plain", card)
           events == Append(c.events, event)
           r == [c EXCEPT !.last = line.text, !.events = events]
<1>1. CASE line.text = c.last
  BY <1>1 DEF TellCommand
<1>2. CASE line.text # c.last
  <2>1. TellCommand(c, line) = r
    BY <1>2 DEF TellCommand
  <2>2. IsLine(card)
    <3> HIDE DEF says
    <3> QED BY DEF IsLine
  <2>3. IsEvent(event)
    <3> HIDE DEF card
    <3> QED BY <2>2, EventOfLine
  <2> HIDE DEF event
  <2>4. AreEvents(events)
    BY <2>3, AppendedEvent DEF ScanInv
  <2> HIDE DEF events
  <2>5. ScanInv(r, n)
    BY <2>4 DEF ScanInv, ScanFields
  <2> QED BY <2>1, <2>5
<1> QED BY <1>1, <1>2

\* The step of Cards and of Answers.
CardStep(buffer, c, i) ==
  CASE "Ran" \in buffer[i].says /\ c.open = 0 -> [c EXCEPT !.open = i]
    [] "card end" \in buffer[i].says /\ c.open # 0 ->
         [TellCommand(c, buffer[c.open]) EXCEPT !.open = 0, !.through = i]
    [] OTHER -> c

AnswerStep(buffer, b, i) ==
  CASE "rule" \in buffer[i].says /\ b.open = 0 -> [b EXCEPT !.open = i]
    [] "rule" \in buffer[i].says /\ b.open # 0 /\ b.open + 1 < i ->
         [TellAnswer(b, SubSeq(buffer, b.open + 1, i - 1)) EXCEPT !.open = 0, !.through = i]
    [] OTHER -> b

\* What a card or an answer opens and closes are lines of the buffer.
LEMMA OpenedAt ==
  ASSUME NEW n \in Nat, NEW c, ScanInv(c, n), NEW i \in 1..n
  PROVE  /\ ScanInv([c EXCEPT !.open = i], n)
         /\ ScanInv([c EXCEPT !.open = 0, !.through = i], n)
<1>1. i \in 0..n /\ 0 \in 0..n
  OBVIOUS
<1> QED BY <1>1 DEF ScanInv, ScanFields

\* A line opens a card, closes the one that is open, or neither.
LEMMA CardStepKeeps ==
  ASSUME NEW buffer, AreLines(buffer), NEW c, ScanInv(c, Len(buffer)), NEW i \in 1..Len(buffer)
  PROVE  ScanInv(CardStep(buffer, c, i), Len(buffer))
<1>1. Len(buffer) \in Nat
  BY LenProperties DEF AreLines, IsSequence
<1>2. CASE "Ran" \in buffer[i].says /\ c.open = 0
  <2>1. CardStep(buffer, c, i) = [c EXCEPT !.open = i]
    BY <1>2 DEF CardStep
  <2> QED BY <1>1, <2>1, OpenedAt
<1>3. CASE "card end" \in buffer[i].says /\ c.open # 0
  <2> DEFINE t == TellCommand(c, buffer[c.open])
  <2>1. CardStep(buffer, c, i) = [t EXCEPT !.open = 0, !.through = i]
    BY <1>3 DEF CardStep
  <2>2. IsLine(buffer[c.open])
    <3>1. c.open \in 0..Len(buffer)
      BY DEF ScanInv
    <3>2. c.open # 0
      BY <1>3
    <3>3. c.open \in 1..Len(buffer)
      BY <1>1, <3>1, <3>2
    <3> QED BY <3>3 DEF AreLines
  <2>3. ScanInv(t, Len(buffer))
    BY <1>1, <2>2, TellCommandKeeps
  <2> HIDE DEF t
  <2>4. ScanInv([t EXCEPT !.open = 0, !.through = i], Len(buffer))
    BY <1>1, <2>3, OpenedAt
  <2> QED BY <2>1, <2>4
<1>4. CASE /\ ~("Ran" \in buffer[i].says /\ c.open = 0)
           /\ ~("card end" \in buffer[i].says /\ c.open # 0)
  BY <1>4 DEF CardStep
<1> QED BY <1>2, <1>3, <1>4

\* An event stays one when it is marked as an answer.
LEMMA AnsweringEvent ==
  ASSUME NEW e, IsEvent(e)
  PROVE  IsEvent([e EXCEPT !.answer = TRUE])
BY DEF IsEvent, EventFields

\* A finished answer is told at most as one more event, of a line it holds: one
\* without prose is silent, so the line is never missing.
LEMMA TellAnswerKeeps ==
  ASSUME NEW n \in Nat, NEW b, ScanInv(b, n), NEW body, AreLines(body)
  PROVE  ScanInv(TellAnswer(b, body), n)
<1> DEFINE prose == {i \in DOMAIN body : "prose" \in body[i].says}
           first == CHOOSE i \in prose : \A j \in prose : i <= j
           said == SelectSeq(body, LAMBDA line : "prose" \in line.says)
           answer == [i \in DOMAIN said |-> said[i].text]
           silent == \/ \E i \in DOMAIN body : "Ran" \in body[i].says
                     \/ prose = {} \/ answer = b.last
           event == [EventOf("stdout", "plain", body[first]) EXCEPT !.answer = TRUE]
           events == Append(b.events, event)
           r == [b EXCEPT !.last = answer, !.events = events]
<1>1. Len(body) \in Nat /\ DOMAIN body = 1..Len(body)
  BY LenProperties DEF AreLines, IsSequence
<1>2. TellAnswer(b, body) = IF silent THEN b ELSE r
  BY DEF TellAnswer
<1>3. CASE silent
  BY <1>2, <1>3
<1>4. CASE ~silent
  <2>1. prose # {} /\ prose \subseteq 1..Len(body)
    BY <1>1, <1>4
  <2>2. IsLine(body[first])
    <3> HIDE DEF prose
    <3>1. \E i \in prose : \A j \in prose : i <= j
      <4>1. prose \subseteq Nat
        BY <1>1, <2>1
      <4> QED BY <2>1, <4>1, Emitting!LeastNumber
    <3>2. first \in prose
      BY <3>1
    <3> QED BY <2>1, <3>2 DEF AreLines
  <2>3. IsEvent(event)
    <3> DEFINE line == body[first]
    <3> HIDE DEF line
    <3>1. IsLine(line)
      BY <2>2 DEF line
    <3>2. IsEvent([EventOf("stdout", "plain", line) EXCEPT !.answer = TRUE])
      <4> DEFINE e == EventOf("stdout", "plain", line)
      <4>1. IsEvent(e)
        BY <3>1, EventOfLine
      <4> HIDE DEF e
      <4>2. IsEvent([e EXCEPT !.answer = TRUE])
        BY <4>1, AnsweringEvent
      <4> QED BY <4>2 DEF e
    <3> QED BY <3>2 DEF line
  <2> HIDE DEF event
  <2>4. AreEvents(events)
    BY <2>3, AppendedEvent DEF ScanInv
  <2> HIDE DEF events, answer
  <2>5. ScanInv(r, n)
    BY <2>4 DEF ScanInv, ScanFields
  <2> QED BY <1>2, <1>4, <2>5
<1> QED BY <1>3, <1>4

\* A rule opens an answer or closes the one that is open, which then lies between
\* the two.
LEMMA AnswerStepKeeps ==
  ASSUME NEW buffer, AreLines(buffer), NEW b, ScanInv(b, Len(buffer)), NEW i \in 1..Len(buffer)
  PROVE  ScanInv(AnswerStep(buffer, b, i), Len(buffer))
<1>1. Len(buffer) \in Nat
  BY LenProperties DEF AreLines, IsSequence
<1>2. CASE "rule" \in buffer[i].says /\ b.open = 0
  <2>1. AnswerStep(buffer, b, i) = [b EXCEPT !.open = i]
    BY <1>2 DEF AnswerStep
  <2> QED BY <1>1, <2>1, OpenedAt
<1>3. CASE "rule" \in buffer[i].says /\ b.open # 0 /\ b.open + 1 < i
  <2> DEFINE body == SubSeq(buffer, b.open + 1, i - 1)
             t == TellAnswer(b, body)
  <2>1. AnswerStep(buffer, b, i) = [t EXCEPT !.open = 0, !.through = i]
    BY <1>3 DEF AnswerStep
  <2>2. b.open + 1 \in Nat \ {0} /\ i - 1 \in 0..Len(buffer)
    BY <1>1 DEF ScanInv
  <2>3. AreLines(body)
    BY <2>2, SomeLines
  <2> HIDE DEF body
  <2>4. ScanInv(t, Len(buffer))
    BY <1>1, <2>3, TellAnswerKeeps
  <2> HIDE DEF t
  <2>5. ScanInv([t EXCEPT !.open = 0, !.through = i], Len(buffer))
    BY <1>1, <2>4, OpenedAt
  <2> QED BY <2>1, <2>5
<1>4. CASE /\ ~("rule" \in buffer[i].says /\ b.open = 0)
           /\ ~("rule" \in buffer[i].says /\ b.open # 0 /\ b.open + 1 < i)
  BY <1>4 DEF AnswerStep
<1> QED BY <1>2, <1>3, <1>4

Carding == INSTANCE FoldRule WITH
  Step <- LAMBDA p, q, c, i : CardStep(p, c, i),
  Good <- LAMBDA p, q, c : ScanInv(c, Len(p))

Answering == INSTANCE FoldRule WITH
  Step <- LAMBDA p, q, b, i : AnswerStep(p, b, i),
  Good <- LAMBDA p, q, b : ScanInv(b, Len(p))

\* The pass over the buffer for cards.
LEMMA CardsKeep ==
  ASSUME NEW buffer, AreLines(buffer), NEW last
  PROVE  ScanInv(Cards(buffer, last), Len(buffer))
<1> DEFINE base == [open |-> 0, through |-> 0, last |-> last, events |-> <<>>]
           places == [i \in DOMAIN buffer |-> i]
<1>1. Len(buffer) \in Nat /\ DOMAIN buffer = 1..Len(buffer)
  BY LenProperties DEF AreLines, IsSequence
<1>2. DOMAIN places = 1..Len(buffer) /\ \A i \in 1..Len(buffer) : places[i] = i
  BY <1>1
<1>3. ScanInv(base, Len(buffer))
  BY <1>1, ScanInitially
<1> HIDE DEF base, places
<1>4. \A c, i : i \in 1..Len(buffer) /\ ScanInv(c, Len(buffer))
                  => ScanInv(CardStep(buffer, c, places[i]), Len(buffer))
  BY <1>2, CardStepKeeps
<1>5. ScanInv(Carding!Folded(buffer, 0, base, places), Len(buffer))
  BY <1>1, <1>2, <1>3, <1>4, Carding!FoldKeeps
<1>6. Carding!Folded(buffer, 0, base, places) = Cards(buffer, last)
  BY DEF Cards, CardStep, base, places, Carding!Folded, Carding!FoldLeft,
         Carding!MapThenFoldSet, Carding!Max, FoldLeft, MapThenFoldSet, Max
<1> QED BY <1>5, <1>6

\* The pass over the buffer for answers.
LEMMA AnswersKeep ==
  ASSUME NEW buffer, AreLines(buffer), NEW last
  PROVE  ScanInv(Answers(buffer, last), Len(buffer))
<1> DEFINE base == [open |-> 0, through |-> 0, last |-> last, events |-> <<>>]
           places == [i \in DOMAIN buffer |-> i]
<1>1. Len(buffer) \in Nat /\ DOMAIN buffer = 1..Len(buffer)
  BY LenProperties DEF AreLines, IsSequence
<1>2. DOMAIN places = 1..Len(buffer) /\ \A i \in 1..Len(buffer) : places[i] = i
  BY <1>1
<1>3. ScanInv(base, Len(buffer))
  BY <1>1, ScanInitially
<1> HIDE DEF base, places
<1>4. \A b, i : i \in 1..Len(buffer) /\ ScanInv(b, Len(buffer))
                  => ScanInv(AnswerStep(buffer, b, places[i]), Len(buffer))
  BY <1>2, AnswerStepKeeps
<1>5. ScanInv(Answering!Folded(buffer, 0, base, places), Len(buffer))
  BY <1>1, <1>2, <1>3, <1>4, Answering!FoldKeeps
<1>6. Answering!Folded(buffer, 0, base, places) = Answers(buffer, last)
  BY DEF Answers, AnswerStep, base, places, Answering!Folded, Answering!FoldLeft,
         Answering!MapThenFoldSet, Answering!Max, FoldLeft, MapThenFoldSet, Max
<1> QED BY <1>5, <1>6

\* extractCodexTuiEvents leaves lines in the buffer and yields events.
LEMMA CodexKeeps ==
  ASSUME NEW c, CodexInv(c), NEW lines, AreLines(lines)
  PROVE  LET r == ExtractCodex(c, lines)
         IN CodexInv(r.x) /\ AreEvents(r.events)
<1> DEFINE buffer == LastLines(c.buffer \o lines, BufferLimit)
           cards == Cards(buffer, c.lastCommand)
           answers == Answers(buffer, c.lastAnswer)
           through == IF cards.through > answers.through THEN cards.through ELSE answers.through
           rest == SubSeq(buffer, through + 1, Len(buffer))
           x0 == [c EXCEPT !.buffer = rest, !.lastCommand = cards.last,
                           !.lastAnswer = answers.last]
           r == ExtractCodex(c, lines)
<1>1. AreLines(buffer)
  <2>1. AreLines(c.buffer \o lines)
    BY JoinedLines DEF CodexInv
  <2> QED BY <2>1, LimitsAssumption, LinesKept
<1>2. r.x = x0 /\ r.events = cards.events \o answers.events
  BY DEF ExtractCodex
<1> HIDE DEF buffer, r
<1>3. ScanInv(cards, Len(buffer)) /\ ScanInv(answers, Len(buffer))
  BY <1>1, CardsKeep, AnswersKeep
<1> HIDE DEF cards, answers
<1>4. Len(buffer) \in Nat
  BY <1>1, LenProperties DEF AreLines, IsSequence
<1>5. through + 1 \in Nat \ {0} /\ Len(buffer) \in 0..Len(buffer)
  BY <1>3, <1>4 DEF ScanInv
<1>6. AreLines(rest)
  BY <1>1, <1>5, SomeLines
<1> HIDE DEF rest
<1>7. CodexInv(x0)
  BY <1>6 DEF CodexInv, CodexFields
<1>8. AreEvents(cards.events \o answers.events)
  BY <1>3, JoinedEvents DEF ScanInv
<1> QED BY <1>2, <1>7, <1>8 DEF r

-----------------------------------------------------------------------------
(* The reader.                                                             *)

ReaderInv(x0) ==
  IsReader(x0) /\ AutoInv(x0.auto) /\ HermesInv(x0.hermes) /\ CodexInv(x0.codex)

\* The reader before any output.
LEMMA ReaderInitially ==
  /\ ReaderInv(ExtractInitial)
  /\ ExtractInitial.auto.detected = Nothing
<1> DEFINE r == ExtractInitial
<1>1. r.auto = Undecided /\ r.hermes = HermesInitial /\ r.codex = CodexInitial
      /\ IsReader(r)
  BY DEF ExtractInitial, IsReader, XFields
<1> HIDE DEF r
<1>2. ReaderInv(r)
  BY <1>1, UndecidedIsAuto, HermesInitially, CodexInitially DEF ReaderInv
<1>3. Undecided.detected = Nothing
  BY DEF Undecided
<1> QED BY <1>1, <1>2, <1>3 DEF r

\* resetExtractionState keeps the detector, which is reset apart.
LEMMA ReaderReset ==
  ASSUME NEW x0, ReaderInv(x0)
  PROVE  /\ ReaderInv(ResetExtraction(x0)) /\ ResetExtraction(x0).auto = x0.auto
         /\ ReaderInv([ResetExtraction(x0) EXCEPT !.auto = Undecided])
         /\ [ResetExtraction(x0) EXCEPT !.auto = Undecided].auto = Undecided
<1> DEFINE r == ResetExtraction(x0)
           u == [r EXCEPT !.auto = Undecided]
<1>1. r.auto = x0.auto /\ r.hermes = HermesInitial /\ r.codex = CodexInitial /\ IsReader(r)
  BY DEF ResetExtraction, ReaderInv, IsReader, XFields
<1> HIDE DEF r
<1>2. u.auto = Undecided /\ u.hermes = HermesInitial /\ u.codex = CodexInitial /\ IsReader(u)
  BY <1>1 DEF IsReader, XFields
<1> HIDE DEF u
<1>3. ReaderInv(r) /\ ReaderInv(u)
  BY <1>1, <1>2, UndecidedIsAuto, HermesInitially, CodexInitially DEF ReaderInv
<1> QED BY <1>1, <1>2, <1>3 DEF r, u

\* What the chunk says together is told by its first or its last line, which a
\* chunk that is not empty has.
LEMMA SupervisionEvents ==
  ASSUME NEW lines, AreLines(lines), lines # <<>>
  PROVE  AreEvents(Supervision(lines))
<1> DEFINE says == UNION {lines[i].says : i \in DOMAIN lines}
           line == lines[1]
           last == lines[Len(lines)]
           dialog == IF says \cap {"trust dialog", "permission dialog"} # {}
                     THEN <<EventOf("stdout", "asks", line)>> ELSE <<>>
           menu == IF "select menu" \in says THEN <<EventOf("stdout", "asks", line)>> ELSE <<>>
           failed == IF "failed exit" \in says THEN <<EventOf("error", "plain", line)>> ELSE <<>>
           done == IF "complete" \in last.says THEN <<EventOf("done", "plain", last)>> ELSE <<>>
<1>1. PICK S : lines \in Seq(S)
  BY DEF AreLines, IsSequence
<1>2. Len(lines) \in Nat \ {0}
  BY <1>1, EmptySeq
<1>3. 1 \in 1..Len(lines) /\ Len(lines) \in 1..Len(lines)
  BY <1>2
<1>4. IsLine(line) /\ IsLine(last)
  BY <1>3 DEF AreLines
<1> HIDE DEF line, last
<1>5. /\ AreEvents(<<EventOf("stdout", "asks", line)>>)
      /\ AreEvents(<<EventOf("error", "plain", line)>>)
      /\ AreEvents(<<EventOf("done", "plain", last)>>)
      /\ AreEvents(<<>>)
  BY <1>4, EventOfLine, OneEvent, NoEvents
<1> HIDE DEF says
<1>6. AreEvents(dialog) /\ AreEvents(menu) /\ AreEvents(failed) /\ AreEvents(done)
  BY <1>5
<1>7. Supervision(lines) = dialog \o menu \o failed \o done
  BY DEF Supervision, says, line, last
<1> HIDE DEF dialog, menu, failed, done
<1>8. AreEvents(dialog \o menu)
  BY <1>6, JoinedEvents
<1>9. AreEvents((dialog \o menu) \o failed)
  BY <1>6, <1>8, JoinedEvents
<1>10. AreEvents(((dialog \o menu) \o failed) \o done)
  BY <1>6, <1>9, JoinedEvents
<1> QED BY <1>7, <1>10

\* The search for the approval's command ends at a line number.
LEMMA CommandIsLater ==
  ASSUME NEW lines, AreLines(lines), NEW i \in 1..Len(lines)
  PROVE  CommandAfter(lines, i) \in Nat
<1> DEFINE later == {j \in (i + 1)..Len(lines) : j <= i + 5 /\ "command line" \in lines[j].says}
<1>1. Len(lines) \in Nat
  BY LenProperties DEF AreLines, IsSequence
<1>2. later \subseteq Nat
  <2>1. \A j \in (i + 1)..Len(lines) : j \in Nat
    BY <1>1
  <2> QED BY <2>1
<1>3. CommandAfter(lines, i) = IF later = {} THEN i
                               ELSE CHOOSE j \in later : \A k \in later : j <= k
  BY DEF CommandAfter
<1> HIDE DEF later
<1>4. CASE later = {}
  BY <1>1, <1>3, <1>4
<1>5. CASE later # {}
  <2>1. \E j \in later : \A k \in later : j <= k
    BY <1>2, <1>5, Emitting!LeastNumber
  <2>2. (CHOOSE j \in later : \A k \in later : j <= k) \in later
    BY <2>1
  <2> QED BY <1>2, <1>3, <1>5, <2>2
<1> QED BY <1>4, <1>5

AccFields == {"x", "events", "upto"}

AccInv(acc) ==
  /\ acc = [field \in AccFields |-> acc[field]]
  /\ ReaderInv(acc.x) /\ AreEvents(acc.events) /\ acc.upto \in Nat

\* One line of the loop of extractEvents, whichever source it is read for.
LEMMA ReadLineKeeps ==
  ASSUME NEW acc, AccInv(acc), NEW lines, AreLines(lines), NEW i \in 1..Len(lines),
         NEW source, Mode # "auto" => source # "auto"
  PROVE  AccInv(ReadLine(acc, lines, i, source))
<1> DEFINE line == lines[i]
           resolved == ResolvedSource(acc.x, source)
           says == Preprocessed(line, resolved, acc.x.codex.lastAssistant)
           heard == IF IsAssistantLine(line, resolved)
                    THEN [acc.x EXCEPT !.codex.lastAssistant = line.text] ELSE acc.x
           scored == IF source = "auto"
                     THEN [heard EXCEPT !.auto = Detect(@, line, Threshold, MaxDetectLines)]
                     ELSE heard
           read == [line EXCEPT !.says = says]
           rules == RulesOf(ResolvedSource(scored, source))
           rule == rules[Hit(rules, read)]
           next == IF "would you like" \in says /\ rule.cue = "asks"
                   THEN CommandAfter(lines, i) ELSE i
           tells == [x |-> scored, events |-> Append(acc.events, EventOf(rule.type, rule.cue, read)),
                     upto |-> next]
           shown0 == IF ResolvedSource(scored, source) = "claude" THEN acc.events
                     ELSE Append(acc.events, EventOf("stdout", "plain", read))
           untold == [x |-> scored, upto |-> i, events |-> shown0]
           r == ReadLine(acc, lines, i, source)
<1>0. r = CASE i <= acc.upto -> acc
            [] i > acc.upto /\ says = {} -> [acc EXCEPT !.x = heard, !.upto = i]
            [] i > acc.upto /\ says # {} /\ IsHit(rules, read) -> tells
            [] OTHER -> untold
  BY DEF ReadLine
<1> HIDE DEF r
<1>1. i \in Nat /\ acc.upto \in Nat /\ IsLine(line)
  <2>1. Len(lines) \in Nat
    BY LenProperties DEF AreLines, IsSequence
  <2> QED BY <2>1 DEF AreLines, AccInv
<1>2. ReaderInv(heard)
  <2>1. CASE IsAssistantLine(line, resolved)
    <3> DEFINE c == [acc.x.codex EXCEPT !.lastAssistant = line.text]
               x0 == acc.x
               y == [x0 EXCEPT !.codex = c]
    <3>1. heard = y
      BY <2>1
    <3>2. CodexInv(c)
      BY DEF CodexInv, CodexFields, AccInv, ReaderInv
    <3> HIDE DEF c
    <3>3. ReaderInv(x0)
      BY DEF AccInv
    <3> HIDE DEF x0
    <3>4. IsReader(y) /\ y.auto = x0.auto /\ y.hermes = x0.hermes /\ y.codex = c
      BY <3>3 DEF ReaderInv, IsReader, XFields
    <3> HIDE DEF y, heard
    <3> QED BY <3>1, <3>2, <3>3, <3>4 DEF ReaderInv
  <2>2. CASE ~IsAssistantLine(line, resolved)
    BY <2>2 DEF AccInv
  <2> QED BY <2>1, <2>2
<1> HIDE DEF heard
<1>3. ReaderInv(scored)
  <2>1. CASE source = "auto"
    <3> DEFINE a == Detect(heard.auto, line, Threshold, MaxDetectLines)
               y == [heard EXCEPT !.auto = a]
    <3>1. scored = y
      BY <2>1
    <3>2. AutoInv(a)
      BY <1>2, <2>1, DetectKeeps DEF ReaderInv
    <3> HIDE DEF a
    <3>3. IsReader(y) /\ y.auto = a /\ y.hermes = heard.hermes /\ y.codex = heard.codex
      BY <1>2 DEF ReaderInv, IsReader, XFields
    <3> HIDE DEF y, scored
    <3> QED BY <1>2, <3>1, <3>2, <3>3 DEF ReaderInv
  <2>2. CASE source # "auto"
    BY <1>2, <2>2
  <2> QED BY <2>1, <2>2
<1> HIDE DEF scored
<1>4. IsLine(read)
  <2> HIDE DEF says
  <2> QED BY <1>1 DEF IsLine
<1>5. next \in Nat
  BY <1>1, CommandIsLater
<1> HIDE DEF line, says, read, rules, rule, next
<1>6. AccInv([acc EXCEPT !.x = heard, !.upto = i])
  BY <1>1, <1>2 DEF AccInv, AccFields
<1>7. AccInv(tells)
  <2> DEFINE event == EventOf(rule.type, rule.cue, read)
             events == Append(acc.events, event)
  <2>1. IsEvent(event)
    BY <1>4, EventOfLine
  <2> HIDE DEF event
  <2>2. AreEvents(events)
    BY <2>1, AppendedEvent DEF AccInv
  <2> HIDE DEF events
  <2>3. AccInv([x |-> scored, events |-> events, upto |-> next])
    BY <1>3, <1>5, <2>2 DEF AccInv, AccFields
  <2> QED BY <2>3 DEF events, event
<1>8. AccInv(untold)
  <2> DEFINE event == EventOf("stdout", "plain", read)
  <2>1. IsEvent(event)
    BY <1>4, EventOfLine
  <2> HIDE DEF event
  <2>2. AreEvents(Append(acc.events, event)) /\ AreEvents(acc.events)
    BY <2>1, AppendedEvent DEF AccInv
  <2>3. AreEvents(shown0)
    BY <2>2 DEF event
  <2> HIDE DEF shown0
  <2> QED BY <1>1, <1>3, <2>3 DEF AccInv, AccFields
<1> HIDE DEF tells, untold
<1> DEFINE dropped == [acc EXCEPT !.x = heard, !.upto = i]
<1>9. AccInv(dropped)
  BY <1>6
<1> HIDE DEF dropped
<1>10. r \in {acc, dropped, tells, untold}
  <2>1. CASE i <= acc.upto
    BY <1>0, <1>1, <2>1
  <2>2. CASE i > acc.upto /\ says = {}
    BY <1>0, <1>1, <2>2 DEF dropped
  <2>3. CASE i > acc.upto /\ says # {} /\ IsHit(rules, read)
    BY <1>0, <1>1, <2>3
  <2>4. CASE i > acc.upto /\ says # {} /\ ~IsHit(rules, read)
    BY <1>0, <1>1, <2>4
  <2> QED BY <1>1, <2>1, <2>2, <2>3, <2>4
<1> QED BY <1>7, <1>8, <1>9, <1>10 DEF r

Looping == INSTANCE FoldRule WITH
  Step <- LAMBDA p, q, acc, i : ReadLine(acc, p, i, q),
  Good <- LAMBDA p, q, acc : AccInv(acc)

\* A chunk yields at least one line to read.
LEMMA ChunkLines ==
  ASSUME NEW chunk, IsChunk(chunk)
  PROVE  LET lines == IF chunk.partial = NoLine THEN chunk.lines
                      ELSE Append(chunk.lines, chunk.partial)
         IN AreLines(lines) /\ lines # <<>>
<1>1. CASE chunk.partial = NoLine
  BY <1>1 DEF IsChunk
<1>2. CASE chunk.partial # NoLine
  BY <1>2, OneMoreLine DEF IsChunk
<1> QED BY <1>1, <1>2

\* A chunk leaves the reader in order and yields events.
LEMMA ExtractKeeps ==
  ASSUME NEW x0, ReaderInv(x0), NEW chunk, IsChunk(chunk), NEW source,
         Mode # "auto" => source # "auto"
  PROVE  LET r == Extract(x0, chunk, source)
         IN ReaderInv(r.x) /\ AreEvents(r.events)
<1> DEFINE lines == IF chunk.partial = NoLine THEN chunk.lines
                    ELSE Append(chunk.lines, chunk.partial)
           scanned == PreScan(x0, lines, source)
           resolved == ResolvedSource(scanned, source)
           supervised == Supervision(lines)
           hermes == ExtractHermes(scanned.hermes, chunk)
           codex == IF resolved = "codex" THEN ExtractCodex(scanned.codex, lines)
                    ELSE [x |-> scanned.codex, events |-> <<>>]
           base == [x |-> [scanned EXCEPT !.codex = codex.x], events |-> codex.events, upto |-> 0]
           places == [i \in DOMAIN lines |-> i]
           loop == FoldLeft(LAMBDA acc, i : ReadLine(acc, lines, i, source), base, places)
           r == Extract(x0, chunk, source)
<1>1. AreLines(lines) /\ lines # <<>>
  BY ChunkLines
<1>2. r = CASE resolved = "claude" /\ supervised # <<>> -> [x |-> scanned, events |-> supervised]
            [] resolved = "hermes" -> [x |-> [scanned EXCEPT !.hermes = hermes.h],
                                       events |-> hermes.events]
            [] OTHER -> [x |-> loop.x, events |-> loop.events]
  BY DEF Extract
<1> HIDE DEF r, lines
<1>3. ReaderInv(scanned)
  BY <1>1, PreScanKeeps DEF ReaderInv, AreLines
<1> HIDE DEF scanned
<1>4. AreEvents(supervised)
  BY <1>1, SupervisionEvents
<1>5. HermesInv(hermes.h) /\ AreEvents(hermes.events)
  BY <1>3, HermesKeeps DEF ReaderInv
<1>6. CodexInv(codex.x) /\ AreEvents(codex.events)
  <2>1. CASE resolved = "codex"
    BY <1>1, <1>3, <2>1, CodexKeeps DEF ReaderInv
  <2>2. CASE resolved # "codex"
    BY <1>3, <2>2, NoEvents DEF ReaderInv
  <2> QED BY <2>1, <2>2
<1> HIDE DEF supervised, hermes, codex
<1>7. ASSUME NEW part, HermesInv(part) PROVE ReaderInv([scanned EXCEPT !.hermes = part])
  BY <1>3, <1>7 DEF ReaderInv, IsReader, XFields
<1>8. ASSUME NEW part, CodexInv(part) PROVE ReaderInv([scanned EXCEPT !.codex = part])
  BY <1>3, <1>8 DEF ReaderInv, IsReader, XFields
<1>9. AccInv(loop)
  <2>1. AccInv(base)
    <3> DEFINE y == [scanned EXCEPT !.codex = codex.x]
    <3>1. ReaderInv(y)
      BY <1>6, <1>8
    <3> HIDE DEF y
    <3>2. AccInv([x |-> y, events |-> codex.events, upto |-> 0])
      BY <1>6, <3>1 DEF AccInv, AccFields
    <3> QED BY <3>2 DEF y
  <2> HIDE DEF base
  <2>2. Len(lines) \in Nat /\ DOMAIN lines = 1..Len(lines)
    BY <1>1, LenProperties DEF AreLines, IsSequence
  <2>3. DOMAIN places = 1..Len(lines) /\ \A i \in 1..Len(lines) : places[i] = i
    BY <2>2
  <2> HIDE DEF places
  <2>4. \A acc, i : i \in 1..Len(lines) /\ AccInv(acc)
                      => AccInv(ReadLine(acc, lines, places[i], source))
    BY <1>1, <2>3, ReadLineKeeps
  <2>5. AccInv(Looping!Folded(lines, source, base, places))
    BY <2>1, <2>2, <2>3, <2>4, Looping!FoldKeeps
  <2>6. Looping!Folded(lines, source, base, places) = loop
    BY DEF Looping!Folded, Looping!FoldLeft, Looping!MapThenFoldSet, Looping!Max, FoldLeft,
           MapThenFoldSet, Max
  <2> HIDE DEF loop
  <2> QED BY <2>5, <2>6
<1> HIDE DEF loop
<1>10. ReaderInv(loop.x) /\ AreEvents(loop.events)
  BY <1>9 DEF AccInv
<1> DEFINE hermesX == [scanned EXCEPT !.hermes = hermes.h]
<1>11. ReaderInv(hermesX)
  BY <1>5, <1>7
<1> HIDE DEF hermesX, resolved
<1>12. r \in {[x |-> scanned, events |-> supervised], [x |-> hermesX, events |-> hermes.events],
              [x |-> loop.x, events |-> loop.events]}
  <2>1. CASE resolved = "claude" /\ supervised # <<>>
    BY <1>2, <2>1
  <2>2. CASE resolved = "hermes"
    BY <1>2, <2>2 DEF hermesX
  <2>3. CASE ~(resolved = "claude" /\ supervised # <<>>) /\ resolved # "hermes"
    BY <1>2, <2>3
  <2> QED BY <2>1, <2>2, <2>3
<1> QED BY <1>3, <1>4, <1>5, <1>10, <1>11, <1>12 DEF r

-----------------------------------------------------------------------------
(* What the human types.                                                   *)

SplitInv(acc) ==
  /\ acc = [field \in {"lines", "buffer"} |-> acc[field]]
  /\ IsSequence(acc.lines) /\ acc.buffer \in Keys \cup {Nothing}

\* The step of SplitInput.
SplitStep(acc, key) ==
  CASE key = "erase" -> [lines |-> <<>>, buffer |-> Nothing]
    [] key = "enter" -> [lines |-> Append(acc.lines, acc.buffer), buffer |-> Nothing]
    [] OTHER -> [acc EXCEPT !.buffer = Typed(@, key)]

\* One key: text, the end of a line, or the erasure of all that was typed.
LEMMA SplitStepKeeps ==
  ASSUME NEW acc, SplitInv(acc), NEW key \in Keys
  PROVE  SplitInv(SplitStep(acc, key))
<1>1. IsSequence(<<>>)
  <2>1. <<>> \in Seq({})
    OBVIOUS
  <2> QED BY <2>1 DEF IsSequence
<1>2. CASE key = "erase"
  BY <1>1, <1>2 DEF SplitStep, SplitInv
<1>3. CASE key = "enter"
  <2> DEFINE lines == Append(acc.lines, acc.buffer)
  <2>1. PICK S : acc.lines \in Seq(S)
    BY DEF SplitInv, IsSequence
  <2>2. acc.lines \in Seq(S \cup {acc.buffer}) /\ acc.buffer \in S \cup {acc.buffer}
    BY <2>1
  <2>3. lines \in Seq(S \cup {acc.buffer})
    BY <2>2, AppendProperties
  <2>4. IsSequence(lines)
    BY <2>3 DEF IsSequence
  <2>5. SplitStep(acc, key) = [lines |-> lines, buffer |-> Nothing]
    BY <1>3 DEF SplitStep
  <2> HIDE DEF lines
  <2> QED BY <2>4, <2>5 DEF SplitInv
<1>4. CASE key \notin {"erase", "enter"}
  <2> DEFINE typed == Typed(acc.buffer, key)
  <2>1. typed \in Keys \cup {Nothing}
    BY DEF Typed, SplitInv
  <2>2. SplitStep(acc, key) = [acc EXCEPT !.buffer = typed]
    BY <1>4 DEF SplitStep
  <2> HIDE DEF typed
  <2> QED BY <2>1, <2>2 DEF SplitInv
<1> QED BY <1>2, <1>3, <1>4

Splitting == INSTANCE FoldRule WITH
  Step <- LAMBDA p, q, acc, key : SplitStep(acc, key),
  Good <- LAMBDA p, q, acc : SplitInv(acc)

\* All keys of an input.
LEMMA SplitKeeps ==
  ASSUME NEW buffer \in Keys \cup {Nothing}, NEW keys \in Seq(Keys)
  PROVE  SplitInv(SplitInput(buffer, keys))
<1> DEFINE base == [lines |-> <<>>, buffer |-> buffer]
<1>1. Len(keys) \in Nat /\ DOMAIN keys = 1..Len(keys) /\ \A i \in 1..Len(keys) : keys[i] \in Keys
  BY LenProperties, ElementOfSeq
<1>2. SplitInv(base)
  <2>1. <<>> \in Seq({})
    OBVIOUS
  <2> QED BY <2>1 DEF SplitInv, IsSequence
<1> HIDE DEF base
<1>3. \A acc, i : i \in 1..Len(keys) /\ SplitInv(acc) => SplitInv(SplitStep(acc, keys[i]))
  BY <1>1, SplitStepKeeps
<1>4. SplitInv(Splitting!Folded(0, 0, base, keys))
  BY <1>1, <1>2, <1>3, Splitting!FoldKeeps
<1>5. Splitting!Folded(0, 0, base, keys) = SplitInput(buffer, keys)
  BY DEF SplitInput, SplitStep, base, Splitting!Folded, Splitting!FoldLeft,
         Splitting!MapThenFoldSet, Splitting!Max, FoldLeft, MapThenFoldSet, Max
<1> QED BY <1>4, <1>5

\* Against the context c before the lines were entered.
EnterInv(acc, c) ==
  /\ acc = [field \in {"context", "newTask"} |-> acc[field]]
  /\ IsContext(acc.context) /\ acc.newTask \in BOOLEAN
  /\ acc.context.humanRequired => c.humanRequired
  /\ acc.context.lastSpokenTarget = IF acc.newTask THEN NoTarget ELSE c.lastSpokenTarget

\* A line that is entered answers the wait, begins a new task or means nothing.
LEMMA EnterKeeps ==
  ASSUME NEW c, NEW acc, EnterInv(acc, c), NEW line
  PROVE  EnterInv(Enter(acc, line), c)
<1> DEFINE before == acc.context
<1>0. IsContext(before)
  BY DEF EnterInv
<1>1. CASE line \notin Prompt
  BY <1>1 DEF Enter
<1>2. CASE line \in Prompt /\ acc.context.phase = "waiting"
  <2> DEFINE r == Resumed(before)
             changed == before.phaseBeforeWaiting # "waiting"
  <2>1. IsContext(r) /\ r.humanRequired = FALSE /\ r.lastSpokenTarget = before.lastSpokenTarget
    <3> HIDE DEF before
    <3>1. r = [before EXCEPT !.phase = before.phaseBeforeWaiting, !.previousPhase = "waiting",
                             !.phaseChanged = changed, !.humanRequired = FALSE]
      BY DEF Resumed
    <3>2. before.phaseBeforeWaiting \in Phases \ {"waiting"}
      BY <1>0 DEF IsContext
    <3> HIDE DEF changed, r
    <3> QED BY <1>0, <3>1, <3>2 DEF IsContext, ContextFields
  <2>2. Enter(acc, line) = [acc EXCEPT !.context = r]
    BY <1>2 DEF Enter
  <2> HIDE DEF r
  <2> QED BY <2>1, <2>2 DEF EnterInv
<1>3. CASE line \in Prompt /\ acc.context.phase # "waiting"
  <2> DEFINE r == NewTask(before, line)
  <2>1. IsContext(r) /\ r.humanRequired = FALSE /\ r.lastSpokenTarget = NoTarget
    <3> DEFINE start == ContextInitial
    <3>1. r = [start EXCEPT !.acceptsHumanInput = before.acceptsHumanInput, !.task = line]
      BY DEF NewTask
    <3>2. IsContext(start) /\ start.humanRequired = FALSE /\ start.lastSpokenTarget = NoTarget
      BY InitialIsContext
    <3> HIDE DEF start, r, before
    <3> QED BY <1>3, <3>1, <3>2 DEF IsContext, ContextFields
  <2>2. Enter(acc, line) = [context |-> r, newTask |-> TRUE]
    BY <1>3 DEF Enter
  <2> HIDE DEF r
  <2>3. EnterInv([context |-> r, newTask |-> TRUE], c)
    BY <2>1 DEF EnterInv
  <2> QED BY <2>2, <2>3
<1> QED BY <1>1, <1>2, <1>3

Entering == INSTANCE FoldRule WITH
  Step <- LAMBDA p, q, acc, line : Enter(acc, line),
  Good <- LAMBDA p, q, acc : EnterInv(acc, p)

\* Typing never makes the work wait for a human, and forgets what was
\* announced only with a new task.
LEMMA InputFacts ==
  ASSUME NEW c, IsContext(c), NEW keys \in Seq(Keys)
  PROVE  EnterInv(ObserveInput(c, keys), c)
<1> DEFINE split == SplitInput(c.inputBuffer, keys)
           start == [c EXCEPT !.inputBuffer = split.buffer]
           base == [context |-> start, newTask |-> FALSE]
           entered == FoldLeft(Enter, base, split.lines)
<1>1. SplitInv(split)
  BY SplitKeeps DEF IsContext
<1> HIDE DEF split
<1>2. IsContext(start) /\ start.humanRequired = c.humanRequired
      /\ start.lastSpokenTarget = c.lastSpokenTarget
  BY <1>1 DEF SplitInv, IsContext, ContextFields
<1> HIDE DEF start
<1>3. EnterInv(base, c)
  BY <1>2 DEF EnterInv
<1>4. Len(split.lines) \in Nat /\ DOMAIN split.lines = 1..Len(split.lines)
  BY <1>1, LenProperties DEF SplitInv, IsSequence
<1> HIDE DEF base
<1>5. EnterInv(Entering!Folded(c, 0, base, split.lines), c)
  BY <1>3, <1>4, EnterKeeps, Entering!FoldKeeps
<1>6. Entering!Folded(c, 0, base, split.lines) = entered
  BY DEF Entering!Folded, Entering!FoldLeft, Entering!MapThenFoldSet, Entering!Max, FoldLeft,
         MapThenFoldSet, Max
<1>7. EnterInv([context |-> c, newTask |-> FALSE], c)
  BY DEF EnterInv
<1>8. ObserveInput(c, keys) = IF c.acceptsHumanInput THEN entered
                              ELSE [context |-> c, newTask |-> FALSE]
  BY DEF ObserveInput, base, start, split
<1> HIDE DEF entered
<1> QED BY <1>5, <1>6, <1>7, <1>8

-----------------------------------------------------------------------------
(* The models answer.                                                      *)

\* A model less to wait for leaves who is told unchanged.
LEMMA AnswerKeeps ==
  ASSUME NEW list, AreComments(list), NEW i \in DOMAIN list, NEW a, NEW s
  PROVE  LET r == [list EXCEPT ![i].open = @ \ {a}]
         IN AreComments(r) /\ Len(r) = Len(list) /\ (Asked(list, s) => Asked(r, s))
<1> DEFINE c == list[i]
           open == c.open \ {a}
           less == [c EXCEPT !.open = open]
           r == [list EXCEPT ![i] = less]
<1>1. PICK S : list \in Seq(S)
  BY DEF AreComments, IsSequence
<1>2. list \in Seq(S \cup {less}) /\ less \in S \cup {less} /\ i \in 1..Len(list)
      /\ Len(list) \in Nat /\ DOMAIN list = 1..Len(list)
  BY <1>1, LenProperties
<1>3. IsComment(c)
  BY <1>2 DEF AreComments
<1>4. IsComment(less) /\ less.session = c.session /\ less.asks = c.asks
  <2>1. open \subseteq Adapter
    BY <1>3 DEF IsComment
  <2> HIDE DEF open, c
  <2> QED BY <1>3, <2>1 DEF IsComment, CommentFields
<1> HIDE DEF less
<1>5. r \in Seq(S \cup {less}) /\ Len(r) = Len(list)
  BY <1>2, ExceptSeq
<1>6. \A j \in 1..Len(list) : r[j] = IF j = i THEN less ELSE list[j]
  BY <1>2
<1> HIDE DEF r
<1>7. AreComments(r)
  BY <1>4, <1>5, <1>6 DEF AreComments, IsSequence
<1>8. ASSUME Asked(list, s) PROVE Asked(r, s)
  <2>1. PICK j \in 1..Len(list) : list[j].session = s /\ list[j].asks
    BY <1>8 DEF Asked
  <2>2. r[j].session = s /\ r[j].asks
    BY <1>4, <1>6, <2>1
  <2> QED BY <1>5, <2>1, <2>2 DEF Asked
<1>9. r = [list EXCEPT ![i].open = @ \ {a}]
  BY DEF r, less, open, c
<1> QED BY <1>5, <1>7, <1>8, <1>9

\* A commentary that is over leaves the others as they were.
LEMMA SaidKeeps ==
  ASSUME NEW list, AreComments(list), NEW i \in DOMAIN list, NEW s
  PROVE  LET r == RemoveAt(list, i)
         IN /\ AreComments(r) /\ Len(r) <= Len(list)
            /\ Asked(list, s) => Asked(r, s) \/ (list[i].session = s /\ list[i].asks)
<1> DEFINE first == SubSeq(list, 1, i - 1)
           second == SubSeq(list, i + 1, Len(list))
           r == first \o second
           n == Len(list)
<1>1. PICK S : list \in Seq(S)
  BY DEF AreComments, IsSequence
<1>2. n \in Nat /\ DOMAIN list = 1..n /\ i \in 1..n /\ \A j \in 1..n : list[j] \in S
  BY <1>1, LenProperties, ElementOfSeq
<1> HIDE DEF n
<1>3. /\ 1 \in Int /\ i - 1 \in Int /\ i + 1 \in Int /\ n \in Int /\ (i - 1) - 1 + 1 = i - 1
      /\ n - (i + 1) + 1 = n - i /\ i - 1 \in Nat /\ n - i \in Nat
      /\ \A j \in 1..(i - 1) : j \in 1..n
      /\ \A j \in (i + 1)..n : j \in 1..n
  BY <1>2
<1>4. /\ first \in Seq(S) /\ Len(first) = i - 1
      /\ \A j \in 1..(i - 1) : first[j] = list[j]
  <2>1. \A j \in 1..(i - 1) : list[j] \in S
    BY <1>2, <1>3
  <2>2. /\ first \in Seq(S) /\ Len(first) = IF 1 <= i - 1 THEN (i - 1) - 1 + 1 ELSE 0
        /\ \A j \in 1..((i - 1) - 1 + 1) : first[j] = list[1 + j - 1]
    BY <1>3, <2>1, SubSeqProperties
  <2>3. \A j \in 1..(i - 1) : 1 + j - 1 = j
    OBVIOUS
  <2>4. Len(first) = i - 1
    BY <1>3, <2>2
  <2> HIDE DEF first
  <2> QED BY <1>3, <2>2, <2>3, <2>4
<1>5. /\ second \in Seq(S) /\ Len(second) = n - i
      /\ \A j \in 1..(n - i) : second[j] = list[i + j]
  <2>1. \A j \in (i + 1)..n : list[j] \in S
    BY <1>2, <1>3
  <2>2. /\ second \in Seq(S) /\ Len(second) = IF i + 1 <= n THEN n - (i + 1) + 1 ELSE 0
        /\ \A j \in 1..(n - (i + 1) + 1) : second[j] = list[(i + 1) + j - 1]
    BY <1>3, <2>1, SubSeqProperties DEF n
  <2>3. \A j \in 1..(n - i) : (i + 1) + j - 1 = i + j
    BY <1>2
  <2>4. Len(second) = n - i
    BY <1>2, <1>3, <2>2
  <2> HIDE DEF second
  <2> QED BY <1>3, <2>2, <2>3, <2>4
<1> HIDE DEF first, second
<1>6. /\ r \in Seq(S) /\ Len(r) = (i - 1) + (n - i)
      /\ \A j \in 1..((i - 1) + (n - i)) :
           r[j] = IF j <= i - 1 THEN first[j] ELSE second[j - (i - 1)]
  <2>1. /\ r \in Seq(S) /\ Len(r) = Len(first) + Len(second)
        /\ \A j \in 1..(Len(first) + Len(second)) :
             r[j] = IF j <= Len(first) THEN first[j] ELSE second[j - Len(first)]
    BY <1>4, <1>5, ConcatProperties
  <2> HIDE DEF r
  <2> QED BY <1>4, <1>5, <2>1
<1> HIDE DEF r
<1>7. Len(r) = n - 1
  BY <1>2, <1>6
<1>8. \A j \in 1..(n - 1) : r[j] = IF j < i THEN list[j] ELSE list[j + 1]
  <2> SUFFICES ASSUME NEW j \in 1..(n - 1) PROVE r[j] = IF j < i THEN list[j] ELSE list[j + 1]
    OBVIOUS
  <2>0. j \in 1..((i - 1) + (n - i))
    BY <1>2
  <2>1. CASE j < i
    <3>1. j <= i - 1 /\ j \in 1..(i - 1)
      BY <1>2, <2>1
    <3> QED BY <1>4, <1>6, <2>0, <2>1, <3>1
  <2>2. CASE ~(j < i)
    <3>1. ~(j <= i - 1) /\ j - (i - 1) \in 1..(n - i) /\ i + (j - (i - 1)) = j + 1
      BY <1>2, <2>2
    <3>2. r[j] = second[j - (i - 1)] /\ second[j - (i - 1)] = list[i + (j - (i - 1))]
      BY <1>5, <1>6, <2>0, <3>1
    <3> QED BY <2>2, <3>1, <3>2
  <2> QED BY <2>1, <2>2
<1>9. AreComments(r)
  <2>1. \A j \in 1..(n - 1) : IsComment(list[j]) /\ IsComment(list[j + 1])
    <3>1. \A j \in 1..(n - 1) : j \in 1..n /\ j + 1 \in 1..n
      BY <1>2
    <3> QED BY <3>1 DEF AreComments, n
  <2>2. \A j \in 1..(n - 1) : IsComment(r[j])
    BY <1>8, <2>1
  <2> QED BY <1>6, <1>7, <2>2 DEF AreComments, IsSequence
<1>10. ASSUME Asked(list, s) PROVE Asked(r, s) \/ (list[i].session = s /\ list[i].asks)
  <2>1. PICK j \in 1..n : list[j].session = s /\ list[j].asks
    BY <1>10 DEF Asked, n
  <2>2. CASE j = i
    BY <2>1, <2>2
  <2>3. CASE j < i
    <3>1. j \in 1..(n - 1) /\ r[j] = list[j]
      BY <1>2, <1>8, <2>3
    <3> QED BY <1>7, <2>1, <3>1 DEF Asked
  <2>4. CASE j > i
    <3>1. j - 1 \in 1..(n - 1) /\ ~(j - 1 < i) /\ (j - 1) + 1 = j
      BY <1>2, <2>4
    <3>2. r[j - 1] = list[j]
      BY <1>8, <3>1
    <3> QED BY <1>7, <2>1, <3>1, <3>2 DEF Asked
  <2> QED BY <1>2, <2>2, <2>3, <2>4
<1>11. r = RemoveAt(list, i)
  BY DEF r, first, second, RemoveAt
<1>12. Len(r) <= Len(list)
  BY <1>2, <1>7 DEF n
<1> QED BY <1>9, <1>10, <1>11, <1>12

-----------------------------------------------------------------------------
(* The invariant.                                                          *)

\* What a decision keeps, over the variables it is made of.
Holds(c, errs, g, list, called, said, h, w, s, live) ==
  /\ IsContext(c)
  /\ RowInv(errs, h, w)
  /\ g \in 0..GateInterval
  /\ AreComments(list)
  /\ said \in BOOLEAN
  /\ Telling(c, said, list, s, live)
  /\ c.lastSpokenTarget \in called \cup {NoTarget}

\* The reader is in order, the page is shown what was detected, and a human who
\* is awaited is told while the generation of the input is current.
IInv ==
  /\ ReaderInv(x)
  /\ shown \in Sources \cup {Nothing}
  /\ x.auto.detected # Nothing => shown = x.auto.detected
  /\ Holds(context, errors, gate, comments, named, told, history, warned, generation, session = generation)
  /\ Len(comments) <= MaxPending
  /\ silence \in {"off", "armed", "fired"}
  /\ generation \in 0..MaxSessions /\ session \in 0..generation /\ fed \in 0..MaxChunks

\* As long as the generation of the input is current, both date the same
\* commentaries; otherwise nothing is promised.
LEMMA EitherOrigin ==
  ASSUME NEW c, NEW errs, NEW g, NEW list, NEW called, NEW said, NEW h, NEW w, NEW s, NEW s2
  PROVE  Holds(c, errs, g, list, called, said, h, w, s, s2 = s)
           <=> Holds(c, errs, g, list, called, said, h, w, s2, s2 = s)
<1>1. CASE s2 = s
  BY <1>1
<1>2. CASE s2 # s
  BY <1>2 DEF Holds, Telling
<1> QED BY <1>1, <1>2

\* The variables make up a decision that is in order.
LEMMA DecisionOf ==
  ASSUME NEW c, NEW errs, NEW g, NEW list, NEW called, NEW said, NEW h, NEW w, NEW s, NEW live,
         Holds(c, errs, g, list, called, said, h, w, s, live)
  PROVE  LET d == [context |-> c, errors |-> errs, gate |-> g, comments |-> list,
                   named |-> called, told |-> said, history |-> h, warned |-> w]
         IN DecisionInv(d, s, live)
<1> DEFINE d == [context |-> c, errors |-> errs, gate |-> g, comments |-> list,
                 named |-> called, told |-> said, history |-> h, warned |-> w]
<1>1. /\ d = [field \in DecisionFields |-> d[field]]
      /\ d.context = c /\ d.errors = errs /\ d.gate = g /\ d.comments = list
      /\ d.named = called /\ d.told = said /\ d.history = h /\ d.warned = w
  BY DEF DecisionFields
<1> HIDE DEF d
<1>2. DecisionInv(d, s, live)
  BY <1>1 DEF Holds, DecisionInv
<1> QED BY <1>2 DEF d

\* The variables that a decision in order is written to.
LEMMA BecomesKeeps ==
  ASSUME NEW d, NEW s, NEW live, DecisionInv(d, s, live), Becomes(d)
  PROVE  /\ Holds(context', errors', gate', comments', named', told', history', warned', s, live)
         /\ Len(comments') <= MaxPending
BY DEF Becomes, DecisionInv, Holds

\* The events that no line of output causes.
LEMMA BareIsEvent ==
  ASSUME NEW t, t # "error", NEW outcome
  PROVE  /\ IsEvent(BareEvent(t, outcome))
         /\ IsEvent([BareEvent(t, outcome) EXCEPT !.cue = "silence"])
<1> DEFINE e == BareEvent(t, outcome)
<1>1. IsEvent(e) /\ e.type = t
  BY DEF BareEvent, IsEvent, EventFields
<1> HIDE DEF e
<1>2. IsEvent([e EXCEPT !.cue = "silence"])
  BY <1>1 DEF IsEvent, EventFields
<1> QED BY <1>1, <1>2 DEF e

\* What a terminal prints can be read.
LEMMA InputChunks ==
  ASSUME NEW chunk \in Chunk
  PROVE  IsChunk(chunk)
<1>1. chunk.lines \in Seq(ToSet(chunk.lines))
  BY InputAssumption
<1>2. \A i \in 1..Len(chunk.lines) : chunk.lines[i] \in ToSet(chunk.lines)
  BY <1>1, ElementOfSeq
<1>3. AreLines(chunk.lines)
  BY <1>1, <1>2, InputAssumption DEF AreLines, IsSequence
<1> QED BY <1>3, InputAssumption DEF IsChunk

\* The server before its first input.
LEMMA InitKeeps == Init => IInv
<1> SUFFICES ASSUME Init PROVE IInv
  OBVIOUS
<1>1. ReaderInv(x) /\ x.auto.detected = Nothing
  BY ReaderInitially DEF Init
<1>2. IsSequence(<<>>) /\ Len(<<>>) = 0 /\ AreComments(<<>>)
  <2>1. <<>> \in Seq({}) /\ Len(<<>>) = 0
    BY EmptySeq
  <2> QED BY <2>1 DEF IsSequence, AreComments
<1>3. RowInv(DetectorInitial, <<>>, FALSE)
  BY <1>2, BoundsAssumption DEF RowInv, DetectorInitial, DetectorFields
<1>4. GateInterval \in 0..GateInterval
  BY BoundsAssumption
<1>5. Telling(ContextInitial, FALSE, <<>>, 0, TRUE)
  BY InitialIsContext DEF Telling
<1>6. Holds(context, errors, gate, comments, named, told, history, warned, generation, session = generation)
  BY <1>2, <1>3, <1>4, <1>5, InitialIsContext DEF Init, Holds
<1> QED BY <1>1, <1>2, <1>6, BoundsAssumption DEF Init, IInv

\* setupPTY and setupFileTail: a new session awaits nobody.
LEMMA StartKeeps ==
  ASSUME IInv, NEW cmd \in Command, StartInput(cmd)
  PROVE  IInv'
<1> DEFINE accepts == cmd \in {"codex", "claude", "hermes"}
           c == ResetContext(accepts)
           d == Decision
           start == [d EXCEPT !.context = c, !.gate = GateInterval, !.named = {}, !.told = FALSE]
           e == BareEvent("start", "none")
           s == generation + 1
<1>1. IsContext(c) /\ c.humanRequired = FALSE /\ c.lastSpokenTarget = NoTarget
  BY InitialIsContext
<1>2. /\ d = [field \in DecisionFields |-> d[field]]
      /\ d.errors = errors /\ d.comments = comments /\ d.history = history /\ d.warned = warned
  BY DEF Decision, DecisionFields
<1> HIDE DEF c, d
<1>3. /\ start = [field \in DecisionFields |-> start[field]]
      /\ start.context = c /\ start.errors = errors /\ start.gate = GateInterval
      /\ start.comments = comments /\ start.named = {} /\ start.told = FALSE
      /\ start.history = history /\ start.warned = warned
  BY <1>2 DEF DecisionFields
<1> HIDE DEF start, s
<1>4. /\ RowInv(errors, history, warned) /\ AreComments(comments)
      /\ GateInterval \in 0..GateInterval
  BY BoundsAssumption DEF IInv, Holds
<1>5. DecisionInv(start, s, TRUE)
  BY <1>1, <1>3, <1>4 DEF DecisionInv, Telling
<1>6. e.cue = "plain"
  BY DEF BareEvent
<1> HIDE DEF e
<1>7. DecisionInv(Decide(start, e, TRUE, s), s, TRUE)
  BY <1>5, <1>6, DecideKeeps
<1>8. Becomes(Decide(start, e, TRUE, s)) /\ generation' = s /\ session' = s
  BY DEF StartInput, start, e, s, c, d
<1>9. Holds(context, errors, gate, comments, named, told, history, warned, generation, session = generation)'
      /\ Len(comments') <= MaxPending
  BY <1>7, <1>8, BecomesKeeps DEF Holds, Telling
<1>10. ReaderInv(x') /\ (x'.auto.detected # Nothing => FALSE)
  <2> DEFINE r == ResetExtraction(x)
             u == [r EXCEPT !.auto = Undecided]
  <2>1. ReaderInv(r) /\ r.auto = x.auto /\ ReaderInv(u) /\ u.auto = Undecided
    BY ReaderReset DEF IInv
  <2>2. CASE Mode = "auto"
    <3>1. x' = u
      BY <2>2 DEF StartInput
    <3>2. Undecided.detected = Nothing
      BY DEF Undecided
    <3> QED BY <2>1, <3>1, <3>2
  <2>3. CASE Mode # "auto"
    <3>1. x' = [r EXCEPT !.auto = r.auto]
      BY <2>3 DEF StartInput
    <3> HIDE DEF r
    <3>2. x' = r
      BY <2>1, <3>1 DEF ReaderInv, IsReader, XFields
    <3>3. r.auto.detected = Nothing
      BY <2>1, <2>3 DEF ReaderInv, AutoInv
    <3> QED BY <2>1, <3>2, <3>3
  <2> QED BY <2>2, <2>3
<1>11. shown' \in Sources \cup {Nothing}
  BY DEF StartInput, DetectFromCommand, IInv, Sources
<1>12. generation' \in 0..MaxSessions /\ session' \in 0..generation' /\ fed' \in 0..MaxChunks /\ silence' \in {"off", "armed", "fired"}
  BY BoundsAssumption DEF StartInput, IInv
<1> QED BY <1>9, <1>10, <1>11, <1>12 DEF IInv

\* restartPTY and launchAdHocSession: nothing is promised of an input whose
\* generation is retired.
LEMMA RetireKeeps ==
  ASSUME IInv, Retire
  PROVE  IInv'
<1>1. /\ generation \in Nat /\ session \in 0..generation
      /\ generation' = generation + 1 /\ generation < MaxSessions
      /\ UNCHANGED <<x, shown, decisionVars, silence, session, input, fed>>
  BY BoundsAssumption DEF IInv, Retire
<1>2. session' # generation' /\ session' \in 0..generation' /\ generation' \in 0..MaxSessions
  BY <1>1, BoundsAssumption
<1>3. Holds(context, errors, gate, comments, named, told, history, warned, generation, session = generation)'
  BY <1>1, <1>2 DEF IInv, Holds, Telling, decisionVars
<1> QED BY <1>1, <1>2, <1>3 DEF IInv, decisionVars

\* processInputData: every request in a chunk gets a commentary of its own.
LEMMA OutputKeeps ==
  ASSUME IInv, NEW chunk \in Chunk, Output(chunk)
  PROVE  IInv'
<1> USE DEF origin
<1> DEFINE source == ActiveSource
           read == Extract(x, chunk, source)
           made == EmitEvents(Decision, read.events, session)
<1>1. Mode # "auto" => source # "auto"
  BY DEF ActiveSource
<1>2. IsChunk(chunk)
  BY InputChunks
<1> HIDE DEF source
<1>3. ReaderInv(read.x) /\ AreEvents(read.events)
  BY <1>1, <1>2, ExtractKeeps DEF IInv
<1>4. x' = read.x /\ shown' = ShownAfter(read.x.auto) /\ Becomes(made)
      /\ UNCHANGED origin /\ fed' = fed + 1 /\ fed < MaxChunks /\ silence' = "armed"
  BY DEF Output, source
<1> HIDE DEF read
<1>5. DecisionInv(Decision, session, session = generation)
  BY EitherOrigin, DecisionOf DEF IInv, Decision
<1>6. DecisionInv(made, session, session = generation)
  BY <1>3, <1>5, EventsKeep
<1> HIDE DEF made
<1>7. Holds(context, errors, gate, comments, named, told, history, warned, generation, session = generation)'
      /\ Len(comments') <= MaxPending
  BY <1>4, <1>6, BecomesKeeps, EitherOrigin
<1>8. /\ shown' \in Sources \cup {Nothing}
      /\ x'.auto.detected # Nothing => shown' = x'.auto.detected
  <2>1. AutoInv(read.x.auto)
    BY <1>3 DEF ReaderInv
  <2>2. CASE Mode = "auto"
    BY <1>4, <2>1, <2>2 DEF ShownAfter, AutoInv, IInv
  <2>3. CASE Mode # "auto"
    BY <1>4, <2>1, <2>3 DEF ShownAfter, AutoInv, IInv
  <2> QED BY <2>2, <2>3
<1>9. fed' \in 0..MaxChunks
  BY <1>4, BoundsAssumption DEF IInv
<1> QED BY <1>3, <1>4, <1>7, <1>8, <1>9 DEF IInv

\* onSilence: the work waits, but asks for nobody.
LEMMA SilenceKeeps ==
  ASSUME IInv, FallsSilent
  PROVE  IInv'
<1> DEFINE e == [BareEvent("stdout", "none") EXCEPT !.cue = "silence"]
           made == EmitEvent(Decision, e, generation)
<1>1. IsEvent(e)
  BY BareIsEvent
<1>2. Becomes(made)
  BY DEF FallsSilent
<1> HIDE DEF e
<1>3. DecisionInv(Decision, generation, session = generation)
  BY DecisionOf DEF IInv, Decision
<1>4. DecisionInv(made, generation, session = generation)
  BY <1>1, <1>3, EmitKeeps
<1> HIDE DEF made
<1>5. Holds(context', errors', gate', comments', named', told', history', warned', generation, session = generation)
      /\ Len(comments') <= MaxPending
  BY <1>2, <1>4, BecomesKeeps
<1> QED BY <1>5 DEF FallsSilent, origin, IInv

\* The terminal exits.
LEMMA EndKeeps ==
  ASSUME IInv, NEW outcome, InputEnds(outcome)
  PROVE  IInv'
<1> DEFINE e == BareEvent("done", outcome)
           made == Decide(Decision, e, TRUE, session)
<1>1. e.cue = "plain"
  BY DEF BareEvent
<1>2. Becomes(made)
  BY DEF InputEnds
<1> HIDE DEF e
<1>3. DecisionInv(Decision, session, session = generation)
  BY EitherOrigin, DecisionOf DEF IInv, Decision
<1>4. DecisionInv(made, session, session = generation)
  BY <1>1, <1>3, DecideKeeps
<1> HIDE DEF made
<1>5. Holds(context', errors', gate', comments', named', told', history', warned', session, session = generation)
      /\ Len(comments') <= MaxPending
  BY <1>2, <1>4, BecomesKeeps
<1>6. Holds(context, errors, gate, comments, named, told, history, warned, generation, session = generation)'
  BY <1>5, EitherOrigin DEF InputEnds, origin
<1> QED BY <1>5, <1>6 DEF InputEnds, origin, IInv

\* The tail reports an error, which is never commented on.
LEMMA TailFailureKeeps ==
  ASSUME IInv, TailFails
  PROVE  IInv'
<1> DEFINE e == BareEvent("error", "none")
           made == Decide(Decision, e, FALSE, session)
<1>1. e.cue = "plain"
  BY DEF BareEvent
<1>2. Becomes(made)
  BY DEF TailFails
<1> HIDE DEF e
<1>3. DecisionInv(Decision, session, session = generation)
  BY EitherOrigin, DecisionOf DEF IInv, Decision
<1>4. DecisionInv(made, session, session = generation)
  BY <1>1, <1>3, DecideKeeps
<1> HIDE DEF made
<1>5. Holds(context', errors', gate', comments', named', told', history', warned', session, session = generation)
      /\ Len(comments') <= MaxPending
  BY <1>2, <1>4, BecomesKeeps
<1>6. fed' \in 0..MaxChunks
  BY BoundsAssumption DEF TailFails, IInv
<1>7. Holds(context, errors, gate, comments, named, told, history, warned, generation, session = generation)'
  BY <1>5, EitherOrigin DEF TailFails, origin
<1> QED BY <1>5, <1>6, <1>7 DEF TailFails, origin, IInv

\* writeInput: an answer ends the wait, a new task forgets what was announced.
LEMMA TypingKeeps ==
  ASSUME IInv, NEW keys \in Input, WriteInput(keys)
  PROVE  IInv'
<1> USE DEF origin
<1> DEFINE seen == ObserveInput(context, keys)
<1>1. keys \in Seq(Keys)
  BY InputAssumption
<1>2. EnterInv(seen, context)
  BY <1>1, InputFacts DEF IInv, Holds
<1>3. /\ context' = seen.context
      /\ seen.newTask => /\ gate' = GateInterval /\ errors' = DetectorInitial
                         /\ named' = {} /\ history' = Recent(Append(history, Gap))
      /\ ~seen.newTask => UNCHANGED <<gate, errors, named, history>>
      /\ UNCHANGED <<x, shown, silence, comments, origin, input, told, warned>>
      /\ fed' = fed + 1 /\ fed < MaxChunks
  BY DEF WriteInput
<1> HIDE DEF seen
<1>4. RowInv(errors', history', warned')
  <2>1. CASE seen.newTask
    <3>1. LET r == Recent(Append(history, Gap)) IN IsSequence(r) /\ r # <<>> /\ r[Len(r)] = Gap
      BY RecentFacts DEF IInv, Holds, RowInv
    <3>2. RowInv(DetectorInitial, Recent(Append(history, Gap)), warned)
      BY <3>1, BoundsAssumption DEF RowInv, DetectorInitial, DetectorFields
    <3> QED BY <1>3, <2>1, <3>2
  <2>2. CASE ~seen.newTask
    BY <1>3, <2>2 DEF IInv, Holds
  <2> QED BY <2>1, <2>2
<1>5. gate' \in 0..GateInterval
  BY <1>3, BoundsAssumption DEF IInv, Holds
<1>6. IsContext(context') /\ (context'.humanRequired => context.humanRequired)
  BY <1>2, <1>3 DEF EnterInv
<1>7. Telling(context', told', comments', generation', (session = generation)')
  BY <1>3, <1>6 DEF Telling, IInv, Holds
<1>8. context'.lastSpokenTarget \in named' \cup {NoTarget}
  <2>1. CASE seen.newTask
    BY <1>2, <1>3, <2>1 DEF EnterInv
  <2>2. CASE ~seen.newTask
    BY <1>2, <1>3, <2>2 DEF EnterInv, IInv, Holds
  <2> QED BY <2>1, <2>2
<1>9. Holds(context, errors, gate, comments, named, told, history, warned, generation, session = generation)'
  BY <1>3, <1>4, <1>5, <1>6, <1>7, <1>8 DEF IInv, Holds
<1>10. fed' \in 0..MaxChunks
  BY <1>3, BoundsAssumption DEF IInv
<1> QED BY <1>3, <1>9, <1>10 DEF IInv

\* Time passes: a row of errors that grows too old has a gap behind it.
LEMMA TickKeeps ==
  ASSUME IInv, Tick
  PROVE  IInv'
<1> USE DEF origin
<1>0. ErrorWindow \in Nat /\ GateInterval \in Nat /\ ProgressInterval \in Nat
  BY BoundsAssumption
<1>1. gate' \in 0..GateInterval
  BY <1>0 DEF Tick, Older, AtMost, IInv, Holds
<1>2. IsContext(context') /\ context'.humanRequired = context.humanRequired
      /\ context'.lastSpokenTarget = context.lastSpokenTarget
  <2> DEFINE age == Older(context.progressAge, ProgressInterval)
  <2>1. IsContext(context)
    BY DEF IInv, Holds
  <2>2. age \in 0..ProgressInterval
    BY <1>0, <2>1 DEF IsContext, Older, AtMost
  <2>3. context' = [context EXCEPT !.progressAge = age]
    BY DEF Tick
  <2> HIDE DEF age
  <2> QED BY <2>1, <2>2, <2>3 DEF IsContext, ContextFields
<1>3. RowInv(errors', history', warned')
  <2> DEFINE age == Older(errors.age, ErrorWindow + 1)
             d == [errors EXCEPT !.age = age]
             gone == Recent(Append(history, Gap))
  <2>1. RowInv(errors, history, warned)
    BY DEF IInv, Holds
  <2>2. errors.age \in 0..(ErrorWindow + 1) /\ age \in 0..(ErrorWindow + 1)
        /\ (errors.age < ErrorWindow => age <= ErrorWindow)
        /\ (errors.age >= ErrorWindow => age = ErrorWindow + 1)
    BY <1>0, <2>1 DEF RowInv, Older, AtMost
  <2>3. errors' = d /\ warned' = warned
        /\ history' = IF errors.age = ErrorWindow THEN gone ELSE history
    BY DEF Tick
  <2> HIDE DEF age
  <2>4. /\ d = [field \in DetectorFields |-> d[field]]
        /\ d.alerted = errors.alerted /\ d.count = errors.count
        /\ d.signature = errors.signature /\ d.age = age
    BY <2>1 DEF RowInv, DetectorFields
  <2> HIDE DEF d
  <2>5. CASE errors.age = ErrorWindow
    <3>1. IsSequence(gone) /\ gone # <<>> /\ gone[Len(gone)] = Gap
      BY <2>1, RecentFacts DEF RowInv
    <3> HIDE DEF gone
    <3>2. age = ErrorWindow + 1
      BY <1>0, <2>2, <2>5
    <3>3. RowInv(d, gone, warned)
      BY <2>1, <2>2, <2>4, <3>1, <3>2 DEF RowInv
    <3> QED BY <2>3, <2>5, <3>3
  <2>6. CASE errors.age # ErrorWindow
    <3>1. history = <<>> \/ history[Len(history)] = Gap => errors.age >= ErrorWindow
      BY <1>0, <2>1 DEF RowInv
    <3>2. history # <<>> /\ history[Len(history)] # Gap => errors.age < ErrorWindow
      BY <1>0, <2>1, <2>2, <2>6 DEF RowInv
    <3>3. RowInv(d, history, warned)
      BY <2>1, <2>2, <2>4, <3>1, <3>2 DEF RowInv
    <3> QED BY <2>3, <2>6, <3>3
  <2> QED BY <2>5, <2>6
<1>4. Holds(context, errors, gate, comments, named, told, history, warned, generation, session = generation)'
  <2>1. UNCHANGED <<comments, origin, named, told>>
    BY DEF Tick
  <2> QED BY <1>1, <1>2, <1>3, <2>1 DEF IInv, Holds, Telling
<1> QED BY <1>4 DEF Tick, IInv

\* A model answers or fails.
LEMMA AdapterKeeps ==
  ASSUME IInv, NEW i \in DOMAIN comments, AdapterAnswers(i)
  PROVE  IInv'
<1> USE DEF origin
<1>1. PICK a : comments' = [comments EXCEPT ![i].open = @ \ {a}]
  BY DEF AdapterAnswers
<1>2. UNCHANGED <<x, shown, context, errors, gate, silence, origin, input, fed,
                  named, told, history, warned>>
  BY DEF AdapterAnswers
<1>3. AreComments(comments') /\ Len(comments') = Len(comments)
      /\ (Asked(comments, generation) => Asked(comments', generation))
  BY <1>1, AnswerKeeps DEF IInv, Holds
<1>4. Holds(context, errors, gate, comments, named, told, history, warned, generation, session = generation)'
  BY <1>2, <1>3 DEF IInv, Holds, Telling
<1> QED BY <1>2, <1>3, <1>4 DEF IInv

\* A commentary is through: if it answered the newest request, it was heard.
LEMMA SaysKeeps ==
  ASSUME IInv, NEW i \in DOMAIN comments, Says(i)
  PROVE  IInv'
<1> USE DEF origin
<1> DEFINE heard == comments[i].session = generation /\ comments[i].asks
<1>1. comments' = RemoveAt(comments, i) /\ told' = (told \/ heard)
      /\ UNCHANGED <<x, shown, context, errors, gate, silence, origin, input, fed,
                     named, history, warned>>
  BY DEF Says
<1>2. /\ AreComments(comments') /\ Len(comments') <= Len(comments)
      /\ Asked(comments, generation) => Asked(comments', generation) \/ heard
  BY <1>1, SaidKeeps DEF IInv, Holds
<1>3. heard \in BOOLEAN /\ told \in BOOLEAN
  <2>1. AreComments(comments) /\ told \in BOOLEAN
    BY DEF IInv, Holds
  <2>2. DOMAIN comments = 1..Len(comments)
    BY <2>1, LenProperties DEF AreComments, IsSequence
  <2>3. comments[i].asks \in BOOLEAN
    BY <2>1, <2>2 DEF AreComments, IsComment
  <2> QED BY <2>1, <2>3
<1> HIDE DEF heard
<1>4. told' \in BOOLEAN /\ Telling(context', told', comments', generation', (session = generation)')
  BY <1>1, <1>2, <1>3 DEF IInv, Holds, Telling
<1>5. Holds(context, errors, gate, comments, named, told, history, warned, generation, session = generation)'
  BY <1>1, <1>2, <1>4 DEF IInv, Holds
<1>6. Len(comments') <= MaxPending
  <2>1. Len(comments) \in Nat /\ Len(comments') \in Nat /\ Len(comments) <= MaxPending
    BY <1>2, LenProperties DEF IInv, Holds, AreComments, IsSequence
  <2> QED BY <1>2, <2>1, BoundsAssumption
<1> QED BY <1>1, <1>5, <1>6 DEF IInv

\* Every step of the server keeps the invariant.
LEMMA NextKeeps == IInv /\ [Next]_vars => IInv'
<1> SUFFICES ASSUME IInv, [Next]_vars PROVE IInv'
  OBVIOUS
<1>1. CASE UNCHANGED vars
  BY <1>1 DEF vars, decisionVars, origin, IInv
<1>2. ASSUME NEW cmd \in Command, StartInput(cmd) PROVE IInv'
  BY <1>2, StartKeeps
<1>r. CASE Retire
  BY <1>r, RetireKeeps
<1>3. ASSUME NEW chunk \in Chunk, Output(chunk) PROVE IInv'
  BY <1>3, OutputKeeps
<1>4. CASE FallsSilent
  BY <1>4, SilenceKeeps
<1>5. ASSUME NEW keys \in Input, WriteInput(keys) PROVE IInv'
  BY <1>5, TypingKeeps
<1>6. ASSUME NEW outcome \in {"none", "success", "failure"}, InputEnds(outcome) PROVE IInv'
  BY <1>6, EndKeeps
<1>7. CASE TailFails
  BY <1>7, TailFailureKeeps
<1>8. CASE Tick
  BY <1>8, TickKeeps
<1>9. ASSUME NEW i \in DOMAIN comments,
             AdapterAnswers(i) \/ CommentSettles(i) \/ CommentTimesOut(i)
      PROVE  IInv'
  <2>1. CASE AdapterAnswers(i)
    BY <2>1, AdapterKeeps
  <2>2. CASE CommentSettles(i) \/ CommentTimesOut(i)
    <3>1. Says(i)
      BY <2>2 DEF CommentSettles, CommentTimesOut
    <3> QED BY <3>1, SaysKeeps
  <2> QED BY <1>9, <2>1, <2>2
<1> QED BY <1>1, <1>2, <1>r, <1>3, <1>4, <1>5, <1>6, <1>7, <1>8, <1>9 DEF Next

\* The inductive invariant holds in every reachable state.
THEOREM Inductive == Spec => []IInv
BY InitKeeps, NextKeeps, PTL DEF Spec

-----------------------------------------------------------------------------
(* What the runs check.                                                    *)

\* The invariant implies what the runs check.
LEMMA InvariantGives == IInv => PipelineInv /\ HumanIsBeingTold /\ AnnouncedWasNamed
<1> SUFFICES ASSUME IInv PROVE PipelineInv /\ HumanIsBeingTold /\ AnnouncedWasNamed
  OBVIOUS
<1>1. /\ ReaderInv(x) /\ AutoInv(x.auto) /\ HermesInv(x.hermes) /\ IsContext(context)
      /\ RowInv(errors, history, warned) /\ AreComments(comments)
  BY DEF IInv, ReaderInv, Holds
<1>2. DOMAIN comments = 1..Len(comments)
  BY <1>1, LenProperties DEF AreComments, IsSequence
<1>3. TypeOK
  <2>1. \A i \in DOMAIN comments : comments[i].open \subseteq Adapter
    BY <1>1, <1>2 DEF AreComments, IsComment
  <2>2. errors.count \in 0..ErrorThreshold /\ errors.age \in 0..(ErrorWindow + 1)
    BY <1>1 DEF RowInv
  <2>3. x.auto.detected \in Sources \cup {Nothing} /\ x.auto.seen \in 0..MaxDetectLines
    BY <1>1 DEF AutoInv
  <2>4. /\ context.phase \in Phases /\ context.task \in Prompt \cup {NoTask}
        /\ context.sequence \in 0..2 /\ context.progressAge \in 0..ProgressInterval
    BY <1>1 DEF IsContext
  <2> QED BY <2>1, <2>2, <2>3, <2>4 DEF TypeOK, IInv, Holds
<1>4. WaitingHasAWayOut
  <2>1. context.phaseBeforeWaiting # "waiting" /\ (context.humanRequired => context.phase = "waiting")
    BY <1>1 DEF IsContext
  <2>2. /\ ~(x.hermes.streaming /\ x.hermes.waitingForInput)
        /\ Len(x.hermes.seenKeys) <= SeenKeyLimit /\ IsInjective(x.hermes.seenKeys)
    BY <1>1 DEF HermesInv
  <2> QED BY <2>1, <2>2 DEF WaitingHasAWayOut, IInv
<1>5. ReportedOncePerRow
  <2>1. ErrorThreshold \in Nat \ {0} /\ ErrorThreshold + 1 \in Nat \ {0}
    BY BoundsAssumption
  <2>2. IsSequence(history)
    BY <1>1 DEF RowInv
  <2>3. /\ Same(history, ErrorThreshold) <=> Row(history, ErrorThreshold)
        /\ Same(history, ErrorThreshold + 1) <=> Row(history, ErrorThreshold + 1)
    BY <2>1, <2>2, SameIsRow
  <2>4. history # <<>> /\ history[Len(history)] # Gap =>
          (warned <=> Row(history, ErrorThreshold) /\ ~Row(history, ErrorThreshold + 1))
    BY <1>1 DEF RowInv
  <2>5. Last(history) = history[Len(history)]
    BY DEF Last
  <2> QED BY <2>3, <2>4, <2>5 DEF ReportedOncePerRow
<1>6. HumanIsBeingTold
  BY <1>2 DEF HumanIsBeingTold, IInv, Holds, Telling, Asked
<1>7. AnnouncedWasNamed
  BY DEF AnnouncedWasNamed, IInv, Holds
<1> QED BY <1>3, <1>4, <1>5, <1>6, <1>7 DEF PipelineInv

\* PipelineInv: over every output and every input, a wait has a way out, Hermes is
\* never waiting and streaming at once, no line is remembered twice or beyond the
\* limit, the page is shown the source that was detected, and a repeated error is
\* reported once for a row (index.ts, session-context.ts, hermes.ts,
\* repeated-error-detector.ts).
THEOREM InStep == Spec => []PipelineInv
BY Inductive, InvariantGives, PTL

\* HumanIsBeingTold: while the session waits for the human, the listener has heard
\* the newest request or a commentary on it is in the making, whatever the gate
\* held back and whatever was asked before (emitEvent, broadcastIfCurrentGeneration),
\* as long as no restart or launch has retired the generation of the input that
\* goes on (restartPTY).
THEOREM HumanTold == Spec => []HumanIsBeingTold
BY Inductive, InvariantGives, PTL

\* AnnouncedWasNamed: a file counts as announced only when a commentary of this
\* task was made to name it (observeEvent and its commentaryEligible).
THEOREM TargetsNamed == Spec => []AnnouncedWasNamed
BY Inductive, InvariantGives, PTL
=============================================================================
