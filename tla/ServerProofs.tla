---------------------------- MODULE ServerProofs ----------------------------
(***************************************************************************)
(* Proofs about the server's session runtime and about the parts around    *)
(* it: the profile store that tells it what to launch, the file tail that  *)
(* is its input when a log is followed, and the history of sessions on     *)
(* disk.  They hold for every set of profiles, clients and callers, every  *)
(* configuration of the server, any number of sessions, lines and records, *)
(* any sizes and limits, and any number of failing disk calls and crashes. *)
(***************************************************************************)
EXTENDS SessionRuntime, ProfileStore, FileTail, HistoryStore, FiniteSetTheorems, TLAPS

-----------------------------------------------------------------------------
(* The session runtime.                                                    *)

\* One named disjunct of the next-state relation.
Step ==
  \/ ResolveLookup
  \/ Boot
  \/ RunImmediate
  \/ \E p \in Request, force \in BOOLEAN : RequestRestart(p, force)
  \/ LaunchRejected
  \/ LaunchSession
  \/ PtyData
  \/ SilenceFires
  \/ \E s \in watchers : FileChange(s)
  \/ \E s \in reads : FileData(s)
  \/ \E s \in procs : OtherPtyExit(s)
  \/ \E s \in procs : CurrentPtyExit(s)
  \/ \E c \in comments : CommentSettles(c)
  \/ \E c \in Client : Connect(c)
  \/ \E c \in Client : Greet(c)
  \/ \E c \in Client : Disconnect(c)
  \/ Signal
  \/ \E s \in exitTimers : ExitTimer(s)
  \/ ProcessExit

LEMMA NextIsStep == Next => Step
  BY DEF Next, Turn, OtherCallback, Step

-----------------------------------------------------------------------------
(* Types.                                                                  *)

LEMMA BufferTypes ==
  ASSUME NEW b \in StartBuffer, NEW g \in Nat, NEW n \in BOOLEAN
  PROVE  /\ Invalidated(b) \in StartBuffer
         /\ Begun(b, g, n) \in StartBuffer
         /\ WithCommentary(b, g) \in StartBuffer
         /\ Consumed(b) \in StartBuffer
  BY DEF StartBuffer, Invalidated, Begun, WithCommentary, Consumed, NoGeneration

LEMMA SayType ==
  ASSUME NEW s \in Nat, NEW g \in Nat, NEW k \in CommentKinds
  PROVE  Say(s, g, k) \in Comment
  BY DEF Say, Comment

\* The variables a setup assigns, typed.
SetupTypes ==
  /\ lifecycle \in Lifecycles
  /\ generation \in Nat /\ latest \in Nat
  /\ ptyCurrent \in Nat /\ procs \subseteq Nat /\ killed \subseteq Nat
  /\ fileTail \in Nat /\ watchers \subseteq Nat
  /\ silence \in {"off", "armed", "fired"}
  /\ comments \subseteq Comment
  /\ initialStart \in StartBuffer

LEMMA SetupTyped ==
  ASSUME TypeOK, NEW s \in Nat, NEW b \in StartBuffer,
         \/ PtyStarted(s, b) \/ InputLost(s, b)
         \/ TailStarted(s) \/ TailFailed(s)
  PROVE  SetupTypes'
  <1> USE DEF TypeOK, SetupTypes, OldPtyKilled, OtherWatchers, SilenceStarted,
              SilenceStopped, Lifecycles, NoSession
  <1>b. (open = {}) \in BOOLEAN
    OBVIOUS
  <1>1. CASE PtyStarted(s, b)
    <2>1. Begun(b, s, open = {}) \in StartBuffer
      BY <1>b, BufferTypes
    <2>2. Say(s, s, IF Buffers(b, open = {}) THEN "first" ELSE "start") \in Comment
      BY SayType DEF CommentKinds
    <2>3. QED
      BY <1>1, <2>1, <2>2 DEF PtyStarted
  <1>2. CASE InputLost(s, b)
    BY <1>2 DEF InputLost
  <1>3. CASE TailStarted(s)
    <2>1. Invalidated(initialStart) \in StartBuffer
      BY BufferTypes
    <2>2. /\ Say(s, s, "start") \in Comment
          /\ \A lines \in FirstLines(s) : lines \subseteq Comment
      BY SayType DEF FirstLines, CommentKinds
    <2>3. QED
      BY <1>3, <2>1, <2>2 DEF TailStarted
  <1>4. CASE TailFailed(s)
    <2>1. Invalidated(initialStart) \in StartBuffer
      BY BufferTypes
    <2>2. \A lines \in FirstLines(s) : lines \subseteq Comment
      BY SayType DEF FirstLines, CommentKinds
    <2>3. QED
      BY <1>4, <2>1, <2>2 DEF TailFailed
  <1>5. QED
    BY <1>1, <1>2, <1>3, <1>4

LEMMA AnsweredTyped ==
  ASSUME answer \in Answers, NEW p, NEW how \in Answers, Answered(p, how)
  PROVE  answer' \in Answers
  BY DEF Answered

LEMMA SwitchTyped ==
  ASSUME TypeOK, NEW p \in Request, NEW s \in Nat, NEW b \in StartBuffer,
         SwitchToPty(p, s, b) \/ SwitchToFile(p, s)
  PROVE  /\ SetupTypes'
         /\ runningProfile' \in Request
         /\ answer' \in Answers
         /\ nodePty' \in {"unknown", "loaded", "broken"}
         /\ exited' \in BOOLEAN
  <1> USE DEF TypeOK
  <1>a. Env \in Request /\ s + 1 \in Nat
    BY DEF Request
  <1>b. \A how \in {"run", "failed"} : Answered(p, how) => answer' \in Answers
    BY AnsweredTyped DEF Answers
  <1>1. CASE SwitchToPty(p, s, b)
    <2>1. CASE Spawns /\ PtyStarted(s, b) /\ runningProfile' = p
               /\ Answered(p, "run") /\ UNCHANGED exited
      BY <2>1, <1>b, SetupTyped DEF Spawns
    <2>2. CASE /\ SpawnThrows /\ InputLost(s, b)
               /\ Answered(p, "failed")
               /\ UNCHANGED <<runningProfile, exited>>
      BY <2>2, <1>a, <1>b, SetupTyped DEF SpawnThrows
    <2>3. CASE /\ LoadFails /\ FallBack(s, b)
               /\ Answered(p, "failed")
               /\ UNCHANGED runningProfile
      BY <2>3, <1>a, <1>b, SetupTyped DEF LoadFails, FallBack
    <2>4. QED
      BY <1>1, <2>1, <2>2, <2>3 DEF SwitchToPty
  <1>2. CASE SwitchToFile(p, s)
    BY <1>2, <1>a, <1>b, SetupTyped DEF SwitchToFile
  <1>3. QED
    BY <1>1, <1>2

LEMMA RestartTyped ==
  ASSUME TypeOK, NEW p \in Request, NEW force \in BOOLEAN, RestartPTY(p, force),
         immediates' \in Seq(Request), wanted' \in Request \cup {AdHoc}
  PROVE  TypeOK'
  <1> USE DEF TypeOK
  <1>a. /\ Invalidated(initialStart) \in StartBuffer
        /\ generation + 1 \in Nat /\ generation + 2 \in Nat
    BY BufferTypes
  <1>b. \A how \in {"open", "skipped"} : Answered(p, how) => answer' \in Answers
    BY AnsweredTyped DEF Answers
  <1>1. CASE QueueRestart(p)
    <2>1. answer' \in Answers
      BY <1>1, <1>b DEF QueueRestart, Answers
    <2>2. QED
      BY <1>1, <1>a, <2>1 DEF QueueRestart, RestartPTY, inputVars, clientVars, exitVars
  <1>2. CASE SkipRestart(p, force)
    BY <1>2, <1>a, <1>b DEF SkipRestart, RestartPTY, inputVars, clientVars, exitVars
  <1>3. CASE BeginLookup(p, force)
    BY <1>3, <1>a, <1>b
    DEF BeginLookup, RestartPTY, inputVars, clientVars, exitVars, Lifecycles
  <1>4. CASE RestartEnv(p, force)
    <2>1. SwitchToPty(p, generation + 2, Invalidated(initialStart))
          \/ SwitchToFile(p, generation + 2)
      BY <1>4 DEF RestartEnv
    <2>2. /\ SetupTypes'
          /\ runningProfile' \in Request
          /\ answer' \in Answers
          /\ nodePty' \in {"unknown", "loaded", "broken"}
          /\ exited' \in BOOLEAN
      BY <2>1, <1>a, SwitchTyped
    <2>3. QED
      BY <1>4, <2>2 DEF RestartEnv, RestartPTY, SetupTypes, clientVars, exitVars
  <1>5. QED
    BY <1>1, <1>2, <1>3, <1>4 DEF RestartPTY

LEMMA FinishTyped ==
  ASSUME TypeOK, Finish
  PROVE  /\ inFlight' \in Profile \cup {None}
         /\ queuedProfile' \in Request \cup {None}
         /\ immediates' \in Seq(Request)
  <1>1. CASE queuedProfile = None
    BY <1>1 DEF TypeOK, Finish
  <1>2. CASE queuedProfile # None
    BY <1>2 DEF TypeOK, Finish
  <1>3. QED
    BY <1>1, <1>2

\* The names that the steps not concerned with switching leave alone.
LEMMA StepTyped == ASSUME TypeOK, Step PROVE TypeOK'
  <1> USE DEF TypeOK
  <1>a. Env \in Request /\ Profile \subseteq Request
    BY DEF Request
  <1>b. /\ Invalidated(initialStart) \in StartBuffer
        /\ generation + 1 \in Nat /\ generation + 2 \in Nat
    BY BufferTypes
  <1>1. CASE ResolveLookup
    <2> USE <1>1 DEF ResolveLookup, LookupSettles
    <2>1. inFlight \in Request
      BY <1>a
    <2>2. /\ inFlight' \in Profile \cup {None}
          /\ queuedProfile' \in Request \cup {None}
          /\ immediates' \in Seq(Request)
      BY FinishTyped
    <2>3. CASE /\ Answered(inFlight, "failed")
               /\ lifecycle' \in {lifecycle, "failed"}
               /\ UNCHANGED <<inputVars, generation, latest,
                              runningProfile, comments, initialStart, exited>>
      <3>1. answer' \in Answers
        BY <2>3, AnsweredTyped DEF Answers
      <3>2. QED
        BY <2>1, <2>2, <2>3, <3>1 DEF inputVars, clientVars, exitVars, Lifecycles
    <2>4. CASE SwitchToPty(inFlight, generation + 1, initialStart)
               \/ SwitchToFile(inFlight, generation + 1)
      <3>1. /\ SetupTypes'
            /\ runningProfile' \in Request
            /\ answer' \in Answers
            /\ nodePty' \in {"unknown", "loaded", "broken"}
            /\ exited' \in BOOLEAN
        BY <2>1, <2>4, <1>b, SwitchTyped
      <3>2. QED
        BY <2>2, <3>1 DEF SetupTypes, clientVars, exitVars
    <2>5. QED
      BY <2>3, <2>4
  <1>2. CASE Boot
    <2>1. SetupTypes' /\ nodePty' \in {"unknown", "loaded", "broken"}
          /\ exited' \in BOOLEAN
      <3>1. CASE EnvFileMode
        <4>1. CASE NoInputFile
          BY <1>2, <3>1, <4>1 DEF Boot, NoInputFile, SetupTypes, Lifecycles
        <4>2. CASE /\ \/ TailStarted(generation + 1)
                      \/ TailFailed(generation + 1)
                   /\ exited' = exited \/ exited' = TRUE
          BY <1>2, <3>1, <4>2, <1>a, <1>b, SetupTyped DEF Boot
        <4>3. QED
          BY <1>2, <3>1, <4>1, <4>2 DEF Boot
      <3>2. CASE ~EnvFileMode
        <4> DEFINE s == generation + 1
        <4>1. /\ \/ PtyStarted(s, initialStart) \/ InputLost(s, initialStart)
                 \/ TailStarted(s + 1) \/ TailFailed(s + 1)
              /\ nodePty' \in {"loaded", "broken"}
              /\ exited' = exited \/ exited' = TRUE
          BY <1>2, <3>2 DEF Boot, FallBack, Spawns, SpawnThrows, LoadFails
        <4>2. s \in Nat /\ s + 1 \in Nat
          OBVIOUS
        <4> HIDE DEF s
        <4>3. SetupTypes'
          BY <4>1, <4>2, <1>a, SetupTyped
        <4>4. QED
          BY <4>1, <4>3
      <3>3. QED
        BY <3>1, <3>2
    <2>2. QED
      BY <1>2, <2>1 DEF Boot, SetupTypes, clientVars, userVars, exitVars, restartVars
  <1>3. CASE RunImmediate
    <2>1. Head(immediates) \in Request /\ Tail(immediates) \in Seq(Request)
      BY <1>3 DEF RunImmediate
    <2>2. QED
      BY <1>3, <2>1, RestartTyped DEF RunImmediate
  <1>4. CASE \E p \in Request, force \in BOOLEAN : RequestRestart(p, force)
    BY <1>4, RestartTyped DEF RequestRestart, Asks
  <1>5. CASE LaunchRejected
    BY <1>5, <1>b
    DEF LaunchRejected, Launches, Asks, inputVars, restartVars, clientVars, endVars,
        exitVars, Answers
  <1>6. CASE LaunchSession
    <2>1. /\ SetupTypes' /\ nodePty' \in {"unknown", "loaded", "broken"}
          /\ runningProfile' \in Request
      BY <1>6, <1>a, <1>b, SetupTyped DEF LaunchSession, Spawns, SpawnThrows, LoadFails
    <2>2. QED
      BY <1>6, <2>1
      DEF LaunchSession, Launches, Asks, SetupTypes, clientVars, endVars, exitVars,
          Answers
  <1>7. CASE PtyData
    <2>1. Say(ptyCurrent, ptyCurrent, "line") \in Comment
      BY SayType DEF CommentKinds
    <2>2. QED
      BY <1>7, <2>1 DEF PtyData, MaybeComment, Activity, sessionVars, restartVars,
                        clientVars, endVars, userVars, exitVars
  <1>8. CASE SilenceFires
    <2>1. Say(CurrentInput, generation, "line") \in Comment
      BY SayType DEF CommentKinds, CurrentInput
    <2>2. QED
      BY <1>8, <2>1 DEF SilenceFires, MaybeComment, sessionVars, restartVars,
                        clientVars, endVars, userVars, exitVars
  <1>9. CASE \E s \in watchers : FileChange(s)
    BY <1>9 DEF FileChange, sessionVars, restartVars, inputVars, speechVars,
                clientVars, endVars, userVars, exitVars
  <1>10. CASE \E s \in reads : FileData(s)
    <2>1. PICK s \in reads : FileData(s)
      BY <1>10
    <2>2. Say(s, s, "line") \in Comment
      BY SayType DEF CommentKinds
    <2>3. QED
      BY <2>1, <2>2 DEF FileData, MaybeComment, Activity, sessionVars, restartVars,
                        clientVars, endVars, userVars, exitVars
  <1>11. CASE \E s \in procs : OtherPtyExit(s)
    BY <1>11 DEF OtherPtyExit, ProcessGone, sessionVars, restartVars, speechVars,
                 clientVars, endVars, userVars, exitVars
  <1>12. CASE \E s \in procs : CurrentPtyExit(s)
    <2>1. PICK s \in procs : CurrentPtyExit(s)
      BY <1>12
    <2>2. Say(s, s, "done") \in Comment /\ Say(s, s, "exit") \in Comment
      BY SayType DEF CommentKinds
    <2>3. /\ procs' \subseteq Nat /\ killed' \subseteq Nat /\ silence' = "off"
          /\ UNCHANGED <<generation, latest, inFlight, queuedProfile,
                         immediates, fileTail, watchers, nodePty, reads,
                         initialStart, heard, clientVars, endVars, userVars>>
          /\ SwallowedExit(s) \/ IdleExit(s) \/ FinalExit(s)
      BY <2>1 DEF CurrentPtyExit, ProcessGone, SilenceStopped
    <2>4. /\ lifecycle' \in Lifecycles /\ runningProfile' \in Request
          /\ ptyCurrent' \in Nat
      BY <2>3, <1>a DEF SwallowedExit, IdleExit, FinalExit, Lifecycles, NoSession
    <2>5. comments' \subseteq Comment
      BY <2>2, <2>3 DEF SwallowedExit, IdleExit, FinalExit
    <2>6. exitTimers' \subseteq Nat /\ missed' \in Nat
      BY <2>1, <2>3 DEF SwallowedExit, IdleExit, FinalExit, exitVars
    <2>7. QED
      BY <2>3, <2>4, <2>5, <2>6 DEF clientVars, endVars, userVars
  <1>13. CASE \E c \in comments : CommentSettles(c)
    <2>1. PICK c \in comments : CommentSettles(c)
      BY <1>13
    <2>2. c.gen \in Nat /\ c.sess \in Nat
      BY DEF Comment
    <2>3. WithCommentary(initialStart, c.gen) \in StartBuffer
          /\ Consumed(WithCommentary(initialStart, c.gen)) \in StartBuffer
          /\ WithCommentary(initialStart, c.gen).pending \in Nat
      BY <2>2, BufferTypes DEF StartBuffer
    <2>4. /\ comments' \subseteq Comment
          /\ UNCHANGED <<sessionVars, restartVars, inputVars, reads, exitVars,
                         clientVars, endVars, userVars>>
      BY <2>1 DEF CommentSettles
    <2>5. initialStart' \in StartBuffer /\ heard' \in [about : Nat, during : Nat]
      <3>1. CASE Hear(c.sess) /\ UNCHANGED initialStart
        BY <3>1, <2>2 DEF Hear
      <3>2. CASE DeliverStart(WithCommentary(initialStart, c.gen), open # {})
        BY <3>2, <2>3 DEF DeliverStart, Hear
      <3>3. CASE UNCHANGED <<initialStart, heard>>
        BY <3>3
      <3>4. QED
        BY <2>1, <3>1, <3>2, <3>3 DEF CommentSettles
    <2>6. QED
      BY <2>4, <2>5 DEF sessionVars, restartVars, inputVars, clientVars, endVars,
                        userVars, exitVars
  <1>14. CASE \E c \in Client : Connect(c)
    BY <1>14 DEF Connect, sessionVars, restartVars, inputVars, speechVars,
                 endVars, userVars, exitVars
  <1>15. CASE \E c \in Client : Greet(c)
    <2>1. Consumed(initialStart) \in StartBuffer /\ initialStart.pending \in Nat
      BY BufferTypes DEF StartBuffer
    <2>2. QED
      BY <1>15, <2>1 DEF Greet, DeliverStart, Hear, sessionVars, restartVars,
                         inputVars, endVars, userVars, exitVars
  <1>16. CASE \E c \in Client : Disconnect(c)
    BY <1>16 DEF Disconnect, sessionVars, restartVars, inputVars, speechVars,
                 endVars, userVars, exitVars
  <1>17. CASE Cleanup /\ exitTimers' \subseteq Nat /\ missed' \in Nat
    BY <1>17 DEF Cleanup, SilenceStopped, OldPtyKilled, OtherWatchers, NoSession,
                 Lifecycles, restartVars, speechVars, userVars, exitVars
  <1>18. CASE Signal
    BY <1>17, <1>18 DEF Signal, exitVars
  <1>19. CASE \E s \in exitTimers : ExitTimer(s)
    BY <1>17, <1>19 DEF ExitTimer, sessionVars, restartVars, inputVars, speechVars,
                        clientVars, endVars, userVars, exitVars
  <1>20. CASE ProcessExit
    BY <1>20 DEF ProcessExit, Lifecycles, restartVars, inputVars, speechVars,
                 clientVars, userVars, exitVars
  <1>21. QED
    BY <1>1, <1>2, <1>3, <1>4, <1>5, <1>6, <1>7, <1>8, <1>9, <1>10, <1>11, <1>12,
       <1>13, <1>14, <1>15, <1>16, <1>18, <1>19, <1>20 DEF Step

\* Every variable keeps its type through every restart, exit and shutdown.
THEOREM TypeCorrect == Spec => []TypeOK
  <1>1. Init => TypeOK
    <2>1. EmptyStart \in StartBuffer
      BY DEF EmptyStart, StartBuffer, NoGeneration
    <2>2. [about |-> NoSession, during |-> NoSession] \in [about : Nat, during : Nat]
      BY DEF NoSession
    <2>3. <<>> \in Seq(Request)
      OBVIOUS
    <2>4. QED
      BY <2>1, <2>2, <2>3 DEF Init, TypeOK, Lifecycles, NoSession, Request, Answers
  <1>2. TypeOK /\ [Next]_vars => TypeOK'
    <2>1. TypeOK /\ Next => TypeOK'
      BY NextIsStep, StepTyped
    <2>2. TypeOK /\ UNCHANGED vars => TypeOK'
      BY DEF TypeOK, vars, restartVars, inputVars, clientVars, endVars, userVars, exitVars,
             sessionVars, speechVars
    <2>3. QED
      BY <2>1, <2>2
  <1>3. QED
    BY <1>1, <1>2, PTL DEF Spec

-----------------------------------------------------------------------------
(* The generation discipline.                                              *)

LEMMA BufferPending ==
  ASSUME NEW b \in StartBuffer, NEW g \in Nat, NEW n \in BOOLEAN
  PROVE  /\ Invalidated(b).pending = NoGeneration
         /\ Consumed(b).pending = NoGeneration
         /\ WithCommentary(b, g).pending = b.pending
         /\ Begun(b, g, n).pending = IF ~b.started /\ n THEN g ELSE b.pending
  BY DEF StartBuffer, Invalidated, Begun, WithCommentary, Consumed, NoGeneration

LEMMA SayFields ==
  ASSUME NEW s, NEW g, NEW k
  PROVE  Say(s, g, k).sess = s /\ Say(s, g, k).gen = g /\ Say(s, g, k).kind = k
  BY DEF Say

\* A setup that is given a fresh generation re-establishes the invariant,
\* provided it may buffer its start only when no lookup is under way.
LEMMA SetupDated ==
  ASSUME TypeOK, RuntimeInv, NEW s \in Nat, s > generation,
         NEW b \in StartBuffer, b.pending = NoGeneration,
         open # {} \/ inFlight' = None,
         \/ PtyStarted(s, b) \/ InputLost(s, b)
         \/ TailStarted(s) \/ TailFailed(s),
         UNCHANGED <<reads, heard>>
  PROVE  RuntimeInv'
  <1> USE DEF TypeOK, RuntimeInv, SessionsDated, OtherWatchers, NoSession
  <1>1. /\ lifecycle' # "starting"
        /\ generation' = s /\ latest' = s
        /\ ptyCurrent' \in {0, s} /\ fileTail' \in {0, s}
        /\ watchers' \subseteq watchers \cup {s}
    BY DEF PtyStarted, InputLost, TailStarted, TailFailed
  <1>2. SessionsDated'
    BY <1>1 DEF PtyStarted, InputLost, TailStarted, TailFailed
  <1>3. \A c \in comments' : c \in comments \/
          \E k \in {"first", "start", "line"} : c = Say(s, s, k)
    <2>1. CASE PtyStarted(s, b)
      BY <2>1 DEF PtyStarted
    <2>2. CASE InputLost(s, b)
      BY <2>2 DEF InputLost
    <2>3. CASE TailStarted(s)
      BY <2>3 DEF TailStarted, FirstLines
    <2>4. CASE TailFailed(s)
      BY <2>4 DEF TailFailed, FirstLines
    <2>5. QED
      BY <2>1, <2>2, <2>3, <2>4
  <1>4. CommentsDated'
    <2> SUFFICES ASSUME NEW c \in comments'
                 PROVE  /\ c.gen <= generation'
                        /\ Guarded(c) /\ c.gen >= latest' => c.sess = latest'
                        /\ Managed => Guarded(c)
      BY DEF CommentsDated, Guarded
    <2>1. CASE c \in comments
      <3>1. c.gen \in Nat
        BY <2>1 DEF Comment
      <3>2. QED
        BY <1>1, <2>1, <3>1 DEF CommentsDated
    <2>2. CASE \E k \in {"first", "start", "line"} : c = Say(s, s, k)
      BY <1>1, <2>2, SayFields DEF Guarded
    <2>3. QED
      BY <1>3, <2>1, <2>2
  <1>5. SilenceDated'
    BY <1>1 DEF SilenceDated, CurrentInput, PtyStarted, InputLost, TailStarted,
                TailFailed, SilenceStarted, SilenceStopped
  <1>6. StartDated'
    <2> DEFINE n == (open = {})
    <2>n. n \in BOOLEAN
      OBVIOUS
    <2>1. initialStart'.pending = NoGeneration \/ (initialStart'.pending = s /\ n)
      <3>1. CASE PtyStarted(s, b)
        <4>1. initialStart' = Begun(b, s, n)
          BY <3>1 DEF PtyStarted
        <4> HIDE DEF n
        <4>2. QED
          BY <2>n, <4>1, BufferPending
      <3>2. CASE InputLost(s, b)
        BY <3>2 DEF InputLost
      <3>3. CASE TailStarted(s)
        BY <3>3, BufferPending DEF TailStarted
      <3>4. CASE TailFailed(s)
        BY <3>4, BufferPending DEF TailFailed
      <3>5. QED
        BY <3>1, <3>2, <3>3, <3>4
    <2>2. QED
      BY <1>1, <2>1 DEF StartDated
  <1>7. VoiceIsCurrent'
    BY DEF VoiceIsCurrent
  <1>8. QED
    BY <1>1, <1>2, <1>4, <1>5, <1>6, <1>7 DEF BootDated

LEMMA SwitchDated ==
  ASSUME TypeOK, RuntimeInv, NEW p \in Request, NEW s \in Nat, s > generation,
         NEW b \in StartBuffer, b.pending = NoGeneration,
         inFlight' = None,
         SwitchToPty(p, s, b) \/ SwitchToFile(p, s),
         UNCHANGED <<reads, heard>>
  PROVE  RuntimeInv'
  <1>1. \/ PtyStarted(s, b) \/ InputLost(s, b)
        \/ TailStarted(s) \/ TailFailed(s)
        \/ TailStarted(s + 1) \/ TailFailed(s + 1)
    BY DEF SwitchToPty, SwitchToFile, FallBack
  <1>2. s + 1 \in Nat /\ s + 1 > generation
    BY DEF TypeOK
  <1>3. QED
    BY <1>1, <1>2, SetupDated

\* Bumping the generation alone is harmless as long as the start buffer is
\* invalidated with it.
LEMMA BumpDated ==
  ASSUME TypeOK, RuntimeInv,
         generation' = generation + 1,
         initialStart' = Invalidated(initialStart),
         lifecycle' = "starting" => lifecycle = "starting",
         lifecycle = "starting" => inFlight' = None /\ immediates' = <<>> /\ open' = {},
         UNCHANGED <<latest, ptyCurrent, fileTail, watchers, reads, comments,
                     silence, heard>>
  PROVE  RuntimeInv'
  <1> USE DEF TypeOK, RuntimeInv
  <1>1. initialStart'.pending = NoGeneration
    BY BufferPending
  <1>2. SessionsDated'
    BY DEF SessionsDated
  <1>3. CommentsDated'
    <2> SUFFICES ASSUME NEW c \in comments
                 PROVE  /\ c.gen <= generation'
                        /\ Guarded(c) /\ c.gen >= latest' => c.sess = latest'
                        /\ Managed => Guarded(c)
      BY DEF CommentsDated, Guarded
    <2>1. c.gen \in Nat
      BY DEF Comment
    <2>2. QED
      BY <2>1 DEF CommentsDated
  <1>4. SilenceDated' /\ VoiceIsCurrent'
    BY DEF SilenceDated, VoiceIsCurrent, CurrentInput
  <1>5. StartDated' /\ BootDated'
    BY <1>1 DEF StartDated, BootDated
  <1>6. QED
    BY <1>2, <1>3, <1>4, <1>5

LEMMA RestartDated ==
  ASSUME TypeOK, RuntimeInv, NEW p \in Request, NEW force \in BOOLEAN,
         RestartPTY(p, force), lifecycle # "starting"
  PROVE  RuntimeInv'
  <1> USE DEF TypeOK
  <1>1. CASE QueueRestart(p)
    BY <1>1, BumpDated DEF QueueRestart, RestartPTY, inputVars, clientVars
  <1>2. CASE SkipRestart(p, force)
    BY <1>2, BumpDated DEF SkipRestart, RestartPTY, inputVars, clientVars
  <1>3. CASE BeginLookup(p, force)
    BY <1>3, BumpDated DEF BeginLookup, RestartPTY, inputVars, clientVars
  <1>4. CASE RestartEnv(p, force)
    <2>1. /\ SwitchToPty(p, generation + 2, Invalidated(initialStart))
             \/ SwitchToFile(p, generation + 2)
          /\ inFlight' = None
          /\ UNCHANGED <<reads, heard>>
      BY <1>4 DEF RestartEnv, RestartPTY, Switches
    <2>2. /\ Invalidated(initialStart) \in StartBuffer
          /\ Invalidated(initialStart).pending = NoGeneration
          /\ generation + 2 \in Nat /\ generation + 2 > generation
      BY BufferTypes, BufferPending
    <2>3. QED
      BY <2>1, <2>2, SwitchDated
  <1>5. QED
    BY <1>1, <1>2, <1>3, <1>4 DEF RestartPTY

\* Steps that say something and bump nothing: what they add is dated by the
\* session it is about.
LEMMA SayDated ==
  ASSUME TypeOK, RuntimeInv, NEW c \in Comment,
         comments' \subseteq comments \cup {c},
         c.gen <= generation, Managed => Guarded(c),
         c.gen >= latest => c.sess = latest,
         silence' # "off" => silence # "off",
         ptyCurrent' = ptyCurrent \/ (ptyCurrent' = NoSession /\ silence' = "off"),
         fileTail' = fileTail \/ (fileTail' = NoSession /\ silence' = "off"),
         watchers' \subseteq watchers,
         reads' \subseteq reads \cup watchers,
         lifecycle' = "starting" => lifecycle = "starting",
         lifecycle = "starting" => open' = {},
         UNCHANGED <<generation, latest, initialStart, heard, inFlight, immediates>>
  PROVE  RuntimeInv'
  <1> USE DEF TypeOK, RuntimeInv
  <1>1. SessionsDated'
    <2>1. latest \in Nat /\ NoSession <= latest
      BY DEF NoSession
    <2>2. ptyCurrent' <= latest /\ fileTail' <= latest
      BY <2>1 DEF SessionsDated
    <2>3. \A s \in watchers' \cup reads' : s <= latest
      BY DEF SessionsDated
    <2>4. QED
      BY <2>2, <2>3 DEF SessionsDated
  <1>2. CommentsDated'
    BY DEF CommentsDated, Guarded
  <1>3. SilenceDated'
    BY DEF SilenceDated, CurrentInput
  <1>4. StartDated' /\ BootDated' /\ VoiceIsCurrent'
    BY DEF StartDated, BootDated, VoiceIsCurrent
  <1>5. QED
    BY <1>1, <1>2, <1>3, <1>4

\* The same for the steps that say nothing.
LEMMA QuietDated ==
  ASSUME TypeOK, RuntimeInv,
         comments' \subseteq comments,
         silence' # "off" => silence # "off",
         ptyCurrent' = ptyCurrent \/ (ptyCurrent' = NoSession /\ silence' = "off"),
         fileTail' = fileTail \/ (fileTail' = NoSession /\ silence' = "off"),
         watchers' \subseteq watchers,
         reads' \subseteq reads \cup watchers,
         lifecycle' = "starting" => lifecycle = "starting",
         lifecycle = "starting" => open' = {},
         UNCHANGED <<generation, latest, initialStart, heard, inFlight, immediates>>
  PROVE  RuntimeInv'
  <1>1. Say(latest, 0, "line") \in Comment
    BY SayType DEF TypeOK, CommentKinds
  <1>2. Say(latest, 0, "line").gen <= generation
    BY SayFields DEF TypeOK
  <1>3. Guarded(Say(latest, 0, "line"))
    BY SayFields DEF Guarded
  <1>4. Say(latest, 0, "line").sess = latest
    BY SayFields
  <1>5. QED
    BY <1>1, <1>2, <1>3, <1>4, SayDated

\* Delivering the buffered start broadcasts the latest session's.
LEMMA DeliverDated ==
  ASSUME TypeOK, RuntimeInv, NEW b \in StartBuffer,
         b.pending = initialStart.pending,
         DeliverStart(b, open # {}),
         comments' \subseteq comments,
         UNCHANGED <<sessionVars, ptyCurrent, fileTail, watchers, reads, silence,
                     inFlight, immediates, open>>
  PROVE  RuntimeInv'
  <1> USE DEF TypeOK, RuntimeInv, sessionVars
  <1>1. /\ initialStart'.pending \in {NoGeneration, initialStart.pending}
        /\ VoiceIsCurrent'
    <2>1. CASE Deliverable(b, open # {})
      <3>1. b.pending = latest
        BY <2>1 DEF Deliverable, StartDated
      <3>2. initialStart' = Consumed(b) /\ Hear(b.pending)
        BY <2>1 DEF DeliverStart
      <3>3. Consumed(b).pending = NoGeneration
        BY BufferPending
      <3>4. heard'.about = heard'.during
        BY <3>1, <3>2 DEF Hear
      <3>5. QED
        BY <3>2, <3>3, <3>4 DEF VoiceIsCurrent
    <2>2. CASE ~Deliverable(b, open # {})
      BY <2>2 DEF DeliverStart, VoiceIsCurrent
    <2>3. QED
      BY <2>1, <2>2
  <1>2. StartDated' /\ BootDated'
    BY <1>1 DEF StartDated, BootDated
  <1>3. SessionsDated' /\ CommentsDated' /\ SilenceDated'
    BY DEF SessionsDated, CommentsDated, SilenceDated, CurrentInput, Guarded
  <1>4. QED
    BY <1>1, <1>2, <1>3

LEMMA SettleDated ==
  ASSUME TypeOK, RuntimeInv, NEW c \in comments, CommentSettles(c)
  PROVE  RuntimeInv'
  <1> USE DEF TypeOK, RuntimeInv
  <1>1. c.gen \in Nat /\ c.sess \in Nat
    BY DEF Comment
  <1>2. /\ comments' \subseteq comments
        /\ UNCHANGED <<sessionVars, restartVars, inputVars, reads, exitVars,
                       clientVars, endVars, userVars>>
    BY DEF CommentSettles
  <1>3. CASE /\ Guarded(c) => c.gen = generation
             /\ Hear(c.sess)
             /\ UNCHANGED initialStart
    <2>1. VoiceIsCurrent'
      BY <1>1, <1>3 DEF CommentsDated, SessionsDated, VoiceIsCurrent, Hear
    <2>2. SessionsDated' /\ CommentsDated' /\ SilenceDated' /\ StartDated' /\ BootDated'
      BY <1>2, <1>3 DEF SessionsDated, CommentsDated, SilenceDated, StartDated,
           BootDated, CurrentInput, Guarded, sessionVars, restartVars, inputVars,
           clientVars
    <2>3. QED
      BY <2>1, <2>2
  <1>4. CASE DeliverStart(WithCommentary(initialStart, c.gen), open # {})
    <2>1. /\ WithCommentary(initialStart, c.gen) \in StartBuffer
          /\ WithCommentary(initialStart, c.gen).pending = initialStart.pending
      BY <1>1, BufferTypes, BufferPending
    <2>2. UNCHANGED <<sessionVars, ptyCurrent, fileTail, watchers, reads, silence,
                      inFlight, immediates, open>>
      BY <1>2 DEF restartVars, inputVars, clientVars
    <2>3. QED
      BY <1>2, <1>4, <2>1, <2>2, DeliverDated
  <1>5. CASE UNCHANGED <<initialStart, heard>>
    <2>1. /\ UNCHANGED <<generation, latest, initialStart, heard, inFlight, immediates>>
          /\ UNCHANGED <<lifecycle, ptyCurrent, fileTail, watchers, reads, silence, open>>
      BY <1>2, <1>5 DEF sessionVars, restartVars, inputVars, clientVars
    <2>2. lifecycle = "starting" => open = {}
      BY DEF BootDated
    <2>3. QED
      BY <1>2, <2>1, <2>2, QuietDated
  <1>6. QED
    BY <1>3, <1>4, <1>5 DEF CommentSettles

LEMMA StepDated == ASSUME TypeOK, RuntimeInv, Step PROVE RuntimeInv'
  <1> USE DEF TypeOK
  <1>a. /\ initialStart \in StartBuffer
        /\ Invalidated(initialStart) \in StartBuffer
        /\ Invalidated(initialStart).pending = NoGeneration
        /\ generation + 1 \in Nat /\ generation + 1 > generation
        /\ generation + 2 \in Nat /\ generation + 2 > generation
    BY BufferTypes, BufferPending
  <1>b. lifecycle = "starting" =>
          /\ inFlight = None /\ immediates = <<>> /\ open = {}
          /\ initialStart.pending = NoGeneration
    BY DEF RuntimeInv, BootDated
  <1>1. CASE ResolveLookup
    <2> USE <1>1 DEF ResolveLookup, LookupSettles
    <2>1. inFlight \in Request /\ inFlight # None /\ inFlight' = None
      BY DEF Request, Finish
    <2>2. initialStart.pending = NoGeneration /\ lifecycle # "starting"
      BY <1>b, <2>1 DEF RuntimeInv, StartDated
    <2>3. CASE SwitchToPty(inFlight, generation + 1, initialStart)
               \/ SwitchToFile(inFlight, generation + 1)
      BY <1>a, <2>1, <2>2, <2>3, SwitchDated
    <2>4. CASE /\ Answered(inFlight, "failed")
               /\ lifecycle' \in {lifecycle, "failed"}
               /\ UNCHANGED <<inputVars, generation, latest,
                              runningProfile, comments, initialStart, exited>>
      <3>1. SessionsDated' /\ CommentsDated' /\ SilenceDated' /\ VoiceIsCurrent'
        BY <2>4 DEF RuntimeInv, SessionsDated, CommentsDated, SilenceDated,
             VoiceIsCurrent, CurrentInput, Guarded, inputVars
      <3>2. StartDated' /\ BootDated'
        BY <2>2, <2>4 DEF StartDated, BootDated
      <3>3. QED
        BY <3>1, <3>2 DEF RuntimeInv
    <2>5. QED
      BY <2>3, <2>4
  <1>2. CASE Boot
    <2>1. /\ initialStart.pending = NoGeneration /\ inFlight' = None
          /\ UNCHANGED <<reads, heard>>
      BY <1>2, <1>b DEF Boot, restartVars
    <2>0. CASE NoInputFile
      BY <1>b, <2>0, <2>1, <1>2, QuietDated DEF Boot, NoInputFile, restartVars,
         clientVars
    <2>2. CASE ~NoInputFile
      <3> SUFFICES \E s \in {generation + 1, generation + 2} :
            \/ PtyStarted(s, initialStart) \/ InputLost(s, initialStart)
            \/ TailStarted(s) \/ TailFailed(s)
        BY <1>a, <2>1, SetupDated
      <3>1. generation + 1 + 1 = generation + 2
        OBVIOUS
      <3>2. CASE EnvFileMode
        BY <1>2, <2>2, <3>2 DEF Boot
      <3>3. CASE ~EnvFileMode
        BY <1>2, <3>1, <3>3 DEF Boot, FallBack
      <3>4. QED
        BY <3>2, <3>3
    <2>3. QED
      BY <2>0, <2>2
  <1>3. CASE RunImmediate
    <2>1. lifecycle # "starting" /\ Head(immediates) \in Request
      BY <1>3, <1>b DEF RunImmediate
    <2>2. QED
      BY <1>3, <2>1, RestartDated DEF RunImmediate
  <1>4. CASE \E p \in Request, force \in BOOLEAN : RequestRestart(p, force)
    <2>1. lifecycle # "starting"
      BY <1>4, <1>b DEF RequestRestart, Asks
    <2>2. QED
      BY <1>4, <2>1, RestartDated DEF RequestRestart
  <1>5. CASE LaunchRejected
    BY <1>5, <1>b, BumpDated
    DEF LaunchRejected, Launches, Asks, inputVars, restartVars, clientVars
  <1>6. CASE LaunchSession
    <2>1. /\ open # {}
          /\ UNCHANGED <<reads, heard>>
          /\ \/ PtyStarted(generation + 2, Invalidated(initialStart))
             \/ InputLost(generation + 2, Invalidated(initialStart))
      BY <1>6 DEF LaunchSession, Launches
    <2>2. QED
      BY <1>a, <2>1, SetupDated
  <1>7. CASE PtyData
    <2> DEFINE c == Say(ptyCurrent, ptyCurrent, "line")
    <2>1. /\ c \in Comment /\ c.gen = ptyCurrent /\ c.sess = ptyCurrent
          /\ Guarded(c)
      BY SayType, SayFields DEF CommentKinds, Guarded
    <2>2. c.gen <= generation /\ (c.gen >= latest => c.sess = latest)
      BY <2>1 DEF RuntimeInv, SessionsDated
    <2>3. /\ comments' \subseteq comments \cup {c}
          /\ silence' # "off" => silence # "off"
          /\ UNCHANGED <<sessionVars, ptyCurrent, fileTail, watchers, reads,
                         initialStart, heard, inFlight, immediates, open>>
      BY <1>7 DEF PtyData, MaybeComment, Activity, restartVars, clientVars
    <2> HIDE DEF c
    <2>4. QED
      BY <1>b, <2>1, <2>2, <2>3, SayDated DEF sessionVars
  <1>8. CASE SilenceFires
    <2> DEFINE c == Say(CurrentInput, generation, "line")
    <2>1. CurrentInput = latest
      BY <1>8 DEF SilenceFires, RuntimeInv, SilenceDated
    <2>2. /\ c \in Comment /\ c.gen = generation /\ c.sess = latest /\ Guarded(c)
      BY <2>1, SayType, SayFields DEF CommentKinds, Guarded
    <2>3. /\ comments' \subseteq comments \cup {c}
          /\ silence # "off"
          /\ UNCHANGED <<sessionVars, ptyCurrent, fileTail, watchers, reads,
                         initialStart, heard, inFlight, immediates, open>>
      BY <1>8 DEF SilenceFires, MaybeComment, restartVars, clientVars
    <2> HIDE DEF c
    <2>4. QED
      BY <1>b, <2>2, <2>3, SayDated DEF sessionVars
  <1>9. CASE \E s \in watchers : FileChange(s)
    BY <1>9, <1>b, QuietDated
    DEF FileChange, sessionVars, restartVars, inputVars, speechVars, clientVars
  <1>10. CASE \E s \in reads : FileData(s)
    <2>1. PICK s \in reads : FileData(s)
      BY <1>10
    <2> DEFINE c == Say(s, s, "line")
    <2>2. c \in Comment /\ c.gen = s /\ c.sess = s /\ Guarded(c)
      BY SayType, SayFields DEF CommentKinds, Guarded
    <2>3. c.gen <= generation /\ (c.gen >= latest => c.sess = latest)
      BY <2>2 DEF RuntimeInv, SessionsDated
    <2>4. /\ comments' \subseteq comments \cup {c}
          /\ silence' # "off" => silence # "off"
          /\ reads' \subseteq reads
          /\ UNCHANGED <<sessionVars, ptyCurrent, fileTail, watchers,
                         initialStart, heard, inFlight, immediates, open>>
      BY <2>1 DEF FileData, MaybeComment, Activity, restartVars, clientVars
    <2> HIDE DEF c
    <2>5. QED
      BY <1>b, <2>2, <2>3, <2>4, SayDated DEF sessionVars
  <1>11. CASE \E s \in procs : OtherPtyExit(s)
    BY <1>11, <1>b, QuietDated
    DEF OtherPtyExit, sessionVars, restartVars, speechVars, clientVars
  <1>12. CASE \E s \in procs : CurrentPtyExit(s)
    <2>1. PICK s \in procs : CurrentPtyExit(s)
      BY <1>12
    <2> DEFINE c == Say(s, s, IF Managed THEN "done" ELSE "exit")
    <2>2. /\ c \in Comment /\ c.gen = s /\ c.sess = s
          /\ Managed => Guarded(c)
      BY SayType, SayFields DEF CommentKinds, Guarded
    <2>3. s = ptyCurrent /\ s \in Nat
      BY <2>1 DEF CurrentPtyExit
    <2>4. c.gen <= generation /\ (c.gen >= latest => c.sess = latest)
      BY <2>2, <2>3 DEF RuntimeInv, SessionsDated
    <2>5. /\ silence' = "off"
          /\ UNCHANGED <<generation, latest, initialStart, heard, inFlight,
                         immediates, fileTail, watchers, reads, open>>
          /\ SwallowedExit(s) \/ IdleExit(s) \/ FinalExit(s)
      BY <2>1 DEF CurrentPtyExit, SilenceStopped, clientVars
    <2>6. /\ comments' \subseteq comments \cup {c}
          /\ ptyCurrent' = ptyCurrent \/ ptyCurrent' = NoSession
          /\ lifecycle' = "starting" => lifecycle = "starting"
      BY <2>5 DEF SwallowedExit, IdleExit, FinalExit
    <2> HIDE DEF c
    <2>7. QED
      BY <1>b, <2>2, <2>4, <2>5, <2>6, SayDated
  <1>13. CASE \E c \in comments : CommentSettles(c)
    BY <1>13, SettleDated
  <1>14. CASE \E c \in Client : Connect(c)
    BY <1>14, QuietDated
    DEF Connect, sessionVars, restartVars, inputVars, speechVars
  <1>15. CASE \E c \in Client : Greet(c)
    BY <1>15, <1>a, DeliverDated DEF Greet, restartVars, inputVars
  <1>16. CASE \E c \in Client : Disconnect(c)
    BY <1>16, <1>b, QuietDated
    DEF Disconnect, sessionVars, restartVars, inputVars, speechVars
  <1>17. CASE Cleanup
    BY <1>17, QuietDated
    DEF Cleanup, SilenceStopped, OtherWatchers, restartVars, speechVars
  <1>18. CASE Signal
    BY <1>17, <1>18 DEF Signal
  <1>19. CASE \E s \in exitTimers : ExitTimer(s)
    <2>1. CASE UNCHANGED <<sessionVars, restartVars, inputVars, reads, speechVars,
                           clientVars, endVars, userVars>>
      BY <1>b, <2>1, QuietDated
      DEF sessionVars, restartVars, inputVars, speechVars, clientVars
    <2>2. QED
      BY <1>17, <1>19, <2>1 DEF ExitTimer
  <1>20. CASE ProcessExit
    BY <1>20, <1>b, QuietDated
    DEF ProcessExit, restartVars, inputVars, speechVars, clientVars
  <1>21. QED
    BY <1>1, <1>2, <1>3, <1>4, <1>5, <1>6, <1>7, <1>8, <1>9, <1>10, <1>11, <1>12,
       <1>13, <1>14, <1>15, <1>16, <1>18, <1>19, <1>20 DEF Step

\* The generation discipline: everything that may still be broadcast is dated
\* by the session it is about, and the buffered start by the current one.
THEOREM RuntimeInvariant == Spec => [](TypeOK /\ RuntimeInv)
  <1>2. Init => RuntimeInv
    BY DEF Init, RuntimeInv, SessionsDated, CommentsDated, SilenceDated, StartDated,
           BootDated, VoiceIsCurrent, EmptyStart, NoGeneration, NoSession
  <1>3. TypeOK /\ RuntimeInv /\ [Next]_vars => RuntimeInv'
    <2>1. TypeOK /\ RuntimeInv /\ Next => RuntimeInv'
      BY NextIsStep, StepDated
    <2>2. RuntimeInv /\ UNCHANGED vars => RuntimeInv'
      BY DEF RuntimeInv, SessionsDated, CommentsDated, SilenceDated, StartDated,
             BootDated, VoiceIsCurrent, CurrentInput, Guarded, vars, restartVars,
             inputVars, clientVars, sessionVars, speechVars
    <2>3. QED
      BY <2>1, <2>2
  <1>4. QED
    BY <1>2, <1>3, TypeCorrect, PTL DEF Spec

\* A managed server never broadcasts a commentary about a session that has
\* been replaced, however late comment() settles.
THEOREM VoiceSafety == Spec => []VoiceIsCurrent
  <1>1. RuntimeInv => VoiceIsCurrent
    BY DEF RuntimeInv
  <1>2. QED
    BY <1>1, RuntimeInvariant, PTL

\* A buffered start is never held across a switch: what a connecting client
\* is given is about the session that is running.
THEOREM PendingStartSafety == Spec => []PendingStartIsCurrent
  <1>1. RuntimeInv => PendingStartIsCurrent
    BY DEF RuntimeInv, StartDated, PendingStartIsCurrent
  <1>2. QED
    BY <1>1, RuntimeInvariant, PTL

-----------------------------------------------------------------------------
(* One input at a time.                                                    *)

LEMMA SetupKeepsOneInput ==
  ASSUME OneInput, NEW s, NEW b,
         \/ PtyStarted(s, b) \/ InputLost(s, b)
         \/ TailStarted(s) \/ TailFailed(s)
  PROVE  OneInput'
  BY DEF OneInput, PtyStarted, InputLost, TailStarted, TailFailed, OldPtyKilled,
         OtherWatchers

LEMMA SwitchKeepsOneInput ==
  ASSUME OneInput, NEW p, NEW s, NEW b,
         SwitchToPty(p, s, b) \/ SwitchToFile(p, s)
  PROVE  OneInput'
  BY SetupKeepsOneInput DEF SwitchToPty, SwitchToFile, FallBack

LEMMA RestartKeepsOneInput ==
  ASSUME OneInput, NEW p, NEW force, RestartPTY(p, force)
  PROVE  OneInput'
  <1>1. CASE RestartEnv(p, force)
    BY <1>1, SwitchKeepsOneInput DEF RestartEnv
  <1>2. CASE QueueRestart(p) \/ SkipRestart(p, force) \/ BeginLookup(p, force)
    BY <1>2 DEF QueueRestart, SkipRestart, BeginLookup, inputVars, OneInput
  <1>3. QED
    BY <1>1, <1>2 DEF RestartPTY

\* The steps that leave every input alone.
LEMMA SameInputs ==
  ASSUME OneInput, UNCHANGED <<ptyCurrent, procs, killed, fileTail, watchers>>
  PROVE  OneInput'
  BY DEF OneInput

LEMMA StepKeepsOneInput == ASSUME OneInput, Step PROVE OneInput'
  <1>1. CASE ResolveLookup
    BY <1>1, SwitchKeepsOneInput, SameInputs DEF ResolveLookup, LookupSettles, inputVars
  <1>2. CASE Boot
    <2>1. \/ \E s : \/ PtyStarted(s, initialStart) \/ InputLost(s, initialStart)
                    \/ TailStarted(s) \/ TailFailed(s)
          \/ NoInputFile
      BY <1>2 DEF Boot, FallBack
    <2>2. QED
      BY <2>1, SetupKeepsOneInput, SameInputs DEF NoInputFile
  <1>3. CASE RunImmediate \/ \E p \in Request, force \in BOOLEAN : RequestRestart(p, force)
    BY <1>3, RestartKeepsOneInput DEF RunImmediate, RequestRestart
  <1>4. CASE LaunchSession
    BY <1>4, SetupKeepsOneInput DEF LaunchSession
  <1>5. CASE \E s \in procs : OtherPtyExit(s)
    BY <1>5 DEF OtherPtyExit, ProcessGone, OneInput
  <1>6. CASE \E s \in procs : CurrentPtyExit(s)
    BY <1>6 DEF CurrentPtyExit, ProcessGone, SwallowedExit, IdleExit, FinalExit, OneInput
  <1>7. CASE Cleanup
    BY <1>7 DEF Cleanup, OldPtyKilled, OtherWatchers, OneInput
  <1>8. CASE Signal \/ \E s \in exitTimers : ExitTimer(s)
    BY <1>7, <1>8, SameInputs DEF Signal, ExitTimer, inputVars
  <1>9. CASE \/ LaunchRejected \/ PtyData \/ SilenceFires \/ ProcessExit
             \/ \E s \in watchers : FileChange(s)
             \/ \E s \in reads : FileData(s)
             \/ \E c \in comments : CommentSettles(c)
             \/ \E c \in Client : Connect(c)
             \/ \E c \in Client : Greet(c)
             \/ \E c \in Client : Disconnect(c)
    BY <1>9, SameInputs
    DEF LaunchRejected, PtyData, SilenceFires, ProcessExit, FileChange, FileData,
        CommentSettles, Connect, Greet, Disconnect, inputVars
  <1>10. QED
    BY <1>1, <1>2, <1>3, <1>4, <1>5, <1>6, <1>8, <1>9 DEF Step

\* Switching leaks no terminal and no watcher: there is at most one input, and
\* it is the one the server knows.
THEOREM OneInputSafety == Spec => []OneInput
  <1>1. Init => OneInput
    BY DEF Init, OneInput
  <1>2. OneInput /\ [Next]_vars => OneInput'
    <2>1. OneInput /\ Next => OneInput'
      BY NextIsStep, StepKeepsOneInput
    <2>2. OneInput /\ UNCHANGED vars => OneInput'
      BY SameInputs DEF vars, inputVars
    <2>3. QED
      BY <2>1, <2>2
  <1>3. QED
    BY <1>1, <1>2, PTL DEF Spec

-----------------------------------------------------------------------------
(* What the server says of its input.                                      *)

\* A setup that is given a fresh generation reports what it has set up: the
\* new terminal is not among those that were ever sent a kill.
LEMMA SetupIsReal ==
  ASSUME TypeOK, RuntimeInv, InputInv, NEW s \in Nat, s > generation, NEW b,
         \/ PtyStarted(s, b) \/ InputLost(s, b)
         \/ TailStarted(s) \/ TailFailed(s)
  PROVE  InputInv'
  <1> USE DEF TypeOK, NoSession, OldPtyKilled
  <1>a. s # 0 /\ s \notin procs \cup killed \cup {ptyCurrent}
    BY DEF InputInv, ProcsDated, RuntimeInv, SessionsDated
  <1>b. /\ generation' = s
        /\ procs' \subseteq procs \cup {s}
        /\ killed' \subseteq killed \cup procs
    BY DEF PtyStarted, InputLost, TailStarted, TailFailed
  <1>1. ProcsDated'
    BY <1>a, <1>b DEF InputInv, ProcsDated
  <1>2. CASE PtyStarted(s, b)
    <2>1. /\ lifecycle' = "pty_running" /\ ptyCurrent' = s
          /\ s \in procs' /\ s \notin killed'
      BY <1>2, <1>a DEF PtyStarted
    <2>2. QED
      BY <1>1, <1>a, <2>1 DEF InputInv, InputIsReal, LifecycleHonest,
                              SilenceOnlyWithInput
  <1>3. CASE InputLost(s, b) \/ TailFailed(s)
    <2>1. lifecycle' = "failed" /\ silence' = "off"
      BY <1>3 DEF InputLost, TailFailed, SilenceStopped
    <2>2. QED
      BY <1>1, <2>1 DEF InputInv, InputIsReal, LifecycleHonest, SilenceOnlyWithInput
  <1>4. CASE TailStarted(s)
    <2>1. lifecycle' = "file_running" /\ fileTail' = s /\ s \in watchers'
      BY <1>4 DEF TailStarted
    <2>2. QED
      BY <1>1, <2>1 DEF InputInv, InputIsReal, LifecycleHonest, SilenceOnlyWithInput
  <1>5. QED
    BY <1>2, <1>3, <1>4

LEMMA SwitchIsReal ==
  ASSUME TypeOK, RuntimeInv, InputInv, NEW p, NEW s \in Nat, s > generation, NEW b,
         SwitchToPty(p, s, b) \/ SwitchToFile(p, s)
  PROVE  InputInv'
  <1>1. \/ PtyStarted(s, b) \/ InputLost(s, b)
        \/ TailStarted(s) \/ TailFailed(s)
        \/ TailStarted(s + 1) \/ TailFailed(s + 1)
    BY DEF SwitchToPty, SwitchToFile, FallBack
  <1>2. s + 1 \in Nat /\ s + 1 > generation
    BY DEF TypeOK
  <1>3. QED
    BY <1>1, <1>2, SetupIsReal

\* A step that lets the inputs alone may count the generation, may say that a
\* switch is under way or has failed, and may not start the silence timer; an
\* exit that is to end the server goes on doing so.
LEMMA SameInputIsReal ==
  ASSUME TypeOK, InputInv,
         generation' \in {generation, generation + 1},
         lifecycle' \in {lifecycle, "restarting", "failed", "stopped"},
         silence' # "off" => silence # "off",
         UNCHANGED <<ptyCurrent, procs, killed, fileTail, watchers, missed>>,
         cleaning => cleaning',
         exitTimers \subseteq exitTimers' \/ cleaning'
  PROVE  InputInv'
  <1>1. ProcsDated'
    BY DEF TypeOK, InputInv, ProcsDated
  <1>2. LifecycleHonest' /\ SilenceOnlyWithInput'
    BY DEF InputInv, InputIsReal, LifecycleHonest, SilenceOnlyWithInput
  <1>3. QED
    BY <1>1, <1>2 DEF InputInv, InputIsReal

LEMMA RestartIsReal ==
  ASSUME TypeOK, RuntimeInv, InputInv, NEW p, NEW force, RestartPTY(p, force)
  PROVE  InputInv'
  <1>1. CASE RestartEnv(p, force)
    <2>1. generation + 2 \in Nat /\ generation + 2 > generation
      BY DEF TypeOK
    <2>2. QED
      BY <1>1, <2>1, SwitchIsReal DEF RestartEnv
  <1>2. CASE QueueRestart(p) \/ SkipRestart(p, force) \/ BeginLookup(p, force)
    BY <1>2, SameInputIsReal
    DEF RestartPTY, QueueRestart, SkipRestart, BeginLookup, inputVars, exitVars
  <1>3. QED
    BY <1>1, <1>2 DEF RestartPTY

LEMMA StepIsReal ==
  ASSUME TypeOK, RuntimeInv, OneInput, InputInv, Step
  PROVE  InputInv'
  <1> USE DEF NoSession
  <1>a. /\ generation \in Nat /\ generation + 1 \in Nat /\ generation + 2 \in Nat
        /\ generation + 1 > generation /\ generation + 2 > generation
        /\ generation + 1 + 1 = generation + 2
    BY DEF TypeOK
  <1>1. CASE ResolveLookup
    <2>1. CASE SwitchToPty(inFlight, generation + 1, initialStart)
               \/ SwitchToFile(inFlight, generation + 1)
      BY <1>a, <2>1, SwitchIsReal
    <2>2. CASE /\ lifecycle' \in {lifecycle, "failed"}
               /\ UNCHANGED <<inputVars, generation>>
      BY <1>1, <2>2, SameInputIsReal
      DEF ResolveLookup, LookupSettles, inputVars, exitVars
    <2>3. QED
      BY <1>1, <2>1, <2>2 DEF ResolveLookup, LookupSettles
  <1>2. CASE Boot
    <2>1. \/ \E s \in {generation + 1, generation + 2} :
               \/ PtyStarted(s, initialStart) \/ InputLost(s, initialStart)
               \/ TailStarted(s) \/ TailFailed(s)
          \/ NoInputFile
      BY <1>2, <1>a DEF Boot, FallBack
    <2>2. CASE NoInputFile
      BY <1>2, <2>2, SameInputIsReal DEF Boot, NoInputFile, exitVars
    <2>3. QED
      BY <1>a, <2>1, <2>2, SetupIsReal
  <1>3. CASE RunImmediate \/ \E p \in Request, force \in BOOLEAN : RequestRestart(p, force)
    BY <1>3, RestartIsReal DEF RunImmediate, RequestRestart
  <1>4. CASE LaunchSession
    BY <1>4, <1>a, SetupIsReal DEF LaunchSession
  <1>5. CASE \E s \in procs : OtherPtyExit(s)
    <2>1. PICK s \in procs : OtherPtyExit(s)
      BY <1>5
    <2>2. /\ procs' = procs \ {s} /\ killed' = killed \ {s} /\ s # ptyCurrent
          /\ UNCHANGED <<lifecycle, generation, silence, ptyCurrent, fileTail, watchers>>
          /\ UNCHANGED <<exitTimers, missed, cleaning>>
      BY <2>1 DEF OtherPtyExit, ProcessGone, sessionVars, exitVars, endVars
    <2>3. QED
      BY <2>2 DEF InputInv, ProcsDated, InputIsReal, LifecycleHonest,
                  SilenceOnlyWithInput
  <1>6. CASE \E s \in procs : CurrentPtyExit(s)
    <2>1. PICK s \in procs : CurrentPtyExit(s)
      BY <1>6
    <2>2. /\ procs' = procs \ {s} /\ killed' = killed \ {s} /\ s = ptyCurrent
          /\ silence' = "off"
          /\ UNCHANGED <<generation, fileTail, watchers>>
      BY <2>1 DEF CurrentPtyExit, ProcessGone, SilenceStopped
    <2>3. ProcsDated' /\ SilenceOnlyWithInput'
      BY <2>2 DEF InputInv, ProcsDated, SilenceOnlyWithInput
    <2>4. watchers = {}
      BY <2>1, <2>2 DEF InputInv, ProcsDated, OneInput
    <2>5. LifecycleHonest'
      <3>1. CASE /\ UNCHANGED <<lifecycle, ptyCurrent>>
                 /\ missed' = s \/ s \in exitTimers'
        <4>1. s # NoSession /\ (missed' = ptyCurrent' \/ ptyCurrent' \in exitTimers')
          BY <2>2, <3>1 DEF InputInv, ProcsDated
        <4>2. QED
          BY <2>2, <3>1, <4>1 DEF InputInv, InputIsReal, LifecycleHonest
      <3>2. CASE lifecycle' = "pty_idle" /\ ptyCurrent' = NoSession
        BY <2>2, <2>4, <3>2 DEF LifecycleHonest
      <3>3. QED
        BY <2>1, <3>1, <3>2 DEF CurrentPtyExit, SwallowedExit, IdleExit, FinalExit
    <2>6. QED
      BY <2>3, <2>5 DEF InputInv, InputIsReal
  <1>7. CASE Cleanup
    <2>1. /\ lifecycle' = "shutting_down" /\ silence' = "off"
          /\ procs' = procs /\ killed' \subseteq killed \cup procs
          /\ generation' = generation
      BY <1>7 DEF Cleanup, SilenceStopped, OldPtyKilled
    <2>2. QED
      BY <2>1 DEF InputInv, ProcsDated, InputIsReal, LifecycleHonest,
                  SilenceOnlyWithInput
  <1>8. CASE Signal \/ \E s \in exitTimers : ExitTimer(s)
    <2>1. CASE Cleanup
      BY <1>7, <2>1
    <2>2. CASE /\ cleaning
               /\ UNCHANGED <<sessionVars, inputVars, endVars, missed>>
      BY <2>2, SameInputIsReal DEF inputVars, sessionVars, endVars
    <2>3. QED
      BY <1>8, <2>1, <2>2 DEF Signal, ExitTimer
  <1>9. CASE PtyData \/ SilenceFires \/ \E s \in reads : FileData(s)
    BY <1>9, SameInputIsReal
    DEF PtyData, SilenceFires, FileData, Activity, sessionVars, endVars, exitVars
  <1>10. CASE \/ LaunchRejected \/ ProcessExit
              \/ \E s \in watchers : FileChange(s)
              \/ \E c \in comments : CommentSettles(c)
              \/ \E c \in Client : Connect(c)
              \/ \E c \in Client : Greet(c)
              \/ \E c \in Client : Disconnect(c)
    BY <1>10, SameInputIsReal
    DEF LaunchRejected, ProcessExit, FileChange, CommentSettles, Connect, Greet,
        Disconnect, inputVars, sessionVars, endVars, exitVars
  <1>11. QED
    BY <1>1, <1>2, <1>3, <1>4, <1>5, <1>6, <1>8, <1>9, <1>10 DEF Step

\* The server never remarks on the silence of an input that is gone, and the
\* lifecycle it reports names a terminal that has exited only where that exit
\* ends the server, where the server is shutting down, or where the exit was
\* ignored during a restart (onExit, index.ts:556), in any order of switches,
\* exits, lookups and shutdown.
THEOREM InputSafety == Spec => []InputIsReal
  <1>1. Init => InputInv
    BY DEF Init, InputInv, ProcsDated, InputIsReal, LifecycleHonest,
           SilenceOnlyWithInput
  <1>2. TypeOK /\ RuntimeInv /\ OneInput /\ InputInv /\ [Next]_vars => InputInv'
    <2>1. TypeOK /\ RuntimeInv /\ OneInput /\ InputInv /\ Next => InputInv'
      BY NextIsStep, StepIsReal
    <2>2. TypeOK /\ InputInv /\ UNCHANGED vars => InputInv'
      BY SameInputIsReal DEF vars, inputVars, sessionVars, endVars, exitVars
    <2>3. QED
      BY <2>1, <2>2
  <1>3. InputInv => InputIsReal
    BY DEF InputInv
  <1>4. QED
    BY <1>1, <1>2, <1>3, RuntimeInvariant, OneInputSafety, PTL DEF Spec

-----------------------------------------------------------------------------
(* The one-shot start.                                                     *)

\* What a step may make of the start buffer.
StartMoves ==
  {initialStart, Invalidated(initialStart), Consumed(initialStart)}
    \cup {WithCommentary(initialStart, g) : g \in Nat}
    \cup {Consumed(WithCommentary(initialStart, g)) : g \in Nat}
    \cup {Begun(b, g, n) : b \in {initialStart, Invalidated(initialStart)},
                           g \in Nat, n \in BOOLEAN}

LEMMA SetupMovesStart ==
  ASSUME NEW s \in Nat, NEW b \in {initialStart, Invalidated(initialStart)},
         \/ PtyStarted(s, b) \/ InputLost(s, b)
         \/ TailStarted(s) \/ TailFailed(s)
  PROVE  initialStart' \in StartMoves
  <1> DEFINE n == (open = {})
  <1>1. n \in BOOLEAN
    OBVIOUS
  <1>2. CASE PtyStarted(s, b)
    <2>1. initialStart' = Begun(b, s, n)
      BY <1>2 DEF PtyStarted
    <2> HIDE DEF n
    <2>2. QED
      BY <1>1, <2>1 DEF StartMoves
  <1>3. CASE InputLost(s, b) \/ TailStarted(s) \/ TailFailed(s)
    BY <1>3 DEF InputLost, TailStarted, TailFailed, StartMoves
  <1>4. QED
    BY <1>2, <1>3

LEMMA SwitchMovesStart ==
  ASSUME NEW p, NEW s \in Nat, NEW b \in {initialStart, Invalidated(initialStart)},
         SwitchToPty(p, s, b) \/ SwitchToFile(p, s)
  PROVE  initialStart' \in StartMoves
  <1>1. s + 1 \in Nat
    OBVIOUS
  <1>2. QED
    BY <1>1, SetupMovesStart DEF SwitchToPty, SwitchToFile, FallBack

LEMMA RestartMovesStart ==
  ASSUME TypeOK, NEW p, NEW force, RestartPTY(p, force)
  PROVE  initialStart' \in StartMoves
  <1>1. CASE RestartEnv(p, force)
    <2>1. generation + 2 \in Nat
      BY DEF TypeOK
    <2>2. QED
      BY <1>1, <2>1, SwitchMovesStart DEF RestartEnv
  <1>2. CASE QueueRestart(p) \/ SkipRestart(p, force) \/ BeginLookup(p, force)
    <2>1. initialStart' = Invalidated(initialStart)
      BY <1>2 DEF QueueRestart, SkipRestart, BeginLookup
    <2>2. QED
      BY <2>1 DEF StartMoves
  <1>3. QED
    BY <1>1, <1>2 DEF RestartPTY

LEMMA StepMovesStart ==
  ASSUME TypeOK, Step PROVE initialStart' \in StartMoves
  <1>a. /\ generation + 1 \in Nat /\ generation + 2 \in Nat
        /\ generation + 1 + 1 \in Nat
    BY DEF TypeOK
  <1>1. CASE ResolveLookup
    BY <1>1, <1>a, SwitchMovesStart DEF ResolveLookup, LookupSettles, StartMoves
  <1>2. CASE Boot
    BY <1>2, <1>a, SetupMovesStart DEF Boot, FallBack, NoInputFile, StartMoves
  <1>3. CASE RunImmediate \/ \E p \in Request, force \in BOOLEAN : RequestRestart(p, force)
    BY <1>3, RestartMovesStart DEF RunImmediate, RequestRestart
  <1>4. CASE LaunchSession
    BY <1>4, <1>a, SetupMovesStart DEF LaunchSession
  <1>5. CASE \E c \in comments : CommentSettles(c)
    <2>1. PICK c \in comments : CommentSettles(c)
      BY <1>5
    <2>2. c.gen \in Nat
      BY DEF TypeOK, Comment
    <2>3. QED
      BY <2>1, <2>2 DEF CommentSettles, DeliverStart, StartMoves
  <1>6. CASE \E c \in Client : Greet(c)
    BY <1>6 DEF Greet, DeliverStart, StartMoves
  <1>7. CASE Cleanup
    BY <1>7 DEF Cleanup, speechVars, StartMoves
  <1>8. CASE Signal \/ \E s \in exitTimers : ExitTimer(s)
    BY <1>7, <1>8 DEF Signal, ExitTimer, speechVars, StartMoves
  <1>9. CASE LaunchRejected
    BY <1>9 DEF LaunchRejected, StartMoves
  <1>10. CASE \/ PtyData \/ SilenceFires \/ ProcessExit
              \/ \E s \in watchers : FileChange(s)
              \/ \E s \in reads : FileData(s)
              \/ \E s \in procs : OtherPtyExit(s)
              \/ \E s \in procs : CurrentPtyExit(s)
              \/ \E c \in Client : Connect(c)
              \/ \E c \in Client : Disconnect(c)
    BY <1>10 DEF PtyData, SilenceFires, ProcessExit, FileChange, FileData,
        OtherPtyExit, CurrentPtyExit, Connect, Disconnect, speechVars, StartMoves
  <1>11. QED
    BY <1>1, <1>2, <1>3, <1>4, <1>5, <1>6, <1>8, <1>9, <1>10 DEF Step

\* The buffer's own rule: no operation of initial-start-delivery.ts leaves a
\* generation pending that was consumed or never begun, and none undoes the
\* consumption of a start that was begun.
LEMMA MovesKeepStart ==
  ASSUME TypeOK, ConsumedIsEmpty, initialStart' \in StartMoves
  PROVE  /\ ConsumedIsEmpty'
         /\ initialStart.started /\ initialStart.consumed
              => initialStart'.consumed /\ initialStart'.pending = NoGeneration
  <1> DEFINE b == initialStart
             Kept(d) == /\ d.consumed \/ ~d.started => d.pending = NoGeneration
                        /\ b.started /\ b.consumed
                             => d.consumed /\ d.pending = NoGeneration
  <1>1. b \in StartBuffer /\ (b.consumed \/ ~b.started => b.pending = NoGeneration)
    BY DEF TypeOK, ConsumedIsEmpty
  <1>2. \A d \in {b, Invalidated(b), Consumed(b)} : Kept(d)
    BY <1>1 DEF StartBuffer, Invalidated, Consumed
  <1>3. \A g \in Nat : Kept(WithCommentary(b, g)) /\ Kept(Consumed(WithCommentary(b, g)))
    BY <1>1 DEF StartBuffer, WithCommentary, Consumed
  <1>4. \A g \in Nat, n \in BOOLEAN : Kept(Begun(b, g, n))
    BY <1>1 DEF StartBuffer, Begun
  <1>5. \A g \in Nat, n \in BOOLEAN : Kept(Begun(Invalidated(b), g, n))
    BY <1>1 DEF StartBuffer, Begun, Invalidated
  <1>6. Kept(initialStart')
    BY <1>2, <1>3, <1>4, <1>5 DEF StartMoves
  <1>7. QED
    BY <1>6 DEF ConsumedIsEmpty

\* The first start is delivered, dropped or broadcast once: no restart, no
\* reconnection and no late commentary puts it back.
THEOREM StartConsumedOnce == Spec => StartConsumedForGood
  <1>1. Init => ConsumedIsEmpty
    BY DEF Init, ConsumedIsEmpty, EmptyStart
  <1>2. TypeOK /\ ConsumedIsEmpty /\ [Next]_vars
          => /\ ConsumedIsEmpty'
             /\ initialStart.started /\ initialStart.consumed
                  => initialStart'.consumed /\ initialStart'.pending = NoGeneration
    <2>1. TypeOK /\ Next => initialStart' \in StartMoves
      BY NextIsStep, StepMovesStart
    <2>2. UNCHANGED vars => initialStart' \in StartMoves
      BY DEF vars, speechVars, StartMoves
    <2>3. QED
      BY <2>1, <2>2, MovesKeepStart
  <1>3. QED
    BY <1>1, <1>2, TypeCorrect, PTL DEF Spec, StartConsumedForGood

-----------------------------------------------------------------------------
(* The profile store.                                                      *)

LEMMA EffectType ==
  ASSUME NEW store \in Store, NEW op \in Op
  PROVE  Effect(op, store) \in Store
  <1>1. CASE op \in [kind : {"create", "update"}, id : ProfileId, version : Version]
    BY <1>1 DEF Store, Effect
  <1>2. CASE op \in [kind : {"remove"}, id : ProfileId]
    BY <1>2 DEF Store, Effect
  <1>3. CASE op \in [kind : {"setActive"}, id : ProfileId \cup {NoProfile}]
    BY <1>3 DEF Store, Effect
  <1>4. QED
    BY <1>1, <1>2, <1>3 DEF Op

\* No operation that does not throw makes the active id dangle.
LEMMA EffectWellFormed ==
  ASSUME NEW store \in Store, NEW op \in Op,
         WellFormed(store), ~Throws(op, store)
  PROVE  WellFormed(Effect(op, store))
  <1>1. CASE op \in [kind : {"create", "update"}, id : ProfileId, version : Version]
    BY <1>1, MaxVersionAssumption
    DEF Store, Effect, WellFormed, Has, Throws, Version, Absent
  <1>2. CASE op \in [kind : {"remove"}, id : ProfileId]
    BY <1>2 DEF Store, Effect, WellFormed, Has, Throws
  <1>3. CASE op \in [kind : {"setActive"}, id : ProfileId \cup {NoProfile}]
    BY <1>3 DEF Store, Effect, WellFormed, Has, Throws
  <1>4. QED
    BY <1>1, <1>2, <1>3 DEF Op

LEMMA EmptyStoreFits == EmptyStore \in Store /\ WellFormed(EmptyStore)
  BY DEF EmptyStore, Store, WellFormed

\* An operation is not a read.
LEMMA OpIsNotRead == Read \notin Op
  BY DEF Read, Op

\* What a call may become when it goes on with a store.
LEMMA ProceedsType ==
  ASSUME calls \in [Caller -> Call], NEW c \in Caller, NEW op \in Op \cup {Read},
         NEW store \in Store, Proceeds(c, op, store)
  PROVE  /\ calls' \in [Caller -> Call]
         /\ \A d \in Caller \ {c} : calls'[d] = calls[d]
         /\ \/ calls'[c] = Idle
            \/ /\ op \in Op /\ ~Throws(op, store)
               /\ calls'[c] = [pc |-> "saving", store |-> Effect(op, store)]
  <1>1. CASE op = Read \/ Throws(op, store)
    BY <1>1 DEF Proceeds, Call
  <1>2. CASE ~(op = Read \/ Throws(op, store))
    <2>1. Effect(op, store) \in Store
      BY <1>2, EffectType
    <2>2. [pc |-> "saving", store |-> Effect(op, store)] \in Call
      BY <1>2, <2>1 DEF Call
    <2>3. QED
      BY <1>2, <2>2 DEF Proceeds
  <1>3. QED
    BY <1>1, <1>2

\* The fields of a call, by what it awaits.
LEMMA CallFields ==
  ASSUME NEW x \in Call
  PROVE  /\ x.pc \in {"idle", "loading", "loaded", "saving", "renamed"}
         /\ x.pc = "idle" => x = Idle
         /\ x.pc \in {"loading", "loaded"} => x.op \in Op \cup {Read}
         /\ x.pc \in {"loaded", "saving", "renamed"} => x.store \in Store
  BY DEF Call, Idle

ProfileInv == StoreTypeOK /\ AlwaysWellFormed

LEMMA StartCallKeeps ==
  ASSUME ProfileInv, NEW c \in Caller, NEW op \in Op \cup {Read}, Start(c, op)
  PROVE  ProfileInv'
  <1> USE DEF ProfileInv, StoreTypeOK, AlwaysWellFormed
  <1>u. used' \subseteq ProfileId /\ overlapped' \in BOOLEAN /\ misread' \in BOOLEAN
    BY DEF Start, Op, Read, Observed
  <1>1. CASE cache = NoStore
    <2>1. calls' = [calls EXCEPT ![c] = [pc |-> "loading", op |-> op]]
      BY <1>1 DEF Start, Called
    <2>2. [pc |-> "loading", op |-> op] \in Call
      BY DEF Call
    <2>3. QED
      BY <1>u, <2>1, <2>2 DEF Start, Called
  <1>2. CASE cache # NoStore
    <2>1. cache \in Store /\ WellFormed(cache) /\ Proceeds(c, op, cache)
      BY <1>2 DEF Start, Called
    <2>2. /\ calls' \in [Caller -> Call]
          /\ \A d \in Caller \ {c} : calls'[d] = calls[d]
          /\ \/ calls'[c] = Idle
             \/ /\ op \in Op /\ ~Throws(op, cache)
                /\ calls'[c] = [pc |-> "saving", store |-> Effect(op, cache)]
      BY <2>1, ProceedsType
    <2>3. \A d \in Caller : calls'[d].pc \in {"loaded", "saving", "renamed"}
                              => WellFormed(calls'[d].store)
      BY <2>1, <2>2, EffectWellFormed DEF Idle
    <2>4. QED
      BY <1>u, <2>2, <2>3 DEF Start, Called
  <1>3. QED
    BY <1>1, <1>2

LEMMA StoreStepKeeps == ASSUME ProfileInv, [StoreNext]_storeVars PROVE ProfileInv'
  <1> USE DEF ProfileInv, StoreTypeOK, AlwaysWellFormed, observedVars
  <1>1. ASSUME NEW c \in Caller, NEW op \in Op \cup {Read}, Start(c, op)
        PROVE  ProfileInv'
    BY <1>1, StartCallKeeps
  <1>2. ASSUME NEW c \in Caller, FileRead(c) PROVE ProfileInv'
    <2>1. calls[c].op \in Op \cup {Read}
      BY <1>2, CallFields DEF FileRead
    <2>2. PICK s \in {EmptyStore, disk} :
            /\ calls' = [calls EXCEPT ![c] = [pc |-> "loaded", op |-> calls[c].op, store |-> s]]
            /\ misread' \in BOOLEAN
      BY <1>2 DEF FileRead
    <2>3. s \in Store /\ WellFormed(s)
      BY <2>2, EmptyStoreFits
    <2>4. [pc |-> "loaded", op |-> calls[c].op, store |-> s] \in Call
      BY <2>1, <2>3 DEF Call
    <2>5. UNCHANGED <<disk, cache, used, overlapped>>
      BY <1>2 DEF FileRead
    <2>6. QED
      BY <2>2, <2>3, <2>4, <2>5
  <1>3. ASSUME NEW c \in Caller, Loaded(c) PROVE ProfileInv'
    <2>1. /\ calls[c].op \in Op \cup {Read} /\ calls[c].store \in Store
          /\ WellFormed(calls[c].store)
          /\ cache' = calls[c].store
          /\ Proceeds(c, calls[c].op, calls[c].store)
          /\ UNCHANGED <<disk, used, observedVars>>
      BY <1>3, CallFields DEF Loaded
    <2>2. /\ calls' \in [Caller -> Call]
          /\ \A d \in Caller \ {c} : calls'[d] = calls[d]
          /\ \/ calls'[c] = Idle
             \/ /\ calls[c].op \in Op /\ ~Throws(calls[c].op, calls[c].store)
                /\ calls'[c] = [pc |-> "saving",
                                store |-> Effect(calls[c].op, calls[c].store)]
      BY <2>1, ProceedsType
    <2>3. \A d \in Caller : calls'[d].pc \in {"loaded", "saving", "renamed"}
                              => WellFormed(calls'[d].store)
      BY <2>1, <2>2, EffectWellFormed DEF Idle
    <2>4. QED
      BY <2>1, <2>2, <2>3
  <1>4. ASSUME NEW c \in Caller, Renamed(c) PROVE ProfileInv'
    <2>1. calls[c].store \in Store /\ WellFormed(calls[c].store)
      BY <1>4, CallFields DEF Renamed
    <2>2. [pc |-> "renamed", store |-> calls[c].store] \in Call
      BY <2>1 DEF Call
    <2>3. QED
      BY <1>4, <2>1, <2>2 DEF Renamed
  <1>5. ASSUME NEW c \in Caller, SaveFails(c) PROVE ProfileInv'
    BY <1>5 DEF SaveFails, Call, Idle
  <1>6. ASSUME NEW c \in Caller, Persisted(c) PROVE ProfileInv'
    <2>1. calls[c].store \in Store /\ WellFormed(calls[c].store)
      BY <1>6, CallFields DEF Persisted
    <2>2. QED
      BY <1>6, <2>1 DEF Persisted, Call, Idle
  <1>7. CASE Restart
    BY <1>7 DEF Restart, Call, Idle
  <1>8. CASE UNCHANGED storeVars
    BY <1>8 DEF storeVars
  <1>9. QED
    BY <1>1, <1>2, <1>3, <1>4, <1>5, <1>6, <1>7, <1>8 DEF StoreNext

LEMMA InvHolds == StoreSpec => []ProfileInv
  <1>1. StoreInit => ProfileInv
    <2>1. ASSUME StoreInit PROVE StoreTypeOK
      BY <2>1, EmptyStoreFits DEF StoreInit, StoreTypeOK, Call
    <2>2. ASSUME StoreInit PROVE AlwaysWellFormed
      BY <2>2, EmptyStoreFits DEF StoreInit, AlwaysWellFormed, Idle
    <2>3. QED
      BY <2>1, <2>2 DEF ProfileInv
  <1>2. QED
    BY <1>1, StoreStepKeeps, PTL DEF StoreSpec

\* However operations overlap, the store's variables keep their types.
THEOREM StoreTypeCorrect == StoreSpec => []StoreTypeOK
  BY InvHolds, PTL DEF ProfileInv

\* However operations overlap, and whatever cannot be read or written, the
\* file and the cache never name an active profile that does not exist.
THEOREM StoreWellFormed == StoreSpec => []AlwaysWellFormed
  BY InvHolds, PTL DEF ProfileInv

-----------------------------------------------------------------------------
(* As long as no two operations overlap.                                   *)

\* Where the handler h is, its store and the cache are what the server goes by.
CallerInv(h) ==
  /\ calls[h].pc = "loaded" => calls[h].store = InUse
  /\ calls[h].pc = "saving" =>
       /\ cache = InUse
       /\ \E op \in Op : ~Throws(op, InUse) /\ calls[h].store = Effect(op, InUse)
  /\ calls[h].pc = "renamed" => calls[h].store = disk /\ ~misread

AloneInv ==
  ~overlapped =>
    /\ \A g, h \in Caller : calls[g] # Idle /\ calls[h] # Idle => g = h
    /\ \A h \in Caller : CallerInv(h)
    /\ CacheAgrees

\* The abstract store has the operations of this one.
LEMMA SameOperations ==
  /\ Atomic!Op = Op
  /\ \A op, s : (Atomic!Throws(op, s) <=> Throws(op, s))
                /\ Atomic!Effect(op, s) = Effect(op, s)
  /\ Atomic!Base = InUse
  BY DEF Atomic!Op, Op, Atomic!Version, Version, Atomic!Throws, Throws, Atomic!Has,
         Has, Atomic!Absent, Absent, Atomic!Effect, Effect, Atomic!Base, InUse,
         Atomic!EmptyStore, EmptyStore

\* A handler that is not idle is alone in the store.
LEMMA OthersIdle ==
  ASSUME ProfileInv, AloneInv, ~overlapped, NEW c \in Caller, calls[c].pc # "idle"
  PROVE  \A d \in Caller \ {c} : calls[d] = Idle
  BY DEF AloneInv, Idle

\* It is enough to say where that one handler has come.
LEMMA OneHandler ==
  ASSUME NEW c \in Caller, \A d \in Caller \ {c} : (calls[d] = Idle)',
         CallerInv(c)',
         (calls[c].pc \in {"idle", "loading"})' => (cache \in {NoStore, InUse})'
  PROVE  AloneInv'
  BY DEF AloneInv, CallerInv, CacheAgrees, Idle

\* A handler that goes on with what the server goes by ends, or saves what its
\* operation makes of it.
LEMMA ProceedsAlone ==
  ASSUME ProfileInv, NEW c \in Caller, NEW op \in Op \cup {Read}, InUse \in Store,
         Proceeds(c, op, InUse), cache' = InUse, InUse' = InUse
  PROVE  /\ \A d \in Caller \ {c} : calls'[d] = calls[d]
         /\ CallerInv(c)' /\ (cache \in {NoStore, InUse})'
  <1>1. /\ \A d \in Caller \ {c} : calls'[d] = calls[d]
        /\ \/ calls'[c] = Idle
           \/ /\ op \in Op /\ ~Throws(op, InUse)
              /\ calls'[c] = [pc |-> "saving", store |-> Effect(op, InUse)]
    BY ProceedsType DEF ProfileInv, StoreTypeOK
  <1>2. CASE calls'[c] = Idle
    BY <1>1, <1>2 DEF CallerInv, Idle
  <1>3. CASE op \in Op /\ ~Throws(op, InUse)
             /\ calls'[c] = [pc |-> "saving", store |-> Effect(op, InUse)]
    BY <1>1, <1>3 DEF CallerInv
  <1>4. QED
    BY <1>1, <1>2, <1>3

LEMMA StartAlone ==
  ASSUME ProfileInv, AloneInv, NEW c \in Caller, NEW op \in Op \cup {Read}, Start(c, op)
  PROVE  AloneInv' /\ UNCHANGED Atomic!vars
  <1> USE DEF ProfileInv, StoreTypeOK
  <1>u. /\ calls[c] = Idle /\ UNCHANGED <<disk, cache, misread>>
        /\ InUse' = InUse
    BY DEF Start, Called, InUse
  <1>1. SUFFICES ASSUME ~overlapped' PROVE AloneInv'
    BY <1>u DEF AloneInv, Atomic!vars
  <1>2. /\ ~overlapped
        /\ \A d \in Caller \ {c} : calls[d] = Idle \/ calls'[c] = Idle
    BY <1>1 DEF Start, Observed
  <1>3. \A d \in Caller \ {c} : calls'[d] = calls[d]
    BY DEF Start, Called, Proceeds
  <1>4. CASE calls'[c] = Idle
    <2>1. calls' = calls
      BY <1>u, <1>3, <1>4 DEF Start, Called, Proceeds
    <2>2. QED
      BY <1>u, <1>2, <2>1 DEF AloneInv, CallerInv, CacheAgrees
  <1>5. CASE calls'[c] # Idle
    <2>1. \A d \in Caller : calls[d] = Idle
      BY <1>u, <1>2, <1>5
    <2>2. cache \in {NoStore, InUse}
      BY <1>2, <2>1 DEF AloneInv, CacheAgrees, Idle
    <2>3. CASE cache = NoStore
      <3>1. calls'[c] = [pc |-> "loading", op |-> op]
        BY <2>3 DEF Start, Called
      <3>2. CallerInv(c)'
        BY <3>1 DEF CallerInv
      <3>3. QED
        BY <1>u, <1>3, <2>1, <2>3, <3>2, OneHandler
    <2>4. CASE cache # NoStore
      <3>1. cache = InUse /\ InUse \in Store /\ Proceeds(c, op, InUse)
        BY <2>2, <2>4 DEF Start, Called
      <3>2. CallerInv(c)' /\ (cache \in {NoStore, InUse})'
        BY <1>u, <3>1, ProceedsAlone
      <3>3. QED
        BY <1>3, <2>1, <3>2, OneHandler
    <2>5. QED
      BY <2>3, <2>4
  <1>6. QED
    BY <1>4, <1>5

\* A step of a handler that is alone is a step of the atomic store, or none.
LEMMA AloneStep ==
  ASSUME ProfileInv, AloneInv, [StoreNext]_storeVars
  PROVE  AloneInv' /\ [overlapped \/ Atomic!Next]_Atomic!vars
  <1> USE DEF ProfileInv, StoreTypeOK
  <1>1. ASSUME NEW c \in Caller, NEW op \in Op \cup {Read}, Start(c, op)
        PROVE  AloneInv' /\ UNCHANGED Atomic!vars
    BY <1>1, StartAlone
  <1>2. ASSUME NEW c \in Caller, FileRead(c), ~overlapped
        PROVE  AloneInv' /\ Atomic!Next
    <2>1. /\ calls[c].pc = "loading" /\ UNCHANGED disk /\ misread' \in BOOLEAN
          /\ calls' = [calls EXCEPT ![c] =
               [pc |-> "loaded", op |-> calls[c].op, store |-> InUse']]
      BY <1>2 DEF FileRead, InUse
    <2>2. \A d \in Caller \ {c} : calls'[d] = Idle
      BY <1>2, <2>1, OthersIdle
    <2>3. CallerInv(c)' /\ calls'[c].pc = "loaded"
      BY <2>1 DEF CallerInv
    <2>4. QED
      BY <2>1, <2>2, <2>3, OneHandler DEF Atomic!Next, Atomic!ReadAgain
  <1>3. ASSUME NEW c \in Caller, Loaded(c), ~overlapped
        PROVE  AloneInv' /\ UNCHANGED Atomic!vars
    <2>1. /\ calls[c].pc = "loaded" /\ calls[c].op \in Op \cup {Read}
          /\ InUse \in Store /\ calls[c].store = InUse
          /\ cache' = InUse /\ Proceeds(c, calls[c].op, InUse)
          /\ UNCHANGED <<disk, misread>>
      BY <1>3, CallFields DEF Loaded, AloneInv, CallerInv, observedVars
    <2>2. InUse' = InUse
      BY <2>1 DEF InUse
    <2>3. /\ \A d \in Caller \ {c} : calls'[d] = calls[d]
          /\ CallerInv(c)' /\ (cache \in {NoStore, InUse})'
      BY <2>1, <2>2, ProceedsAlone
    <2>4. \A d \in Caller \ {c} : calls[d] = Idle
      BY <1>3, <2>1, OthersIdle
    <2>5. QED
      BY <2>1, <2>3, <2>4, OneHandler DEF Atomic!vars
  <1>4. ASSUME NEW c \in Caller, Renamed(c), ~overlapped
        PROVE  AloneInv' /\ Atomic!Next
    <2>1. /\ calls[c].pc = "saving"
          /\ disk' = calls[c].store /\ misread' = FALSE
          /\ calls' = [calls EXCEPT ![c] = [pc |-> "renamed", store |-> calls[c].store]]
      BY <1>4 DEF Renamed
    <2>2. PICK op \in Op : ~Throws(op, InUse) /\ disk' = Effect(op, InUse)
      BY <1>4, <2>1 DEF AloneInv, CallerInv
    <2>3. Atomic!Next
      BY <2>1, <2>2, SameOperations DEF Atomic!Next, Atomic!Perform
    <2>4. \A d \in Caller \ {c} : calls'[d] = Idle
      BY <1>4, <2>1, OthersIdle
    <2>5. CallerInv(c)' /\ calls'[c].pc = "renamed"
      BY <2>1 DEF CallerInv
    <2>6. QED
      BY <2>3, <2>4, <2>5, OneHandler
  <1>5. ASSUME NEW c \in Caller, SaveFails(c), ~overlapped
        PROVE  AloneInv' /\ UNCHANGED Atomic!vars
    <2>1. /\ calls[c].pc = "saving" /\ UNCHANGED <<disk, cache, misread>>
          /\ calls' = [calls EXCEPT ![c] = Idle]
          /\ cache = InUse
      BY <1>5 DEF SaveFails, observedVars, AloneInv, CallerInv
    <2>2. \A d \in Caller \ {c} : calls'[d] = Idle
      BY <1>5, <2>1, OthersIdle
    <2>3. CallerInv(c)' /\ cache' = InUse'
      BY <2>1 DEF CallerInv, Idle, InUse
    <2>4. QED
      BY <2>1, <2>2, <2>3, OneHandler DEF Atomic!vars
  <1>6. ASSUME NEW c \in Caller, Persisted(c), ~overlapped
        PROVE  AloneInv' /\ UNCHANGED Atomic!vars
    <2>1. /\ calls[c].pc = "renamed" /\ UNCHANGED <<disk, misread>>
          /\ calls' = [calls EXCEPT ![c] = Idle]
          /\ cache' = disk /\ ~misread
      BY <1>6 DEF Persisted, observedVars, AloneInv, CallerInv
    <2>2. \A d \in Caller \ {c} : calls'[d] = Idle
      BY <1>6, <2>1, OthersIdle
    <2>3. CallerInv(c)' /\ cache' = InUse'
      BY <2>1 DEF CallerInv, Idle, InUse
    <2>4. QED
      BY <2>1, <2>2, <2>3, OneHandler DEF Atomic!vars
  <1>7. CASE Restart
    <2>1. AloneInv'
      BY <1>7 DEF Restart, AloneInv, CallerInv, CacheAgrees, Idle
    <2>2. Atomic!Next
      BY <1>7 DEF Restart, Atomic!Next, Atomic!ReadAgain
    <2>3. QED
      BY <2>1, <2>2
  <1>8. CASE UNCHANGED storeVars
    BY <1>8 DEF storeVars, observedVars, AloneInv, CallerInv, CacheAgrees, InUse, Atomic!vars
  <1>9. CASE overlapped /\ StoreNext /\ ~Restart
    <2>1. overlapped'
      BY <1>9 DEF StoreNext, Start, Observed, FileRead, Loaded, Renamed, SaveFails,
                  Persisted, observedVars
    <2>2. QED
      BY <1>9, <2>1 DEF AloneInv
  <1>10. CASE \E c \in Caller : \E op \in Op \cup {Read} : Start(c, op)
    BY <1>1, <1>10
  <1>11. QED
    BY <1>2, <1>3, <1>4, <1>5, <1>6, <1>7, <1>8, <1>9, <1>10 DEF StoreNext

LEMMA AloneHolds == StoreSpec => []AloneInv
  <1>1. StoreInit => AloneInv
    BY DEF StoreInit, AloneInv, CallerInv, CacheAgrees, Idle
  <1>2. QED
    BY <1>1, AloneStep, InvHolds, PTL DEF StoreSpec

\* As long as no two operations overlap the file is an atomic store: failed
\* writes and restarts lose nothing and invent nothing, and a failed read
\* starts an empty store, which replaces the file only with the next change.
THEOREM AloneIsAtomic == StoreSpec => IsAtomic
  <1>1. StoreInit => Atomic!Init
    BY DEF StoreInit, Atomic!Init, Atomic!EmptyStore, EmptyStore, Atomic!Absent, Absent
  <1>2. QED
    BY <1>1, AloneStep, AloneHolds, InvHolds, PTL DEF StoreSpec, IsAtomic

\* As long as no two operations overlap, what is served from memory is what
\* the file holds, or an empty store after a failed read.
THEOREM AloneCacheAgrees == StoreSpec => []CacheAgrees
  <1>1. AloneInv => CacheAgrees
    BY DEF AloneInv, CacheAgrees
  <1>2. QED
    BY <1>1, AloneHolds, PTL

-----------------------------------------------------------------------------
(* The file tail.                                                          *)

\* Every variable keeps its type, whatever the writer does to the file.
THEOREM TailTypeCorrect == TailSpec => []TailTypeOK
<1>1. TailInit => TailTypeOK
  <2> SUFFICES ASSUME TailInit PROVE TailTypeOK
    OBVIOUS
  <2>1. written \in Nat
    BY BoundAssumption DEF TailInit
  <2>2. changed \in BOOLEAN /\ repeated \in BOOLEAN /\ failed \in BOOLEAN
    BY Zenon DEF TailInit
  <2>3. base \in Nat /\ base <= written /\ position \in Nat /\ found \in Nat
        /\ first \in Nat
    BY <2>1 DEF TailInit
  <2>4. phase \in {"new", "shown", "watching", "stopped"}
        /\ reading \in {"no", "stat", "stream"} /\ emitted \subseteq Nat
    BY DEF TailInit
  <2>5. QED
    BY <2>1, <2>2, <2>3, <2>4 DEF TailTypeOK
<1>2. TailTypeOK /\ [TailNext]_tailVars => TailTypeOK'
  <2> SUFFICES ASSUME TailTypeOK, [TailNext]_tailVars PROVE TailTypeOK'
    OBVIOUS
  <2> USE DEF TailTypeOK, Size, Emit, fileVars, readVars, dataVars
  <2>1. CASE Write
    BY <2>1 DEF Write
  <2>2. CASE Truncate
    BY <2>2 DEF Truncate
  <2>3. CASE Show
    <3>1. ShownFrom \in Nat /\ ShownFrom .. written \subseteq Nat
      BY TailLinesAssumption DEF ShownFrom
    <3>2. QED
      BY <2>3, <3>1 DEF Show
  <2>4. CASE Watch
    BY <2>4 DEF Watch
  <2>5. CASE Change
    BY <2>5 DEF Change
  <2>6. CASE Stat
    BY <2>6 DEF Stat
  <2>7. CASE StreamEnds
    <3>1. Chunk \subseteq Nat
      BY DEF Chunk, MinOf
    <3>2. QED
      BY <2>7, <3>1 DEF StreamEnds
  <2>8. CASE ReadFails
    BY <2>8 DEF ReadFails
  <2>9. CASE Stop
    BY <2>9 DEF Stop
  <2>10. CASE UNCHANGED tailVars
    BY <2>10 DEF tailVars
  <2>11. QED
    BY <2>1, <2>2, <2>3, <2>4, <2>5, <2>6, <2>7, <2>8, <2>9, <2>10 DEF TailNext
<1>3. QED
  BY <1>1, <1>2, PTL DEF TailSpec

\* Until a truncation the read position, the size that was found and the end
\* of the file stay in order.
THEOREM TailInvariant == TailSpec => []TailInv
<1>1. TailInit => TailInv
  BY BoundAssumption DEF TailInit, TailInv, ExactlyTheReadLines
<1>2. TailTypeOK /\ TailInv /\ [TailNext]_tailVars => TailInv'
  <2> SUFFICES ASSUME TailTypeOK, TailInv, [TailNext]_tailVars, base' = 0
               PROVE  /\ position' <= written'
                      /\ reading' = "stream" => position' <= found' /\ found' <= written'
                      /\ phase' = "new" => reading' = "no" /\ emitted' = {}
                      /\ phase' # "new" => first' >= 1 /\ first' <= position' + 1
                      /\ ~repeated'
                      /\ phase' # "new" => emitted' = first' .. position'
    BY DEF TailInv, ExactlyTheReadLines
  <2> USE DEF TailTypeOK, TailInv, ExactlyTheReadLines, Size, fileVars, readVars, dataVars
  <2>1. CASE Write
    BY <2>1 DEF Write
  <2>2. CASE Truncate
    BY <2>2 DEF Truncate
  <2>3. CASE Show
    <3>1. base = 0 /\ emitted = {} /\ reading = "no"
      BY <2>3 DEF Show
    <3>2. ShownFrom \in Nat /\ ShownFrom >= 1 /\ ShownFrom <= written + 1
      BY <3>1, TailLinesAssumption DEF ShownFrom
    <3>3. ~repeated' /\ emitted' = ShownFrom .. written
      BY <2>3, <3>1 DEF Show, Emit
    <3>4. QED
      BY <2>3, <3>1, <3>2, <3>3 DEF Show
  <2>4. CASE Watch
    BY <2>4 DEF Watch
  <2>5. CASE Change
    BY <2>5 DEF Change
  <2>6. CASE Stat
    BY <2>6 DEF Stat
  <2>7. CASE StreamEnds
    <3>1. base = 0 /\ phase # "new" /\ position <= found /\ found <= written
      BY <2>7 DEF StreamEnds
    <3>2. Chunk = (position + 1) .. found
      BY <3>1 DEF Chunk, MinOf
    <3>3. Chunk \cap emitted = {}
      BY <3>1, <3>2
    <3>4. emitted \cup Chunk = first .. found
      BY <3>1, <3>2
    <3>5. QED
      BY <2>7, <3>1, <3>3, <3>4 DEF StreamEnds, Emit
  <2>8. CASE ReadFails
    BY <2>8 DEF ReadFails
  <2>9. CASE Stop
    BY <2>9 DEF Stop
  <2>10. CASE UNCHANGED tailVars
    BY <2>10 DEF tailVars
  <2>11. QED
    BY <2>1, <2>2, <2>3, <2>4, <2>5, <2>6, <2>7, <2>8, <2>9, <2>10 DEF TailNext
<1>3. QED
  BY <1>1, <1>2, TailTypeCorrect, PTL DEF TailSpec

\* Until a truncation, no ignored event, failing read or stop makes the tail
\* skip a line or emit one twice.
THEOREM NothingSkippedOrRepeated == TailSpec => []ExactlyTheReadLines
<1>1. TailInv => ExactlyTheReadLines
  BY DEF TailInv, ExactlyTheReadLines
<1>2. QED
  BY <1>1, TailInvariant, PTL

-----------------------------------------------------------------------------
(* The history of sessions on disk.                                        *)

\* One named disjunct of the next-state relation.
HistoryStep ==
  \/ \E c \in HistoryCaller : Ask(c)
  \/ \E c \in HistoryCaller : Create(c)
  \/ \E c \in HistoryCaller : ListCreated(c)
  \/ \E c \in HistoryCaller : AppendBegins(c)
  \/ \E c \in HistoryCaller : Enforce(c)
  \/ \E c \in HistoryCaller : PruneOne(c)
  \/ \E c \in HistoryCaller : StorageLimit(c)
  \/ \E c \in HistoryCaller : Pruned(c)
  \/ \E c \in HistoryCaller : AppendFile(c)
  \/ \E c \in HistoryCaller : Count(c)
  \/ \E c \in HistoryCaller : EndSession(c)
  \/ \E c \in HistoryCaller : Delete(c)
  \/ \E c \in HistoryCaller : Unlist(c)
  \/ \E c \in HistoryCaller : DeleteAll(c)
  \/ \E c \in HistoryCaller : RemoveEntry(c)
  \/ \E c \in HistoryCaller : TreeRemoved(c)
  \/ \E c \in HistoryCaller : Update(c)
  \/ \E c \in HistoryCaller : SaveSettings(c)
  \/ \E c \in HistoryCaller : DiskError(c)
  \/ \E c \in HistoryCaller : AppendFails(c)
  \/ Crash
  \/ Tick

LEMMA NextIsHistoryStep == HistoryNext => HistoryStep
  BY DEF HistoryNext, Serve, HistoryStep

-----------------------------------------------------------------------------
(* Functions from some of the session ids.                                 *)

LEMMA PerSessionFacts ==
  ASSUME NEW V, NEW f
  PROVE  PerSession(f, V) <=> f \in [DOMAIN f -> V] /\ DOMAIN f \subseteq SessionId
  BY DEF PerSession

LEMMA NoSessions ==
  ASSUME NEW V
  PROVE  PerSession(<<>>, V) /\ DOMAIN <<>> = {}
  BY DEF PerSession

LEMMA WithType ==
  ASSUME NEW V, NEW f, PerSession(f, V), NEW i \in SessionId, NEW v \in V
  PROVE  PerSession(With(f, i, v), V)
  BY PerSessionFacts DEF With

LEMMA WithoutType ==
  ASSUME NEW V, NEW f, PerSession(f, V), NEW i
  PROVE  PerSession(Without(f, i), V)
  BY PerSessionFacts DEF Without

\* What endSession, and disabling, leave of the manifest.
LEMMA AbortedFacts ==
  ASSUME NEW m, PerSession(m, Session), now \in Nat
  PROVE  /\ PerSession(Aborted(m), Session)
         /\ DOMAIN Aborted(m) = DOMAIN m
         /\ \A i \in DOMAIN m : Aborted(m)[i].count = m[i].count
         /\ Active(Aborted(m)) = {}
  <1>1. m \in [DOMAIN m -> Session] /\ DOMAIN m \subseteq SessionId
    BY PerSessionFacts
  <1>2. Aborted(m) \in [DOMAIN m -> Session]
    BY <1>1 DEF Aborted, Session
  <1>3. /\ DOMAIN Aborted(m) = DOMAIN m
        /\ \A i \in DOMAIN m : /\ Aborted(m)[i].count = m[i].count
                               /\ Aborted(m)[i].status # "active"
    BY <1>1 DEF Aborted, Session
  <1>4. QED
    BY <1>1, <1>2, <1>3, PerSessionFacts DEF Active

LEMMA EndedFacts ==
  ASSUME NEW m, PerSession(m, Session), now \in Nat, NEW i \in DOMAIN m,
         NEW status \in {"completed", "aborted"}
  PROVE  LET e == Ended(m, i, status)
         IN /\ PerSession(e, Session)
            /\ DOMAIN e = DOMAIN m
            /\ \A j \in DOMAIN m : e[j].count = m[j].count
            /\ Active(e) \subseteq Active(m)
  <1> DEFINE e == Ended(m, i, status)
  <1>1. m \in [DOMAIN m -> Session] /\ DOMAIN m \subseteq SessionId
    BY PerSessionFacts
  <1>2. /\ e \in [DOMAIN m -> Session] /\ DOMAIN e = DOMAIN m
        /\ \A j \in DOMAIN m : /\ e[j].count = m[j].count
                               /\ e[j].status = "active" => m[j].status = "active"
    BY <1>1 DEF Session, Ended
  <1> HIDE DEF e
  <1>3. QED
    BY <1>1, <1>2, PerSessionFacts DEF Active, e

LEMMA CountedFacts ==
  ASSUME NEW m, PerSession(m, Session), NEW i, NEW size \in Nat
  PROVE  LET e == Counted(m, i, size)
         IN /\ PerSession(e, Session)
            /\ DOMAIN e = DOMAIN m
            /\ i \in DOMAIN m => e[i].count = m[i].count + 1
            /\ \A j \in DOMAIN m \ {i} : e[j] = m[j]
            /\ Active(e) = Active(m)
  <1> DEFINE e == Counted(m, i, size)
  <1>1. m \in [DOMAIN m -> Session] /\ DOMAIN m \subseteq SessionId
    BY PerSessionFacts
  <1> DEFINE s == m[i]
             r == [s EXCEPT !.count = @ + 1]
             t == [r EXCEPT !.bytes = @ + size]
  <1>2. ASSUME i \in DOMAIN m
        PROVE  t \in Session /\ t.count = s.count + 1 /\ t.status = s.status
    <2>1. s \in Session
      BY <1>1, <1>2
    <2>2. r \in Session /\ r.count = s.count + 1 /\ r.status = s.status
      BY <2>1 DEF Session
    <2> HIDE DEF r
    <2>3. QED
      BY <2>2 DEF Session
  <1>3. e = [m EXCEPT ![i] = t]
    BY <1>1 DEF Counted
  <1> HIDE DEF e, t
  <1>4. /\ e \in [DOMAIN m -> Session] /\ DOMAIN e = DOMAIN m
        /\ i \in DOMAIN m => e[i].count = m[i].count + 1
        /\ \A j \in DOMAIN m \ {i} : e[j] = m[j]
        /\ \A j \in DOMAIN m : e[j].status = m[j].status
    BY <1>1, <1>2, <1>3
  <1>5. QED
    BY <1>1, <1>4, PerSessionFacts DEF Active, e

\* A cleared tail and a cut one are files.
LEMMA FileTypes ==
  ASSUME PerSession(files, File), NEW i \in SessionId
  PROVE  /\ FileOf(i) \in File
         /\ Appended(FileOf(i)) \in File
         /\ \A tail \in {"part", "whole"} : Torn(FileOf(i), tail) \in File
  <1>1. EmptyFile \in File
    BY DEF EmptyFile, File
  <1>2. FileOf(i) \in File
    BY <1>1, PerSessionFacts DEF FileOf
  <1>3. ASSUME NEW f \in File PROVE Appended(f) \in File
    <2>1. CASE f.tail = "none"
      BY <2>1 DEF File, Appended
    <2>2. CASE f.tail # "none"
      BY <2>2 DEF File, Appended
    <2>3. QED
      BY <2>1, <2>2
  <1>4. ASSUME NEW f \in File, NEW tail \in {"part", "whole"} PROVE Torn(f, tail) \in File
    BY DEF File, Torn
  <1>5. QED
    BY <1>2, <1>3, <1>4

LEMMA PatchTypes ==
  ASSUME NEW s \in Settings, NEW p \in Patches
  PROVE  Patched(s, p) \in Settings
  BY PatchesAssumption DEF Settings, Patched

LEMMA DefaultsType == Defaults \in Settings /\ ~Defaults.enabled
  BY SizesAssumption DEF Defaults, Settings

\* What a read returns that may have failed.
LEMMA ReadTypes ==
  ASSUME HistoryTypeOK, NEW unread
  PROVE  /\ ReadSettings(unread) \in Settings
         /\ ReadSettings(unread).enabled => ReadSettings(unread) = settings
         /\ unread = {} => ReadSettings(unread) = settings /\ ReadManifest(unread) = manifest
         /\ PerSession(ReadManifest(unread), Session)
         /\ ReadManifest(unread) \in {manifest, <<>>}
         /\ Active(ReadManifest(unread)) # {} => ReadManifest(unread) = manifest
  <1>1. PerSession(<<>>, Session) /\ Active(<<>>) = {}
    BY NoSessions DEF Active
  <1>2. QED
    BY <1>1, DefaultsType DEF HistoryTypeOK, ReadSettings, ReadManifest

LEMMA MayFailType ==
  ASSUME faults \in Nat, NEW unread, MayFail(unread)
  PROVE  faults' \in Nat
  BY DEF MayFail

-----------------------------------------------------------------------------
(* What a step makes of the callers: the lock's holder goes on or returns. *)

Turns(c) ==
  /\ HoldsLock(c)
  /\ \/ Return(c)
     \/ /\ \E r : IsCall(r) /\ call' = [call EXCEPT ![c] = r]
        /\ UNCHANGED queue

\* Idle, queued and running calls are told apart by how far they got.
LEMMA CallKinds ==
  /\ Free # Queued
  /\ \A r : IsCall(r) => r # Free /\ r # Queued
  BY DEF Free, Queued, IsCall, Steps

LEMMA RunningCall ==
  ASSUME HistoryTypeOK, NEW c \in HistoryCaller, Running(c)
  PROVE  IsCall(call[c]) /\ c \in DOMAIN call
  BY DEF HistoryTypeOK, Running

LEMMA GoOnTurns ==
  ASSUME HistoryTypeOK, NEW c \in HistoryCaller, Running(c), NEW step \in Steps,
         NEW m, PerSession(m, Session), GoOn(c, step, m)
  PROVE  /\ Turns(c) /\ UNCHANGED queue
         /\ call'[c].req = Req(c) /\ call'[c].at = step /\ call'[c].m = m
         /\ call'[c].by = call[c].by
  <1>1. IsCall(call[c]) /\ c \in DOMAIN call
    BY RunningCall
  <1> DEFINE x == call[c]
             a == [x EXCEPT !.at = step]
             r == [a EXCEPT !.m = m]
  <1>2. /\ DOMAIN a = DOMAIN x /\ a.at = step /\ a.req = x.req /\ a.since = x.since
        /\ a.by = x.by
    BY <1>1 DEF IsCall
  <1>3. /\ DOMAIN r = DOMAIN x /\ r.at = step /\ r.req = x.req /\ r.since = x.since /\ r.m = m
        /\ r.by = x.by
    BY <1>1, <1>2 DEF IsCall
  <1>4. call' = [call EXCEPT ![c] = r]
    BY <1>1 DEF GoOn
  <1> HIDE DEF r
  <1>5. IsCall(r) /\ call'[c] = r
    BY <1>1, <1>3, <1>4 DEF IsCall
  <1>6. QED
    BY <1>3, <1>4, <1>5 DEF Turns, Running, GoOn, Req

LEMMA GoesTurns ==
  ASSUME HistoryTypeOK, NEW c \in HistoryCaller, Begins(c), NEW step \in Steps,
         NEW q \in Requests, NEW m, PerSession(m, Session), NEW by \in Settings,
         Goes(c, q, step, m, by)
  PROVE  /\ Turns(c) /\ UNCHANGED queue
         /\ call'[c].req = q /\ call'[c].at = step /\ call'[c].m = m /\ call'[c].by = by
  <1> DEFINE r == [req |-> q, at |-> step, m |-> m, by |-> by,
                   since |-> IF step = "prune" THEN now ELSE 0]
  <1>1. IsCall(r)
    BY DEF IsCall, HistoryTypeOK
  <1>2. call' = [call EXCEPT ![c] = r] /\ c \in DOMAIN call
    BY DEF Goes, HistoryTypeOK
  <1>3. call'[c].req = q /\ call'[c].at = step /\ call'[c].m = m /\ call'[c].by = by
    BY <1>2
  <1> HIDE DEF r
  <1>4. QED
    BY <1>1, <1>2, <1>3 DEF Turns, Begins, Goes

LEMMA ReturnTurns ==
  ASSUME NEW c, HoldsLock(c), Return(c) PROVE Turns(c)
  BY DEF Turns

\* The callers after a turn.
LEMMA TurnTyped ==
  ASSUME HistoryTypeOK, NEW c \in HistoryCaller, Turns(c)
  PROVE  /\ DOMAIN call' = HistoryCaller
         /\ \A d \in HistoryCaller : call'[d] \in {Free, Queued} \/ IsCall(call'[d])
         /\ queue' \in Seq(HistoryCaller)
  <1>1. CASE Return(c)
    BY <1>1 DEF Turns, HoldsLock, Return, Resolved, HistoryTypeOK
  <1>2. CASE /\ \E r : IsCall(r) /\ call' = [call EXCEPT ![c] = r]
             /\ UNCHANGED queue
    <2>1. PICK r : IsCall(r) /\ call' = [call EXCEPT ![c] = r]
      BY <1>2
    <2>2. QED
      BY <1>2, <2>1 DEF HistoryTypeOK
  <1>3. QED
    BY <1>1, <1>2 DEF Turns

LEMMA StepTurns ==
  ASSUME HistoryTypeOK, HistoryStep
  PROVE  \/ \E c \in HistoryCaller : Ask(c) \/ Turns(c)
         \/ Crash
         \/ UNCHANGED <<call, queue>>
  <1> USE DEF Requests, Steps
  <1>a. /\ PerSession(manifest, Session) /\ PerSession(<<>>, Session)
        /\ settings \in Settings
    BY NoSessions DEF HistoryTypeOK
  <1>b. \A c : (\E step : At(c, step)) => Running(c) /\ HoldsLock(c)
    BY DEF At, Running
  <1>c. \A c : Begins(c) => HoldsLock(c)
    BY DEF Begins
  <1>1. ASSUME NEW c \in HistoryCaller, Create(c) PROVE Turns(c)
    <2>1. CASE Return(c)
      BY <1>1, <1>c, <2>1, ReturnTurns DEF Create
    <2>2. CASE \E i \in SessionId : Goes(c, [op |-> "create", id |-> i], "list", <<>>, settings)
      <3>1. PICK i \in SessionId : Goes(c, [op |-> "create", id |-> i], "list", <<>>, settings)
        BY <2>2
      <3>2. [op |-> "create", id |-> i] \in Requests
        OBVIOUS
      <3>3. QED
        BY <1>1, <1>a, <3>1, <3>2, GoesTurns DEF Create
    <2>3. QED
      BY <1>1, <2>1, <2>2 DEF Create
  <1>2. ASSUME NEW c \in HistoryCaller, AppendBegins(c) PROVE Turns(c)
    <2>1. PICK r \in [op : {"append"}, id : SessionId, size : Sizes] :
            Goes(c, r, "prune", manifest, settings) \/ Return(c)
      BY <1>2 DEF AppendBegins
    <2>2. r \in Requests
      OBVIOUS
    <2>3. QED
      BY <1>2, <1>a, <1>c, <2>1, <2>2, GoesTurns, ReturnTurns DEF AppendBegins
  <1>3. ASSUME NEW c \in HistoryCaller, Enforce(c) PROVE Turns(c)
    <2>1. [op |-> "enforce"] \in Requests
      OBVIOUS
    <2>2. PICK unread : Goes(c, [op |-> "enforce"], "prune", ReadManifest(unread),
                             ReadSettings(unread))
      BY <1>3 DEF Enforce
    <2>3. PerSession(ReadManifest(unread), Session) /\ ReadSettings(unread) \in Settings
      BY ReadTypes
    <2>4. QED
      BY <1>3, <2>1, <2>2, <2>3, GoesTurns DEF Enforce
  <1>4. ASSUME NEW c \in HistoryCaller, Delete(c) PROVE Turns(c)
    <2>1. [op |-> "delete"] \in Requests
      OBVIOUS
    <2>2. \A i : PerSession(Without(manifest, i), Session)
      BY <1>a, WithoutType
    <2>3. CASE Return(c)
      BY <1>4, <1>c, <2>3, ReturnTurns DEF Delete
    <2>4. ASSUME NEW step \in Steps, NEW m, PerSession(m, Session),
                 Goes(c, [op |-> "delete"], step, m, settings)
          PROVE  Turns(c)
      BY <1>4, <1>a, <2>1, <2>4, GoesTurns DEF Delete
    <2>5. ASSUME NEW i \in SessionId,
                 Goes(c, [op |-> "delete"], IF DOMAIN manifest = {i} THEN "tree" ELSE "unlist",
                      Without(manifest, i), settings)
          PROVE  Turns(c)
      <3>1. PICK step, m : /\ step = IF DOMAIN manifest = {i} THEN "tree" ELSE "unlist"
                           /\ m = Without(manifest, i)
        OBVIOUS
      <3>2. Goes(c, [op |-> "delete"], step, m, settings)
        BY <2>5, <3>1
      <3>3. step \in Steps /\ PerSession(m, Session)
        BY <2>2, <3>1
      <3>4. QED
        BY <2>4, <3>2, <3>3
    <2>6. QED
      BY <1>4, <2>3, <2>5 DEF Delete
  <1>5. ASSUME NEW c \in HistoryCaller, DeleteAll(c) PROVE Turns(c)
    <2>1. [op |-> "deleteAll"] \in Requests
      OBVIOUS
    <2>2. QED
      BY <1>5, <1>a, <2>1, GoesTurns DEF DeleteAll
  <1>6. ASSUME NEW c \in HistoryCaller, Update(c) PROVE Turns(c)
    <2>1. PICK p \in Patches, unread \in SUBSET {"settings", "manifest"} :
            \/ Goes(c, [op |-> "settings"], "settings", <<>>,
                    Patched(ReadSettings(unread), p))
            \/ Return(c)
      BY <1>6 DEF Update
    <2>2. [op |-> "settings"] \in Requests
      OBVIOUS
    <2>3. Patched(ReadSettings(unread), p) \in Settings
      BY ReadTypes, PatchTypes
    <2>4. QED
      BY <1>6, <1>a, <1>c, <2>1, <2>2, <2>3, GoesTurns, ReturnTurns DEF Update
  <1>7. ASSUME NEW c \in HistoryCaller, PruneOne(c) \/ Pruned(c) \/ AppendFile(c) PROVE Turns(c)
    <2>1. Running(c)
      BY <1>7, <1>b DEF PruneOne, Pruned, AppendFile
    <2>2. PerSession(call[c].m, Session)
      BY <2>1, RunningCall DEF IsCall
    <2>3. \A i : PerSession(Without(call[c].m, i), Session)
      BY <2>2, WithoutType
    <2>4. \/ Return(c)
          \/ \E step \in {"prune", "append", "count"} :
               \/ GoOn(c, step, call[c].m)
               \/ \E i : GoOn(c, step, Without(call[c].m, i))
      BY <1>7 DEF PruneOne, Pruned, AppendFile
    <2>5. QED
      BY <1>b, <2>1, <2>2, <2>3, <2>4, GoOnTurns, ReturnTurns DEF Running
  <1>8. ASSUME NEW c \in HistoryCaller,
               \/ ListCreated(c) \/ StorageLimit(c) \/ Count(c) \/ EndSession(c)
               \/ Unlist(c) \/ TreeRemoved(c) \/ SaveSettings(c) \/ DiskError(c)
               \/ AppendFails(c)
        PROVE  Turns(c)
    <2>1. Return(c)
      BY <1>8 DEF ListCreated, StorageLimit, Count, EndSession, Unlist, TreeRemoved,
                  SaveSettings, DiskError, AppendFails
    <2>2. HoldsLock(c)
      BY <1>8, <1>b, <1>c
      DEF ListCreated, StorageLimit, Count, EndSession, Unlist, TreeRemoved,
          SaveSettings, DiskError, AppendFails, Running
    <2>3. QED
      BY <2>1, <2>2, ReturnTurns
  <1>9. CASE Tick \/ \E c \in HistoryCaller : RemoveEntry(c)
    BY <1>9 DEF Tick, RemoveEntry
  <1>10. QED
    BY <1>1, <1>2, <1>3, <1>4, <1>5, <1>6, <1>7, <1>8, <1>9 DEF HistoryStep

-----------------------------------------------------------------------------
(* Types.                                                                  *)

\* The disk, the clock and what was observed, typed.
DataTypes ==
  /\ now \in Nat /\ faults \in Nat
  /\ settings \in Settings
  /\ PerSession(manifest, Session) /\ PerSession(files, File)
  /\ issued \subseteq SessionId /\ acked \in [SessionId -> Nat]
  /\ damaged \subseteq SessionId /\ dropped \subseteq SessionId
  /\ forgotten \subseteq SessionId /\ overlooked \subseteq SessionId

\* The request of the operation under way.
LEMMA RequestTypes ==
  ASSUME HistoryTypeOK, NEW c \in HistoryCaller, Running(c)
  PROVE  /\ Req(c) \in Requests
         /\ PerSession(call[c].m, Session)
         /\ Req(c).op \in {"append", "create"} => Req(c).id \in SessionId
         /\ Req(c).op = "append" => Req(c).size \in Sizes
         /\ call[c].by \in Settings
  <1>1. Req(c) \in Requests /\ PerSession(call[c].m, Session) /\ call[c].by \in Settings
    BY RunningCall DEF IsCall, Req
  <1>2. QED
    BY <1>1 DEF Requests

LEMMA HistoryStepTyped ==
  ASSUME HistoryTypeOK, NothingChangesMeanwhile, HistoryStep
  PROVE  HistoryTypeOK'
  <1> USE DEF DataTypes, listing
  <1>a. DataTypes
    BY DEF HistoryTypeOK
  <1>b. \A c : (\E step : At(c, step)) => Running(c)
    BY DEF At
  <1>c. ASSUME NEW c \in HistoryCaller, At(c, "append") \/ At(c, "count")
        PROVE  Req(c).id \in SessionId /\ Req(c).size \in Nat
    <2>1. Running(c) /\ Req(c).op = "append"
      BY <1>c DEF At, NothingChangesMeanwhile, Holding
    <2>2. QED
      BY <2>1, RequestTypes, SizesAssumption
  <1>1. DataTypes'
    <2>1. CASE \/ Tick
               \/ \E c \in HistoryCaller : \/ Ask(c) \/ AppendBegins(c) \/ Enforce(c)
                                    \/ StorageLimit(c) \/ TreeRemoved(c) \/ DiskError(c)
      BY <1>a, <2>1, MayFailType
      DEF Tick, Ask, AppendBegins, Enforce, StorageLimit, TreeRemoved, DiskError,
          stored, history
    <2>2. ASSUME NEW c \in HistoryCaller, Create(c) PROVE DataTypes'
      <3>1. EmptyFile \in File
        BY DEF EmptyFile, File
      <3>2. \A i \in SessionId : PerSession(With(files, i, EmptyFile), File)
        BY <1>a, <3>1, WithType
      <3>3. QED
        BY <1>a, <2>2, <3>2, MayFailType DEF Create
    <2>3. ASSUME NEW c \in HistoryCaller, ListCreated(c) PROVE DataTypes'
      <3>1. Req(c).id \in SessionId
        BY <2>3, RequestTypes DEF ListCreated, At, NothingChangesMeanwhile, Holding
      <3>2. NewSession \in Session
        BY <1>a DEF NewSession, Session
      <3>3. PICK m : /\ PerSession(m, Session)
                     /\ manifest' = With(m, Req(c).id, NewSession)
        BY <2>3, ReadTypes DEF ListCreated
      <3>4. PerSession(manifest', Session) /\ faults' \in Nat
        BY <1>a, <2>3, <3>1, <3>2, <3>3, WithType, MayFailType DEF ListCreated
      <3>5. DOMAIN manifest \subseteq SessionId
        BY <1>a, PerSessionFacts
      <3>6. QED
        BY <1>a, <2>3, <3>4, <3>5 DEF ListCreated
    <2>4. ASSUME NEW c \in HistoryCaller, PruneOne(c) PROVE DataTypes'
      <3>1. \A i : PerSession(Without(files, i), File)
        BY <1>a, WithoutType
      <3>2. Prunable(c) \subseteq SessionId
        BY <2>4, RequestTypes, PerSessionFacts
        DEF PruneOne, At, Prunable, Oldest, Candidates
      <3>3. QED
        BY <1>a, <2>4, <3>1, <3>2 DEF PruneOne
    <2>5. ASSUME NEW c \in HistoryCaller, Pruned(c) \/ Unlist(c) PROVE DataTypes'
      <3>1. PerSession(call[c].m, Session)
        BY <1>b, <2>5, RequestTypes DEF Pruned, Unlist
      <3>2. DOMAIN manifest \subseteq SessionId
        BY <1>a, PerSessionFacts
      <3>3. QED
        BY <1>a, <2>5, <3>1, <3>2 DEF Pruned, Unlist, history
    <2>6. ASSUME NEW c \in HistoryCaller, AppendFile(c) PROVE DataTypes'
      <3>1. PerSession(With(files, Req(c).id, Appended(FileOf(Req(c).id))), File)
        BY <1>a, <1>c, <2>6, FileTypes, WithType DEF AppendFile
      <3>2. QED
        BY <1>a, <2>6, <3>1 DEF AppendFile, history
    <2>7. ASSUME NEW c \in HistoryCaller, Count(c) PROVE DataTypes'
      <3>1. PerSession(call[c].m, Session) /\ Req(c).size \in Nat
        BY <1>b, <1>c, <2>7, RequestTypes DEF Count
      <3>2. PerSession(manifest', Session)
        BY <2>7, <3>1, CountedFacts DEF Count
      <3>3. acked' \in [SessionId -> Nat]
        BY <1>a, <1>c, <2>7 DEF Count
      <3>4. QED
        BY <1>a, <2>7, <3>2, <3>3 DEF Count
    <2>8. ASSUME NEW c \in HistoryCaller, EndSession(c) PROVE DataTypes'
      <3>1. PICK i \in SessionId, status \in {"completed", "aborted"}, unread \in SUBSET {"manifest"} :
              manifest' = IF i \in Active(ReadManifest(unread))
                          THEN Ended(manifest, i, status) ELSE manifest
        BY <2>8 DEF EndSession
      <3>2. i \in Active(ReadManifest(unread)) => i \in DOMAIN manifest
        BY ReadTypes DEF Active
      <3>3. PerSession(manifest', Session) /\ faults' \in Nat
        BY <1>a, <2>8, <3>1, <3>2, EndedFacts, MayFailType DEF EndSession
      <3>4. QED
        BY <1>a, <2>8, <3>3 DEF EndSession, stored, history
    <2>9. ASSUME NEW c \in HistoryCaller, Delete(c) PROVE DataTypes'
      <3>1. \A i : PerSession(Without(files, i), File)
        BY <1>a, WithoutType
      <3>2. DOMAIN files \subseteq SessionId /\ faults' \in Nat
        BY <1>a, <2>9, PerSessionFacts, MayFailType DEF Delete
      <3>3. QED
        BY <1>a, <2>9, <3>1, <3>2 DEF Delete
    <2>10. ASSUME NEW c \in HistoryCaller, DeleteAll(c) PROVE DataTypes'
      <3>1. DOMAIN manifest \subseteq SessionId /\ DOMAIN files \subseteq SessionId
        BY <1>a, PerSessionFacts
      <3>2. QED
        BY <1>a, <2>10, <3>1 DEF DeleteAll, stored
    <2>11. ASSUME NEW c \in HistoryCaller, RemoveEntry(c) PROVE DataTypes'
      <3>1. \A i : PerSession(Without(files, i), File)
        BY <1>a, WithoutType
      <3>2. PerSession(<<>>, Session)
        BY NoSessions
      <3>3. QED
        BY <1>a, <2>11, <3>1, <3>2 DEF RemoveEntry, history
    <2>12. ASSUME NEW c \in HistoryCaller, Update(c) PROVE DataTypes'
      <3>1. /\ PerSession(Aborted(manifest), Session)
            /\ DOMAIN manifest \subseteq SessionId /\ Active(manifest) \subseteq DOMAIN manifest
        BY <1>a, AbortedFacts, PerSessionFacts DEF Active
      <3>2. manifest' \in {manifest, Aborted(manifest)} /\ faults' \in Nat
        BY <1>a, <2>12, ReadTypes, MayFailType DEF Update
      <3>3. overlooked' \subseteq SessionId
        BY <1>a, <2>12, <3>1 DEF Update
      <3>4. QED
        BY <1>a, <2>12, <3>1, <3>2, <3>3 DEF Update
    <2>13. ASSUME NEW c \in HistoryCaller, SaveSettings(c) PROVE DataTypes'
      <3>1. call[c].by \in Settings
        BY <2>13, RequestTypes DEF SaveSettings, At
      <3>2. QED
        BY <1>a, <2>13, <3>1 DEF SaveSettings, history
    <2>14. ASSUME NEW c \in HistoryCaller, At(c, "append"), Cut(c)
           PROVE  PerSession(files', File) /\ damaged' \subseteq SessionId
      <3>1. \A tail \in {"part", "whole"} :
              PerSession(With(files, Req(c).id, Torn(FileOf(Req(c).id), tail)), File)
        BY <1>a, <1>c, <2>14, FileTypes, WithType
      <3>2. QED
        BY <1>a, <1>c, <2>14, <3>1 DEF Cut
    <2>15. ASSUME NEW c \in HistoryCaller, AppendFails(c) PROVE DataTypes'
      BY <1>a, <2>14, <2>15 DEF AppendFails
    <2>16. CASE Crash
      BY <1>a, <2>14, <2>16 DEF Crash
    <2>17. QED
      BY <2>1, <2>2, <2>3, <2>4, <2>5, <2>6, <2>7, <2>8, <2>9, <2>10, <2>11, <2>12,
         <2>13, <2>15, <2>16 DEF HistoryStep
  <1>2. /\ DOMAIN call' = HistoryCaller
        /\ \A d \in HistoryCaller : call'[d] \in {Free, Queued} \/ IsCall(call'[d])
        /\ queue' \in Seq(HistoryCaller)
    <2>1. CASE \E c \in HistoryCaller : Ask(c)
      BY <2>1 DEF Ask, HistoryTypeOK
    <2>2. CASE \E c \in HistoryCaller : Turns(c)
      BY <2>2, TurnTyped
    <2>3. CASE Crash
      BY <2>3 DEF Crash
    <2>4. CASE UNCHANGED <<call, queue>>
      BY <2>4 DEF HistoryTypeOK
    <2>5. QED
      BY <2>1, <2>2, <2>3, <2>4, StepTurns
  <1>3. QED
    BY <1>1, <1>2 DEF HistoryTypeOK

-----------------------------------------------------------------------------
(* The lock.                                                               *)

\* The holder keeps the lock over a turn that does not return, and then
\* nobody else is running; after a return nobody is.
LEMMA TurnKeepsLock ==
  ASSUME HistoryTypeOK, LockIsHandedOn, NEW c \in HistoryCaller, Turns(c)
  PROVE  /\ LockIsHandedOn'
         /\ \A d \in HistoryCaller : Running(d)' => d = c /\ UNCHANGED queue
  <1>a. queue \in Seq(HistoryCaller) /\ queue # <<>> /\ queue[1] = c /\ DOMAIN call = HistoryCaller
    BY DEF Turns, HoldsLock, HistoryTypeOK
  <1>b. /\ \A d \in HistoryCaller : call[d] # Free <=> \E k \in 1..Len(queue) : queue[k] = d
        /\ \A j, k \in 1..Len(queue) : queue[j] = queue[k] => j = k
        /\ \A k \in 1..Len(queue) : k > 1 => call[queue[k]] = Queued
    BY <1>a DEF LockIsHandedOn
  <1>1. CASE Return(c)
    <2>1. /\ queue' = Tail(queue) /\ queue' \in Seq(HistoryCaller)
          /\ Len(queue') = Len(queue) - 1
          /\ \A k \in 1..Len(queue') : queue'[k] = queue[k + 1] /\ k + 1 \in 1..Len(queue)
      BY <1>1, <1>a DEF Return
    <2>2. /\ call'[c] = Free
          /\ \A d \in HistoryCaller \ {c} : call'[d] = call[d]
      BY <1>1, <1>a DEF Return, Resolved
    <2>3. \A k \in 1..Len(queue') : queue'[k] # c /\ queue'[k] \in HistoryCaller
                                    /\ call'[queue'[k]] = Queued
      BY <1>a, <1>b, <2>1, <2>2
    <2>4. \A d \in HistoryCaller \ {c} :
            (\E k \in 1..Len(queue) : queue[k] = d)
              <=> (\E k \in 1..Len(queue') : queue'[k] = d)
      <3>1. ASSUME NEW d \in HistoryCaller \ {c}, NEW k \in 1..Len(queue), queue[k] = d
            PROVE  k - 1 \in 1..Len(queue') /\ queue'[k - 1] = d
        BY <1>a, <2>1, <3>1
      <3>2. ASSUME NEW d \in HistoryCaller \ {c}, NEW k \in 1..Len(queue'), queue'[k] = d
            PROVE  k + 1 \in 1..Len(queue) /\ queue[k + 1] = d
        BY <2>1, <3>2
      <3>3. QED
        BY <3>1, <3>2
    <2>5. LockIsHandedOn'
      <3>1. \A d \in HistoryCaller : call'[d] # Free <=> \E k \in 1..Len(queue') : queue'[k] = d
        BY <1>b, <2>2, <2>3, <2>4
      <3>2. \A j, k \in 1..Len(queue') : queue'[j] = queue'[k] => j = k
        BY <1>b, <2>1
      <3>3. DOMAIN queue' = 1..Len(queue')
        BY <2>1
      <3>4. \A k \in 1..Len(queue') : k > 1 => call'[queue'[k]] = Queued
        BY <2>3
      <3>5. QED
        BY <3>1, <3>2, <3>3, <3>4 DEF LockIsHandedOn
    <2>6. \A d \in HistoryCaller : ~Running(d)'
      <3>1. queue' # <<>> => 1 \in 1..Len(queue') /\ Head(queue') = queue'[1]
        BY <2>1
      <3>2. QED
        BY <2>3, <3>1 DEF Running, HoldsLock
    <2>7. QED
      BY <2>5, <2>6
  <1>2. CASE /\ \E r : IsCall(r) /\ call' = [call EXCEPT ![c] = r]
             /\ UNCHANGED queue
    <2>1. PICK r : IsCall(r) /\ call' = [call EXCEPT ![c] = r]
      BY <1>2
    <2>2. /\ call'[c] # Free /\ call[c] # Free
          /\ \A d \in HistoryCaller \ {c} : call'[d] = call[d]
      BY <1>a, <1>b, <2>1, CallKinds
    <2>3. LockIsHandedOn'
      BY <1>2, <1>a, <1>b, <2>2 DEF LockIsHandedOn
    <2>4. \A d \in HistoryCaller : Running(d)' => d = c
      BY <1>2, <1>a DEF Running, HoldsLock
    <2>5. QED
      BY <1>2, <2>3, <2>4
  <1>3. QED
    BY <1>1, <1>2 DEF Turns

\* Asking starts nothing: the new caller waits behind the others, or has the
\* lock and has not begun.
LEMMA AskKeepsLock ==
  ASSUME HistoryTypeOK, LockIsHandedOn, NEW c \in HistoryCaller, Ask(c)
  PROVE  /\ LockIsHandedOn'
         /\ \A d \in HistoryCaller : Running(d)' => Running(d) /\ call'[d] = call[d]
  <1>a. queue \in Seq(HistoryCaller) /\ DOMAIN call = HistoryCaller
    BY DEF HistoryTypeOK
  <1>b. /\ \A d \in HistoryCaller : call[d] # Free <=> \E k \in 1..Len(queue) : queue[k] = d
        /\ \A j, k \in 1..Len(queue) : queue[j] = queue[k] => j = k
        /\ \A k \in 1..Len(queue) : k > 1 => call[queue[k]] = Queued
    BY <1>a DEF LockIsHandedOn
  <1>1. /\ queue' \in Seq(HistoryCaller) /\ Len(queue') = Len(queue) + 1
        /\ queue'[Len(queue) + 1] = c
        /\ \A k \in 1..Len(queue) : queue'[k] = queue[k]
    BY <1>a DEF Ask
  <1>2. /\ call[c] = Free /\ call'[c] = Queued
        /\ \A d \in HistoryCaller \ {c} : call'[d] = call[d]
    BY <1>a DEF Ask
  <1>3. \A k \in 1..Len(queue) : queue[k] \in HistoryCaller \ {c}
    BY <1>a, <1>b, <1>2
  <1>4. LockIsHandedOn'
    <2>1. \A d \in HistoryCaller : call'[d] # Free <=> \E k \in 1..Len(queue') : queue'[k] = d
      <3>1. c = queue'[Len(queue')] /\ Len(queue') \in 1..Len(queue')
        BY <1>a, <1>1
      <3>2. \A d \in HistoryCaller \ {c} :
              (\E k \in 1..Len(queue) : queue[k] = d)
                <=> (\E k \in 1..Len(queue') : queue'[k] = d)
        BY <1>a, <1>1
      <3>3. QED
        BY <1>b, <1>2, <3>1, <3>2, CallKinds
    <2>2. \A j, k \in 1..Len(queue') : queue'[j] = queue'[k] => j = k
      BY <1>a, <1>b, <1>1, <1>3
    <2>3. \A k \in 1..Len(queue') : k > 1 => call'[queue'[k]] = Queued
      BY <1>a, <1>b, <1>1, <1>2, <1>3
    <2>4. QED
      BY <1>1, <2>1, <2>2, <2>3 DEF LockIsHandedOn
  <1>5. ASSUME NEW d \in HistoryCaller, Running(d)' PROVE Running(d) /\ call'[d] = call[d]
    <2>1. d # c /\ queue' # <<>> /\ queue'[1] = d
      BY <1>1, <1>2, <1>5 DEF Running, HoldsLock
    <2>2. Len(queue) > 0
      BY <1>a, <1>1, <2>1
    <2>3. queue # <<>> /\ queue[1] = d
      BY <1>a, <1>1, <2>1, <2>2
    <2>4. QED
      BY <1>2, <1>5, <2>1, <2>3 DEF Running, HoldsLock
  <1>6. QED
    BY <1>4, <1>5

-----------------------------------------------------------------------------
(* What an operation finds when it goes on.                                *)

CleanFiles == \A i \in DOMAIN files \ damaged : ~files[i].bad /\ files[i].tail = "none"

\* The parts of the invariant that do not depend on who holds the lock.
OnDisk == DOMAIN manifest \cup forgotten \subseteq issued /\ CleanFiles /\ DisabledMeansClosed

\* After a return, and after a crash, nobody is between two awaits.
LEMMA ReturnedKeeps ==
  ASSUME HistoryTypeOK, LockIsHandedOn, NEW c \in HistoryCaller, HoldsLock(c), Return(c), OnDisk'
  PROVE  NothingChangesMeanwhile' /\ DisabledMeansClosed'
  <1>1. \A d \in HistoryCaller : Running(d)' => d = c
    BY ReturnTurns, TurnKeepsLock
  <1>2. call'[c] = Free
    BY DEF HistoryTypeOK, Return, Resolved
  <1>3. \A d \in HistoryCaller : ~Running(d)'
    BY <1>1, <1>2 DEF Running
  <1>4. QED
    BY <1>3 DEF NothingChangesMeanwhile, OnDisk, CleanFiles

\* When the holder goes on, what it relies on next is all there is to show.
LEMMA TurnKeeps ==
  ASSUME HistoryTypeOK, LockIsHandedOn, NEW c \in HistoryCaller, Turns(c),
         InMemory(c)', Holding(c)', OnDisk'
  PROVE  NothingChangesMeanwhile' /\ DisabledMeansClosed'
  <1>1. \A d \in HistoryCaller : Running(d)' => d = c
    BY TurnKeepsLock
  <1>2. QED
    BY <1>1 DEF NothingChangesMeanwhile, OnDisk, CleanFiles

LEMMA ActiveFacts ==
  ASSUME NEW m, NEW n, DOMAIN m \subseteq DOMAIN n, \A i \in DOMAIN m : m[i] = n[i]
  PROVE  Active(m) \subseteq Active(n)
  BY DEF Active

\* Files that are cut off in are set aside.
LEMMA CutKeepsClean ==
  ASSUME HistoryTypeOK, CleanFiles, NEW c \in HistoryCaller, Cut(c), Req(c).id \in SessionId
  PROVE  CleanFiles'
  <1>1. PICK tail \in {"part", "whole"} :
          /\ files' = With(files, Req(c).id, Torn(FileOf(Req(c).id), tail))
          /\ damaged' = damaged \cup {Req(c).id}
    BY DEF Cut
  <1>2. /\ DOMAIN files' = DOMAIN files \cup {Req(c).id}
        /\ \A j \in DOMAIN files \ {Req(c).id} : files'[j] = files[j]
    BY <1>1 DEF With
  <1>3. QED
    BY <1>1, <1>2 DEF CleanFiles

LEMMA RemovalKeepsClean ==
  ASSUME CleanFiles, NEW i, files' = Without(files, i), UNCHANGED damaged
  PROVE  CleanFiles'
  <1>1. /\ DOMAIN files' = DOMAIN files \ {i}
        /\ \A j \in DOMAIN files \ {i} : files'[j] = files[j]
    BY DEF Without
  <1>2. QED
    BY <1>1 DEF CleanFiles

\* An append to a file that no append was cut off in adds a record.
LEMMA AppendedFacts ==
  ASSUME HistoryTypeOK, CleanFiles, NEW i \in SessionId,
         files' = With(files, i, Appended(FileOf(i))), UNCHANGED damaged
  PROVE  /\ CleanFiles'
         /\ i \notin damaged => Records(i)' = Records(i) + 1 /\ ~Unreadable(i)'
         /\ \A j \in SessionId \ {i} : /\ Records(j)' = Records(j)
                                       /\ Unreadable(j)' <=> Unreadable(j)
  <1>1. /\ Appended(FileOf(i)) \in File /\ FileOf(i) \in File
        /\ PerSession(files, File)
    BY FileTypes DEF HistoryTypeOK
  <1>2. /\ DOMAIN files' = DOMAIN files \cup {i}
        /\ files'[i] = Appended(FileOf(i))
        /\ \A j \in DOMAIN files \ {i} : files'[j] = files[j]
    BY <1>1 DEF With
  <1>3. ASSUME i \notin damaged
        PROVE  /\ FileOf(i).tail = "none" /\ ~FileOf(i).bad
               /\ Records(i) = FileOf(i).good
    <2>1. CASE i \in DOMAIN files
      BY <1>1, <1>3, <2>1, PerSessionFacts DEF CleanFiles, FileOf, Records, File
    <2>2. CASE i \notin DOMAIN files
      BY <2>2 DEF FileOf, Records, EmptyFile
    <2>3. QED
      BY <2>1, <2>2
  <1>4. ASSUME i \notin damaged
        PROVE  /\ Appended(FileOf(i)).tail = "none" /\ ~Appended(FileOf(i)).bad
               /\ Appended(FileOf(i)).good = FileOf(i).good + 1
    BY <1>1, <1>3, <1>4 DEF Appended, File
  <1>5. CleanFiles'
    BY <1>2, <1>4 DEF CleanFiles
  <1>6. i \notin damaged => Records(i)' = Records(i) + 1 /\ ~Unreadable(i)'
    <2>1. FileOf(i).good \in Nat
      BY <1>1 DEF File
    <2>2. QED
      BY <1>2, <1>3, <1>4, <2>1 DEF Records, Unreadable
  <1>7. \A j \in SessionId \ {i} : /\ Records(j)' = Records(j)
                                   /\ Unreadable(j)' <=> Unreadable(j)
    BY <1>2 DEF Records, Unreadable
  <1>8. QED
    BY <1>5, <1>6, <1>7

\* What the holder knows, taken apart for use.
LEMMA HolderKnows ==
  ASSUME HistoryTypeOK, NothingChangesMeanwhile, NEW c \in HistoryCaller, Running(c)
  PROVE  /\ InMemory(c) /\ Holding(c) /\ HoldsLock(c)
         /\ DOMAIN manifest \cup forgotten \subseteq issued /\ CleanFiles
         /\ PerSession(call[c].m, Session)
         /\ PerSession(manifest, Session) /\ PerSession(files, File)
  BY RequestTypes DEF NothingChangesMeanwhile, CleanFiles, HistoryTypeOK, Running

LEMMA StepKeepsLock ==
  ASSUME HistoryTypeOK, LockIsHandedOn, HistoryStep PROVE LockIsHandedOn'
  <1>1. CASE \E c \in HistoryCaller : Ask(c)
    BY <1>1, AskKeepsLock
  <1>2. CASE \E c \in HistoryCaller : Turns(c)
    BY <1>2, TurnKeepsLock
  <1>3. CASE Crash
    BY <1>3 DEF Crash, LockIsHandedOn
  <1>4. CASE UNCHANGED <<call, queue>>
    BY <1>4 DEF LockIsHandedOn
  <1>5. QED
    BY <1>1, <1>2, <1>3, <1>4, StepTurns

\* No step pulls the manifest, the settings or a file from under an operation
\* that waits for the disk.
LEMMA StepKeepsMeanwhile ==
  ASSUME HistoryTypeOK, LockIsHandedOn, DisabledMeansClosed, NothingChangesMeanwhile,
         CountsAreHeld, HistoryStep
  PROVE  NothingChangesMeanwhile' /\ DisabledMeansClosed'
  <1> USE DEF OnDisk, listing
  <1>a. OnDisk
    BY DEF NothingChangesMeanwhile, CleanFiles
  <1>b. \A c : (\E step : At(c, step)) => Running(c) /\ HoldsLock(c)
    BY DEF At, Running
  <1>c. \A c : Begins(c) => HoldsLock(c)
    BY DEF Begins
  <1>d. /\ PerSession(manifest, Session) /\ PerSession(<<>>, Session) /\ DOMAIN <<>> = {}
        /\ settings \in Settings
    BY NoSessions DEF HistoryTypeOK
  <1>e. Active(<<>>) = {}
    BY <1>d DEF Active
  \* Turns that end the operation and leave the disk alone.
  <1>1. ASSUME NEW c \in HistoryCaller, HoldsLock(c), Return(c),
               UNCHANGED <<settings, manifest, files, damaged, issued, listing>>
        PROVE  NothingChangesMeanwhile' /\ DisabledMeansClosed'
    <2>1. OnDisk'
      BY <1>a, <1>1 DEF CleanFiles, DisabledMeansClosed, Active
    <2>2. QED
      BY <1>1, <2>1, ReturnedKeeps
  <1>2. ASSUME NEW c \in HistoryCaller, Ask(c)
        PROVE  NothingChangesMeanwhile' /\ DisabledMeansClosed'
    <2>1. UNCHANGED <<settings, manifest, files, issued, damaged, dropped, listing>>
      BY <1>2 DEF Ask, stored, history
    <2>2. ASSUME NEW d \in HistoryCaller, Running(d)' PROVE InMemory(d)' /\ Holding(d)'
      <3>1. Running(d) /\ call'[d] = call[d]
        BY <1>2, <2>2, AskKeepsLock
      <3>2. InMemory(d) /\ Holding(d)
        BY <3>1 DEF NothingChangesMeanwhile
      <3>3. QED
        BY <2>1, <3>1, <3>2
        DEF InMemory, Holding, Req, Active, Records
    <2>3. QED
      BY <1>a, <2>1, <2>2
      DEF NothingChangesMeanwhile, CleanFiles, DisabledMeansClosed, Active
  <1>3. ASSUME NEW c \in HistoryCaller, Create(c)
        PROVE  NothingChangesMeanwhile' /\ DisabledMeansClosed'
    <2>1. CASE Return(c) /\ UNCHANGED <<files, issued>>
      BY <1>1, <1>3, <1>c, <2>1 DEF Create
    <2>u. \A unread : ReadSettings(unread).enabled => settings.enabled
      BY ReadTypes
    <2>2. CASE \E i \in SessionId \ issued :
                 /\ settings.enabled
                 /\ issued' = issued \cup {i} /\ files' = With(files, i, EmptyFile)
                 /\ Goes(c, [op |-> "create", id |-> i], "list", <<>>, settings)
      <3>1. PICK i \in SessionId \ issued :
                 /\ settings.enabled
                 /\ issued' = issued \cup {i} /\ files' = With(files, i, EmptyFile)
                 /\ Goes(c, [op |-> "create", id |-> i], "list", <<>>, settings)
        BY <2>2
      <3>2. [op |-> "create", id |-> i] \in Requests /\ "list" \in Steps
        BY DEF Requests, Steps
      <3>3. /\ Turns(c) /\ call'[c].at = "list"
            /\ call'[c].req = [op |-> "create", id |-> i]
        BY <1>3, <1>d, <3>1, <3>2, GoesTurns DEF Create
      <3>4. UNCHANGED <<settings, manifest, damaged, dropped, listing>>
        BY <1>3 DEF Create
      <3>5. OnDisk'
        <4>1. /\ DOMAIN files' = DOMAIN files \cup {i}
              /\ files'[i] = EmptyFile
              /\ \A j \in DOMAIN files \ {i} : files'[j] = files[j]
          BY <3>1 DEF With
        <4>2. CleanFiles'
          BY <1>a, <3>4, <4>1 DEF CleanFiles, EmptyFile
        <4>3. QED
          BY <1>a, <3>1, <3>4, <4>2 DEF DisabledMeansClosed, Active
      <3>6. InMemory(c)' /\ Holding(c)'
        BY <1>a, <3>1, <3>3, <3>4 DEF InMemory, Holding, Req
      <3>7. QED
        BY <3>3, <3>5, <3>6, TurnKeeps
    <2>3. QED
      BY <1>3, <2>u, <2>1, <2>2 DEF Create
  <1>4. ASSUME NEW c \in HistoryCaller, ListCreated(c)
        PROVE  NothingChangesMeanwhile' /\ DisabledMeansClosed'
    <2>1. settings.enabled /\ Req(c).id \in issued
      BY <1>4, <1>b, HolderKnows DEF ListCreated, At, Holding
    <2>2. /\ DOMAIN manifest' \subseteq DOMAIN manifest \cup {Req(c).id}
          /\ forgotten' \subseteq forgotten \cup DOMAIN manifest
          /\ UNCHANGED <<settings, files, issued, damaged, overlooked>>
      <3>1. PICK m \in {manifest, <<>>} : manifest' = With(m, Req(c).id, NewSession)
        BY <1>4, ReadTypes DEF ListCreated
      <3>2. DOMAIN m \subseteq DOMAIN manifest
        BY <1>d
      <3>3. DOMAIN manifest' = DOMAIN m \cup {Req(c).id}
        BY <3>1 DEF With
      <3>4. QED
        BY <1>4, <3>2, <3>3 DEF ListCreated
    <2>3. OnDisk'
      BY <1>a, <2>1, <2>2 DEF CleanFiles, DisabledMeansClosed
    <2>4. QED
      BY <1>4, <1>b, <2>3, ReturnedKeeps DEF ListCreated
  <1>5. ASSUME NEW c \in HistoryCaller, AppendBegins(c)
        PROVE  NothingChangesMeanwhile' /\ DisabledMeansClosed'
    <2>1. PICK r \in [op : {"append"}, id : SessionId, size : Sizes] :
            \/ r.id \in Active(manifest) /\ Goes(c, r, "prune", manifest, settings)
            \/ Return(c)
      BY <1>5, ReadTypes DEF AppendBegins
    <2>2. UNCHANGED <<settings, manifest, files, issued, damaged, dropped, listing>>
      BY <1>5 DEF AppendBegins, stored, history
    <2>3. CASE r.id \in Active(manifest) /\ Goes(c, r, "prune", manifest, settings)
      <3>1. r \in Requests /\ "prune" \in Steps
        BY DEF Requests, Steps
      <3>2. /\ Turns(c) /\ call'[c].at = "prune" /\ call'[c].req = r
            /\ call'[c].m = manifest /\ call'[c].by = settings
        BY <1>5, <1>d, <2>3, <3>1, GoesTurns DEF AppendBegins
      <3>3. InMemory(c)' /\ Holding(c)'
        BY <2>2, <2>3, <3>2 DEF InMemory, Holding, Req, Active
      <3>4. OnDisk'
        BY <1>a, <2>2 DEF CleanFiles, DisabledMeansClosed, Active
      <3>5. QED
        BY <3>2, <3>3, <3>4, TurnKeeps
    <2>4. QED
      BY <1>1, <1>5, <1>c, <2>1, <2>2, <2>3 DEF AppendBegins
  <1>6. ASSUME NEW c \in HistoryCaller, Enforce(c)
        PROVE  NothingChangesMeanwhile' /\ DisabledMeansClosed'
    <2>1. UNCHANGED <<settings, manifest, files, issued, damaged, dropped, listing>>
      BY <1>6 DEF Enforce, stored, history
    <2>2. [op |-> "enforce"] \in Requests /\ "prune" \in Steps
      BY DEF Requests, Steps
    <2>3. /\ Turns(c) /\ call'[c].at = "prune" /\ call'[c].req = [op |-> "enforce"]
          /\ call'[c].m \in {manifest, <<>>}
      <3>1. PICK unread : Goes(c, [op |-> "enforce"], "prune", ReadManifest(unread),
                               ReadSettings(unread))
        BY <1>6 DEF Enforce
      <3>2. /\ PerSession(ReadManifest(unread), Session) /\ ReadSettings(unread) \in Settings
            /\ ReadManifest(unread) \in {manifest, <<>>}
        BY ReadTypes
      <3>3. QED
        BY <1>6, <2>2, <3>1, <3>2, GoesTurns DEF Enforce
    <2>4. InMemory(c)' /\ Holding(c)'
      BY <1>d, <2>1, <2>3 DEF InMemory, Holding, Req
    <2>5. OnDisk'
      BY <1>a, <2>1 DEF CleanFiles, DisabledMeansClosed, Active
    <2>6. QED
      BY <2>3, <2>4, <2>5, TurnKeeps
  <1>7. ASSUME NEW c \in HistoryCaller, PruneOne(c)
        PROVE  NothingChangesMeanwhile' /\ DisabledMeansClosed'
    <2> DEFINE m == call[c].m
    <2>1. PICK i \in Prunable(c) :
            /\ files' = Without(files, i)
            /\ GoOn(c, "prune", Without(m, i))
            /\ dropped' = dropped \cup {i}
      BY <1>7 DEF PruneOne
    <2>2. /\ Running(c) /\ call[c].at = "prune"
          /\ UNCHANGED <<settings, manifest, issued, damaged, listing>>
      BY <1>7 DEF PruneOne, At
    <2>3. /\ InMemory(c) /\ PerSession(m, Session)
          /\ i \in DOMAIN m /\ i \notin Active(m)
      BY <2>1, <2>2, HolderKnows DEF Prunable, Oldest, Candidates
    <2>4. PerSession(Without(m, i), Session) /\ "prune" \in Steps
      BY <2>3, WithoutType DEF Steps
    <2>5. /\ Turns(c) /\ call'[c].at = "prune" /\ call'[c].req = call[c].req
          /\ call'[c].m = Without(m, i) /\ call'[c].by = call[c].by
      BY <2>1, <2>2, <2>4, GoOnTurns DEF Req
    <2>6. /\ DOMAIN call'[c].m = DOMAIN m \ {i}
          /\ \A j \in DOMAIN m \ {i} : call'[c].m[j] = m[j]
      BY <2>5 DEF Without
    <2> HIDE DEF m
    <2>7. /\ DOMAIN m \subseteq DOMAIN manifest
          /\ \A j \in DOMAIN m : m[j] = manifest[j]
          /\ \/ DOMAIN manifest \ DOMAIN m \subseteq dropped
             \/ call[c].req.op = "enforce" /\ m = <<>>
          /\ call[c].req.op = "append" => call[c].req.id \in Active(m) /\ call[c].by = settings
      BY <2>2, <2>3 DEF InMemory, Req, m
    <2>8. call'[c].req.op = "append" => call'[c].req.id \in Active(call'[c].m)
      BY <2>3, <2>5, <2>6, <2>7 DEF Active
    <2>m. m # <<>>
      BY <1>d, <2>3 DEF m
    <2>9. InMemory(c)' /\ Holding(c)'
      BY <2>1, <2>2, <2>5, <2>6, <2>7, <2>8, <2>m DEF InMemory, Holding, Req
    <2>10. OnDisk'
      BY <1>a, <2>1, <2>2, RemovalKeepsClean DEF DisabledMeansClosed, Active
    <2>11. QED
      BY <2>5, <2>9, <2>10, TurnKeeps
  <1>8. ASSUME NEW c \in HistoryCaller, Pruned(c)
        PROVE  NothingChangesMeanwhile' /\ DisabledMeansClosed'
    <2> DEFINE m == call[c].m
    <2>1. /\ Running(c) /\ call[c].at = "prune" /\ manifest' = m
          /\ forgotten' \subseteq forgotten \cup DOMAIN manifest
          /\ UNCHANGED <<settings, files, issued, damaged, dropped, overlooked>>
      BY <1>8 DEF Pruned, At
    <2>2. InMemory(c) /\ PerSession(m, Session)
      BY <2>1, HolderKnows
    <2>3. /\ DOMAIN m \subseteq DOMAIN manifest /\ Active(m) \subseteq Active(manifest)
          /\ call[c].req.op = "append" => call[c].req.id \in Active(m) /\ call[c].by = settings
      BY <2>1, <2>2, ActiveFacts DEF InMemory, Req
    <2>4. OnDisk'
      BY <1>a, <2>1, <2>3 DEF CleanFiles, DisabledMeansClosed
    <2>5. CASE Req(c).op = "append" /\ GoOn(c, "append", m)
      <3>1. /\ Turns(c) /\ call'[c].at = "append" /\ call'[c].req = call[c].req
            /\ call'[c].m = m /\ call'[c].by = call[c].by
        BY <2>1, <2>2, <2>5, GoOnTurns DEF Steps, Req
      <3>2. InMemory(c)' /\ Holding(c)'
        BY <2>1, <2>3, <2>5, <3>1 DEF InMemory, Holding, Req
      <3>3. QED
        BY <2>4, <3>1, <3>2, TurnKeeps
    <2>6. CASE Return(c)
      BY <1>b, <1>8, <2>4, <2>6, ReturnedKeeps DEF Pruned
    <2>7. QED
      BY <1>8, <2>5, <2>6 DEF Pruned
  <1>9. ASSUME NEW c \in HistoryCaller, AppendFile(c)
        PROVE  NothingChangesMeanwhile' /\ DisabledMeansClosed'
    <2> DEFINE m == call[c].m
    <2>0. PICK i : i = Req(c).id
      OBVIOUS
    <2>1. /\ Running(c) /\ call[c].at = "append"
          /\ files' = With(files, i, Appended(FileOf(i)))
          /\ UNCHANGED <<settings, manifest, issued, acked, damaged, dropped, listing>>
      BY <1>9, <2>0 DEF AppendFile, At, history
    <2>2. /\ InMemory(c) /\ Holding(c) /\ PerSession(m, Session)
      BY <2>1, HolderKnows
    <2>3. Req(c).op = "append" /\ i \in SessionId
      BY <2>0, <2>1, <2>2, RequestTypes DEF Holding
    <2>4. /\ Turns(c) /\ call'[c].at = "count" /\ call'[c].req = call[c].req
          /\ call'[c].m = m /\ call'[c].by = call[c].by
      BY <1>9, <2>1, <2>2, GoOnTurns DEF AppendFile, Steps, Req
    <2>5. CleanFiles' /\ (i \notin damaged => Records(i)' = Records(i) + 1)
      BY <1>a, <2>1, <2>3, AppendedFacts
    <2>6. /\ DOMAIN m \subseteq DOMAIN manifest
          /\ \A j \in DOMAIN m : m[j] = manifest[j]
          /\ DOMAIN manifest \ DOMAIN m \subseteq dropped
          /\ i \in Active(m) /\ i \in DOMAIN m /\ call[c].by = settings
      BY <2>0, <2>1, <2>2, <2>3 DEF InMemory, Active
    <2>7. i \notin dropped \cup damaged => m[i].count < Records(i)'
      <3>1. m \in [DOMAIN m -> Session]
        BY <2>2, PerSessionFacts
      <3>2. m[i].count \in Nat /\ m[i] = manifest[i] /\ i \in DOMAIN manifest
        BY <2>6, <3>1 DEF Session
      <3>3. i \notin dropped \cup damaged => m[i].count <= Records(i)
        BY <2>3, <3>2 DEF CountsAreHeld
      <3>4. Records(i) \in Nat
        <4>1. files \in [DOMAIN files -> File]
          BY PerSessionFacts DEF HistoryTypeOK
        <4>2. QED
          BY <4>1 DEF Records, File
      <3>5. QED
        BY <2>5, <3>2, <3>3, <3>4
    <2>8. Req(c)' = Req(c)
      BY <2>4 DEF Req
    <2>9. InMemory(c)'
      BY <2>0, <2>1, <2>4, <2>6, <2>8 DEF InMemory
    <2>10. Holding(c)'
      BY <2>0, <2>1, <2>3, <2>4, <2>7, <2>8 DEF Holding
    <2>11. OnDisk'
      BY <1>a, <2>1, <2>5 DEF DisabledMeansClosed, Active
    <2>12. QED
      BY <2>4, <2>9, <2>10, <2>11, TurnKeeps
  <1>10. ASSUME NEW c \in HistoryCaller, Count(c)
         PROVE  NothingChangesMeanwhile' /\ DisabledMeansClosed'
    <2> DEFINE m == call[c].m
    <2>1. /\ Running(c) /\ call[c].at = "count"
          /\ manifest' = Counted(m, Req(c).id, Req(c).size)
          /\ UNCHANGED <<settings, files, issued, damaged, listing>>
      BY <1>10 DEF Count, At
    <2>2. /\ InMemory(c) /\ Holding(c) /\ PerSession(m, Session)
      BY <2>1, HolderKnows
    <2>3. Req(c).size \in Nat
      BY <2>1, <2>2, RequestTypes, SizesAssumption DEF Holding
    <2>4. DOMAIN manifest' = DOMAIN m /\ Active(manifest') = Active(m)
      BY <2>1, <2>2, <2>3, CountedFacts
    <2>5. DOMAIN m \subseteq DOMAIN manifest /\ Active(m) \subseteq Active(manifest)
      BY <2>1, <2>2, ActiveFacts DEF InMemory
    <2>6. OnDisk'
      BY <1>a, <2>1, <2>4, <2>5 DEF CleanFiles, DisabledMeansClosed
    <2>7. QED
      BY <1>10, <1>b, <2>6, ReturnedKeeps DEF Count
  <1>11. ASSUME NEW c \in HistoryCaller, EndSession(c)
         PROVE  NothingChangesMeanwhile' /\ DisabledMeansClosed'
    <2>1. PICK i \in SessionId, status \in {"completed", "aborted"} :
            \/ i \in Active(manifest) /\ manifest' = Ended(manifest, i, status)
            \/ UNCHANGED manifest
      BY <1>11, ReadTypes DEF EndSession
    <2>2. UNCHANGED <<settings, files, issued, damaged, listing>>
      BY <1>11 DEF EndSession, history
    <2>3. DOMAIN manifest' = DOMAIN manifest /\ Active(manifest') \subseteq Active(manifest)
      <3>1. CASE i \in Active(manifest) /\ manifest' = Ended(manifest, i, status)
        <4>1. i \in DOMAIN manifest /\ now \in Nat
          BY <3>1 DEF Active, HistoryTypeOK
        <4>2. QED
          BY <1>d, <3>1, <4>1, EndedFacts
      <3>2. QED
        BY <2>1, <3>1
    <2>4. OnDisk'
      BY <1>a, <2>2, <2>3 DEF CleanFiles, DisabledMeansClosed
    <2>5. QED
      BY <1>11, <1>c, <2>4, ReturnedKeeps DEF EndSession
  <1>12. ASSUME NEW c \in HistoryCaller, Delete(c)
         PROVE  NothingChangesMeanwhile' /\ DisabledMeansClosed'
    <2>1. CASE Return(c) /\ UNCHANGED <<files, dropped>>
      BY <1>1, <1>12, <1>c, <2>1 DEF Delete
    <2>2. CASE \E i \in DOMAIN manifest :
                 /\ files' = Without(files, i)
                 /\ dropped' = dropped \cup {i} \cup
                      (IF DOMAIN manifest = {i} THEN DOMAIN files ELSE {})
                 /\ Goes(c, [op |-> "delete"],
                         IF DOMAIN manifest = {i} THEN "tree" ELSE "unlist",
                         Without(manifest, i), settings)
      <3>1. PICK i \in DOMAIN manifest :
                 /\ files' = Without(files, i)
                 /\ dropped' = dropped \cup {i} \cup
                      (IF DOMAIN manifest = {i} THEN DOMAIN files ELSE {})
                 /\ Goes(c, [op |-> "delete"],
                         IF DOMAIN manifest = {i} THEN "tree" ELSE "unlist",
                         Without(manifest, i), settings)
        BY <2>2
      <3>s. PICK step, m : /\ step = IF DOMAIN manifest = {i} THEN "tree" ELSE "unlist"
                           /\ m = Without(manifest, i)
        OBVIOUS
      <3>2. [op |-> "delete"] \in Requests /\ step \in Steps /\ PerSession(m, Session)
        BY <1>d, <3>s, WithoutType DEF Requests, Steps
      <3>g. Goes(c, [op |-> "delete"], step, m, settings)
        BY <3>1, <3>s
      <3>3. /\ Turns(c) /\ call'[c].at = step /\ call'[c].req = [op |-> "delete"]
            /\ call'[c].m = m
        BY <1>12, <1>d, <3>g, <3>2, GoesTurns DEF Delete
      <3>4. UNCHANGED <<settings, manifest, issued, damaged, listing>>
        BY <1>12 DEF Delete
      <3>5. /\ DOMAIN m = DOMAIN manifest \ {i}
            /\ \A j \in DOMAIN m : m[j] = manifest[j]
        BY <3>s DEF Without
      <3>t. /\ step \in {"tree", "unlist"}
            /\ step = "tree" => DOMAIN manifest \cup DOMAIN files' \subseteq dropped'
        BY <3>1, <3>s DEF Without
      <3>6. InMemory(c)' /\ Holding(c)'
        BY <3>1, <3>3, <3>4, <3>5, <3>t DEF InMemory, Holding, Req
      <3>7. OnDisk'
        BY <1>a, <3>1, <3>4, RemovalKeepsClean DEF DisabledMeansClosed, Active
      <3>8. QED
        BY <3>3, <3>6, <3>7, TurnKeeps
    <2>u. \A unread : DOMAIN ReadManifest(unread) \subseteq DOMAIN manifest
      BY <1>d, ReadTypes
    <2>3. QED
      BY <1>12, <2>u, <2>1, <2>2 DEF Delete
  <1>13. ASSUME NEW c \in HistoryCaller, Unlist(c)
         PROVE  NothingChangesMeanwhile' /\ DisabledMeansClosed'
    <2>1. /\ Running(c) /\ call[c].at = "unlist" /\ manifest' = call[c].m
          /\ UNCHANGED <<settings, files, issued, damaged, listing>>
      BY <1>13 DEF Unlist, At, history
    <2>2. DOMAIN manifest' \subseteq DOMAIN manifest /\ Active(manifest') \subseteq Active(manifest)
      BY <2>1, HolderKnows, ActiveFacts DEF InMemory
    <2>3. OnDisk'
      BY <1>a, <2>1, <2>2 DEF CleanFiles, DisabledMeansClosed
    <2>4. QED
      BY <1>13, <1>b, <2>3, ReturnedKeeps DEF Unlist
  <1>14. ASSUME NEW c \in HistoryCaller, DeleteAll(c)
         PROVE  NothingChangesMeanwhile' /\ DisabledMeansClosed'
    <2>1. /\ UNCHANGED <<settings, manifest, files, issued, damaged, listing>>
          /\ dropped' = dropped \cup DOMAIN manifest \cup DOMAIN files
      BY <1>14 DEF DeleteAll, stored
    <2>2. [op |-> "deleteAll"] \in Requests /\ "tree" \in Steps
      BY DEF Requests, Steps
    <2>3. Turns(c) /\ call'[c].at = "tree"
      BY <1>14, <1>d, <2>2, GoesTurns DEF DeleteAll
    <2>4. InMemory(c)' /\ Holding(c)'
      BY <2>1, <2>3 DEF InMemory, Holding
    <2>5. OnDisk'
      BY <1>a, <2>1 DEF CleanFiles, DisabledMeansClosed, Active
    <2>6. QED
      BY <2>3, <2>4, <2>5, TurnKeeps
  <1>15. ASSUME NEW c \in HistoryCaller, RemoveEntry(c)
         PROVE  NothingChangesMeanwhile' /\ DisabledMeansClosed'
    <2>1. /\ Running(c) /\ call[c].at = "tree"
          /\ UNCHANGED <<settings, call, queue, issued, damaged, dropped, listing>>
          /\ manifest' = manifest \/ manifest' = <<>>
      BY <1>15 DEF RemoveEntry, At, history
    <2>2. DOMAIN manifest \cup DOMAIN files \subseteq dropped
      BY <2>1, HolderKnows DEF Holding
    <2>3. /\ DOMAIN manifest' \subseteq DOMAIN manifest
          /\ Active(manifest') \subseteq Active(manifest)
          /\ DOMAIN files' \subseteq DOMAIN files
      BY <1>15, <1>d, <1>e, <2>1 DEF RemoveEntry, Without
    <2>4. CleanFiles'
      BY <1>a, <1>15, <2>1, RemovalKeepsClean DEF RemoveEntry, CleanFiles
    <2>5. \A d \in HistoryCaller : Running(d)' => d = c
      BY <2>1 DEF Running, HoldsLock
    <2>6. InMemory(c)' /\ Holding(c)'
      BY <2>1, <2>2, <2>3 DEF InMemory, Holding
    <2>7. QED
      BY <1>a, <2>1, <2>3, <2>4, <2>5, <2>6
      DEF NothingChangesMeanwhile, CleanFiles, DisabledMeansClosed
  <1>16. ASSUME NEW c \in HistoryCaller, Update(c)
         PROVE  NothingChangesMeanwhile' /\ DisabledMeansClosed'
    <2>1. PICK p \in Patches, unread \in SUBSET {"settings", "manifest"} :
            LET current == ReadSettings(unread)
                next    == Patched(current, p)
                m       == ReadManifest(unread)
            IN \/ /\ manifest' = IF current.enabled /\ ~next.enabled /\ Active(m) # {}
                                  THEN Aborted(m) ELSE manifest
                  /\ overlooked' = IF unread # {} /\ ~next.enabled
                                   THEN overlooked \cup Active(manifest) ELSE overlooked
                  /\ Goes(c, [op |-> "settings"], "settings", <<>>, next)
               \/ Return(c) /\ UNCHANGED <<manifest, overlooked>>
      BY <1>16 DEF Update
    <2>2. UNCHANGED <<settings, files, issued, damaged, forgotten>>
      BY <1>16 DEF Update
    <2>3. CASE Return(c) /\ UNCHANGED <<manifest, overlooked>>
      BY <1>1, <1>16, <1>c, <2>2, <2>3 DEF Update
    <2> DEFINE current == ReadSettings(unread)
               next    == Patched(current, p)
               m       == ReadManifest(unread)
    <2>4. CASE /\ manifest' = IF current.enabled /\ ~next.enabled /\ Active(m) # {}
                              THEN Aborted(m) ELSE manifest
               /\ overlooked' = IF unread # {} /\ ~next.enabled
                                THEN overlooked \cup Active(manifest) ELSE overlooked
               /\ Goes(c, [op |-> "settings"], "settings", <<>>, next)
      <3>1. [op |-> "settings"] \in Requests /\ "settings" \in Steps /\ next \in Settings
        BY ReadTypes, PatchTypes DEF Requests, Steps
      <3>2. Turns(c) /\ call'[c].at = "settings" /\ call'[c].by = next
        BY <1>16, <1>d, <2>4, <3>1, GoesTurns DEF Update
      <3>3. /\ DOMAIN Aborted(manifest) = DOMAIN manifest
            /\ Active(Aborted(manifest)) = {}
        BY <1>d, AbortedFacts DEF HistoryTypeOK
      <3>4. manifest' = manifest \/ manifest' = Aborted(manifest)
        BY <2>4, ReadTypes
      <3>5. ~next.enabled => Active(manifest') \subseteq overlooked'
        <4>1. CASE unread = {}
          <5>1. current = settings /\ m = manifest
            BY <4>1, ReadTypes
          <5>2. QED
            BY <1>a, <2>4, <3>3, <4>1, <5>1 DEF DisabledMeansClosed
        <4>2. CASE unread # {}
          BY <2>4, <3>3, <3>4, <4>2
        <4>3. QED
          BY <4>1, <4>2
      <3>6. overlooked \subseteq overlooked'
        BY <2>4
      <3> HIDE DEF current, next, m
      <3>7. InMemory(c)' /\ Holding(c)'
        BY <3>2, <3>5 DEF InMemory, Holding
      <3>8. OnDisk'
        BY <1>a, <2>2, <3>3, <3>4, <3>6 DEF CleanFiles, DisabledMeansClosed
      <3>9. QED
        BY <3>2, <3>7, <3>8, TurnKeeps
    <2>5. QED
      BY <2>1, <2>3, <2>4
  <1>17. ASSUME NEW c \in HistoryCaller, SaveSettings(c)
         PROVE  NothingChangesMeanwhile' /\ DisabledMeansClosed'
    <2>1. /\ Running(c) /\ call[c].at = "settings" /\ settings' = call[c].by
          /\ UNCHANGED <<manifest, files, issued, damaged, listing>>
      BY <1>17 DEF SaveSettings, At, history
    <2>2. ~settings'.enabled => Active(manifest) \subseteq overlooked
      BY <2>1, HolderKnows DEF Holding
    <2>3. OnDisk'
      BY <1>a, <2>1, <2>2 DEF CleanFiles, DisabledMeansClosed
    <2>4. QED
      BY <1>17, <1>b, <2>3, ReturnedKeeps DEF SaveSettings
  <1>18. ASSUME NEW c \in HistoryCaller, StorageLimit(c) \/ TreeRemoved(c) \/ DiskError(c)
         PROVE  NothingChangesMeanwhile' /\ DisabledMeansClosed'
    BY <1>1, <1>b, <1>18
    DEF StorageLimit, TreeRemoved, DiskError, Running, stored, history
  <1>19. ASSUME NEW c \in HistoryCaller, At(c, "append"), Cut(c) PROVE CleanFiles'
    <2>1. Req(c).id \in SessionId
      BY <1>19, <1>b, HolderKnows, RequestTypes DEF At, Holding
    <2>2. QED
      BY <1>a, <1>19, <2>1, CutKeepsClean
  <1>20. ASSUME NEW c \in HistoryCaller, AppendFails(c)
         PROVE  NothingChangesMeanwhile' /\ DisabledMeansClosed'
    <2>1. OnDisk'
      BY <1>a, <1>19, <1>20 DEF AppendFails, DisabledMeansClosed
    <2>2. QED
      BY <1>b, <1>20, <2>1, ReturnedKeeps DEF AppendFails
  <1>21. CASE Crash
    <2>1. CleanFiles'
      BY <1>a, <1>19, <1>21 DEF Crash, CleanFiles
    <2>2. \A d \in HistoryCaller : ~Running(d)'
      BY <1>21 DEF Crash, Running, HoldsLock
    <2>3. UNCHANGED <<settings, manifest, issued, listing>>
      BY <1>21 DEF Crash
    <2>4. QED
      BY <1>a, <2>1, <2>2, <2>3
      DEF NothingChangesMeanwhile, CleanFiles, DisabledMeansClosed, Active
  <1>22. CASE Tick
    <2>1. UNCHANGED <<settings, manifest, files, call, queue, issued, damaged, dropped, listing>>
      BY <1>22 DEF Tick, stored, history
    <2>2. ASSUME NEW d \in HistoryCaller, Running(d)' PROVE InMemory(d)' /\ Holding(d)'
      <3>1. InMemory(d) /\ Holding(d)
        BY <2>1, <2>2 DEF NothingChangesMeanwhile, Running, HoldsLock
      <3>2. QED
        BY <2>1, <3>1 DEF InMemory, Holding, Req, Active, Records
    <2>3. QED
      BY <1>a, <2>1, <2>2
      DEF NothingChangesMeanwhile, CleanFiles, DisabledMeansClosed, Active
  <1>23. QED
    BY <1>2, <1>3, <1>4, <1>5, <1>6, <1>7, <1>8, <1>9, <1>10, <1>11, <1>12, <1>13,
       <1>14, <1>15, <1>16, <1>17, <1>18, <1>20, <1>21, <1>22 DEF HistoryStep

-----------------------------------------------------------------------------
(* What was acknowledged, what is counted, and what can be read.           *)

\* What CountsAreHeld says of one session.
Held(i) ==
  /\ i \in DOMAIN manifest => /\ acked[i] <= manifest[i].count
                              /\ manifest[i].count <= Records(i)
  /\ i \notin DOMAIN manifest \cup forgotten => acked[i] = 0
  /\ acked[i] <= Records(i)
  /\ ~Unreadable(i)

LEMMA RecordsType == ASSUME HistoryTypeOK, NEW i PROVE Records(i) \in Nat
  <1>1. files \in [DOMAIN files -> File]
    BY PerSessionFacts DEF HistoryTypeOK
  <1>2. QED
    BY <1>1 DEF Records, File

\* A step that leaves the listing, the file and the acknowledgements of a
\* session alone.
LEMMA SameHeld ==
  ASSUME NEW i, Held(i), acked'[i] = acked[i],
         i \in DOMAIN manifest' => i \in DOMAIN manifest,
         i \in DOMAIN manifest => i \in DOMAIN manifest' \cup forgotten',
         forgotten \subseteq forgotten',
         i \in DOMAIN manifest' => manifest'[i].count = manifest[i].count,
         i \in DOMAIN files' <=> i \in DOMAIN files,
         i \in DOMAIN files => files'[i] = files[i]
  PROVE  Held(i)'
  BY DEF Held, Records, Unreadable

LEMMA StepKeepsCounts ==
  ASSUME HistoryTypeOK, LockIsHandedOn, NothingChangesMeanwhile, CountsAreHeld, HistoryStep
  PROVE  CountsAreHeld'
  <1> USE DEF listing
  <1>b. \A c : (\E step : At(c, step)) => Running(c)
    BY DEF At
  <1>d. /\ PerSession(manifest, Session) /\ CleanFiles
        /\ DOMAIN manifest \cup forgotten \subseteq issued
    BY DEF HistoryTypeOK, NothingChangesMeanwhile, CleanFiles
  <1>0. SUFFICES ASSUME NEW i \in SessionId, i \notin dropped', i \notin damaged'
                 PROVE  Held(i)'
    BY DEF CountsAreHeld, Held
  \* Nothing is ever un-dropped or mended.
  <1>h. ASSUME dropped \subseteq dropped', damaged \subseteq damaged' PROVE Held(i)
    BY <1>0, <1>h DEF CountsAreHeld, Held
  <1>1. CASE \/ Tick
             \/ \E c \in HistoryCaller : \/ Ask(c) \/ AppendBegins(c) \/ Enforce(c)
                                  \/ StorageLimit(c) \/ TreeRemoved(c) \/ DiskError(c)
                                  \/ SaveSettings(c)
    <2>1. UNCHANGED <<manifest, files, acked, dropped, damaged, forgotten>>
      BY <1>1 DEF Tick, Ask, AppendBegins, Enforce, StorageLimit, TreeRemoved,
                  DiskError, SaveSettings, stored, history
    <2>2. QED
      BY <1>h, <2>1, SameHeld
  <1>2. CASE \E c \in HistoryCaller : DeleteAll(c)
    <2>1. UNCHANGED <<manifest, files, acked, damaged, forgotten>> /\ dropped \subseteq dropped'
      BY <1>2 DEF DeleteAll, stored
    <2>2. QED
      BY <1>h, <2>1, SameHeld
  <1>3. ASSUME NEW c \in HistoryCaller, Create(c) PROVE Held(i)'
    <2>1. UNCHANGED <<manifest, acked, dropped, damaged, forgotten>>
      BY <1>3 DEF Create
    <2>2. CASE UNCHANGED files
      BY <1>h, <2>1, <2>2, SameHeld
    <2>3. CASE \E j \in SessionId \ issued : files' = With(files, j, EmptyFile)
      <3>1. PICK j \in SessionId \ issued : files' = With(files, j, EmptyFile)
        BY <2>3
      <3>2. /\ DOMAIN files' = DOMAIN files \cup {j}
            /\ files'[j] = EmptyFile
            /\ \A k \in DOMAIN files \ {j} : files'[k] = files[k]
        BY <3>1 DEF With
      <3>3. CASE i = j
        <4>1. i \notin DOMAIN manifest /\ acked[i] = 0
          BY <1>d, <1>h, <2>1, <3>1, <3>3 DEF Held
        <4>2. ~Unreadable(i)' /\ Records(i)' = 0
          BY <3>2, <3>3 DEF Unreadable, Records, EmptyFile
        <4>3. QED
          BY <2>1, <4>1, <4>2 DEF Held
      <3>4. CASE i # j
        BY <1>h, <2>1, <3>2, <3>4, SameHeld
      <3>5. QED
        BY <3>3, <3>4
    <2>4. QED
      BY <1>3, <2>2, <2>3 DEF Create
  <1>4. ASSUME NEW c \in HistoryCaller, ListCreated(c) PROVE Held(i)'
    <2>1. PICK j : j = Req(c).id
      OBVIOUS
    <2>2. j \notin DOMAIN manifest \cup forgotten
      BY <1>b, <1>4, <2>1, HolderKnows DEF ListCreated, At, Holding
    <2>m. PICK m \in {manifest, <<>>} : manifest' = With(m, j, NewSession)
      BY <1>4, <2>1, ReadTypes DEF ListCreated
    <2>n. DOMAIN m \subseteq DOMAIN manifest /\ \A k \in DOMAIN m : m[k] = manifest[k]
      BY <2>m, NoSessions
    <2>3. /\ DOMAIN manifest' = DOMAIN m \cup {j}
          /\ manifest'[j] = NewSession
          /\ \A k \in DOMAIN m \ {j} : manifest'[k] = manifest[k]
          /\ forgotten' = forgotten \cup (DOMAIN manifest \ DOMAIN manifest')
          /\ UNCHANGED <<files, acked, dropped, damaged>>
      BY <1>4, <2>m, <2>n DEF ListCreated, With
    <2>4. CASE i = j
      <3>1. acked[i] = 0 /\ ~Unreadable(i)
        BY <1>h, <2>2, <2>3, <2>4 DEF Held
      <3>2. Records(i)' = Records(i) /\ Records(i) \in Nat
        BY <2>3, RecordsType DEF Records
      <3>3. manifest'[i].count = 0
        BY <2>3, <2>4 DEF NewSession
      <3>4. QED
        BY <2>3, <2>4, <3>1, <3>2, <3>3 DEF Held, Unreadable
    <2>5. CASE i # j
      BY <1>h, <2>n, <2>3, <2>5, SameHeld
    <2>6. QED
      BY <2>4, <2>5
  <1>5. ASSUME NEW c \in HistoryCaller, PruneOne(c) \/ Delete(c) PROVE Held(i)'
    <2>1. /\ UNCHANGED <<manifest, acked, damaged, forgotten>> /\ dropped \subseteq dropped'
          /\ \/ UNCHANGED files
             \/ \E j \in dropped' : files' = Without(files, j)
      BY <1>5 DEF PruneOne, Delete
    <2>2. CASE UNCHANGED files
      BY <1>h, <2>1, <2>2, SameHeld
    <2>3. CASE \E j \in dropped' : files' = Without(files, j)
      <3>1. PICK j \in dropped' : files' = Without(files, j)
        BY <2>3
      <3>2. /\ DOMAIN files' = DOMAIN files \ {j}
            /\ \A k \in DOMAIN files \ {j} : files'[k] = files[k]
        BY <3>1 DEF Without
      <3>3. QED
        BY <1>0, <1>h, <2>1, <3>1, <3>2, SameHeld
    <2>4. QED
      BY <2>1, <2>2, <2>3
  <1>6. ASSUME NEW c \in HistoryCaller, Pruned(c) \/ Unlist(c) PROVE Held(i)'
    <2>1. /\ Running(c) /\ call[c].at \in {"prune", "unlist"} /\ manifest' = call[c].m
          /\ UNCHANGED <<files, acked, dropped, damaged>>
      BY <1>6 DEF Pruned, Unlist, At, history
    <2>2. /\ DOMAIN manifest' \subseteq DOMAIN manifest
          /\ \A k \in DOMAIN manifest' : manifest'[k] = manifest[k]
      BY <2>1, HolderKnows DEF InMemory
    <2>3. /\ forgotten \subseteq forgotten'
          /\ DOMAIN manifest \ DOMAIN manifest' \subseteq dropped \cup forgotten'
      <3>1. CASE Pruned(c)
        BY <2>1, <3>1 DEF Pruned
      <3>2. CASE Unlist(c)
        <4>1. DOMAIN manifest \ DOMAIN manifest' \subseteq dropped
          BY <2>1, <3>2, HolderKnows DEF InMemory, Unlist, At
        <4>2. QED
          BY <3>2, <4>1 DEF Unlist, history
      <3>3. QED
        BY <1>6, <3>1, <3>2
    <2>4. QED
      BY <1>0, <1>h, <2>1, <2>2, <2>3, SameHeld
  <1>7. ASSUME NEW c \in HistoryCaller, AppendFile(c) PROVE Held(i)'
    <2>1. PICK j : j = Req(c).id
      OBVIOUS
    <2>2. /\ files' = With(files, j, Appended(FileOf(j)))
          /\ UNCHANGED <<manifest, acked, dropped, damaged, forgotten>>
      BY <1>7, <2>1 DEF AppendFile, history
    <2>3. j \in SessionId
      BY <1>b, <1>7, <2>1, HolderKnows, RequestTypes DEF AppendFile, At, Holding
    <2>4. /\ j \notin damaged => Records(j)' = Records(j) + 1 /\ ~Unreadable(j)'
          /\ \A k \in SessionId \ {j} : /\ Records(k)' = Records(k)
                                        /\ Unreadable(k)' <=> Unreadable(k)
      BY <1>d, <2>2, <2>3, AppendedFacts
    <2>5. Held(i) /\ Records(i) \in Nat /\ acked[i] \in Nat
      BY <1>h, <2>2, RecordsType DEF HistoryTypeOK
    <2>6. i \in DOMAIN manifest => manifest[i].count \in Nat
      <3>1. manifest \in [DOMAIN manifest -> Session]
        BY <1>d, PerSessionFacts
      <3>2. QED
        BY <3>1 DEF Session
    <2>7. CASE i = j
      BY <1>0, <2>2, <2>4, <2>5, <2>6, <2>7 DEF Held
    <2>8. CASE i # j
      BY <2>2, <2>4, <2>5, <2>8 DEF Held
    <2>9. QED
      BY <2>7, <2>8
  <1>8. ASSUME NEW c \in HistoryCaller, Count(c) PROVE Held(i)'
    <2>1. PICK j, m : j = Req(c).id /\ m = call[c].m
      OBVIOUS
    <2>2. /\ Running(c) /\ call[c].at = "count"
          /\ manifest' = Counted(m, j, Req(c).size)
          /\ acked' = [acked EXCEPT ![j] = @ + 1]
          /\ UNCHANGED <<files, dropped, damaged, forgotten>>
      BY <1>8, <2>1 DEF Count, At
    <2>3. InMemory(c) /\ Holding(c) /\ PerSession(m, Session)
      BY <2>1, <2>2, HolderKnows
    <2>4. /\ Req(c).op = "append" /\ j \in SessionId /\ Req(c).size \in Nat
          /\ j \notin dropped \cup damaged => m[j].count < Records(j)
      BY <2>1, <2>2, <2>3, RequestTypes, SizesAssumption DEF Holding
    <2>5. /\ DOMAIN m \subseteq DOMAIN manifest
          /\ \A k \in DOMAIN m : m[k] = manifest[k]
          /\ DOMAIN manifest \ DOMAIN m \subseteq dropped
          /\ j \in DOMAIN m
      BY <2>1, <2>2, <2>3, <2>4 DEF InMemory, Active
    <2>6. /\ DOMAIN manifest' = DOMAIN m
          /\ manifest'[j].count = m[j].count + 1
          /\ \A k \in DOMAIN m \ {j} : manifest'[k] = m[k]
      BY <2>2, <2>3, <2>4, <2>5, CountedFacts
    <2>7. Held(i) /\ acked \in [SessionId -> Nat]
      BY <1>h, <2>2 DEF HistoryTypeOK
    <2>8. CASE i = j
      <3>1. m[j].count \in Nat /\ Records(j) \in Nat
        <4>1. m \in [DOMAIN m -> Session]
          BY <2>3, PerSessionFacts
        <4>2. QED
          BY <2>5, <4>1, RecordsType DEF Session
      <3>2. m[j].count < Records(j) /\ acked[j] <= m[j].count /\ acked[j] \in Nat
        BY <1>0, <2>2, <2>4, <2>5, <2>7, <2>8 DEF Held
      <3>3. /\ acked'[j] = acked[j] + 1 /\ manifest'[j].count = m[j].count + 1
            /\ j \in DOMAIN manifest' /\ Records(j)' = Records(j)
            /\ Unreadable(j)' <=> Unreadable(j)
        BY <2>2, <2>4, <2>5, <2>6, <2>7 DEF Records, Unreadable
      <3>4. /\ acked'[j] <= manifest'[j].count /\ manifest'[j].count <= Records(j)'
            /\ acked'[j] <= Records(j)'
        BY <3>1, <3>2, <3>3
      <3>5. QED
        BY <2>7, <2>8, <3>3, <3>4 DEF Held
    <2>9. CASE i # j
      <3>1. acked'[i] = acked[i]
        BY <2>2, <2>7, <2>9
      <3>2. i \in DOMAIN manifest' <=> i \in DOMAIN manifest
        BY <1>0, <2>2, <2>5, <2>6
      <3>3. QED
        BY <2>2, <2>5, <2>6, <2>7, <2>9, <3>1, <3>2, SameHeld
    <2>10. QED
      BY <2>8, <2>9
  <1>9. ASSUME NEW c \in HistoryCaller, EndSession(c) PROVE Held(i)'
    <2>1. PICK j \in SessionId, status \in {"completed", "aborted"} :
            \/ j \in Active(manifest) /\ manifest' = Ended(manifest, j, status)
            \/ UNCHANGED manifest
      BY <1>9, ReadTypes DEF EndSession
    <2>2. UNCHANGED <<files, acked, dropped, damaged, forgotten>>
      BY <1>9 DEF EndSession, history
    <2>3. CASE j \in Active(manifest) /\ manifest' = Ended(manifest, j, status)
      <3>1. j \in DOMAIN manifest /\ now \in Nat
        BY <2>3 DEF Active, HistoryTypeOK
      <3>2. /\ DOMAIN manifest' = DOMAIN manifest
            /\ \A k \in DOMAIN manifest : manifest'[k].count = manifest[k].count
        BY <1>d, <2>1, <2>3, <3>1, EndedFacts
      <3>3. QED
        BY <1>h, <2>2, <3>2, SameHeld
    <2>4. CASE UNCHANGED manifest
      BY <1>h, <2>1, <2>2, <2>4, SameHeld
    <2>5. QED
      BY <2>1, <2>3, <2>4
  <1>10. ASSUME NEW c \in HistoryCaller, RemoveEntry(c) PROVE Held(i)'
    <2>1. /\ Running(c) /\ call[c].at = "tree"
          /\ UNCHANGED <<acked, dropped, damaged, forgotten>>
          /\ manifest' = manifest \/ manifest' = <<>>
          /\ UNCHANGED files \/ \E j : files' = Without(files, j)
      BY <1>10 DEF RemoveEntry, At, history
    <2>2. DOMAIN manifest \cup DOMAIN files \subseteq dropped
      BY <2>1, HolderKnows DEF Holding
    <2>3. i \notin DOMAIN manifest /\ i \notin DOMAIN manifest'
      BY <1>0, <2>1, <2>2, NoSessions
    <2>4. i \notin DOMAIN files /\ i \notin DOMAIN files'
      BY <1>0, <2>1, <2>2 DEF Without
    <2>5. QED
      BY <1>h, <2>1, <2>3, <2>4, SameHeld
  <1>11. ASSUME NEW c \in HistoryCaller, Update(c) PROVE Held(i)'
    <2>1. /\ manifest' \in {manifest, Aborted(manifest)}
          /\ UNCHANGED <<files, acked, dropped, damaged, forgotten>>
      BY <1>11, ReadTypes DEF Update
    <2>2. /\ DOMAIN Aborted(manifest) = DOMAIN manifest
          /\ \A k \in DOMAIN manifest : Aborted(manifest)[k].count = manifest[k].count
      BY <1>d, AbortedFacts DEF HistoryTypeOK
    <2>3. QED
      BY <1>h, <2>1, <2>2, SameHeld
  <1>12. ASSUME NEW c \in HistoryCaller, Cut(c), UNCHANGED <<manifest, acked, dropped, forgotten>>
         PROVE  Held(i)'
    <2>1. PICK j, f : files' = With(files, j, f) /\ damaged' = damaged \cup {j}
      BY <1>12 DEF Cut
    <2>2. /\ DOMAIN files' = DOMAIN files \cup {j}
          /\ \A k \in DOMAIN files \ {j} : files'[k] = files[k]
      BY <2>1 DEF With
    <2>3. QED
      BY <1>0, <1>h, <1>12, <2>1, <2>2, SameHeld
  <1>13. CASE \E c \in HistoryCaller : AppendFails(c)
    BY <1>12, <1>13 DEF AppendFails
  <1>14. CASE Crash
    <2>1. CASE UNCHANGED <<files, damaged>>
      BY <1>h, <1>14, <2>1, SameHeld DEF Crash
    <2>2. CASE \E c \in HistoryCaller : Cut(c)
      BY <1>12, <1>14, <2>2 DEF Crash
    <2>3. QED
      BY <1>14, <2>1, <2>2 DEF Crash
  <1>15. QED
    BY <1>1, <1>2, <1>3, <1>4, <1>5, <1>6, <1>7, <1>8, <1>9, <1>10, <1>11, <1>13,
       <1>14 DEF HistoryStep

-----------------------------------------------------------------------------
(* The theorems.                                                           *)

THEOREM StoreInvariant == HistorySpec => [](StoreInv /\ CountsAreHeld)
  <1>1. HistoryInit => StoreInv /\ CountsAreHeld
    <2> SUFFICES ASSUME HistoryInit PROVE StoreInv /\ CountsAreHeld
      OBVIOUS
    <2>1. HistoryTypeOK
      <3>1. PerSession(<<>>, Session) /\ PerSession(<<>>, File)
        BY NoSessions
      <3>2. QED
        BY <3>1, DefaultsType DEF HistoryInit, HistoryTypeOK
    <2>2. LockIsHandedOn
      BY DEF HistoryInit, LockIsHandedOn
    <2>3. DOMAIN manifest = {} /\ DOMAIN files = {}
      BY NoSessions DEF HistoryInit
    <2>4. DisabledMeansClosed
      BY <2>3 DEF DisabledMeansClosed, Active
    <2>5. NothingChangesMeanwhile
      BY <2>3 DEF HistoryInit, NothingChangesMeanwhile, Running, HoldsLock
    <2>6. CountsAreHeld
      BY <2>3 DEF HistoryInit, CountsAreHeld, Unreadable, Records
    <2>7. QED
      BY <2>1, <2>2, <2>4, <2>5, <2>6 DEF StoreInv
  <1>2. StoreInv /\ CountsAreHeld /\ [HistoryNext]_historyVars => (StoreInv /\ CountsAreHeld)'
    <2>1. StoreInv /\ CountsAreHeld /\ HistoryNext => (StoreInv /\ CountsAreHeld)'
      BY NextIsHistoryStep, HistoryStepTyped, StepKeepsLock, StepKeepsMeanwhile, StepKeepsCounts
      DEF StoreInv
    <2>2. StoreInv /\ CountsAreHeld /\ UNCHANGED historyVars => (StoreInv /\ CountsAreHeld)'
      <3> SUFFICES ASSUME StoreInv, CountsAreHeld, UNCHANGED historyVars
                   PROVE  StoreInv' /\ CountsAreHeld'
        OBVIOUS
      <3> USE DEF historyVars, stored, history, listing
      <3>1. HistoryTypeOK' /\ LockIsHandedOn' /\ DisabledMeansClosed'
        BY DEF StoreInv, HistoryTypeOK, LockIsHandedOn, DisabledMeansClosed, Active
      <3>2. CountsAreHeld'
        BY DEF CountsAreHeld, Records, Unreadable
      <3>3. ASSUME NEW d \in HistoryCaller, Running(d)' PROVE InMemory(d)' /\ Holding(d)'
        <4>1. InMemory(d) /\ Holding(d)
          BY <3>3 DEF StoreInv, NothingChangesMeanwhile, Running, HoldsLock
        <4>2. QED
          BY <4>1 DEF InMemory, Holding, Req, Active, Records
      <3>4. NothingChangesMeanwhile'
        BY <3>3 DEF StoreInv, NothingChangesMeanwhile
      <3>5. QED
        BY <3>1, <3>2, <3>4 DEF StoreInv
    <2>3. QED
      BY <2>1, <2>2
  <1>3. QED
    BY <1>1, <1>2, PTL DEF HistorySpec

\* The lock is handed on whatever becomes of an operation, what an operation
\* read before an await still holds when it writes, and saving that is off
\* leaves no session open but those that an update overlooked which could not
\* read the settings or the list: after any failing call, any crash, any
\* interleaving.
THEOREM StoreSafety == HistorySpec => []StoreInv
  BY StoreInvariant, PTL

\* Records that were acknowledged are counted, and those counted can be read,
\* for every session that nothing has chosen to remove and no append was cut
\* off in.
THEOREM CountsSafety == HistorySpec => []CountsAreHeld
  BY StoreInvariant, PTL

\* A limit never costs an active session its file: only a deletion removes it.
THEOREM PruningSpares == HistorySpec => ActiveIsNotPruned
  <1> DEFINE Spared ==
        \A i \in Active(manifest) :
          i \in DOMAIN files \ DOMAIN files' =>
            \E c \in HistoryCaller :
              \/ call[c] = Queued /\ call'[c] # Queued /\ call'[c].req.op = "delete"
              \/ At(c, "tree")
  <1>1. StoreInv /\ [HistoryNext]_historyVars => Spared
    <2> SUFFICES ASSUME StoreInv, HistoryNext,
                        NEW i \in Active(manifest), i \in DOMAIN files \ DOMAIN files'
                 PROVE  \E c \in HistoryCaller :
                          \/ call[c] = Queued /\ call'[c] # Queued
                             /\ call'[c].req.op = "delete"
                          \/ At(c, "tree")
      BY DEF historyVars, stored
    <2>1. HistoryStep
      BY NextIsHistoryStep
    <2>2. ~UNCHANGED files /\ ~\E j, f : files' = With(files, j, f)
      BY DEF With
    <2>3. ~\E c \in HistoryCaller : PruneOne(c)
      <3> SUFFICES ASSUME NEW c \in HistoryCaller, PruneOne(c) PROVE FALSE
        OBVIOUS
      <3>1. /\ Running(c) /\ call[c].at = "prune"
            /\ \E j \in Prunable(c) : files' = Without(files, j)
        BY DEF PruneOne, At
      <3>2. i \in Prunable(c)
        BY <3>1 DEF Without
      <3>3. i \in DOMAIN call[c].m /\ call[c].m[i].status # "active"
        BY <3>2 DEF Prunable, Oldest, Candidates, Active
      <3>4. call[c].m[i] = manifest[i]
        BY <3>1, <3>3, HolderKnows DEF StoreInv, InMemory
      <3>5. QED
        BY <3>3, <3>4 DEF Active
    <2>4. ASSUME NEW c \in HistoryCaller, RemoveEntry(c) PROVE At(c, "tree")
      BY <2>4 DEF RemoveEntry
    <2>5. ASSUME NEW c \in HistoryCaller, Delete(c)
          PROVE  call[c] = Queued /\ call'[c] # Queued /\ call'[c].req.op = "delete"
      <3>1. PICK j, step : Goes(c, [op |-> "delete"], step, Without(manifest, j), settings)
        BY <2>2, <2>5 DEF Delete
      <3>2. /\ call[c] = Queued /\ c \in DOMAIN call
            /\ call'[c].req = [op |-> "delete"]
            /\ DOMAIN call'[c] = {"req", "at", "m", "by", "since"}
        BY <2>5, <3>1 DEF Delete, Begins, Goes, StoreInv, HistoryTypeOK
      <3>3. call'[c] # Queued
        BY <3>2 DEF Queued
      <3>4. QED
        BY <3>2, <3>3
    <2>6. ~\/ Tick
           \/ \E c \in HistoryCaller :
                \/ Ask(c) \/ Create(c) \/ ListCreated(c) \/ AppendBegins(c) \/ Enforce(c)
                \/ StorageLimit(c) \/ Pruned(c) \/ AppendFile(c) \/ Count(c)
                \/ EndSession(c) \/ Unlist(c) \/ DeleteAll(c) \/ TreeRemoved(c)
                \/ Update(c) \/ SaveSettings(c) \/ DiskError(c)
      BY <2>2 DEF Tick, Ask, Create, ListCreated, AppendBegins, Enforce, StorageLimit,
         Pruned, AppendFile, Count, EndSession, Unlist, DeleteAll, TreeRemoved, Update,
         SaveSettings, DiskError, stored
    <2>7. ~Crash /\ ~\E c \in HistoryCaller : AppendFails(c)
      BY <2>2 DEF Crash, AppendFails, Cut
    <2>8. QED
      BY <2>1, <2>3, <2>4, <2>5, <2>6, <2>7 DEF HistoryStep
  <1>2. QED
    BY <1>1, StoreSafety, PTL DEF HistorySpec, ActiveIsNotPruned

-----------------------------------------------------------------------------
(* The limits.  Total is a recursion over the sessions listed; what it      *)
(* comes to is shown from a solution of the recursion.                      *)

\* The session whose bytes are added first, and what a step of the recursion
\* adds up.
Picked(T) == CHOOSE i \in T : TRUE
Sum(m, iter, T) == IF T = {} THEN 0 ELSE m[Picked(T)].bytes + iter[T \ {Picked(T)}]
UpTo(m, n) == {T \in SUBSET DOMAIN m : Cardinality(T) <= n}

LEMMA TotalIsSum ==
  ASSUME NEW m
  PROVE  Total(m) = (CHOOSE iter : iter = [T \in SUBSET DOMAIN m |-> Sum(m, iter, T)])[DOMAIN m]
BY DEF Total, MapThenSumSet, MapThenFoldSet, Sum, Picked

\* Every set of numbers that is not empty has a least one.
LEMMA LeastNumber ==
  ASSUME NEW S, S \subseteq Nat, S # {}
  PROVE  \E n \in S : \A k \in S : n <= k
<1> DEFINE Less == {ij \in Nat \X Nat : ij[1] < ij[2]}
<1>1. IsWellFoundedOn(Less, Nat)
  BY NatLessThanWellFounded DEF OpToRel
<1>2. \E n \in S : \A k \in S : ~(<<k, n>> \in Less)
  <2> HIDE DEF Less
  <2> QED BY <1>1, WFMin
<1>3. \A n, k \in Nat : ~(<<k, n>> \in Less) => n <= k
  OBVIOUS
<1> QED BY <1>2, <1>3

\* Taking a session out of a set.
LEMMA PickedFacts ==
  ASSUME NEW m, IsFiniteSet(DOMAIN m), NEW T \in SUBSET DOMAIN m, T # {}
  PROVE  /\ Picked(T) \in T /\ T \ {Picked(T)} \in SUBSET DOMAIN m
         /\ Cardinality(T) \in Nat \ {0}
         /\ Cardinality(T \ {Picked(T)}) = Cardinality(T) - 1
<1>1. Picked(T) \in T
  BY DEF Picked
<1>2. IsFiniteSet(T)
  BY FS_Subset
<1>3. Cardinality(T) \in Nat /\ Cardinality(T) # 0
  BY <1>2, FS_CardinalityType, FS_EmptySet
<1>4. Cardinality(T \ {Picked(T)}) = Cardinality(T) - 1
  BY <1>1, <1>2, FS_RemoveElement
<1> QED BY <1>1, <1>3, <1>4

LEMMA SumGrows ==
  ASSUME NEW m, IsFiniteSet(DOMAIN m), NEW n \in Nat,
         NEW f, f = [T \in UpTo(m, n) |-> Sum(m, f, T)]
  PROVE  \E g : g = [T \in UpTo(m, n + 1) |-> Sum(m, g, T)]
<1> DEFINE g == [T \in UpTo(m, n + 1) |-> Sum(m, f, T)]
<1>1. ASSUME NEW T \in UpTo(m, n + 1) PROVE Sum(m, f, T) = Sum(m, g, T)
  <2>1. CASE T = {}
    BY <2>1 DEF Sum
  <2>2. CASE T # {}
    <3> DEFINE U == T \ {Picked(T)}
    <3>1. T \in SUBSET DOMAIN m /\ Cardinality(T) <= n + 1
      BY DEF UpTo
    <3>2. U \in SUBSET DOMAIN m /\ Cardinality(U) <= n
      BY <2>2, <3>1, PickedFacts
    <3>3. U \in UpTo(m, n) /\ U \in UpTo(m, n + 1)
      <4> HIDE DEF U
      <4>1. n <= n + 1 /\ (Cardinality(U) <= n => Cardinality(U) <= n + 1)
        <5>1. Cardinality(U) \in Nat
          BY <3>2, FS_Subset, FS_CardinalityType
        <5> QED BY <5>1
      <4> QED BY <3>2, <4>1 DEF UpTo
    <3>4. g[U] = Sum(m, f, U)
      BY <3>3
    <3>5. f[U] = Sum(m, f, U)
      BY <3>3
    <3> HIDE DEF g
    <3> QED BY <2>2, <3>4, <3>5 DEF Sum
  <2> QED BY <2>1, <2>2
<1>2. g = [T \in UpTo(m, n + 1) |-> Sum(m, g, T)]
  BY <1>1
<1> QED BY <1>2

\* The recursion has a solution, so the one that is chosen is one.
LEMMA SumExists ==
  ASSUME NEW m, IsFiniteSet(DOMAIN m)
  PROVE  \E f : f = [T \in SUBSET DOMAIN m |-> Sum(m, f, T)]
<1> DEFINE Some(n) == \E f : f = [T \in UpTo(m, n) |-> Sum(m, f, T)]
           bad == {n \in Nat : ~Some(n)}
<1>1. Some(0)
  <2> DEFINE f == [T \in UpTo(m, 0) |-> 0]
  <2>1. ASSUME NEW T \in UpTo(m, 0) PROVE T = {}
    <3>1. T \in SUBSET DOMAIN m /\ Cardinality(T) <= 0
      BY DEF UpTo
    <3> SUFFICES ASSUME T # {} PROVE FALSE
      OBVIOUS
    <3>2. Cardinality(T) \in Nat \ {0}
      BY <3>1, PickedFacts
    <3> QED BY <3>1, <3>2
  <2>2. \A T \in UpTo(m, 0) : Sum(m, f, T) = 0
    BY <2>1 DEF Sum
  <2>3. f = [T \in UpTo(m, 0) |-> Sum(m, f, T)]
    BY <2>2
  <2> QED BY <2>3
<1>2. \A n \in Nat : Some(n) => Some(n + 1)
  BY SumGrows
<1> HIDE DEF Some
<1>3. bad = {}
  <2> SUFFICES ASSUME bad # {} PROVE FALSE
    OBVIOUS
  <2>0. bad \subseteq Nat
    OBVIOUS
  <2>1. PICK n \in bad : \A k \in bad : n <= k
    <3> HIDE DEF bad
    <3> QED BY <2>0, LeastNumber
  <2>2. n # 0
    BY <1>1
  <2>3. n - 1 \in Nat /\ n = (n - 1) + 1 /\ n - 1 \notin bad
    BY <2>1, <2>2
  <2> QED BY <1>2, <2>3
<1>4. Cardinality(DOMAIN m) \in Nat /\ UpTo(m, Cardinality(DOMAIN m)) = SUBSET DOMAIN m
  BY FS_CardinalityType, FS_Subset DEF UpTo
<1>5. Some(Cardinality(DOMAIN m))
  BY <1>3, <1>4
<1> QED BY <1>4, <1>5 DEF Some

LEMMA TotalSolves ==
  ASSUME NEW m, IsFiniteSet(DOMAIN m)
  PROVE  \E f : Total(m) = f[DOMAIN m] /\ \A T \in SUBSET DOMAIN m : f[T] = Sum(m, f, T)
<1> DEFINE f == CHOOSE iter : iter = [T \in SUBSET DOMAIN m |-> Sum(m, iter, T)]
<1>1. f = [T \in SUBSET DOMAIN m |-> Sum(m, f, T)]
  BY SumExists
<1>2. Total(m) = f[DOMAIN m]
  BY TotalIsSum
<1> HIDE DEF f
<1> QED BY <1>1, <1>2

\* One more record adds its size to the total.
LEMMA CountedTotal ==
  ASSUME NEW m, PerSession(m, Session), IsFiniteSet(DOMAIN m),
         NEW i \in DOMAIN m, NEW size \in Nat
  PROVE  /\ Total(m) \in Nat
         /\ Total(Counted(m, i, size)) = Total(m) + size
         /\ Counted(m, i, size)[i].bytes = m[i].bytes + size
<1> DEFINE e == Counted(m, i, size)
           more(T) == IF i \in T THEN size ELSE 0
<1>1. m \in [DOMAIN m -> Session] /\ DOMAIN m \subseteq SessionId
  BY PerSessionFacts
<1>2. /\ DOMAIN e = DOMAIN m /\ e[i].bytes = m[i].bytes + size
      /\ \A j \in DOMAIN m \ {i} : e[j] = m[j]
  <2> DEFINE s == m[i]
             r == [s EXCEPT !.count = @ + 1]
             t == [r EXCEPT !.bytes = @ + size]
  <2>1. r.bytes = s.bytes /\ "bytes" \in DOMAIN r
    BY <1>1 DEF Session
  <2>2. e = [m EXCEPT ![i] = t]
    BY <1>1 DEF Counted
  <2> HIDE DEF e, r
  <2>3. t.bytes = s.bytes + size
    BY <2>1
  <2> HIDE DEF t
  <2> QED BY <2>2, <2>3
<1> HIDE DEF e
<1>3. PICK f : Total(m) = f[DOMAIN m] /\ \A T \in SUBSET DOMAIN m : f[T] = Sum(m, f, T)
  BY TotalSolves
<1>4. PICK g : Total(e) = g[DOMAIN m] /\ \A T \in SUBSET DOMAIN m : g[T] = Sum(e, g, T)
  <2>1. \E g : Total(e) = g[DOMAIN e] /\ \A T \in SUBSET DOMAIN e : g[T] = Sum(e, g, T)
    BY <1>2, TotalSolves
  <2> QED BY <1>2, <2>1
<1> DEFINE Fine(T) == f[T] \in Nat /\ g[T] = f[T] + more(T)
           bad == {n \in Nat : \E T \in SUBSET DOMAIN m : Cardinality(T) = n /\ ~Fine(T)}
<1>5. bad = {}
  <2> SUFFICES ASSUME bad # {} PROVE FALSE
    OBVIOUS
  <2>0. bad \subseteq Nat
    OBVIOUS
  <2>1. PICK n \in bad : \A k \in bad : n <= k
    <3> HIDE DEF bad
    <3> QED BY <2>0, LeastNumber
  <2>2. PICK T \in SUBSET DOMAIN m : Cardinality(T) = n /\ ~Fine(T)
    BY <2>1
  <2>3. CASE T = {}
    <3>1. f[T] = 0 /\ g[T] = 0
      BY <1>3, <1>4, <2>3 DEF Sum
    <3> QED BY <2>2, <2>3, <3>1
  <2>4. CASE T # {}
    <3> DEFINE j == Picked(T)
               U == T \ {j}
    <3>1. j \in T /\ U \in SUBSET DOMAIN m /\ Cardinality(U) = n - 1 /\ n \in Nat \ {0}
      BY <2>2, <2>4, PickedFacts
    <3>2. f[T] = m[j].bytes + f[U] /\ g[T] = e[j].bytes + g[U]
      BY <1>3, <1>4, <2>4 DEF Sum
    <3> HIDE DEF j
    <3>3. Fine(U)
      <4>1. n - 1 \in Nat /\ n - 1 \notin bad
        <5> HIDE DEF bad
        <5> QED BY <2>0, <2>1, <3>1
      <4> HIDE DEF Fine, U
      <4> QED BY <3>1, <4>1
    <3>4. m[j].bytes \in Nat /\ j \in DOMAIN m /\ m[i].bytes \in Nat
      BY <1>1, <3>1 DEF Session
    <3>5. f[T] \in Nat
      BY <3>2, <3>3, <3>4
    <3>6. CASE j = i
      <4>1. more(U) = 0 /\ more(T) = size /\ e[j].bytes = m[j].bytes + size
        BY <1>2, <3>1, <3>6
      <4>2. g[T] = f[T] + more(T)
        <5> HIDE DEF more
        <5> QED BY <3>2, <3>3, <3>4, <4>1
      <4> QED BY <2>2, <3>5, <4>2
    <3>7. CASE j # i
      <4>1. more(U) = more(T) /\ e[j].bytes = m[j].bytes /\ more(T) \in Nat
        BY <1>2, <3>4, <3>7
      <4>2. g[T] = f[T] + more(T)
        <5> HIDE DEF more, U
        <5> QED BY <3>2, <3>3, <3>4, <4>1
      <4> QED BY <2>2, <3>5, <4>2
    <3> QED BY <3>6, <3>7
  <2> QED BY <2>3, <2>4
<1>6. Cardinality(DOMAIN m) \in Nat
  BY FS_CardinalityType
<1>7. Fine(DOMAIN m)
  <2> HIDE DEF Fine
  <2> QED BY <1>5, <1>6
<1> QED BY <1>2, <1>3, <1>4, <1>7 DEF e

\* The record under way leaves its session within the limit it has been
\* compared with, and the total as well once pruning is through.
Within(c) ==
  LET m == call[c].m
      r == Req(c)
  IN r.op = "append" =>
       /\ call[c].at \in {"prune", "append", "count"} =>
            m[r.id].bytes + r.size <= settings.maxSession
       /\ call[c].at \in {"append", "count"} => Total(m) + r.size <= settings.max

LimitsInv ==
  /\ IsFiniteSet(DOMAIN manifest)
  /\ \A c \in HistoryCaller : Running(c) => Within(c)

\* A turn that returns leaves nothing to show.
LEMMA TurnWithin ==
  ASSUME HistoryTypeOK, LockIsHandedOn, NEW c \in HistoryCaller, Turns(c), Return(c) \/ Within(c)'
  PROVE  \A d \in HistoryCaller : Running(d)' => Within(d)'
<1>1. \A d \in HistoryCaller : Running(d)' => d = c
  BY TurnKeepsLock
<1>2. ASSUME Return(c) PROVE ~Running(c)'
  <2>1. call'[c] = Free
    BY <1>2 DEF HistoryTypeOK, Return, Resolved
  <2> QED BY <2>1 DEF Running
<1> QED BY <1>1, <1>2

\* An operation that is no append is not concerned.
LEMMA GoesWithin ==
  ASSUME HistoryTypeOK, LockIsHandedOn, NEW c \in HistoryCaller, Begins(c), NEW step \in Steps,
         NEW q \in Requests, q.op # "append", NEW m, PerSession(m, Session),
         NEW by \in Settings, Goes(c, q, step, m, by)
  PROVE  \A d \in HistoryCaller : Running(d)' => Within(d)'
<1>1. Turns(c) /\ call'[c].req = q
  BY GoesTurns
<1>2. Within(c)'
  BY <1>1 DEF Within, Req
<1> QED BY <1>1, <1>2, TurnWithin

\* The record an append is about, in the manifest it has in memory.
LEMMA AppendFacts ==
  ASSUME StoreInv, IsFiniteSet(DOMAIN manifest), NEW c \in HistoryCaller, Running(c),
         Req(c).op = "append", call[c].at \in {"prune", "append", "count"}
  PROVE  LET m == call[c].m IN
         /\ PerSession(m, Session) /\ IsFiniteSet(DOMAIN m)
         /\ Req(c).id \in Active(m) /\ Req(c).id \in DOMAIN m /\ Req(c).size \in Nat
         /\ Total(m) \in Nat
<1>1. PerSession(call[c].m, Session) /\ Req(c).size \in Nat
  BY RequestTypes, SizesAssumption DEF StoreInv
<1>2. DOMAIN call[c].m \subseteq DOMAIN manifest /\ Req(c).id \in Active(call[c].m)
  BY HolderKnows DEF StoreInv, InMemory
<1>3. IsFiniteSet(DOMAIN call[c].m)
  BY <1>2, FS_Subset
<1>4. Req(c).id \in DOMAIN call[c].m
  BY <1>2 DEF Active
<1>5. Total(call[c].m) \in Nat
  BY <1>1, <1>3, <1>4, CountedTotal
<1> QED BY <1>1, <1>2, <1>3, <1>4, <1>5

\* Sessions are listed one at a time.
LEMMA ManifestStaysFinite ==
  ASSUME StoreInv, IsFiniteSet(DOMAIN manifest), HistoryStep
  PROVE  IsFiniteSet(DOMAIN manifest')
<1>1. \E i : DOMAIN manifest' \subseteq DOMAIN manifest \cup {i}
  <2>1. CASE UNCHANGED manifest
    BY <2>1
  <2>2. ASSUME NEW c \in HistoryCaller, ListCreated(c)
        PROVE  DOMAIN manifest' \subseteq DOMAIN manifest \cup {Req(c).id}
    <3>1. PICK m \in {manifest, <<>>} : manifest' = With(m, Req(c).id, NewSession)
      BY <2>2, ReadTypes DEF ListCreated, StoreInv
    <3>2. DOMAIN m \subseteq DOMAIN manifest
      BY NoSessions
    <3> QED BY <3>1, <3>2 DEF With
  <2>3. ASSUME NEW c \in HistoryCaller, Pruned(c) \/ Unlist(c)
        PROVE  DOMAIN manifest' \subseteq DOMAIN manifest
    <3>1. Running(c) /\ call[c].at \in {"prune", "unlist"} /\ manifest' = call[c].m
      BY <2>3 DEF Pruned, Unlist, At
    <3> QED BY <3>1, HolderKnows DEF StoreInv, InMemory
  <2>4. ASSUME NEW c \in HistoryCaller, Count(c)
        PROVE  DOMAIN manifest' \subseteq DOMAIN manifest
    <3>1. /\ Running(c) /\ call[c].at = "count"
          /\ manifest' = Counted(call[c].m, Req(c).id, Req(c).size)
      BY <2>4 DEF Count, At
    <3>2. DOMAIN call[c].m \subseteq DOMAIN manifest
      BY <3>1, HolderKnows DEF StoreInv, InMemory
    <3>3. DOMAIN manifest' = DOMAIN call[c].m
      BY <3>1 DEF Counted
    <3> QED BY <3>2, <3>3
  <2>5. ASSUME NEW c \in HistoryCaller, EndSession(c)
        PROVE  DOMAIN manifest' \subseteq DOMAIN manifest
    BY <2>5 DEF EndSession, Ended
  <2>6. ASSUME NEW c \in HistoryCaller, RemoveEntry(c)
        PROVE  DOMAIN manifest' \subseteq DOMAIN manifest
    BY <2>6, NoSessions DEF RemoveEntry
  <2>7. ASSUME NEW c \in HistoryCaller, Update(c)
        PROVE  DOMAIN manifest' \subseteq DOMAIN manifest
    BY <2>7, ReadTypes DEF Update, Aborted, StoreInv
  <2>8. ASSUME \/ Crash \/ Tick
               \/ \E c \in HistoryCaller :
                    \/ Ask(c) \/ Create(c) \/ AppendBegins(c) \/ Enforce(c) \/ PruneOne(c)
                    \/ StorageLimit(c) \/ AppendFile(c) \/ Delete(c) \/ DeleteAll(c)
                    \/ TreeRemoved(c) \/ SaveSettings(c) \/ DiskError(c) \/ AppendFails(c)
        PROVE  UNCHANGED manifest
    BY <2>8 DEF Crash, Tick, Ask, Create, AppendBegins, Enforce, PruneOne, StorageLimit,
       AppendFile, Delete, DeleteAll, TreeRemoved, SaveSettings, DiskError, AppendFails, stored
  <2> QED BY <2>1, <2>2, <2>3, <2>4, <2>5, <2>6, <2>7, <2>8 DEF HistoryStep
<1> QED BY <1>1, FS_AddElement, FS_Subset

LEMMA StepStaysWithin ==
  ASSUME StoreInv, LimitsInv, HistoryStep
  PROVE  \A d \in HistoryCaller : Running(d)' => Within(d)'
<1>a. /\ HistoryTypeOK /\ LockIsHandedOn /\ IsFiniteSet(DOMAIN manifest)
      /\ \A c \in HistoryCaller : Running(c) => Within(c)
      /\ PerSession(manifest, Session) /\ PerSession(<<>>, Session)
      /\ settings \in Settings
      /\ settings.max \in Nat /\ settings.maxSession \in Nat
  BY NoSessions DEF StoreInv, HistoryTypeOK, LimitsInv, Settings
<1>b. \A c : (\E step : At(c, step)) => Running(c) /\ HoldsLock(c)
  BY DEF At, Running
<1>c. \A c : Begins(c) => HoldsLock(c)
  BY DEF Begins
<1>1. ASSUME NEW c \in HistoryCaller, HoldsLock(c), Return(c)
      PROVE  \A d \in HistoryCaller : Running(d)' => Within(d)'
  BY <1>1, <1>a, ReturnTurns, TurnWithin
<1>2. ASSUME NEW c \in HistoryCaller,
             \/ ListCreated(c) \/ StorageLimit(c) \/ Count(c) \/ EndSession(c)
             \/ Unlist(c) \/ TreeRemoved(c) \/ SaveSettings(c) \/ DiskError(c)
             \/ AppendFails(c)
      PROVE  \A d \in HistoryCaller : Running(d)' => Within(d)'
  <2>1. Return(c)
    BY <1>2 DEF ListCreated, StorageLimit, Count, EndSession, Unlist, TreeRemoved,
                SaveSettings, DiskError, AppendFails
  <2>2. HoldsLock(c)
    BY <1>2, <1>b, <1>c
    DEF ListCreated, StorageLimit, Count, EndSession, Unlist, TreeRemoved,
        SaveSettings, DiskError, AppendFails, Running
  <2> QED BY <1>1, <2>1, <2>2
<1>3. ASSUME NEW c \in HistoryCaller, Ask(c)
      PROVE  \A d \in HistoryCaller : Running(d)' => Within(d)'
  <2>1. \A d \in HistoryCaller : Running(d)' => Running(d) /\ call'[d] = call[d]
    BY <1>a, <1>3, AskKeepsLock
  <2>2. settings' = settings
    BY <1>3 DEF Ask, stored
  <2> QED BY <1>a, <2>1, <2>2 DEF Within, Req
<1>4. ASSUME Crash PROVE \A d \in HistoryCaller : Running(d)' => Within(d)'
  BY <1>4 DEF Crash, Running
<1>5. ASSUME Tick \/ \E c \in HistoryCaller : RemoveEntry(c)
      PROVE  \A d \in HistoryCaller : Running(d)' => Within(d)'
  <2>1. UNCHANGED <<call, queue, settings>>
    BY <1>5 DEF Tick, RemoveEntry, stored
  <2> QED BY <1>a, <2>1 DEF Within, Req, Running, HoldsLock
<1>6. ASSUME NEW c \in HistoryCaller, Create(c) \/ Enforce(c) \/ Delete(c) \/ DeleteAll(c) \/ Update(c)
      PROVE  \A d \in HistoryCaller : Running(d)' => Within(d)'
  <2>0. Begins(c) /\ HoldsLock(c)
    BY <1>6, <1>c DEF Create, Enforce, Delete, DeleteAll, Update
  <2>1. CASE Return(c)
    BY <1>1, <2>0, <2>1
  <2>2. CASE \E i \in SessionId : Goes(c, [op |-> "create", id |-> i], "list", <<>>, settings)
    <3>1. PICK i \in SessionId : Goes(c, [op |-> "create", id |-> i], "list", <<>>, settings)
      BY <2>2
    <3> DEFINE q == [op |-> "create", id |-> i]
    <3>2. q \in Requests /\ q.op # "append" /\ "list" \in Steps
      BY DEF Requests, Steps
    <3> HIDE DEF q
    <3>3. Goes(c, q, "list", <<>>, settings)
      BY <3>1 DEF q
    <3> QED BY <1>a, <2>0, <3>2, <3>3, GoesWithin
  <2>3. CASE \E unread : Goes(c, [op |-> "enforce"], "prune", ReadManifest(unread),
                              ReadSettings(unread))
    <3>1. PICK unread : Goes(c, [op |-> "enforce"], "prune", ReadManifest(unread),
                             ReadSettings(unread))
      BY <2>3
    <3> DEFINE q == [op |-> "enforce"]
    <3>2. q \in Requests /\ q.op # "append" /\ "prune" \in Steps
      BY DEF Requests, Steps
    <3> HIDE DEF q
    <3>3. Goes(c, q, "prune", ReadManifest(unread), ReadSettings(unread))
      BY <3>1 DEF q
    <3>4. PerSession(ReadManifest(unread), Session) /\ ReadSettings(unread) \in Settings
      BY <1>a, ReadTypes
    <3> QED BY <1>a, <2>0, <3>2, <3>3, <3>4, GoesWithin
  <2>4. CASE \E i \in SessionId, step \in {"tree", "unlist"} :
               Goes(c, [op |-> "delete"], step, Without(manifest, i), settings)
    <3>1. PICK i \in SessionId, step \in {"tree", "unlist"} :
               Goes(c, [op |-> "delete"], step, Without(manifest, i), settings)
      BY <2>4
    <3> DEFINE q == [op |-> "delete"]
    <3>2. q \in Requests /\ q.op # "append" /\ step \in Steps
      BY DEF Requests, Steps
    <3> HIDE DEF q
    <3>3. Goes(c, q, step, Without(manifest, i), settings)
      BY <3>1 DEF q
    <3>4. PerSession(Without(manifest, i), Session)
      BY <1>a, WithoutType
    <3> QED BY <1>a, <2>0, <3>2, <3>3, <3>4, GoesWithin
  <2>5. CASE Goes(c, [op |-> "deleteAll"], "tree", <<>>, settings)
    <3> DEFINE q == [op |-> "deleteAll"]
    <3>2. q \in Requests /\ q.op # "append" /\ "tree" \in Steps
      BY DEF Requests, Steps
    <3> HIDE DEF q
    <3>3. Goes(c, q, "tree", <<>>, settings)
      BY <2>5 DEF q
    <3> QED BY <1>a, <2>0, <3>2, <3>3, GoesWithin
  <2>6. CASE \E by \in Settings : Goes(c, [op |-> "settings"], "settings", <<>>, by)
    <3>1. PICK by \in Settings : Goes(c, [op |-> "settings"], "settings", <<>>, by)
      BY <2>6
    <3> DEFINE q == [op |-> "settings"]
    <3>2. q \in Requests /\ q.op # "append" /\ "settings" \in Steps
      BY DEF Requests, Steps
    <3> HIDE DEF q
    <3>3. Goes(c, q, "settings", <<>>, by)
      BY <3>1 DEF q
    <3> QED BY <1>a, <2>0, <3>2, <3>3, GoesWithin
  <2>7. ASSUME Create(c) PROVE Return(c) \/ \E i \in SessionId : Goes(c, [op |-> "create", id |-> i], "list", <<>>, settings)
    BY <2>7 DEF Create
  <2>8. ASSUME Delete(c)
        PROVE  Return(c) \/ \E i \in SessionId, step \in {"tree", "unlist"} :
                              Goes(c, [op |-> "delete"], step, Without(manifest, i), settings)
    BY <2>8 DEF Delete
  <2>9. ASSUME Update(c)
        PROVE  Return(c) \/ \E by \in Settings : Goes(c, [op |-> "settings"], "settings", <<>>, by)
    <3>1. PICK p \in Patches, unread \in SUBSET {"settings", "manifest"} :
            \/ Goes(c, [op |-> "settings"], "settings", <<>>,
                    Patched(ReadSettings(unread), p))
            \/ Return(c)
      BY <2>9 DEF Update
    <3> QED BY <1>a, <3>1, ReadTypes, PatchTypes
  <2>10. /\ Enforce(c) => \E unread : Goes(c, [op |-> "enforce"], "prune",
                                          ReadManifest(unread), ReadSettings(unread))
         /\ DeleteAll(c) => Goes(c, [op |-> "deleteAll"], "tree", <<>>, settings)
    BY DEF Enforce, DeleteAll
  <2> QED BY <1>6, <2>1, <2>2, <2>3, <2>4, <2>5, <2>6, <2>7, <2>8, <2>9, <2>10
<1>7. ASSUME NEW c \in HistoryCaller, AppendBegins(c)
      PROVE  \A d \in HistoryCaller : Running(d)' => Within(d)'
  <2>1. PICK r \in [op : {"append"}, id : SessionId, size : Sizes] :
          \/ Return(c)
          \/ /\ r.id \in Active(manifest) /\ Fits(manifest[r.id], r.size)
             /\ Goes(c, r, "prune", manifest, settings)
    BY <1>a, <1>7, ReadTypes DEF AppendBegins
  <2>2. Begins(c) /\ HoldsLock(c) /\ settings' = settings
    BY <1>7, <1>c DEF AppendBegins, stored
  <2>3. CASE Return(c)
    BY <1>1, <2>2, <2>3
  <2>4. CASE /\ Fits(manifest[r.id], r.size)
             /\ Goes(c, r, "prune", manifest, settings)
    <3>1. r \in Requests /\ "prune" \in Steps
      BY DEF Requests, Steps
    <3>2. Turns(c) /\ call'[c].req = r /\ call'[c].at = "prune" /\ call'[c].m = manifest
      BY <1>a, <2>2, <2>4, <3>1, GoesTurns
    <3>3. Within(c)'
      BY <2>2, <2>4, <3>2 DEF Within, Req, Fits
    <3> QED BY <1>a, <3>2, <3>3, TurnWithin
  <2> QED BY <2>1, <2>3, <2>4
<1>8. ASSUME NEW c \in HistoryCaller, PruneOne(c)
      PROVE  \A d \in HistoryCaller : Running(d)' => Within(d)'
  <2>1. Running(c) /\ call[c].at = "prune" /\ settings' = settings
    BY <1>8 DEF PruneOne, At
  <2>2. PICK i \in Prunable(c) : GoOn(c, "prune", Without(call[c].m, i))
    BY <1>8 DEF PruneOne
  <2>3. PerSession(Without(call[c].m, i), Session) /\ "prune" \in Steps
    BY <1>a, <2>1, RequestTypes, WithoutType DEF Steps
  <2>4. /\ Turns(c) /\ call'[c].req = Req(c) /\ call'[c].at = "prune"
        /\ call'[c].m = Without(call[c].m, i)
    BY <1>a, <2>1, <2>2, <2>3, GoOnTurns
  <2>5. ASSUME Req(c).op = "append"
        PROVE  call'[c].m[Req(c).id].bytes + Req(c).size <= settings'.maxSession
    <3>1. Req(c).id \in Active(call[c].m) /\ Req(c).id \in DOMAIN call[c].m
      BY <1>a, <2>1, <2>5, AppendFacts
    <3>2. i \notin Active(call[c].m)
      BY <2>2 DEF Prunable, Oldest, Candidates
    <3>3. Without(call[c].m, i)[Req(c).id] = call[c].m[Req(c).id]
      BY <3>1, <3>2 DEF Without
    <3>4. call[c].m[Req(c).id].bytes + Req(c).size <= settings.maxSession
      BY <1>a, <2>1, <2>5 DEF Within
    <3> QED BY <2>1, <2>4, <3>3, <3>4
  <2>6. Within(c)'
    BY <2>4, <2>5 DEF Within, Req
  <2> QED BY <1>a, <2>4, <2>6, TurnWithin
<1>9. ASSUME NEW c \in HistoryCaller, Pruned(c)
      PROVE  \A d \in HistoryCaller : Running(d)' => Within(d)'
  <2>1. /\ Running(c) /\ HoldsLock(c) /\ call[c].at = "prune" /\ settings' = settings
        /\ ~OverLimit(c)
    BY <1>9, <1>b DEF Pruned, At
  <2>2. CASE Return(c)
    BY <1>1, <2>1, <2>2
  <2>3. CASE Req(c).op = "append" /\ GoOn(c, "append", call[c].m)
    <3>1. /\ Turns(c) /\ call'[c].req = Req(c) /\ call'[c].at = "append"
          /\ call'[c].m = call[c].m
      <4>1. PerSession(call[c].m, Session) /\ "append" \in Steps
        BY <1>a, <2>1, RequestTypes DEF Steps
      <4> QED BY <1>a, <2>1, <2>3, <4>1, GoOnTurns
    <3>2. call[c].m[Req(c).id].bytes + Req(c).size <= settings.maxSession
      BY <1>a, <2>1, <2>3 DEF Within
    <3>3. Total(call[c].m) + Req(c).size <= settings.max
      <4>1. Total(call[c].m) \in Nat /\ Req(c).size \in Nat
        BY <1>a, <2>1, <2>3, AppendFacts
      <4>2. call[c].by = settings
        BY <2>1, <2>3, HolderKnows DEF StoreInv, InMemory
      <4>3. ~(Total(call[c].m) + Req(c).size > settings.max)
        BY <2>1, <2>3, <4>2 DEF OverLimit, Added
      <4> QED BY <1>a, <4>1, <4>3
    <3>4. Within(c)'
      BY <2>1, <3>1, <3>2, <3>3 DEF Within, Req
    <3> QED BY <1>a, <3>1, <3>4, TurnWithin
  <2> QED BY <1>9, <2>2, <2>3 DEF Pruned
<1>10. ASSUME NEW c \in HistoryCaller, AppendFile(c)
       PROVE  \A d \in HistoryCaller : Running(d)' => Within(d)'
  <2>1. /\ Running(c) /\ call[c].at = "append" /\ settings' = settings
        /\ GoOn(c, "count", call[c].m)
    BY <1>10 DEF AppendFile, At
  <2>2. /\ Turns(c) /\ call'[c].req = Req(c) /\ call'[c].at = "count"
        /\ call'[c].m = call[c].m
    <3>1. PerSession(call[c].m, Session) /\ "count" \in Steps
      BY <1>a, <2>1, RequestTypes DEF Steps
    <3> QED BY <1>a, <2>1, <3>1, GoOnTurns
  <2>3. Within(c)
    BY <1>a, <2>1
  <2>4. Within(c)'
    BY <2>1, <2>2, <2>3 DEF Within, Req
  <2> QED BY <1>a, <2>2, <2>4, TurnWithin
<1> QED BY <1>2, <1>3, <1>4, <1>5, <1>6, <1>7, <1>8, <1>9, <1>10 DEF HistoryStep

THEOREM LimitsInvariant == HistorySpec => []LimitsInv
<1>1. HistoryInit => LimitsInv
  <2>1. DOMAIN <<>> = {}
    BY NoSessions
  <2> QED BY <2>1, FS_EmptySet DEF HistoryInit, LimitsInv, Running, HoldsLock
<1>2. StoreInv /\ LimitsInv /\ [HistoryNext]_historyVars => LimitsInv'
  <2>1. StoreInv /\ LimitsInv /\ HistoryNext => LimitsInv'
    BY NextIsHistoryStep, ManifestStaysFinite, StepStaysWithin DEF LimitsInv
  <2>2. LimitsInv /\ UNCHANGED historyVars => LimitsInv'
    BY DEF historyVars, stored, LimitsInv, Running, HoldsLock, Within, Req
  <2> QED BY <2>1, <2>2
<1> QED BY <1>1, <1>2, StoreSafety, PTL DEF HistorySpec

\* No record is acknowledged that puts its session, or all of them together,
\* beyond the limits: they are compared with the counts before the append,
\* and what they were compared with is still so when the record is counted.
THEOREM RecordsFit == HistorySpec => AckedWithinLimits
<1> DEFINE Fit ==
      acked' # acked =>
        /\ Total(manifest') <= settings.max
        /\ \A i \in DOMAIN manifest' :
             acked'[i] # acked[i] => manifest'[i].bytes <= settings.maxSession
<1>1. StoreInv /\ LimitsInv /\ [HistoryNext]_historyVars => Fit
  <2> SUFFICES ASSUME StoreInv, LimitsInv, HistoryNext, acked' # acked
               PROVE  /\ Total(manifest') <= settings.max
                      /\ \A i \in DOMAIN manifest' :
                           acked'[i] # acked[i] => manifest'[i].bytes <= settings.maxSession
    BY DEF historyVars, history, listing
  <2>1. HistoryStep
    BY NextIsHistoryStep
  <2>2. ASSUME \/ Crash \/ Tick
               \/ \E c \in HistoryCaller :
                    \/ Ask(c) \/ Create(c) \/ ListCreated(c) \/ AppendBegins(c) \/ Enforce(c)
                    \/ PruneOne(c) \/ StorageLimit(c) \/ Pruned(c) \/ AppendFile(c)
                    \/ EndSession(c) \/ Delete(c) \/ Unlist(c) \/ DeleteAll(c) \/ RemoveEntry(c)
                    \/ TreeRemoved(c) \/ Update(c) \/ SaveSettings(c) \/ DiskError(c)
                    \/ AppendFails(c)
        PROVE  UNCHANGED acked
    BY <2>2 DEF Crash, Tick, Ask, Create, ListCreated, AppendBegins, Enforce, PruneOne,
       StorageLimit, Pruned, AppendFile, EndSession, Delete, Unlist, DeleteAll, RemoveEntry,
       TreeRemoved, Update, SaveSettings, DiskError, AppendFails, history
  <2>3. PICK c \in HistoryCaller : Count(c)
    BY <2>1, <2>2 DEF HistoryStep
  <2> DEFINE m == call[c].m
             r == Req(c)
  <2>4. /\ Running(c) /\ call[c].at = "count" /\ manifest' = Counted(m, r.id, r.size)
        /\ acked' = [acked EXCEPT ![r.id] = @ + 1]
    BY <2>3 DEF Count, At
  <2>5. r.op = "append"
    BY <2>4, HolderKnows DEF StoreInv, Holding
  <2>6. /\ PerSession(m, Session) /\ IsFiniteSet(DOMAIN m) /\ r.id \in DOMAIN m /\ r.size \in Nat
    BY <2>4, <2>5, AppendFacts DEF LimitsInv
  <2>7. m[r.id].bytes + r.size <= settings.maxSession /\ Total(m) + r.size <= settings.max
    BY <2>4, <2>5 DEF LimitsInv, Within
  <2> HIDE DEF m, r
  <2>8. /\ Total(manifest') = Total(m) + r.size
        /\ manifest'[r.id].bytes = m[r.id].bytes + r.size
    BY <2>4, <2>6, CountedTotal
  <2>9. \A i \in DOMAIN manifest' : acked'[i] # acked[i] => i = r.id
    BY <2>4
  <2> QED BY <2>7, <2>8, <2>9
<1> QED BY <1>1, StoreSafety, LimitsInvariant, PTL DEF HistorySpec, AckedWithinLimits
=============================================================================
