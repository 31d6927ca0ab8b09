--------------------------- MODULE GatewayProofs ---------------------------
(***************************************************************************)
(* Theorems about Gateway, for any pages, profiles, styles and sizes: a    *)
(* page has one way back, a connected page is heard, an editor shows what  *)
(* was asked for, pages and server agree on the style and the size, and    *)
(* control does not pass to an observer.                                   *)
(*                                                                         *)
(* The invariant is a conjunction over the pages; what it says of one page *)
(* depends on its socket, its state and the server (Good).  Most steps     *)
(* touch one page, and a broadcast touches all of them alike.              *)
(***************************************************************************)
EXTENDS Gateway, SequenceTheorems, TLAPS

-----------------------------------------------------------------------------
(* Words under way *)

\* A word is appended: it is the last of its kind, and changes nothing for the
\* other kinds.
LEMMA AppendSilent ==
  ASSUME NEW W, NEW s \in Seq(W), NEW w \in W, NEW K
  PROVE  Silent(Append(s, w), K) <=> Silent(s, K) /\ w.kind \notin K
<1> DEFINE a == Append(s, w)
<1>1. /\ DOMAIN s = 1 .. Len(s) /\ DOMAIN a = 1 .. Len(s) + 1 /\ Len(s) \in Nat
      /\ a[Len(s) + 1] = w /\ \A i \in DOMAIN s : a[i] = s[i]
  OBVIOUS
<1>2. ASSUME Silent(a, K) PROVE Silent(s, K) /\ w.kind \notin K
  <2>1. Len(s) + 1 \in DOMAIN a /\ \A i \in DOMAIN s : i \in DOMAIN a
    BY <1>1
  <2> QED BY <2>1, <1>1, <1>2 DEF Silent
<1>3. ASSUME Silent(s, K), w.kind \notin K, NEW i \in DOMAIN a PROVE a[i].kind \notin K
  <2>1. i \in DOMAIN s \/ i = Len(s) + 1
    BY <1>1
  <2> QED BY <2>1, <1>1, <1>3 DEF Silent
<1> QED BY <1>2, <1>3 DEF Silent

LEMMA AppendLast ==
  ASSUME NEW W, NEW s \in Seq(W), NEW w \in W, NEW K
  PROVE  /\ Len(s) + 1 \in DOMAIN Append(s, w) /\ Append(s, w)[Len(s) + 1] = w
         /\ w.kind \in K => LastAt(Append(s, w), K, Len(s) + 1)
         /\ w.kind \notin K =>
              \A i \in DOMAIN s : LastAt(s, K, i) =>
                i \in DOMAIN Append(s, w) /\ LastAt(Append(s, w), K, i) /\ Append(s, w)[i] = s[i]
<1> DEFINE a == Append(s, w)
<1>1. /\ DOMAIN s = 1 .. Len(s) /\ DOMAIN a = 1 .. Len(s) + 1 /\ Len(s) \in Nat
      /\ a[Len(s) + 1] = w /\ \A i \in DOMAIN s : a[i] = s[i]
  OBVIOUS
<1>2. Len(s) + 1 \in DOMAIN a /\ \A j \in DOMAIN a : ~(j > Len(s) + 1)
  BY <1>1
<1>3. w.kind \in K => LastAt(a, K, Len(s) + 1)
  BY <1>1, <1>2 DEF LastAt
<1>4. ASSUME w.kind \notin K, NEW i \in DOMAIN s, LastAt(s, K, i)
      PROVE  i \in DOMAIN a /\ LastAt(a, K, i) /\ a[i] = s[i]
  <2>1. \A j \in DOMAIN a : j \in DOMAIN s \/ j = Len(s) + 1
    BY <1>1
  <2>2. i \in DOMAIN a
    BY <1>1
  <2> QED BY <2>1, <2>2, <1>1, <1>4 DEF LastAt
<1> QED BY <1>1, <1>2, <1>3, <1>4

\* The first word arrives: what is last stays last, unless it was the first.
LEMMA TailSilent ==
  ASSUME NEW W, NEW s \in Seq(W), s # <<>>, NEW K
  PROVE  Silent(s, K) <=> Silent(Tail(s), K) /\ Head(s).kind \notin K
<1>1. /\ DOMAIN s = 1 .. Len(s) /\ Len(s) \in Nat /\ Len(s) > 0
      /\ DOMAIN Tail(s) = 1 .. Len(s) - 1 /\ Head(s) = s[1]
      /\ \A i \in DOMAIN Tail(s) : Tail(s)[i] = s[i + 1]
  OBVIOUS
<1>2. ASSUME Silent(s, K) PROVE Silent(Tail(s), K) /\ Head(s).kind \notin K
  <2>1. 1 \in DOMAIN s /\ \A i \in DOMAIN Tail(s) : i + 1 \in DOMAIN s
    BY <1>1
  <2> QED BY <2>1, <1>1, <1>2 DEF Silent
<1>3. ASSUME Silent(Tail(s), K), Head(s).kind \notin K, NEW i \in DOMAIN s
      PROVE  s[i].kind \notin K
  <2>1. CASE i = 1
    BY <2>1, <1>1, <1>3
  <2>2. CASE i # 1
    <3>1. i - 1 \in DOMAIN Tail(s) /\ Tail(s)[i - 1] = s[(i - 1) + 1] /\ (i - 1) + 1 = i
      BY <2>2, <1>1
    <3> QED BY <3>1, <1>3 DEF Silent
  <2> QED BY <2>1, <2>2
<1> QED BY <1>2, <1>3 DEF Silent

LEMMA TailLast ==
  ASSUME NEW W, NEW s \in Seq(W), s # <<>>, NEW K, NEW i \in DOMAIN s, LastAt(s, K, i)
  PROVE  IF i = 1
         THEN Silent(Tail(s), K) /\ Head(s).kind \in K /\ Head(s) = s[i]
         ELSE i - 1 \in DOMAIN Tail(s) /\ LastAt(Tail(s), K, i - 1) /\ Tail(s)[i - 1] = s[i]
<1>1. /\ DOMAIN s = 1 .. Len(s) /\ Len(s) \in Nat /\ Len(s) > 0
      /\ DOMAIN Tail(s) = 1 .. Len(s) - 1 /\ Head(s) = s[1]
      /\ \A j \in DOMAIN Tail(s) : Tail(s)[j] = s[j + 1]
  OBVIOUS
<1>2. \A j \in DOMAIN Tail(s) : j + 1 \in DOMAIN s /\ j + 1 > 1
  BY <1>1
<1>3. CASE i = 1
  BY <1>1, <1>2, <1>3 DEF LastAt, Silent
<1>4. CASE i # 1
  <2>1. i - 1 \in DOMAIN Tail(s) /\ (i - 1) + 1 = i
    BY <1>1, <1>4
  <2>2. \A j \in DOMAIN Tail(s) : j > i - 1 => j + 1 > i
    BY <1>1
  <2>3. \A j \in DOMAIN Tail(s) : j > i - 1 => Tail(s)[j].kind \notin K
    BY <2>2, <1>1, <1>2 DEF LastAt
  <2> QED BY <2>1, <2>3, <1>1, <1>4 DEF LastAt
<1> QED BY <1>3, <1>4

\* The same for what the invariant is about: the last style, and the last size.
LEMMA AppendStyle ==
  ASSUME NEW W, NEW s \in Seq(W), NEW w \in W
  PROVE  /\ w.kind \in StyleWords => LastStyle(Append(s, w), w.style)
         /\ w.kind \notin StyleWords =>
              \A x : LastStyle(s, x) => LastStyle(Append(s, w), x)
BY AppendLast DEF LastStyle

LEMMA AppendSize ==
  ASSUME NEW W, NEW s \in Seq(W), NEW w \in W
  PROVE  /\ w.kind \in SizeWords => LastSize(Append(s, w), w.size)
         /\ w.kind \notin SizeWords =>
              \A x : LastSize(s, x) => LastSize(Append(s, w), x)
BY AppendLast DEF LastSize

LEMMA TailStyle ==
  ASSUME NEW W, NEW s \in Seq(W), s # <<>>, NEW x, LastStyle(s, x)
  PROVE  \/ LastStyle(Tail(s), x)
         \/ Silent(Tail(s), StyleWords) /\ Head(s).kind \in StyleWords /\ Head(s).style = x
BY TailLast DEF LastStyle

LEMMA TailSize ==
  ASSUME NEW W, NEW s \in Seq(W), s # <<>>, NEW x, LastSize(s, x)
  PROVE  \/ LastSize(Tail(s), x)
         \/ Silent(Tail(s), SizeWords) /\ Head(s).kind \in SizeWords /\ Head(s).size = x
BY TailLast DEF LastSize

\* Handlers that have answered are removed; the others stay as they are.
LEMMA Removed ==
  ASSUME NEW W, NEW s \in Seq(W), NEW i \in DOMAIN s
  PROVE  /\ RemoveAt(s, i) \in Seq(W)
         /\ \A j \in DOMAIN RemoveAt(s, i) : \E k \in DOMAIN s : RemoveAt(s, i)[j] = s[k]
<1> DEFINE a == SubSeq(s, 1, i - 1)
           b == SubSeq(s, i + 1, Len(s))
<1>1. /\ DOMAIN s = 1 .. Len(s) /\ Len(s) \in Nat /\ i \in 1 .. Len(s)
  OBVIOUS
<1>2. /\ a \in Seq(W) /\ Len(a) = i - 1 /\ DOMAIN a = 1 .. i - 1
      /\ \A j \in DOMAIN a : a[j] = s[j]
  BY <1>1
<1>3. /\ b \in Seq(W) /\ Len(b) = Len(s) - i /\ DOMAIN b = 1 .. Len(s) - i
      /\ \A j \in DOMAIN b : b[j] = s[j + i]
  BY <1>1
<1> HIDE DEF a, b
<1>4. /\ a \o b \in Seq(W) /\ Len(a \o b) = Len(s) - 1
      /\ \A j \in 1 .. Len(s) - 1 :
           (a \o b)[j] = IF j <= i - 1 THEN a[j] ELSE b[j - (i - 1)]
  <2>1. /\ a \o b \in Seq(W) /\ Len(a \o b) = Len(a) + Len(b)
        /\ \A j \in 1 .. Len(a) + Len(b) :
             (a \o b)[j] = IF j <= Len(a) THEN a[j] ELSE b[j - Len(a)]
    BY <1>2, <1>3, ConcatProperties
  <2>2. Len(a) = i - 1 /\ Len(a) + Len(b) = Len(s) - 1
    BY <1>1, <1>2, <1>3
  <2> QED BY <2>1, <2>2
<1>5. ASSUME NEW j \in 1 .. Len(s) - 1 PROVE \E k \in DOMAIN s : (a \o b)[j] = s[k]
  <2>0. j \in Int /\ 1 <= j /\ j <= Len(s) - 1 /\ i \in Int /\ 1 <= i /\ i <= Len(s)
    BY <1>1
  <2>1. CASE j <= i - 1
    <3>1. (a \o b)[j] = a[j]
      BY <2>1, <1>4
    <3>2. j \in 1 .. i - 1 /\ j \in 1 .. Len(s)
      BY <2>0, <2>1, <1>1
    <3> QED BY <3>1, <3>2, <1>1, <1>2
  <2>2. CASE ~(j <= i - 1)
    <3>1. (a \o b)[j] = b[j - (i - 1)]
      BY <2>2, <1>4
    <3>2. j - (i - 1) \in 1 .. Len(s) - i /\ (j - (i - 1)) + i = j + 1 /\ j + 1 \in 1 .. Len(s)
      BY <2>0, <2>2, <1>1
    <3> QED BY <3>1, <3>2, <1>1, <1>3
  <2> QED BY <2>1, <2>2
<1>6. DOMAIN (a \o b) = 1 .. Len(s) - 1
  BY <1>4
<1> QED BY <1>4, <1>5, <1>6 DEF RemoveAt, a, b

-----------------------------------------------------------------------------
(* Types *)

LEMMA FirstTypes ==
  /\ NoLink \in LinkType /\ Opening \in LinkType /\ FreshPage \in PageType
  /\ IdleRestart \in RestartType
  /\ \A profiles \in [ProfileId -> Style \cup {None}], active \in Chosen :
       FreshServer(profiles, active) \in ServerType
<1>1. NoLink \in LinkType /\ Opening \in LinkType
  <2>1. <<>> \in Seq(Said) /\ <<>> \in Seq(Word) /\ None \in Chosen
    BY DEF Chosen
  <2> QED BY <2>1, Zenon DEF NoLink, Opening, LinkType
<1>2. FreshPage \in PageType
  BY SizeAssumption, StyleAssumption DEF FreshPage, PageType, EditorType, NoEditor, Chosen
<1>3. IdleRestart \in RestartType
  BY DEF IdleRestart, RestartType, Chosen
<1> QED BY <1>1, <1>2, <1>3, StyleAssumption DEF FreshServer, ServerType, Chosen

\* The words of either side, by their kinds.
LEMMA WordTypes ==
  /\ \A s \in Style : [kind |-> "style", style |-> s] \in Word /\ RestartTold(s) \in Word
  /\ \A s \in Style, list \in SUBSET ProfileId, active \in Chosen :
       [kind |-> "hello", style |-> s, list |-> list, active |-> active] \in Word
  /\ \A list \in SUBSET ProfileId, active \in Chosen :
       [kind |-> "profiles", list |-> list, active |-> active] \in Word
  /\ \A id \in ProfileId, active \in Chosen :
       /\ [kind |-> "profileSaved", id |-> id, active |-> active] \in Word
       /\ [kind |-> "profileDeleted", id |-> id, active |-> active] \in Word
  /\ \A id \in ProfileId : [kind |-> "profileDetail", id |-> id] \in Word
  /\ [kind |-> "profileError"] \in Word
BY DEF Word, RestartTold

LEMMA WordFields ==
  ASSUME NEW w \in Word
  PROVE  /\ w.kind \in {"hello", "style", "ptyRestart", "profiles", "profileSaved",
                       "profileDeleted", "profileDetail", "profileError"}
         /\ w.kind \in StyleWords => w.style \in Style
         /\ w.kind \in {"hello", "profiles"} => w.list \in SUBSET ProfileId
         /\ w.kind \in {"hello", "profiles", "profileSaved", "profileDeleted"} =>
              w.active \in Chosen
         /\ w.kind \in {"profileSaved", "profileDeleted", "profileDetail"} => w.id \in ProfileId
BY DEF Word, StyleWords

LEMMA SaidTypes ==
  /\ \A s \in Style : /\ [kind |-> "setStyle", style |-> s] \in Said
                      /\ [kind |-> "launchSession", style |-> s] \in Said
  /\ \A s \in Size : [kind |-> "resizePty", size |-> s] \in Said
  /\ \A id \in ProfileId : /\ [kind |-> "getProfile", id |-> id] \in Said
                           /\ [kind |-> "deleteProfile", id |-> id] \in Said
  /\ \A id \in Chosen : /\ [kind |-> "setActiveProfile", id |-> id] \in Said
                        /\ \A s \in Style : [kind |-> "saveProfile", id |-> id, style |-> s] \in Said
BY DEF Said

LEMMA SaidFields ==
  ASSUME NEW w \in Said
  PROVE  /\ w.kind \in {"setStyle", "launchSession", "resizePty", "getProfile", "deleteProfile",
                       "setActiveProfile", "saveProfile"}
         /\ w.kind \in {"setStyle", "launchSession", "saveProfile"} => w.style \in Style
         /\ w.kind = "resizePty" => w.size \in Size
         /\ w.kind \in {"getProfile", "deleteProfile"} => w.id \in ProfileId
         /\ w.kind \in {"setActiveProfile", "saveProfile"} => w.id \in Chosen
BY DEF Said

\* What may happen to a socket keeps its type.
LEMMA LinkTypes ==
  ASSUME NEW l \in LinkType
  PROVE  /\ \A w \in Word : [l EXCEPT !.down = Append(@, w)] \in LinkType
         /\ \A w \in Said : [l EXCEPT !.up = Append(@, w)] \in LinkType
         /\ l.up # <<>> => Head(l.up) \in Said /\ [l EXCEPT !.up = Tail(@)] \in LinkType
         /\ l.down # <<>> => Head(l.down) \in Word /\ [l EXCEPT !.down = Tail(@)] \in LinkType
<1>1. l.up \in Seq(Said) /\ l.down \in Seq(Word)
  BY DEF LinkType
<1>2. \A s \in Seq(Word) : [l EXCEPT !.down = s] \in LinkType
  BY DEF LinkType
<1>3. \A s \in Seq(Said) : [l EXCEPT !.up = s] \in LinkType
  BY DEF LinkType
<1>4. /\ \A w \in Word : Append(l.down, w) \in Seq(Word)
      /\ \A w \in Said : Append(l.up, w) \in Seq(Said)
  BY <1>1
<1>5. /\ l.up # <<>> => Head(l.up) \in Said /\ Tail(l.up) \in Seq(Said)
      /\ l.down # <<>> => Head(l.down) \in Word /\ Tail(l.down) \in Seq(Word)
  BY <1>1
<1> QED BY <1>2, <1>3, <1>4, <1>5

LEMMA ToldTypes ==
  ASSUME NEW l \in [Page -> LinkType], NEW w \in Word
  PROVE  Told(l, w) \in [Page -> LinkType]
BY LinkTypes DEF Told

\* What may happen to a page keeps its type.
LEMMA PageTypes ==
  ASSUME NEW pg \in PageType
  PROVE  /\ Disconnected(pg) \in PageType /\ Connecting(pg) \in PageType
         /\ Connecting([pg EXCEPT !.retried = TRUE]) \in PageType
         /\ Resized(pg) \in PageType
BY DEF PageType, Disconnected, Connecting, Resized

LEMMA NoEditorType == NoEditor \in EditorType
BY DEF NoEditor, EditorType, Chosen

LEMMA ShownTypes ==
  ASSUME NEW pg \in PageType, NEW w \in Word
  PROVE  Shown(pg, w) \in PageType
<1>1. w.kind \in {"hello", "style", "ptyRestart", "profiles", "profileSaved",
                 "profileDeleted", "profileDetail", "profileError"}
  BY WordFields
<1>2. CASE w.kind = "hello"
  <2>1. w.style \in Style /\ w.list \in SUBSET ProfileId /\ w.active \in Chosen
    BY <1>2, WordFields DEF StyleWords
  <2>2. Shown(pg, w) = Hello(pg, w)
    BY <1>2 DEF Shown
  <2> QED BY <2>1, <2>2 DEF Hello, PageType
<1>3. CASE w.kind \in {"style", "ptyRestart"}
  <2>1. w.style \in Style
    BY <1>3, WordFields DEF StyleWords
  <2>2. Shown(pg, w) = [pg EXCEPT !.style = w.style, !.own = FALSE]
    BY <1>3 DEF Shown
  <2> QED BY <2>1, <2>2 DEF PageType
<1>4. CASE w.kind = "profiles"
  <2>1. w.list \in SUBSET ProfileId /\ w.active \in Chosen
    BY <1>4, WordFields
  <2>2. Shown(pg, w) = [pg EXCEPT !.list = w.list, !.active = w.active]
    BY <1>4 DEF Shown
  <2> QED BY <2>1, <2>2 DEF PageType
<1>5. CASE w.kind \in {"profileSaved", "profileDeleted"}
  <2>1. w.id \in ProfileId /\ w.active \in Chosen
    BY <1>5, WordFields
  <2>2. \/ Shown(pg, w) = [pg EXCEPT !.list = @ \cup {w.id}, !.active = w.active,
                                    !.editing = NoEditor]
        \/ Shown(pg, w) = [pg EXCEPT !.list = @ \ {w.id}, !.active = w.active]
    BY <1>5 DEF Shown
  <2>3. pg.list \cup {w.id} \in SUBSET ProfileId /\ pg.list \ {w.id} \in SUBSET ProfileId
    BY <2>1 DEF PageType
  <2>4. \A list \in SUBSET ProfileId, active \in Chosen, e \in EditorType :
          /\ [pg EXCEPT !.list = list, !.active = active, !.editing = e] \in PageType
          /\ [pg EXCEPT !.list = list, !.active = active] \in PageType
    BY DEF PageType
  <2>5. /\ [pg EXCEPT !.list = pg.list \cup {w.id}, !.active = w.active,
                     !.editing = NoEditor] \in PageType
        /\ [pg EXCEPT !.list = pg.list \ {w.id}, !.active = w.active] \in PageType
    BY <2>1, <2>3, <2>4, NoEditorType, Zenon
  <2> QED BY <2>2, <2>5, Zenon
<1>6. CASE w.kind = "profileDetail"
  <2>1. w.id \in ProfileId
    BY <1>6, WordFields
  <2>2. Shown(pg, w) = Detail(pg, w)
    BY <1>6 DEF Shown
  <2>3. [kind |-> "full", id |-> w.id] \in EditorType /\ None \in Chosen
    BY <2>1 DEF EditorType, Chosen
  <2> QED BY <2>2, <2>3 DEF Detail, PageType
<1>7. CASE w.kind = "profileError"
  <2>1. Shown(pg, w) = ErrorShown(pg)
    BY <1>7 DEF Shown
  <2>2. [kind |-> "stub", id |-> pg.pending] \in EditorType /\ None \in Chosen
    BY DEF PageType, EditorType, Chosen
  <2>3. \/ ErrorShown(pg) = pg
        \/ ErrorShown(pg) = [pg EXCEPT !.editing = [kind |-> "stub", id |-> pg.pending],
                                       !.pending = None]
        \/ ErrorShown(pg) = [pg EXCEPT !.editing = NoEditor, !.pending = None]
    BY DEF ErrorShown
  <2>4. \A e \in EditorType : [pg EXCEPT !.editing = e, !.pending = None] \in PageType
    BY <2>2 DEF PageType
  <2> QED BY <2>1, <2>2, <2>3, <2>4, NoEditorType
<1> QED BY <1>1, <1>2, <1>3, <1>4, <1>5, <1>6, <1>7

\* What may happen to the handlers at work keeps their type.
LEMMA JobsAppend ==
  ASSUME NEW jobs, Jobs(jobs), NEW p \in Page, NEW w \in Said,
         w.kind \in Stores \cup {"getProfile"}
  PROVE  Jobs(Append(jobs, Job(p, w)))
<1>1. w.id \in Chosen /\ (w.kind = "saveProfile" => w.style \in Style)
      /\ (w.kind \in {"getProfile", "deleteProfile"} => w.id \in ProfileId)
  BY SaidFields DEF Stores, Chosen
<1> DEFINE j == Job(p, w)
<1>2. j \in JobType
  BY <1>1 DEF Job, JobType, Chosen
<1>3. JobOK(j)
  BY <1>1 DEF Job, JobOK
<1> HIDE DEF j
<1>4. jobs \in Seq(JobType) /\ \A i \in DOMAIN jobs : JobOK(jobs[i])
  BY DEF Jobs
<1>5. Append(jobs, j) \in Seq(JobType)
  BY <1>2, <1>4
<1>6. \A i \in DOMAIN Append(jobs, j) : Append(jobs, j)[i] = j \/ (i \in DOMAIN jobs /\ Append(jobs, j)[i] = jobs[i])
  BY <1>2, <1>4
<1>7. \A i \in DOMAIN Append(jobs, j) : JobOK(Append(jobs, j)[i])
  BY <1>3, <1>4, <1>6
<1> QED BY <1>5, <1>7 DEF Jobs, j

LEMMA JobsRemove ==
  ASSUME NEW jobs, Jobs(jobs), NEW i \in DOMAIN jobs
  PROVE  Jobs(RemoveAt(jobs, i))
<1>1. jobs \in Seq(JobType) /\ \A j \in DOMAIN jobs : JobOK(jobs[j])
  BY DEF Jobs
<1>2. /\ RemoveAt(jobs, i) \in Seq(JobType)
      /\ \A j \in DOMAIN RemoveAt(jobs, i) : \E k \in DOMAIN jobs : RemoveAt(jobs, i)[j] = jobs[k]
  BY <1>1, Removed
<1> QED BY <1>1, <1>2 DEF Jobs

LEMMA JobsReplace ==
  ASSUME NEW jobs, Jobs(jobs), NEW i \in DOMAIN jobs, NEW j \in JobType, JobOK(j)
  PROVE  Jobs([jobs EXCEPT ![i] = j])
<1>1. jobs \in Seq(JobType) /\ \A k \in DOMAIN jobs : JobOK(jobs[k])
  BY DEF Jobs
<1>2. [jobs EXCEPT ![i] = j] \in Seq(JobType)
  BY <1>1
<1>3. \A k \in DOMAIN [jobs EXCEPT ![i] = j] : JobOK([jobs EXCEPT ![i] = j][k])
  BY <1>1
<1> QED BY <1>2, <1>3 DEF Jobs

LEMMA JobsOrphaned ==
  ASSUME Jobs(work), NEW P
  PROVE  /\ Jobs(Orphaned(P)) /\ DOMAIN Orphaned(P) = DOMAIN work
         /\ \A i \in DOMAIN work : /\ Orphaned(P)[i].page = work[i].page
                                   /\ Orphaned(P)[i].live => work[i].live /\ work[i].page \notin P
<1> DEFINE o == Orphaned(P)
<1>1. work \in Seq(JobType) /\ (\A k \in DOMAIN work : JobOK(work[k]))
      /\ DOMAIN work = 1 .. Len(work) /\ Len(work) \in Nat
  BY DEF Jobs
<1>2. DOMAIN o = DOMAIN work
  BY DEF Orphaned
<1>3. ASSUME NEW i \in DOMAIN work
      PROVE  /\ o[i] \in JobType /\ JobOK(o[i])
             /\ o[i].page = work[i].page /\ (o[i].live => work[i].live /\ work[i].page \notin P)
  <2>1. work[i] \in JobType /\ JobOK(work[i])
    BY <1>1
  <2>2. o[i] = IF work[i].page \in P THEN [work[i] EXCEPT !.live = FALSE] ELSE work[i]
    BY DEF Orphaned
  <2>3. CASE work[i].page \in P
    <3>1. o[i] = [work[i] EXCEPT !.live = FALSE]
      BY <2>2, <2>3
    <3> HIDE DEF o
    <3> QED BY <3>1, <2>1 DEF JobType, JobOK
  <2>4. CASE work[i].page \notin P
    <3>1. o[i] = work[i]
      BY <2>2, <2>4
    <3> HIDE DEF o
    <3> QED BY <3>1, <2>1, <2>4
  <2> QED BY <2>3, <2>4
<1>4. o \in Seq(JobType)
  <2>1. o = [i \in 1 .. Len(work) |-> o[i]]
    BY <1>1 DEF Orphaned
  <2> HIDE DEF o
  <2>2. \A i \in 1 .. Len(work) : o[i] \in JobType
    BY <1>1, <1>3
  <2> QED BY <2>1, <2>2, <1>1
<1> HIDE DEF o
<1>5. Jobs(o)
  BY <1>2, <1>3, <1>4 DEF Jobs
<1> USE DEF o
<1> QED BY <1>2, <1>3, <1>5

LEMMA ReplyTypes ==
  ASSUME link \in [Page -> LinkType], NEW job, NEW w \in Word, Reply(job, w)
  PROVE  link' \in [Page -> LinkType]
BY LinkTypes DEF Reply

LEMMA RestartTypes ==
  ASSUME NEW id \in Chosen, NEW force, NEW r \in RestartType, NEW n \in RestartCall(id, force, r)
  PROVE  n \in RestartType
<1>1. <<id>> \in Seq(Chosen)
  OBVIOUS
<1> QED BY <1>1 DEF RestartCall, RestartType

LEMMA RestartOverTypes ==
  ASSUME restart \in RestartType, RestartOver
  PROVE  restart' \in RestartType
<1>1. restart.next \o restart.queued \in Seq(Chosen) /\ <<>> \in Seq(Chosen) /\ None \in Chosen
  BY DEF RestartType, Chosen
<1> QED BY <1>1 DEF RestartOver, RestartType

LEMMA TypeInit == Init => TypeOK
<1>1. Jobs(<<>>)
  BY DEF Jobs
<1> QED BY <1>1, FirstTypes, ProfileAssumption, EventsAssumption DEF Init, TypeOK, Chosen

LEMMA EventTypes ==
  ASSUME events \in 0 .. MaxEvents, Event
  PROVE  events' \in 0 .. MaxEvents
BY EventsAssumption DEF Event

\* Connections and faults.
LEMMA SocketTypes ==
  ASSUME TypeOK, NEW p \in Page,
         \/ Connects(p) \/ ListForGreeting(p) \/ Greet(p) \/ LostEarly(p) \/ Faults(p)
  PROVE  TypeOK'
<1>1. /\ link \in [Page -> LinkType] /\ page \in [Page -> PageType] /\ server \in ServerType
      /\ link[p] \in LinkType /\ page[p] \in PageType /\ Jobs(work) /\ events \in 0 .. MaxEvents
  BY DEF TypeOK
<1>2. /\ \A l \in LinkType : [link EXCEPT ![p] = l] \in [Page -> LinkType]
      /\ \A pg \in PageType : [page EXCEPT ![p] = pg] \in [Page -> PageType]
  BY <1>1
<1>3. /\ Disconnected(page[p]) \in PageType /\ Connecting(page[p]) \in PageType
      /\ Connecting([page[p] EXCEPT !.retried = TRUE]) \in PageType
  BY <1>1, PageTypes
<1>4. [server EXCEPT !.controller = Register(p)] \in ServerType
  BY <1>1 DEF Register, ServerType
<1>5. [server EXCEPT !.controller = Unregister(p)] \in ServerType
  BY <1>1 DEF Unregister, ServerType
<1>6. Jobs(Orphaned({p}))
  BY <1>1, JobsOrphaned
<1>7. CASE TimerFires(p)
  BY <1>1, <1>2, <1>3, <1>7, FirstTypes DEF TimerFires, TypeOK
<1>8. CASE Refused(p)
  BY <1>1, <1>2, <1>3, <1>8, FirstTypes DEF Refused, TypeOK
<1>9. CASE Accept(p)
  <2>1. link' \in [Page -> LinkType]
    BY <1>1, <1>9 DEF Accept, LinkType
  <2> QED BY <1>1, <1>4, <1>9, <2>1 DEF Accept, TypeOK
<1>10. CASE ListForGreeting(p)
  <2>1. link' \in [Page -> LinkType]
    BY <1>1, <1>10 DEF ListForGreeting, LinkType, ServerType, Stored
  <2> QED BY <1>1, <1>10, <2>1 DEF ListForGreeting, TypeOK
<1>11. CASE Greet(p)
  <2> DEFINE w == [kind |-> "hello", style |-> server.style,
                   list |-> link[p].list, active |-> link[p].active]
  <2>1. w \in Word
    BY <1>1, WordTypes DEF ServerType, LinkType
  <2>2. [link[p] EXCEPT !.down = Append(@, w)] \in LinkType
    BY <1>1, <2>1, LinkTypes
  <2> HIDE DEF w
  <2>3. [link EXCEPT ![p].phase = "listening", ![p].list = {}, ![p].active = None,
                     ![p].down = Append(@, w)] \in [Page -> LinkType]
    BY <1>1, <2>2 DEF LinkType, Chosen
  <2>4. link' \in [Page -> LinkType]
    BY <1>11, <2>3 DEF Greet, w
  <2> QED BY <1>1, <1>11, <2>4 DEF Greet, TypeOK
<1>12. CASE LostEarly(p)
  <2>1. link' \in [Page -> LinkType]
    BY <1>1, <1>12, LinkTypes DEF LostEarly
  <2> QED BY <1>1, <1>12, <2>1 DEF LostEarly, TypeOK
<1>13. CASE Drop(p)
  BY <1>1, <1>2, <1>3, <1>5, <1>6, <1>13, FirstTypes, EventTypes DEF Drop, TypeOK
<1>14. CASE Resubscribe(p)
  BY <1>1, <1>2, <1>3, <1>5, <1>6, <1>14, FirstTypes, EventTypes DEF Resubscribe, TypeOK
<1>15. CASE Reload(p)
  BY <1>1, <1>2, <1>5, <1>6, <1>15, FirstTypes, EventTypes DEF Reload, TypeOK
<1> QED BY <1>7, <1>8, <1>9, <1>10, <1>11, <1>12, <1>13, <1>14, <1>15 DEF Connects, Faults

\* The page: words that arrive, the resize timer, and the person.
LEMMA SaysTypes ==
  ASSUME link \in [Page -> LinkType], NEW p \in Page, NEW w \in Said, Says(p, w)
  PROVE  link' \in [Page -> LinkType]
BY LinkTypes DEF Says

LEMMA PageStepTypes ==
  ASSUME TypeOK, NEW p \in Page, Deliver(p) \/ ResizeTimer(p) \/ Person(p)
  PROVE  TypeOK'
<1>1. /\ link \in [Page -> LinkType] /\ page \in [Page -> PageType]
      /\ link[p] \in LinkType /\ page[p] \in PageType /\ events \in 0 .. MaxEvents
  BY DEF TypeOK
<1>2. \A pg \in PageType : [page EXCEPT ![p] = pg] \in [Page -> PageType]
  BY <1>1
<1>3. SizeWord(page[p]) \in Said
  BY <1>1, SaidTypes DEF SizeWord, PageType
<1>4. CASE Deliver(p)
  <2> DEFINE w == Head(link[p].down)
  <2>1. w \in Word /\ [link[p] EXCEPT !.down = Tail(@)] \in LinkType
    BY <1>1, <1>4, LinkTypes DEF Deliver
  <2>2. Shown(page[p], w) \in PageType /\ Resized(Shown(page[p], w)) \in PageType
    BY <1>1, <2>1, ShownTypes, PageTypes
  <2> HIDE DEF w
  <2>3. \/ page' = [page EXCEPT ![p] = Shown(page[p], w)]
        \/ page' = [page EXCEPT ![p] = Resized(Shown(page[p], w))]
    BY <1>4 DEF Deliver, w
  <2>4. page' \in [Page -> PageType]
    BY <2>2, <2>3, <1>2
  <2>5. \/ link' = [link EXCEPT ![p].down = Tail(@)]
        \/ link' = [link EXCEPT ![p].down = Tail(@), ![p].up = Append(@, SizeWord(page[p]))]
    BY <1>4 DEF Deliver
  <2>6. [[link[p] EXCEPT !.down = Tail(@)] EXCEPT !.up = Append(@, SizeWord(page[p]))] \in LinkType
    BY <2>1, <1>3, LinkTypes
  <2>7. \/ link' = [link EXCEPT ![p] = [link[p] EXCEPT !.down = Tail(@)]]
        \/ link' = [link EXCEPT ![p] = [[link[p] EXCEPT !.down = Tail(@)]
                                          EXCEPT !.up = Append(@, SizeWord(page[p]))]]
    BY <1>1, <2>5 DEF LinkType
  <2>8. \A l \in LinkType : [link EXCEPT ![p] = l] \in [Page -> LinkType]
    BY <1>1
  <2>9. link' \in [Page -> LinkType]
    BY <2>1, <2>6, <2>7, <2>8, Zenon
  <2> QED BY <1>1, <1>4, <2>4, <2>9 DEF Deliver, TypeOK
<1>5. CASE ResizeTimer(p)
  <2>1. Resized(page[p]) \in PageType /\ [page[p] EXCEPT !.resizing = FALSE] \in PageType
    BY <1>1, PageTypes DEF PageType
  <2>2. page' \in [Page -> PageType] /\ link' \in [Page -> LinkType]
    BY <1>1, <1>2, <1>3, <1>5, <2>1, SaysTypes DEF ResizeTimer
  <2> QED BY <1>5, <2>2 DEF ResizeTimer, TypeOK
<1>6. ASSUME NEW s \in Style, ChooseStyle(p, s) PROVE TypeOK'
  <2>1. page' \in [Page -> PageType]
    BY <1>1, <1>6 DEF ChooseStyle, PageType
  <2>2. link' \in [Page -> LinkType]
    BY <1>1, <1>6, SaidTypes, SaysTypes DEF ChooseStyle
  <2> QED BY <1>1, <1>6, <2>1, <2>2, EventTypes DEF ChooseStyle, TypeOK
<1>7. ASSUME NEW s \in Style, SaveProfile(p, s) PROVE TypeOK'
  <2>1. page[p].editing.id \in Chosen
    BY <1>1 DEF PageType, EditorType
  <2>2. link' \in [Page -> LinkType]
    BY <1>1, <1>7, <2>1, SaidTypes, SaysTypes DEF SaveProfile
  <2> QED BY <1>1, <1>7, <2>2, EventTypes DEF SaveProfile, TypeOK
<1>8. ASSUME NEW s \in Size, ResizeWindow(p, s) PROVE TypeOK'
  <2>1. page' \in [Page -> PageType]
    BY <1>1, <1>8 DEF ResizeWindow, PageType
  <2> QED BY <1>1, <1>8, <2>1, EventTypes DEF ResizeWindow, TypeOK
<1>9. ASSUME NEW id \in ProfileId \cup {None}, SelectProfile(p, id) PROVE TypeOK'
  <2>1. link' \in [Page -> LinkType]
    BY <1>1, <1>9, SaidTypes, SaysTypes DEF SelectProfile, Chosen
  <2> QED BY <1>1, <1>9, <2>1, EventTypes DEF SelectProfile, TypeOK
<1>10. CASE Launch(p)
  <2>1. page[p].style \in Style
    BY <1>1 DEF PageType
  <2>2. link' \in [Page -> LinkType]
    BY <1>1, <1>10, <2>1, SaidTypes, SaysTypes DEF Launch
  <2> QED BY <1>1, <1>10, <2>2, EventTypes DEF Launch, TypeOK
<1>11. CASE DeleteProfile(p)
  <2>1. page[p].active \in ProfileId
    BY <1>1, <1>11 DEF DeleteProfile, PageType, Chosen
  <2>2. link' \in [Page -> LinkType]
    BY <1>1, <1>11, <2>1, SaidTypes, SaysTypes DEF DeleteProfile
  <2> QED BY <1>1, <1>11, <2>2, EventTypes DEF DeleteProfile, TypeOK
<1>12. CASE EditProfile(p)
  <2>1. page[p].active \in ProfileId
    BY <1>1, <1>12 DEF EditProfile, PageType, Chosen
  <2>2. link' \in [Page -> LinkType]
    BY <1>1, <1>12, <2>1, SaidTypes, SaysTypes DEF EditProfile
  <2>3. [kind |-> "loading", id |-> None] \in EditorType /\ page[p].active \in Chosen
    BY <2>1 DEF EditorType, Chosen
  <2>4. page' \in [Page -> PageType]
    BY <1>1, <1>12, <2>3 DEF EditProfile, PageType
  <2> QED BY <1>1, <1>12, <2>2, <2>4, EventTypes DEF EditProfile, TypeOK
<1>13. CASE CreateProfile(p)
  <2>1. [kind |-> "new", id |-> None] \in EditorType
    BY DEF EditorType, Chosen
  <2>2. page' \in [Page -> PageType]
    BY <1>1, <1>13, <2>1 DEF CreateProfile, PageType
  <2> QED BY <1>1, <1>13, <2>2, EventTypes DEF CreateProfile, TypeOK
<1>14. CASE CancelEdit(p)
  <2>1. page' \in [Page -> PageType]
    BY <1>1, <1>14, NoEditorType DEF CancelEdit, PageType, Chosen
  <2> QED BY <1>1, <1>14, <2>1, EventTypes DEF CancelEdit, TypeOK
<1> QED BY <1>4, <1>5, <1>6, <1>7, <1>8, <1>9, <1>10, <1>11, <1>12, <1>13, <1>14 DEF Person

LEMMA ConsumedTypes ==
  ASSUME link \in [Page -> LinkType], NEW p \in Page, link[p].up # <<>>
  PROVE  Head(link[p].up) \in Said /\ Consumed(p) \in [Page -> LinkType]
BY LinkTypes DEF Consumed

\* The handlers, and the restarts.
LEMMA ListeningTypes ==
  ASSUME TypeOK, NEW p \in Page, Listening(p)
  PROVE  TypeOK'
<1> DEFINE w == Head(link[p].up)
<1>1. /\ link \in [Page -> LinkType] /\ server \in ServerType /\ Jobs(work)
      /\ link[p].up # <<>> /\ w \in Said /\ Consumed(p) \in [Page -> LinkType]
  BY ConsumedTypes DEF TypeOK, Listening, Heard, Refuse, SetStyle, ResizePty, LaunchSession, BeginWork
<1> HIDE DEF w
<1>2. CASE Refuse(p)
  BY <1>1, <1>2 DEF Refuse, TypeOK
<1>3. CASE SetStyle(p)
  <2>1. w.style \in Style
    BY <1>1, <1>3, SaidFields DEF SetStyle, Heard, w
  <2>2. server' \in ServerType
    BY <1>1, <1>3, <2>1 DEF SetStyle, ServerType, w
  <2>3. link' \in [Page -> LinkType]
    BY <1>1, <1>3, <2>1, ToldTypes, WordTypes DEF SetStyle, w
  <2> QED BY <1>3, <2>2, <2>3 DEF SetStyle, TypeOK
<1>4. CASE ResizePty(p)
  <2>1. server' \in ServerType
    BY <1>1, <1>4 DEF ResizePty, ServerType
  <2> QED BY <1>1, <1>4, <2>1 DEF ResizePty, TypeOK
<1>5. CASE LaunchSession(p)
  <2>1. w.style \in Style
    BY <1>1, <1>5, SaidFields DEF LaunchSession, Heard, w
  <2>2. server' \in ServerType
    BY <1>1, <1>5, <2>1 DEF LaunchSession, ServerType, Chosen, w
  <2>3. link' \in [Page -> LinkType]
    BY <1>1, <1>5, <2>1, ToldTypes, WordTypes DEF LaunchSession, w
  <2> QED BY <1>5, <2>2, <2>3 DEF LaunchSession, TypeOK
<1>6. CASE BeginWork(p)
  <2>1. w.kind \in Stores \cup {"getProfile"}
    BY <1>6 DEF BeginWork, Heard, w
  <2>2. Jobs(work')
    BY <1>1, <1>6, <2>1, JobsAppend DEF BeginWork, w
  <2> QED BY <1>1, <1>6, <2>2 DEF BeginWork, TypeOK
<1> QED BY <1>2, <1>3, <1>4, <1>5, <1>6 DEF Listening

LEMMA WorkingTypes ==
  ASSUME TypeOK, NEW i \in DOMAIN work, Handled(i)
  PROVE  TypeOK'
<1> DEFINE job == work[i]
<1>1. /\ link \in [Page -> LinkType] /\ server \in ServerType /\ Jobs(work)
      /\ job \in JobType /\ JobOK(job)
  BY DEF TypeOK, Jobs
<1>2. Jobs(RemoveAt(work, i))
  BY <1>1, JobsRemove
<1> HIDE DEF job
<1>3. CASE Read(i)
  <2>1. job.id \in ProfileId
    BY <1>1, <1>3 DEF Read, JobOK, job
  <2>2. link' \in [Page -> LinkType]
    <3>1. CASE job.id \in Stored(server.profiles)
      <4>1. Reply(job, [kind |-> "profileDetail", id |-> job.id])
        BY <1>3, <3>1 DEF Read, job
      <4> QED BY <1>1, <2>1, <4>1, WordTypes, ReplyTypes
    <3>2. CASE job.id \notin Stored(server.profiles)
      <4>1. Reply(job, [kind |-> "profileError"])
        BY <1>3, <3>2 DEF Read, job
      <4> QED BY <1>1, <4>1, WordTypes, ReplyTypes
    <3> QED BY <3>1, <3>2
  <2> QED BY <1>2, <1>3, <2>2 DEF Read, TypeOK
<1>4. CASE Throw(i)
  <2>1. link' \in [Page -> LinkType]
    BY <1>1, <1>4, WordTypes, ReplyTypes DEF Throw, job
  <2> QED BY <1>2, <1>4, <2>1 DEF Throw, TypeOK
<1>5. ASSUME NEW id \in ProfileId \cup {None}, Put(i, id) PROVE TypeOK'
  <2>1. id \in Chosen
    BY DEF Chosen
  <2>2. job.kind \in Stores
    BY <1>1, <1>5 DEF Put, JobOK, JobType, job
  <2>3. server' \in ServerType
    <3>1. CASE job.kind = "saveProfile"
      <4>1. server' = [server EXCEPT !.profiles[id] = job.style] /\ job.style \in Style
        BY <1>1, <1>5, <3>1 DEF Put, JobOK, job
      <4> QED BY <1>1, <4>1 DEF ServerType
    <3>2. CASE job.kind = "deleteProfile"
      <4>1. server' = [server EXCEPT !.profiles[id] = None, !.active = IF @ = id THEN None ELSE @]
        BY <1>5, <3>2 DEF Put, job
      <4> QED BY <1>1, <4>1 DEF ServerType, Chosen
    <3>3. CASE job.kind = "setActiveProfile"
      <4>1. server' = [server EXCEPT !.active = id]
        BY <1>5, <3>3 DEF Put, job
      <4> QED BY <1>1, <2>1, <4>1 DEF ServerType
    <3> QED BY <2>2, <3>1, <3>2, <3>3 DEF Stores
  <2> DEFINE after == [job EXCEPT !.step = "list", !.id = id]
  <2>4. after \in JobType
    BY <1>1, <2>1 DEF JobType
  <2>5. job.kind = "deleteProfile" => id \in ProfileId
    BY <1>1, <1>5 DEF Put, JobOK, job
  <2>6. JobOK(after)
    BY <1>1, <2>2, <2>5 DEF JobOK, Stores, JobType
  <2>7. work' = [work EXCEPT ![i] = after]
    BY <1>1, <1>5 DEF Put, job, JobType
  <2> HIDE DEF after
  <2>8. Jobs(work')
    BY <1>1, <2>4, <2>6, <2>7, JobsReplace
  <2> QED BY <1>5, <2>3, <2>8 DEF Put, TypeOK
<1>6. CASE List(i)
  <2> DEFINE after == [job EXCEPT !.step = "tell", !.list = Stored(server.profiles),
                                  !.active = server.active]
  <2>1. after \in JobType
    BY <1>1 DEF JobType, Stored, ServerType
  <2>2. JobOK(after)
    BY <1>1, <1>6 DEF JobOK, JobType, List, job
  <2>3. work' = [work EXCEPT ![i] = after]
    BY <1>1, <1>6 DEF List, job, JobType
  <2> HIDE DEF after
  <2>4. Jobs(work')
    BY <1>1, <2>1, <2>2, <2>3, JobsReplace
  <2> QED BY <1>6, <2>4 DEF List, TypeOK
<1>7. CASE Announce(i)
  <2>1. job.kind \in Stores /\ job.list \in SUBSET ProfileId /\ job.id \in Chosen /\ job.active \in Chosen
    BY <1>1, <1>7 DEF Announce, JobOK, JobType, job
  <2>2. restart \in RestartType
    BY DEF TypeOK
  <2>3. CASE job.kind = "saveProfile" /\ job.id \in job.list
    <3>1. /\ link' = Told(link, [kind |-> "profileSaved", id |-> job.id, active |-> job.active])
          /\ restart' \in RestartCall(job.id, TRUE, restart) \/ restart' = restart
      BY <1>7, <2>3 DEF Announce, job
    <3>2. link' \in [Page -> LinkType]
      BY <1>1, <2>1, <2>3, <3>1, ToldTypes, WordTypes
    <3>3. restart' \in RestartType
      BY <2>1, <2>2, <3>1, RestartTypes
    <3> QED BY <1>2, <1>7, <3>2, <3>3 DEF Announce, TypeOK
  <2>4. CASE job.kind = "saveProfile" /\ job.id \notin job.list
    <3>1. Reply(job, [kind |-> "profileError"]) /\ restart' = restart
      BY <1>7, <2>4 DEF Announce, job
    <3>2. link' \in [Page -> LinkType]
      BY <1>1, <3>1, ReplyTypes, WordTypes
    <3> QED BY <1>2, <1>7, <2>2, <3>1, <3>2 DEF Announce, TypeOK
  <2>5. CASE job.kind = "deleteProfile"
    <3>1. /\ link' = Told(link, [kind |-> "profileDeleted", id |-> job.id, active |-> job.active])
          /\ restart' = restart
      BY <1>7, <2>5 DEF Announce, job
    <3>2. job.id \in ProfileId
      BY <1>1, <2>5 DEF JobOK
    <3>3. link' \in [Page -> LinkType]
      BY <1>1, <2>1, <3>1, <3>2, ToldTypes, WordTypes
    <3> QED BY <1>2, <1>7, <2>2, <3>1, <3>3 DEF Announce, TypeOK
  <2>6. CASE job.kind = "setActiveProfile"
    <3>1. /\ link' = Told(link, [kind |-> "profiles", list |-> job.list, active |-> job.id])
          /\ restart' \in RestartCall(job.id, FALSE, restart)
      BY <1>7, <2>6 DEF Announce, job
    <3>2. link' \in [Page -> LinkType]
      BY <1>1, <2>1, <3>1, ToldTypes, WordTypes
    <3>3. restart' \in RestartType
      BY <2>1, <2>2, <3>1, RestartTypes
    <3> QED BY <1>2, <1>7, <3>2, <3>3 DEF Announce, TypeOK
  <2> QED BY <2>1, <2>3, <2>4, <2>5, <2>6 DEF Stores
<1> QED BY <1>3, <1>4, <1>5, <1>6, <1>7 DEF Handled

LEMMA ServerTypes ==
  ASSUME TypeOK, ServerStops \/ ServerStarts \/ RestartRefused \/ RestartRuns \/ QueuedRestart
  PROVE  TypeOK'
<1>1. /\ link \in [Page -> LinkType] /\ page \in [Page -> PageType] /\ server \in ServerType
      /\ restart \in RestartType /\ events \in 0 .. MaxEvents
  BY DEF TypeOK
<1>2. CASE ServerStops
  <2>1. FreshServer(server.profiles, server.active) \in ServerType
    BY <1>1, FirstTypes DEF ServerType
  <2>2. server' \in ServerType
    BY <1>2, <2>1 DEF ServerStops, ServerType
  <2>3. link' \in [Page -> LinkType] /\ page' \in [Page -> PageType]
    BY <1>1, <1>2, FirstTypes, PageTypes DEF ServerStops
  <2>4. Jobs(<<>>)
    BY DEF Jobs
  <2> QED BY <1>1, <1>2, <2>2, <2>3, <2>4, FirstTypes, EventTypes DEF ServerStops, TypeOK
<1>3. CASE ServerStarts
  BY <1>1, <1>3 DEF ServerStarts, TypeOK, ServerType
<1>4. CASE RestartRefused
  BY <1>1, <1>4, RestartOverTypes DEF RestartRefused, TypeOK
<1>5. CASE RestartRuns
  <2> DEFINE id == restart.id
             s  == IF id = None THEN EnvStyle ELSE server.profiles[id]
  <2>1. id \in Chosen
    BY <1>1 DEF RestartType
  <2>2. s \in Style
    BY <1>1, <1>5, <2>1, StyleAssumption DEF RestartRuns, Stored, ServerType, Chosen
  <2> HIDE DEF s, id
  <2>3. server' \in ServerType
    <3>1. PICK runs \in {id, server.running} : server' = [server EXCEPT !.style = s, !.running = runs]
      BY <1>5 DEF RestartRuns, s, id
    <3> QED BY <1>1, <2>1, <2>2, <3>1 DEF ServerType
  <2>4. link' = Told(link, RestartTold(s))
    BY <1>5 DEF RestartRuns, s, id
  <2>5. link' \in [Page -> LinkType]
    BY <1>1, <2>2, <2>4, ToldTypes, WordTypes
  <2> QED BY <1>1, <1>5, <2>3, <2>5, RestartOverTypes DEF RestartRuns, TypeOK
<1>6. CASE QueuedRestart
  <2> DEFINE r == [restart EXCEPT !.next = Tail(@)]
  <2>1. r \in RestartType /\ Head(restart.next) \in Chosen
    <3>1. restart.next \in Seq(Chosen) /\ restart.next # <<>>
      BY <1>1, <1>6 DEF QueuedRestart, RestartType
    <3>2. Tail(restart.next) \in Seq(Chosen) /\ Head(restart.next) \in Chosen
      BY <3>1
    <3> QED BY <1>1, <3>2 DEF RestartType
  <2>2. restart' \in RestartCall(Head(restart.next), FALSE, r)
    BY <1>6 DEF QueuedRestart
  <2> HIDE DEF r
  <2>3. restart' \in RestartType
    BY <2>1, <2>2, RestartTypes
  <2> QED BY <1>6, <2>3 DEF QueuedRestart, TypeOK
<1> QED BY <1>2, <1>3, <1>4, <1>5, <1>6

LEMMA TypeStep ==
  ASSUME TypeOK, [Next]_vars
  PROVE  TypeOK'
<1>1. CASE Next
  BY <1>1, SocketTypes, PageStepTypes, ListeningTypes, WorkingTypes, ServerTypes DEF Next, Working
<1>2. CASE UNCHANGED vars
  BY <1>2 DEF vars, TypeOK, Jobs
<1> QED BY <1>1, <1>2

THEOREM TypeCorrect == Spec => []TypeOK
<1> QED BY TypeInit, TypeStep, PTL DEF Spec

-----------------------------------------------------------------------------
(* One page, its socket, and the server *)

\* There is one way back, a socket is open while its handler is at work, and a
\* page is connected only to a handler that listens.
Wired(l, pg) ==
  /\ pg.timer <=> l.client = "none"
  /\ l.client = "open" <=> l.phase # "none"
  /\ l.client # "open" => l.up = <<>> /\ l.down = <<>>
  /\ Greeted(l) => l.phase = "listening"
  /\ l.phase = "listening" => pg.status = "connected" \/ Greeted(l)
  /\ pg.status = "connected" => l.phase = "listening"

\* What the page keeps of the profile it asked for.
Kept(pg) ==
  /\ pg.pending \in {None, pg.asked}
  /\ pg.editing.kind \in {"full", "stub"} => pg.editing.id = pg.asked

\* The page agrees with the server on the style, and the server with the page
\* `p` on the size, if that controls it.
StyleOK(l, pg, srv, p) ==
  l.phase = "listening" =>
    \/ LastStyle(l.down, srv.style)
    \/ /\ Silent(l.down, StyleWords)
       /\ pg.style = srv.style \/ (pg.own /\ (p = srv.controller => ~Silent(l.up, {"setStyle"})))

SizeOK(l, pg, srv, p) ==
  pg.status = "connected" =>
    /\ pg.resizing \/ pg.sent = pg.size
    /\ \/ LastSize(l.up, pg.sent)
       \/ Silent(l.up, SizeWords) /\ (p = srv.controller /\ pg.sent \in Fitting => srv.size = pg.sent)

Sound(l, pg, srv, p) == Wired(l, pg) /\ Kept(pg) /\ SizeOK(l, pg, srv, p)
Good(l, pg, srv, p)  == Sound(l, pg, srv, p) /\ StyleOK(l, pg, srv, p)

AllGood == \A p \in Page : Good(link[p], page[p], server, p)
JobsHeard == \A i \in DOMAIN work : work[i].live => link[work[i].page].phase = "listening"

\* The inductive invariant, page by page, is that of the runs.
LEMMA InvariantByPage ==
  (TypeOK /\ AllGood /\ JobsHeard) <=> (GatewayInv /\ StyleIsShared /\ SentArrives)
BY DEF AllGood, JobsHeard, Good, Sound, Wired, Kept, StyleOK, SizeOK, GatewayInv, OneWayBack,
       ConnectedIsHeard, EditorIsOfTheAsked, SocketsAreWired, StyleIsShared, SentArrives,
       IsController

LEMMA AgreementByPage == AllGood => PagesAgree
BY DEF AllGood, Good, Sound, Wired, Kept, StyleOK, SizeOK, PagesAgree, StyleIsShared,
       TerminalFits, SentArrives, IsController

\* A page without a socket, or with one that is not accepted yet.
LEMMA GoodClosed ==
  ASSUME NEW l, NEW pg, NEW srv, NEW p, Kept(pg), pg.status # "connected",
         \/ l = NoLink /\ pg.timer
         \/ l = Opening /\ ~pg.timer
  PROVE  Good(l, pg, srv, p)
<1>1. /\ l.phase = "none" /\ l.up = <<>> /\ l.down = <<>>
      /\ l.client \in {"none", "opening"} /\ (l.client = "none" <=> pg.timer)
  BY DEF NoLink, Opening
<1>2. ~Greeted(l)
  BY <1>1 DEF Greeted, Silent
<1> QED BY <1>1, <1>2 DEF Good, Sound, Wired, StyleOK, SizeOK

\* What the server does elsewhere: other pages may gain control.
LEMMA GoodElsewhere ==
  ASSUME NEW l, NEW pg, NEW srv, NEW p, NEW srv2, Good(l, pg, srv, p),
         srv2.style = srv.style,
         p = srv2.controller => p = srv.controller /\ srv2.size = srv.size
  PROVE  Good(l, pg, srv2, p)
BY DEF Good, Sound, StyleOK, SizeOK

\* A word that has nothing to do with the style is told.
LEMMA GoodHears ==
  ASSUME NEW l \in LinkType, NEW pg, NEW srv, NEW p, Good(l, pg, srv, p), l.client = "open",
         NEW w \in Word, w.kind \notin StyleWords
  PROVE  Good([l EXCEPT !.down = Append(@, w)], pg, srv, p)
<1> DEFINE m == [l EXCEPT !.down = Append(@, w)]
<1>1. /\ m.client = l.client /\ m.phase = l.phase /\ m.up = l.up /\ m.down = Append(l.down, w)
      /\ l.down \in Seq(Word)
  BY DEF LinkType
<1> HIDE DEF m
<1>2. Greeted(m) <=> Greeted(l)
  BY <1>1, AppendSilent DEF Greeted, StyleWords
<1>3. Silent(l.down, StyleWords) => Silent(m.down, StyleWords)
  BY <1>1, AppendSilent
<1>4. LastStyle(l.down, srv.style) => LastStyle(m.down, srv.style)
  BY <1>1, AppendStyle
<1>5. Good(m, pg, srv, p)
  BY <1>1, <1>2, <1>3, <1>4 DEF Good, Sound, Wired, StyleOK, SizeOK
<1> QED BY <1>5 DEF m

\* The server changes its style and tells it.
LEMMA GoodToldStyle ==
  ASSUME NEW l \in LinkType, NEW pg, NEW srv, NEW p, Sound(l, pg, srv, p), l.client = "open",
         NEW w \in Word, w.kind \in {"style", "ptyRestart"},
         NEW srv2, srv2.style = w.style, srv2.size = srv.size,
         srv2.controller = srv.controller
  PROVE  Good([l EXCEPT !.down = Append(@, w)], pg, srv2, p)
<1> DEFINE m == [l EXCEPT !.down = Append(@, w)]
<1>1. /\ m.client = l.client /\ m.phase = l.phase /\ m.up = l.up /\ m.down = Append(l.down, w)
      /\ l.down \in Seq(Word)
  BY DEF LinkType
<1> HIDE DEF m
<1>2. Greeted(m) <=> Greeted(l)
  BY <1>1, AppendSilent DEF Greeted
<1>3. LastStyle(m.down, srv2.style)
  BY <1>1, AppendStyle DEF StyleWords
<1>4. Good(m, pg, srv2, p)
  BY <1>1, <1>2, <1>3 DEF Good, Sound, Wired, StyleOK, SizeOK
<1> QED BY <1>4 DEF m

\* A socket that is not open hears nothing, and does not care for the style.
LEMMA GoodDeaf ==
  ASSUME NEW l, NEW pg, NEW srv, NEW p, Good(l, pg, srv, p), l.client # "open", NEW srv2
  PROVE  Good(l, pg, srv2, p)
BY DEF Good, Sound, Wired, StyleOK, SizeOK

\* The page says something that is not about the size.
LEMMA GoodSays ==
  ASSUME NEW l \in LinkType, NEW pg, NEW srv, NEW p, Good(l, pg, srv, p), l.client = "open",
         NEW w \in Said, w.kind \notin SizeWords
  PROVE  Good([l EXCEPT !.up = Append(@, w)], pg, srv, p)
<1> DEFINE m == [l EXCEPT !.up = Append(@, w)]
<1>1. /\ m.client = l.client /\ m.phase = l.phase /\ m.up = Append(l.up, w) /\ m.down = l.down
      /\ l.up \in Seq(Said)
  BY DEF LinkType
<1> HIDE DEF m
<1>2. Greeted(m) <=> Greeted(l)
  BY <1>1 DEF Greeted
<1>3. Silent(m.up, {"setStyle"}) => Silent(l.up, {"setStyle"})
  BY <1>1, AppendSilent
<1>4. Silent(l.up, SizeWords) => Silent(m.up, SizeWords)
  BY <1>1, AppendSilent
<1>5. \A x : LastSize(l.up, x) => LastSize(m.up, x)
  BY <1>1, AppendSize
<1>6. Good(m, pg, srv, p)
  BY <1>1, <1>2, <1>3, <1>4, <1>5 DEF Good, Sound, Wired, StyleOK, SizeOK
<1> QED BY <1>6 DEF m

\* The page says its size, having noted that it does.
LEMMA GoodSaysSize ==
  ASSUME NEW l \in LinkType, NEW pg \in PageType, NEW srv, NEW p,
         Wired(l, pg), Kept(pg), StyleOK(l, pg, srv, p), l.client = "open"
  PROVE  Good([l EXCEPT !.up = Append(@, SizeWord(pg))], Resized(pg), srv, p)
<1> DEFINE w == SizeWord(pg)
           m == [l EXCEPT !.up = Append(@, w)]
           r == Resized(pg)
<1>0. w \in Said /\ w.kind = "resizePty" /\ w.size = pg.size
  BY SaidTypes DEF SizeWord, PageType
<1>1. /\ r.timer = pg.timer /\ r.status = pg.status /\ r.pending = pg.pending /\ r.asked = pg.asked
      /\ r.editing = pg.editing /\ r.style = pg.style /\ r.own = pg.own
      /\ r.sent = pg.size /\ r.size = pg.size
  BY DEF Resized, PageType
<1> HIDE DEF w, r
<1>2. /\ m.client = l.client /\ m.phase = l.phase /\ m.up = Append(l.up, w) /\ m.down = l.down
      /\ l.up \in Seq(Said)
  BY DEF LinkType
<1> HIDE DEF m
<1>3. Greeted(m) <=> Greeted(l)
  BY <1>2 DEF Greeted
<1>4. Silent(m.up, {"setStyle"}) => Silent(l.up, {"setStyle"})
  BY <1>0, <1>2, AppendSilent
<1>5. LastSize(m.up, r.sent)
  BY <1>0, <1>1, <1>2, AppendSize DEF SizeWords
<1>6. Good(m, r, srv, p)
  BY <1>1, <1>2, <1>3, <1>4, <1>5 DEF Good, Sound, Wired, Kept, StyleOK, SizeOK
<1> QED BY <1>6 DEF m, w, r

\* The server has heard a word.  If it was about the size it acts on it when
\* the page controls it; if it was about the style, it tells everybody.
LEMMA GoodHeard ==
  ASSUME NEW l \in LinkType, NEW pg, NEW srv, NEW p, Good(l, pg, srv, p), l.up # <<>>,
         NEW srv2, srv2.controller = srv.controller,
         IF p = srv.controller /\ Head(l.up).kind = "resizePty"
         THEN Head(l.up).size \in Fitting => srv2.size = Head(l.up).size
         ELSE srv2.size = srv.size
  PROVE  /\ Sound([l EXCEPT !.up = Tail(@)], pg, srv2, p)
         /\ srv2.style = srv.style /\ ~(p = srv.controller /\ Head(l.up).kind = "setStyle") =>
              Good([l EXCEPT !.up = Tail(@)], pg, srv2, p)
<1> DEFINE m == [l EXCEPT !.up = Tail(@)]
           w == Head(l.up)
<1>1. /\ m.client = l.client /\ m.phase = l.phase /\ m.up = Tail(l.up) /\ m.down = l.down
      /\ l.up \in Seq(Said)
  BY DEF LinkType
<1> HIDE DEF m
<1>2. Greeted(m) <=> Greeted(l)
  BY <1>1 DEF Greeted
<1>3. w.kind # "setStyle" /\ Silent(m.up, {"setStyle"}) => Silent(l.up, {"setStyle"})
  BY <1>1, TailSilent
<1>4. Silent(l.up, SizeWords) => Silent(m.up, SizeWords) /\ w.kind # "resizePty"
  BY <1>1, TailSilent DEF SizeWords
<1>5. \A x : LastSize(l.up, x) =>
        LastSize(m.up, x) \/ (Silent(m.up, SizeWords) /\ w.kind = "resizePty" /\ w.size = x)
  BY <1>1, TailSize DEF SizeWords
<1>6. IF p = srv.controller /\ w.kind = "resizePty" THEN w.size \in Fitting => srv2.size = w.size
                                 ELSE srv2.size = srv.size
  OBVIOUS
<1> HIDE DEF w
<1>7. SizeOK(m, pg, srv2, p)
  BY <1>4, <1>5, <1>6 DEF Good, Sound, SizeOK
<1>8. srv2.style = srv.style /\ ~(p = srv.controller /\ w.kind = "setStyle") => StyleOK(m, pg, srv2, p)
  BY <1>1, <1>3 DEF Good, StyleOK
<1>9. Wired(m, pg)
  <2>1. m.client = "open"
    BY <1>1 DEF Good, Sound, Wired
  <2> QED BY <1>1, <1>2, <2>1 DEF Good, Sound, Wired
<1>10. Sound(m, pg, srv2, p) /\ (srv2.style = srv.style /\ ~(p = srv.controller /\ w.kind = "setStyle") =>
                                  Good(m, pg, srv2, p))
  BY <1>7, <1>8, <1>9 DEF Good, Sound
<1> QED BY <1>10 DEF m, w

\* The page shows what it hears.
LEMMA ShownFields ==
  ASSUME NEW pg \in PageType, NEW w \in Word
  PROVE  LET s == Shown(pg, w) IN
         /\ s.timer = pg.timer /\ s.size = pg.size /\ s.sent = pg.sent /\ s.resizing = pg.resizing
         /\ s.status = IF w.kind = "hello" THEN "connected" ELSE pg.status
         /\ IF w.kind \in StyleWords THEN s.style = w.style
                                    ELSE s.style = pg.style /\ s.own = pg.own
         /\ Kept(pg) => Kept(s)
<1> DEFINE s == Shown(pg, w)
<1>1. w.kind \in {"hello", "style", "ptyRestart", "profiles", "profileSaved",
                 "profileDeleted", "profileDetail", "profileError"}
  BY WordFields
<1>2. CASE w.kind = "hello"
  BY <1>2 DEF Shown, Hello, PageType, StyleWords, Kept
<1>3. CASE w.kind \in {"style", "ptyRestart"}
  BY <1>3 DEF Shown, PageType, StyleWords, Kept
<1>4. CASE w.kind = "profiles"
  BY <1>4 DEF Shown, PageType, StyleWords, Kept
<1>5. CASE w.kind = "profileSaved"
  BY <1>5 DEF Shown, PageType, StyleWords, Kept, NoEditor
<1>6. CASE w.kind = "profileDeleted"
  BY <1>6 DEF Shown, PageType, StyleWords, Kept
<1>7. CASE w.kind = "profileDetail"
  <2>1. s = Detail(pg, w) /\ w.id # None
    BY <1>7, WordFields, ProfileAssumption DEF Shown
  <2>2. CASE pg.pending = w.id
    <3>1. s = [pg EXCEPT !.editing = [kind |-> "full", id |-> w.id], !.pending = None]
      BY <2>1, <2>2 DEF Detail
    <3> QED BY <1>7, <2>1, <2>2, <3>1 DEF PageType, StyleWords, Kept
  <2>3. CASE pg.pending # w.id
    BY <1>7, <2>1, <2>3 DEF Detail, StyleWords
  <2> QED BY <2>2, <2>3
<1>8. CASE w.kind = "profileError"
  <2>1. s = ErrorShown(pg)
    BY <1>8 DEF Shown
  <2>2. \/ s = pg
        \/ /\ pg.pending # None
           /\ s = [pg EXCEPT !.editing = [kind |-> "stub", id |-> pg.pending], !.pending = None]
        \/ s = [pg EXCEPT !.editing = NoEditor, !.pending = None]
    <3>1. None \notin pg.list
      BY ProfileAssumption DEF PageType
    <3> QED BY <2>1, <3>1 DEF ErrorShown
  <2>3. CASE s = pg
    BY <1>8, <2>3 DEF StyleWords
  <2>4. CASE /\ pg.pending # None
             /\ s = [pg EXCEPT !.editing = [kind |-> "stub", id |-> pg.pending], !.pending = None]
    BY <1>8, <2>4 DEF PageType, StyleWords, Kept
  <2>5. CASE s = [pg EXCEPT !.editing = NoEditor, !.pending = None]
    BY <1>8, <2>5 DEF PageType, StyleWords, Kept, NoEditor
  <2> QED BY <2>2, <2>3, <2>4, <2>5
<1> QED BY <1>1, <1>2, <1>3, <1>4, <1>5, <1>6, <1>7, <1>8

LEMMA GoodDelivered ==
  ASSUME NEW l \in LinkType, NEW pg \in PageType, NEW srv, NEW p, Good(l, pg, srv, p), l.down # <<>>
  PROVE  LET w == Head(l.down)
             m == [l EXCEPT !.down = Tail(@)]
         IN  IF Resends(pg, w)
             THEN Good([m EXCEPT !.up = Append(@, SizeWord(pg))], Resized(Shown(pg, w)), srv, p)
             ELSE Good(m, Shown(pg, w), srv, p)
<1> DEFINE w == Head(l.down)
           m == [l EXCEPT !.down = Tail(@)]
           s == Shown(pg, w)
<1>1. /\ m.client = l.client /\ m.phase = l.phase /\ m.up = l.up /\ m.down = Tail(l.down)
      /\ l.down \in Seq(Word) /\ m \in LinkType /\ w \in Word
  BY LinkTypes DEF LinkType
<1>2. s \in PageType
  BY <1>1, ShownTypes
<1>3. /\ s.timer = pg.timer /\ s.size = pg.size /\ s.sent = pg.sent /\ s.resizing = pg.resizing
      /\ s.status = IF w.kind = "hello" THEN "connected" ELSE pg.status
      /\ IF w.kind \in StyleWords THEN s.style = w.style
                                 ELSE s.style = pg.style /\ s.own = pg.own
      /\ Kept(s)
  BY <1>1, ShownFields DEF Good, Sound
<1>4. Greeted(l) <=> (Greeted(m) \/ w.kind = "hello")
  BY <1>1, TailSilent DEF Greeted
<1>5. Silent(l.down, StyleWords) => Silent(m.down, StyleWords) /\ w.kind \notin StyleWords
  BY <1>1, TailSilent
<1>6. \A x : LastStyle(l.down, x) =>
        LastStyle(m.down, x) \/ (Silent(m.down, StyleWords) /\ w.kind \in StyleWords /\ w.style = x)
  BY <1>1, TailStyle
<1>7. SizeWord(s) = SizeWord(pg)
  BY <1>3 DEF SizeWord
<1>8. l.client = "open"
  BY DEF Good, Sound, Wired
<1> HIDE DEF w, m, s
<1>9. Wired(m, s)
  BY <1>1, <1>3, <1>4, <1>8 DEF Good, Sound, Wired
<1>10. StyleOK(m, s, srv, p)
  BY <1>1, <1>3, <1>5, <1>6 DEF Good, StyleOK
<1>11. CASE Resends(pg, w)
  <2>1. Good([m EXCEPT !.up = Append(@, SizeWord(s))], Resized(s), srv, p)
    BY <1>1, <1>2, <1>3, <1>8, <1>9, <1>10, GoodSaysSize
  <2> QED BY <1>7, <1>11, <2>1 DEF m, s, w
<1>12. CASE ~Resends(pg, w)
  <2>1. w.kind # "hello"
    BY <1>12 DEF Resends
  <2>2. SizeOK(m, s, srv, p)
    BY <1>1, <1>3, <2>1 DEF Good, Sound, SizeOK
  <2>3. Good(m, s, srv, p)
    BY <1>3, <1>9, <1>10, <2>2 DEF Good, Sound
  <2> QED BY <1>12, <2>3 DEF m, s, w
<1> QED BY <1>11, <1>12

-----------------------------------------------------------------------------
(* Steps *)

Inv == TypeOK /\ AllGood /\ JobsHeard

\* A step of one page, or of the server for one page.
LEMMA OnePage ==
  ASSUME Inv, NEW p \in Page,
         \A q \in Page \ {p} : link'[q] = link[q] /\ page'[q] = page[q],
         server'.style = server.style,
         \A q \in Page \ {p} : q = server'.controller =>
                               q = server.controller /\ server'.size = server.size,
         Good(link'[p], page'[p], server', p)
  PROVE  AllGood'
<1> SUFFICES ASSUME NEW q \in Page
             PROVE  Good(link'[q], page'[q], server', q)
  BY DEF AllGood, IsController
<1>1. CASE q = p
  BY <1>1
<1>2. CASE q # p
  <2>1. Good(link[q], page[q], server, q)
    BY DEF Inv, AllGood, IsController
  <2>2. Good(link[q], page[q], server', q)
    BY <1>2, <2>1, GoodElsewhere
  <2> QED BY <1>2, <2>2
<1> QED BY <1>1, <1>2

\* A word that is not about the style is told to everybody.
LEMMA Announced ==
  ASSUME Inv, NEW w \in Word, w.kind \notin StyleWords, link' = Told(link, w), page' = page,
         server' = server
  PROVE  AllGood' /\ \A q \in Page : link'[q].phase = link[q].phase
<1> SUFFICES ASSUME NEW q \in Page
             PROVE  Good(link'[q], page'[q], server', q) /\ link'[q].phase = link[q].phase
  BY DEF AllGood
<1>1. link[q] \in LinkType /\ Good(link[q], page[q], server, q)
  BY DEF Inv, TypeOK, AllGood
<1>2. CASE link[q].client = "open"
  <2>1. link'[q] = [link[q] EXCEPT !.down = Append(@, w)]
    BY <1>2 DEF Told
  <2>2. Good([link[q] EXCEPT !.down = Append(@, w)], page[q], server, q)
    BY <1>1, <1>2, GoodHears
  <2>3. link'[q].phase = link[q].phase
    BY <1>1, <2>1 DEF LinkType
  <2> QED BY <2>1, <2>2, <2>3
<1>3. CASE link[q].client # "open"
  <2>1. link'[q] = link[q]
    BY <1>3 DEF Told
  <2> QED BY <1>1, <2>1
<1> QED BY <1>2, <1>3

\* The server changes its style, which it has heard from `p` or not, and tells
\* everybody.
LEMMA ToldStyle ==
  ASSUME Inv, NEW w \in Word, w.kind \in {"style", "ptyRestart"},
         NEW l \in [Page -> LinkType], link' = Told(l, w), page' = page,
         server'.style = w.style, server'.size = server.size,
         server'.controller = server.controller,
         \A q \in Page : /\ l[q].client = link[q].client /\ l[q].phase = link[q].phase
                         /\ Sound(l[q], page[q], server, q)
                         /\ l[q].client # "open" => l[q] = link[q]
  PROVE  AllGood' /\ \A q \in Page : link'[q].phase = link[q].phase
<1> SUFFICES ASSUME NEW q \in Page
             PROVE  Good(link'[q], page'[q], server', q) /\ link'[q].phase = link[q].phase
  BY DEF AllGood
<1>1. /\ l[q] \in LinkType /\ l[q].client = link[q].client /\ l[q].phase = link[q].phase
      /\ Sound(l[q], page[q], server, q) /\ Good(link[q], page[q], server, q)
      /\ l[q].client # "open" => l[q] = link[q]
  <2>1. l[q] \in LinkType
    OBVIOUS
  <2>2. Good(link[q], page[q], server, q)
    BY DEF Inv, AllGood
  <2>3. /\ l[q].client = link[q].client /\ l[q].phase = link[q].phase
        /\ Sound(l[q], page[q], server, q)
    OBVIOUS
  <2>4. l[q].client # "open" => l[q] = link[q]
    OBVIOUS
  <2> QED BY <2>1, <2>2, <2>3, <2>4
<1>2. CASE l[q].client = "open"
  <2>1. link'[q] = [l[q] EXCEPT !.down = Append(@, w)]
    BY <1>2 DEF Told
  <2>2. Good([l[q] EXCEPT !.down = Append(@, w)], page[q], server', q)
    BY <1>1, <1>2, GoodToldStyle
  <2>3. link'[q].phase = l[q].phase
    BY <1>1, <2>1 DEF LinkType
  <2> QED BY <1>1, <2>1, <2>2, <2>3
<1>3. CASE l[q].client # "open"
  <2>1. link'[q] = link[q]
    BY <1>1, <1>3 DEF Told
  <2> QED BY <1>1, <1>3, <2>1, GoodDeaf
<1> QED BY <1>2, <1>3

LEMMA JobPages ==
  ASSUME Inv
  PROVE  /\ work \in Seq(JobType)
         /\ \A i \in DOMAIN work : work[i] \in JobType /\ work[i].page \in Page
<1>1. work \in Seq(JobType)
  BY DEF Inv, TypeOK, Jobs
<1>2. \A i \in DOMAIN work : work[i] \in JobType
  BY <1>1
<1> QED BY <1>1, <1>2 DEF JobType

LEMMA JobsStill ==
  ASSUME Inv, work' = work,
         \A q \in Page : link[q].phase = "listening" => link'[q].phase = "listening"
  PROVE  JobsHeard'
BY JobPages DEF Inv, JobsHeard

LEMMA JobsOrphanedHeard ==
  ASSUME Inv, NEW p \in Page, work' = Orphaned({p}),
         \A q \in Page \ {p} : link'[q] = link[q]
  PROVE  JobsHeard'
<1>1. /\ DOMAIN work' = DOMAIN work
      /\ \A i \in DOMAIN work : /\ work'[i].page = work[i].page
                                /\ work'[i].live => work[i].live /\ work[i].page \notin {p}
  BY JobsOrphaned DEF Inv, TypeOK
<1>2. ASSUME NEW i \in DOMAIN work', work'[i].live PROVE link'[work'[i].page].phase = "listening"
  <2>1. work[i].live /\ work'[i].page = work[i].page /\ work[i].page # p /\ work[i].page \in Page
    <3>1. i \in DOMAIN work
      BY <1>1
    <3>2. work[i].live /\ work'[i].page = work[i].page /\ work[i].page \notin {p}
      BY <1>1, <1>2, <3>1
    <3>3. work[i].page \in Page
      BY <3>1, JobPages
    <3> QED BY <3>2, <3>3
  <2> QED BY <1>1, <2>1 DEF Inv, JobsHeard
<1> QED BY <1>2 DEF JobsHeard

LEMMA JobsRemoveHeard ==
  ASSUME Inv, NEW i \in DOMAIN work, work' = RemoveAt(work, i),
         \A q \in Page : link'[q].phase = link[q].phase
  PROVE  JobsHeard'
<1>1. work \in Seq(JobType) /\ \A k \in DOMAIN work : work[k].page \in Page
  BY JobPages
<1>2. \A j \in DOMAIN work' : \E k \in DOMAIN work : work'[j] = work[k]
  BY <1>1, Removed
<1> QED BY <1>1, <1>2 DEF Inv, JobsHeard

\* Connections and faults.
LEMMA SocketStep ==
  ASSUME Inv, NEW p \in Page,
         \/ Connects(p) \/ ListForGreeting(p) \/ Greet(p) \/ LostEarly(p) \/ Faults(p)
  PROVE  AllGood' /\ JobsHeard'
<1> DEFINE l == link[p]
           pg == page[p]
<1>1. /\ link \in [Page -> LinkType] /\ page \in [Page -> PageType] /\ server \in ServerType
      /\ l \in LinkType /\ pg \in PageType /\ Good(l, pg, server, p) /\ Wired(l, pg) /\ Kept(pg)
  BY DEF Inv, TypeOK, AllGood, IsController, Good, Sound
<1>2. l.client # "open" => l.phase # "listening" /\ pg.status # "connected"
  BY <1>1 DEF Wired
<1>3. Kept(Disconnected(pg)) /\ Disconnected(pg).status # "connected" /\ Disconnected(pg).timer
  BY <1>1 DEF Disconnected, Kept, PageType
<1>4. \A x \in PageType : Kept(x) => /\ Kept(Connecting(x)) /\ Connecting(x).status # "connected"
                                     /\ ~Connecting(x).timer
  BY DEF Connecting, Kept, PageType
<1>5. CASE TimerFires(p)
  <2>1. /\ \A q \in Page \ {p} : link'[q] = link[q] /\ page'[q] = page[q]
        /\ link'[p] = Opening /\ page'[p] = Connecting([pg EXCEPT !.retried = TRUE])
        /\ server' = server /\ work' = work
    BY <1>1, <1>5 DEF TimerFires
  <2>2. [pg EXCEPT !.retried = TRUE] \in PageType /\ Kept([pg EXCEPT !.retried = TRUE])
    BY <1>1 DEF PageType, Kept
  <2>3. Good(link'[p], page'[p], server', p)
    BY <1>4, <2>1, <2>2, GoodClosed
  <2>4. l.phase # "listening"
    BY <1>1, <1>5 DEF TimerFires, Wired
  <2> QED BY <2>1, <2>3, <2>4, OnePage, JobsStill
<1>6. CASE Refused(p)
  <2>1. /\ \A q \in Page \ {p} : link'[q] = link[q] /\ page'[q] = page[q]
        /\ link'[p] = NoLink /\ page'[p] = Disconnected(pg)
        /\ server' = server /\ work' = work /\ l.client = "opening"
    BY <1>1, <1>6 DEF Refused
  <2>2. Good(link'[p], page'[p], server', p)
    BY <1>3, <2>1, GoodClosed
  <2> QED BY <1>2, <2>1, <2>2, OnePage, JobsStill
<1>7. CASE Accept(p)
  <2>1. /\ \A q \in Page \ {p} : link'[q] = link[q] /\ page'[q] = page[q]
        /\ link'[p] = [l EXCEPT !.client = "open", !.phase = "listing"] /\ page'[p] = pg
        /\ server'.style = server.style /\ server'.size = server.size
        /\ server'.controller = Register(p) /\ work' = work /\ l.client = "opening"
    BY <1>1, <1>7 DEF Accept, ServerType
  <2>2. \A q \in Page \ {p} : q = server'.controller => q = server.controller
    BY <2>1 DEF Register
  <2>3. Good(link'[p], page'[p], server', p)
    <3>1. /\ link'[p].client = "open" /\ link'[p].phase = "listing"
          /\ link'[p].up = l.up /\ link'[p].down = l.down
      BY <1>1, <2>1 DEF LinkType
    <3>2. ~Greeted(l) /\ ~Greeted(link'[p])
      BY <1>1, <2>1, <3>1 DEF Wired, Greeted
    <3> QED BY <1>1, <1>2, <2>1, <3>1, <3>2 DEF Good, Sound, Wired, StyleOK, SizeOK
  <2> QED BY <1>2, <2>1, <2>2, <2>3, OnePage, JobsStill
<1>8. CASE ListForGreeting(p)
  <2>1. /\ \A q \in Page \ {p} : link'[q] = link[q] /\ page'[q] = page[q]
        /\ link'[p].client = l.client /\ link'[p].phase = "greeting"
        /\ link'[p].up = l.up /\ link'[p].down = l.down /\ page'[p] = pg
        /\ server' = server /\ work' = work /\ l.phase = "listing"
    BY <1>1, <1>8 DEF ListForGreeting, LinkType
  <2>2. Greeted(link'[p]) <=> Greeted(l)
    BY <2>1 DEF Greeted
  <2>3. Good(link'[p], page'[p], server', p)
    BY <1>1, <2>1, <2>2 DEF Good, Sound, Wired, StyleOK, SizeOK
  <2> QED BY <2>1, <2>3, OnePage, JobsStill
<1>9. CASE Greet(p)
  <2> DEFINE w == [kind |-> "hello", style |-> server.style, list |-> l.list, active |-> l.active]
  <2>1. w \in Word /\ w.kind = "hello" /\ w.style = server.style
    BY <1>1, WordTypes DEF ServerType, LinkType
  <2>2. /\ link'[p].client = l.client /\ link'[p].phase = "listening"
        /\ link'[p].up = l.up /\ link'[p].down = Append(l.down, w) /\ l.phase = "greeting"
        /\ l.down \in Seq(Word)
    BY <1>1, <1>9 DEF Greet, LinkType
  <2>3. /\ \A q \in Page \ {p} : link'[q] = link[q] /\ page'[q] = page[q]
        /\ page'[p] = pg /\ server' = server /\ work' = work
    BY <1>1, <1>9 DEF Greet
  <2> HIDE DEF w
  <2>4. Greeted(link'[p]) /\ LastStyle(link'[p].down, server.style)
    BY <2>1, <2>2, AppendSilent, AppendStyle DEF Greeted, StyleWords
  <2>5. Good(link'[p], page'[p], server', p)
    BY <1>1, <2>2, <2>3, <2>4 DEF Good, Sound, Wired, StyleOK, SizeOK
  <2> QED BY <2>2, <2>3, <2>5, OnePage, JobsStill
<1>10. CASE LostEarly(p)
  <2>1. /\ \A q \in Page \ {p} : link'[q] = link[q] /\ page'[q] = page[q]
        /\ link'[p].client = l.client /\ link'[p].phase = l.phase /\ link'[p].down = l.down
        /\ page'[p] = pg /\ server' = server /\ work' = work /\ l.phase \in {"listing", "greeting"}
    BY <1>1, <1>10 DEF LostEarly, LinkType
  <2>2. (Greeted(link'[p]) <=> Greeted(l)) /\ l.client = "open"
    BY <1>1, <2>1 DEF Greeted, Wired
  <2>3. Good(link'[p], page'[p], server', p)
    BY <1>1, <2>1, <2>2 DEF Good, Sound, Wired, StyleOK, SizeOK
  <2> QED BY <2>1, <2>3, OnePage, JobsStill
<1>11. CASE Faults(p)
  <2>1. /\ \A q \in Page \ {p} : link'[q] = link[q] /\ page'[q] = page[q]
        /\ server'.style = server.style /\ server'.size = server.size
        /\ server'.controller = server.controller /\ work' = Orphaned({p})
    BY <1>1, <1>11 DEF Faults, Drop, Resubscribe, Reload, Unregister, ServerType
  <2>2. \/ link'[p] = NoLink /\ page'[p] = Disconnected(pg)
        \/ link'[p] = Opening /\ page'[p] = Connecting(pg)
        \/ link'[p] = Opening /\ page'[p] = FreshPage
    BY <1>1, <1>11 DEF Faults, Drop, Resubscribe, Reload
  <2>3. Kept(FreshPage) /\ FreshPage.status # "connected" /\ ~FreshPage.timer
    BY DEF FreshPage, Kept, NoEditor
  <2>4. Good(link'[p], page'[p], server', p)
    BY <1>1, <1>3, <1>4, <2>2, <2>3, GoodClosed
  <2> QED BY <2>1, <2>4, OnePage, JobsOrphanedHeard
<1> QED BY <1>5, <1>6, <1>7, <1>8, <1>9, <1>10, <1>11 DEF Connects

\* The page: words that arrive, the resize timer, and the person.
LEMMA PageStep ==
  ASSUME Inv, NEW p \in Page, Deliver(p) \/ ResizeTimer(p) \/ Person(p)
  PROVE  AllGood' /\ JobsHeard'
<1> DEFINE l == link[p]
           pg == page[p]
<1>1. /\ link \in [Page -> LinkType] /\ page \in [Page -> PageType]
      /\ l \in LinkType /\ pg \in PageType /\ Good(l, pg, server, p)
      /\ Wired(l, pg) /\ Kept(pg) /\ StyleOK(l, pg, server, p) /\ SizeOK(l, pg, server, p)
  BY DEF Inv, TypeOK, AllGood, Good, Sound
\* What all these steps have in common.
<1>2. /\ server' = server /\ work' = work
      /\ \A q \in Page \ {p} : link'[q] = link[q] /\ page'[q] = page[q]
  BY <1>1 DEF Deliver, ResizeTimer, Person, ChooseStyle, SaveProfile, ResizeWindow, SelectProfile,
              Launch, DeleteProfile, EditProfile, CreateProfile, CancelEdit, Says
<1>3. SUFFICES Good(link'[p], page'[p], server, p) /\ link'[p].phase = l.phase
  <2>1. AllGood'
    BY <1>2, <1>3, OnePage
  <2>2. \A q \in Page : link'[q].phase = link[q].phase
    BY <1>2, <1>3
  <2> QED BY <1>2, <2>1, <2>2, JobsStill
\* The person says something that is not about the size.
<1>4. ASSUME NEW w \in Said, w.kind \notin SizeWords, Says(p, w), Open(p), page'[p] = pg
      PROVE  Good(link'[p], page'[p], server, p) /\ link'[p].phase = l.phase
  <2>1. link'[p] = [l EXCEPT !.up = Append(@, w)] /\ l.client = "open"
    BY <1>1, <1>4 DEF Says, Open
  <2>2. Good([l EXCEPT !.up = Append(@, w)], pg, server, p)
    BY <1>1, <1>4, <2>1, GoodSays
  <2>3. link'[p].phase = l.phase
    BY <1>1, <2>1 DEF LinkType
  <2> QED BY <1>4, <2>1, <2>2, <2>3
<1>5. CASE Deliver(p)
  <2> DEFINE w == Head(l.down)
             m == [l EXCEPT !.down = Tail(@)]
  <2>1. l.down # <<>> /\ m \in LinkType
    BY <1>1, <1>5, LinkTypes DEF Deliver
  <2>2. IF Resends(pg, w)
        THEN Good([m EXCEPT !.up = Append(@, SizeWord(pg))], Resized(Shown(pg, w)), server, p)
        ELSE Good(m, Shown(pg, w), server, p)
    BY <1>1, <2>1, GoodDelivered
  <2>3. CASE Resends(pg, w)
    <3>1. /\ page'[p] = Resized(Shown(pg, w))
          /\ link'[p] = [m EXCEPT !.up = Append(@, SizeWord(pg))]
      BY <1>1, <1>5, <2>3 DEF Deliver, LinkType
    <3>2. link'[p].phase = l.phase
      BY <1>1, <2>1, <3>1 DEF LinkType
    <3> QED BY <2>2, <2>3, <3>1, <3>2
  <2>4. CASE ~Resends(pg, w)
    <3>1. page'[p] = Shown(pg, w) /\ link'[p] = m
      BY <1>1, <1>5, <2>4 DEF Deliver
    <3>2. link'[p].phase = l.phase
      BY <1>1, <3>1 DEF LinkType
    <3> QED BY <2>2, <2>4, <3>1, <3>2
  <2> QED BY <2>3, <2>4
<1>6. CASE ResizeTimer(p)
  <2>1. CASE pg.size # pg.sent /\ Open(p)
    <3>1. /\ page'[p] = Resized(pg) /\ link'[p] = [l EXCEPT !.up = Append(@, SizeWord(pg))]
          /\ l.client = "open"
      BY <1>1, <1>6, <2>1 DEF ResizeTimer, Says, Open
    <3>2. Good([l EXCEPT !.up = Append(@, SizeWord(pg))], Resized(pg), server, p)
      BY <1>1, <3>1, GoodSaysSize
    <3>3. link'[p].phase = l.phase
      BY <1>1, <3>1 DEF LinkType
    <3> QED BY <3>1, <3>2, <3>3
  <2>2. CASE ~(pg.size # pg.sent /\ Open(p))
    <3>1. page'[p] = [pg EXCEPT !.resizing = FALSE] /\ link'[p] = l
      BY <1>1, <1>6, <2>2 DEF ResizeTimer
    <3>2. pg.status = "connected" => pg.sent = pg.size
      BY <1>1, <2>2 DEF Wired, Open
    <3>3. Good(link'[p], page'[p], server, p)
      BY <1>1, <3>1, <3>2 DEF Good, Sound, Wired, Kept, StyleOK, SizeOK, PageType
    <3> QED BY <3>1, <3>3
  <2> QED BY <2>1, <2>2
<1>7. ASSUME NEW s \in Style, ChooseStyle(p, s)
      PROVE  Good(link'[p], page'[p], server, p) /\ link'[p].phase = l.phase
  <2> DEFINE w == [kind |-> "setStyle", style |-> s]
  <2>1. page'[p] = [pg EXCEPT !.style = s, !.own = TRUE]
    BY <1>1, <1>7 DEF ChooseStyle
  <2>2. /\ Wired(l, page'[p]) /\ Kept(page'[p]) /\ SizeOK(l, page'[p], server, p)
        /\ page'[p].own
    BY <1>1, <2>1 DEF Wired, Kept, SizeOK, PageType
  <2>3. CASE Open(p)
    <3>1. w \in Said /\ w.kind = "setStyle"
      BY SaidTypes
    <3>2. link'[p] = [l EXCEPT !.up = Append(@, w)]
      BY <1>1, <1>7, <2>3 DEF ChooseStyle, Says
    <3> HIDE DEF w
    <3>3. /\ link'[p].client = l.client /\ link'[p].phase = l.phase
          /\ link'[p].up = Append(l.up, w) /\ link'[p].down = l.down /\ l.up \in Seq(Said)
      BY <1>1, <3>2 DEF LinkType
    <3>4. /\ ~Silent(link'[p].up, {"setStyle"})
          /\ Silent(l.up, SizeWords) => Silent(link'[p].up, SizeWords)
          /\ \A x : LastSize(l.up, x) => LastSize(link'[p].up, x)
          /\ Greeted(link'[p]) <=> Greeted(l)
      BY <3>1, <3>3, AppendSilent, AppendSize DEF SizeWords, Greeted
    <3>5. l.client = "open"
      BY <2>3 DEF Open
    <3>6. Sound(link'[p], page'[p], server, p)
      BY <2>2, <3>3, <3>4, <3>5 DEF Sound, Wired, SizeOK
    <3>7. StyleOK(link'[p], page'[p], server, p)
      BY <1>1, <2>2, <3>3, <3>4 DEF StyleOK
    <3> QED BY <3>3, <3>6, <3>7 DEF Good
  <2>4. CASE ~Open(p)
    <3>1. link'[p] = l /\ l.phase # "listening"
      BY <1>1, <1>7, <2>4 DEF ChooseStyle, Wired, Open
    <3> QED BY <2>2, <3>1 DEF Good, Sound, StyleOK
  <2> QED BY <2>3, <2>4
<1>8. ASSUME NEW s \in Style, SaveProfile(p, s)
      PROVE  Good(link'[p], page'[p], server, p) /\ link'[p].phase = l.phase
  <2> DEFINE w == [kind |-> "saveProfile", id |-> pg.editing.id, style |-> s]
  <2>1. w \in Said /\ w.kind \notin SizeWords
    <3>1. pg.editing.id \in Chosen
      BY <1>1 DEF PageType, EditorType
    <3> QED BY <3>1, SaidTypes DEF SizeWords
  <2>2. Says(p, w) /\ Open(p) /\ page'[p] = pg
    BY <1>8 DEF SaveProfile
  <2> HIDE DEF w
  <2> QED BY <2>1, <2>2, <1>4
<1>9. ASSUME NEW s \in Size, ResizeWindow(p, s)
      PROVE  Good(link'[p], page'[p], server, p) /\ link'[p].phase = l.phase
  <2>1. link'[p] = l /\ page'[p] = [pg EXCEPT !.size = s, !.resizing = TRUE]
    BY <1>1, <1>9 DEF ResizeWindow
  <2> QED BY <1>1, <2>1 DEF Good, Sound, Wired, Kept, StyleOK, SizeOK, PageType
<1>10. ASSUME NEW id \in ProfileId \cup {None}, SelectProfile(p, id)
       PROVE  Good(link'[p], page'[p], server, p) /\ link'[p].phase = l.phase
  <2> DEFINE w == [kind |-> "setActiveProfile", id |-> id]
  <2>1. w \in Said /\ w.kind \notin SizeWords
    BY SaidTypes DEF SizeWords, Chosen
  <2>2. Says(p, w) /\ Open(p) /\ page'[p] = pg
    BY <1>10 DEF SelectProfile, Controls
  <2> HIDE DEF w
  <2> QED BY <2>1, <2>2, <1>4
<1>11. CASE Launch(p)
  <2> DEFINE w == [kind |-> "launchSession", style |-> pg.style]
  <2>1. w \in Said /\ w.kind \notin SizeWords
    <3>1. pg.style \in Style
      BY <1>1 DEF PageType
    <3> QED BY <3>1, SaidTypes DEF SizeWords
  <2>2. Says(p, w) /\ Open(p) /\ page'[p] = pg
    BY <1>11 DEF Launch, Controls
  <2> HIDE DEF w
  <2> QED BY <2>1, <2>2, <1>4
<1>12. CASE DeleteProfile(p)
  <2> DEFINE w == [kind |-> "deleteProfile", id |-> pg.active]
  <2>1. w \in Said /\ w.kind \notin SizeWords
    <3>1. pg.active \in ProfileId
      BY <1>1, <1>12 DEF DeleteProfile, PageType, Chosen
    <3> QED BY <3>1, SaidTypes DEF SizeWords
  <2>2. Says(p, w) /\ Open(p) /\ page'[p] = pg
    BY <1>12 DEF DeleteProfile, Controls
  <2> HIDE DEF w
  <2> QED BY <2>1, <2>2, <1>4
<1>13. CASE EditProfile(p)
  <2> DEFINE w == [kind |-> "getProfile", id |-> pg.active]
             asking == [pg EXCEPT !.pending = pg.active, !.asked = pg.active,
                                  !.editing = [kind |-> "loading", id |-> None]]
  <2>1. w \in Said /\ w.kind \notin SizeWords
    <3>1. pg.active \in ProfileId
      BY <1>1, <1>13 DEF EditProfile, PageType, Chosen
    <3> QED BY <3>1, SaidTypes DEF SizeWords
  <2>2. /\ link'[p] = [l EXCEPT !.up = Append(@, w)] /\ l.client = "open" /\ page'[p] = asking
    BY <1>1, <1>13 DEF EditProfile, Controls, Says, Open
  <2> HIDE DEF w
  <2>3. Good(l, asking, server, p)
    BY <1>1 DEF Good, Sound, Wired, Kept, StyleOK, SizeOK, PageType
  <2> HIDE DEF asking
  <2>4. Good([l EXCEPT !.up = Append(@, w)], asking, server, p)
    BY <1>1, <2>1, <2>2, <2>3, GoodSays
  <2>5. link'[p].phase = l.phase
    BY <1>1, <2>2 DEF LinkType
  <2> QED BY <2>2, <2>4, <2>5
<1>14. CASE CreateProfile(p) \/ CancelEdit(p)
  <2>1. /\ link'[p] = l
        /\ \/ page'[p] = [pg EXCEPT !.editing = [kind |-> "new", id |-> None]]
           \/ page'[p] = [pg EXCEPT !.editing = NoEditor, !.pending = None, !.asked = None]
    BY <1>1, <1>14 DEF CreateProfile, CancelEdit
  <2>2. CASE page'[p] = [pg EXCEPT !.editing = [kind |-> "new", id |-> None]]
    BY <1>1, <2>1, <2>2 DEF Good, Sound, Wired, Kept, StyleOK, SizeOK, PageType, NoEditor
  <2>3. CASE page'[p] = [pg EXCEPT !.editing = NoEditor, !.pending = None, !.asked = None]
    BY <1>1, <2>1, <2>3 DEF Good, Sound, Wired, Kept, StyleOK, SizeOK, PageType, NoEditor
  <2> QED BY <2>1, <2>2, <2>3
<1> QED BY <1>5, <1>6, <1>7, <1>8, <1>9, <1>10, <1>11, <1>12, <1>13, <1>14 DEF Person

\* The server hears one word.
LEMMA ListeningStep ==
  ASSUME Inv, NEW p \in Page, Listening(p)
  PROVE  AllGood' /\ JobsHeard'
<1> DEFINE l == link[p]
           pg == page[p]
           m == [l EXCEPT !.up = Tail(@)]
           w == Head(l.up)
<1>1. /\ link \in [Page -> LinkType] /\ page \in [Page -> PageType] /\ server \in ServerType
      /\ l \in LinkType /\ pg \in PageType /\ Good(l, pg, server, p)
      /\ l.up # <<>> /\ l.phase = "listening"
      /\ Consumed(p) \in [Page -> LinkType] /\ m.phase = l.phase /\ m.client = l.client
      /\ w \in Said
  <2>1. l.up # <<>> /\ l.phase = "listening"
    BY DEF Listening, Refuse, SetStyle, ResizePty, LaunchSession, BeginWork, Heard
  <2>2. link \in [Page -> LinkType] /\ l \in LinkType
    BY DEF Inv, TypeOK
  <2>3. m.phase = l.phase /\ m.client = l.client
    BY <2>2 DEF LinkType
  <2> QED BY <2>1, <2>2, <2>3, ConsumedTypes DEF Inv, TypeOK, AllGood
<1>2. page' = page /\ Consumed(p)[p] = m /\ \A q \in Page \ {p} : Consumed(p)[q] = link[q]
  BY <1>1 DEF Consumed, Listening, Refuse, SetStyle, ResizePty, LaunchSession, BeginWork
<1>3. (p = server.controller => w.kind # "resizePty") => Sound(m, pg, server, p)
  BY <1>1, GoodHeard
<1> HIDE DEF m
<1>4. ASSUME link' = Consumed(p), work' = work, server'.style = server.style,
             server'.controller = server.controller, server'.size = server.size \/ p = server.controller,
             Good(m, pg, server', p)
      PROVE  AllGood' /\ JobsHeard'
  <2>1. \A q \in Page \ {p} : link'[q] = link[q] /\ page'[q] = page[q]
    BY <1>2, <1>4
  <2>2. link'[p] = m /\ page'[p] = pg
    BY <1>2, <1>4
  <2>3. AllGood'
    BY <1>4, <2>1, <2>2, OnePage
  <2>4. \A q \in Page : link'[q].phase = link[q].phase
    BY <1>1, <2>1, <2>2
  <2> QED BY <1>4, <2>3, <2>4, JobsStill
<1>5. ASSUME NEW v \in Word, v.kind \in {"style", "ptyRestart"}, link' = Told(Consumed(p), v),
             work' = work, server'.style = v.style, server'.size = server.size,
             server'.controller = server.controller, w.kind # "resizePty"
      PROVE  AllGood' /\ JobsHeard'
  <2>1. ASSUME NEW q \in Page
        PROVE  /\ Consumed(p)[q].client = link[q].client /\ Consumed(p)[q].phase = link[q].phase
               /\ Sound(Consumed(p)[q], page[q], server, q)
               /\ Consumed(p)[q].client # "open" => Consumed(p)[q] = link[q]
    <3>1. CASE q = p
      <4>1. l.client = "open"
        BY <1>1 DEF Good, Sound, Wired
      <4> QED BY <1>1, <1>2, <1>3, <1>5, <3>1, <4>1
    <3>2. CASE q # p
      <4>1. Sound(link[q], page[q], server, q)
        BY DEF Inv, AllGood, Good
      <4> QED BY <1>2, <3>2, <4>1
    <3> QED BY <3>1, <3>2
  <2>2. AllGood' /\ \A q \in Page : link'[q].phase = link[q].phase
    BY <1>1, <1>2, <1>5, <2>1, ToldStyle
  <2> QED BY <1>5, <2>2, JobsStill
<1>6. CASE Refuse(p)
  <2>1. link' = Consumed(p) /\ work' = work /\ server' = server /\ p # server.controller
    BY <1>6 DEF Refuse, IsController
  <2>2. Good(m, pg, server, p)
    BY <1>1, <2>1, GoodHeard DEF m
  <2> QED BY <2>1, <2>2, <1>4
<1>7. CASE SetStyle(p)
  <2> DEFINE v == [kind |-> "style", style |-> w.style]
  <2>1. w.kind = "setStyle" /\ link' = Told(Consumed(p), v) /\ work' = work
        /\ server' = [server EXCEPT !.style = w.style]
    BY <1>7 DEF SetStyle, Heard
  <2>2. v \in Word /\ v.kind = "style" /\ v.style = w.style
    BY <1>1, <2>1, SaidFields, WordTypes
  <2>3. server'.style = w.style /\ server'.size = server.size /\ server'.controller = server.controller
    BY <1>1, <2>1 DEF ServerType
  <2> HIDE DEF v, w
  <2> QED BY <2>1, <2>2, <2>3, <1>5
<1>8. CASE LaunchSession(p)
  <2> DEFINE v == RestartTold(w.style)
  <2>1. /\ w.kind = "launchSession" /\ link' = Told(Consumed(p), v) /\ work' = work
        /\ \E runs : server' = [server EXCEPT !.style = w.style, !.running = runs]
    BY <1>8 DEF LaunchSession, Heard
  <2>2. v \in Word /\ v.kind = "ptyRestart" /\ v.style = w.style
    BY <1>1, <2>1, SaidFields, WordTypes DEF RestartTold
  <2>3. server'.style = w.style /\ server'.size = server.size /\ server'.controller = server.controller
    BY <1>1, <2>1 DEF ServerType
  <2> HIDE DEF v, w
  <2> QED BY <2>1, <2>2, <2>3, <1>5
<1>9. CASE ResizePty(p)
  <2>1. /\ w.kind = "resizePty" /\ link' = Consumed(p) /\ work' = work /\ p = server.controller
        /\ server' = [server EXCEPT !.size = IF w.size \in Fitting THEN w.size ELSE @]
    BY <1>9 DEF ResizePty, Heard, IsController
  <2>2. /\ server'.style = server.style /\ server'.controller = server.controller
        /\ w.size \in Fitting => server'.size = w.size
    BY <1>1, <2>1 DEF ServerType
  <2>3. Good(m, pg, server', p)
    BY <1>1, <2>1, <2>2, GoodHeard DEF m
  <2> QED BY <2>1, <2>2, <2>3, <1>4
<1>10. CASE BeginWork(p)
  <2>1. /\ w.kind \in Stores \cup {"getProfile"} /\ link' = Consumed(p) /\ server' = server
        /\ work' = Append(work, Job(p, w))
    BY <1>10 DEF BeginWork, Heard
  <2>2. w.kind \notin {"resizePty", "setStyle"}
    BY <2>1 DEF Stores
  <2>3. Good(m, pg, server, p)
    BY <1>1, <2>2, GoodHeard DEF m
  <2>4. /\ \A q \in Page \ {p} : link'[q] = link[q] /\ page'[q] = page[q]
        /\ link'[p] = m /\ page'[p] = pg
    BY <1>2, <2>1
  <2>5. AllGood'
    BY <2>1, <2>3, <2>4, OnePage
  <2>6. \A q \in Page : link'[q].phase = link[q].phase
    BY <1>1, <2>4
  <2>7. Job(p, w).page = p
    BY DEF Job
  <2>8. ASSUME NEW i \in DOMAIN work', work'[i].live PROVE link'[work'[i].page].phase = "listening"
    <3> DEFINE j == Job(p, w)
    <3> HIDE DEF j
    <3>1. work \in Seq(JobType) /\ work' = Append(work, j)
      BY <2>1, JobPages DEF j
    <3>2. work'[i] = j \/ (i \in DOMAIN work /\ work'[i] = work[i])
      BY <3>1
    <3>3. CASE work'[i] = j
      BY <1>1, <2>6, <2>7, <3>3 DEF j
    <3>4. CASE i \in DOMAIN work /\ work'[i] = work[i]
      BY <2>6, <2>8, <3>4, JobPages DEF Inv, JobsHeard
    <3> QED BY <3>2, <3>3, <3>4
  <2> QED BY <2>5, <2>8 DEF JobsHeard
<1> QED BY <1>6, <1>7, <1>8, <1>9, <1>10 DEF Listening

\* A handler answers the page it works for.
LEMMA Answered ==
  ASSUME Inv, NEW i \in DOMAIN work, NEW w \in Word, w.kind \notin StyleWords, Reply(work[i], w),
         page' = page, server' = server
  PROVE  AllGood' /\ \A q \in Page : link'[q].phase = link[q].phase
<1>1. CASE ~work[i].live
  <2>1. link' = link
    BY <1>1 DEF Reply
  <2> QED BY <2>1 DEF Inv, AllGood
<1>2. CASE work[i].live
  <2>1. PICK p \in Page : p = work[i].page
    BY JobPages
  <2>2. link[p] \in LinkType /\ link \in [Page -> LinkType] /\ Good(link[p], page[p], server, p)
    BY DEF Inv, TypeOK, AllGood
  <2>3. link[p].client = "open"
    BY <1>2, <2>1, <2>2 DEF Inv, JobsHeard, Good, Sound, Wired
  <2>4. /\ link'[p] = [link[p] EXCEPT !.down = Append(@, w)]
        /\ \A q \in Page \ {p} : link'[q] = link[q] /\ page'[q] = page[q]
    BY <1>2, <2>1, <2>2 DEF Reply
  <2>5. Good([link[p] EXCEPT !.down = Append(@, w)], page[p], server, p)
    BY <2>2, <2>3, GoodHears
  <2>6. AllGood'
    BY <2>4, <2>5, OnePage
  <2>7. link'[p].phase = link[p].phase
    BY <2>2, <2>4 DEF LinkType
  <2> QED BY <2>4, <2>6, <2>7
<1> QED BY <1>1, <1>2

LEMMA WorkingStep ==
  ASSUME Inv, NEW i \in DOMAIN work, Handled(i)
  PROVE  AllGood' /\ JobsHeard'
<1> DEFINE job == work[i]
<1>1. JobOK(job) /\ job \in JobType /\ Jobs(work) /\ work \in Seq(JobType)
  BY DEF Inv, TypeOK, Jobs
\* A handler that awaits something else.
<1>2. ASSUME link' = link, page' = page, server'.style = server.style, server'.size = server.size,
             server'.controller = server.controller, DOMAIN work' = DOMAIN work,
             \A k \in DOMAIN work : work'[k].page = work[k].page /\ work'[k].live = work[k].live
      PROVE  AllGood' /\ JobsHeard'
  <2>1. ASSUME NEW q \in Page PROVE Good(link'[q], page'[q], server', q)
    <3>1. Good(link[q], page[q], server, q)
      BY DEF Inv, AllGood
    <3> QED BY <1>2, <3>1, GoodElsewhere
  <2> QED BY <1>2, <2>1 DEF AllGood, JobsHeard, Inv
<1>3. CASE Read(i)
  <2>1. PICK w \in Word : w.kind \notin StyleWords /\ Reply(job, w)
    <3>1. CASE job.id \in Stored(server.profiles)
      BY <1>3, <3>1, WordTypes DEF Read, StyleWords, Stored
    <3>2. CASE job.id \notin Stored(server.profiles)
      BY <1>3, <3>2, WordTypes DEF Read, StyleWords
    <3> QED BY <3>1, <3>2
  <2>2. AllGood' /\ \A q \in Page : link'[q].phase = link[q].phase
    BY <1>3, <2>1, Answered DEF Read
  <2> QED BY <1>3, <2>2, JobsRemoveHeard DEF Read
<1>4. CASE Throw(i)
  <2>1. AllGood' /\ \A q \in Page : link'[q].phase = link[q].phase
    BY <1>4, Answered, WordTypes DEF Throw, StyleWords
  <2> QED BY <1>4, <2>1, JobsRemoveHeard DEF Throw
<1>5. ASSUME NEW id \in ProfileId \cup {None}, Put(i, id) PROVE AllGood' /\ JobsHeard'
  <2>1. job.kind \in Stores
    BY <1>1, <1>5 DEF Put, JobOK, JobType
  <2>2. /\ server'.style = server.style /\ server'.size = server.size
        /\ server'.controller = server.controller
    <3>1. server \in ServerType
      BY DEF Inv, TypeOK
    <3>2. CASE job.kind = "saveProfile"
      <4>1. server' = [server EXCEPT !.profiles[id] = job.style]
        BY <1>5, <3>2 DEF Put
      <4> QED BY <3>1, <4>1 DEF ServerType
    <3>3. CASE job.kind = "deleteProfile"
      <4>1. server' = [server EXCEPT !.profiles[id] = None, !.active = IF @ = id THEN None ELSE @]
        BY <1>5, <3>3 DEF Put
      <4> QED BY <3>1, <4>1 DEF ServerType
    <3>4. CASE job.kind = "setActiveProfile"
      <4>1. server' = [server EXCEPT !.active = id]
        BY <1>5, <3>4 DEF Put
      <4> QED BY <3>1, <4>1 DEF ServerType
    <3> QED BY <2>1, <3>2, <3>3, <3>4 DEF Stores
  <2>3. /\ link' = link /\ page' = page /\ work' = [work EXCEPT ![i].step = "list", ![i].id = id]
    BY <1>5 DEF Put
  <2>4. /\ DOMAIN work' = DOMAIN work
        /\ \A k \in DOMAIN work : work'[k].page = work[k].page /\ work'[k].live = work[k].live
    BY <1>1, <2>3, JobPages DEF JobType
  <2> QED BY <1>2, <2>2, <2>3, <2>4
<1>6. CASE List(i)
  <2>1. /\ link' = link /\ page' = page /\ server' = server
        /\ work' = [work EXCEPT ![i].step = "tell", ![i].list = Stored(server.profiles),
                                ![i].active = server.active]
    BY <1>6 DEF List
  <2>2. /\ DOMAIN work' = DOMAIN work
        /\ \A k \in DOMAIN work : work'[k].page = work[k].page /\ work'[k].live = work[k].live
    BY <1>1, <2>1, JobPages DEF JobType
  <2> QED BY <1>2, <2>1, <2>2
<1>7. CASE Announce(i)
  <2>1. job.kind \in Stores /\ job.list \in SUBSET ProfileId /\ job.id \in Chosen /\ job.active \in Chosen
    BY <1>1, <1>7 DEF Announce, JobOK, JobType
  <2>2. page' = page /\ server' = server /\ work' = RemoveAt(work, i)
    BY <1>7 DEF Announce
  <2>3. PICK w \in Word : w.kind \notin StyleWords /\ (Reply(job, w) \/ link' = Told(link, w))
    <3>1. CASE job.kind = "saveProfile" /\ job.id \in job.list
      <4>1. link' = Told(link, [kind |-> "profileSaved", id |-> job.id, active |-> job.active])
        BY <1>7, <3>1 DEF Announce
      <4>2. [kind |-> "profileSaved", id |-> job.id, active |-> job.active] \in Word
        BY <2>1, <3>1, WordTypes
      <4> QED BY <4>1, <4>2 DEF StyleWords
    <3>2. CASE job.kind = "saveProfile" /\ job.id \notin job.list
      <4>1. Reply(job, [kind |-> "profileError"])
        BY <1>7, <3>2 DEF Announce
      <4> QED BY <4>1, WordTypes DEF StyleWords
    <3>3. CASE job.kind = "deleteProfile"
      <4>1. link' = Told(link, [kind |-> "profileDeleted", id |-> job.id, active |-> job.active])
        BY <1>7, <3>3 DEF Announce
      <4>2. job.id \in ProfileId
        BY <1>1, <3>3 DEF JobOK
      <4>3. [kind |-> "profileDeleted", id |-> job.id, active |-> job.active] \in Word
        BY <2>1, <4>2, WordTypes
      <4> QED BY <4>1, <4>3 DEF StyleWords
    <3>4. CASE job.kind = "setActiveProfile"
      <4>1. link' = Told(link, [kind |-> "profiles", list |-> job.list, active |-> job.id])
        BY <1>7, <3>4 DEF Announce
      <4>2. [kind |-> "profiles", list |-> job.list, active |-> job.id] \in Word
        BY <2>1, WordTypes
      <4> QED BY <4>1, <4>2 DEF StyleWords
    <3> QED BY <2>1, <3>1, <3>2, <3>3, <3>4 DEF Stores
  <2>4. AllGood' /\ \A q \in Page : link'[q].phase = link[q].phase
    BY <2>2, <2>3, Answered, Announced
  <2> QED BY <2>2, <2>4, JobsRemoveHeard
<1> QED BY <1>3, <1>4, <1>5, <1>6, <1>7 DEF Handled

LEMMA ServerStep ==
  ASSUME Inv, ServerStops \/ ServerStarts \/ RestartRefused \/ RestartRuns \/ QueuedRestart
  PROVE  AllGood' /\ JobsHeard'
<1>1. /\ link \in [Page -> LinkType] /\ page \in [Page -> PageType] /\ server \in ServerType
      /\ restart \in RestartType
  BY DEF Inv, TypeOK
<1>2. CASE ServerStops
  <2>1. ASSUME NEW q \in Page PROVE Good(link'[q], page'[q], server', q)
    <3>1. Good(link[q], page[q], server, q) /\ Kept(page[q]) /\ page[q] \in PageType
      BY <1>1 DEF Inv, AllGood, Good, Sound
    <3>2. CASE Open(q)
      <4>1. link'[q] = NoLink /\ page'[q] = Disconnected(page[q])
        BY <1>2, <3>2 DEF ServerStops
      <4>2. /\ Kept(Disconnected(page[q])) /\ Disconnected(page[q]).status # "connected"
            /\ Disconnected(page[q]).timer
        BY <3>1 DEF Disconnected, Kept, PageType
      <4> QED BY <4>1, <4>2, GoodClosed
    <3>3. CASE ~Open(q)
      <4>1. link'[q] = link[q] /\ page'[q] = page[q] /\ link[q].client # "open"
        BY <1>2, <3>3 DEF ServerStops, Open
      <4> QED BY <3>1, <4>1, GoodDeaf
    <3> QED BY <3>2, <3>3
  <2>2. JobsHeard'
    BY <1>2 DEF ServerStops, JobsHeard
  <2> QED BY <2>1, <2>2 DEF AllGood
<1>3. CASE ServerStarts
  <2>1. /\ server'.style = server.style /\ server'.size = server.size
        /\ server'.controller = server.controller
        /\ link' = link /\ page' = page /\ work' = work
    BY <1>1, <1>3 DEF ServerStarts, ServerType
  <2>2. ASSUME NEW q \in Page PROVE Good(link'[q], page'[q], server', q)
    <3>1. Good(link[q], page[q], server, q)
      BY DEF Inv, AllGood
    <3> QED BY <2>1, <3>1, GoodElsewhere
  <2> QED BY <2>1, <2>2, JobsStill DEF AllGood
<1>4. CASE RestartRefused \/ QueuedRestart
  BY <1>4 DEF RestartRefused, QueuedRestart, Inv, AllGood, JobsHeard
<1>5. CASE RestartRuns
  <2> DEFINE id == restart.id
             s  == IF id = None THEN EnvStyle ELSE server.profiles[id]
             v  == RestartTold(s)
  <2>1. s \in Style
    BY <1>1, <1>5, StyleAssumption DEF RestartRuns, Stored, ServerType, Chosen
  <2>2. /\ link' = Told(link, v) /\ page' = page /\ work' = work
        /\ \E runs : server' = [server EXCEPT !.style = s, !.running = runs]
    BY <1>5 DEF RestartRuns
  <2> HIDE DEF s
  <2>3. v \in Word /\ v.kind = "ptyRestart" /\ v.style = s
    BY <2>1, WordTypes DEF RestartTold
  <2>4. server'.style = s /\ server'.size = server.size /\ server'.controller = server.controller
    BY <1>1, <2>2 DEF ServerType
  <2> HIDE DEF v
  <2>5. \A q \in Page : Sound(link[q], page[q], server, q)
    BY DEF Inv, AllGood, Good
  <2>6. AllGood' /\ \A q \in Page : link'[q].phase = link[q].phase
    BY <1>1, <2>2, <2>3, <2>4, <2>5, ToldStyle
  <2> QED BY <2>2, <2>6, JobsStill
<1> QED BY <1>2, <1>3, <1>4, <1>5

-----------------------------------------------------------------------------
(* The theorems *)

LEMMA InvInit == Init => Inv
<1> SUFFICES ASSUME Init PROVE Inv
  OBVIOUS
<1>1. TypeOK
  BY TypeInit
<1>2. ASSUME NEW q \in Page PROVE Good(link[q], page[q], server, q)
  <2>1. Kept(FreshPage) /\ FreshPage.status # "connected" /\ ~FreshPage.timer
    BY DEF FreshPage, Kept, NoEditor
  <2>2. link[q] = Opening /\ page[q] = FreshPage
    BY DEF Init
  <2> QED BY <2>1, <2>2, GoodClosed
<1>3. JobsHeard
  BY DEF Init, JobsHeard
<1> QED BY <1>1, <1>2, <1>3 DEF Inv, AllGood

LEMMA InvStep ==
  ASSUME Inv, [Next]_vars
  PROVE  Inv'
<1>1. TypeOK'
  BY TypeStep DEF Inv
<1>2. CASE Next
  <2>1. AllGood' /\ JobsHeard'
    BY <1>2, SocketStep, PageStep, ListeningStep, WorkingStep, ServerStep DEF Next, Working
  <2> QED BY <1>1, <2>1 DEF Inv
<1>3. CASE UNCHANGED vars
  BY <1>1, <1>3 DEF vars, Inv, AllGood, JobsHeard
<1> QED BY <1>2, <1>3

\* The invariant of the sockets (GatewayInv, StyleIsShared and SentArrives) is
\* inductive, for any pages, profiles, styles and sizes.
THEOREM GatewayInvariant == Spec => []Inv
<1> QED BY InvInit, InvStep, PTL DEF Spec

\* A page always has one way back to the server; what it says once it shows that
\* it is connected is heard; and an editor shows the profile last asked for.
THEOREM GatewaySafety == Spec => []GatewayInv
<1>1. Inv => GatewayInv
  BY InvariantByPage DEF Inv
<1> QED BY <1>1, GatewayInvariant, PTL

\* Pages and server agree on the style and on the size of the terminal as soon
\* as what is under way has arrived.
THEOREM AgreementSafety == Spec => []PagesAgree
<1>1. Inv => PagesAgree
  BY AgreementByPage DEF Inv
<1> QED BY <1>1, GatewayInvariant, PTL

\* Control of the terminal passes only from nobody, or from a browser to the
\* window, as long as the server lives (pty-owner.ts).
THEOREM ControlStays == Spec => ControllerStays
<1> DEFINE Move == server.up /\ server'.up /\ server.controller # server'.controller =>
                     \/ server.controller = None
                     \/ server.controller \in Web /\ server'.controller \in Desktop
<1>1. ASSUME TypeOK, [Next]_vars PROVE [Move]_vars
  <2>1. server \in ServerType
    BY <1>1 DEF TypeOK
  <2>2. ASSUME NEW p \in Page, Accept(p) PROVE Move
    <3>1. server'.controller = Register(p)
      BY <2>1, <2>2 DEF Accept, ServerType
    <3> QED BY <3>1 DEF Register
  <2>3. ASSUME NEW p \in Page,
               \/ TimerFires(p) \/ Refused(p) \/ ListForGreeting(p) \/ Greet(p) \/ LostEarly(p)
               \/ Faults(p) \/ Listening(p) \/ Deliver(p) \/ ResizeTimer(p) \/ Person(p)
        PROVE  Move
    <3>1. server'.controller = server.controller
      BY <2>1, <2>3 DEF TimerFires, Refused, ListForGreeting, Greet, LostEarly, Faults, Drop,
           Resubscribe, Reload, Unregister, Listening, Refuse, SetStyle, ResizePty, LaunchSession,
           BeginWork, Deliver, ResizeTimer, Person, ChooseStyle, SaveProfile, ResizeWindow,
           SelectProfile, Launch, DeleteProfile, EditProfile, CreateProfile, CancelEdit, ServerType
    <3> QED BY <3>1
  <2>4. ASSUME NEW i \in DOMAIN work, Handled(i) PROVE Move
    <3>1. server'.controller = server.controller
      <4>1. CASE Read(i) \/ Throw(i) \/ List(i) \/ Announce(i)
        BY <4>1 DEF Read, Throw, List, Announce
      <4>2. ASSUME NEW id \in ProfileId \cup {None}, Put(i, id)
            PROVE  server'.controller = server.controller
        <5>0. work[i] \in JobType /\ JobOK(work[i])
          BY <1>1 DEF TypeOK, Jobs
        <5>1. work[i].kind \in {"saveProfile", "deleteProfile", "setActiveProfile"}
          <6>1. work[i].kind \in Stores \cup {"getProfile"}
            BY <5>0 DEF JobType
          <6>2. work[i].kind # "getProfile"
            BY <5>0, <4>2 DEF JobOK, Put
          <6> QED BY <6>1, <6>2 DEF Stores
        <5> QED BY <2>1, <4>2, <5>1 DEF Put, ServerType
      <4> QED BY <2>4, <4>1, <4>2 DEF Handled
    <3> QED BY <3>1
  <2>5. CASE ServerStops \/ ServerStarts \/ RestartRefused \/ RestartRuns \/ QueuedRestart
    BY <2>1, <2>5 DEF ServerStops, ServerStarts, RestartRefused, RestartRuns, QueuedRestart,
                      FreshServer, ServerType
  <2> QED BY <1>1, <2>2, <2>3, <2>4, <2>5 DEF Next, Connects, Working
<1> QED BY <1>1, TypeCorrect, PTL DEF Spec, ControllerStays
=============================================================================
