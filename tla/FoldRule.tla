------------------------------ MODULE FoldRule ------------------------------
(***************************************************************************)
(* What a fold over a sequence keeps.  A proof about a definition with     *)
(* FoldLeft instantiates this module with the step of the fold (which may  *)
(* depend on two parameters p and q) and with what every step keeps.       *)
(***************************************************************************)
EXTENDS Naturals, Sequences, SequencesExt, WellFoundedInduction, TLAPS

CONSTANTS
  Step(_, _, _, _),  \* Step(p, q, acc, elt)
  Good(_, _, _)      \* Good(p, q, acc)

Folded(p, q, base, seq) == FoldLeft(LAMBDA acc, elt : Step(p, q, acc, elt), base, seq)

Less == {ij \in Nat \X Nat : ij[1] < ij[2]}

\* Every set of numbers that is not empty has a least one.
LEMMA LeastNumber ==
  ASSUME NEW S, S \subseteq Nat, S # {}
  PROVE  \E m \in S : \A n \in S : m <= n
<1>1. IsWellFoundedOn(Less, Nat)
  BY NatLessThanWellFounded DEF OpToRel, Less
<1>2. \E m \in S : \A n \in S : ~(<<n, m>> \in Less)
  BY <1>1, WFMin
<1>3. \A m, n \in Nat : ~(<<n, m>> \in Less) => m =< n
  BY DEF Less
<1> QED BY <1>2, <1>3

\* Every bounded one has a greatest, which Max chooses.
LEMMA GreatestNumber ==
  ASSUME NEW S, NEW bound \in Nat, S \subseteq 1..bound, S # {}
  PROVE  /\ Max(S) \in S
         /\ \A n \in S : Max(S) >= n
<1> DEFINE T == {bound - n : n \in S}
<1>1. T \subseteq Nat /\ T # {}
  <2>1. \A n \in S : bound - n \in Nat
    OBVIOUS
  <2> QED BY <2>1
<1>2. PICK t \in T : \A u \in T : t <= u
  <2> HIDE DEF T
  <2> QED BY <1>1, LeastNumber
<1>5. PICK m \in S : t = bound - m
  OBVIOUS
<1>3. \A n \in S : m >= n
  BY <1>2, <1>5
<1> QED BY <1>3 DEF Max

\* The recursion that FoldLeft chooses a solution of.
Body(p, q, base, seq, iter, T) ==
  IF T = {} THEN base ELSE Step(p, q, iter[T \ {Max(T)}], seq[Max(T)])

Solves(p, q, base, seq, S, iter) ==
  iter = [T \in SUBSET S |-> Body(p, q, base, seq, iter, T)]

\* A fold is the value of the chosen solution at the whole domain.
LEMMA FoldIsSolution ==
  ASSUME NEW p, NEW q, NEW base, NEW seq
  PROVE  Folded(p, q, base, seq)
           = (CHOOSE iter : Solves(p, q, base, seq, DOMAIN seq, iter))[DOMAIN seq]
BY DEF Folded, FoldLeft, MapThenFoldSet, Solves, Body

\* A solution over m elements extends to one more.
LEMMA SolutionGrows ==
  ASSUME NEW p, NEW q, NEW base, NEW seq, NEW m \in Nat,
         NEW f, Solves(p, q, base, seq, 1..m, f)
  PROVE  \E g : Solves(p, q, base, seq, 1..(m + 1), g)
<1> DEFINE top == m + 1
           g == [T \in SUBSET (1..top) |-> IF top \in T THEN Step(p, q, f[T \ {top}], seq[top])
                                           ELSE f[T]]
<1>0. f = [T \in SUBSET (1..m) |-> Body(p, q, base, seq, f, T)]
  BY DEF Solves
<1>1. ASSUME NEW T \in SUBSET (1..top) PROVE g[T] = Body(p, q, base, seq, g, T)
  <2>1. CASE T = {}
    <3>1. g[T] = f[{}]
      BY <2>1
    <3>2. f[{}] = base
      BY <1>0 DEF Body
    <3> QED BY <2>1, <3>1, <3>2 DEF Body
  <2>2. CASE top \in T
    <3>1. Max(T) = top
      <4>1. top \in Nat
        OBVIOUS
      <4>2. Max(T) \in T /\ \A n \in T : Max(T) >= n
        BY <2>2, <4>1, GreatestNumber
      <4>3. Max(T) \in 1..top /\ Max(T) >= top
        BY <2>2, <4>2
      <4> HIDE DEF g
      <4> QED BY <4>1, <4>3
    <3>2. T \ {top} \in SUBSET (1..m) /\ T \ {top} \in SUBSET (1..top) /\ top \notin T \ {top}
      OBVIOUS
    <3>3. g[T \ {top}] = f[T \ {top}]
      BY <3>2
    <3>4. g[T] = Step(p, q, f[T \ {top}], seq[top])
      BY <2>2
    <3> HIDE DEF g, top
    <3> QED BY <2>2, <3>1, <3>3, <3>4 DEF Body
  <2>3. CASE T # {} /\ top \notin T
    <3>1. T \in SUBSET (1..m)
      BY <2>3
    <3>2. Max(T) \in T
      BY <2>3, <3>1, GreatestNumber
    <3>3. /\ T \ {Max(T)} \in SUBSET (1..top)
          /\ top \notin T \ {Max(T)}
      BY <2>3
    <3>4. g[T \ {Max(T)}] = f[T \ {Max(T)}]
      BY <3>3
    <3>5. g[T] = f[T]
      BY <2>3
    <3>6. f[T] = Body(p, q, base, seq, f, T)
      BY <1>0, <3>1
    <3> HIDE DEF g, top
    <3> QED BY <2>3, <3>4, <3>5, <3>6 DEF Body
  <2> QED BY <2>1, <2>2, <2>3
<1>2. g = [T \in SUBSET (1..top) |-> Body(p, q, base, seq, g, T)]
  <2>1. g = [T \in SUBSET (1..top) |-> g[T]]
    OBVIOUS
  <2> HIDE DEF g
  <2> QED BY <1>1, <2>1
<1> HIDE DEF g
<1> QED BY <1>2 DEF Solves

\* So the recursion has a solution over every number of elements.
LEMMA SolutionExists ==
  ASSUME NEW p, NEW q, NEW base, NEW seq, NEW n \in Nat
  PROVE  \E f : Solves(p, q, base, seq, 1..n, f)
<1> DEFINE Some(m) == \E f : Solves(p, q, base, seq, 1..m, f)
           bad == {m \in Nat : ~Some(m)}
<1>1. Some(0)
  <2> DEFINE f == [T \in SUBSET {} |-> base]
  <2>1. 1..0 = {}
    OBVIOUS
  <2>2. \A T \in SUBSET {} : Body(p, q, base, seq, f, T) = base
    BY DEF Body
  <2>3. f = [T \in SUBSET {} |-> Body(p, q, base, seq, f, T)]
    BY <2>2
  <2> HIDE DEF f
  <2> QED BY <2>1, <2>3 DEF Solves
<1>2. \A m \in Nat : Some(m) => Some(m + 1)
  BY SolutionGrows
<1> HIDE DEF Some
<1>3. bad = {}
  <2> SUFFICES ASSUME bad # {} PROVE FALSE
    OBVIOUS
  <2>0. bad \subseteq Nat
    OBVIOUS
  <2>1. PICK m \in bad : \A k \in bad : m <= k
    <3> HIDE DEF bad
    <3> QED BY <2>0, LeastNumber
  <2>2. m # 0
    BY <1>1
  <2>3. m - 1 \in Nat /\ m = (m - 1) + 1 /\ m - 1 \notin bad
    BY <2>1, <2>2
  <2> QED BY <1>2, <2>3
<1>4. Some(n)
  BY <1>3
<1> QED BY <1>4 DEF Some

\* What holds of the base and is kept by the step on every element of the
\* sequence holds of the fold.
LEMMA FoldKeeps ==
  ASSUME NEW p, NEW q, NEW base, NEW seq, NEW n \in Nat, DOMAIN seq = 1..n,
         Good(p, q, base),
         \A acc, i : i \in 1..n /\ Good(p, q, acc) => Good(p, q, Step(p, q, acc, seq[i]))
  PROVE  Good(p, q, Folded(p, q, base, seq))
<1> DEFINE iter == CHOOSE f : Solves(p, q, base, seq, 1..n, f)
           bad == {k \in 0..n : ~Good(p, q, iter[1..k])}
<1>1. Solves(p, q, base, seq, 1..n, iter)
  BY SolutionExists
<1>2. Folded(p, q, base, seq) = iter[1..n]
  BY FoldIsSolution
<1> HIDE DEF iter
<1>3. ASSUME NEW T \in SUBSET (1..n) PROVE iter[T] = Body(p, q, base, seq, iter, T)
  BY <1>1 DEF Solves
<1>4. Good(p, q, iter[1..0])
  <2>1. iter[{}] = base
    BY <1>3 DEF Body
  <2> QED BY <2>1
<1>5. ASSUME NEW k \in 0..n, k < n, Good(p, q, iter[1..k])
      PROVE  Good(p, q, iter[1..(k + 1)])
  <2> HIDE DEF bad
  <2>0. k \in Nat /\ k + 1 \in Nat /\ k + 1 <= n
    BY <1>5
  <2>5. k + 1 \in 1..n /\ k + 1 \in 1..(k + 1)
    BY <2>0
  <2>6. \A j \in 1..(k + 1) : j \in 1..n
    BY <2>0
  <2>1. 1..(k + 1) \in SUBSET (1..n) /\ 1..(k + 1) # {} /\ k + 1 \in 1..n
    BY <2>5, <2>6
  <2>2. Max(1..(k + 1)) = k + 1
    <3>1. k + 1 \in Nat /\ k + 1 \in 1..(k + 1)
      OBVIOUS
    <3>2. Max(1..(k + 1)) \in 1..(k + 1) /\ \A j \in 1..(k + 1) : Max(1..(k + 1)) >= j
      BY <3>1, GreatestNumber
    <3> QED BY <3>1, <3>2
  <2>3. (1..(k + 1)) \ {k + 1} = 1..k
    OBVIOUS
  <2>4. iter[1..(k + 1)] = Step(p, q, iter[1..k], seq[k + 1])
    BY <1>3, <2>1, <2>2, <2>3 DEF Body
  <2> QED BY <1>5, <2>1, <2>4
<1>6. bad = {}
  <2> SUFFICES ASSUME bad # {} PROVE FALSE
    OBVIOUS
  <2>0. bad \subseteq Nat
    OBVIOUS
  <2>1. PICK m \in bad : \A k \in bad : m <= k
    <3> HIDE DEF bad
    <3> QED BY <2>0, LeastNumber
  <2>2. m # 0
    BY <1>4
  <2>3. m - 1 \in 0..n /\ m - 1 < n /\ m = (m - 1) + 1 /\ m - 1 \notin bad
    BY <2>1, <2>2
  <2>4. Good(p, q, iter[1..(m - 1)])
    BY <2>3
  <2> QED BY <1>5, <2>3, <2>4
<1>7. Good(p, q, iter[1..n])
  BY <1>6
<1> QED BY <1>2, <1>7
=============================================================================
