--------------------------- MODULE SequenceLemmas ---------------------------
(***************************************************************************)
(* Facts about naturals, sequences and their helpers that the proofs about *)
(* the queues, journals and channels of the system share.                  *)
(*                                                                         *)
(* Induction is stated of a set instead of a predicate: a proof applies it *)
(* to the set of the numbers that have the property in question.           *)
(***************************************************************************)
EXTENDS SequencesExt, FiniteSetTheorems, WellFoundedInduction, SequenceTheorems, TLAPS

\* Induction on naturals: among the intervals 0..k that end outside of T, within a finite
\* one, there would be a smallest.
LEMMA NatSetInduction ==
  ASSUME NEW T, 0 \in T, \A n \in Nat : n \in T => n + 1 \in T
  PROVE  Nat \subseteq T
<1> SUFFICES ASSUME NEW n \in Nat, n \notin T PROVE FALSE
  OBVIOUS
<1> DEFINE F == {0..k : k \in {i \in 0..n : i \notin T}}
<1>1. F \subseteq FiniteSubsetsOf(0..n)
  <2> SUFFICES ASSUME NEW k \in 0..n PROVE 0..k \in FiniteSubsetsOf(0..n)
    OBVIOUS
  <2>1. IsFiniteSet(0..k)
    BY FS_Interval
  <2>2. 0..k \in SUBSET (0..n)
    OBVIOUS
  <2>3. QED BY <2>1, <2>2 DEF FiniteSubsetsOf
<1>2. n \in {i \in 0..n : i \notin T}
  OBVIOUS
<1>3. F # {}
  BY <1>2
<1>4. IsWellFoundedOn(StrictSubsetOrdering(0..n), FiniteSubsetsOf(0..n))
  BY FS_StrictSubsetOrderingWellFounded
<1> HIDE DEF F
<1>5. PICK x \in F : \A y \in F : <<y, x>> \notin StrictSubsetOrdering(0..n)
  BY <1>1, <1>3, <1>4, WFMin
<1> USE DEF F
<1>6. PICK m \in 0..n : m \notin T /\ x = 0..m
  OBVIOUS
<1>7. m > 0
  BY <1>6
<1>8. m - 1 \in 0..n /\ m - 1 \in Nat /\ (m - 1) + 1 = m
  BY <1>7
<1>9. m - 1 \notin T
  BY <1>6, <1>8
<1>10. 0..(m - 1) \in F
  BY <1>8, <1>9
<1>11. /\ 0..(m - 1) \subseteq 0..m /\ m \in 0..m /\ m \notin 0..(m - 1)
       /\ 0..m \subseteq 0..n /\ 0..(m - 1) \subseteq 0..n
  BY <1>6, <1>7, <1>8
<1>12. <<0..(m - 1), 0..m>> \in StrictSubsetOrdering(0..n)
  BY <1>11 DEF StrictSubsetOrdering
<1>13. QED BY <1>5, <1>6, <1>10, <1>12

\* A set of naturals that is not empty has a least element.
LEMMA LeastNatural ==
  ASSUME NEW I \in SUBSET Nat, I # {}
  PROVE  \E m \in I : \A k \in I : m <= k
<1> DEFINE T == {n \in Nat : \A k \in 0..n : k \notin I}
<1>1. ASSUME ~\E m \in I : \A k \in I : m <= k PROVE FALSE
  <2>1. 0 \in T
    BY <1>1
  <2>2. ASSUME NEW n \in Nat, n \in T PROVE n + 1 \in T
    <3>1. \A k \in I : n + 1 <= k
      BY <2>2
    <3>2. n + 1 \notin I
      BY <1>1, <3>1
    <3>3. QED BY <2>2, <3>2
  <2> HIDE DEF T
  <2>3. Nat \subseteq T
    BY <2>1, <2>2, NatSetInduction
  <2>4. PICK k \in I : TRUE
    OBVIOUS
  <2>5. k \in T /\ k \in 0..k
    BY <2>3
  <2>6. QED BY <2>5 DEF T
<1>2. QED BY <1>1

\* The minimum of a set of naturals that is not empty.
LEMMA MinIsLeast ==
  ASSUME NEW I \in SUBSET Nat, I # {}
  PROVE  Min(I) \in I /\ \A k \in I : Min(I) <= k
<1>1. \E m \in I : \A k \in I : m <= k
  BY LeastNatural
<1>2. QED BY <1>1 DEF Min

\* A sequence without one of its elements.
LEMMA RemovedAt ==
  ASSUME NEW S, NEW seq \in Seq(S), NEW i \in 1..Len(seq)
  PROVE  /\ RemoveAt(seq, i) \in Seq(S) /\ Len(RemoveAt(seq, i)) = Len(seq) - 1
         /\ \A j \in 1..(Len(seq) - 1) :
              RemoveAt(seq, i)[j] = IF j < i THEN seq[j] ELSE seq[j + 1]
<1> DEFINE a == SubSeq(seq, 1, i - 1)
           b == SubSeq(seq, i + 1, Len(seq))
<1>0. Len(seq) \in Nat
  BY LenProperties
<1>1. a \in Seq(S) /\ Len(a) = i - 1 /\ \A j \in 1..(i - 1) : a[j] = seq[j]
  BY <1>0, SubSeqProperties
<1>2. b \in Seq(S) /\ Len(b) = Len(seq) - i /\ \A j \in 1..(Len(seq) - i) : b[j] = seq[i + j]
  BY <1>0, SubSeqProperties
<1> HIDE DEF a, b
<1>3. /\ a \o b \in Seq(S) /\ Len(a \o b) = Len(a) + Len(b)
      /\ \A j \in 1..(Len(a) + Len(b)) : (a \o b)[j] = IF j <= Len(a) THEN a[j] ELSE b[j - Len(a)]
  BY <1>1, <1>2, ConcatProperties
<1>4. RemoveAt(seq, i) = a \o b
  BY DEF RemoveAt, a, b
<1>5. ASSUME NEW j \in 1..(Len(seq) - 1)
      PROVE  (a \o b)[j] = IF j < i THEN seq[j] ELSE seq[j + 1]
  <2>1. CASE j < i
    BY <1>0, <1>1, <1>2, <1>3, <2>1
  <2>2. CASE j >= i
    <3>1. j - (i - 1) \in 1..(Len(seq) - i) /\ i + (j - (i - 1)) = j + 1
      BY <1>0, <2>2
    <3>2. QED BY <1>0, <1>1, <1>2, <1>3, <2>2, <3>1
  <2>3. j < i \/ j >= i
    BY <1>0
  <2>4. QED BY <2>1, <2>2, <2>3
<1>6. Len(a) + Len(b) = Len(seq) - 1
  BY <1>0, <1>1, <1>2
<1>7. QED BY <1>3, <1>4, <1>5, <1>6

\* The place of an element in a sequence is a place where it is.
LEMMA FirstPlace ==
  ASSUME NEW S, NEW seq \in Seq(S), NEW T, \E i \in 1..Len(seq) : seq[i] \in T
  PROVE  LET i == SelectInSeq(seq, LAMBDA x : x \in T) IN
         i \in 1..Len(seq) /\ seq[i] \in T
<1> DEFINE I == {i \in 1..Len(seq) : seq[i] \in T}
<1>1. I # {} /\ I \in SUBSET Nat
  BY LenProperties
<1>2. SelectInSeq(seq, LAMBDA x : x \in T) = Min(I)
  BY <1>1 DEF SelectInSeq
<1>3. Min(I) \in I
  BY <1>1, MinIsLeast
<1>4. QED BY <1>2, <1>3

\* Removing an element leaves a sequence of the others, at most.
LEMMA RemovedFirst ==
  ASSUME NEW S, NEW seq \in Seq(S), NEW e
  PROVE  /\ RemoveFirst(seq, e) \in Seq(S)
         /\ ToSet(RemoveFirst(seq, e)) \subseteq ToSet(seq)
<1>1. CASE \E i \in 1..Len(seq) : seq[i] = e
  <2> DEFINE i == SelectInSeq(seq, LAMBDA x : x = e)
  <2>1. i \in 1..Len(seq)
    <3> DEFINE I == {j \in 1..Len(seq) : seq[j] = e}
    <3>1. I # {} /\ I \in SUBSET Nat
      BY <1>1, LenProperties
    <3>2. i = Min(I)
      BY <3>1 DEF SelectInSeq
    <3>3. Min(I) \in I
      BY <3>1, MinIsLeast
    <3>4. QED BY <3>2, <3>3
  <2>2. RemoveFirst(seq, e) = RemoveAt(seq, i)
    BY <1>1 DEF RemoveFirst
  <2> HIDE DEF i
  <2>3. /\ RemoveAt(seq, i) \in Seq(S) /\ Len(RemoveAt(seq, i)) = Len(seq) - 1
        /\ \A j \in 1..(Len(seq) - 1) :
              RemoveAt(seq, i)[j] = IF j < i THEN seq[j] ELSE seq[j + 1]
    BY <2>1, RemovedAt
  <2>4. /\ Len(seq) \in Nat /\ DOMAIN seq = 1..Len(seq)
        /\ DOMAIN RemoveAt(seq, i) = 1..(Len(seq) - 1)
    BY <2>3, LenProperties
  <2>5. \A j \in 1..(Len(seq) - 1) : j \in 1..Len(seq) /\ j + 1 \in 1..Len(seq)
    BY <2>4
  <2>6. ToSet(RemoveAt(seq, i)) \subseteq ToSet(seq)
    BY <2>3, <2>4, <2>5 DEF ToSet
  <2>7. QED BY <2>2, <2>3, <2>6
<1>2. CASE ~\E i \in 1..Len(seq) : seq[i] = e
  BY <1>2 DEF RemoveFirst
<1>3. QED BY <1>1, <1>2

\* A sequence of messages, each of which leads from one value to the next as R says.
Path(R, seq, a, b) ==
    \E v : /\ v[0] = a /\ v[Len(seq)] = b
           /\ \A i \in 1..Len(seq) : <<v[i - 1], seq[i], v[i]>> \in R

\* No messages lead nowhere.
LEMMA PathEmpty ==
  ASSUME NEW R, NEW a
  PROVE  Path(R, <<>>, a, a)
<1> DEFINE v == [i \in 0..0 |-> a]
<1>1. v[0] = a /\ Len(<<>>) = 0
  OBVIOUS
<1>2. 1..0 = {}
  OBVIOUS
<1> HIDE DEF v
<1>3. v[0] = a /\ v[Len(<<>>)] = a /\ \A i \in 1..Len(<<>>) : <<v[i - 1], <<>>[i], v[i]>> \in R
  BY <1>1, <1>2
<1>4. QED BY <1>3 DEF Path

\* A path that goes nowhere.
LEMMA PathStays ==
  ASSUME NEW R, NEW S, NEW seq \in Seq(S), NEW a, \A i \in 1..Len(seq) : <<a, seq[i], a>> \in R
  PROVE  Path(R, seq, a, a)
<1> DEFINE v == [i \in 0..Len(seq) |-> a]
<1>1. Len(seq) \in Nat
  BY LenProperties
<1>2. \A i \in 0..Len(seq) : v[i] = a
  OBVIOUS
<1>3. 0 \in 0..Len(seq) /\ \A i \in 1..Len(seq) : i \in 0..Len(seq) /\ i - 1 \in 0..Len(seq)
  BY <1>1
<1> HIDE DEF v
<1>4. v[0] = a /\ v[Len(seq)] = a /\ \A i \in 1..Len(seq) : <<v[i - 1], seq[i], v[i]>> \in R
  BY <1>1, <1>2, <1>3
<1>5. QED BY <1>4 DEF Path

\* What a relation allows, a wider one allows.
LEMMA PathWider ==
  ASSUME NEW R, NEW Q, R \subseteq Q, NEW seq, NEW a, NEW b, Path(R, seq, a, b)
  PROVE  Path(Q, seq, a, b)
BY DEF Path

\* The first message is read.
LEMMA PathHead ==
  ASSUME NEW R, NEW S, NEW seq \in Seq(S), seq # <<>>, NEW a, NEW b, Path(R, seq, a, b)
  PROVE  \E c : <<a, Head(seq), c>> \in R /\ Path(R, Tail(seq), c, b)
<1>1. /\ Len(seq) \in Nat /\ Len(seq) > 0 /\ Len(Tail(seq)) = Len(seq) - 1
      /\ Head(seq) = seq[1]
      /\ \A i \in 1..Len(Tail(seq)) : Tail(seq)[i] = seq[i + 1]
  BY HeadTailProperties, EmptySeq, LenProperties
<1>2. PICK v : /\ v[0] = a /\ v[Len(seq)] = b
               /\ \A i \in 1..Len(seq) : <<v[i - 1], seq[i], v[i]>> \in R
  BY DEF Path
<1> DEFINE w == [i \in 0..Len(Tail(seq)) |-> v[i + 1]]
           N == Len(Tail(seq))
<1>3. \A i \in 0..N : w[i] = v[i + 1]
  OBVIOUS
<1>4. w[0] = v[1] /\ w[N] = v[Len(seq)]
  BY <1>1, <1>3
<1> HIDE DEF w
<1>5. ASSUME NEW i \in 1..N PROVE <<w[i - 1], Tail(seq)[i], w[i]>> \in R
  <2>1. /\ i + 1 \in 1..Len(seq) /\ (i + 1) - 1 = i /\ i \in 0..N /\ i - 1 \in 0..N
        /\ (i - 1) + 1 = i
    BY <1>1
  <2>2. w[i - 1] = v[i] /\ w[i] = v[i + 1]
    BY <1>3, <2>1
  <2>3. <<v[(i + 1) - 1], seq[i + 1], v[i + 1]>> \in R
    BY <1>2, <2>1
  <2>4. QED BY <1>1, <2>1, <2>2, <2>3
<1>6. Path(R, Tail(seq), v[1], b)
  BY <1>2, <1>4, <1>5 DEF Path
<1>7. <<v[0], seq[1], v[1]>> \in R
  <2>1. 1 \in 1..Len(seq) /\ 1 - 1 = 0
    BY <1>1
  <2>2. QED BY <1>2, <2>1
<1>8. QED BY <1>1, <1>2, <1>6, <1>7

\* One path after the other.
LEMMA PathConcat ==
  ASSUME NEW R, NEW S, NEW x \in Seq(S), NEW y \in Seq(S), NEW a, NEW b, NEW c,
         Path(R, x, a, c), Path(R, y, c, b)
  PROVE  Path(R, x \o y, a, b)
<1>1. /\ Len(x) \in Nat /\ Len(y) \in Nat /\ Len(x \o y) = Len(x) + Len(y)
      /\ \A i \in 1..Len(x) + Len(y) : (x \o y)[i] = IF i <= Len(x) THEN x[i] ELSE y[i - Len(x)]
  BY ConcatProperties, LenProperties
<1>2. PICK v : /\ v[0] = a /\ v[Len(x)] = c
               /\ \A i \in 1..Len(x) : <<v[i - 1], x[i], v[i]>> \in R
  BY DEF Path
<1>3. PICK w : /\ w[0] = c /\ w[Len(y)] = b
               /\ \A i \in 1..Len(y) : <<w[i - 1], y[i], w[i]>> \in R
  BY DEF Path
<1> DEFINE N == Len(x) + Len(y)
           u == [i \in 0..N |-> IF i <= Len(x) THEN v[i] ELSE w[i - Len(x)]]
<1>u. \A i \in 0..N : u[i] = IF i <= Len(x) THEN v[i] ELSE w[i - Len(x)]
  OBVIOUS
<1>c. v[Len(x)] = w[Len(x) - Len(x)]
  <2>1. Len(x) - Len(x) = 0
    BY <1>1
  <2>2. QED BY <2>1, <1>2, <1>3
<1> HIDE DEF u
<1>4. /\ \A i \in 0..N : i <= Len(x) => u[i] = v[i]
      /\ \A i \in 0..N : i >= Len(x) => u[i] = w[i - Len(x)]
  <2>1. ASSUME NEW i \in 0..N, i <= Len(x) PROVE u[i] = v[i]
    BY <1>u, <2>1
  <2>2. ASSUME NEW i \in 0..N, i >= Len(x) PROVE u[i] = w[i - Len(x)]
    <3>1. CASE i = Len(x)
      BY <1>1, <1>u, <1>c, <3>1
    <3>2. CASE i # Len(x)
      <4>1. ~(i <= Len(x))
        BY <1>1, <2>2, <3>2
      <4>2. QED BY <1>u, <4>1
    <3>3. QED BY <3>1, <3>2
  <2>3. QED BY <2>1, <2>2
<1>5. u[0] = a /\ u[N] = b
  <2>1. /\ 0 \in 0..N /\ N \in 0..N /\ 0 <= Len(x) /\ N >= Len(x) /\ N - Len(x) = Len(y)
    BY <1>1
  <2>2. QED BY <1>2, <1>3, <1>4, <2>1
<1>6. ASSUME NEW i \in 1..N PROVE <<u[i - 1], (x \o y)[i], u[i]>> \in R
  <2>1. i \in 0..N /\ i - 1 \in 0..N
    BY <1>1
  <2>2. CASE i <= Len(x)
    <3>1. i \in 1..Len(x) /\ i - 1 <= Len(x)
      BY <1>1, <2>2
    <3>2. u[i] = v[i] /\ u[i - 1] = v[i - 1] /\ (x \o y)[i] = x[i]
      BY <1>1, <1>4, <2>1, <2>2, <3>1
    <3>3. QED BY <1>2, <3>1, <3>2
  <2>3. CASE i > Len(x)
    <3>1. /\ i - Len(x) \in 1..Len(y) /\ i - 1 >= Len(x) /\ (i - Len(x)) - 1 = (i - 1) - Len(x)
          /\ i >= Len(x)
      BY <1>1, <2>3
    <3>2. u[i] = w[i - Len(x)] /\ u[i - 1] = w[(i - Len(x)) - 1]
      BY <1>4, <2>1, <3>1
    <3>3. (x \o y)[i] = y[i - Len(x)]
      BY <1>1, <2>3
    <3>4. QED BY <1>3, <3>1, <3>2, <3>3
  <2>4. i <= Len(x) \/ i > Len(x)
    BY <1>1
  <2>5. QED BY <2>2, <2>3, <2>4
<1>7. Len(x \o y) = N
  BY <1>1
<1>8. QED BY <1>5, <1>6, <1>7 DEF Path

\* A message is sent.
LEMMA PathAppend ==
  ASSUME NEW R, NEW S, NEW x \in Seq(S), NEW m \in S, NEW a, NEW b, NEW c,
         Path(R, x, a, c), <<c, m, b>> \in R
  PROVE  Path(R, Append(x, m), a, b)
<1> DEFINE y == <<m>>
           v == [i \in 0..1 |-> IF i = 0 THEN c ELSE b]
<1>1. y \in Seq(S) /\ Len(y) = 1 /\ y[1] = m
  OBVIOUS
<1>2. v[0] = c /\ v[1] = b
  OBVIOUS
<1> HIDE DEF y, v
<1>p. \A i \in 1..Len(y) : i = 1 /\ i - 1 = 0
  BY <1>1
<1>3. Path(R, y, c, b)
  <2>1. ASSUME NEW i \in 1..Len(y) PROVE <<v[i - 1], y[i], v[i]>> \in R
    <3>1. i = 1 /\ i - 1 = 0
      BY <1>p
    <3>2. <<v[0], y[1], v[1]>> \in R
      BY <1>1, <1>2
    <3>3. QED BY <3>1, <3>2
  <2>2. v[0] = c /\ v[Len(y)] = b
    BY <1>1, <1>2
  <2>3. QED BY <2>1, <2>2 DEF Path
<1>4. Append(x, m) = x \o y
  BY AppendIsConcat DEF y
<1>5. QED BY <1>1, <1>3, <1>4, PathConcat

-----------------------------------------------------------------------------
(* Sequences without repetition, and the order of their elements. *)

Before(q, u, v) == \E i, j \in 1..Len(q) : i < j /\ q[i] = u /\ q[j] = v

\* r is the end of q.
Latest(r, q) ==
    /\ IsInjective(r) /\ ToSet(r) \subseteq ToSet(q)
    /\ \A u, v : Before(r, u, v) => Before(q, u, v)
    /\ \A u, v : u \in ToSet(r) /\ Before(q, u, v) => v \in ToSet(r)

\* The places of the elements of a sequence.
LEMMA Places ==
  ASSUME NEW S, NEW q \in Seq(S)
  PROVE  /\ Len(q) \in Nat /\ DOMAIN q = 1..Len(q) /\ ToSet(q) \subseteq S
         /\ \A u : u \in ToSet(q) <=> \E i \in 1..Len(q) : q[i] = u
         /\ IsInjective(q) <=> \A i, j \in 1..Len(q) : q[i] = q[j] => i = j
<1>1. Len(q) \in Nat /\ DOMAIN q = 1..Len(q) /\ \A i \in 1..Len(q) : q[i] \in S
  BY LenProperties, ElementOfSeq
<1>2. ToSet(q) = {q[i] : i \in 1..Len(q)}
  BY <1>1 DEF ToSet
<1>3. IsInjective(q) <=> \A i, j \in 1..Len(q) : q[i] = q[j] => i = j
  BY <1>1 DEF IsInjective
<1>4. QED BY <1>1, <1>2, <1>3

\* Who comes before another is in the sequence, and not itself the other.
LEMMA BeforeParts ==
  ASSUME NEW S, NEW q \in Seq(S), IsInjective(q)
  PROVE  /\ \A u, v : Before(q, u, v) => u \in ToSet(q) /\ v \in ToSet(q) /\ u # v /\ ~Before(q, v, u)
         /\ \A u, v \in ToSet(q) : u # v => Before(q, u, v) \/ Before(q, v, u)
<1>1. /\ Len(q) \in Nat
      /\ \A u : u \in ToSet(q) <=> \E i \in 1..Len(q) : q[i] = u
      /\ \A i, j \in 1..Len(q) : q[i] = q[j] => i = j
  BY Places
<1>2. ASSUME NEW u, NEW v, Before(q, u, v)
      PROVE  u \in ToSet(q) /\ v \in ToSet(q) /\ u # v /\ ~Before(q, v, u)
  <2>1. PICK i \in 1..Len(q), j \in 1..Len(q) : i < j /\ q[i] = u /\ q[j] = v
    BY <1>2 DEF Before
  <2>2. u \in ToSet(q) /\ v \in ToSet(q)
    BY <1>1, <2>1
  <2>3. i # j
    BY <1>1, <2>1
  <2>4. u # v
    BY <1>1, <2>1, <2>3
  <2>5. ASSUME Before(q, v, u) PROVE FALSE
    <3>1. PICK k \in 1..Len(q), l \in 1..Len(q) : k < l /\ q[k] = v /\ q[l] = u
      BY <2>5 DEF Before
    <3>2. k = j /\ l = i
      BY <1>1, <2>1, <3>1
    <3>3. QED BY <1>1, <2>1, <3>1, <3>2
  <2>6. QED BY <2>2, <2>4, <2>5
<1>3. ASSUME NEW u \in ToSet(q), NEW v \in ToSet(q), u # v PROVE Before(q, u, v) \/ Before(q, v, u)
  <2>1. PICK i \in 1..Len(q), j \in 1..Len(q) : q[i] = u /\ q[j] = v
    BY <1>1
  <2>2. i < j \/ j < i
    BY <1>1, <1>3, <2>1
  <2>3. QED BY <2>1, <2>2 DEF Before
<1>4. QED BY <1>2, <1>3

\* The elements and their order make the sequence.
LEMMA OneOrder ==
  ASSUME NEW S, NEW q \in Seq(S), NEW r \in Seq(S), IsInjective(q), IsInjective(r),
         ToSet(q) = ToSet(r), \A u, v : Before(r, u, v) => Before(q, u, v)
  PROVE  q = r
<1>1. /\ Len(q) \in Nat /\ DOMAIN q = 1..Len(q)
      /\ \A u : u \in ToSet(q) <=> \E i \in 1..Len(q) : q[i] = u
      /\ \A i, j \in 1..Len(q) : q[i] = q[j] => i = j
  BY Places
<1>2. /\ Len(r) \in Nat /\ DOMAIN r = 1..Len(r)
      /\ \A u : u \in ToSet(r) <=> \E i \in 1..Len(r) : r[i] = u
      /\ \A i, j \in 1..Len(r) : r[i] = r[j] => i = j
  BY Places
<1>3. \A u, v : Before(q, u, v) => Before(r, u, v)
  <2> SUFFICES ASSUME NEW u, NEW v, Before(q, u, v) PROVE Before(r, u, v)
    OBVIOUS
  <2>1. u \in ToSet(r) /\ v \in ToSet(r) /\ u # v /\ ~Before(q, v, u)
    BY BeforeParts
  <2>2. Before(r, u, v) \/ Before(r, v, u)
    BY <2>1, BeforeParts
  <2>3. QED BY <2>1, <2>2
<1> DEFINE Alike(n) == (n \in 1..Len(q) <=> n \in 1..Len(r)) /\ (n \in 1..Len(q) => q[n] = r[n])
           T == {n \in Nat : \A k \in 0..n : Alike(k)}
<1>4. 0 \in T
  <2>1. \A k \in 0..0 : k \notin 1..Len(q) /\ k \notin 1..Len(r)
    BY <1>1, <1>2
  <2>2. QED BY <2>1
<1>5. ASSUME NEW n \in Nat, n \in T PROVE n + 1 \in T
  <2>1. \A k \in 0..n : Alike(k)
    BY <1>5
  <2>2. \A k \in 0..(n + 1) : k \in 0..n \/ k = n + 1
    OBVIOUS
  <2> DEFINE m == n + 1
  <2>m. m \in Nat /\ m > 0 /\ \A k \in Nat : k < m => k \in 0..n
    OBVIOUS
  <2> HIDE DEF m
  <2>3. ASSUME m \in 1..Len(q) PROVE m \in 1..Len(r) /\ q[m] = r[m]
    <3>1. PICK j \in 1..Len(r) : r[j] = q[m]
      BY <1>1, <1>2, <2>3
    <3>2. ~(j < m)
      <4>1. ASSUME j < m PROVE FALSE
        <5>1. j \in 0..n /\ j \in 1..Len(q)
          BY <1>1, <1>2, <2>3, <2>m, <4>1
        <5>2. q[j] = r[j]
          BY <2>1, <5>1
        <5>3. j = m
          BY <1>1, <2>3, <3>1, <5>1, <5>2
        <5>4. QED BY <1>2, <4>1, <5>3
      <4>2. QED BY <4>1
    <3>3. m \in 1..Len(r)
      BY <1>2, <2>m, <3>2
    <3>4. ASSUME m < j PROVE FALSE
      <4>1. Before(r, r[m], q[m])
        BY <3>1, <3>3, <3>4 DEF Before
      <4>2. Before(q, r[m], q[m])
        BY <4>1
      <4>3. PICK i \in 1..Len(q), l \in 1..Len(q) : i < l /\ q[i] = r[m] /\ q[l] = q[m]
        BY <4>2 DEF Before
      <4>4. l = m
        BY <1>1, <2>3, <4>3
      <4>5. i \in 0..n
        BY <1>1, <2>m, <4>3, <4>4
      <4>6. r[i] = r[m] /\ i \in 1..Len(r)
        BY <2>1, <4>3, <4>5
      <4>7. i = m
        BY <1>2, <3>3, <4>6
      <4>8. QED BY <1>1, <4>3, <4>4, <4>7
    <3>5. j = m
      BY <1>2, <2>m, <3>2, <3>4
    <3>6. QED BY <3>1, <3>5
  <2>4. ASSUME m \in 1..Len(r) PROVE m \in 1..Len(q) /\ q[m] = r[m]
    <3>1. PICK j \in 1..Len(q) : q[j] = r[m]
      BY <1>1, <1>2, <2>4
    <3>2. ~(j < m)
      <4>1. ASSUME j < m PROVE FALSE
        <5>1. j \in 0..n /\ j \in 1..Len(r)
          BY <1>1, <1>2, <2>4, <2>m, <4>1
        <5>2. q[j] = r[j]
          BY <2>1, <5>1
        <5>3. j = m
          BY <1>2, <2>4, <3>1, <5>1, <5>2
        <5>4. QED BY <1>1, <4>1, <5>3
      <4>2. QED BY <4>1
    <3>3. m \in 1..Len(q)
      BY <1>1, <2>m, <3>2
    <3>4. QED BY <2>3, <3>3
  <2>5. Alike(m)
    BY <2>3, <2>4
  <2>6. QED BY <2>1, <2>2, <2>5 DEF m
<1>6. \A n \in Nat : n \in T
  <2> HIDE DEF T
  <2>1. QED BY <1>4, <1>5, NatSetInduction
<1>7. \A n \in Nat : Alike(n)
  <2>1. \A n \in Nat : n \in 0..n
    OBVIOUS
  <2>2. QED BY <1>6, <2>1
<1>8. \A n \in 1..Len(q) : n \in 1..Len(r) /\ q[n] = r[n]
  <2>1. \A n \in 1..Len(q) : n \in Nat
    BY <1>1
  <2>2. QED BY <1>7, <2>1
<1>9. \A n \in 1..Len(r) : n \in 1..Len(q)
  <2>1. \A n \in 1..Len(r) : n \in Nat
    BY <1>2
  <2>2. QED BY <1>7, <2>1
<1>10. 1..Len(q) = 1..Len(r)
  BY <1>8, <1>9
<1>11. q \in [1..Len(q) -> S] /\ r \in [1..Len(r) -> S]
  BY LenProperties
<1> DEFINE I == 1..Len(q)
<1>12. q \in [I -> S] /\ r \in [I -> S] /\ \A n \in I : q[n] = r[n]
  BY <1>8, <1>10, <1>11
<1> HIDE DEF I
<1>13. QED BY <1>12

\* A new element is behind all others.
LEMMA AppendedOrder ==
  ASSUME NEW S, NEW q \in Seq(S), NEW p \in S, p \notin ToSet(q), IsInjective(q)
  PROVE  /\ Append(q, p) \in Seq(S) /\ IsInjective(Append(q, p))
         /\ ToSet(Append(q, p)) = ToSet(q) \cup {p} /\ Len(Append(q, p)) = Len(q) + 1
         /\ \A u, v : Before(Append(q, p), u, v) <=> Before(q, u, v) \/ (u \in ToSet(q) /\ v = p)
<1> DEFINE r == Append(q, p)
           n == Len(q)
<1>1. /\ n \in Nat /\ \A u : u \in ToSet(q) <=> \E i \in 1..n : q[i] = u
      /\ \A i, j \in 1..n : q[i] = q[j] => i = j
  BY Places
<1>2. r \in Seq(S) /\ Len(r) = n + 1 /\ r[n + 1] = p /\ \A i \in 1..n : r[i] = q[i]
  BY AppendProperties
<1> HIDE DEF r, n
<1>3. \A i : i \in 1..(n + 1) <=> i \in 1..n \/ i = n + 1
  BY <1>1
<1>4. \A u : u \in ToSet(r) <=> u \in ToSet(q) \/ u = p
  <2>1. \A u : u \in ToSet(r) <=> \E i \in 1..(n + 1) : r[i] = u
    BY <1>2, Places
  <2>2. QED BY <1>1, <1>2, <1>3, <2>1
<1>5. \A i \in 1..n : r[i] # p
  BY <1>1, <1>2
<1>6. IsInjective(r)
  <2>1. \A i, j \in 1..(n + 1) : r[i] = r[j] => i = j
    BY <1>1, <1>2, <1>3, <1>5
  <2>2. QED BY <1>2, <2>1, Places
<1>7. ASSUME NEW u, NEW v, Before(r, u, v) PROVE Before(q, u, v) \/ (u \in ToSet(q) /\ v = p)
  <2>1. PICK i \in 1..(n + 1), j \in 1..(n + 1) : i < j /\ r[i] = u /\ r[j] = v
    BY <1>2, <1>7 DEF Before
  <2>2. i \in 1..n
    BY <1>1, <2>1
  <2>3. CASE j \in 1..n
    BY <1>2, <2>1, <2>2, <2>3 DEF Before, n
  <2>4. CASE j = n + 1
    BY <1>1, <1>2, <2>1, <2>2, <2>4
  <2>5. QED BY <1>3, <2>3, <2>4
<1>8. ASSUME NEW u, NEW v, Before(q, u, v) PROVE Before(r, u, v)
  <2>1. PICK i \in 1..n, j \in 1..n : i < j /\ q[i] = u /\ q[j] = v
    BY <1>8 DEF Before, n
  <2>2. i \in 1..Len(r) /\ j \in 1..Len(r)
    BY <1>2, <1>3
  <2>3. QED BY <1>2, <2>1, <2>2 DEF Before
<1>9. ASSUME NEW u \in ToSet(q) PROVE Before(r, u, p)
  <2>1. PICK i \in 1..n : q[i] = u
    BY <1>1
  <2>2. i \in 1..Len(r) /\ n + 1 \in 1..Len(r) /\ i < n + 1
    BY <1>1, <1>2, <2>1
  <2>3. QED BY <1>2, <2>1, <2>2 DEF Before
<1>10. \A u, v : Before(r, u, v) <=> Before(q, u, v) \/ (u \in ToSet(q) /\ v = p)
  BY <1>7, <1>8, <1>9
<1>11. QED BY <1>2, <1>4, <1>6, <1>10 DEF r, n

\* Without p, the order of the others is as it was.
LEMMA RemovedOrder ==
  ASSUME NEW S, NEW q \in Seq(S), NEW p, IsInjective(q)
  PROVE  /\ RemoveFirst(q, p) \in Seq(S) /\ IsInjective(RemoveFirst(q, p))
         /\ ToSet(RemoveFirst(q, p)) = ToSet(q) \ {p}
         /\ p \notin ToSet(q) => RemoveFirst(q, p) = q
         /\ p \in ToSet(q) => Len(RemoveFirst(q, p)) = Len(q) - 1
         /\ \A u, v : Before(RemoveFirst(q, p), u, v) <=> Before(q, u, v) /\ u # p /\ v # p
<1>1. /\ Len(q) \in Nat /\ \A u : u \in ToSet(q) <=> \E i \in 1..Len(q) : q[i] = u
      /\ \A i, j \in 1..Len(q) : q[i] = q[j] => i = j
  BY Places
<1>2. CASE p \notin ToSet(q)
  <2>1. RemoveFirst(q, p) = q
    BY <1>1, <1>2 DEF RemoveFirst
  <2>2. \A u, v : Before(q, u, v) => u # p /\ v # p
    BY <1>2, BeforeParts
  <2>3. QED BY <1>2, <2>1, <2>2
<1>3. CASE p \in ToSet(q)
  <2> DEFINE k == SelectInSeq(q, LAMBDA x : x = p)
             r == RemoveAt(q, k)
             n == Len(q)
  <2>1. k \in 1..n /\ q[k] = p
    <3> DEFINE I == {j \in 1..Len(q) : q[j] = p}
    <3>1. I # {} /\ I \in SUBSET Nat
      BY <1>1, <1>3
    <3>2. k = Min(I)
      BY <3>1 DEF SelectInSeq
    <3>3. Min(I) \in I
      BY <3>1, MinIsLeast
    <3>4. QED BY <3>2, <3>3
  <2>2. RemoveFirst(q, p) = r
    BY <1>1, <1>3 DEF RemoveFirst
  <2> HIDE DEF k
  <2>3. /\ r \in Seq(S) /\ Len(r) = n - 1
        /\ \A j \in 1..(n - 1) : r[j] = IF j < k THEN q[j] ELSE q[j + 1]
    BY <2>1, RemovedAt
  <2> HIDE DEF r
  <2>n. n \in Nat
    BY <1>1
  <2>4. /\ \A i, j \in 1..n : q[i] = q[j] => i = j
        /\ \A u, v : Before(q, u, v) <=> \E i, j \in 1..n : i < j /\ q[i] = u /\ q[j] = v
        /\ \A u : u \in ToSet(q) <=> \E i \in 1..n : q[i] = u
    BY <1>1 DEF Before
  <2> HIDE DEF n
  <2>5. ASSUME NEW j \in 1..(n - 1)
        PROVE  \E i \in 1..n : r[j] = q[i] /\ i # k /\ i = IF j < k THEN j ELSE j + 1
    <3>1. CASE j < k
      BY <2>n, <2>3, <3>1
    <3>2. CASE ~(j < k)
      <4>1. j + 1 \in 1..n /\ j + 1 # k
        BY <2>n, <2>1, <3>2
      <4>2. QED BY <2>3, <3>2, <4>1
    <3>3. QED BY <3>1, <3>2
  <2>6. ASSUME NEW i \in 1..n, i # k
        PROVE  \E j \in 1..(n - 1) : r[j] = q[i] /\ i = IF j < k THEN j ELSE j + 1
    <3>1. CASE i < k
      <4>1. i \in 1..(n - 1)
        BY <2>n, <2>1, <3>1
      <4>2. QED BY <2>3, <3>1, <4>1
    <3>2. CASE ~(i < k)
      <4>1. i - 1 \in 1..(n - 1) /\ ~(i - 1 < k) /\ (i - 1) + 1 = i
        BY <2>n, <2>1, <2>6, <3>2
      <4>2. r[i - 1] = q[i]
        BY <2>3, <4>1
      <4>3. QED BY <4>1, <4>2
    <3>3. QED BY <3>1, <3>2
  <2>7. /\ \A u : u \in ToSet(r) <=> \E j \in 1..(n - 1) : r[j] = u
        /\ \A u, v : Before(r, u, v) <=> \E i, j \in 1..(n - 1) : i < j /\ r[i] = u /\ r[j] = v
        /\ IsInjective(r) <=> \A i, j \in 1..(n - 1) : r[i] = r[j] => i = j
    BY <2>3, Places DEF Before
  <2>8. IsInjective(r)
    <3> SUFFICES ASSUME NEW a \in 1..(n - 1), NEW b \in 1..(n - 1), r[a] = r[b] PROVE a = b
      BY <2>7
    <3>1. PICK i \in 1..n : r[a] = q[i] /\ i # k /\ i = IF a < k THEN a ELSE a + 1
      BY <2>5
    <3>2. PICK j \in 1..n : r[b] = q[j] /\ j # k /\ j = IF b < k THEN b ELSE b + 1
      BY <2>5
    <3>3. i = j
      <4>1. q[i] = q[j]
        BY <3>1, <3>2
      <4>2. QED BY <2>4, <4>1
    <3>4. QED BY <2>n, <2>1, <3>1, <3>2, <3>3
  <2>9. \A u : u \in ToSet(r) <=> u \in ToSet(q) \ {p}
    <3>1. ASSUME NEW u \in ToSet(r) PROVE u \in ToSet(q) \ {p}
      <4>1. PICK j \in 1..(n - 1) : r[j] = u
        BY <2>7
      <4>2. PICK i \in 1..n : r[j] = q[i] /\ i # k
        BY <2>5
      <4>3. q[i] # p
        BY <2>1, <2>4, <4>2
      <4>4. QED BY <2>4, <4>1, <4>2, <4>3
    <3>2. ASSUME NEW u \in ToSet(q), u # p PROVE u \in ToSet(r)
      <4>1. PICK i \in 1..n : q[i] = u
        BY <2>4
      <4>2. i # k
        BY <2>1, <3>2, <4>1
      <4>3. QED BY <2>6, <2>7, <4>1, <4>2
    <3>3. QED BY <3>1, <3>2
  <2>10. ASSUME NEW u, NEW v, Before(r, u, v) PROVE Before(q, u, v) /\ u # p /\ v # p
    <3>1. PICK a \in 1..(n - 1), b \in 1..(n - 1) : a < b /\ r[a] = u /\ r[b] = v
      BY <2>7, <2>10
    <3>2. PICK i \in 1..n : r[a] = q[i] /\ i # k /\ i = IF a < k THEN a ELSE a + 1
      BY <2>5
    <3>3. PICK j \in 1..n : r[b] = q[j] /\ j # k /\ j = IF b < k THEN b ELSE b + 1
      BY <2>5
    <3>4. i < j
      BY <2>n, <2>1, <3>1, <3>2, <3>3
    <3>5. u # p /\ v # p
      BY <2>1, <2>4, <3>1, <3>2, <3>3
    <3>6. QED BY <2>4, <3>1, <3>2, <3>3, <3>4, <3>5
  <2>11. ASSUME NEW u, NEW v, Before(q, u, v), u # p, v # p PROVE Before(r, u, v)
    <3>1. PICK i \in 1..n, j \in 1..n : i < j /\ q[i] = u /\ q[j] = v
      BY <2>4, <2>11
    <3>2. i # k /\ j # k
      BY <2>1, <2>11, <3>1
    <3>3. PICK a \in 1..(n - 1) : r[a] = q[i] /\ i = IF a < k THEN a ELSE a + 1
      BY <2>6, <3>2
    <3>4. PICK b \in 1..(n - 1) : r[b] = q[j] /\ j = IF b < k THEN b ELSE b + 1
      BY <2>6, <3>2
    <3>5. a < b
      BY <2>n, <2>1, <3>1, <3>2, <3>3, <3>4
    <3>6. QED BY <2>7, <3>1, <3>3, <3>4, <3>5
  <2>12. QED BY <1>3, <2>2, <2>3, <2>8, <2>9, <2>10, <2>11 DEF n
<1>4. QED BY <1>2, <1>3

\* The end of a sequence.
LEMMA RestOrder ==
  ASSUME NEW S, NEW q \in Seq(S), IsInjective(q), NEW k \in 0..Len(q)
  PROVE  /\ SubSeq(q, k + 1, Len(q)) \in Seq(S) /\ Latest(SubSeq(q, k + 1, Len(q)), q)
         /\ Len(SubSeq(q, k + 1, Len(q))) = Len(q) - k
         /\ \A u : u \in ToSet(SubSeq(q, k + 1, Len(q))) <=> \E i \in 1..Len(q) : i > k /\ q[i] = u
<1> DEFINE r == SubSeq(q, k + 1, Len(q))
           n == Len(q)
<1>1. /\ n \in Nat /\ \A u : u \in ToSet(q) <=> \E i \in 1..n : q[i] = u
      /\ \A i, j \in 1..n : q[i] = q[j] => i = j
      /\ \A u, v : Before(q, u, v) <=> \E i, j \in 1..n : i < j /\ q[i] = u /\ q[j] = v
  BY Places DEF Before
<1>2. r \in Seq(S) /\ Len(r) = n - k /\ \A j \in 1..(n - k) : r[j] = q[k + j]
  BY <1>1, SubSeqProperties
<1>k. k \in Nat /\ k <= n
  BY <1>1
<1> HIDE DEF r, n
<1>3. /\ \A u : u \in ToSet(r) <=> \E j \in 1..(n - k) : r[j] = u
      /\ \A u, v : Before(r, u, v) <=> \E i, j \in 1..(n - k) : i < j /\ r[i] = u /\ r[j] = v
      /\ IsInjective(r) <=> \A i, j \in 1..(n - k) : r[i] = r[j] => i = j
  <2>1. /\ \A u : u \in ToSet(r) <=> \E j \in 1..Len(r) : r[j] = u
        /\ IsInjective(r) <=> \A i, j \in 1..Len(r) : r[i] = r[j] => i = j
    BY <1>2, Places
  <2>2. \A u, v : Before(r, u, v) <=> \E i, j \in 1..Len(r) : i < j /\ r[i] = u /\ r[j] = v
    BY DEF Before
  <2>3. Len(r) = n - k
    BY <1>2
  <2> DEFINE l == Len(r)
  <2> HIDE DEF l
  <2>4. /\ \A u : u \in ToSet(r) <=> \E j \in 1..l : r[j] = u
        /\ IsInjective(r) <=> \A i, j \in 1..l : r[i] = r[j] => i = j
        /\ \A u, v : Before(r, u, v) <=> \E i, j \in 1..l : i < j /\ r[i] = u /\ r[j] = v
        /\ l = n - k
    BY <2>1, <2>2, <2>3 DEF l
  <2>5. QED BY <2>4
<1>4. /\ \A j \in 1..(n - k) : k + j \in 1..n /\ k + j > k
      /\ \A i \in 1..n : i > k => i - k \in 1..(n - k) /\ k + (i - k) = i
  BY <1>1, <1>k
<1>5. \A i \in 1..n : i > k => r[i - k] = q[i]
  BY <1>2, <1>4
<1>6. \A u : u \in ToSet(r) <=> \E i \in 1..n : i > k /\ q[i] = u
  BY <1>2, <1>3, <1>4, <1>5
<1>7. IsInjective(r)
  <2> SUFFICES ASSUME NEW a \in 1..(n - k), NEW b \in 1..(n - k), r[a] = r[b] PROVE a = b
    BY <1>3
  <2>1. q[k + a] = q[k + b]
    BY <1>2
  <2>2. k + a = k + b
    BY <1>1, <1>4, <2>1
  <2>3. QED BY <1>1, <1>k, <2>2
<1>8. ToSet(r) \subseteq ToSet(q)
  BY <1>1, <1>6
<1>9. ASSUME NEW u, NEW v, Before(r, u, v) PROVE Before(q, u, v)
  <2>1. PICK i \in 1..(n - k), j \in 1..(n - k) : i < j /\ r[i] = u /\ r[j] = v
    BY <1>3, <1>9
  <2>2. k + i < k + j /\ q[k + i] = u /\ q[k + j] = v
    BY <1>1, <1>2, <1>k, <2>1
  <2>3. QED BY <1>1, <1>4, <2>2
<1>10. ASSUME NEW u \in ToSet(r), NEW v, Before(q, u, v) PROVE v \in ToSet(r)
  <2>1. PICK a \in 1..n : a > k /\ q[a] = u
    BY <1>6
  <2>2. PICK i \in 1..n, j \in 1..n : i < j /\ q[i] = u /\ q[j] = v
    BY <1>1, <1>10
  <2>3. a = i
    BY <1>1, <2>1, <2>2
  <2>4. j > k
    BY <1>1, <1>k, <2>1, <2>2, <2>3
  <2>5. QED BY <1>6, <2>2, <2>4
<1>11. Latest(r, q)
  BY <1>7, <1>8, <1>9, <1>10 DEF Latest
<1>12. QED BY <1>2, <1>6, <1>11 DEF r, n

\* The latest elements of q are the rest of q from some place on.
LEMMA LatestIsRest ==
  ASSUME NEW S, NEW q \in Seq(S), NEW r \in Seq(S), IsInjective(q), Latest(r, q)
  PROVE  \E lost \in 0..Len(q) : r = SubSeq(q, lost + 1, Len(q))
<1>1. /\ Len(q) \in Nat /\ \A u : u \in ToSet(q) <=> \E i \in 1..Len(q) : q[i] = u
      /\ \A u, v : Before(q, u, v) <=> \E i, j \in 1..Len(q) : i < j /\ q[i] = u /\ q[j] = v
  BY Places DEF Before
<1> DEFINE I == {i \in 1..Len(q) : q[i] \in ToSet(r)} \cup {Len(q) + 1}
<1>2. I \in SUBSET Nat /\ I # {}
  BY <1>1
<1>3. PICK m \in I : \A i \in I : m <= i
  BY <1>2, LeastNatural
<1>4. m - 1 \in 0..Len(q) /\ (m - 1) + 1 = m
  BY <1>1, <1>3
<1> DEFINE k == m - 1
           e == SubSeq(q, k + 1, Len(q))
<1>5. /\ e \in Seq(S) /\ Latest(e, q)
      /\ \A u : u \in ToSet(e) <=> \E i \in 1..Len(q) : i > k /\ q[i] = u
  <2> HIDE DEF k
  <2>1. QED BY <1>4, RestOrder DEF k
<1> HIDE DEF e
<1>6. ASSUME NEW u \in ToSet(r) PROVE u \in ToSet(e)
  <2>1. PICK i \in 1..Len(q) : q[i] = u
    BY <1>1 DEF Latest
  <2>2. m <= i
    BY <1>3, <2>1
  <2>3. i > k
    BY <1>1, <1>4, <2>2
  <2>4. QED BY <1>5, <2>1, <2>3
<1>7. ASSUME NEW u \in ToSet(e) PROVE u \in ToSet(r)
  <2>1. PICK i \in 1..Len(q) : i > k /\ q[i] = u
    BY <1>5
  <2>2. m <= i /\ m \in 1..Len(q)
    BY <1>1, <1>3, <1>4, <2>1
  <2>3. q[m] \in ToSet(r)
    BY <1>1, <1>3, <2>2
  <2>4. m = i \/ m < i
    BY <1>1, <2>2
  <2>5. CASE m = i
    BY <2>1, <2>3, <2>5
  <2>6. CASE m < i
    <3>1. Before(q, q[m], u)
      BY <1>1, <2>1, <2>2, <2>6
    <3>2. QED BY <2>3, <3>1 DEF Latest
  <2>7. QED BY <2>4, <2>5, <2>6
<1>8. ToSet(r) = ToSet(e)
  BY <1>6, <1>7
<1>9. IsInjective(e) /\ IsInjective(r)
  BY <1>5 DEF Latest
<1>10. \A u, v : Before(r, u, v) => Before(e, u, v)
  <2> SUFFICES ASSUME NEW u, NEW v, Before(r, u, v) PROVE Before(e, u, v)
    OBVIOUS
  <2>1. u \in ToSet(r) /\ v \in ToSet(r) /\ u # v
    BY <1>9, BeforeParts
  <2>2. Before(q, u, v) /\ ~Before(q, v, u)
    <3>1. Before(q, u, v)
      BY DEF Latest
    <3>2. QED BY <3>1, BeforeParts
  <2>3. Before(e, u, v) \/ Before(e, v, u)
    BY <1>5, <1>8, <1>9, <2>1, BeforeParts
  <2>4. QED BY <1>5, <2>2, <2>3 DEF Latest
<1>11. e = r
  BY <1>5, <1>8, <1>9, <1>10, OneOrder
<1>12. QED BY <1>4, <1>11 DEF e

\* The latest elements of q, if they are all, are q.
LEMMA LatestWhole ==
  ASSUME NEW S, NEW q \in Seq(S), NEW r \in Seq(S), IsInjective(q), Latest(r, q), ToSet(q) \subseteq ToSet(r)
  PROVE  r = q
<1>1. ToSet(q) = ToSet(r) /\ IsInjective(r) /\ \A u, v : Before(r, u, v) => Before(q, u, v)
  BY DEF Latest
<1>2. QED BY <1>1, OneOrder

\* As long as the set of its elements.
LEMMA DistinctLength ==
  ASSUME NEW S, NEW q \in Seq(S), IsInjective(q)
  PROVE  /\ IsFiniteSet(ToSet(q)) /\ Cardinality(ToSet(q)) = Len(q)
         /\ \A T : IsFiniteSet(T) /\ ToSet(q) \subseteq T => Len(q) <= Cardinality(T)
<1>1. Len(q) \in Nat /\ DOMAIN q = 1..Len(q) /\ q \in [1..Len(q) -> S]
  BY LenProperties
<1>2. /\ \A u : u \in ToSet(q) <=> \E i \in 1..Len(q) : q[i] = u
      /\ \A i, j \in 1..Len(q) : q[i] = q[j] => i = j
  BY Places
<1> DEFINE I == 1..Len(q)
           D == ToSet(q)
<1>3. q \in [I -> D]
  BY <1>1, <1>2
<1>4. q \in Bijection(I, D)
  BY <1>2, <1>3 DEF Bijection, Injection, Surjection, IsInjective
<1>5. IsFiniteSet(I) /\ Cardinality(I) = Len(q)
  BY <1>1, FS_Interval
<1>6. IsFiniteSet(D) /\ Cardinality(D) = Cardinality(I)
  BY <1>4, <1>5, FS_Bijection DEF ExistsBijection
<1>7. \A T : IsFiniteSet(T) /\ D \subseteq T => Cardinality(D) <= Cardinality(T)
  BY FS_Subset
<1>8. QED BY <1>5, <1>6, <1>7

\* The ends of two sequences that grow, and shrink, alike.
LEMMA LatestAppended ==
  ASSUME NEW S, NEW q \in Seq(S), NEW r \in Seq(S), IsInjective(q), Latest(r, q),
         NEW p \in S, p \notin ToSet(q)
  PROVE  Latest(Append(r, p), Append(q, p))
<1>1. /\ IsInjective(r) /\ ToSet(r) \subseteq ToSet(q) /\ \A u, v : Before(r, u, v) => Before(q, u, v)
      /\ \A u, v : u \in ToSet(r) /\ Before(q, u, v) => v \in ToSet(r)
  BY DEF Latest
<1>2. /\ ToSet(Append(q, p)) = ToSet(q) \cup {p}
      /\ \A u, v : Before(Append(q, p), u, v) <=> Before(q, u, v) \/ (u \in ToSet(q) /\ v = p)
  BY AppendedOrder
<1>3. /\ IsInjective(Append(r, p)) /\ ToSet(Append(r, p)) = ToSet(r) \cup {p}
      /\ \A u, v : Before(Append(r, p), u, v) <=> Before(r, u, v) \/ (u \in ToSet(r) /\ v = p)
  BY <1>1, AppendedOrder
<1>4. \A u, v : Before(q, u, v) => u \in ToSet(q)
  BY BeforeParts
<1>5. ASSUME NEW u \in ToSet(Append(r, p)), NEW v, Before(Append(q, p), u, v)
      PROVE  v \in ToSet(Append(r, p))
  <2>1. u # p
    BY <1>2, <1>4, <1>5
  <2>2. u \in ToSet(r)
    BY <1>3, <2>1
  <2>3. QED BY <1>1, <1>2, <1>3, <1>5, <2>2
<1>6. QED BY <1>1, <1>2, <1>3, <1>5 DEF Latest

\* So they are when an element is removed from both.
LEMMA LatestRemoved ==
  ASSUME NEW S, NEW q \in Seq(S), NEW r \in Seq(S), IsInjective(q), Latest(r, q), NEW p
  PROVE  Latest(RemoveFirst(r, p), RemoveFirst(q, p))
<1>1. /\ IsInjective(r) /\ ToSet(r) \subseteq ToSet(q) /\ \A u, v : Before(r, u, v) => Before(q, u, v)
      /\ \A u, v : u \in ToSet(r) /\ Before(q, u, v) => v \in ToSet(r)
  BY DEF Latest
<1>2. /\ ToSet(RemoveFirst(q, p)) = ToSet(q) \ {p}
      /\ \A u, v : Before(RemoveFirst(q, p), u, v) <=> Before(q, u, v) /\ u # p /\ v # p
  BY RemovedOrder
<1>3. /\ IsInjective(RemoveFirst(r, p)) /\ ToSet(RemoveFirst(r, p)) = ToSet(r) \ {p}
      /\ \A u, v : Before(RemoveFirst(r, p), u, v) <=> Before(r, u, v) /\ u # p /\ v # p
  BY <1>1, RemovedOrder
<1>4. QED BY <1>1, <1>2, <1>3 DEF Latest

\* What holds of the start of a path and is kept by each message holds of its end.
LEMMA PathKeeps ==
  ASSUME NEW R, NEW S, NEW seq \in Seq(S), NEW a, NEW b, Path(R, seq, a, b), NEW I, a \in I,
         \A x, m, y : <<x, m, y>> \in R /\ x \in I => y \in I
  PROVE  b \in I
<1> DEFINE N == Len(seq)
<1>1. N \in Nat
  BY LenProperties
<1>2. PICK v : /\ v[0] = a /\ v[N] = b
               /\ \A i \in 1..N : <<v[i - 1], seq[i], v[i]>> \in R
  BY DEF Path
<1> DEFINE T == {n \in Nat : n <= N => v[n] \in I}
<1>3. 0 \in T
  BY <1>2
<1>4. ASSUME NEW n \in Nat, n \in T PROVE n + 1 \in T
  <2> SUFFICES ASSUME n + 1 <= N PROVE v[n + 1] \in I
    OBVIOUS
  <2>1. n + 1 \in 1..N /\ (n + 1) - 1 = n /\ n <= N
    BY <1>1
  <2>2. v[n] \in I
    BY <1>4, <2>1
  <2>3. <<v[n], seq[n + 1], v[n + 1]>> \in R
    BY <1>2, <2>1
  <2>4. QED BY <2>2, <2>3
<1>5. N \in T
  <2> HIDE DEF T, N
  <2>1. QED BY <1>1, <1>3, <1>4, NatSetInduction
<1>6. QED BY <1>1, <1>2, <1>5

-----------------------------------------------------------------------------
\* FlattenSeq of the community modules, and induction on sequences.

\* What FlattenSeq computes: the sequences joined one after the other.
Joins(f, seqs) == f[1] = seqs[1] /\ \A i \in 2..Len(seqs) : f[i] = f[i - 1] \o seqs[i]

LEMMA JoinsAgree ==
  ASSUME NEW S, NEW seqs \in Seq(S), NEW f, NEW g, Joins(f, seqs), Joins(g, seqs)
  PROVE  \A i \in 1..Len(seqs) : f[i] = g[i]
<1> DEFINE T == {i \in Nat : i + 1 \in 1..Len(seqs) => f[i + 1] = g[i + 1]}
<1>0. Len(seqs) \in Nat
  BY LenProperties
<1>1. 0 \in T
  BY DEF Joins
<1>2. ASSUME NEW n \in Nat, n \in T PROVE n + 1 \in T
  <2> SUFFICES ASSUME (n + 1) + 1 \in 1..Len(seqs) PROVE f[(n + 1) + 1] = g[(n + 1) + 1]
    OBVIOUS
  <2> DEFINE k == (n + 1) + 1
  <2>1. k \in 2..Len(seqs) /\ k - 1 = n + 1 /\ n + 1 \in 1..Len(seqs)
    BY <1>0
  <2>2. f[n + 1] = g[n + 1]
    BY <1>2, <2>1
  <2> HIDE DEF k
  <2>3. f[k] = f[k - 1] \o seqs[k] /\ g[k] = g[k - 1] \o seqs[k]
    BY <2>1 DEF Joins
  <2>4. QED BY <2>1, <2>2, <2>3 DEF k
<1> HIDE DEF T
<1>3. Nat \subseteq T
  BY <1>1, <1>2, NatSetInduction
<1>4. ASSUME NEW i \in 1..Len(seqs) PROVE f[i] = g[i]
  <2>1. i - 1 \in Nat /\ (i - 1) + 1 = i
    BY <1>0
  <2>2. i - 1 \in T
    BY <1>3, <2>1
  <2>3. QED BY <2>1, <2>2 DEF T
<1>5. QED BY <1>4

LEMMA FlattenJoins ==
  ASSUME NEW S, NEW seqs \in Seq(S), seqs # <<>>
  PROVE  \E f : Joins(f, seqs) /\ FlattenSeq(seqs) = f[Len(seqs)]
<1> DEFINE N == Len(seqs)
           Fold(f, m) == [i \in 1..m |-> IF i = 1 THEN seqs[i] ELSE f[i - 1] \o seqs[i]]
           T == {n \in Nat : \E f : f = Fold(f, n + 1)}
<1>0. N \in Nat /\ N # 0
  BY LenProperties, EmptySeq
<1>1. 0 \in T
  <2> DEFINE g == [i \in 1..1 |-> seqs[1]]
  <2>1. 0 + 1 = 1 /\ \A i \in 1..1 : i = 1
    OBVIOUS
  <2>2. g = Fold(g, 0 + 1)
    BY <2>1
  <2>3. QED BY <2>2
<1>2. ASSUME NEW n \in Nat, n \in T PROVE n + 1 \in T
  <2>1. PICK g : g = Fold(g, n + 1)
    BY <1>2
  <2> DEFINE h == [i \in 1..((n + 1) + 1) |->
                     IF i = n + 2 THEN g[n + 1] \o seqs[n + 2] ELSE g[i]]
  <2>2. ASSUME NEW i \in 1..((n + 1) + 1)
        PROVE  h[i] = IF i = 1 THEN seqs[i] ELSE h[i - 1] \o seqs[i]
    <3>1. CASE i = 1
      <4>1. i # n + 2 /\ 1 \in 1..(n + 1)
        BY <3>1
      <4>2. g[1] = seqs[1]
        BY <2>1, <4>1
      <4>3. QED BY <3>1, <4>1, <4>2
    <3>2. CASE i # 1 /\ i # n + 2
      <4>1. i \in 1..(n + 1) /\ i - 1 \in 1..((n + 1) + 1) /\ i - 1 # n + 2
        BY <3>2
      <4>2. h[i] = g[i] /\ h[i - 1] = g[i - 1]
        BY <3>2, <4>1
      <4>3. g[i] = g[i - 1] \o seqs[i]
        BY <2>1, <3>2, <4>1
      <4>4. QED BY <3>2, <4>2, <4>3
    <3>3. CASE i = n + 2
      <4>0. i - 1 = n + 1 /\ n + 1 \in 1..((n + 1) + 1) /\ n + 1 # n + 2 /\ i # 1
        BY <3>3
      <4>1. h[i] = g[n + 1] \o seqs[n + 2]
        BY <3>3
      <4>2. h[n + 1] = g[n + 1]
        BY <4>0
      <4>3. QED BY <3>3, <4>0, <4>1, <4>2
    <3>4. QED BY <3>1, <3>2, <3>3
  <2>3. h = Fold(h, (n + 1) + 1)
    BY <2>2
  <2> HIDE DEF h, Fold
  <2>4. n + 1 \in Nat /\ \E f : f = Fold(f, (n + 1) + 1)
    BY <2>3
  <2>5. QED BY <2>4
<1>3. \A n \in Nat : n \in T
  <2> HIDE DEF T
  <2>1. QED BY <1>1, <1>2, NatSetInduction
<1>4. N - 1 \in Nat /\ (N - 1) + 1 = N
  BY <1>0
<1>5. PICK g : g = Fold(g, N)
  BY <1>3, <1>4
<1> DEFINE flat == CHOOSE f : f = Fold(f, N)
<1>6. flat = Fold(flat, N)
  BY <1>5
<1>7. FlattenSeq(seqs) = flat[N]
  BY <1>0 DEF FlattenSeq
<1> HIDE DEF flat
<1>8. Joins(flat, seqs)
  <2>1. 1 \in 1..N /\ \A i \in 2..N : i \in 1..N /\ i # 1
    BY <1>0
  <2>2. QED BY <1>6, <2>1 DEF Joins
<1>9. QED BY <1>7, <1>8

\* FlattenSeq computes what any function that joins the sequences computes.
LEMMA FlattenIs ==
  ASSUME NEW S, NEW seqs \in Seq(S), seqs # <<>>, NEW f, Joins(f, seqs)
  PROVE  FlattenSeq(seqs) = f[Len(seqs)]
<1>1. PICK g : Joins(g, seqs) /\ FlattenSeq(seqs) = g[Len(seqs)]
  BY FlattenJoins
<1>2. Len(seqs) \in 1..Len(seqs)
  BY LenProperties, EmptySeq
<1>3. QED BY <1>1, <1>2, JoinsAgree

LEMMA FlattenEmpty == FlattenSeq(<<>>) = <<>>
<1>1. Len(<<>>) = 0
  BY EmptySeq
<1>2. QED BY <1>1 DEF FlattenSeq

LEMMA FlattenOne ==
  ASSUME NEW S, NEW x \in S
  PROVE  FlattenSeq(<<x>>) = x
<1>1. <<x>> \in Seq(S) /\ Len(<<x>>) = 1 /\ <<x>>[1] = x
  OBVIOUS
<1>2. <<x>> # <<>>
  BY <1>1, EmptySeq
<1> DEFINE s == <<x>>
           f == [i \in {1} |-> x]
<1>3. Joins(f, s)
  BY <1>1 DEF Joins
<1>4. s \in Seq(S) /\ s # <<>> /\ Len(s) = 1 /\ f[1] = x
  BY <1>1, <1>2
<1> HIDE DEF s, f
<1>5. FlattenSeq(s) = x
  BY <1>3, <1>4, FlattenIs
<1>6. QED BY <1>5 DEF s

LEMMA FlattenAppend ==
  ASSUME NEW S, NEW seqs \in Seq(Seq(S)), NEW x \in Seq(S)
  PROVE  FlattenSeq(Append(seqs, x)) = FlattenSeq(seqs) \o x
<1> DEFINE more == Append(seqs, x)
<1>0. /\ Len(seqs) \in Nat /\ more \in Seq(Seq(S)) /\ Len(more) = Len(seqs) + 1
      /\ more[Len(seqs) + 1] = x /\ \A i \in 1..Len(seqs) : more[i] = seqs[i]
  BY LenProperties, AppendProperties
<1> HIDE DEF more
<1>1. more # <<>>
  BY <1>0, EmptySeq
<1>2. PICK f : Joins(f, more) /\ FlattenSeq(more) = f[Len(more)]
  BY <1>0, <1>1, FlattenJoins
<1>3. CASE seqs = <<>>
  <2>1. Len(more) = 1 /\ more[1] = x /\ FlattenSeq(more) = x
    BY <1>0, <1>2, <1>3, EmptySeq DEF Joins
  <2>2. QED BY <1>3, <2>1, FlattenEmpty, ConcatEmptySeq DEF more
<1>4. CASE seqs # <<>>
  <2>1. Len(seqs) >= 1
    BY <1>0, <1>4, EmptySeq
  <2>2. Joins(f, seqs)
    <3>1. 1 \in 1..Len(seqs) /\ \A i \in 2..Len(seqs) : i \in 2..Len(more) /\ i \in 1..Len(seqs)
      BY <1>0, <2>1
    <3>2. QED BY <1>0, <1>2, <3>1 DEF Joins
  <2>3. FlattenSeq(seqs) = f[Len(seqs)]
    BY <1>4, <2>2, FlattenIs
  <2>4. Len(more) \in 2..Len(more) /\ Len(more) - 1 = Len(seqs)
    BY <1>0, <2>1
  <2>5. f[Len(more)] = f[Len(seqs)] \o x
    BY <1>0, <1>2, <2>4 DEF Joins
  <2>6. QED BY <1>2, <2>3, <2>5 DEF more
<1>5. QED BY <1>3, <1>4

\* Induction on sequences, stated of a set: it holds of the empty one and grows.
LEMMA SeqSetInduction ==
  ASSUME NEW S, NEW T, <<>> \in T,
         \A s \in Seq(S), x \in S : s \in T => Append(s, x) \in T
  PROVE  Seq(S) \subseteq T
<1> DEFINE U == {n \in Nat : \A s \in Seq(S) : Len(s) = n => s \in T}
<1>1. 0 \in U
  BY EmptySeq
<1>2. ASSUME NEW n \in Nat, n \in U PROVE n + 1 \in U
  <2> SUFFICES ASSUME NEW s \in Seq(S), Len(s) = n + 1 PROVE s \in T
    OBVIOUS
  <2>1. s # <<>>
    BY <1>2, EmptySeq
  <2>2. PICK t \in Seq(S), x \in S : s = Append(t, x) /\ Len(t) = n
    <3> DEFINE t == SubSeq(s, 1, n)
    <3>0. n \in Int /\ n + 1 \in 1..Len(s) /\ \A i \in 1..n : i \in 1..Len(s)
      BY <1>2
    <3>1. \A i \in 1..n : s[i] \in S
      BY <3>0, ElementOfSeq
    <3>2. /\ t \in Seq(S) /\ Len(t) = IF 1 <= n THEN n - 1 + 1 ELSE 0
          /\ \A i \in 1..(n - 1 + 1) : t[i] = s[1 + i - 1]
      BY <3>0, <3>1, SubSeqProperties
    <3>3. n - 1 + 1 = n /\ \A i \in 1..n : 1 + i - 1 = i
      BY <3>0
    <3>4. Len(t) = n /\ \A i \in 1..n : t[i] = s[i]
      BY <1>2, <3>2, <3>3
    <3> HIDE DEF t
    <3>5. s[n + 1] \in S
      BY <3>0, ElementOfSeq
    <3> DEFINE u == Append(t, s[n + 1])
    <3>6. u \in Seq(S) /\ Len(u) = n + 1 /\ u[n + 1] = s[n + 1] /\ \A i \in 1..n : u[i] = t[i]
      BY <3>2, <3>4, <3>5, AppendProperties
    <3>7. \A i \in 1..(n + 1) : u[i] = s[i]
      <4> SUFFICES ASSUME NEW i \in 1..(n + 1) PROVE u[i] = s[i]
        OBVIOUS
      <4>1. i = n + 1 \/ i \in 1..n
        BY <1>2
      <4>2. QED BY <3>4, <3>6, <4>1
    <3> HIDE DEF u
    <3>8. u = s
      BY <3>6, <3>7, SeqEqual
    <3>9. QED BY <3>2, <3>4, <3>5, <3>8 DEF u
  <2>3. t \in T
    BY <1>2, <2>2
  <2>4. QED BY <2>2, <2>3
<1> HIDE DEF U
<1>3. Nat \subseteq U
  BY <1>1, <1>2, NatSetInduction
<1>4. ASSUME NEW s \in Seq(S) PROVE s \in T
  <2>1. Len(s) \in U
    BY <1>3, LenProperties
  <2>2. QED BY <2>1 DEF U
<1>5. QED BY <1>4

LEMMA FlattenTyped ==
  ASSUME NEW S, NEW seqs \in Seq(Seq(S))
  PROVE  FlattenSeq(seqs) \in Seq(S)
<1> DEFINE T == {s \in Seq(Seq(S)) : FlattenSeq(s) \in Seq(S)}
<1>1. <<>> \in T
  BY FlattenEmpty, EmptySeq
<1>2. ASSUME NEW s \in Seq(Seq(S)), NEW x \in Seq(S), s \in T PROVE Append(s, x) \in T
  <2>1. FlattenSeq(s) \o x \in Seq(S) /\ Append(s, x) \in Seq(Seq(S))
    BY <1>2, ConcatProperties, AppendProperties
  <2>2. QED BY <2>1, FlattenAppend
<1>3. Seq(Seq(S)) \subseteq T
  <2> DEFINE X == Seq(S)
  <2> HIDE DEF T, X
  <2>1. \A s \in Seq(X), x \in X : s \in T => Append(s, x) \in T
    BY <1>2 DEF X
  <2>2. Seq(X) \subseteq T
    BY <1>1, <2>1, SeqSetInduction
  <2>3. QED BY <2>2 DEF X
<1>4. QED BY <1>3

LEMMA FlattenConcat ==
  ASSUME NEW S, NEW a \in Seq(Seq(S)), NEW b \in Seq(Seq(S))
  PROVE  FlattenSeq(a \o b) = FlattenSeq(a) \o FlattenSeq(b)
<1> DEFINE T == {s \in Seq(Seq(S)) : FlattenSeq(a \o s) = FlattenSeq(a) \o FlattenSeq(s)}
<1>0. FlattenSeq(a) \in Seq(S)
  BY FlattenTyped
<1>1. <<>> \in T
  <2>1. a \o <<>> = a /\ FlattenSeq(a) \o <<>> = FlattenSeq(a) /\ <<>> \in Seq(Seq(S))
    BY <1>0, ConcatEmptySeq, EmptySeq
  <2>2. QED BY <2>1, FlattenEmpty
<1>2. ASSUME NEW s \in Seq(Seq(S)), NEW x \in Seq(S), s \in T PROVE Append(s, x) \in T
  <2>0. /\ <<x>> \in Seq(Seq(S)) /\ Append(s, x) = s \o <<x>> /\ Append(s, x) \in Seq(Seq(S))
        /\ a \o s \in Seq(Seq(S)) /\ FlattenSeq(s) \in Seq(S)
    BY AppendIsConcat, AppendProperties, ConcatProperties, FlattenTyped
  <2>1. a \o (s \o <<x>>) = (a \o s) \o <<x>>
    BY <2>0, ConcatAssociative
  <2>2. (a \o s) \o <<x>> = Append(a \o s, x)
    BY <2>0, AppendIsConcat
  <2>3. FlattenSeq(Append(a \o s, x)) = FlattenSeq(a \o s) \o x
    BY <2>0, FlattenAppend
  <2>4. FlattenSeq(Append(s, x)) = FlattenSeq(s) \o x
    BY FlattenAppend
  <2>5. FlattenSeq(a \o s) = FlattenSeq(a) \o FlattenSeq(s)
    BY <1>2
  <2>6. (FlattenSeq(a) \o FlattenSeq(s)) \o x = FlattenSeq(a) \o (FlattenSeq(s) \o x)
    BY <1>0, <2>0, ConcatAssociative
  <2>7. QED BY <2>0, <2>1, <2>2, <2>3, <2>4, <2>5, <2>6
<1>3. Seq(Seq(S)) \subseteq T
  <2> DEFINE X == Seq(S)
  <2> HIDE DEF T, X
  <2>1. \A s \in Seq(X), x \in X : s \in T => Append(s, x) \in T
    BY <1>2 DEF X
  <2>2. Seq(X) \subseteq T
    BY <1>1, <2>1, SeqSetInduction
  <2>3. QED BY <2>2 DEF X
<1>4. QED BY <1>3

LEMMA Whole ==
  ASSUME NEW S, NEW s \in Seq(S)
  PROVE  SubSeq(s, 1, Len(s)) = s /\ SubSeq(s, 1, 0) = <<>>
<1>0. Len(s) \in Nat /\ \A i \in 1..Len(s) : s[i] \in S
  BY LenProperties, ElementOfSeq
<1>1. PICK a, l : a = SubSeq(s, 1, l) /\ l = Len(s)
  OBVIOUS
<1>2. a \in Seq(S) /\ Len(a) = (IF 1 <= l THEN l - 1 + 1 ELSE 0)
      /\ \A i \in 1..(l - 1 + 1) : a[i] = s[1 + i - 1]
  BY <1>0, <1>1, SubSeqProperties
<1>3. Len(a) = l /\ \A i \in 1..l : a[i] = s[i]
  BY <1>0, <1>1, <1>2
<1>4. a = s
  BY <1>1, <1>2, <1>3, SeqEqual
<1>5. SubSeq(s, 1, 0) = <<>>
  BY SubSeqEmpty
<1>6. QED BY <1>1, <1>4, <1>5

LEMMA MaxOfTwo ==
  ASSUME NEW a \in Int, NEW b \in Int
  PROVE  Max({a, b}) \in {a, b} /\ Max({a, b}) >= a /\ Max({a, b}) >= b
<1>1. \E x \in {a, b} : \A y \in {a, b} : x >= y
  <2>1. CASE a >= b
    BY <2>1
  <2>2. CASE b >= a
    BY <2>2
  <2>3. QED BY <2>1, <2>2
<1>2. QED BY <1>1 DEF Max

LEMMA AppendJoined ==
  ASSUME NEW S, NEW a \in Seq(S), NEW b \in Seq(S), NEW x \in S
  PROVE  a \o Append(b, x) = Append(a \o b, x)
BY AppendProperties, ConcatProperties, AppendIsConcat, ConcatAssociative

LEMMA Concats ==
  ASSUME NEW S, NEW a \in Seq(S), NEW b \in Seq(S)
  PROVE  /\ Len(a \o b) = Len(a) + Len(b) /\ Len(a) \in Nat /\ Len(b) \in Nat
         /\ \A i \in 1..Len(a) : i \in 1..Len(a \o b) /\ (a \o b)[i] = a[i]
         /\ \A i \in 1..Len(b) : Len(a) + i \in 1..Len(a \o b) /\ (a \o b)[Len(a) + i] = b[i]
<1>1. /\ Len(a \o b) = Len(a) + Len(b) /\ Len(a) \in Nat /\ Len(b) \in Nat
      /\ \A i \in 1..(Len(a) + Len(b)) : (a \o b)[i] = IF i <= Len(a) THEN a[i] ELSE b[i - Len(a)]
  BY ConcatProperties, LenProperties
<1>2. ASSUME NEW i \in 1..Len(b)
      PROVE  Len(a) + i \in 1..Len(a \o b) /\ (a \o b)[Len(a) + i] = b[i]
  <2>1. Len(a) + i \in 1..(Len(a) + Len(b)) /\ ~(Len(a) + i <= Len(a)) /\ (Len(a) + i) - Len(a) = i
    BY <1>1
  <2>2. QED BY <1>1, <2>1
<1>3. ASSUME NEW i \in 1..Len(a) PROVE i \in 1..Len(a \o b) /\ (a \o b)[i] = a[i]
  BY <1>1
<1>4. QED BY <1>1, <1>2, <1>3

\* A sequence is what is before an element, the element, and what is after it.
LEMMA Parted ==
  ASSUME NEW S, NEW s \in Seq(S), NEW n \in 1..Len(s)
  PROVE  /\ SubSeq(s, 1, n - 1) \in Seq(S) /\ s[n] \in S /\ SubSeq(s, n + 1, Len(s)) \in Seq(S)
         /\ SubSeq(s, 1, n) = Append(SubSeq(s, 1, n - 1), s[n])
         /\ s = Append(SubSeq(s, 1, n - 1), s[n]) \o SubSeq(s, n + 1, Len(s))
<1> DEFINE a == SubSeq(s, 1, n - 1)
           b == SubSeq(s, n + 1, Len(s))
           c == SubSeq(s, 1, n)
<1>0. Len(s) \in Nat /\ n \in Nat /\ n - 1 \in Nat /\ n + 1 \in Nat /\ s[n] \in S
  BY LenProperties, ElementOfSeq
<1>1. a \in Seq(S) /\ Len(a) = n - 1 /\ \A i \in 1..(n - 1) : a[i] = s[i]
  <2>1. \A i \in 1..(n - 1) : s[i] \in S
    BY <1>0, ElementOfSeq
  <2>2. QED BY <1>0, <2>1, SubSeqProperties
<1>2. c \in Seq(S) /\ Len(c) = n /\ \A i \in 1..n : c[i] = s[i]
  <2>1. \A i \in 1..n : s[i] \in S
    BY <1>0, ElementOfSeq
  <2>2. QED BY <1>0, <2>1, SubSeqProperties
<1>3. b \in Seq(S) /\ Len(b) = Len(s) - n /\ \A i \in 1..(Len(s) - n) : b[i] = s[n + i]
  <2>1. PICK m, l : m = n + 1 /\ l = Len(s)
    OBVIOUS
  <2>2. m \in Int /\ l \in Int /\ l - m + 1 = l - n /\ (m <= l <=> n < l) /\ n <= l
        /\ \A i \in m..l : s[i] \in S
    BY <1>0, <2>1, ElementOfSeq
  <2>3. b = SubSeq(s, m, l)
    BY <2>1
  <2> HIDE DEF b
  <2>4. b \in Seq(S) /\ Len(b) = (IF m <= l THEN l - m + 1 ELSE 0)
        /\ \A i \in 1..(l - m + 1) : b[i] = s[m + i - 1]
    BY <2>2, <2>3, SubSeqProperties
  <2>5. Len(b) = l - n
    BY <1>0, <2>1, <2>2, <2>4
  <2>6. ASSUME NEW i \in 1..(l - n) PROVE b[i] = s[n + i]
    <3>1. m + i - 1 = n + i
      BY <1>0, <2>1
    <3>2. QED BY <2>2, <2>4, <3>1
  <2>7. QED BY <2>1, <2>4, <2>5, <2>6
<1> HIDE DEF a, b, c
<1> DEFINE d == Append(a, s[n])
<1>4. d \in Seq(S) /\ Len(d) = n /\ d[n] = s[n] /\ \A i \in 1..(n - 1) : d[i] = s[i]
  BY <1>0, <1>1, AppendProperties
<1> HIDE DEF d
<1>5. c = d
  <2>1. ASSUME NEW i \in 1..n PROVE c[i] = d[i]
    <3>1. i = n \/ i \in 1..(n - 1)
      BY <1>0
    <3>2. QED BY <1>2, <1>4, <3>1
  <2>2. QED BY <1>2, <1>4, <2>1, SeqEqual
<1>6. s = d \o b
  <2>0. /\ d \o b \in Seq(S) /\ Len(d \o b) = Len(d) + Len(b)
        /\ \A i \in 1..(Len(d) + Len(b)) : (d \o b)[i] = IF i <= Len(d) THEN d[i] ELSE b[i - Len(d)]
    BY <1>3, <1>4, ConcatProperties
  <2>2. Len(d) + Len(b) = Len(s) /\ Len(d \o b) = Len(s)
    BY <1>0, <1>3, <1>4, <2>0
  <2>1. /\ d \o b \in Seq(S)
        /\ \A i \in 1..Len(d \o b) : (d \o b)[i] = IF i <= Len(d) THEN d[i] ELSE b[i - Len(d)]
    BY <2>0, <2>2
  <2>3. ASSUME NEW i \in 1..Len(s) PROVE s[i] = (d \o b)[i]
    <3>1. CASE i <= n
      <4>1. i = n \/ i \in 1..(n - 1)
        BY <1>0, <3>1
      <4>2. QED BY <1>4, <2>1, <2>2, <3>1, <4>1
    <3>2. CASE ~(i <= n)
      <4>1. i - n \in 1..(Len(s) - n) /\ n + (i - n) = i
        BY <1>0, <3>2
      <4>2. QED BY <1>3, <1>4, <2>1, <2>2, <3>2, <4>1
    <3>3. QED BY <3>1, <3>2
  <2>4. QED BY <2>1, <2>2, <2>3, SeqEqual
<1>7. QED BY <1>0, <1>1, <1>3, <1>5, <1>6 DEF a, b, c, d

\* A sequence is its first n elements and the rest.
LEMMA BothParts ==
  ASSUME NEW S, NEW s \in Seq(S), NEW n \in 0..Len(s)
  PROVE  /\ SubSeq(s, 1, n) \in Seq(S) /\ SubSeq(s, n + 1, Len(s)) \in Seq(S)
         /\ s = SubSeq(s, 1, n) \o SubSeq(s, n + 1, Len(s))
<1>1. CASE n = 0
  <2>1. SubSeq(s, 1, n) = <<>> /\ SubSeq(s, n + 1, Len(s)) = s
    BY <1>1, Whole
  <2>2. QED BY <2>1, EmptySeq, ConcatEmptySeq
<1>2. CASE n # 0
  <2>1. n \in 1..Len(s)
    BY <1>2, LenProperties
  <2>2. /\ SubSeq(s, 1, n - 1) \in Seq(S) /\ s[n] \in S /\ SubSeq(s, n + 1, Len(s)) \in Seq(S)
        /\ SubSeq(s, 1, n) = Append(SubSeq(s, 1, n - 1), s[n])
        /\ s = Append(SubSeq(s, 1, n - 1), s[n]) \o SubSeq(s, n + 1, Len(s))
    BY <2>1, Parted
  <2>3. QED BY <2>2, AppendProperties
<1>3. QED BY <1>1, <1>2

LEMMA AfterConcat ==
  ASSUME NEW S, NEW a \in Seq(S), NEW b \in Seq(S)
  PROVE  SubSeq(a \o b, Len(a) + 1, Len(a \o b)) = b
<1>1. PICK s, m, l, k : s = a \o b /\ m = Len(a) + 1 /\ l = Len(s) /\ k = Len(b)
  OBVIOUS
<1>2. /\ s \in Seq(S) /\ l = Len(a) + k /\ Len(a) \in Nat /\ k \in Nat /\ m \in Nat /\ l \in Nat
      /\ \A i \in 1..k : Len(a) + i \in 1..l /\ s[Len(a) + i] = b[i]
  BY <1>1, Concats, ConcatProperties
<1>3. \A i \in m..l : s[i] \in S
  BY <1>1, <1>2, ElementOfSeq
<1> DEFINE r == SubSeq(s, m, l)
<1>4. /\ r \in Seq(S) /\ Len(r) = (IF m <= l THEN l - m + 1 ELSE 0)
      /\ \A i \in 1..(l - m + 1) : r[i] = s[m + i - 1]
  BY <1>2, <1>3, SubSeqProperties
<1> HIDE DEF r
<1>5. l - m + 1 = k /\ Len(r) = k
  BY <1>1, <1>2, <1>4
<1>6. ASSUME NEW i \in 1..k PROVE r[i] = b[i]
  <2>1. m + i - 1 = Len(a) + i
    BY <1>1, <1>2
  <2>2. QED BY <1>2, <1>4, <1>5, <2>1
<1>7. r = b
  BY <1>1, <1>4, <1>5, <1>6, SeqEqual
<1>8. QED BY <1>1, <1>7 DEF r
=============================================================================
