--------------------------- MODULE SequenceLemmas ----------------------------
(***************************************************************************)
(* Facts about natural numbers and sequences that the proofs of several    *)
(* components need: induction, the sequence of a finite set's elements,    *)
(* and sequences put together.                                             *)
(***************************************************************************)
EXTENDS Integers, SequencesExt, FiniteSetTheorems, WellFoundedInduction, TLAPS

-----------------------------------------------------------------------------
\* Induction for a set rather than for a predicate: a set that has 0 and, with a
\* number, the next one, has them all.  Of the others there would be a least one.
LEMMA SetInduction ==
  ASSUME NEW S, 0 \in S, \A n \in Nat : n \in S => n + 1 \in S
  PROVE  \A n \in Nat : n \in S
<1> DEFINE T == Nat \ S
           R == OpToRel(<, Nat)
<1>1. IsWellFoundedOn(R, Nat)
  BY NatLessThanWellFounded, Zenon
<1>2. \A x, y \in Nat : <<x, y>> \in R <=> x < y
  BY DEF OpToRel
<1> HIDE DEF R
<1>3. SUFFICES ASSUME T # {} PROVE FALSE
  OBVIOUS
<1>4. T \subseteq Nat
  OBVIOUS
<1>5. PICK x \in T : \A y \in T : ~ (<<y, x>> \in R)
  <2> HIDE DEF T
  <2>1. QED
    BY <1>1, <1>3, <1>4, WFMin, Zenon
<1>6. x - 1 \in T /\ x - 1 < x
  OBVIOUS
<1>7. QED
  BY <1>2, <1>5, <1>6

\* The least element of a set of numbers.
LEMMA MinOfSet ==
  ASSUME NEW S, S \subseteq Nat, S # {}
  PROVE  Min(S) \in S /\ \A y \in S : Min(S) =< y
<1> DEFINE R == {ss \in Nat \X Nat : ss[1] < ss[2]}
<1>1. IsWellFoundedOn(R, Nat)
  BY NatLessThanWellFounded, Zenon DEF OpToRel
<1>2. PICK x \in S : \A y \in S : <<y, x>> \notin R
  <2> HIDE DEF R
  <2>1. QED
    BY <1>1, WFMin
<1>3. \A y \in S : x =< y
  <2>1. SUFFICES ASSUME NEW y \in S, ~(x =< y) PROVE <<y, x>> \in R
    BY <1>2
  <2>2. QED
    BY <2>1
<1>4. QED
  BY <1>3, Zenon DEF Min

-----------------------------------------------------------------------------
\* SetToSeq lists every element of a finite set, and nothing else.
LEMMA SetListed ==
  ASSUME NEW S, IsFiniteSet(S)
  PROVE  /\ Cardinality(S) \in Nat
         /\ SetToSeq(S) \in [1 .. Cardinality(S) -> S]
         /\ \A x \in S : \E k \in 1 .. Cardinality(S) : SetToSeq(S)[k] = x
<1> DEFINE n == Cardinality(S)
           f == SetToSeq(S)
<1>1. n \in Nat /\ ExistsBijection(1 .. n, S)
  BY FS_CardinalityType
<1>2. \E g \in [1 .. n -> S] : IsInjective(g)
  BY <1>1, Zenon DEF ExistsBijection, Bijection, Injection
<1>3. f \in [1 .. n -> S] /\ IsInjective(f)
  BY <1>2, Zenon DEF SetToSeq
<1>4. f \in Injection(1 .. n, S)
  BY <1>3, Zenon DEF Injection
<1>5. IsFiniteSet(1 .. n) /\ Cardinality(1 .. n) = n
  <2> HIDE DEF n
  <2>1. QED
    BY <1>1, FS_Interval
<1>6. f \in Surjection(1 .. n, S)
  <2> HIDE DEF f
  <2>1. QED
    BY <1>4, <1>5, FS_Injection
<1>7. QED
  BY <1>1, <1>3, <1>6, Zenon DEF Surjection

-----------------------------------------------------------------------------
\* What is in a queue after the operations the code performs on it.
LEMMA AppendSet ==
  ASSUME NEW S, NEW s \in Seq(S), NEW e \in S
  PROVE  Append(s, e) \in Seq(S) /\ ToSet(Append(s, e)) = ToSet(s) \cup {e}
<1> DEFINE t == Append(s, e)
<1>1. /\ t \in Seq(S) /\ Len(t) = Len(s) + 1
      /\ \A n \in 1 .. Len(s) : t[n] = s[n]
      /\ t[Len(s) + 1] = e
  OBVIOUS
<1> HIDE DEF t
<1>2. ToSet(t) = ToSet(s) \cup {e}
  BY <1>1 DEF ToSet
<1>3. QED
  BY <1>1, <1>2 DEF t

\* Two commands at once.
LEMMA PairSet ==
  ASSUME NEW S, NEW s \in Seq(S), NEW e \in S, NEW f \in S
  PROVE  s \o <<e, f>> \in Seq(S) /\ ToSet(s \o <<e, f>>) = ToSet(s) \cup {e, f}
<1> DEFINE t == s \o <<e, f>>
<1>1. /\ t \in Seq(S) /\ Len(t) = Len(s) + 2
      /\ \A n \in 1 .. Len(s) : t[n] = s[n]
      /\ t[Len(s) + 1] = e /\ t[Len(s) + 2] = f
  OBVIOUS
<1> HIDE DEF t
<1>2. ToSet(t) = ToSet(s) \cup {e, f}
  BY <1>1 DEF ToSet
<1>3. QED
  BY <1>1, <1>2 DEF t

\* The next element is taken.
LEMMA TailSet ==
  ASSUME NEW S, NEW s \in Seq(S), s # <<>>
  PROVE  /\ Head(s) \in S /\ Head(s) \in ToSet(s)
         /\ Tail(s) \in Seq(S) /\ ToSet(Tail(s)) \subseteq ToSet(s)
BY DEF ToSet

\* What is left when the first occurrence of an element is removed.
LEMMA RemoveFirstType ==
  ASSUME NEW S, NEW s \in Seq(S), NEW e
  PROVE  RemoveFirst(s, e) \in Seq(S)
<1>1. CASE ~ \E i \in 1 .. Len(s) : s[i] = e
  BY <1>1 DEF RemoveFirst
<1>2. CASE \E i \in 1 .. Len(s) : s[i] = e
  <2> DEFINE I == {i \in 1 .. Len(s) : s[i] = e}
             k == Min(I)
  <2>1. k \in 1 .. Len(s)
    <3>1. I \subseteq Nat /\ I # {}
      BY <1>2
    <3>2. k \in I
      BY <3>1, MinOfSet
    <3>3. QED
      BY <3>2
  <2>2. RemoveFirst(s, e) = SubSeq(s, 1, k - 1) \o SubSeq(s, k + 1, Len(s))
    <3>1. SelectInSeq(s, LAMBDA v : v = e) = k
      BY <1>2 DEF SelectInSeq
    <3>2. QED
      BY <1>2, <3>1 DEF RemoveFirst, RemoveAt
  <2> HIDE DEF k
  <2>3. SubSeq(s, 1, k - 1) \in Seq(S) /\ SubSeq(s, k + 1, Len(s)) \in Seq(S)
    BY <2>1
  <2>4. QED
    BY <2>2, <2>3
<1>3. QED
  BY <1>1, <1>2

\* The elements of two sequences put together.
LEMMA Concatenated ==
  ASSUME NEW S, NEW s \in Seq(S), NEW t \in Seq(S)
  PROVE  /\ s \o t \in Seq(S)
         /\ Len(s) \in Nat /\ Len(t) \in Nat /\ Len(s \o t) = Len(s) + Len(t)
         /\ \A k \in 1 .. Len(s) : (s \o t)[k] = s[k]
         /\ \A k \in 1 .. Len(t) : (s \o t)[Len(s) + k] = t[k]
OBVIOUS

\* Any number of sequences put together.
LEMMA Flattened ==
  ASSUME NEW S, NEW seqs \in Seq(Seq(S))
  PROVE  FlattenSeq(seqs) \in Seq(S)
<1> DEFINE N == Len(seqs)
           Step(f, i) == IF i = 1 THEN seqs[i] ELSE f[i - 1] \o seqs[i]
           Flattens(f, n) ==
             /\ f \in [1 .. n -> Seq(S)]
             /\ f = [i \in 1 .. n |-> Step(f, i)]
           Partly(n) == \E f \in [1 .. n -> Seq(S)] : Flattens(f, n)
           Done == {n \in Nat : n <= N => Partly(n)}
<1>0. N \in Nat /\ \A i \in 1 .. N : seqs[i] \in Seq(S)
  OBVIOUS
<1> HIDE DEF N
<1>1. 0 \in Done
  <2> DEFINE e == [i \in 1 .. 0 |-> <<>>]
  <2>1. e \in [1 .. 0 -> Seq(S)]
    OBVIOUS
  <2>2. e = [i \in 1 .. 0 |-> Step(e, i)]
    OBVIOUS
  <2>3. Partly(0)
    BY <2>1, <2>2
  <2> HIDE DEF Partly
  <2>4. QED
    BY <2>3
<1>2. ASSUME NEW n \in Nat, n \in Done
      PROVE  n + 1 \in Done
  <2>1. SUFFICES ASSUME n + 1 <= N
                 PROVE  Partly(n + 1)
    <3> HIDE DEF Partly
    <3>1. QED
      OBVIOUS
  <2>2. PICK f \in [1 .. n -> Seq(S)] : Flattens(f, n)
    <3>1. n <= N
      BY <1>0, <2>1
    <3>2. Partly(n)
      <4> HIDE DEF Partly
      <4>1. QED
        BY <1>2, <3>1
    <3>3. QED
      BY <3>2
  <2>3. Step(f, n + 1) \in Seq(S)
    <3>1. seqs[n + 1] \in Seq(S)
      BY <1>0, <2>1
    <3>2. n # 0 => f[n] \in Seq(S)
      OBVIOUS
    <3>3. n # 0 => f[n] \o seqs[n + 1] \in Seq(S)
      BY <3>1, <3>2
    <3>4. QED
      BY <3>1, <3>3
  <2> DEFINE g == [i \in 1 .. n + 1 |-> IF i = n + 1 THEN Step(f, i) ELSE f[i]]
  <2>4. g \in [1 .. n + 1 -> Seq(S)]
    BY <2>3
  <2>5. ASSUME NEW i \in 1 .. n + 1
        PROVE  g[i] = Step(g, i)
    <3>1. i # 1 => i - 1 \in 1 .. n /\ g[i - 1] = f[i - 1]
      OBVIOUS
    <3>2. CASE i = n + 1
      BY <3>1, <3>2
    <3>3. CASE i # n + 1
      <4>1. i \in 1 .. n /\ g[i] = f[i]
        BY <3>3
      <4>2. f[i] = Step(f, i)
        BY <2>2, <4>1
      <4>3. QED
        BY <3>1, <4>1, <4>2
    <3>4. QED
      BY <3>2, <3>3
  <2>6. g = [i \in 1 .. n + 1 |-> Step(g, i)]
    BY <2>4, <2>5
  <2>7. QED
    BY <2>4, <2>6
<1>3. \A n \in Nat : n \in Done
  <2> HIDE DEF Done
  <2>1. QED
    BY <1>1, <1>2, SetInduction
<1>4. \E f : f = [i \in 1 .. N |-> Step(f, i)]
  <2>1. Partly(N)
    <3> HIDE DEF Partly
    <3>1. QED
      BY <1>0, <1>3
  <2>2. QED
    BY <2>1
<1> DEFINE flatten == CHOOSE f : f = [i \in 1 .. N |-> Step(f, i)]
<1>5. flatten = [i \in 1 .. N |-> Step(flatten, i)]
  BY <1>4
<1> DEFINE Good == {n \in Nat : \A i \in 1 .. n : i <= N => flatten[i] \in Seq(S)}
<1> HIDE DEF flatten
<1>6. 0 \in Good
  OBVIOUS
<1>7. ASSUME NEW n \in Nat, n \in Good
      PROVE  n + 1 \in Good
  <2>1. SUFFICES ASSUME n + 1 <= N
                 PROVE  flatten[n + 1] \in Seq(S)
    BY <1>7
  <2>2. flatten[n + 1] = Step(flatten, n + 1)
    <3>1. n + 1 \in 1 .. N
      BY <1>0, <2>1
    <3> HIDE DEF Step
    <3>2. QED
      BY <1>5, <3>1
  <2>3. seqs[n + 1] \in Seq(S)
    BY <1>0, <2>1
  <2>4. n # 0 => flatten[n] \in Seq(S)
    BY <1>0, <1>7, <2>1
  <2>5. QED
    BY <2>2, <2>3, <2>4
<1>8. \A n \in Nat : n \in Good
  <2> HIDE DEF Good
  <2>1. QED
    BY <1>6, <1>7, SetInduction
<1>9. N # 0 => flatten[N] \in Seq(S)
  <2>1. N \in Good
    BY <1>0, <1>8
  <2>2. N # 0 => N \in 1 .. N /\ N <= N
    BY <1>0
  <2>3. QED
    BY <2>1, <2>2
<1>10. FlattenSeq(seqs) = IF N = 0 THEN seqs ELSE flatten[N]
  BY Zenon DEF FlattenSeq, flatten, N
<1>11. QED
  BY <1>0, <1>9, <1>10 DEF N
=============================================================================
