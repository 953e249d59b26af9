---------------------------- MODULE SequenceFacts ----------------------------
(***************************************************************************)
(* Facts the proof modules share: least and greatest elements of sets of   *)
(* numbers, prefixes and last elements of sequences, and how many of a     *)
(* sequence's elements are of a kind.                                      *)
(***************************************************************************)
EXTENDS Integers, Sequences, SequencesExt, SequenceTheorems, FiniteSetTheorems,
        WellFoundedInduction, TLAPS

-----------------------------------------------------------------------------
(* Least and greatest elements                                             *)

\* A set of numbers that is not empty has a least element, which Min is.
LEMMA LeastElement ==
    ASSUME NEW S, S \subseteq Nat, S # {}
    PROVE  Min(S) \in S /\ \A y \in S : Min(S) <= y
  <1> DEFINE R == {p \in Nat \X Nat : p[1] < p[2]}
  <1>1. IsWellFoundedOn(R, Nat)
    BY NatLessThanWellFounded DEF OpToRel
  <1>2. \E x \in S : \A y \in S : ~ (<<y, x>> \in R)
    <2> HIDE DEF R
    <2> QED
      BY <1>1, WFMin
  <1>3. ASSUME NEW x \in S, \A y \in S : ~ (<<y, x>> \in R)
        PROVE  \A y \in S : x <= y
    <2> TAKE y \in S
    <2>1. ~ (<<y, x>> \in R) /\ x \in Nat /\ y \in Nat
      BY <1>3
    <2> QED
      BY <2>1
  <1> QED
    BY <1>2, <1>3 DEF Min

\* A bounded one has a greatest, which Max is.
LEMMA GreatestElement ==
    ASSUME NEW n \in Nat, NEW S, S \subseteq 0 .. n, S # {}
    PROVE  Max(S) \in S /\ \A y \in S : y <= Max(S)
  <1> DEFINE T == {n - x : x \in S}
  <1>1. T \subseteq Nat /\ T # {}
    <2>1. \A x \in S : x \in Nat /\ x <= n
      OBVIOUS
    <2>2. \A t \in T : t \in Nat
      BY <2>1
    <2> QED
      BY <2>2
  <1>2. PICK x \in S : n - x = Min(T)
    BY <1>1, LeastElement
  <1>3. \A y \in S : n - x <= n - y
    BY <1>1, <1>2, LeastElement
  <1>4. \A y \in S : y <= x
    BY <1>3
  <1> QED
    BY <1>4 DEF Max

\* Induction, over a set of numbers.
LEMMA NaturalsIn ==
    ASSUME NEW S, 0 \in S, \A n \in Nat : n \in S => n + 1 \in S
    PROVE  Nat \subseteq S
  <1> DEFINE T == {n \in Nat : ~ (n \in S)}
  <1>1. SUFFICES ASSUME T # {} PROVE FALSE
    OBVIOUS
  <1>2. Min(T) \in T /\ \A y \in T : Min(T) <= y
    <2>1. T \subseteq Nat
      OBVIOUS
    <2> HIDE DEF T
    <2> QED
      BY <1>1, <2>1, LeastElement
  <1> DEFINE m == Min(T)
  <1>3. m \in Nat /\ ~ (m \in S) /\ m # 0 /\ \A y \in T : m <= y
    BY <1>2
  <1> HIDE DEF m
  <1>4. m - 1 \in Nat /\ ~ (m - 1 \in T)
    BY <1>3
  <1>5. m - 1 \in S
    BY <1>4
  <1> QED
    BY <1>3, <1>4, <1>5

\* A function on a set, iterated from a member.
Iterates(g, S, a, step) ==
    /\ g \in [Nat -> S] /\ g[0] = a
    /\ \A n \in Nat : g[n + 1] = step[g[n]]

\* Every function on a set can be iterated.
LEMMA IterateFrom ==
    ASSUME NEW S, NEW a, NEW step, a \in S, step \in [S -> S]
    PROVE  \E g : Iterates(g, S, a, step)
  <1> DEFINE Upto(g, k) == /\ \A n \in 0 .. k : g[n] \in S
                           /\ g[0] = a
                           /\ \A n \in 0 .. k : n < k => g[n + 1] = step[g[n]]
             Built == {k \in Nat : \E g : Upto(g, k)}
             Part(k) == CHOOSE g : Upto(g, k)
             all == [n \in Nat |-> Part(n)[n]]
  <1>1. Nat \subseteq Built
    <2>1. 0 \in Built
      <3> DEFINE h == [n \in Nat |-> a]
      <3>1. Upto(h, 0)
        OBVIOUS
      <3> HIDE DEF h, Upto
      <3> QED
        BY <3>1
    <2>2. ASSUME NEW k \in Nat, k \in Built PROVE k + 1 \in Built
      <3>1. PICK g : Upto(g, k)
        BY <2>2
      <3> DEFINE h == [n \in Nat |-> IF n = k + 1 THEN step[g[k]] ELSE g[n]]
      <3>2. \A n \in 0 .. k : h[n] = g[n] /\ g[n] \in S
        BY <3>1
      <3>3. h[k + 1] = step[g[k]] /\ step[g[k]] \in S
        BY <3>1
      <3>4. ASSUME NEW n \in 0 .. k + 1, n < k + 1 PROVE h[n + 1] = step[h[n]]
        <4>1. CASE n = k
          BY <3>2, <3>3, <4>1
        <4>2. CASE n < k
          <5>1. n \in 0 .. k /\ n + 1 \in 0 .. k
            BY <4>2
          <5> HIDE DEF h
          <5> QED
            BY <3>1, <3>2, <4>2, <5>1
        <4> QED
          BY <3>4, <4>1, <4>2
      <3>5. ASSUME NEW n \in 0 .. k + 1 PROVE h[n] \in S
        <4>1. n \in 0 .. k \/ n = k + 1
          OBVIOUS
        <4> HIDE DEF h
        <4> QED
          BY <3>2, <3>3, <4>1
      <3>6. h[0] = a
        BY <3>1, <3>2
      <3> HIDE DEF h
      <3>7. Upto(h, k + 1)
        BY <3>4, <3>5, <3>6
      <3> HIDE DEF Upto
      <3> QED
        BY <3>7
    <2> HIDE DEF Built
    <2> QED
      BY <2>1, <2>2, NaturalsIn
  <1>2. ASSUME NEW k \in Nat PROVE Upto(Part(k), k)
    <2>1. \E g : Upto(g, k)
      BY <1>1
    <2> HIDE DEF Upto
    <2> QED
      BY <2>1
  <1>3. ASSUME NEW k \in Nat PROVE Part(k + 1)[k] = Part(k)[k]
    <2> DEFINE g == Part(k)
               h == Part(k + 1)
               Agree == {i \in Nat : i <= k => h[i] = g[i]}
    <2>1. Upto(g, k) /\ Upto(h, k + 1)
      <3> HIDE DEF Upto, Part
      <3> QED
        BY <1>2
    <2> HIDE DEF g, h
    <2>2. 0 \in Agree
      BY <2>1
    <2>3. ASSUME NEW i \in Nat, i \in Agree PROVE i + 1 \in Agree
      <3>1. SUFFICES ASSUME i + 1 <= k PROVE h[i + 1] = g[i + 1]
        OBVIOUS
      <3>2. i \in 0 .. k /\ i < k /\ i \in 0 .. k + 1 /\ i < k + 1
        BY <3>1
      <3>3. h[i] = g[i]
        BY <2>3, <3>2
      <3> QED
        BY <2>1, <3>2, <3>3
    <2>4. k \in Agree
      <3> HIDE DEF Agree
      <3> QED
        BY <2>2, <2>3, NaturalsIn
    <2> QED
      BY <2>4 DEF g, h
  <1>4. ASSUME NEW n \in Nat PROVE all[n] \in S
    <2>1. Upto(Part(n), n) /\ n \in 0 .. n
      BY <1>2
    <2> DEFINE p == Part(n)
    <2>2. all[n] = p[n]
      OBVIOUS
    <2> HIDE DEF p, all
    <2>3. Upto(p, n)
      BY <2>1 DEF p
    <2> HIDE DEF Part
    <2> QED
      BY <2>1, <2>2, <2>3
  <1>5. all[0] = a
    <2> DEFINE p == Part(0)
    <2>1. Upto(p, 0)
      <3> HIDE DEF Upto, Part
      <3> QED
        BY <1>2
    <2>2. all[0] = p[0]
      OBVIOUS
    <2> HIDE DEF p, all
    <2> QED
      BY <2>1, <2>2
  <1>6. ASSUME NEW n \in Nat PROVE all[n + 1] = step[all[n]]
    <2> DEFINE p == Part(n + 1)
    <2>1. Upto(p, n + 1)
      <3> HIDE DEF Upto, Part
      <3> QED
        BY <1>2
    <2>2. all[n + 1] = p[n + 1] /\ all[n] = p[n]
      <3>1. Part(n + 1)[n] = Part(n)[n]
        <4> HIDE DEF Part
        <4> QED
          BY <1>3
      <3>2. all[n] = Part(n)[n] /\ all[n + 1] = Part(n + 1)[n + 1]
        <4>1. n + 1 \in Nat
          OBVIOUS
        <4> HIDE DEF Part
        <4> QED
          BY <4>1
      <3> QED
        BY <3>1, <3>2, Zenon
    <2> HIDE DEF p, all
    <2>3. p[n + 1] = step[p[n]]
      BY <2>1
    <2> QED
      BY <2>2, <2>3
  <1>7. all \in [Nat -> S]
    <2> HIDE DEF Upto, Part
    <2> QED
      BY <1>4
  <1> HIDE DEF all
  <1>8. Iterates(all, S, a, step)
    BY <1>5, <1>6, <1>7 DEF Iterates
  <1> QED
    BY <1>8

\* A prefix of a sequence.
LEMMA PrefixFacts ==
    ASSUME NEW S, NEW s \in Seq(S), NEW n \in 0 .. Len(s)
    PROVE  /\ SubSeq(s, 1, n) \in Seq(S)
           /\ Len(SubSeq(s, 1, n)) = n
           /\ \A k \in 1 .. n : SubSeq(s, 1, n)[k] = s[k]
  <1>1. \A k \in 1 .. n : s[k] \in S
    BY LenProperties, ElementOfSeq
  <1>2. Len(s) \in Nat
    BY LenProperties
  <1> QED
    BY <1>1, <1>2, SubSeqProperties

\* A sequence with an element more.
LEMMA AppendFacts ==
    ASSUME NEW S, NEW s \in Seq(S), NEW e \in S
    PROVE  /\ Append(s, e) \in Seq(S)
           /\ Len(Append(s, e)) = Len(s) + 1
           /\ \A k \in 1 .. Len(s) : Append(s, e)[k] = s[k]
           /\ Append(s, e)[Len(s) + 1] = e
           /\ Last(Append(s, e)) = e
  BY DEF Last

\* The last element of a sequence and the rest.
LEMMA LastFacts ==
    ASSUME NEW S, NEW s \in Seq(S), s # <<>>
    PROVE  /\ Len(s) \in Nat \ {0}
           /\ Last(s) = s[Len(s)] /\ Last(s) \in S
           /\ Front(s) \in Seq(S) /\ Len(Front(s)) = Len(s) - 1
           /\ \A k \in 1 .. Len(s) - 1 : Front(s)[k] = s[k]
  <1>1. Len(s) \in Nat \ {0}
    BY EmptySeq
  <1>2. Len(s) - 1 \in 0 .. Len(s) /\ Len(s) \in 1 .. Len(s)
    BY <1>1
  <1>3. Last(s) = s[Len(s)] /\ Last(s) \in S
    BY <1>2, ElementOfSeq DEF Last
  <1> QED
    BY <1>1, <1>2, <1>3, PrefixFacts DEF Front

-----------------------------------------------------------------------------
(* How many of the first n elements of a sequence are in a set             *)

Tally(s, S, n) == Cardinality({k \in 1 .. n : s[k] \in S})

\* What is tallied is finite, so a tally is a number.
LEMMA TallyFinite ==
    ASSUME NEW s, NEW S, NEW n \in Nat
    PROVE  IsFiniteSet({k \in 1 .. n : s[k] \in S}) /\ Tally(s, S, n) \in Nat
  <1>1. IsFiniteSet(1 .. n)
    BY FS_Interval
  <1>2. {k \in 1 .. n : s[k] \in S} \in SUBSET (1 .. n)
    OBVIOUS
  <1>3. IsFiniteSet({k \in 1 .. n : s[k] \in S})
    BY <1>1, <1>2, FS_Subset
  <1> QED
    BY <1>3, FS_CardinalityType DEF Tally

\* Nothing is tallied in an empty prefix.
LEMMA TallyZero ==
    ASSUME NEW s, NEW S
    PROVE  Tally(s, S, 0) = 0
  <1>1. {k \in 1 .. 0 : s[k] \in S} = {}
    OBVIOUS
  <1> QED
    BY <1>1, FS_EmptySet DEF Tally

\* A tally grows by one where an element counts.
LEMMA TallyNext ==
    ASSUME NEW s, NEW S, NEW n \in Nat
    PROVE  Tally(s, S, n + 1) = Tally(s, S, n) + (IF s[n + 1] \in S THEN 1 ELSE 0)
  <1> DEFINE A == {k \in 1 .. n : s[k] \in S}
             B == {k \in 1 .. n + 1 : s[k] \in S}
  <1>1. IsFiniteSet(A) /\ Cardinality(A) \in Nat
    BY TallyFinite DEF Tally
  <1>2. CASE s[n + 1] \in S
    <2>1. B = A \cup {n + 1} /\ ~ (n + 1 \in A)
      BY <1>2
    <2> HIDE DEF A, B
    <2>2. Cardinality(B) = Cardinality(A) + 1
      BY <1>1, <2>1, FS_AddElement
    <2> QED
      BY <1>2, <2>2 DEF Tally, A, B
  <1>3. CASE ~ (s[n + 1] \in S)
    <2>1. B = A
      BY <1>3
    <2> HIDE DEF A, B
    <2>2. Cardinality(B) = Cardinality(A) + 0
      BY <1>1, <2>1
    <2> QED
      BY <1>3, <2>2 DEF Tally, A, B
  <1> QED
    BY <1>2, <1>3

\* A tally depends only on which elements count.
LEMMA TallyAgrees ==
    ASSUME NEW s, NEW t, NEW S, NEW n \in Nat, \A k \in 1 .. n : s[k] \in S <=> t[k] \in S
    PROVE  Tally(s, S, n) = Tally(t, S, n)
  <1>1. {k \in 1 .. n : s[k] \in S} = {k \in 1 .. n : t[k] \in S}
    OBVIOUS
  <1> QED
    BY <1>1 DEF Tally

\* What is cut off is what there was less what is left.
LEMMA TallyCut ==
    ASSUME NEW T, NEW s \in Seq(T), NEW S, NEW n \in 0 .. Len(s)
    PROVE  /\ Len(SubSeq(s, n + 1, Len(s))) = Len(s) - n
           /\ \A k \in 1 .. Len(s) - n : SubSeq(s, n + 1, Len(s))[k] = s[k + n]
           /\ Tally(SubSeq(s, n + 1, Len(s)), S, Len(s) - n) = Tally(s, S, Len(s)) - Tally(s, S, n)
           /\ Tally(s, S, n) <= Tally(s, S, Len(s))
  <1> DEFINE N == Len(s)
             gone == SubSeq(s, n + 1, N)
             A == {k \in 1 .. n : s[k] \in S}
             B == {k \in n + 1 .. N : s[k] \in S}
             C == {k \in 1 .. N - n : gone[k] \in S}
             W == {k \in 1 .. N : s[k] \in S}
  <1>1. N \in Nat /\ n \in Nat /\ n <= N /\ \A k \in 1 .. N : s[k] \in T
    BY LenProperties, ElementOfSeq
  <1>2. Len(gone) = N - n /\ \A k \in 1 .. N - n : gone[k] = s[k + n]
    <2>1. /\ Len(gone) = IF n + 1 <= N THEN N - (n + 1) + 1 ELSE 0
          /\ \A i \in 1 .. N - (n + 1) + 1 : gone[i] = s[n + 1 + i - 1]
      BY <1>1, SubSeqProperties
    <2>2. Len(gone) = N - n
      BY <1>1, <2>1
    <2>3. ASSUME NEW k \in 1 .. N - n PROVE gone[k] = s[k + n]
      <3>1. k \in 1 .. N - (n + 1) + 1 /\ n + 1 + k - 1 = k + n
        BY <1>1
      <3> QED
        BY <2>1, <3>1
    <2> QED
      BY <2>2, <2>3
  <1>3. /\ IsFiniteSet(A) /\ IsFiniteSet(C) /\ IsFiniteSet(W)
        /\ Cardinality(A) \in Nat /\ Cardinality(C) \in Nat /\ Cardinality(W) \in Nat
    <2>1. N - n \in Nat
      BY <1>1
    <2> HIDE DEF gone, N
    <2> QED
      BY <1>1, <2>1, TallyFinite DEF Tally
  <1>4. IsFiniteSet(B)
    <2>1. B \in SUBSET W
      BY <1>1
    <2> QED
      BY <1>3, <2>1, FS_Subset
  <1>5. Cardinality(B) = Cardinality(C)
    <2> DEFINE f == [k \in C |-> k + n]
    <2> HIDE DEF gone
    <2>1. f \in [C -> B]
      BY <1>1, <1>2
    <2>2. \A a, b \in C : f[a] = f[b] => a = b
      BY <1>1
    <2>3. ASSUME NEW t \in B PROVE \E c \in C : f[c] = t
      <3>1. t - n \in 1 .. N - n /\ (t - n) + n = t
        BY <1>1
      <3>2. t - n \in C
        BY <3>1, <1>2
      <3> QED
        BY <3>1, <3>2
    <2> HIDE DEF f
    <2>4. f \in Bijection(C, B)
      BY <2>1, <2>2, <2>3 DEF Bijection, Injection, Surjection, IsInjective
    <2>5. ExistsBijection(C, B)
      BY <2>4 DEF ExistsBijection
    <2> QED
      BY <1>3, <2>5, FS_Bijection
  <1>6. Cardinality(W) = Cardinality(A) + Cardinality(B)
    <2>1. W = A \cup B /\ A \cap B = {}
      BY <1>1
    <2> HIDE DEF A, B, W
    <2>2. Cardinality(A \cup B) = Cardinality(A) + Cardinality(B) - Cardinality(A \cap B)
      BY <1>3, <1>4, FS_Union
    <2>3. Cardinality(A \cap B) = 0 /\ Cardinality(B) \in Nat
      BY <1>4, <2>1, FS_EmptySet, FS_CardinalityType
    <2> QED
      BY <1>3, <2>1, <2>2, <2>3
  <1>7. /\ Tally(s, S, N) = Cardinality(W) /\ Tally(s, S, n) = Cardinality(A)
        /\ Tally(gone, S, N - n) = Cardinality(C)
    BY DEF Tally
  <1> HIDE DEF A, B, C, W, gone, N
  <1>8. Tally(gone, S, N - n) = Tally(s, S, N) - Tally(s, S, n) /\ Tally(s, S, n) <= Tally(s, S, N)
    BY <1>3, <1>5, <1>6, <1>7
  <1> QED
    BY <1>2, <1>8 DEF gone, N
==============================================================================
