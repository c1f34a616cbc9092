--------------------------- MODULE SequenceLemmas ---------------------------
(***************************************************************************)
(* Facts about numbers and sequences that the proofs about components      *)
(* share.                                                                  *)
(***************************************************************************)
EXTENDS Integers, SequencesExt, SequenceTheorems, WellFoundedInduction, TLAPS

\* A set of naturals that is not empty has a least element: what stands in for
\* induction, a counterexample being refuted by the one before it.
LEMMA LeastElement ==
  ASSUME NEW S \in SUBSET Nat, S # {}
  PROVE  \E n \in S : \A m \in S : n <= m
<1>1. PICK n \in S : \A m \in S : ~(<<m, n>> \in OpToRel(<, Nat))
  BY NatLessThanWellFounded, WFMin
<1>2. \A m \in S : ~(m < n)
  BY <1>1 DEF OpToRel
<1> QED
  BY <1>2

\* Induction from k to n, for a set of numbers.
LEMMA UpTo ==
  ASSUME NEW S, NEW k \in Nat, NEW n \in Nat, k \in S, \A m \in k .. n - 1 : m \in S => m + 1 \in S
  PROVE  \A m \in k .. n : m \in S
<1> DEFINE Out == {m \in k .. n : m \notin S}
<1> SUFFICES ASSUME Out # {} PROVE FALSE
  OBVIOUS
<1>1. PICK m \in Out : \A j \in Out : m <= j
  <2>1. Out \in SUBSET Nat
    OBVIOUS
  <2> QED
    BY <2>1, LeastElement
<1>2. m - 1 \in k .. n - 1 /\ m - 1 \notin Out
  BY <1>1
<1> QED
  BY <1>2

\* A set of integers with a bound from above has a greatest element.
LEMMA GreatestElement ==
  ASSUME NEW S \in SUBSET Nat, S # {}, NEW b \in Nat, \A n \in S : n <= b
  PROVE  \E n \in S : \A m \in S : m <= n
<1> DEFINE T == {t \in Nat : b - t \in S}
<1>1. \A n \in S : b - n \in T
  <2> SUFFICES ASSUME NEW n \in S PROVE b - n \in T
    OBVIOUS
  <2>1. n \in Nat /\ b - n \in Nat /\ b - (b - n) = n
    OBVIOUS
  <2> QED
    BY <2>1
<1>2. T \in SUBSET Nat /\ T # {}
  BY <1>1
<1>3. PICK t \in T : \A u \in T : t <= u
  BY <1>2, LeastElement
<1>4. b - t \in S /\ t \in Nat
  BY <1>3
<1>5. \A m \in S : m <= b - t
  BY <1>1, <1>3, <1>4
<1> QED
  BY <1>4, <1>5
----------------------------------------------------------------------------
(* Sequences that grow and shrink at their end *)

\* What appending one element does ...
LEMMA Pushed ==
  ASSUME NEW S, NEW s \in Seq(S), NEW a \in S, NEW t, t = Append(s, a)
  PROVE  /\ t \in Seq(S) /\ Len(t) = Len(s) + 1 /\ Len(s) \in Nat
         /\ \A i \in 1 .. Len(s) : t[i] = s[i]
         /\ t[Len(s) + 1] = a
BY AppendProperties, LenProperties

\* ... and two.
LEMMA PushedTwo ==
  ASSUME NEW S, NEW s \in Seq(S), NEW a \in S, NEW b \in S, NEW t, t = s \o <<a, b>>
  PROVE  /\ t \in Seq(S) /\ Len(t) = Len(s) + 2 /\ Len(s) \in Nat
         /\ \A i \in 1 .. Len(s) : t[i] = s[i]
         /\ t[Len(s) + 1] = a /\ t[Len(s) + 2] = b
<1>1. <<a, b>> \in Seq(S) /\ Len(<<a, b>>) = 2 /\ <<a, b>>[1] = a /\ <<a, b>>[2] = b
  OBVIOUS
<1> QED
  BY <1>1, ConcatProperties, LenProperties

\* One sequence behind another.
LEMMA Joined ==
  ASSUME NEW S, NEW s \in Seq(S), NEW t \in Seq(S), NEW u, u = s \o t
  PROVE  /\ u \in Seq(S) /\ Len(u) = Len(s) + Len(t) /\ Len(s) \in Nat /\ Len(t) \in Nat
         /\ \A i \in 1 .. Len(s) : u[i] = s[i]
         /\ \A i \in 1 .. Len(t) : u[Len(s) + i] = t[i]
<1>1. u \in Seq(S) /\ Len(u) = Len(s) + Len(t) /\ Len(s) \in Nat /\ Len(t) \in Nat
  BY LenProperties, ConcatProperties
<1>2. \A i \in 1 .. Len(s) : u[i] = s[i]
  BY <1>1, ConcatProperties
<1>3. ASSUME NEW i \in 1 .. Len(t) PROVE u[Len(s) + i] = t[i]
  <2>1. Len(s) + i \in 1 .. Len(s) + Len(t) /\ ~(Len(s) + i <= Len(s)) /\ (Len(s) + i) - Len(s) = i
    BY <1>1
  <2> QED
    BY <2>1, ConcatProperties
<1> QED
  BY <1>1, <1>2, <1>3

\* u is s with t behind it.
IsJoin(u, s, t, S) ==
  /\ u \in Seq(S) /\ Len(u) = Len(s) + Len(t)
  /\ \A i \in 1 .. Len(s) : u[i] = s[i]
  /\ \A i \in 1 .. Len(t) : u[Len(s) + i] = t[i]

\* What Joined says, as one fact.
LEMMA JoinedIs ==
  ASSUME NEW S, NEW s \in Seq(S), NEW t \in Seq(S), NEW u, u = s \o t
  PROVE  IsJoin(u, s, t, S)
BY Joined DEF IsJoin

\* The first k elements.
LEMMA CutTo ==
  ASSUME NEW S, NEW s \in Seq(S), NEW k \in 0 .. Len(s), NEW t, t = SubSeq(s, 1, k)
  PROVE  /\ t \in Seq(S) /\ Len(t) = k /\ Len(s) \in Nat
         /\ \A i \in 1 .. k : t[i] = s[i]
<1>1. Len(s) \in Nat /\ \A i \in 1 .. k : s[i] \in S
  BY LenProperties, ElementOfSeq
<1> QED
  BY <1>1, SubSeqProperties

\* All elements but the last.
LEMMA Popped ==
  ASSUME NEW S, NEW s \in Seq(S), s # <<>>, NEW t, t = Front(s)
  PROVE  /\ t \in Seq(S) /\ Len(t) = Len(s) - 1 /\ Len(s) \in Nat \ {0}
         /\ \A i \in 1 .. Len(t) : t[i] = s[i]
<1>1. Len(s) \in Nat \ {0}
  BY EmptySeq
<1>2. PICK n \in 0 .. Len(s) : n = Len(s) - 1
  <2>1. Len(s) - 1 \in 0 .. Len(s)
    BY <1>1
  <2> QED
    BY <2>1, Zenon
<1>3. t = SubSeq(s, 1, n)
  BY <1>2 DEF Front
<1>4. t \in Seq(S) /\ Len(t) = n /\ \A i \in 1 .. n : t[i] = s[i]
  BY <1>3, CutTo
<1> QED
  BY <1>1, <1>2, <1>4

\* Another last element.
LEMMA Replaced ==
  ASSUME NEW S, NEW s \in Seq(S), s # <<>>, NEW a \in S, NEW t, t = Append(Front(s), a)
  PROVE  /\ t \in Seq(S) /\ Len(t) = Len(s) /\ Len(s) \in Nat \ {0}
         /\ \A i \in 1 .. Len(s) - 1 : t[i] = s[i]
         /\ t[Len(s)] = a
<1>1. /\ Front(s) \in Seq(S) /\ Len(Front(s)) = Len(s) - 1 /\ Len(s) \in Nat \ {0}
      /\ \A i \in 1 .. Len(s) - 1 : Front(s)[i] = s[i]
  BY Popped
<1> QED
  BY <1>1, Pushed

\* A sequence one longer than another that agrees with it is grown from it.
LEMMA IsAppend ==
  ASSUME NEW S, NEW s \in Seq(S), NEW t \in Seq(S), NEW a, Len(t) = Len(s) + 1,
         \A i \in 1 .. Len(s) : t[i] = s[i], t[Len(s) + 1] = a
  PROVE  t = Append(s, a)
<1>1. Len(s) \in Nat /\ Len(t) \in Nat /\ Len(s) + 1 \in 1 .. Len(t)
  BY LenProperties
<1>2. a \in S
  BY <1>1, ElementOfSeq
<1> DEFINE u == Append(s, a)
<1>3. u \in Seq(S) /\ Len(u) = Len(s) + 1 /\ (\A i \in 1 .. Len(s) : u[i] = s[i]) /\ u[Len(s) + 1] = a
  BY <1>2, Pushed
<1> HIDE DEF u
<1>4. \A i \in 1 .. Len(t) : t[i] = u[i]
  BY <1>1, <1>3
<1> QED
  BY <1>3, <1>4, SeqEqual DEF u

\* A sequence that agrees with the beginning of another is cut from it.
LEMMA IsCut ==
  ASSUME NEW S, NEW s \in Seq(S), NEW t \in Seq(S), Len(t) \in 0 .. Len(s),
         \A i \in 1 .. Len(t) : t[i] = s[i]
  PROVE  t = SubSeq(s, 1, Len(t))
<1> DEFINE u == SubSeq(s, 1, Len(t))
<1>1. u \in Seq(S) /\ Len(u) = Len(t) /\ \A i \in 1 .. Len(t) : u[i] = s[i]
  BY CutTo
<1> HIDE DEF u
<1> QED
  BY <1>1, SeqEqual DEF u

\* A sequence of sequences over S, flattened, is one over S: its prefixes are,
\* one after the other.
LEMMA Flattened ==
  ASSUME NEW S, NEW s \in Seq(Seq(S))
  PROVE  FlattenSeq(s) \in Seq(S)
<1> DEFINE n == Len(s)
           Next(f, i) == IF i = 1 THEN s[i] ELSE f[i - 1] \o s[i]
           Flat(f) == f = [i \in 1 .. n |-> Next(f, i)]
           Prefix(f, m) == f \in [1 .. m -> Seq(S)] /\ \A i \in 1 .. m : f[i] = Next(f, i)
           Done == {m \in 1 .. n : \E f : Prefix(f, m)}
           flat == CHOOSE f : Flat(f)
<1>1. n \in Nat /\ \A i \in 1 .. n : s[i] \in Seq(S)
  BY LenProperties, ElementOfSeq
<1>2. CASE n = 0
  <2>1. s = <<>>
    BY <1>2, EmptySeq
  <2> QED
    BY <1>2, <2>1, EmptySeq DEF FlattenSeq
<1>3. CASE n > 0
  <2>1. 1 \in Done
    <3>1. Prefix([i \in 1 .. 1 |-> s[1]], 1)
      BY <1>1, <1>3
    <3> HIDE DEF Prefix
    <3> QED
      BY <1>1, <1>3, <3>1
  <2>2. ASSUME NEW m \in 1 .. n - 1, m \in Done PROVE m + 1 \in Done
    <3>1. PICK f : Prefix(f, m)
      BY <2>2
    <3> DEFINE g == [i \in 1 .. m + 1 |-> IF i = m + 1 THEN f[m] \o s[m + 1] ELSE f[i]]
    <3>2. m \in Nat /\ m >= 1 /\ m + 1 \in 1 .. n /\ f[m] \in Seq(S) /\ s[m + 1] \in Seq(S)
      BY <1>1, <3>1
    <3>3. f[m] \o s[m + 1] \in Seq(S)
      BY <3>2, ConcatProperties
    <3>4. g \in [1 .. m + 1 -> Seq(S)]
      BY <3>1, <3>2, <3>3
    <3>5. ASSUME NEW i \in 1 .. m + 1 PROVE g[i] = Next(g, i)
      <4>1. CASE i = m + 1
        <5>1. i - 1 = m /\ i - 1 \in 1 .. m + 1 /\ i - 1 # m + 1 /\ i # 1
          BY <3>2, <4>1
        <5>2. g[i] = f[m] \o s[m + 1] /\ g[i - 1] = f[m]
          BY <4>1, <5>1
        <5> HIDE DEF g
        <5> QED
          BY <4>1, <5>1, <5>2
      <4>2. CASE i # m + 1
        <5>1. i \in 1 .. m /\ g[i] = f[i] /\ (i # 1 => i - 1 \in 1 .. m /\ g[i - 1] = f[i - 1])
          BY <3>2, <4>2
        <5>2. f[i] = Next(f, i)
          BY <3>1, <5>1
        <5> HIDE DEF g
        <5> QED
          BY <5>1, <5>2
      <4> QED
        BY <4>1, <4>2
    <3>6. Prefix(g, m + 1)
      <4> HIDE DEF g, Next
      <4> QED
        BY <3>4, <3>5
    <3> HIDE DEF Prefix, g
    <3> QED
      BY <3>2, <3>6
  <2>3. n \in Done
    <3> HIDE DEF Done
    <3>1. \A m \in 1 .. n : m \in Done
      BY <1>1, <2>1, <2>2, UpTo
    <3> QED
      BY <1>1, <1>3, <3>1
  <2>4. PICK f : Prefix(f, n)
    BY <2>3
  <2>5. Flat(f)
    BY <2>4
  <2>6. Flat(flat)
    <3> HIDE DEF Flat
    <3> QED
      BY <2>5, Zenon
  <2>7. \A i \in 1 .. n : flat[i] = Next(flat, i)
    <3> HIDE DEF flat
    <3>1. flat = [i \in 1 .. n |-> Next(flat, i)]
      BY <2>6
    <3> QED
      BY <3>1
  <2> HIDE DEF flat
  <2> DEFINE Same == {i \in 1 .. n : flat[i] = f[i]}
  <2>8. 1 \in Same
    <3>1. 1 \in 1 .. n
      BY <1>1, <1>3
    <3>2. flat[1] = s[1]
      BY <2>7, <3>1
    <3>3. f[1] = s[1]
      BY <2>4, <3>1
    <3> QED
      BY <3>1, <3>2, <3>3
  <2>9. ASSUME NEW i \in 1 .. n - 1, i \in Same PROVE i + 1 \in Same
    <3>1. i + 1 \in 1 .. n /\ i + 1 # 1 /\ (i + 1) - 1 = i
      BY <1>1
    <3>2. flat[i + 1] = flat[i] \o s[i + 1] /\ f[i + 1] = f[i] \o s[i + 1]
      BY <2>4, <2>7, <3>1
    <3> QED
      BY <2>9, <3>1, <3>2
  <2>10. n \in Same
    <3> HIDE DEF Same
    <3>1. \A i \in 1 .. n : i \in Same
      BY <1>1, <2>8, <2>9, UpTo
    <3> QED
      BY <1>1, <1>3, <3>1
  <2>11. FlattenSeq(s) = flat[n]
    BY <1>3 DEF FlattenSeq, flat
  <2> QED
    BY <1>1, <1>3, <2>4, <2>10, <2>11
<1> QED
  BY <1>1, <1>2, <1>3

\* The last element of a set of positions.
LEMMA MaxIs ==
  ASSUME NEW I \in SUBSET Nat, I # {}, NEW n \in Nat, \A i \in I : i <= n
  PROVE  Max(I) \in I /\ \A i \in I : i <= Max(I)
<1>1. PICK m \in I : \A i \in I : i <= m
  BY GreatestElement
<1> DEFINE Greatest(m1) == m1 \in I /\ \A i \in I : m1 >= i
<1>2. Greatest(m)
  BY <1>1
<1>3. Max(I) = CHOOSE x \in I : \A y \in I : x >= y
  BY DEF Max
<1>4. Greatest(Max(I))
  BY <1>2, <1>3
<1> QED
  BY <1>4
----------------------------------------------------------------------------
(* Folds: FoldLeft goes through the sets of positions, the greatest last *)

\* f folds the first n steps, from a: of each set of positions the greatest is last.
Folds(f, n, S, a, step) ==
  /\ f \in [SUBSET (1 .. n) -> S] /\ f[{}] = a
  /\ \A s \in SUBSET (1 .. n) : s # {} => f[s] = step[Max(s)][f[s \ {Max(s)}]]

\* Where each step takes S into S, there is such a fold, ...
LEMMA FoldExists ==
  ASSUME NEW n \in Nat, NEW S, NEW a \in S, NEW step \in [1 .. n -> [S -> S]]
  PROVE  \E f : Folds(f, n, S, a, step)
<1> DEFINE Next(f, s) == IF s = {} THEN a ELSE step[Max(s)][f[s \ {Max(s)}]]
           Prefix(f, m) == f \in [SUBSET (1 .. m) -> S] /\ \A s \in SUBSET (1 .. m) : f[s] = Next(f, s)
           Done == {m \in 0 .. n : \E f : Prefix(f, m)}
<1>1. 0 \in Done
  <2>1. Prefix([s \in SUBSET (1 .. 0) |-> a], 0)
    OBVIOUS
  <2> HIDE DEF Prefix
  <2> QED
    BY <2>1
<1>2. ASSUME NEW m \in 0 .. n - 1, m \in Done PROVE m + 1 \in Done
  <2>1. PICK f : Prefix(f, m)
    BY <1>2
  <2> DEFINE g == [s \in SUBSET (1 .. m + 1) |-> IF m + 1 \in s THEN step[m + 1][f[s \ {m + 1}]] ELSE f[s]]
  <2>2. m \in Nat /\ m + 1 \in 1 .. n /\ step[m + 1] \in [S -> S]
    OBVIOUS
  <2>3. \A s \in SUBSET (1 .. m + 1) : s \ {m + 1} \in SUBSET (1 .. m)
    OBVIOUS
  <2>4. \A s \in SUBSET (1 .. m + 1) : m + 1 \notin s => s \in SUBSET (1 .. m)
    OBVIOUS
  <2>5. \A s \in SUBSET (1 .. m + 1) : s # {} => Max(s) \in s /\ \A i \in s : i <= Max(s)
    <3> SUFFICES ASSUME NEW s \in SUBSET (1 .. m + 1), s # {}
                 PROVE  Max(s) \in s /\ \A i \in s : i <= Max(s)
      OBVIOUS
    <3>1. s \in SUBSET Nat /\ m + 1 \in Nat /\ \A i \in s : i <= m + 1
      BY <2>2
    <3> QED
      BY <3>1, MaxIs
  <2>6. g \in [SUBSET (1 .. m + 1) -> S]
    BY <2>1, <2>2, <2>3, <2>4
  <2>7. ASSUME NEW s \in SUBSET (1 .. m + 1) PROVE g[s] = Next(g, s)
    <3>1. CASE m + 1 \in s
      <4>1. Max(s) = m + 1
        <5>1. Max(s) \in s /\ m + 1 <= Max(s) /\ Max(s) \in 1 .. m + 1
          BY <2>5, <3>1
        <5> QED
          BY <2>2, <5>1
      <4>2. g[s] = step[m + 1][f[s \ {m + 1}]] /\ g[s \ {m + 1}] = f[s \ {m + 1}]
        BY <2>3, <3>1
      <4> HIDE DEF g
      <4> QED
        BY <3>1, <4>1, <4>2
    <3>2. CASE m + 1 \notin s
      <4>1. s \in SUBSET (1 .. m) /\ g[s] = f[s]
        BY <2>4, <3>2
      <4>2. s \ {Max(s)} \in SUBSET (1 .. m) /\ g[s \ {Max(s)}] = f[s \ {Max(s)}]
        BY <3>2, <4>1
      <4>3. f[s] = Next(f, s)
        BY <2>1, <4>1
      <4> HIDE DEF g
      <4> QED
        BY <4>1, <4>2, <4>3
    <3> QED
      BY <3>1, <3>2
  <2>8. Prefix(g, m + 1)
    <3> HIDE DEF g, Next
    <3> QED
      BY <2>6, <2>7
  <2> HIDE DEF Prefix, g
  <2> QED
    BY <2>2, <2>8
<1>3. n \in Done
  <2> HIDE DEF Done
  <2>1. \A m \in 0 .. n : m \in Done
    BY <1>1, <1>2, UpTo
  <2>2. n \in 0 .. n
    OBVIOUS
  <2> QED
    BY <2>1, <2>2, Zenon
<1>4. PICK f : Prefix(f, n)
  BY <1>3
<1>5. Folds(f, n, S, a, step)
  BY <1>4 DEF Folds
<1> QED
  BY <1>5

\* ... and a fold stays in S.
LEMMA FoldStays ==
  ASSUME NEW n \in Nat, NEW S, NEW g, g[{}] \in S,
         \A s \in SUBSET (1 .. n) : s # {} /\ g[s \ {Max(s)}] \in S => g[s] \in S
  PROVE  g[1 .. n] \in S
<1> DEFINE Done == {m \in 0 .. n : \A s \in SUBSET (1 .. m) : g[s] \in S}
<1>1. 0 \in Done
  <2>1. \A s \in SUBSET (1 .. 0) : s = {}
    OBVIOUS
  <2>2. \A s \in SUBSET (1 .. 0) : g[s] \in S
    BY <2>1, Zenon
  <2> QED
    BY <2>2
<1>2. ASSUME NEW m \in 0 .. n - 1, m \in Done PROVE m + 1 \in Done
  <2>1. m + 1 \in 0 .. n /\ m \in Nat /\ \A s \in SUBSET (1 .. m + 1) : s \in SUBSET (1 .. n)
    OBVIOUS
  <2>2. ASSUME NEW s \in SUBSET (1 .. m + 1) PROVE g[s] \in S
    <3>1. CASE m + 1 \in s
      <4>1. Max(s) \in s /\ \A i \in s : i <= Max(s)
        <5>1. s \in SUBSET Nat /\ s # {} /\ m + 1 \in Nat /\ \A i \in s : i <= m + 1
          BY <2>1, <3>1
        <5> QED
          BY <5>1, MaxIs
      <4>2. Max(s) = m + 1
        <5>1. Max(s) \in 1 .. m + 1 /\ m + 1 <= Max(s)
          BY <3>1, <4>1
        <5> QED
          BY <2>1, <5>1
      <4>3. s \ {Max(s)} \in SUBSET (1 .. m)
        BY <2>1, <4>2
      <4> QED
        BY <1>2, <2>1, <3>1, <4>3
    <3>2. CASE m + 1 \notin s
      <4>1. s \in SUBSET (1 .. m)
        BY <2>1, <3>2
      <4> QED
        BY <1>2, <4>1
    <3> QED
      BY <3>1, <3>2
  <2> QED
    BY <2>1, <2>2
<1>3. n \in Done
  <2> HIDE DEF Done
  <2>1. \A m \in 0 .. n : m \in Done
    BY <1>1, <1>2, UpTo
  <2>2. n \in 0 .. n
    OBVIOUS
  <2> QED
    BY <2>1, <2>2, Zenon
<1> QED
  BY <1>3
=============================================================================
