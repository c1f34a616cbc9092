-------------------------- MODULE WorkspaceProofs --------------------------
(***************************************************************************)
(* Proofs about Workspace and the editor in it, for any files, characters, *)
(* sizes and uses: facts about texts and their rows first, then what each  *)
(* operation of the editor keeps, then the workspace's steps.              *)
(***************************************************************************)
EXTENDS Workspace, SequenceLemmas, FiniteSetTheorems

----------------------------------------------------------------------------
(* Texts *)

\* The two pieces of a text.
LEMMA Pieces ==
  ASSUME NEW S, NEW t \in Seq(S), NEW n \in Nat
  PROVE  /\ Len(t) \in Nat /\ Least(n, Len(t)) \in 0 .. Len(t)
         /\ Upto(t, n) \in Seq(S) /\ Len(Upto(t, n)) = Least(n, Len(t))
         /\ \A i \in 1 .. Least(n, Len(t)) : Upto(t, n)[i] = t[i]
         /\ From(t, n) \in Seq(S) /\ Len(From(t, n)) = Greatest(Len(t) - n, 0)
         /\ \A i \in 1 .. Len(t) - n : From(t, n)[i] = t[n + i]
<1>1. Len(t) \in Nat /\ Least(n, Len(t)) \in 0 .. Len(t)
  BY LenProperties DEF Least
<1>2. /\ Upto(t, n) \in Seq(S) /\ Len(Upto(t, n)) = Least(n, Len(t))
      /\ \A i \in 1 .. Least(n, Len(t)) : Upto(t, n)[i] = t[i]
  <2> DEFINE m == Least(n, Len(t))
             u == Upto(t, n)
  <2>1. m \in 0 .. Len(t) /\ u = SubSeq(t, 1, m)
    BY <1>1 DEF Upto
  <2> HIDE DEF m, u
  <2>2. u \in Seq(S) /\ Len(u) = m /\ \A i \in 1 .. m : u[i] = t[i]
    BY <2>1, CutTo
  <2> QED
    BY <2>2 DEF m, u
<1> HIDE DEF Upto, From
<1>3. CASE n < Len(t)
  <2>1. n + 1 \in 1 .. Len(t) + 1 /\ Greatest(Len(t) - n, 0) = Len(t) - n
    BY <1>1, <1>3 DEF Greatest
  <2>2. /\ From(t, n) \in Seq(S) /\ Len(From(t, n)) = Len(t) - n
        /\ \A i \in 1 .. Len(t) - n : From(t, n)[i] = t[n + i]
    BY <1>1, <1>3, <2>1 DEF From
  <2> QED
    BY <1>1, <1>2, <2>1, <2>2
<1>4. CASE ~(n < Len(t))
  <2>1. Greatest(Len(t) - n, 0) = 0 /\ 1 .. Len(t) - n = {}
    BY <1>1, <1>4 DEF Greatest
  <2>2. From(t, n) = <<>>
    BY <1>1, <1>4 DEF From
  <2>3. From(t, n) \in Seq(S) /\ Len(From(t, n)) = 0
    BY <2>2
  <2> QED
    BY <1>1, <1>2, <2>1, <2>3
<1> QED
  BY <1>3, <1>4

\* u is t with a text of n put into it at pos, ...
PutIn(S, u, t, pos, n) ==
  u \in Seq(S) /\ Len(u) = Len(t) + n /\ \A i \in 1 .. Len(t) - pos : u[(pos + n) + i] = t[pos + i]

\* ... which Inserted makes; ...
LEMMA InsertedIs ==
  ASSUME NEW S, NEW t \in Seq(S), NEW s \in Seq(S), NEW pos \in 0 .. Len(t),
         NEW u, u = Inserted(t, pos, s)
  PROVE  PutIn(S, u, t, pos, Len(s))
<1> DEFINE a == Upto(t, pos)
           b == From(t, pos)
<1>1. Len(t) \in Nat /\ Len(s) \in Nat /\ pos \in Nat
  BY LenProperties
<1>2. /\ a \in Seq(S) /\ Len(a) = pos /\ b \in Seq(S) /\ Len(b) = Len(t) - pos
      /\ \A i \in 1 .. Len(t) - pos : b[i] = t[pos + i]
  BY <1>1, Pieces DEF Least, Greatest
<1>3. u = a \o s \o b
  BY DEF Inserted
<1> HIDE DEF a, b
<1> DEFINE as == a \o s
           all == as \o b
<1>8. as = a \o s /\ all = as \o b
  OBVIOUS
<1> HIDE DEF as, all
<1>4. as \in Seq(S) /\ Len(as) = pos + Len(s)
  <2>1. a \in Seq(S)
    BY <1>2
  <2>2. as \in Seq(S) /\ Len(as) = Len(a) + Len(s)
    BY <2>1, <1>8, Joined
  <2> QED
    BY <1>2, <2>2
<1>5. /\ all \in Seq(S) /\ Len(all) = pos + Len(s) + (Len(t) - pos)
      /\ \A i \in 1 .. Len(t) - pos : all[pos + Len(s) + i] = b[i]
  <2>1. b \in Seq(S) /\ as \in Seq(S)
    BY <1>2, <1>4
  <2>2. /\ all \in Seq(S) /\ Len(all) = Len(as) + Len(b)
        /\ \A i \in 1 .. Len(b) : all[Len(as) + i] = b[i]
    BY <2>1, <1>8, Joined
  <2> QED
    BY <1>2, <1>4, <2>2
<1>6. pos + Len(s) + (Len(t) - pos) = Len(t) + Len(s)
  BY <1>1
<1>7. u = all
  BY <1>3 DEF all, as
<1> QED
  BY <1>1, <1>2, <1>5, <1>6, <1>7 DEF PutIn

\* ... and with what is between pos and end taken out.
TakenOut(S, u, t, pos, end) ==
  /\ u \in Seq(S) /\ Len(u) = pos + Greatest(Len(t) - end, 0)
  /\ \A i \in 1 .. pos : u[i] = t[i]
  /\ \A i \in 1 .. Len(t) - end : u[pos + i] = t[end + i]

\* ... and this one Deleted.
LEMMA DeletedIs ==
  ASSUME NEW S, NEW t \in Seq(S), NEW pos \in 0 .. Len(t), NEW count \in Nat,
         NEW u, u = Deleted(t, pos, count), NEW end, end = pos + count
  PROVE  TakenOut(S, u, t, pos, end)
<1> DEFINE a == Upto(t, pos)
           b == From(t, end)
<1>1. Len(t) \in Nat /\ pos \in Nat /\ end \in Nat
  BY LenProperties
<1>2. /\ a \in Seq(S) /\ Len(a) = pos /\ \A i \in 1 .. pos : a[i] = t[i]
  <2>1. Least(pos, Len(t)) = pos
    BY <1>1 DEF Least
  <2>2. a \in Seq(S) /\ Len(a) = Least(pos, Len(t)) /\ \A i \in 1 .. Least(pos, Len(t)) : a[i] = t[i]
    BY <1>1, Pieces
  <2> HIDE DEF a
  <2> QED
    BY <2>1, <2>2
<1>3. /\ b \in Seq(S) /\ Len(b) = Greatest(Len(t) - end, 0)
      /\ \A i \in 1 .. Len(t) - end : b[i] = t[end + i]
  BY <1>1, Pieces
<1>4. u = a \o b
  BY DEF Deleted
<1>5. Len(b) \in Nat /\ Len(b) >= Len(t) - end
  BY <1>1, <1>3 DEF Greatest
<1> HIDE DEF a, b
<1> DEFINE all == a \o b
<1>9. all = a \o b
  OBVIOUS
<1> HIDE DEF all
<1>6. /\ all \in Seq(S) /\ Len(all) = pos + Len(b)
      /\ \A i \in 1 .. pos : all[i] = a[i]
      /\ \A i \in 1 .. Len(b) : all[pos + i] = b[i]
  <2>1. a \in Seq(S) /\ b \in Seq(S)
    BY <1>2, <1>3
  <2>2. /\ all \in Seq(S) /\ Len(all) = Len(a) + Len(b)
        /\ \A i \in 1 .. Len(a) : all[i] = a[i]
        /\ \A i \in 1 .. Len(b) : all[Len(a) + i] = b[i]
    BY <2>1, <1>9, Joined
  <2> QED
    BY <1>2, <2>2
<1>7. \A i \in 1 .. Len(t) - end : i \in 1 .. Len(b)
  BY <1>1, <1>5
<1>8. u = all
  BY <1>4 DEF all
<1>10. \A i \in 1 .. Len(t) - end : u[pos + i] = t[end + i]
  BY <1>3, <1>6, <1>7, <1>8
<1>11. u \in Seq(S) /\ Len(u) = pos + Greatest(Len(t) - end, 0)
  BY <1>3, <1>6, <1>8
<1>12. \A i \in 1 .. pos : u[i] = t[i]
  BY <1>2, <1>6, <1>8
<1> QED
  BY <1>10, <1>11, <1>12 DEF TakenOut

\* The newest n of a list: at least its last, and the last is the list's.
LEMMA NewestIs ==
  ASSUME NEW S, NEW s \in Seq(S), NEW n \in Nat
  PROVE  /\ Newest(s, n) \in Seq(S) /\ Len(Newest(s, n)) = Least(n, Len(s)) /\ Len(s) \in Nat
         /\ n > 0 /\ Len(s) > 0 =>
              /\ Newest(s, n) # <<>> /\ Last(Newest(s, n)) = Last(s)
<1> DEFINE k == Greatest(Len(s) - n, 0)
           u == From(s, k)
<1>1. Len(s) \in Nat /\ k \in Nat /\ k <= Len(s)
  BY LenProperties DEF Greatest
<1>2. u \in Seq(S) /\ Len(u) = Greatest(Len(s) - k, 0) /\ \A i \in 1 .. Len(s) - k : u[i] = s[k + i]
  BY <1>1, Pieces
<1>3. Len(u) = Len(s) - k /\ Len(u) = Least(n, Len(s))
  <2>1. CASE Len(s) - n > 0
    BY <1>1, <1>2, <2>1 DEF Greatest, Least
  <2>2. CASE ~(Len(s) - n > 0)
    BY <1>1, <1>2, <2>2 DEF Greatest, Least
  <2> QED
    BY <2>1, <2>2
<1>4. Newest(s, n) = u
  BY DEF Newest
<1> HIDE DEF u
<1>5. ASSUME n > 0, Len(s) > 0 PROVE u # <<>> /\ Last(u) = Last(s)
  <2>1. Len(u) > 0 /\ Len(u) \in 1 .. Len(s) - k /\ k + Len(u) = Len(s)
    BY <1>1, <1>3, <1>5 DEF Least
  <2>2. u[Len(u)] = s[Len(s)]
    BY <1>2, <2>1
  <2> QED
    BY <1>2, <2>1, <2>2, EmptySeq DEF Last
<1> QED
  BY <1>1, <1>2, <1>3, <1>4, <1>5
----------------------------------------------------------------------------
(* Rows *)

\* The newlines before an offset.
NewlinesTo(t, n) == {i \in 1 .. n : t[i] = NL}

\* The row of an offset counts the newlines before it, ...
LEMMA RowIs ==
  ASSUME NEW S, NEW t \in Seq(S), NEW n \in 0 .. Len(t)
  PROVE  /\ RowOf(t, n) = Cardinality(NewlinesTo(t, n)) /\ RowOf(t, n) \in Nat
         /\ IsFiniteSet(NewlinesTo(t, n))
         /\ Newlines(t) = NewlinesTo(t, Len(t)) /\ Len(t) \in Nat
<1>1. Len(t) \in Nat /\ n \in Nat /\ Least(n, Len(t)) = n
  BY LenProperties DEF Least
<1>2. Len(Upto(t, n)) = n /\ \A i \in 1 .. n : Upto(t, n)[i] = t[i]
  BY <1>1, Pieces
<1>3. Newlines(Upto(t, n)) = NewlinesTo(t, n)
  <2> DEFINE u == Upto(t, n)
  <2>1. Len(u) = n /\ \A i \in 1 .. n : u[i] = t[i]
    BY <1>2
  <2> HIDE DEF u
  <2>2. Newlines(u) = NewlinesTo(t, n)
    BY <2>1 DEF Newlines, NewlinesTo
  <2> QED
    BY <2>2 DEF u
<1>4. IsFiniteSet(NewlinesTo(t, n)) /\ Cardinality(NewlinesTo(t, n)) \in Nat
  <2>1. IsFiniteSet(1 .. n) /\ NewlinesTo(t, n) \subseteq 1 .. n
    BY <1>1, FS_Interval DEF NewlinesTo
  <2> QED
    BY <2>1, FS_Subset, FS_CardinalityType
<1> QED
  BY <1>1, <1>3, <1>4 DEF RowOf, Newlines, NewlinesTo

\* The row goes up by one behind a newline and nowhere else.
LEMMA RowGrows ==
  ASSUME NEW S, NEW t \in Seq(S), NEW n \in 0 .. Len(t), n < Len(t)
  PROVE  /\ t[n + 1] = NL => RowOf(t, n + 1) = RowOf(t, n) + 1
         /\ t[n + 1] # NL => RowOf(t, n + 1) = RowOf(t, n)
<1>1. Len(t) \in Nat /\ n + 1 \in 0 .. Len(t)
  BY LenProperties
<1>2. /\ RowOf(t, n) = Cardinality(NewlinesTo(t, n)) /\ IsFiniteSet(NewlinesTo(t, n))
      /\ RowOf(t, n + 1) = Cardinality(NewlinesTo(t, n + 1))
  BY <1>1, RowIs
<1>3. ASSUME t[n + 1] = NL PROVE RowOf(t, n + 1) = RowOf(t, n) + 1
  <2>1. NewlinesTo(t, n + 1) = NewlinesTo(t, n) \cup {n + 1} /\ n + 1 \notin NewlinesTo(t, n)
    BY <1>1, <1>3 DEF NewlinesTo
  <2> QED
    BY <1>2, <2>1, FS_AddElement
<1>4. ASSUME t[n + 1] # NL PROVE RowOf(t, n + 1) = RowOf(t, n)
  <2>1. NewlinesTo(t, n + 1) = NewlinesTo(t, n)
    BY <1>1, <1>4 DEF NewlinesTo
  <2> QED
    BY <1>2, <2>1
<1> QED
  BY <1>3, <1>4

\* It is 0 at the start and the last one at the end.
LEMMA RowEnds ==
  ASSUME NEW S, NEW t \in Seq(S)
  PROVE  /\ Len(t) \in Nat /\ RowOf(t, 0) = 0 /\ LineCount(t) = RowOf(t, Len(t)) + 1
         /\ RowOf(t, Len(t)) \in Nat /\ LineCount(t) \in Nat \ {0}
<1>1. Len(t) \in Nat /\ 0 \in 0 .. Len(t) /\ Len(t) \in 0 .. Len(t)
  BY LenProperties
<1>2. NewlinesTo(t, 0) = {}
  BY DEF NewlinesTo
<1>3. RowOf(t, 0) = 0
  BY <1>1, <1>2, RowIs, FS_EmptySet
<1>4. LineCount(t) = RowOf(t, Len(t)) + 1 /\ RowOf(t, Len(t)) \in Nat
  BY <1>1, RowIs DEF LineCount
<1> QED
  BY <1>1, <1>3, <1>4

\* It never goes down, and a newline is in a row before what is behind it.
LEMMA RowMonotone ==
  ASSUME NEW S, NEW t \in Seq(S), NEW m \in 0 .. Len(t), NEW n \in 0 .. Len(t), m <= n
  PROVE  /\ RowOf(t, m) <= RowOf(t, n)
         /\ m < n /\ t[n] = NL => RowOf(t, m) < RowOf(t, n)
<1>1. \A k \in 0 .. Len(t) : m <= k => RowOf(t, m) <= RowOf(t, k)
  <2> SUFFICES ASSUME NEW k \in 0 .. Len(t), m <= k PROVE RowOf(t, m) <= RowOf(t, k)
    OBVIOUS
  <2>1. NewlinesTo(t, m) \subseteq NewlinesTo(t, k)
    BY LenProperties DEF NewlinesTo
  <2>2. Cardinality(NewlinesTo(t, m)) <= Cardinality(NewlinesTo(t, k))
    BY <2>1, RowIs, FS_Subset
  <2> QED
    BY <2>2, RowIs
<1>2. ASSUME m < n, t[n] = NL PROVE RowOf(t, m) < RowOf(t, n)
  <2>1. PICK k \in 0 .. Len(t) : n = k + 1 /\ k < Len(t) /\ m <= k
    <3>1. n - 1 \in 0 .. Len(t) /\ n = (n - 1) + 1 /\ n - 1 < Len(t) /\ m <= n - 1
      BY <1>2, LenProperties
    <3> QED
      BY <3>1
  <2>2. RowOf(t, n) = RowOf(t, k) + 1
    BY <1>2, <2>1, RowGrows
  <2>3. RowOf(t, m) <= RowOf(t, k) /\ RowOf(t, k) \in Nat /\ RowOf(t, m) \in Nat
    BY <1>1, <2>1, RowIs
  <2> QED
    BY <2>2, <2>3
<1> QED
  BY <1>1, <1>2

\* Every row but the first, up to that of an offset, starts behind a newline
\* before it.
LEMMA RowReached ==
  ASSUME NEW S, NEW t \in Seq(S), NEW c \in 0 .. Len(t), NEW row \in 1 .. RowOf(t, c)
  PROVE  \E i \in Newlines(t) : RowOf(t, i) = row /\ i <= c
<1> DEFINE Past == {m \in 0 .. c : row <= RowOf(t, m)}
<1>1. Len(t) \in Nat /\ c \in Past /\ Past \in SUBSET Nat
  BY LenProperties, RowIs
<1>2. PICK n \in Past : \A m \in Past : n <= m
  BY <1>1, LeastElement
<1>3. n # 0
  BY <1>1, <1>2, RowEnds
<1>4. PICK m \in 0 .. Len(t) : n = m + 1 /\ m < Len(t)
  <2>1. n - 1 \in 0 .. Len(t) /\ n = (n - 1) + 1 /\ n - 1 < Len(t)
    BY <1>1, <1>2, <1>3
  <2> QED
    BY <2>1
<1>5. ~(row <= RowOf(t, m)) /\ RowOf(t, m) \in Nat /\ RowOf(t, n) \in Nat
  <2>1. m \notin Past
    BY <1>2, <1>4
  <2>2. m \in 0 .. c
    BY <1>1, <1>2, <1>4
  <2>3. n \in 0 .. Len(t)
    BY <1>1, <1>2
  <2> QED
    BY <2>1, <2>2, <2>3, RowIs
<1>6. t[n] = NL /\ RowOf(t, n) = RowOf(t, m) + 1
  BY <1>2, <1>4, <1>5, RowGrows
<1>7. n \in Newlines(t) /\ RowOf(t, n) = row /\ n <= c
  BY <1>1, <1>2, <1>3, <1>5, <1>6 DEF Newlines
<1> QED
  BY <1>7

\* A row's start is in the text, and an offset is not before its row's.
LEMMA LineStartIs ==
  ASSUME NEW S, NEW t \in Seq(S), NEW row \in Nat, row < LineCount(t)
  PROVE  /\ LineStart(t, row) \in 0 .. Len(t) /\ Len(t) \in Nat
         /\ row > 0 => LineStart(t, row) > 0
         /\ \A c \in 0 .. Len(t) : row = RowOf(t, c) => LineStart(t, row) <= c
<1>1. Len(t) \in Nat /\ RowOf(t, Len(t)) \in Nat /\ LineCount(t) = RowOf(t, Len(t)) + 1
  BY RowEnds
<1>2. CASE row = 0
  <2>1. LineStart(t, row) = 0
    BY <1>2 DEF LineStart
  <2> QED
    BY <1>1, <1>2, <2>1
<1>3. CASE row # 0
  <2> DEFINE Is(i) == i \in Newlines(t) /\ RowOf(t, i) = row
             start == CHOOSE i \in Newlines(t) : RowOf(t, i) = row
  <2>1. row \in 1 .. RowOf(t, Len(t)) /\ Len(t) \in 0 .. Len(t)
    BY <1>1, <1>3
  <2>2. \E i \in Newlines(t) : RowOf(t, i) = row
    BY <2>1, RowReached
  <2>3. Is(start)
    BY <2>2
  <2>4. LineStart(t, row) = start
    BY <1>1, <1>3 DEF LineStart
  <2> HIDE DEF start
  <2>5. start \in 1 .. Len(t) /\ t[start] = NL /\ RowOf(t, start) = row
    BY <2>3 DEF Newlines
  <2>6. ASSUME NEW c \in 0 .. Len(t), row = RowOf(t, c) PROVE start <= c
    <3> SUFFICES ASSUME ~(start <= c) PROVE FALSE
      OBVIOUS
    <3>1. c < start /\ c <= start /\ start \in 0 .. Len(t)
      BY <1>1, <2>5
    <3>2. RowOf(t, c) < RowOf(t, start)
      BY <2>5, <3>1, RowMonotone
    <3>3. RowOf(t, c) = RowOf(t, start) /\ RowOf(t, c) \in Nat
      BY <2>5, <2>6
    <3> QED
      BY <3>2, <3>3
  <2> QED
    BY <1>1, <2>4, <2>5, <2>6
<1> QED
  BY <1>2, <1>3

\* So is a row's end, ...
LEMMA LineEndIs ==
  ASSUME NEW S, NEW t \in Seq(S), NEW row \in Nat
  PROVE  LineEnd(t, row) \in 0 .. Len(t) /\ Len(t) \in Nat
<1>1. Len(t) \in Nat /\ row + 1 \in Nat /\ row + 1 > 0
  BY LenProperties
<1>2. CASE row + 1 < LineCount(t)
  <2>1. LineStart(t, row + 1) \in 0 .. Len(t) /\ LineStart(t, row + 1) > 0
    BY <1>1, <1>2, LineStartIs
  <2> QED
    BY <1>1, <1>2, <2>1 DEF LineEnd
<1>3. CASE ~(row + 1 < LineCount(t))
  BY <1>1, <1>3 DEF LineEnd
<1> QED
  BY <1>2, <1>3

\* ... a place given by row and column, ...
LEMMA OffsetIs ==
  ASSUME NEW S, NEW t \in Seq(S), NEW row \in Nat, NEW col \in Nat
  PROVE  OffsetAt(t, row, col) \in 0 .. Len(t)
<1>1. LineCount(t) \in Nat /\ Len(t) \in Nat
  BY RowEnds
<1>2. CASE row >= LineCount(t)
  BY <1>1, <1>2 DEF OffsetAt
<1>3. CASE row < LineCount(t)
  <2> DEFINE a == LineStart(t, row)
             b == LineEnd(t, row)
  <2>1. a \in 0 .. Len(t) /\ b \in 0 .. Len(t)
    BY <1>3, LineStartIs, LineEndIs
  <2>2. OffsetAt(t, row, col) = a + Least(col, b - a)
    BY <1>1, <1>3 DEF OffsetAt
  <2> HIDE DEF a, b
  <2>3. a + Least(col, b - a) \in 0 .. Len(t)
    BY <1>1, <2>1 DEF Least
  <2> QED
    BY <2>2, <2>3
<1> QED
  BY <1>1, <1>2, <1>3

\* ... and a column is a number.
LEMMA ColIs ==
  ASSUME NEW S, NEW t \in Seq(S), NEW c \in 0 .. Len(t)
  PROVE  ColOf(t, c) \in Nat /\ RowOf(t, c) \in Nat /\ RowOf(t, c) < LineCount(t)
<1>1. Len(t) \in Nat /\ Least(c, Len(t)) = c
  BY LenProperties DEF Least
<1>2. RowOf(t, c) \in Nat /\ RowOf(t, c) < LineCount(t)
  <2>1. Len(t) \in 0 .. Len(t) /\ c <= Len(t)
    BY <1>1
  <2>2. RowOf(t, c) <= RowOf(t, Len(t))
    BY <2>1, RowMonotone
  <2>3. LineCount(t) = RowOf(t, Len(t)) + 1 /\ RowOf(t, Len(t)) \in Nat /\ RowOf(t, c) \in Nat
    BY RowEnds, RowIs
  <2> QED
    BY <2>2, <2>3
<1>3. LineStart(t, RowOf(t, c)) \in 0 .. Len(t) /\ LineStart(t, RowOf(t, c)) <= c
  BY <1>2, LineStartIs
<1> QED
  BY <1>1, <1>2, <1>3 DEF ColOf
----------------------------------------------------------------------------
(* The formatter: it makes texts of texts *)

WordAccs(S) == [words : Seq(Seq(S)), inside : BOOLEAN]
NoWords == [words |-> <<>>, inside |-> FALSE]
WordStep(acc, c) ==
  IF c = Space THEN [acc EXCEPT !.inside = FALSE]
  ELSE IF acc.inside THEN [acc EXCEPT !.words[Len(acc.words)] = Append(@, c)]
  ELSE [words |-> Append(acc.words, <<c>>), inside |-> TRUE]

\* One more character makes one more word, a longer one, or none.
LEMMA WordStepTyped ==
  ASSUME NEW S, NEW acc \in WordAccs(S), NEW c \in S
  PROVE  WordStep(acc, c) \in WordAccs(S)
<1>1. acc.words \in Seq(Seq(S)) /\ <<c>> \in Seq(S)
  BY DEF WordAccs
<1>2. CASE c = Space
  BY <1>2 DEF WordAccs, WordStep
<1>3. CASE c # Space /\ acc.inside
  <2> DEFINE ws == acc.words
             n == Len(ws)
             w == Append(ws[n], c)
  <2>1. n \in Nat /\ DOMAIN ws = 1 .. n /\ \A i \in 1 .. n : ws[i] \in Seq(S)
    BY <1>1, LenProperties, ElementOfSeq
  <2>2. n \in 1 .. n => w \in Seq(S)
    BY <2>1, AppendProperties
  <2> HIDE DEF w
  <2>3. [ws EXCEPT ![n] = w] \in Seq(Seq(S))
    <3>1. CASE n \in 1 .. n
      BY <1>1, <2>1, <2>2, <3>1
    <3>2. CASE n \notin 1 .. n
      <4>1. [ws EXCEPT ![n] = w] = ws
        BY <1>1, <2>1, <3>2
      <4> QED
        BY <1>1, <4>1
    <3> QED
      BY <3>1, <3>2
  <2>4. WordStep(acc, c) = [acc EXCEPT !.words = [ws EXCEPT ![n] = w]]
    BY <1>3 DEF WordStep, w, WordAccs
  <2> HIDE DEF ws, n
  <2> QED
    BY <2>3, <2>4 DEF WordAccs
<1>4. CASE c # Space /\ ~acc.inside
  <2>1. Append(acc.words, <<c>>) \in Seq(Seq(S))
    BY <1>1, AppendProperties
  <2> QED
    BY <1>4, <2>1 DEF WordAccs, WordStep
<1> QED
  BY <1>2, <1>3, <1>4

\* The words of a line.
LEMMA WordsTyped ==
  ASSUME NEW S, NEW line \in Seq(S)
  PROVE  WordsIn(line) \in Seq(Seq(S))
<1> DEFINE n == Len(line)
           T == WordAccs(S)
           step == [i \in 1 .. n |-> [acc \in T |-> WordStep(acc, line[i])]]
           Fold(it) == it = [s \in SUBSET DOMAIN line |->
                               IF s = {} THEN NoWords ELSE WordStep(it[s \ {Max(s)}], line[Max(s)])]
           fold == CHOOSE it : Fold(it)
<1>1. n \in Nat /\ DOMAIN line = 1 .. n /\ \A i \in 1 .. n : line[i] \in S
  BY LenProperties, ElementOfSeq
<1>2. NoWords \in T
  BY DEF NoWords, WordAccs
<1>3. WordsIn(line) = fold[1 .. n].words
  <2>1. WordsIn(line) = fold[DOMAIN line].words
    BY Zenon DEF WordsIn, FoldLeft, MapThenFoldSet, WordStep, NoWords
  <2> QED
    BY <1>1, <2>1, Zenon
<1>4. \A i \in 1 .. n : \A acc \in T : WordStep(acc, line[i]) \in T
  BY <1>1, WordStepTyped
<1> HIDE DEF T, n
<1>5. step \in [1 .. n -> [T -> T]]
  BY <1>4
<1> HIDE DEF step
<1>6. PICK f : Folds(f, n, T, NoWords, step)
  BY <1>1, <1>2, <1>5, FoldExists
<1>7. \A s \in SUBSET (1 .. n) : s # {} => Max(s) \in 1 .. n
  <2> SUFFICES ASSUME NEW s \in SUBSET (1 .. n), s # {} PROVE Max(s) \in 1 .. n
    OBVIOUS
  <2>1. s \in SUBSET Nat /\ \A i \in s : i <= n
    BY <1>1
  <2> QED
    BY <1>1, <2>1, MaxIs
<1>8. \A s \in SUBSET (1 .. n) : s # {} => step[Max(s)][f[s \ {Max(s)}]] = WordStep(f[s \ {Max(s)}], line[Max(s)])
  <2> SUFFICES ASSUME NEW s \in SUBSET (1 .. n), s # {}
               PROVE  step[Max(s)][f[s \ {Max(s)}]] = WordStep(f[s \ {Max(s)}], line[Max(s)])
    OBVIOUS
  <2>1. Max(s) \in 1 .. n /\ f[s \ {Max(s)}] \in T
    BY <1>6, <1>7 DEF Folds
  <2> QED
    BY <2>1 DEF step
<1>9. Fold(f)
  <2>1. f = [s \in SUBSET (1 .. n) |->
               IF s = {} THEN NoWords ELSE WordStep(f[s \ {Max(s)}], line[Max(s)])]
    BY <1>6, <1>8 DEF Folds
  <2> QED
    BY <1>1, <2>1, Zenon
<1>10. Fold(fold)
  <2> HIDE DEF Fold
  <2> QED
    BY <1>9, Zenon
<1> HIDE DEF fold
<1>11. /\ fold[{}] = NoWords
       /\ \A s \in SUBSET (1 .. n) : s # {} => fold[s] = WordStep(fold[s \ {Max(s)}], line[Max(s)])
  <2>1. fold = [s \in SUBSET (1 .. n) |->
                  IF s = {} THEN NoWords ELSE WordStep(fold[s \ {Max(s)}], line[Max(s)])]
    BY <1>1, <1>10, Zenon
  <2>2. {} \in SUBSET (1 .. n)
    OBVIOUS
  <2> QED
    BY <2>1, <2>2, Zenon
<1>12. \A s \in SUBSET (1 .. n) : s # {} /\ fold[s \ {Max(s)}] \in T => fold[s] \in T
  <2> SUFFICES ASSUME NEW s \in SUBSET (1 .. n), s # {}, fold[s \ {Max(s)}] \in T PROVE fold[s] \in T
    OBVIOUS
  <2>1. fold[s] = WordStep(fold[s \ {Max(s)}], line[Max(s)]) /\ Max(s) \in 1 .. n
    BY <1>7, <1>11, Zenon
  <2>2. WordStep(fold[s \ {Max(s)}], line[Max(s)]) \in T
    BY <1>4, <2>1, Zenon
  <2> QED
    BY <2>1, <2>2, Zenon
<1>13. fold[1 .. n] \in T
  BY <1>1, <1>2, <1>11, <1>12, FoldStays
<1> QED
  BY <1>3, <1>13 DEF T, WordAccs

\* The lines of a text.
LEMMA LinesTyped ==
  ASSUME NEW S, NEW t \in Seq(S)
  PROVE  Lines(t) \in Seq(Seq(S))
<1>1. LineCount(t) \in Nat
  BY RowEnds
<1>2. ASSUME NEW r \in 1 .. LineCount(t)
      PROVE  Slice(t, LineStart(t, r - 1), LineEnd(t, r - 1)) \in Seq(S)
  <2> DEFINE a == LineStart(t, r - 1)
             b == LineEnd(t, r - 1)
  <2>1. r - 1 \in Nat /\ r - 1 < LineCount(t)
    BY <1>1
  <2>2. a \in Nat /\ b \in Nat
    BY <2>1, LineStartIs, LineEndIs
  <2> HIDE DEF a, b
  <2>3. Upto(t, b) \in Seq(S)
    BY <2>2, Pieces
  <2>4. From(Upto(t, b), a) \in Seq(S)
    BY <2>2, <2>3, Pieces
  <2> QED
    BY <2>4 DEF Slice, a, b
<1>3. Lines(t) = [r \in 1 .. LineCount(t) |-> Slice(t, LineStart(t, r - 1), LineEnd(t, r - 1))]
  BY DEF Lines
<1> QED
  BY <1>1, <1>2, <1>3

\* The depth behind a line.
LEMMA DepthTyped ==
  ASSUME NEW S, NEW words \in Seq(S), NEW depth \in Nat
  PROVE  DepthAfter(depth, words) \in Nat
<1> DEFINE inside[i \in 0 .. Len(words)] ==
             IF i = 0 THEN FALSE
             ELSE IF inside[i - 1] THEN Last(words[i]) # EndParen ELSE words[i] = <<Paren>>
           Ends(i) == ~inside[i - 1] /\ words[i] = <<Backslash>>
           code == {i \in 1 .. Len(words) : ~inside[i - 1] /\ \A j \in 1 .. i : ~Ends(j)}
           opened == {i \in code : Opens(words[i])}
           closed == {i \in code : Closes(words[i])}
<1>1. DepthAfter(depth, words) = Greatest(depth + Cardinality(opened) - Cardinality(closed), 0)
  BY DEF DepthAfter
<1>2. opened \subseteq 1 .. Len(words) /\ closed \subseteq 1 .. Len(words)
  OBVIOUS
<1> HIDE DEF opened, closed
<1>3. IsFiniteSet(1 .. Len(words))
  BY LenProperties, FS_Interval
<1>4. Cardinality(opened) \in Nat /\ Cardinality(closed) \in Nat
  BY <1>2, <1>3, FS_Subset, FS_CardinalityType
<1> QED
  BY <1>1, <1>4 DEF Greatest

\* A line, formatted.
LEMMA FormatLineTyped ==
  ASSUME NEW S, Space \in S, NEW line \in Seq(S), NEW depth \in Nat
  PROVE  FormatLine(depth, line) \in Seq(S)
<1> DEFINE words == WordsIn(line)
           indent == IF Closes(words[1]) \/ DedentLine(words[1]) THEN Greatest(depth - 1, 0) ELSE depth
           margin == [i \in 1 .. 2 * indent |-> Space]
           Spaced(i) == (IF i = 1 THEN <<>> ELSE <<Space>>) \o words[i]
           spaced == [i \in 1 .. Len(words) |-> Spaced(i)]
<1>1. words \in Seq(Seq(S)) /\ Len(words) \in Nat
  BY WordsTyped, LenProperties
<1>2. indent \in Nat
  BY DEF Greatest
<1>3. FormatLine(depth, line) = IF words = <<>> THEN <<>> ELSE margin \o FlattenSeq(spaced)
  BY DEF FormatLine
<1> HIDE DEF words, indent
<1>4. margin \in Seq(S)
  BY <1>2
<1>5. ASSUME NEW i \in 1 .. Len(words) PROVE Spaced(i) \in Seq(S)
  <2>1. words[i] \in Seq(S) /\ <<>> \in Seq(S) /\ <<Space>> \in Seq(S)
    BY <1>1, ElementOfSeq
  <2> QED
    BY <2>1, ConcatProperties
<1> HIDE DEF Spaced
<1>6. spaced \in Seq(Seq(S))
  BY <1>1, <1>5
<1> HIDE DEF margin, spaced
<1>7. FlattenSeq(spaced) \in Seq(S)
  BY <1>6, Flattened
<1>8. margin \o FlattenSeq(spaced) \in Seq(S) /\ <<>> \in Seq(S)
  BY <1>4, <1>7, ConcatProperties
<1> QED
  BY <1>3, <1>8

FormatAccs(S) == [out : Seq(S), depth : Nat, first : BOOLEAN]
NoLines == [out |-> <<>>, depth |-> 0, first |-> TRUE]
FormatStep(acc, line) ==
  [out |-> acc.out \o (IF acc.first THEN <<>> ELSE <<NL>>) \o FormatLine(acc.depth, line),
   depth |-> DepthAfter(acc.depth, WordsIn(line)), first |-> FALSE]

\* One more line.
LEMMA FormatStepTyped ==
  ASSUME NEW S, Space \in S, NL \in S, NEW acc \in FormatAccs(S), NEW line \in Seq(S)
  PROVE  FormatStep(acc, line) \in FormatAccs(S)
<1> DEFINE between == IF acc.first THEN <<>> ELSE <<NL>>
           formatted == FormatLine(acc.depth, line)
<1>1. acc.out \in Seq(S) /\ acc.depth \in Nat /\ between \in Seq(S)
  BY DEF FormatAccs
<1>2. formatted \in Seq(S)
  BY <1>1, FormatLineTyped
<1>3. DepthAfter(acc.depth, WordsIn(line)) \in Nat
  BY <1>1, WordsTyped, DepthTyped
<1> HIDE DEF between, formatted
<1>4. acc.out \o between \in Seq(S)
  BY <1>1, ConcatProperties
<1>5. acc.out \o between \o formatted \in Seq(S)
  BY <1>2, <1>4, ConcatProperties
<1>6. FormatStep(acc, line) = [out |-> acc.out \o between \o formatted,
                               depth |-> DepthAfter(acc.depth, WordsIn(line)), first |-> FALSE]
  BY DEF FormatStep, between, formatted
<1> QED
  BY <1>3, <1>5, <1>6 DEF FormatAccs

\* A text, formatted.
LEMMA FormatTyped ==
  ASSUME NEW S, Space \in S, NL \in S, NEW t \in Seq(S)
  PROVE  FormatForth(t) \in Seq(S)
<1> DEFINE lines == Lines(t)
           n == Len(lines)
           T == FormatAccs(S)
           step == [i \in 1 .. n |-> [acc \in T |-> FormatStep(acc, lines[i])]]
           Fold(it) == it = [s \in SUBSET DOMAIN lines |->
                               IF s = {} THEN NoLines ELSE FormatStep(it[s \ {Max(s)}], lines[Max(s)])]
           fold == CHOOSE it : Fold(it)
<1>1. n \in Nat /\ DOMAIN lines = 1 .. n /\ \A i \in 1 .. n : lines[i] \in Seq(S)
  BY LinesTyped, LenProperties, ElementOfSeq
<1>2. NoLines \in T
  BY DEF NoLines, FormatAccs
<1>3. FormatForth(t) = fold[1 .. n].out
  <2>1. FormatForth(t) = fold[DOMAIN lines].out
    BY Zenon DEF FormatForth, FoldLeft, MapThenFoldSet, FormatStep, NoLines
  <2> QED
    BY <1>1, <2>1, Zenon
<1> HIDE DEF lines
<1>4. \A i \in 1 .. n : \A acc \in T : FormatStep(acc, lines[i]) \in T
  BY <1>1, FormatStepTyped
<1> HIDE DEF T, n
<1>5. step \in [1 .. n -> [T -> T]]
  BY <1>4
<1> HIDE DEF step
<1>6. PICK f : Folds(f, n, T, NoLines, step)
  BY <1>1, <1>2, <1>5, FoldExists
<1>7. \A s \in SUBSET (1 .. n) : s # {} => Max(s) \in 1 .. n
  <2> SUFFICES ASSUME NEW s \in SUBSET (1 .. n), s # {} PROVE Max(s) \in 1 .. n
    OBVIOUS
  <2>1. s \in SUBSET Nat /\ \A i \in s : i <= n
    BY <1>1
  <2> QED
    BY <1>1, <2>1, MaxIs
<1>8. \A s \in SUBSET (1 .. n) : s # {} => step[Max(s)][f[s \ {Max(s)}]] = FormatStep(f[s \ {Max(s)}], lines[Max(s)])
  <2> SUFFICES ASSUME NEW s \in SUBSET (1 .. n), s # {}
               PROVE  step[Max(s)][f[s \ {Max(s)}]] = FormatStep(f[s \ {Max(s)}], lines[Max(s)])
    OBVIOUS
  <2>1. Max(s) \in 1 .. n /\ f[s \ {Max(s)}] \in T
    BY <1>6, <1>7 DEF Folds
  <2> QED
    BY <2>1 DEF step
<1>9. Fold(f)
  <2>1. f = [s \in SUBSET (1 .. n) |->
               IF s = {} THEN NoLines ELSE FormatStep(f[s \ {Max(s)}], lines[Max(s)])]
    BY <1>6, <1>8 DEF Folds
  <2> QED
    BY <1>1, <2>1, Zenon
<1>10. Fold(fold)
  <2> HIDE DEF Fold
  <2> QED
    BY <1>9, Zenon
<1> HIDE DEF fold
<1>11. /\ fold[{}] = NoLines
       /\ \A s \in SUBSET (1 .. n) : s # {} => fold[s] = FormatStep(fold[s \ {Max(s)}], lines[Max(s)])
  <2>1. fold = [s \in SUBSET (1 .. n) |->
                  IF s = {} THEN NoLines ELSE FormatStep(fold[s \ {Max(s)}], lines[Max(s)])]
    BY <1>1, <1>10, Zenon
  <2>2. {} \in SUBSET (1 .. n)
    OBVIOUS
  <2> QED
    BY <2>1, <2>2, Zenon
<1>12. \A s \in SUBSET (1 .. n) : s # {} /\ fold[s \ {Max(s)}] \in T => fold[s] \in T
  <2> SUFFICES ASSUME NEW s \in SUBSET (1 .. n), s # {}, fold[s \ {Max(s)}] \in T PROVE fold[s] \in T
    OBVIOUS
  <2>1. fold[s] = FormatStep(fold[s \ {Max(s)}], lines[Max(s)]) /\ Max(s) \in 1 .. n
    BY <1>7, <1>11, Zenon
  <2>2. FormatStep(fold[s \ {Max(s)}], lines[Max(s)]) \in T
    BY <1>4, <2>1, Zenon
  <2> QED
    BY <2>1, <2>2, Zenon
<1>13. fold[1 .. n] \in T
  BY <1>1, <1>2, <1>11, <1>12, FoldStays
<1> QED
  BY <1>3, <1>13 DEF T, FormatAccs
----------------------------------------------------------------------------
(* The editor's invariant *)

Snaps == {s \in [text : Seq(Codes), caret : Nat] : s.caret <= Len(s.text)}
Texts == Seq(Codes)
Histories == Seq(Snaps)
Anchors == Nat \cup {None}
Kinds == {"None", "Insert", "Delete"}
Names == Paths \cup {None}
Editors ==
  [text : Texts, caret : Nat, anchor : Anchors, goal : Nat, clip : Texts, undo : Histories,
   redo : Histories, last : Kinds, top : Nat, path : Names, dirty : BOOLEAN]
EditorOK(e) == e \in Editors /\ e.caret <= Len(e.text) /\ Len(e.undo) + Len(e.redo) <= UndoMax

\* Behind c, t is what s ends with; before c, it is what s begins with.
EndsAlike(t, c, s) ==
  Len(t) - c <= Len(s) /\ \A i \in 1 .. Len(t) - c : t[c + i] = s[(Len(s) - (Len(t) - c)) + i]
StartsAlike(t, c, s) == c <= Len(s) /\ \A i \in 1 .. c : t[i] = s[i]

\* RunInOnePlace, for a selection too: in a run of deletions the text before the
\* selection is what the snapshot begins with, so it still is when the
\* selection is deleted.
Start(e) == IF HasSelection(e) THEN SelectionStart(e) ELSE e.caret
RunOK(e) ==
  e.last # "None" =>
    /\ e.undo # <<>> /\ e.redo = <<>>
    /\ EndsAlike(e.text, e.caret, Last(e.undo).text)
    /\ e.last = "Delete" => StartsAlike(e.text, Start(e), Last(e.undo).text)
Good(e) == EditorOK(e) /\ RunOK(e)

\* What a step from e to d does with the text of e and with the editor's file.
Continues(e, d) == d.last = e.last /\ e.last # "None" /\ d.undo = e.undo
Pushes(e, d) == d.undo # <<>> /\ Last(d.undo).text = e.text /\ d.redo = <<>>
Remembers(e, d) ==
  d.text # e.text =>
    \/ Timeline(d) = Timeline(e) /\ Len(d.undo) # Len(e.undo)
    \/ Continues(e, d)
    \/ Pushes(e, d)
Admits(e, d) == d.path = e.path /\ (d.dirty \/ (d.text = e.text /\ d.dirty = e.dirty))
Edited(e, d) == Good(d) /\ Remembers(e, d) /\ Admits(e, d)

----------------------------------------------------------------------------
(* The parts of the editor's operations *)

\* The fields of an editor are what they are declared to be.
LEMMA Fields ==
  ASSUME NEW e \in Editors
  PROVE  /\ e.text \in Texts /\ e.caret \in Nat /\ e.anchor \in Anchors /\ e.goal \in Nat
         /\ e.clip \in Texts /\ e.undo \in Histories /\ e.redo \in Histories /\ e.last \in Kinds
         /\ e.top \in Nat /\ e.path \in Names /\ e.dirty \in BOOLEAN
         /\ e.text \in Seq(Codes) /\ e.undo \in Seq(Snaps) /\ e.redo \in Seq(Snaps)
         /\ Len(e.text) \in Nat /\ Len(e.undo) \in Nat /\ Len(e.redo) \in Nat
<1>1. /\ e.text \in Texts /\ e.caret \in Nat /\ e.anchor \in Anchors /\ e.goal \in Nat
      /\ e.clip \in Texts /\ e.undo \in Histories /\ e.redo \in Histories /\ e.last \in Kinds
      /\ e.top \in Nat /\ e.path \in Names /\ e.dirty \in BOOLEAN
  BY DEF Editors
<1>2. e.text \in Seq(Codes) /\ e.undo \in Seq(Snaps) /\ e.redo \in Seq(Snaps)
  BY <1>1 DEF Texts, Histories
<1> QED
  BY <1>1, <1>2, LenProperties

\* The sequences there always are.
LEMMA Empties == <<>> \in Texts /\ <<>> \in Histories /\ None \in Anchors /\ None \in Names /\ Nat \subseteq Anchors
BY DEF Texts, Histories, Anchors, Names

\* A text is like itself.
LEMMA ItselfAlike ==
  ASSUME NEW t \in Texts, NEW c \in 0 .. Len(t), NEW b \in 0 .. Len(t)
  PROVE  EndsAlike(t, c, t) /\ StartsAlike(t, b, t)
<1>1. Len(t) \in Nat
  BY LenProperties DEF Texts
<1>2. \A i \in 1 .. Len(t) - c : c + i = (Len(t) - (Len(t) - c)) + i
  BY <1>1
<1> QED
  BY <1>1, <1>2 DEF EndsAlike, StartsAlike

\* What a good editor is by its text and caret.
LEMMA InText ==
  ASSUME NEW e, EditorOK(e)
  PROVE  /\ e \in Editors /\ e.text \in Texts /\ e.text \in Seq(Codes) /\ Len(e.text) \in Nat
         /\ e.caret \in 0 .. Len(e.text)
<1>1. e \in Editors /\ e.caret <= Len(e.text)
  BY DEF EditorOK
<1>2. e.text \in Texts /\ e.text \in Seq(Codes) /\ Len(e.text) \in Nat /\ e.caret \in Nat
  BY <1>1, Fields
<1> QED
  BY <1>1, <1>2

\* The editor's text and caret as a snapshot.
LEMMA SnapshotIs ==
  ASSUME NEW e, EditorOK(e)
  PROVE  Snapshot(e) \in Snaps /\ Snapshot(e).text = e.text /\ Snapshot(e).caret = e.caret
BY Fields DEF EditorOK, Snapshot, Snaps

\* Where the selection is.
LEMMA SelectionIs ==
  ASSUME NEW e, EditorOK(e)
  PROVE  /\ Start(e) \in 0 .. e.caret /\ Start(e) \in 0 .. Len(e.text) /\ Len(e.text) \in Nat
         /\ HasSelection(e) => /\ SelectionStart(e) = Start(e) /\ SelectionEnd(e) \in Nat
                               /\ SelectionEnd(e) >= e.caret /\ SelectionEnd(e) - Start(e) \in Nat
<1>1. e.caret \in 0 .. Len(e.text) /\ Len(e.text) \in Nat /\ e.anchor \in Nat \cup {None}
  BY Fields DEF EditorOK, Anchors
<1> QED
  BY <1>1 DEF HasSelection, SelectionStart, SelectionEnd, Start, Least, Greatest, None, Anchors

\* A snapshot is taken, except in a run, and the run goes on from it.
LEMMA CheckpointIs ==
  ASSUME NEW e, Good(e), NEW kind \in Kinds, NEW d, d = Checkpoint(e, kind)
  PROVE  /\ Good(d) /\ d.last = kind /\ (Continues(e, d) \/ Pushes(e, d))
         /\ d.text = e.text /\ d.caret = e.caret /\ d.anchor = e.anchor /\ d.clip = e.clip
         /\ d.path = e.path /\ d.dirty = e.dirty
<1>1. CASE e.last = kind /\ kind # "None"
  BY <1>1 DEF Checkpoint, Continues
<1>2. CASE ~(e.last = kind /\ kind # "None")
  <2> DEFINE pushed == Append(e.undo, Snapshot(e))
             undo == Newest(pushed, UndoMax)
  <2>1. d = [e EXCEPT !.undo = undo, !.redo = <<>>, !.last = kind]
    BY <1>2 DEF Checkpoint
  <2>2. e \in Editors /\ EditorOK(e) /\ e.undo \in Seq(Snaps)
    BY Fields DEF Good, EditorOK
  <2>3. pushed \in Seq(Snaps) /\ Len(pushed) = Len(e.undo) + 1 /\ Len(e.undo) \in Nat
        /\ pushed[Len(e.undo) + 1] = Snapshot(e)
    BY <2>2, SnapshotIs, Pushed
  <2>4. /\ undo \in Seq(Snaps) /\ Len(undo) = Least(UndoMax, Len(pushed))
        /\ undo # <<>> /\ Last(undo) = Snapshot(e)
    <3>1. UndoMax \in Nat /\ UndoMax > 0 /\ Len(pushed) > 0 /\ Last(pushed) = Snapshot(e)
      BY <2>3, UndoMaxAssumption DEF Last
    <3> QED
      BY <2>3, <3>1, NewestIs
  <2> HIDE DEF undo, pushed
  <2>5. Len(undo) \in Nat /\ Len(undo) <= UndoMax
    BY <2>3, <2>4, UndoMaxAssumption DEF Least
  <2>12. d \in Editors
    <3>1. undo \in Histories /\ <<>> \in Histories
      BY <2>4, Empties DEF Histories
    <3> QED
      BY <2>1, <2>2, <3>1 DEF Editors
  <2>6. /\ d \in Editors
        /\ d.text = e.text /\ d.caret = e.caret /\ d.anchor = e.anchor /\ d.clip = e.clip
        /\ d.path = e.path /\ d.dirty = e.dirty /\ d.undo = undo /\ d.redo = <<>> /\ d.last = kind
    BY <2>1, <2>2, <2>12 DEF Editors
  <2>7. EditorOK(d)
    BY <2>2, <2>5, <2>6 DEF EditorOK
  <2>8. Last(d.undo).text = d.text
    BY <2>2, <2>4, <2>6, SnapshotIs
  <2>9. EndsAlike(d.text, d.caret, d.text) /\ StartsAlike(d.text, Start(d), d.text)
    <3>1. d.text \in Texts /\ d.caret \in 0 .. Len(d.text)
      BY <2>6, <2>7, Fields DEF EditorOK
    <3>2. Start(d) \in 0 .. Len(d.text)
      BY <2>7, SelectionIs
    <3> QED
      BY <3>1, <3>2, ItselfAlike
  <2>10. RunOK(d)
    BY <2>4, <2>6, <2>8, <2>9 DEF RunOK
  <2>11. Pushes(e, d)
    BY <2>4, <2>6, <2>8 DEF Pushes
  <2> QED
    BY <2>6, <2>7, <2>10, <2>11 DEF Good
<1> QED
  BY <1>1, <1>2

\* The snapshot a run goes on from.
LEMMA LastSnap ==
  ASSUME NEW u \in Seq(Snaps), u # <<>>
  PROVE  Last(u) \in Snaps /\ Last(u).text \in Texts /\ Last(u).caret \in 0 .. Len(Last(u).text)
         /\ Len(Last(u).text) \in Nat
<1>1. Len(u) \in Nat /\ Len(u) \in 1 .. Len(u)
  BY EmptySeq, LenProperties
<1>2. Last(u) \in Snaps
  BY <1>1, ElementOfSeq DEF Last
<1>3. Last(u).text \in Seq(Codes) /\ Last(u).caret \in Nat /\ Last(u).caret <= Len(Last(u).text)
  BY <1>2 DEF Snaps
<1> QED
  BY <1>2, <1>3, LenProperties DEF Texts

\* What a text ends with behind c, another ends with that has of it only what is
\* behind b.
LEMMA EndsShorter ==
  ASSUME NEW t \in Texts, NEW s \in Texts, NEW c \in 0 .. Len(t), EndsAlike(t, c, s),
         NEW b \in Nat, c <= b, NEW u \in Texts, NEW a \in 0 .. Len(u),
         Len(u) - a = Greatest(Len(t) - b, 0), \A i \in 1 .. Len(t) - b : u[a + i] = t[b + i]
  PROVE  EndsAlike(u, a, s)
<1>1. Len(t) \in Nat /\ Len(s) \in Nat /\ Len(u) \in Nat
  BY LenProperties DEF Texts
<1>2. Len(t) - c <= Len(s) /\ \A i \in 1 .. Len(t) - c : t[c + i] = s[(Len(s) - (Len(t) - c)) + i]
  BY DEF EndsAlike
<1>3. Len(u) - a <= Len(s)
  BY <1>1, <1>2 DEF Greatest
<1>4. ASSUME NEW i \in 1 .. Len(u) - a PROVE u[a + i] = s[(Len(s) - (Len(u) - a)) + i]
  <2>1. i \in Int /\ i >= 1 /\ Len(t) - b > 0 /\ Len(u) - a = Len(t) - b
    BY <1>1 DEF Greatest
  <2>2. i \in 1 .. Len(t) - b /\ (b - c) + i \in 1 .. Len(t) - c
    BY <1>1, <2>1
  <2>3. u[a + i] = t[b + i]
    BY <2>2
  <2>4. b + i = c + ((b - c) + i)
    BY <1>1, <2>1
  <2>5. (Len(s) - (Len(t) - c)) + ((b - c) + i) = (Len(s) - (Len(u) - a)) + i
    BY <1>1, <2>1
  <2>6. t[c + ((b - c) + i)] = s[(Len(s) - (Len(t) - c)) + ((b - c) + i)]
    BY <1>2, <2>2
  <2> QED
    BY <2>3, <2>4, <2>5, <2>6
<1> QED
  BY <1>3, <1>4 DEF EndsAlike

\* The text between the ends of the selection goes; a run goes on.
LEMMA DeleteSelectionIs ==
  ASSUME NEW d, Good(d), NEW f, f = DeleteSelection(d)
  PROVE  /\ Good(f) /\ f.undo = d.undo /\ f.redo = d.redo /\ f.last = d.last /\ Admits(d, f)
         /\ f.clip = d.clip
<1>1. CASE ~HasSelection(d)
  BY <1>1 DEF DeleteSelection, Admits
<1>2. CASE HasSelection(d)
  <2> DEFINE t == d.text
             a == Start(d)
             b == SelectionEnd(d)
             n == b - a
             u == Deleted(t, a, n)
  <2>1. /\ d \in Editors /\ EditorOK(d) /\ t \in Texts /\ t \in Seq(Codes) /\ d.caret \in 0 .. Len(t)
        /\ Len(t) \in Nat
    BY InText DEF Good
  <2> HIDE DEF t
  <2>14. t = d.text
    BY DEF t
  <2>2. /\ a \in 0 .. Len(t) /\ a \in 0 .. d.caret /\ b \in Nat /\ b >= d.caret /\ n \in Nat
        /\ a + n = b /\ SelectionStart(d) = a
    BY <1>2, <2>1, <2>14, SelectionIs
  <2>3. f = [d EXCEPT !.text = u, !.caret = a, !.anchor = None, !.dirty = TRUE]
    BY <1>2, <2>2, <2>14 DEF DeleteSelection
  <2> HIDE DEF a, b, n
  <2>15. u = Deleted(t, a, n)
    OBVIOUS
  <2> HIDE DEF u
  <2>4. /\ u \in Seq(Codes) /\ Len(u) = a + Greatest(Len(t) - b, 0)
        /\ \A i \in 1 .. a : u[i] = t[i]
        /\ \A i \in 1 .. Len(t) - b : u[a + i] = t[b + i]
    <3>1. t \in Seq(Codes) /\ a \in 0 .. Len(t) /\ n \in Nat /\ b = a + n
      BY <2>1, <2>2
    <3>2. TakenOut(Codes, u, t, a, b)
      BY <2>15, <3>1, DeletedIs
    <3> QED
      BY <3>2 DEF TakenOut
  <2>6. /\ u \in Texts /\ Len(u) = a + Greatest(Len(t) - b, 0)
        /\ \A i \in 1 .. Len(t) - b : u[a + i] = t[b + i]
    BY <2>2, <2>4 DEF Texts
  <2>7. Len(u) \in Nat /\ a <= Len(u) /\ Len(u) - a = Greatest(Len(t) - b, 0)
    BY <2>1, <2>2, <2>6 DEF Greatest
  <2>8. f \in Editors
    <3>1. a \in Nat /\ u \in Texts /\ None \in Anchors /\ d \in Editors
      BY <2>1, <2>2, <2>6, Empties
    <3> QED
      BY <2>3, <3>1 DEF Editors
  <2>9. /\ f.text = u /\ f.caret = a /\ f.anchor = None /\ f.dirty = TRUE /\ f.clip = d.clip
        /\ f.undo = d.undo /\ f.redo = d.redo /\ f.last = d.last /\ f.path = d.path
    BY <2>1, <2>3 DEF Editors
  <2>10. EditorOK(f)
    BY <2>1, <2>7, <2>8, <2>9 DEF EditorOK
  <2>11. Start(f) = a
    BY <2>9 DEF Start, HasSelection
  <2>12. ASSUME f.last # "None" PROVE RunOK(f)
    <3> DEFINE s == Last(d.undo).text
    <3>1. /\ d.undo # <<>> /\ d.redo = <<>> /\ EndsAlike(t, d.caret, s)
          /\ d.last = "Delete" => StartsAlike(t, a, s)
      BY <2>9, <2>12, <2>14 DEF Good, RunOK, a
    <3> HIDE DEF s
    <3>2. s \in Texts
      BY <2>1, <3>1, Fields, LastSnap DEF s
    <3>3. EndsAlike(u, a, s)
      <4>1. /\ t \in Texts /\ u \in Texts /\ d.caret \in 0 .. Len(t) /\ d.caret <= b /\ b \in Nat
            /\ a \in 0 .. Len(u)
        BY <2>1, <2>2, <2>6, <2>7
      <4> QED
        BY <2>6, <2>7, <3>1, <3>2, <4>1, EndsShorter
    <3>4. d.last = "Delete" => StartsAlike(u, a, s)
      BY <2>4, <3>1 DEF StartsAlike
    <3> QED
      BY <2>9, <2>11, <3>1, <3>3, <3>4 DEF RunOK, s
  <2>13. RunOK(f)
    BY <2>12 DEF RunOK
  <2> QED
    BY <2>9, <2>10, <2>13 DEF Good, Admits
<1> QED
  BY <1>1, <1>2

\* What says whether a run is in one place.
SameRun(d, f) ==
  /\ f.text = d.text /\ f.caret = d.caret /\ f.anchor = d.anchor
  /\ f.undo = d.undo /\ f.redo = d.redo /\ f.last = d.last
SameFile(d, f) == f.path = d.path /\ f.dirty = d.dirty

\* Then it is.
LEMMA RunSame ==
  ASSUME NEW d, NEW f, RunOK(d), SameRun(d, f)
  PROVE  RunOK(f)
BY DEF RunOK, SameRun, Start, HasSelection, SelectionStart

\* The goal column follows the caret.
LEMMA SyncGoalIs ==
  ASSUME NEW d, EditorOK(d), NEW f, f = SyncGoal(d)
  PROVE  EditorOK(f) /\ SameRun(d, f) /\ SameFile(d, f) /\ f.clip = d.clip
<1> DEFINE goal == ColOf(d.text, d.caret)
<1>1. goal \in Nat
  BY InText, ColIs
<1>2. f = [d EXCEPT !.goal = goal] /\ d \in Editors
  BY DEF SyncGoal, EditorOK
<1> HIDE DEF goal
<1>3. f \in Editors
  BY <1>1, <1>2 DEF Editors
<1>4. SameRun(d, f) /\ SameFile(d, f) /\ f.clip = d.clip
  BY <1>2 DEF Editors, SameRun, SameFile
<1> QED
  BY <1>3, <1>4 DEF EditorOK, SameRun

\* A text goes in before the caret; a run of insertions goes on.
LEMMA PutIs ==
  ASSUME NEW d, Good(d), d.last # "Delete", NEW s \in Texts, NEW f, f = Put(d, s)
  PROVE  /\ Good(f) /\ f.undo = d.undo /\ f.redo = d.redo /\ f.last = d.last /\ Admits(d, f)
<1> DEFINE t == d.text
           c == d.caret
           n == Len(s)
           u == Inserted(t, c, s)
           g == [d EXCEPT !.text = u, !.caret = c + n, !.dirty = TRUE]
<1>1. /\ d \in Editors /\ EditorOK(d) /\ t \in Texts /\ t \in Seq(Codes) /\ c \in 0 .. Len(t)
      /\ Len(t) \in Nat /\ s \in Seq(Codes) /\ n \in Nat /\ t = d.text
  BY InText, LenProperties DEF Good, Texts
<1>2. f = SyncGoal(g)
  BY DEF Put
<1>3. g = [d EXCEPT !.text = u, !.caret = c + n, !.dirty = TRUE] /\ c = d.caret /\ u = Inserted(t, c, s)
      /\ n = Len(s)
  OBVIOUS
<1> HIDE DEF u, t, c, n, g
<1>4. PutIn(Codes, u, t, c, n)
  BY <1>1, <1>3, InsertedIs
<1>5. /\ u \in Texts /\ Len(u) = Len(t) + n /\ c + n \in Nat
      /\ \A i \in 1 .. Len(t) - c : u[(c + n) + i] = t[c + i]
  BY <1>1, <1>4 DEF PutIn, Texts
<1>6. g \in Editors
  BY <1>1, <1>3, <1>5 DEF Editors
<1>7. /\ g.text = u /\ g.caret = c + n /\ g.dirty = TRUE /\ g.clip = d.clip
      /\ g.undo = d.undo /\ g.redo = d.redo /\ g.last = d.last /\ g.path = d.path
  BY <1>1, <1>3 DEF Editors
<1>8. EditorOK(g)
  <2>1. c + n <= Len(u)
    BY <1>1, <1>5
  <2> QED
    BY <1>1, <1>6, <1>7, <2>1 DEF EditorOK
<1>9. ASSUME g.last # "None" PROVE RunOK(g)
  <2> DEFINE snap == Last(d.undo).text
  <2>1. d.undo # <<>> /\ d.redo = <<>> /\ EndsAlike(t, c, snap)
    BY <1>1, <1>3, <1>7, <1>9 DEF Good, RunOK
  <2>2. snap \in Texts
    BY <1>1, <2>1, Fields, LastSnap
  <2> HIDE DEF snap
  <2>3. EndsAlike(u, c + n, snap)
    <3>1. c \in Nat /\ c <= c /\ c + n \in 0 .. Len(u) /\ Len(u) - (c + n) = Greatest(Len(t) - c, 0)
      BY <1>1, <1>5 DEF Greatest
    <3>2. /\ t \in Texts /\ u \in Texts /\ c \in 0 .. Len(t) /\ EndsAlike(t, c, snap)
          /\ \A i \in 1 .. Len(t) - c : u[(c + n) + i] = t[c + i]
      BY <1>1, <1>5, <2>1
    <3> QED
      BY <2>2, <3>1, <3>2, EndsShorter
  <2> QED
    BY <1>7, <2>1, <2>3 DEF RunOK, snap
<1>10. Good(g) /\ Admits(d, g)
  BY <1>7, <1>8, <1>9 DEF Good, RunOK, Admits
<1>11. EditorOK(f) /\ SameRun(g, f) /\ SameFile(g, f)
  BY <1>2, <1>8, SyncGoalIs
<1> QED
  BY <1>7, <1>10, <1>11, RunSame DEF Good, Admits, SameRun, SameFile
----------------------------------------------------------------------------
(* Edits *)

\* A step that goes on from a snapshot remembers what the snapshot does.
LEMMA FromCheckpoint ==
  ASSUME NEW e, NEW d, NEW f, Continues(e, d) \/ Pushes(e, d), d.text = e.text,
         d.path = e.path, d.dirty = e.dirty,
         Good(f), f.undo = d.undo, f.redo = d.redo, f.last = d.last, Admits(d, f)
  PROVE  Edited(e, f)
BY DEF Continues, Pushes, Remembers, Admits, Edited

\* The code points the editor puts in itself.
LEMMA CodesThere == NL \in Codes /\ Space \in Codes
BY WorkspaceAssumption

\* The kinds of edits.
LEMMA KindsThere == "None" \in Kinds /\ "Insert" \in Kinds /\ "Delete" \in Kinds
BY DEF Kinds

\* A character, a newline or the clipboard replaces the selection.
LEMMA PutEdited ==
  ASSUME NEW e, Good(e), NEW kind \in {"None", "Insert"}, NEW s \in Texts,
         NEW f, f = Put(DeleteSelection(Checkpoint(e, kind)), s)
  PROVE  Edited(e, f)
<1> DEFINE c == Checkpoint(e, kind)
           d == DeleteSelection(c)
<1>1. c = Checkpoint(e, kind) /\ d = DeleteSelection(c) /\ f = Put(d, s) /\ kind \in Kinds
  BY DEF Kinds
<1> HIDE DEF c, d
<1>2. /\ Good(c) /\ c.last = kind /\ (Continues(e, c) \/ Pushes(e, c))
      /\ c.text = e.text /\ c.path = e.path /\ c.dirty = e.dirty
  BY <1>1, CheckpointIs
<1>3. Good(d) /\ d.undo = c.undo /\ d.redo = c.redo /\ d.last = c.last /\ Admits(c, d)
  BY <1>1, <1>2, DeleteSelectionIs
<1>4. Good(f) /\ f.undo = d.undo /\ f.redo = d.redo /\ f.last = d.last /\ Admits(d, f)
  BY <1>1, <1>2, <1>3, PutIs
<1>5. Admits(c, f)
  BY <1>3, <1>4 DEF Admits
<1> QED
  BY <1>2, <1>3, <1>4, <1>5, FromCheckpoint

\* A character typed, ...
LEMMA InsertCharEdited ==
  ASSUME NEW e, Good(e), NEW c \in Codes, NEW f, f = InsertChar(e, c)
  PROVE  Edited(e, f)
<1>1. <<c>> \in Texts /\ "Insert" \in {"None", "Insert"}
  BY DEF Texts
<1> QED
  BY <1>1, PutEdited DEF InsertChar

\* ... a newline, ...
LEMMA NewlineEdited ==
  ASSUME NEW e, Good(e), NEW f, f = Newline(e)
  PROVE  Edited(e, f)
<1>1. <<NL>> \in Texts /\ "None" \in {"None", "Insert"}
  BY CodesThere DEF Texts
<1> QED
  BY <1>1, PutEdited DEF Newline

\* Nothing is edited.
LEMMA Unedited == ASSUME NEW e, Good(e) PROVE Edited(e, e)
BY DEF Edited, Remembers, Admits

\* ... what was cut or copied.
LEMMA PasteEdited ==
  ASSUME NEW e, Good(e), NEW f, f = Paste(e)
  PROVE  Edited(e, f)
<1>1. e.clip \in Texts /\ "None" \in {"None", "Insert"}
  BY InText, Fields DEF Good
<1>2. CASE e.clip = <<>>
  BY <1>2, Unedited DEF Paste
<1>3. CASE e.clip # <<>>
  BY <1>1, <1>3, PutEdited DEF Paste
<1> QED
  BY <1>2, <1>3

\* The selection to the clipboard, ...
LEMMA CopyEdited ==
  ASSUME NEW e, Good(e), NEW f, f = Copy(e)
  PROVE  Edited(e, f) /\ SameRun(e, f) /\ SameFile(e, f)
<1>1. CASE ~HasSelection(e)
  BY <1>1, Unedited DEF Copy, SameRun, SameFile
<1>2. CASE HasSelection(e)
  <2> DEFINE b == SelectionEnd(e)
             a == SelectionStart(e)
             u == Slice(e.text, a, b)
  <2>1. e \in Editors /\ EditorOK(e) /\ e.text \in Seq(Codes)
    BY InText DEF Good
  <2>2. a \in Nat /\ b \in Nat
    BY <1>2, <2>1, SelectionIs
  <2> HIDE DEF a, b
  <2>3. Upto(e.text, b) \in Seq(Codes)
    BY <2>1, <2>2, Pieces
  <2>4. u \in Texts
    BY <2>2, <2>3, Pieces DEF Slice, Texts
  <2>5. f = [e EXCEPT !.clip = u]
    BY <1>2 DEF Copy, a, b
  <2> HIDE DEF u
  <2>6. f \in Editors
    BY <2>1, <2>4, <2>5 DEF Editors
  <2>7. SameRun(e, f) /\ SameFile(e, f)
    BY <2>1, <2>5 DEF Editors, SameRun, SameFile
  <2>8. EditorOK(f) /\ RunOK(f)
    BY <2>1, <2>6, <2>7, RunSame DEF EditorOK, SameRun, Good
  <2> QED
    BY <2>7, <2>8 DEF Edited, Good, Remembers, Admits, SameRun, SameFile
<1> QED
  BY <1>1, <1>2

\* ... and out of the text.
LEMMA CutEdited ==
  ASSUME NEW e, Good(e), NEW f, f = Cut(e)
  PROVE  Edited(e, f)
<1>1. CASE ~HasSelection(e)
  BY <1>1, Unedited DEF Cut
<1>2. CASE HasSelection(e)
  <2> DEFINE b == Copy(e)
             c == Checkpoint(b, "None")
  <2>1. b = Copy(e) /\ c = Checkpoint(b, "None") /\ f = DeleteSelection(c)
    BY <1>2 DEF Cut
  <2> HIDE DEF b, c
  <2>2. Good(b) /\ SameRun(e, b) /\ SameFile(e, b)
    BY <2>1, CopyEdited DEF Edited
  <2>3. /\ Good(c) /\ (Continues(b, c) \/ Pushes(b, c))
        /\ c.text = b.text /\ c.path = b.path /\ c.dirty = b.dirty
    <3>1. Good(b) /\ "None" \in Kinds /\ c = Checkpoint(b, "None")
      BY <2>1, <2>2, KindsThere
    <3> QED
      BY <3>1, CheckpointIs
  <2>4. Good(f) /\ f.undo = c.undo /\ f.redo = c.redo /\ f.last = c.last /\ Admits(c, f)
    BY <2>1, <2>3, DeleteSelectionIs
  <2>5. Continues(e, c) \/ Pushes(e, c)
    BY <2>2, <2>3 DEF Continues, Pushes, SameRun
  <2>6. c.text = e.text /\ c.path = e.path /\ c.dirty = e.dirty
    BY <2>2, <2>3 DEF SameRun, SameFile
  <2> QED
    BY <2>4, <2>5, <2>6, FromCheckpoint
<1> QED
  BY <1>1, <1>2

\* One character goes, before the caret or behind it; a run goes on.
LEMMA OneDeleted ==
  ASSUME NEW d, Good(d), d.last = "Delete", ~HasSelection(d),
         NEW a \in 0 .. Len(d.text), a <= d.caret, d.caret <= a + 1,
         NEW f, f = [d EXCEPT !.text = Deleted(d.text, a, 1), !.caret = a, !.dirty = TRUE]
  PROVE  Good(f) /\ f.undo = d.undo /\ f.redo = d.redo /\ f.last = d.last /\ Admits(d, f)
<1> DEFINE t == d.text
           u == Deleted(t, a, 1)
           b == a + 1
           snap == Last(d.undo).text
<1>1. /\ d \in Editors /\ EditorOK(d) /\ t \in Texts /\ t \in Seq(Codes) /\ d.caret \in 0 .. Len(t)
      /\ Len(t) \in Nat
  BY InText DEF Good
<1>2. /\ t = d.text /\ u = Deleted(t, a, 1) /\ b = a + 1 /\ a \in 0 .. Len(t)
      /\ f = [d EXCEPT !.text = u, !.caret = a, !.dirty = TRUE]
  OBVIOUS
<1>3. /\ d.undo # <<>> /\ d.redo = <<>> /\ EndsAlike(t, d.caret, snap)
      /\ StartsAlike(t, d.caret, snap)
  BY DEF Good, RunOK, Start
<1>4. snap \in Texts
  BY <1>1, <1>3, Fields, LastSnap
<1> HIDE DEF t, u, b, snap
<1>5. TakenOut(Codes, u, t, a, b)
  <2>1. 1 \in Nat
    OBVIOUS
  <2> QED
    BY <1>1, <1>2, <2>1, DeletedIs
<1>6. /\ u \in Texts /\ Len(u) = a + Greatest(Len(t) - b, 0)
      /\ \A i \in 1 .. a : u[i] = t[i]
      /\ \A i \in 1 .. Len(t) - b : u[a + i] = t[b + i]
  BY <1>5 DEF TakenOut, Texts
<1>7. a \in 0 .. Len(u) /\ Len(u) - a = Greatest(Len(t) - b, 0) /\ b \in Nat /\ d.caret <= b /\ a \in Nat
  BY <1>1, <1>2, <1>6 DEF Greatest
<1>8. f \in Editors
  BY <1>1, <1>2, <1>6, <1>7 DEF Editors
<1>9. /\ f.text = u /\ f.caret = a /\ f.dirty = TRUE /\ f.anchor = d.anchor
      /\ f.undo = d.undo /\ f.redo = d.redo /\ f.last = d.last /\ f.path = d.path
  BY <1>1, <1>2 DEF Editors
<1>10. EditorOK(f)
  <2>1. a <= Len(u)
    BY <1>7
  <2> QED
    BY <1>1, <1>8, <1>9, <2>1 DEF EditorOK
<1>11. EndsAlike(u, a, snap)
  BY <1>1, <1>3, <1>4, <1>6, <1>7, EndsShorter
<1>12. StartsAlike(u, a, snap)
  <2>1. Len(snap) \in Nat
    BY <1>4, LenProperties DEF Texts
  <2> QED
    BY <1>1, <1>3, <1>6, <2>1 DEF StartsAlike
<1>13. Start(f) = a
  <2>1. f.anchor = None \/ f.anchor = d.caret
    BY <1>9 DEF HasSelection
  <2> QED
    BY <1>1, <1>9, <2>1 DEF Start, HasSelection, SelectionStart, Least
<1>14. RunOK(f)
  BY <1>3, <1>9, <1>11, <1>12, <1>13 DEF RunOK, snap
<1> QED
  BY <1>9, <1>10, <1>14 DEF Good, Admits

\* The code point before the caret goes, ...
LEMMA BackspaceEdited ==
  ASSUME NEW e, Good(e), NEW f, f = Backspace(e)
  PROVE  Edited(e, f)
<1> DEFINE d == Checkpoint(e, "Delete")
<1>1. d = Checkpoint(e, "Delete")
  OBVIOUS
<1>2. f = IF HasSelection(d) THEN DeleteSelection(d)
          ELSE IF d.caret = 0 THEN d
          ELSE SyncGoal([d EXCEPT !.text = Deleted(@, d.caret - 1, 1), !.caret = @ - 1, !.dirty = TRUE])
  BY DEF Backspace
<1> HIDE DEF d
<1>3. /\ Good(d) /\ d.last = "Delete" /\ (Continues(e, d) \/ Pushes(e, d))
      /\ d.text = e.text /\ d.path = e.path /\ d.dirty = e.dirty
  BY <1>1, KindsThere, CheckpointIs
<1>4. SUFFICES Good(f) /\ f.undo = d.undo /\ f.redo = d.redo /\ f.last = d.last /\ Admits(d, f)
  BY <1>3, FromCheckpoint
<1>5. CASE HasSelection(d)
  BY <1>2, <1>3, <1>5, DeleteSelectionIs
<1>6. CASE ~HasSelection(d) /\ d.caret = 0
  BY <1>2, <1>3, <1>6 DEF Admits
<1>7. CASE ~HasSelection(d) /\ d.caret # 0
  <2> DEFINE a == d.caret - 1
             g == [d EXCEPT !.text = Deleted(d.text, a, 1), !.caret = a, !.dirty = TRUE]
  <2>1. f = SyncGoal(g)
    BY <1>2, <1>7
  <2>2. a \in 0 .. Len(d.text) /\ a <= d.caret /\ d.caret <= a + 1
    BY <1>3, <1>7, InText DEF Good
  <2>3. g = [d EXCEPT !.text = Deleted(d.text, a, 1), !.caret = a, !.dirty = TRUE]
    OBVIOUS
  <2> HIDE DEF a, g
  <2>4. Good(g) /\ g.undo = d.undo /\ g.redo = d.redo /\ g.last = d.last /\ Admits(d, g)
    BY <1>3, <1>7, <2>2, <2>3, OneDeleted
  <2>5. EditorOK(f) /\ SameRun(g, f) /\ SameFile(g, f)
    BY <2>1, <2>4, SyncGoalIs DEF Good
  <2> QED
    BY <2>4, <2>5, RunSame DEF Good, Admits, SameRun, SameFile
<1> QED
  BY <1>5, <1>6, <1>7

\* ... or the one behind it.
LEMMA DeleteForwardEdited ==
  ASSUME NEW e, Good(e), NEW f, f = DeleteForward(e)
  PROVE  Edited(e, f)
<1> DEFINE d == Checkpoint(e, "Delete")
<1>1. d = Checkpoint(e, "Delete")
  OBVIOUS
<1>2. f = IF HasSelection(d) THEN DeleteSelection(d)
          ELSE IF d.caret >= Len(d.text) THEN d
          ELSE [d EXCEPT !.text = Deleted(@, d.caret, 1), !.dirty = TRUE]
  BY DEF DeleteForward
<1> HIDE DEF d
<1>3. /\ Good(d) /\ d.last = "Delete" /\ (Continues(e, d) \/ Pushes(e, d))
      /\ d.text = e.text /\ d.path = e.path /\ d.dirty = e.dirty
  BY <1>1, KindsThere, CheckpointIs
<1>4. SUFFICES Good(f) /\ f.undo = d.undo /\ f.redo = d.redo /\ f.last = d.last /\ Admits(d, f)
  BY <1>3, FromCheckpoint
<1>5. CASE HasSelection(d)
  BY <1>2, <1>3, <1>5, DeleteSelectionIs
<1>6. CASE ~HasSelection(d) /\ d.caret >= Len(d.text)
  BY <1>2, <1>3, <1>6 DEF Admits
<1>7. CASE ~HasSelection(d) /\ ~(d.caret >= Len(d.text))
  <2> DEFINE u == Deleted(d.text, d.caret, 1)
  <2>1. d \in Editors /\ d.caret \in 0 .. Len(d.text) /\ d.caret <= d.caret /\ d.caret <= d.caret + 1
    BY <1>3, InText DEF Good
  <2>2. f = [d EXCEPT !.text = u, !.dirty = TRUE]
    BY <1>2, <1>7
  <2> HIDE DEF u
  <2>3. f = [d EXCEPT !.text = u, !.caret = d.caret, !.dirty = TRUE]
    BY <2>1, <2>2 DEF Editors
  <2> QED
    BY <1>3, <1>7, <2>1, <2>3, OneDeleted DEF u
<1> QED
  BY <1>5, <1>6, <1>7

\* The text is formatted.
LEMMA FormatEdited ==
  ASSUME NEW e, Good(e), NEW f, f = Format(e)
  PROVE  Edited(e, f)
<1> DEFINE d == Checkpoint(e, "None")
           s == FormatForth(e.text)
           c == Least(d.caret, Len(s))
<1>1. d = Checkpoint(e, "None") /\ f = [d EXCEPT !.text = s, !.caret = c, !.anchor = None, !.dirty = TRUE]
  BY DEF Format
<1>2. s \in Texts /\ Len(s) \in Nat
  <2>1. s \in Seq(Codes)
    BY CodesThere, InText, FormatTyped DEF Good
  <2> QED
    BY <2>1, LenProperties DEF Texts
<1> HIDE DEF d, s
<1>3. /\ Good(d) /\ d.last = "None" /\ (Continues(e, d) \/ Pushes(e, d))
      /\ d.text = e.text /\ d.path = e.path /\ d.dirty = e.dirty
  BY <1>1, KindsThere, CheckpointIs
<1>4. d \in Editors /\ c \in Nat /\ c <= Len(s) /\ EditorOK(d)
  <2>1. d \in Editors /\ d.caret \in Nat /\ EditorOK(d)
    BY <1>3, InText DEF Good
  <2> QED
    BY <1>2, <2>1 DEF Least
<1> HIDE DEF c
<1>5. f \in Editors
  BY <1>1, <1>2, <1>4, Empties DEF Editors
<1>6. /\ f.text = s /\ f.caret = c /\ f.dirty = TRUE
      /\ f.undo = d.undo /\ f.redo = d.redo /\ f.last = d.last /\ f.path = d.path
  BY <1>1, <1>4 DEF Editors
<1>7. Good(f) /\ Admits(d, f)
  BY <1>3, <1>4, <1>5, <1>6 DEF Good, EditorOK, RunOK, Admits
<1> QED
  BY <1>3, <1>6, <1>7, FromCheckpoint

----------------------------------------------------------------------------
(* Undo and redo *)

\* l is the texts of u, then t, then the texts of r from its end to its start.
IsTimeline(l, u, t, r) ==
  /\ l \in Seq(Texts) /\ Len(l) = Len(u) + 1 + Len(r)
  /\ \A i \in 1 .. Len(u) : l[i] = u[i].text
  /\ l[Len(u) + 1] = t
  /\ \A i \in 1 .. Len(r) : l[(Len(u) + 1) + i] = r[(Len(r) + 1) - i].text

\* The line of texts, text by text.
LEMMA TimelineIs ==
  ASSUME NEW e, EditorOK(e)
  PROVE  IsTimeline(Timeline(e), e.undo, e.text, e.redo)
<1> DEFINE u == e.undo
           r == e.redo
           a == [i \in DOMAIN u |-> u[i].text]
           b == <<e.text>>
           c == [i \in DOMAIN r |-> Reverse(r)[i].text]
           ab == a \o b
           l == ab \o c
<1>1. /\ u \in Seq(Snaps) /\ Len(u) \in Nat /\ DOMAIN u = 1 .. Len(u)
      /\ r \in Seq(Snaps) /\ Len(r) \in Nat /\ DOMAIN r = 1 .. Len(r) /\ e.text \in Texts
  BY InText, Fields
<1>2. \A i \in 1 .. Len(u) : u[i].text \in Texts
  <2> SUFFICES ASSUME NEW i \in 1 .. Len(u) PROVE u[i].text \in Texts
    OBVIOUS
  <2>1. u[i] \in Snaps
    BY <1>1, ElementOfSeq
  <2> QED
    BY <2>1 DEF Snaps, Texts
<1>3. \A i \in 1 .. Len(r) : (Len(r) + 1) - i \in 1 .. Len(r) /\ r[(Len(r) + 1) - i].text \in Texts
  <2> SUFFICES ASSUME NEW i \in 1 .. Len(r)
               PROVE  (Len(r) + 1) - i \in 1 .. Len(r) /\ r[(Len(r) + 1) - i].text \in Texts
    OBVIOUS
  <2>1. (Len(r) + 1) - i \in 1 .. Len(r)
    BY <1>1
  <2>2. r[(Len(r) + 1) - i] \in Snaps
    BY <1>1, <2>1, ElementOfSeq
  <2> QED
    BY <2>1, <2>2 DEF Snaps, Texts
<1>4. \A i \in 1 .. Len(r) : Reverse(r)[i] = r[(Len(r) + 1) - i]
  <2> SUFFICES ASSUME NEW i \in 1 .. Len(r) PROVE Reverse(r)[i] = r[(Len(r) + 1) - i]
    OBVIOUS
  <2>1. Len(r) - i + 1 = (Len(r) + 1) - i
    BY <1>1
  <2>2. Reverse(r)[i] = r[Len(r) - i + 1]
    BY DEF Reverse
  <2> QED
    BY <2>1, <2>2
<1>5. Timeline(e) = l
  BY DEF Timeline
<1> HIDE DEF u, r
<1>6. a \in Seq(Texts) /\ Len(a) = Len(u) /\ \A i \in 1 .. Len(u) : a[i] = u[i].text
  BY <1>1, <1>2
<1>7. b \in Seq(Texts) /\ Len(b) = 1 /\ b[1] = e.text
  BY <1>1
<1>8. c \in Seq(Texts) /\ Len(c) = Len(r) /\ \A i \in 1 .. Len(r) : c[i] = r[(Len(r) + 1) - i].text
  <2>1. c = [i \in 1 .. Len(r) |-> r[(Len(r) + 1) - i].text]
    BY <1>1, <1>4
  <2> HIDE DEF c
  <2> QED
    BY <1>1, <1>3, <2>1
<1>9. ab = a \o b /\ l = ab \o c
  OBVIOUS
<1> HIDE DEF a, b, c, ab, l
<1>10. /\ ab \in Seq(Texts) /\ Len(ab) = Len(u) + 1
       /\ \A i \in 1 .. Len(u) : ab[i] = u[i].text
       /\ ab[Len(u) + 1] = e.text
  <2>1. /\ ab \in Seq(Texts) /\ Len(ab) = Len(a) + Len(b)
        /\ \A i \in 1 .. Len(a) : ab[i] = a[i]
        /\ \A i \in 1 .. Len(b) : ab[Len(a) + i] = b[i]
    <3>1. IsJoin(ab, a, b, Texts)
      BY <1>6, <1>7, <1>9, JoinedIs
    <3> QED
      BY <3>1 DEF IsJoin
  <2>2. 1 \in 1 .. Len(b)
    BY <1>7
  <2> QED
    BY <1>6, <1>7, <2>1, <2>2
<1>11. /\ l \in Seq(Texts) /\ Len(l) = Len(u) + 1 + Len(r)
       /\ \A i \in 1 .. Len(u) + 1 : l[i] = ab[i]
       /\ \A i \in 1 .. Len(r) : l[(Len(u) + 1) + i] = c[i]
  <2>1. /\ l \in Seq(Texts) /\ Len(l) = Len(ab) + Len(c)
        /\ \A i \in 1 .. Len(ab) : l[i] = ab[i]
        /\ \A i \in 1 .. Len(c) : l[Len(ab) + i] = c[i]
    <3>1. IsJoin(l, ab, c, Texts)
      BY <1>8, <1>9, <1>10, JoinedIs
    <3> QED
      BY <3>1 DEF IsJoin
  <2> QED
    BY <1>8, <1>10, <2>1
<1>12. \A i \in 1 .. Len(u) : l[i] = u[i].text
  BY <1>1, <1>10, <1>11
<1>13. l[Len(u) + 1] = e.text
  BY <1>1, <1>10, <1>11
<1>14. \A i \in 1 .. Len(r) : l[(Len(u) + 1) + i] = r[(Len(r) + 1) - i].text
  BY <1>8, <1>11
<1> QED
  BY <1>5, <1>11, <1>12, <1>13, <1>14 DEF IsTimeline, u, r

\* v is u with one snapshot more.
Grown(u, v) == Len(v) = Len(u) + 1 /\ \A i \in 1 .. Len(u) : v[i] = u[i]

\* The last snapshot of v is the text of the one timeline, that of q of the other:
\* they are the same.
LEMMA Shifted ==
  ASSUME NEW u \in Seq(Snaps), NEW v \in Seq(Snaps), Grown(u, v),
         NEW r \in Seq(Snaps), NEW q \in Seq(Snaps), Grown(r, q),
         NEW l, IsTimeline(l, v, q[Len(q)].text, r), NEW m, IsTimeline(m, u, v[Len(v)].text, q)
  PROVE  l = m
<1>1. /\ Len(u) \in Nat /\ Len(r) \in Nat
      /\ Len(v) = Len(u) + 1 /\ \A i \in 1 .. Len(u) : v[i] = u[i]
      /\ Len(q) = Len(r) + 1 /\ \A i \in 1 .. Len(r) : q[i] = r[i]
  BY LenProperties DEF Grown
<1>2. /\ l \in Seq(Texts) /\ m \in Seq(Texts)
      /\ Len(l) = Len(u) + Len(r) + 2 /\ Len(m) = Len(u) + Len(r) + 2
  BY <1>1 DEF IsTimeline
<1>3. ASSUME NEW k \in 1 .. Len(l) PROVE l[k] = m[k]
  <2>1. CASE k \in 1 .. Len(u)
    <3>1. k \in 1 .. Len(v)
      BY <1>1, <2>1
    <3>2. l[k] = v[k].text /\ m[k] = u[k].text
      BY <2>1, <3>1 DEF IsTimeline
    <3> QED
      BY <1>1, <2>1, <3>2
  <2>2. CASE k = Len(u) + 1
    <3>1. k \in 1 .. Len(v) /\ k = Len(v)
      BY <1>1, <2>2
    <3>2. l[k] = v[k].text /\ m[k] = v[Len(v)].text
      BY <2>2, <3>1 DEF IsTimeline
    <3> QED
      BY <3>1, <3>2
  <2>3. CASE k = Len(u) + 2
    <3>1. 1 \in 1 .. Len(q) /\ (Len(q) + 1) - 1 = Len(q) /\ k = Len(v) + 1 /\ k = (Len(u) + 1) + 1
      BY <1>1, <2>3
    <3>2. l[k] = q[Len(q)].text
      BY <3>1 DEF IsTimeline
    <3>3. m[(Len(u) + 1) + 1] = q[(Len(q) + 1) - 1].text
      BY <3>1 DEF IsTimeline
    <3> QED
      BY <3>1, <3>2, <3>3
  <2>4. CASE k > Len(u) + 2
    <3> DEFINE i == k - (Len(u) + 2)
    <3>1. /\ i \in 1 .. Len(r) /\ i + 1 \in 1 .. Len(q) /\ k = (Len(v) + 1) + i /\ k = (Len(u) + 1) + (i + 1)
          /\ (Len(r) + 1) - i \in 1 .. Len(r) /\ (Len(q) + 1) - (i + 1) = (Len(r) + 1) - i
      BY <1>1, <1>2, <2>4
    <3> HIDE DEF i
    <3>2. l[(Len(v) + 1) + i] = r[(Len(r) + 1) - i].text
      BY <3>1 DEF IsTimeline
    <3>3. m[(Len(u) + 1) + (i + 1)] = q[(Len(q) + 1) - (i + 1)].text
      BY <3>1 DEF IsTimeline
    <3>4. q[(Len(r) + 1) - i] = r[(Len(r) + 1) - i]
      BY <1>1, <3>1
    <3> QED
      BY <3>1, <3>2, <3>3, <3>4
  <2> QED
    BY <1>1, <1>2, <2>1, <2>2, <2>3, <2>4
<1> QED
  BY <1>2, <1>3, SeqEqual

\* An editor with a snapshot restored, and other stacks.
Rewound(e, snap, u, r) == [Restored(e, snap) EXCEPT !.undo = u, !.redo = r]

\* It has unsaved changes and is in no run.
LEMMA RestoredIs ==
  ASSUME NEW e \in Editors, NEW snap \in Snaps, NEW u \in Histories, NEW r \in Histories,
         Len(u) + Len(r) <= UndoMax,
         NEW f, f = Rewound(e, snap, u, r)
  PROVE  /\ Good(f) /\ Admits(e, f)
         /\ f.text = snap.text /\ f.undo = u /\ f.redo = r /\ f.last = "None"
<1> DEFINE s == snap.text
           c == Least(snap.caret, Len(s))
<1>1. s \in Texts /\ c \in Nat /\ c <= Len(s) /\ s = snap.text
  <2>1. s \in Seq(Codes) /\ snap.caret \in Nat /\ snap.caret <= Len(s)
    BY DEF Snaps
  <2> QED
    BY <2>1, LenProperties DEF Least, Texts
<1>2. f = [e EXCEPT !.text = s, !.caret = c, !.anchor = None, !.last = "None", !.dirty = TRUE,
                    !.undo = u, !.redo = r]
  BY DEF Rewound, Restored
<1> HIDE DEF s, c
<1>3. f \in Editors
  <2>1. s \in Texts /\ c \in Nat /\ None \in Anchors /\ "None" \in Kinds
    BY <1>1, Empties, KindsThere
  <2> QED
    BY <1>2, <2>1 DEF Editors
<1>4. /\ f.text = s /\ f.caret = c /\ f.last = "None" /\ f.dirty = TRUE /\ f.undo = u /\ f.redo = r
      /\ f.path = e.path
  BY <1>2 DEF Editors
<1> QED
  BY <1>1, <1>3, <1>4 DEF Good, EditorOK, RunOK, Admits

\* Undo goes one text back along the line, ...
LEMMA UndoEdited ==
  ASSUME NEW e, Good(e), NEW f, f = Undo(e)
  PROVE  Edited(e, f)
<1>1. CASE e.undo = <<>>
  BY <1>1, Unedited DEF Undo
<1>2. CASE e.undo # <<>>
  <2> DEFINE v == e.undo
             r == e.redo
             u == Front(v)
             q == Append(r, Snapshot(e))
             snap == Last(v)
  <2>1. /\ e \in Editors /\ EditorOK(e) /\ v \in Seq(Snaps) /\ r \in Seq(Snaps) /\ v # <<>>
        /\ Len(v) + Len(r) <= UndoMax /\ Snapshot(e) \in Snaps /\ Snapshot(e).text = e.text
        /\ v = e.undo /\ r = e.redo /\ u = Front(v) /\ q = Append(r, Snapshot(e))
        /\ snap = Last(v)
    BY <1>2, SnapshotIs, Fields DEF Good, EditorOK
  <2>2. f = Rewound(e, snap, u, q)
    BY <1>2, <2>1 DEF Undo, Restored, Rewound, Editors
  <2> HIDE DEF u, q, v, r, snap
  <2>3. u \in Seq(Snaps) /\ Len(v) = Len(u) + 1 /\ Len(u) \in Nat /\ Grown(u, v)
    <3>1. /\ u \in Seq(Snaps) /\ Len(u) = Len(v) - 1 /\ Len(v) \in Nat \ {0}
          /\ \A i \in 1 .. Len(u) : u[i] = v[i]
      BY <2>1, Popped
    <3> QED
      BY <3>1 DEF Grown
  <2>4. /\ q \in Seq(Snaps) /\ Len(q) = Len(r) + 1 /\ Len(r) \in Nat
        /\ Grown(r, q)
        /\ q[Len(q)] = Snapshot(e)
    BY <2>1, Pushed DEF Grown
  <2>5. snap \in Snaps /\ snap = v[Len(v)]
    BY <2>1, LastSnap DEF Last
  <2>6. /\ Good(f) /\ Admits(e, f)
        /\ f.text = snap.text /\ f.undo = u /\ f.redo = q
    <3>1. u \in Histories /\ q \in Histories
      BY <2>3, <2>4 DEF Histories
    <3>2. Len(u) + Len(q) = Len(v) + Len(r)
      BY <2>3, <2>4
    <3>3. Len(v) + Len(r) <= UndoMax /\ e \in Editors
      BY <2>1
    <3>4. Len(u) + Len(q) <= UndoMax
      BY <3>2, <3>3, Zenon
    <3>5. snap \in Snaps
      BY <2>5
    <3> QED
      BY <2>2, <3>1, <3>3, <3>4, <3>5, RestoredIs
  <2>7. IsTimeline(Timeline(e), v, q[Len(q)].text, r)
    BY <2>1, <2>4, TimelineIs
  <2>8. IsTimeline(Timeline(f), u, v[Len(v)].text, q)
    BY <2>5, <2>6, TimelineIs DEF Good
  <2>9. Timeline(e) = Timeline(f)
    <3>1. /\ u \in Seq(Snaps) /\ v \in Seq(Snaps) /\ Grown(u, v)
          /\ r \in Seq(Snaps) /\ q \in Seq(Snaps) /\ Grown(r, q)
      BY <2>1, <2>3, <2>4
    <3> QED
      BY <2>7, <2>8, <3>1, Shifted, Zenon
  <2>10. Len(f.undo) # Len(e.undo)
    BY <2>1, <2>3, <2>6
  <2> QED
    BY <2>6, <2>9, <2>10 DEF Edited, Remembers
<1> QED
  BY <1>1, <1>2

\* ... redo one forth.
LEMMA RedoEdited ==
  ASSUME NEW e, Good(e), NEW f, f = Redo(e)
  PROVE  Edited(e, f)
<1>1. CASE e.redo = <<>>
  BY <1>1, Unedited DEF Redo
<1>2. CASE e.redo # <<>>
  <2> DEFINE u == e.undo
             q == e.redo
             v == Append(u, Snapshot(e))
             r == Front(q)
             snap == Last(q)
  <2>1. /\ e \in Editors /\ EditorOK(e) /\ u \in Seq(Snaps) /\ q \in Seq(Snaps) /\ q # <<>>
        /\ Len(u) + Len(q) <= UndoMax /\ Snapshot(e) \in Snaps /\ Snapshot(e).text = e.text
        /\ u = e.undo /\ q = e.redo /\ r = Front(q) /\ v = Append(u, Snapshot(e))
        /\ snap = Last(q)
    BY <1>2, SnapshotIs, Fields DEF Good, EditorOK
  <2>2. f = Rewound(e, snap, v, r)
    BY <1>2, <2>1 DEF Redo, Restored, Rewound, Editors
  <2> HIDE DEF u, q, v, r, snap
  <2>3. r \in Seq(Snaps) /\ Len(q) = Len(r) + 1 /\ Len(r) \in Nat /\ Grown(r, q)
    <3>1. /\ r \in Seq(Snaps) /\ Len(r) = Len(q) - 1 /\ Len(q) \in Nat \ {0}
          /\ \A i \in 1 .. Len(r) : r[i] = q[i]
      BY <2>1, Popped
    <3> QED
      BY <3>1 DEF Grown
  <2>4. /\ v \in Seq(Snaps) /\ Len(v) = Len(u) + 1 /\ Len(u) \in Nat
        /\ Grown(u, v)
        /\ v[Len(v)] = Snapshot(e)
    BY <2>1, Pushed DEF Grown
  <2>5. snap \in Snaps /\ snap = q[Len(q)]
    BY <2>1, LastSnap DEF Last
  <2>6. /\ Good(f) /\ Admits(e, f)
        /\ f.text = snap.text /\ f.undo = v /\ f.redo = r
    <3>1. v \in Histories /\ r \in Histories
      BY <2>3, <2>4 DEF Histories
    <3>2. Len(v) + Len(r) = Len(u) + Len(q)
      BY <2>3, <2>4
    <3>3. Len(u) + Len(q) <= UndoMax /\ e \in Editors
      BY <2>1
    <3>4. Len(v) + Len(r) <= UndoMax
      BY <3>2, <3>3, Zenon
    <3>5. snap \in Snaps
      BY <2>5
    <3> QED
      BY <2>2, <3>1, <3>3, <3>4, <3>5, RestoredIs
  <2>7. IsTimeline(Timeline(e), u, v[Len(v)].text, q)
    BY <2>1, <2>4, TimelineIs
  <2>8. IsTimeline(Timeline(f), v, q[Len(q)].text, r)
    BY <2>5, <2>6, TimelineIs DEF Good
  <2>9. Timeline(f) = Timeline(e)
    <3>1. /\ u \in Seq(Snaps) /\ v \in Seq(Snaps) /\ Grown(u, v)
          /\ r \in Seq(Snaps) /\ q \in Seq(Snaps) /\ Grown(r, q)
      BY <2>1, <2>3, <2>4
    <3> QED
      BY <2>7, <2>8, <3>1, Shifted, Zenon
  <2>10. Len(f.undo) # Len(e.undo)
    BY <2>1, <2>4, <2>6
  <2> QED
    BY <2>6, <2>9, <2>10 DEF Edited, Remembers
<1> QED
  BY <1>1, <1>2
----------------------------------------------------------------------------
(* Motion *)

\* The text, its history and its file stay; no run goes on.
Kept(e, f) == f.text = e.text /\ f.undo = e.undo /\ f.redo = e.redo /\ f.path = e.path /\ f.dirty = e.dirty
Rested(e, f) == EditorOK(f) /\ Kept(e, f) /\ f.last = "None"

\* A motion is a step as the edits are.
LEMMA RestedEdited ==
  ASSUME NEW e, NEW f, Rested(e, f)
  PROVE  Edited(e, f)
BY DEF Rested, Kept, Edited, Good, RunOK, Remembers, Admits

\* A motion ends the run and moves the selection's end with the caret.
LEMMA PreMoveRested ==
  ASSUME NEW e, Good(e), NEW extend \in BOOLEAN, NEW d, d = PreMove(e, extend)
  PROVE  Rested(e, d) /\ d.caret = e.caret /\ d.goal \in Nat
<1> DEFINE anchor == IF ~extend THEN None ELSE IF e.anchor = None THEN e.caret ELSE e.anchor
<1>1. e \in Editors /\ EditorOK(e) /\ e.caret \in Nat /\ e.anchor \in Anchors
  BY Fields DEF Good, EditorOK
<1>2. anchor \in Anchors
  BY <1>1, Empties
<1>3. d = [e EXCEPT !.anchor = anchor, !.last = "None"]
  BY DEF PreMove
<1> HIDE DEF anchor
<1>4. d \in Editors
  BY <1>1, <1>2, <1>3, KindsThere DEF Editors
<1>5. Kept(e, d) /\ d.last = "None" /\ d.caret = e.caret
  BY <1>1, <1>3 DEF Editors, Kept
<1> QED
  BY <1>1, <1>4, <1>5, Fields DEF Rested, EditorOK, Kept

\* The caret may go anywhere in the text, ...
LEMMA CaretMoved ==
  ASSUME NEW e, NEW d, Rested(e, d), NEW c \in 0 .. Len(d.text), NEW f, f = [d EXCEPT !.caret = c]
  PROVE  Rested(e, f)
<1>1. d \in Editors /\ EditorOK(d) /\ Len(d.text) \in Nat
  BY Fields DEF Rested, EditorOK
<1>2. c \in Nat /\ c <= Len(d.text)
  BY <1>1
<1>3. f \in Editors
  BY <1>1, <1>2 DEF Editors
<1>4. /\ f.text = d.text /\ f.caret = c /\ f.undo = d.undo /\ f.redo = d.redo /\ f.path = d.path
      /\ f.dirty = d.dirty /\ f.last = d.last
  BY <1>1 DEF Editors
<1> QED
  BY <1>1, <1>2, <1>3, <1>4 DEF Rested, EditorOK, Kept

\* ... to a row and a column too, ...
LEMMA MovedTo ==
  ASSUME NEW e, NEW d, Rested(e, d), NEW row \in Nat, NEW col \in Nat, NEW f, f = MoveTo(d, row, col)
  PROVE  Rested(e, f)
<1> DEFINE c == OffsetAt(d.text, row, col)
<1>1. d.text \in Seq(Codes)
  BY InText DEF Rested
<1>2. c \in 0 .. Len(d.text)
  BY <1>1, OffsetIs
<1>3. f = [d EXCEPT !.caret = c]
  BY DEF MoveTo
<1> HIDE DEF c
<1> QED
  BY <1>2, <1>3, CaretMoved

\* ... and the goal column with it.
LEMMA GoalSynced ==
  ASSUME NEW e, NEW d, Rested(e, d), NEW f, f = SyncGoal(d)
  PROVE  Rested(e, f)
<1>1. EditorOK(f) /\ SameRun(d, f) /\ SameFile(d, f)
  BY SyncGoalIs DEF Rested
<1> QED
  BY <1>1 DEF Rested, Kept, SameRun, SameFile

\* The caret's row, and any other that is clamped, is one of the text's.
LEMMA RowsAre ==
  ASSUME NEW e, EditorOK(e)
  PROVE  /\ Row(e) \in Nat /\ LineCount(e.text) \in Nat /\ Row(e) < LineCount(e.text)
         /\ \A row \in Nat : InRows(e, row) \in Nat
<1>1. e.text \in Seq(Codes) /\ e.caret \in 0 .. Len(e.text)
  BY InText
<1>2. Row(e) \in Nat /\ Row(e) < LineCount(e.text)
  BY <1>1, ColIs DEF Row
<1>3. LineCount(e.text) = RowOf(e.text, Len(e.text)) + 1 /\ RowOf(e.text, Len(e.text)) \in Nat
  BY <1>1, RowEnds
<1>4. \A row \in Nat : InRows(e, row) \in Nat
  BY <1>3 DEF InRows, Least
<1>5. LineCount(e.text) \in Nat
  BY <1>3
<1> QED
  BY <1>2, <1>4, <1>5, Zenon

\* The motions of the keys.
LEMMA MoveLeftEdited ==
  ASSUME NEW e, Good(e), NEW extend \in BOOLEAN, NEW f, f = MoveLeft(e, extend)
  PROVE  Edited(e, f)
<1> DEFINE d == PreMove(e, extend)
           c == Greatest(d.caret - 1, 0)
           g == [d EXCEPT !.caret = c]
<1>1. Rested(e, d)
  BY PreMoveRested
<1>2. c \in 0 .. Len(d.text)
  <2>1. d.caret \in 0 .. Len(d.text) /\ Len(d.text) \in Nat
    BY <1>1, InText DEF Rested
  <2> HIDE DEF d
  <2> QED
    BY <2>1 DEF Greatest
<1>3. f = SyncGoal(g) /\ g = [d EXCEPT !.caret = c]
  BY DEF MoveLeft
<1> HIDE DEF d, c, g
<1>4. Rested(e, g)
  BY <1>1, <1>2, <1>3, CaretMoved
<1> QED
  BY <1>3, <1>4, GoalSynced, RestedEdited

\* As MoveLeft.
LEMMA MoveRightEdited ==
  ASSUME NEW e, Good(e), NEW extend \in BOOLEAN, NEW f, f = MoveRight(e, extend)
  PROVE  Edited(e, f)
<1> DEFINE d == PreMove(e, extend)
           c == Least(d.caret + 1, Len(e.text))
           g == [d EXCEPT !.caret = c]
<1>1. Rested(e, d)
  BY PreMoveRested
<1>2. c \in 0 .. Len(d.text)
  <2>1. d.caret \in 0 .. Len(d.text) /\ Len(d.text) \in Nat /\ d.text = e.text
    BY <1>1, InText DEF Rested, Kept
  <2> HIDE DEF d
  <2> QED
    BY <2>1 DEF Least
<1>3. f = SyncGoal(g) /\ g = [d EXCEPT !.caret = c]
  BY DEF MoveRight
<1> HIDE DEF d, c, g
<1>4. Rested(e, g)
  BY <1>1, <1>2, <1>3, CaretMoved
<1> QED
  BY <1>3, <1>4, GoalSynced, RestedEdited

\* Up and down, at the goal column.
LEMMA MoveUpEdited ==
  ASSUME NEW e, Good(e), NEW extend \in BOOLEAN, NEW f, f = MoveUp(e, extend)
  PROVE  Edited(e, f)
<1> DEFINE d == PreMove(e, extend)
<1>1. Rested(e, d) /\ d.goal \in Nat
  BY PreMoveRested
<1>2. f = IF Row(d) = 0 THEN d ELSE MoveTo(d, Row(d) - 1, d.goal)
  BY DEF MoveUp
<1> HIDE DEF d
<1>3. Row(d) \in Nat
  BY <1>1, RowsAre DEF Rested
<1>4. CASE Row(d) = 0
  BY <1>1, <1>2, <1>4, RestedEdited
<1>5. CASE Row(d) # 0
  <2>1. Row(d) - 1 \in Nat
    BY <1>3, <1>5
  <2>2. f = MoveTo(d, Row(d) - 1, d.goal)
    BY <1>2, <1>5
  <2> QED
    BY <1>1, <2>1, <2>2, MovedTo, RestedEdited
<1> QED
  BY <1>4, <1>5

\* As MoveUp.
LEMMA MoveDownEdited ==
  ASSUME NEW e, Good(e), NEW extend \in BOOLEAN, NEW f, f = MoveDown(e, extend)
  PROVE  Edited(e, f)
<1> DEFINE d == PreMove(e, extend)
<1>1. Rested(e, d) /\ d.goal \in Nat
  BY PreMoveRested
<1>2. f = IF Row(d) + 1 = LineCount(d.text) THEN d ELSE MoveTo(d, Row(d) + 1, d.goal)
  BY DEF MoveDown
<1> HIDE DEF d
<1>3. Row(d) + 1 \in Nat
  BY <1>1, RowsAre DEF Rested
<1>4. CASE Row(d) + 1 = LineCount(d.text)
  BY <1>1, <1>2, <1>4, RestedEdited
<1>5. CASE Row(d) + 1 # LineCount(d.text)
  <2>1. f = MoveTo(d, Row(d) + 1, d.goal)
    BY <1>2, <1>5
  <2> QED
    BY <1>1, <1>3, <2>1, MovedTo, RestedEdited
<1> QED
  BY <1>4, <1>5

\* To the start of the row ...
LEMMA HomeEdited ==
  ASSUME NEW e, Good(e), NEW extend \in BOOLEAN, NEW f, f = Home(e, extend)
  PROVE  Edited(e, f)
<1> DEFINE d == PreMove(e, extend)
           g == MoveTo(d, Row(e), 0)
<1>1. Rested(e, d)
  BY PreMoveRested
<1>2. Row(e) \in Nat /\ 0 \in Nat
  BY RowsAre DEF Good
<1>3. f = SyncGoal(g) /\ g = MoveTo(d, Row(e), 0)
  BY DEF Home
<1> HIDE DEF d, g
<1>4. Rested(e, g)
  BY <1>1, <1>2, <1>3, MovedTo
<1> QED
  BY <1>3, <1>4, GoalSynced, RestedEdited

\* ... and to its end.
LEMMA EndEdited ==
  ASSUME NEW e, Good(e), NEW extend \in BOOLEAN, NEW f, f = End(e, extend)
  PROVE  Edited(e, f)
<1> DEFINE d == PreMove(e, extend)
           end == LineEnd(e.text, Row(e))
           c == IF end > 0 /\ e.text[end] = NL THEN end - 1 ELSE end
           g == [d EXCEPT !.caret = c]
<1>1. Rested(e, d) /\ d.text = e.text
  BY PreMoveRested DEF Rested, Kept
<1>2. c \in 0 .. Len(d.text)
  <2>1. Row(e) \in Nat /\ e.text \in Seq(Codes)
    BY RowsAre, InText DEF Good
  <2>2. end \in 0 .. Len(e.text) /\ Len(e.text) \in Nat
    BY <2>1, LineEndIs
  <2> HIDE DEF d, end
  <2> QED
    BY <1>1, <2>2
<1>3. f = SyncGoal(g) /\ g = [d EXCEPT !.caret = c]
  BY DEF End
<1> HIDE DEF d, c, g
<1>4. Rested(e, g)
  BY <1>1, <1>2, <1>3, CaretMoved
<1> QED
  BY <1>3, <1>4, GoalSynced, RestedEdited

\* The places the mouse points at.
LEMMA SetCaretEdited ==
  ASSUME NEW e, Good(e), NEW row \in Nat, NEW col \in Nat, NEW f, f = SetCaret(e, row, col)
  PROVE  Edited(e, f)
<1> DEFINE d == [e EXCEPT !.anchor = None, !.last = "None"]
           c == OffsetAt(e.text, InRows(e, row), col)
           g == [d EXCEPT !.caret = c]
<1>1. e \in Editors /\ EditorOK(e) /\ e.text \in Seq(Codes)
  BY InText DEF Good
<1>2. d \in Editors
  BY <1>1, Empties, KindsThere DEF Editors
<1>3. Kept(e, d) /\ d.last = "None" /\ d.caret = e.caret
  BY <1>1 DEF Editors, Kept
<1>4. f = SyncGoal(g)
  <2>1. g = [MoveTo(e, InRows(e, row), col) EXCEPT !.anchor = None, !.last = "None"]
    BY <1>1 DEF MoveTo, Editors
  <2> QED
    BY <2>1 DEF SetCaret
<1>5. c \in 0 .. Len(e.text)
  <2>1. InRows(e, row) \in Nat
    BY <1>1, RowsAre
  <2> QED
    BY <1>1, <2>1, OffsetIs
<1>6. g = [d EXCEPT !.caret = c]
  OBVIOUS
<1> HIDE DEF d, c, g
<1>7. Rested(e, d)
  BY <1>1, <1>2, <1>3 DEF Rested, EditorOK, Kept
<1>8. c \in 0 .. Len(d.text)
  BY <1>3, <1>5 DEF Kept
<1>9. Rested(e, g)
  BY <1>6, <1>7, <1>8, CaretMoved
<1> QED
  BY <1>4, <1>9, GoalSynced, RestedEdited

\* With Shift, or a drag.
LEMMA ExtendToEdited ==
  ASSUME NEW e, Good(e), NEW row \in Nat, NEW col \in Nat, NEW f, f = ExtendTo(e, row, col)
  PROVE  Edited(e, f)
<1> DEFINE d == PreMove(e, TRUE)
           g == MoveTo(d, InRows(e, row), col)
<1>1. Rested(e, d)
  BY PreMoveRested
<1>2. InRows(e, row) \in Nat
  BY RowsAre DEF Good
<1>3. f = SyncGoal(g) /\ g = MoveTo(d, InRows(e, row), col)
  BY DEF ExtendTo
<1> HIDE DEF d, g
<1>4. Rested(e, g)
  BY <1>1, <1>2, <1>3, MovedTo
<1> QED
  BY <1>3, <1>4, GoalSynced, RestedEdited

\* Select-all leaves a run going, with the caret behind all of the text and the
\* selection's start before it: whatever the snapshot, both ends are alike.
LEMMA SelectAllEdited ==
  ASSUME NEW e, Good(e), NEW f, f = SelectAll(e)
  PROVE  Edited(e, f)
<1> DEFINE c == Len(e.text)
<1>1. e \in Editors /\ EditorOK(e) /\ c \in Nat
  BY InText DEF Good
<1>2. f = [e EXCEPT !.anchor = 0, !.caret = c]
  BY DEF SelectAll
<1>3. c = Len(e.text)
  OBVIOUS
<1> HIDE DEF c
<1>4. f \in Editors
  <2>1. 0 \in Anchors
    BY DEF Anchors
  <2> QED
    BY <1>1, <1>2, <2>1 DEF Editors
<1>5. /\ f.text = e.text /\ f.caret = c /\ f.anchor = 0 /\ f.undo = e.undo /\ f.redo = e.redo
      /\ f.last = e.last /\ f.path = e.path /\ f.dirty = e.dirty
  BY <1>1, <1>2 DEF Editors
<1>6. EditorOK(f)
  <2>1. c <= Len(e.text)
    BY <1>1, <1>3
  <2> QED
    BY <1>1, <1>4, <1>5, <2>1, Zenon DEF EditorOK
<1>7. Start(f) = 0
  BY <1>1, <1>5 DEF Start, HasSelection, SelectionStart, Least, None
<1>8. ASSUME f.last # "None" PROVE RunOK(f)
  <2> DEFINE s == Last(e.undo).text
  <2>1. e.undo # <<>> /\ e.redo = <<>>
    BY <1>5, <1>8 DEF Good, RunOK
  <2>2. s \in Texts /\ Len(s) \in Nat
    BY <1>1, <2>1, Fields, LastSnap
  <2> HIDE DEF s
  <2>3. EndsAlike(f.text, f.caret, s) /\ StartsAlike(f.text, Start(f), s)
    BY <1>1, <1>3, <1>5, <1>7, <2>2 DEF EndsAlike, StartsAlike
  <2> QED
    BY <1>5, <2>1, <2>3 DEF RunOK, s
<1> QED
  BY <1>5, <1>6, <1>8 DEF Good, RunOK, Edited, Remembers, Admits

\* Nothing but the place of the window changes.
LEMMA TopEdited ==
  ASSUME NEW e, Good(e), NEW top \in Nat, NEW f, f = [e EXCEPT !.top = top]
  PROVE  /\ Edited(e, f)
         /\ f.text = e.text /\ f.caret = e.caret /\ f.top = top
<1>1. e \in Editors /\ EditorOK(e)
  BY DEF Good, EditorOK
<1>2. f \in Editors
  BY <1>1 DEF Editors
<1>3. SameRun(e, f) /\ SameFile(e, f) /\ f.top = top
  BY <1>1 DEF Editors, SameRun, SameFile
<1>4. Good(f)
  BY <1>1, <1>2, <1>3, RunSame DEF Good, EditorOK, SameRun
<1> QED
  BY <1>3, <1>4 DEF Edited, Remembers, Admits, SameRun, SameFile

\* The wheel.
LEMMA ScrollEdited ==
  ASSUME NEW e, Good(e), NEW delta \in Int, NEW f, f = Scroll(e, delta)
  PROVE  Edited(e, f)
<1> DEFINE top == Least(Greatest(e.top + delta, 0), LineCount(e.text) - 1)
<1>1. e.top \in Nat /\ LineCount(e.text) \in Nat /\ LineCount(e.text) > 0
  <2>1. EditorOK(e) /\ e.top \in Nat
    BY Fields DEF Good, EditorOK
  <2> QED
    BY <2>1, RowsAre
<1>2. top \in Nat
  BY <1>1 DEF Least, Greatest
<1>3. f = [e EXCEPT !.top = top]
  BY DEF Scroll
<1> HIDE DEF top
<1> QED
  BY <1>2, <1>3, TopEdited

\* Drawing the window puts it where the caret is.
LEMMA EnsureVisibleEdited ==
  ASSUME NEW e, Good(e), NEW rows \in Nat \ {0}, NEW f, f = EnsureVisible(e, rows)
  PROVE  Edited(e, f) /\ Row(f) \in f.top .. f.top + rows - 1
<1> DEFINE row == Row(e)
           top == IF row < e.top THEN row ELSE IF rows > 0 /\ row >= e.top + rows THEN row + 1 - rows ELSE e.top
<1>1. e.top \in Nat /\ row \in Nat /\ row = Row(e)
  <2>1. EditorOK(e) /\ e.top \in Nat
    BY Fields DEF Good, EditorOK
  <2> QED
    BY <2>1, RowsAre
<1>2. f = [e EXCEPT !.top = top]
  BY DEF EnsureVisible
<1> HIDE DEF row
<1>3. top \in Nat /\ row \in top .. top + rows - 1
  BY <1>1
<1> HIDE DEF top
<1>4. Edited(e, f) /\ f.text = e.text /\ f.caret = e.caret /\ f.top = top
  BY <1>2, <1>3, TopEdited
<1> QED
  BY <1>1, <1>3, <1>4 DEF Row
----------------------------------------------------------------------------
(* Whole texts *)

\* Another text: the caret is in it, no run and no history go on.
LEMMA SetTextGood ==
  ASSUME NEW e, Good(e), NEW s \in Seq(Codes), NEW f, f = SetText(e, s)
  PROVE  /\ Good(f) /\ f.path = e.path /\ f.dirty = e.dirty /\ f.text = s
         /\ f.undo = <<>> /\ f.redo = <<>> /\ f.last = "None"
<1> DEFINE c == Least(e.caret, Len(s))
<1>1. e \in Editors /\ EditorOK(e) /\ e.caret \in Nat /\ s \in Texts /\ Len(s) \in Nat
  BY Fields, LenProperties DEF Good, EditorOK, Texts
<1>2. c \in Nat /\ c <= Len(s)
  BY <1>1 DEF Least
<1>3. f = [e EXCEPT !.text = s, !.caret = c, !.anchor = None, !.undo = <<>>, !.redo = <<>>, !.last = "None"]
  BY DEF SetText
<1> HIDE DEF c
<1>4. f \in Editors
  BY <1>1, <1>2, <1>3, Empties, KindsThere DEF Editors
<1>5. /\ f.text = s /\ f.caret = c /\ f.path = e.path /\ f.dirty = e.dirty
      /\ f.undo = <<>> /\ f.redo = <<>> /\ f.last = "None"
  BY <1>1, <1>3 DEF Editors
<1>6. Len(f.undo) + Len(f.redo) <= UndoMax
  BY <1>5, EmptySeq, UndoMaxAssumption
<1> QED
  BY <1>2, <1>4, <1>5, <1>6 DEF Good, EditorOK, RunOK

\* The editor with a file's text, or with none.
Opened(e, p, s) == [SetText(e, s) EXCEPT !.caret = 0, !.top = 0, !.path = p, !.dirty = FALSE]

\* It is good.
LEMMA OpenedGood ==
  ASSUME NEW e, Good(e), NEW s \in Seq(Codes), NEW p \in Names,
         NEW f, f = Opened(e, p, s)
  PROVE  Good(f) /\ f.path = p /\ f.text = s
<1> DEFINE d == SetText(e, s)
<1>1. Good(d) /\ d.text = s /\ d.last = "None"
  BY SetTextGood
<1>2. f = [d EXCEPT !.caret = 0, !.top = 0, !.path = p, !.dirty = FALSE]
  BY DEF Opened
<1> HIDE DEF d
<1>3. d \in Editors /\ EditorOK(d) /\ Len(d.text) \in Nat
  BY <1>1, InText DEF Good
<1>4. f \in Editors
  <2>1. 0 \in Nat /\ FALSE \in BOOLEAN /\ d \in Editors /\ p \in Names
    BY <1>3
  <2> QED
    BY <1>2, <2>1 DEF Editors
<1>5. /\ f.text = s /\ f.caret = 0 /\ f.path = p /\ f.dirty = FALSE
      /\ f.undo = d.undo /\ f.redo = d.redo /\ f.last = "None"
  BY <1>1, <1>2, <1>3 DEF Editors
<1> QED
  <2>1. Len(s) \in Nat /\ 0 <= Len(s)
    BY <1>1, <1>3
  <2>2. Len(f.undo) + Len(f.redo) <= UndoMax
    BY <1>3, <1>5 DEF EditorOK
  <2>3. EditorOK(f)
    BY <1>4, <1>5, <2>1, <2>2 DEF EditorOK
  <2>4. RunOK(f)
    BY <1>5 DEF RunOK
  <2> QED
    BY <1>5, <2>3, <2>4 DEF Good
----------------------------------------------------------------------------
(* What a run shows of its snapshot *)

\* Reversal, point by point.
LEMMA ReverseIs ==
  ASSUME NEW S, NEW s \in Seq(S), NEW u, u = Reverse(s)
  PROVE  /\ u \in Seq(S) /\ Len(u) = Len(s) /\ Len(s) \in Nat
         /\ \A i \in 1 .. Len(s) : u[i] = s[(Len(s) - i) + 1]
<1>1. Len(s) \in Nat /\ \A i \in 1 .. Len(s) : s[i] \in S
  BY LenProperties, ElementOfSeq
<1>2. u = [i \in 1 .. Len(s) |-> s[(Len(s) - i) + 1]]
  BY DEF Reverse
<1>3. \A i \in 1 .. Len(s) : (Len(s) - i) + 1 \in 1 .. Len(s)
  BY <1>1
<1> QED
  BY <1>1, <1>2, <1>3

\* EndsAlike says what IsSuffix does.
LEMMA EndsSuffix ==
  ASSUME NEW t \in Texts, NEW s \in Texts, NEW c \in 0 .. Len(t), EndsAlike(t, c, s)
  PROVE  IsSuffix(From(t, c), s)
<1> DEFINE f == From(t, c)
           n == Len(f)
           m == Len(s)
           rf == Reverse(f)
           rs == Reverse(s)
<1>1. t \in Seq(Codes) /\ s \in Seq(Codes) /\ Len(t) \in Nat /\ m \in Nat /\ c \in Nat /\ c <= Len(t)
  BY LenProperties DEF Texts
<1>2. f \in Seq(Codes) /\ n = Len(t) - c /\ \A i \in 1 .. n : f[i] = t[c + i]
  <2>1. f \in Seq(Codes) /\ Len(f) = Greatest(Len(t) - c, 0) /\ \A i \in 1 .. Len(t) - c : f[i] = t[c + i]
    BY <1>1, Pieces
  <2> HIDE DEF f
  <2>2. Len(f) = Len(t) - c
    BY <1>1, <2>1 DEF Greatest
  <2> QED
    BY <2>1, <2>2
<1>3. n <= m /\ \A i \in 1 .. n : t[c + i] = s[(m - n) + i]
  BY <1>2 DEF EndsAlike
<1> HIDE DEF f
<1>4. rf \in Seq(Codes) /\ Len(rf) = n /\ n \in Nat /\ \A i \in 1 .. n : rf[i] = f[(n - i) + 1]
  <2>1. f \in Seq(Codes)
    BY <1>2
  <2> QED
    BY <2>1, ReverseIs
<1>5. rs \in Seq(Codes) /\ Len(rs) = m /\ \A i \in 1 .. m : rs[i] = s[(m - i) + 1]
  BY <1>1, ReverseIs
<1> DEFINE a == SubSeq(rf, 1, n)
           b == SubSeq(rs, 1, n)
<1>6. IsSuffix(f, s) <=> n <= m /\ a = b
  BY <1>4, <1>5 DEF IsSuffix, IsPrefix
<1> HIDE DEF rf, rs, n, m
<1>7. a \in Seq(Codes) /\ Len(a) = n /\ \A i \in 1 .. n : a[i] = rf[i]
  <2>1. n \in 0 .. Len(rf)
    BY <1>4
  <2> QED
    BY <1>4, <2>1, CutTo
<1>8. b \in Seq(Codes) /\ Len(b) = n /\ \A i \in 1 .. n : b[i] = rs[i]
  <2>1. n \in 0 .. Len(rs)
    BY <1>1, <1>3, <1>4, <1>5
  <2> QED
    BY <1>5, <2>1, CutTo
<1> HIDE DEF a, b
<1>9. ASSUME NEW i \in 1 .. Len(a) PROVE a[i] = b[i]
  <2> DEFINE j == (n - i) + 1
  <2>1. i \in 1 .. n /\ i \in 1 .. m /\ j \in 1 .. n /\ (m - n) + j = (m - i) + 1
    BY <1>1, <1>3, <1>4, <1>7
  <2>2. a[i] = rf[i] /\ b[i] = rs[i] /\ rs[i] = s[(m - i) + 1]
    BY <1>5, <1>7, <1>8, <2>1
  <2>3. rf[i] = f[j]
    BY <1>4, <2>1
  <2> HIDE DEF j
  <2>4. f[j] = t[c + j] /\ t[c + j] = s[(m - n) + j]
    BY <1>2, <1>3, <2>1
  <2> QED
    BY <2>1, <2>2, <2>3, <2>4
<1>10. a = b
  BY <1>7, <1>8, <1>9, SeqEqual
<1> QED
  BY <1>3, <1>6, <1>10 DEF f

\* StartsAlike says what IsPrefix does.
LEMMA StartsPrefix ==
  ASSUME NEW t \in Texts, NEW s \in Texts, NEW c \in 0 .. Len(t), StartsAlike(t, c, s)
  PROVE  IsPrefix(Upto(t, c), s)
<1> DEFINE u == Upto(t, c)
           a == SubSeq(u, 1, c)
           b == SubSeq(s, 1, c)
<1>1. t \in Seq(Codes) /\ s \in Seq(Codes) /\ Len(t) \in Nat /\ Len(s) \in Nat /\ c \in Nat /\ c <= Len(t)
  BY LenProperties DEF Texts
<1>2. u \in Seq(Codes) /\ Len(u) = c /\ \A i \in 1 .. c : u[i] = t[i]
  <2>1. u \in Seq(Codes) /\ Len(u) = Least(c, Len(t)) /\ \A i \in 1 .. Least(c, Len(t)) : u[i] = t[i]
    BY <1>1, Pieces
  <2> HIDE DEF u
  <2>2. Least(c, Len(t)) = c
    BY <1>1 DEF Least
  <2> QED
    BY <2>1, <2>2
<1>3. c <= Len(s) /\ \A i \in 1 .. c : t[i] = s[i]
  BY DEF StartsAlike
<1> HIDE DEF u
<1>4. IsPrefix(u, s) <=> c <= Len(s) /\ a = b
  BY <1>2 DEF IsPrefix
<1>5. a \in Seq(Codes) /\ Len(a) = c /\ \A i \in 1 .. c : a[i] = u[i]
  <2>1. c \in 0 .. Len(u)
    BY <1>1, <1>2
  <2> QED
    BY <1>2, <2>1, CutTo
<1>6. b \in Seq(Codes) /\ Len(b) = c /\ \A i \in 1 .. c : b[i] = s[i]
  <2>1. c \in 0 .. Len(s)
    BY <1>1, <1>3
  <2> QED
    BY <1>1, <2>1, CutTo
<1> HIDE DEF a, b
<1>7. \A i \in 1 .. Len(a) : a[i] = b[i]
  BY <1>2, <1>3, <1>5, <1>6
<1>8. a = b
  BY <1>5, <1>6, <1>7, SeqEqual
<1> QED
  BY <1>3, <1>4, <1>8 DEF u
----------------------------------------------------------------------------
(* The workspace's invariant *)

Entries == {"Note", "Input", "Output", "Ok", "Err"}
ReplOK == input \in Texts /\ cmds \in Seq(Texts) /\ cmd_pos \in 0 .. Len(cmds)
LogOK == log \in Seq(Entries) /\ Len(log) <= LogMax
FilesOK == files \in [Paths -> Texts \cup {NoFile}] /\ stray \in BOOLEAN
\* CleanIsSaved, and that an editor that is not stray has a file.
Saved == ~stray => ed.path \in Paths /\ (~ed.dirty => files[ed.path] = ed.text)
Inv == Good(ed) /\ ReplOK /\ LogOK /\ FilesOK /\ Saved /\ use \in Uses

\* An event for the editor: its invariant and its text are kept, and its file is
\* as it was or is known not to be.
LEMMA EditKeeps ==
  ASSUME Inv, NEW e, Edited(ed, e), Edit(e), UNCHANGED use
  PROVE  Inv' /\ Remembers(ed, ed')
<1>1. ed' = e /\ UNCHANGED <<repl, disk>>
  BY DEF Edit
<1>2. UNCHANGED <<input, cmds, cmd_pos, log, files, stray>>
  BY <1>1 DEF repl, disk
<1>3. Good(ed)' /\ Remembers(ed, ed')
  <2>1. Good(e) /\ Remembers(ed, e)
    BY DEF Edited
  <2> QED
    BY <1>1, <2>1
<1>4. Saved'
  BY <1>1, <1>2 DEF Inv, Saved, Edited, Admits
<1>5. ReplOK' /\ LogOK' /\ FilesOK' /\ (use \in Uses)'
  BY <1>2 DEF Inv, ReplOK, LogOK, FilesOK
<1> QED
  BY <1>3, <1>4, <1>5 DEF Inv

\* The same editor.
LEMMA SameKept ==
  ASSUME Inv, UNCHANGED <<ed, disk, use>>, ReplOK', LogOK'
  PROVE  Inv' /\ Remembers(ed, ed')
BY DEF Inv, FilesOK, Saved, disk, Remembers

\* What the log holds.
LEMMA RecordKeeps ==
  ASSUME Inv, NEW lines \in Seq(Entries), Record(lines)
  PROVE  LogOK'
<1>1. PICK printed \in {<<>>, <<"Output">>}, end \in {<<"Ok">>, <<"Err">>, <<>>} :
        log' = Newest(log \o (lines \o (IF end = <<"Err">> THEN end ELSE printed \o end)), LogMax)
  BY DEF Record
<1> DEFINE tail == IF end = <<"Err">> THEN end ELSE printed \o end
           added == lines \o tail
           all == log \o added
<1>2. tail \in Seq(Entries)
  <2>1. printed \in Seq(Entries) /\ end \in Seq(Entries)
    <3>1. "Output" \in Entries /\ "Ok" \in Entries /\ "Err" \in Entries
      BY DEF Entries
    <3>2. <<>> \in Seq(Entries) /\ <<"Output">> \in Seq(Entries) /\ <<"Ok">> \in Seq(Entries)
          /\ <<"Err">> \in Seq(Entries)
      BY <3>1
    <3> QED
      BY <3>2
  <2> QED
    BY <2>1, ConcatProperties
<1> HIDE DEF tail
<1>3. added \in Seq(Entries)
  BY <1>2, ConcatProperties
<1>4. log' = Newest(all, LogMax)
  BY <1>1 DEF tail
<1> HIDE DEF added
<1>5. all \in Seq(Entries)
  BY <1>3, ConcatProperties DEF Inv, LogOK
<1> HIDE DEF all
<1>6. log' \in Seq(Entries) /\ Len(log') = Least(LogMax, Len(all)) /\ Len(all) \in Nat
  BY <1>4, <1>5, NewestIs, WorkspaceAssumption
<1> QED
  BY <1>6, WorkspaceAssumption DEF LogOK, Least

\* The start.
LEMMA InitInv == Init => Inv
<1> SUFFICES ASSUME Init PROVE Inv
  OBVIOUS
<1>1. ed = NewEditor /\ input = <<>> /\ cmds = <<>> /\ cmd_pos = 0 /\ log = <<"Note">>
      /\ files = Disk /\ stray = TRUE /\ use \in Uses
  BY DEF Init
<1>2. Good(ed)
  <2>1. NewEditor \in Editors
    BY Empties, KindsThere DEF NewEditor, Editors
  <2>2. NewEditor.text = <<>> /\ NewEditor.caret = 0 /\ NewEditor.undo = <<>> /\ NewEditor.redo = <<>>
        /\ NewEditor.last = "None"
    BY DEF NewEditor
  <2> QED
    BY <1>1, <2>1, <2>2, EmptySeq, UndoMaxAssumption DEF Good, EditorOK, RunOK
<1>3. ReplOK
  BY <1>1, Empties, EmptySeq DEF ReplOK
<1>4. LogOK
  BY <1>1, WorkspaceAssumption DEF LogOK, Entries
<1>5. FilesOK
  BY <1>1, WorkspaceAssumption DEF FilesOK, Texts
<1> QED
  BY <1>1, <1>2, <1>3, <1>4, <1>5 DEF Inv, Saved

\* Keys.
LEMMA KeysKeep ==
  ASSUME Inv, Char \/ Return \/ Back \/ Delete \/ Command
  PROVE  Inv' /\ Remembers(ed, ed')
<1>1. Good(ed) /\ use \in Uses
  BY DEF Inv
<1>2. ASSUME Char PROVE Inv' /\ Remembers(ed, ed')
  <2>1. UNCHANGED use /\ \E c \in use.typed : Edit(InsertChar(ed, c))
    BY <1>2 DEF Char, InEditor, On
  <2>2. PICK c \in use.typed : Edit(InsertChar(ed, c))
    BY <2>1
  <2>3. c \in Codes
    BY <1>1, WorkspaceAssumption
  <2>4. Edited(ed, InsertChar(ed, c))
    BY <1>1, <2>3, InsertCharEdited
  <2> QED
    BY <2>1, <2>2, <2>4, EditKeeps
<1>3. ASSUME Return PROVE Inv' /\ Remembers(ed, ed')
  <2>1. UNCHANGED use /\ Edit(Newline(ed))
    BY <1>3 DEF Return, InEditor, On
  <2> QED
    BY <1>1, <2>1, NewlineEdited, EditKeeps
<1>4. ASSUME Back PROVE Inv' /\ Remembers(ed, ed')
  <2>1. UNCHANGED use /\ Edit(Backspace(ed))
    BY <1>4 DEF Back, InEditor, On
  <2> QED
    BY <1>1, <2>1, BackspaceEdited, EditKeeps
<1>5. ASSUME Delete PROVE Inv' /\ Remembers(ed, ed')
  <2>1. UNCHANGED use /\ Edit(DeleteForward(ed))
    BY <1>5 DEF Delete, InEditor, On
  <2> QED
    BY <1>1, <2>1, DeleteForwardEdited, EditKeeps
<1>6. ASSUME Command PROVE Inv' /\ Remembers(ed, ed')
  <2>1. UNCHANGED use
    BY <1>6 DEF Command, InEditor, On
  <2>2. \/ Edit(SelectAll(ed)) \/ Edit(Copy(ed)) \/ Edit(Cut(ed)) \/ Edit(Paste(ed))
        \/ Edit(Undo(ed)) \/ Edit(Redo(ed)) \/ Edit(Format(ed))
    BY <1>6 DEF Command
  <2>3. /\ Edited(ed, SelectAll(ed)) /\ Edited(ed, Copy(ed)) /\ Edited(ed, Cut(ed)) /\ Edited(ed, Paste(ed))
        /\ Edited(ed, Undo(ed)) /\ Edited(ed, Redo(ed)) /\ Edited(ed, Format(ed))
    BY <1>1, SelectAllEdited, CopyEdited, CutEdited, PasteEdited, UndoEdited, RedoEdited, FormatEdited
  <2> QED
    BY <2>1, <2>2, <2>3, EditKeeps
<1> QED
  BY <1>2, <1>3, <1>4, <1>5, <1>6

\* Motions, the mouse, the wheel and drawing.
LEMMA MotionsKeep ==
  ASSUME Inv, Move \/ MouseDown \/ MouseMove \/ MouseUp \/ Wheel \/ Tab \/ Render
  PROVE  Inv' /\ Remembers(ed, ed')
<1>1. Good(ed)
  BY DEF Inv
<1>2. ASSUME NEW place \in Places
      PROVE  TextRow(place) \in Nat /\ place[2] \in Nat
  <2>1. place[1] \in Nat /\ place[2] \in Nat
    BY WorkspaceAssumption DEF Places
  <2>2. ed.top \in Nat /\ EditorOK(ed)
    BY <1>1, Fields DEF Good, EditorOK
  <2>3. ed.top + place[1] \in Nat
    BY <2>1, <2>2
  <2> QED
    BY <2>1, <2>2, <2>3, RowsAre DEF TextRow
<1>3. ASSUME NEW place \in Places
      PROVE  /\ Edited(ed, SetCaret(ed, TextRow(place), place[2]))
             /\ Edited(ed, ExtendTo(ed, TextRow(place), place[2]))
  BY <1>1, <1>2, SetCaretEdited, ExtendToEdited
<1>4. ASSUME Move PROVE Inv' /\ Remembers(ed, ed')
  <2>1. UNCHANGED use
    BY <1>4 DEF Move, InEditor, On
  <2>2. PICK shift \in BOOLEAN :
          \/ Edit(MoveLeft(ed, shift)) \/ Edit(MoveRight(ed, shift)) \/ Edit(MoveUp(ed, shift))
          \/ Edit(MoveDown(ed, shift)) \/ Edit(Home(ed, shift)) \/ Edit(End(ed, shift))
    BY <1>4 DEF Move
  <2>3. /\ Edited(ed, MoveLeft(ed, shift)) /\ Edited(ed, MoveRight(ed, shift)) /\ Edited(ed, MoveUp(ed, shift))
        /\ Edited(ed, MoveDown(ed, shift)) /\ Edited(ed, Home(ed, shift)) /\ Edited(ed, End(ed, shift))
    BY <1>1, MoveLeftEdited, MoveRightEdited, MoveUpEdited, MoveDownEdited, HomeEdited, EndEdited
  <2> QED
    BY <2>1, <2>2, <2>3, EditKeeps
<1>5. ASSUME MouseDown PROVE Inv' /\ Remembers(ed, ed')
  <2>1. UNCHANGED <<use, repl, disk>>
    BY <1>5 DEF MouseDown, On
  <2>2. UNCHANGED <<input, cmds, cmd_pos, log, files, stray>>
    BY <2>1 DEF repl, disk
  <2>3. Edited(ed, ed')
    <3>1. \/ \E place \in Places : \/ ed' = SetCaret(ed, TextRow(place), place[2])
                                   \/ ed' = ExtendTo(ed, TextRow(place), place[2])
          \/ ed' = ed
      BY <1>5 DEF MouseDown
    <3> QED
      BY <1>1, <1>3, <3>1, Unedited
  <2>4. Good(ed)' /\ Remembers(ed, ed')
    BY <2>3 DEF Edited
  <2>5. Saved'
    BY <2>2, <2>3 DEF Inv, Saved, Edited, Admits
  <2>6. ReplOK' /\ LogOK' /\ FilesOK' /\ (use \in Uses)'
    BY <2>1, <2>2 DEF Inv, ReplOK, LogOK, FilesOK
  <2> QED
    BY <2>4, <2>5, <2>6 DEF Inv
<1>6. ASSUME MouseMove PROVE Inv' /\ Remembers(ed, ed')
  <2>1. UNCHANGED use /\ \E place \in Places : Edit(ExtendTo(ed, TextRow(place), place[2]))
    BY <1>6 DEF MouseMove, On
  <2>2. PICK place \in Places : Edit(ExtendTo(ed, TextRow(place), place[2]))
    BY <2>1
  <2> QED
    BY <1>3, <2>1, <2>2, EditKeeps
<1>7. ASSUME MouseUp \/ Tab PROVE Inv' /\ Remembers(ed, ed')
  <2>1. UNCHANGED <<ed, repl, disk, use>>
    BY <1>7 DEF MouseUp, Tab, On
  <2>2. ReplOK' /\ LogOK'
    BY <2>1 DEF Inv, ReplOK, LogOK, repl
  <2> QED
    BY <2>1, <2>2, SameKept
<1>8. ASSUME Wheel PROVE Inv' /\ Remembers(ed, ed')
  <2>1. UNCHANGED use /\ \E delta \in {-3, 3} : Edit(Scroll(ed, delta))
    BY <1>8 DEF Wheel, On
  <2>2. PICK delta \in {-3, 3} : Edit(Scroll(ed, delta))
    BY <2>1
  <2>3. delta \in Int
    OBVIOUS
  <2> QED
    BY <1>1, <2>1, <2>2, <2>3, ScrollEdited, EditKeeps
<1>9. ASSUME Render PROVE Inv' /\ Remembers(ed, ed')
  <2>1. UNCHANGED use /\ Edit(EnsureVisible(ed, WindowRows))
    BY <1>9 DEF Render, On
  <2>2. Edited(ed, EnsureVisible(ed, WindowRows))
    BY <1>1, WorkspaceAssumption, EnsureVisibleEdited
  <2> QED
    BY <2>1, <2>2, EditKeeps
<1> QED
  BY <1>4, <1>5, <1>6, <1>7, <1>8, <1>9

\* A recalled line is one of the history.
LEMMA RecallKeeps ==
  ASSUME Inv, NEW pos \in Int, RecallTo(pos)
  PROVE  ReplOK' /\ LogOK'
<1>1. /\ cmds # <<>> /\ cmd_pos' = Least(Greatest(pos, 0), Len(cmds))
      /\ input' = IF cmd_pos' = Len(cmds) THEN <<>> ELSE cmds[cmd_pos' + 1]
      /\ cmds' = cmds /\ log' = log
  BY DEF RecallTo
<1>2. cmds \in Seq(Texts) /\ Len(cmds) \in Nat
  BY LenProperties DEF Inv, ReplOK
<1>3. cmd_pos' \in 0 .. Len(cmds)
  BY <1>1, <1>2 DEF Least, Greatest
<1>4. input' \in Texts
  <2>1. CASE cmd_pos' = Len(cmds)
    BY <1>1, <2>1, Empties
  <2>2. CASE cmd_pos' # Len(cmds)
    <3>1. cmd_pos' + 1 \in 1 .. Len(cmds) /\ input' = cmds[cmd_pos' + 1]
      BY <1>1, <1>2, <1>3, <2>2
    <3> QED
      BY <1>2, <3>1, ElementOfSeq
  <2> QED
    BY <2>1, <2>2
<1> QED
  BY <1>1, <1>2, <1>3, <1>4 DEF Inv, ReplOK, LogOK

\* The REPL.
LEMMA ReplKeeps ==
  ASSUME Inv, Submit \/ Line \/ EvalBuffer
  PROVE  Inv' /\ Remembers(ed, ed')
<1>1. UNCHANGED <<ed, disk, use>>
  BY DEF Submit, Line, InRepl, EvalBuffer, InEditor, On
<1>2. input \in Texts /\ cmds \in Seq(Texts) /\ Len(cmds) \in Nat /\ cmd_pos \in 0 .. Len(cmds) /\ use \in Uses
  BY LenProperties DEF Inv, ReplOK
<1>3. ASSUME Submit PROVE ReplOK' /\ LogOK'
  <2>1. /\ cmds' = cmds \/ cmds' = Append(cmds, input)
        /\ cmd_pos' = Len(cmds') /\ input' = <<>> /\ Record(<<"Input">>)
    BY <1>3 DEF Submit
  <2>2. cmds' \in Seq(Texts) /\ Len(cmds') \in Nat
    BY <1>2, <2>1, AppendProperties, LenProperties
  <2>3. ReplOK'
    BY <2>1, <2>2, Empties DEF ReplOK
  <2>4. <<"Input">> \in Seq(Entries)
    BY DEF Entries
  <2> QED
    BY <2>1, <2>3, <2>4, RecordKeeps
<1>4. ASSUME Line PROVE ReplOK' /\ LogOK'
  <2>1. CASE RecallTo(cmd_pos - 1) \/ RecallTo(cmd_pos + 1)
    <3>1. cmd_pos - 1 \in Int /\ cmd_pos + 1 \in Int
      BY <1>2
    <3> QED
      BY <2>1, <3>1, RecallKeeps
  <2>2. CASE /\ \/ \E c \in use.typed : input' = Append(input, c)
                \/ input # <<>> /\ input' = Front(input)
             /\ UNCHANGED <<cmds, cmd_pos, log, compiling>>
    <3>1. input' \in Texts
      <4>1. input \in Seq(Codes)
        BY <1>2 DEF Texts
      <4>2. ASSUME NEW c \in use.typed, input' = Append(input, c) PROVE input' \in Texts
        <5>1. c \in Codes
          BY <1>2, WorkspaceAssumption
        <5> QED
          BY <4>1, <4>2, <5>1, AppendProperties DEF Texts
      <4>3. ASSUME input # <<>>, input' = Front(input) PROVE input' \in Texts
        BY <4>1, <4>3, Popped DEF Texts
      <4> QED
        BY <2>2, <4>2, <4>3
    <3> QED
      BY <2>2, <3>1 DEF Inv, ReplOK, LogOK
  <2> QED
    BY <1>4, <2>1, <2>2 DEF Line
<1>5. ASSUME EvalBuffer PROVE ReplOK' /\ LogOK'
  <2> DEFINE lines == [r \in 1 .. LineCount(ed.text) |-> "Input"]
  <2>1. Record(lines) /\ UNCHANGED <<input, cmds, cmd_pos>>
    BY <1>5 DEF EvalBuffer
  <2>2. LineCount(ed.text) \in Nat
    BY RowsAre DEF Inv, Good
  <2>3. lines \in Seq(Entries)
    BY <2>2 DEF Entries
  <2> HIDE DEF lines
  <2>4. LogOK'
    BY <2>1, <2>3, RecordKeeps
  <2> QED
    BY <2>1, <2>4 DEF Inv, ReplOK
<1> QED
  BY <1>1, <1>3, <1>4, <1>5, SameKept

\* An editor that is only given a path, or is made clean, is good.
LEMMA GivenFile ==
  ASSUME NEW e, Good(e), NEW f \in Editors, SameRun(e, f)
  PROVE  Good(f)
BY RunSame DEF Good, EditorOK, SameRun

\* Files: what is loaded or saved is what is shown.
LEMMA FilesKeep ==
  ASSUME Inv, New \/ Open \/ SaveFile \/ EditorSet
  PROVE  Inv' /\ (SaveFile => Remembers(ed, ed'))
<1>1. UNCHANGED <<use, repl>>
  BY DEF New, Open, SaveFile, EditorSet, On
<1>2. ReplOK' /\ LogOK' /\ (use \in Uses)'
  BY <1>1 DEF Inv, ReplOK, LogOK, repl
<1>3. Good(ed) /\ ed \in Editors /\ ed.path \in Names /\ ed.dirty \in BOOLEAN /\ FilesOK /\ Saved
  BY Fields DEF Inv, Good, EditorOK
<1>4. ASSUME New PROVE Good(ed)' /\ FilesOK' /\ Saved'
  <2>1. ed' = NewFile(ed) /\ stray' = TRUE /\ files' = files
    BY <1>4 DEF New
  <2>2. <<>> \in Seq(Codes) /\ None \in Names
    BY Empties DEF Texts
  <2>3. ed' = Opened(ed, None, <<>>)
    BY <2>1 DEF NewFile, Opened
  <2>4. Good(ed')
    BY <1>3, <2>2, <2>3, OpenedGood
  <2> QED
    BY <1>3, <2>1, <2>4 DEF FilesOK, Saved
<1>5. ASSUME Open PROVE Good(ed)' /\ FilesOK' /\ Saved'
  <2>1. files' = files /\ \E p \in Paths : IF files[p] = NoFile THEN UNCHANGED <<ed, stray>>
                                          ELSE ed' = Loaded(ed, p, files[p]) /\ stray' = FALSE
    BY <1>5 DEF Open
  <2>2. PICK p \in Paths : IF files[p] = NoFile THEN UNCHANGED <<ed, stray>>
                           ELSE ed' = Loaded(ed, p, files[p]) /\ stray' = FALSE
    BY <2>1
  <2>3. CASE files[p] = NoFile
    BY <1>3, <2>1, <2>2, <2>3 DEF FilesOK, Saved
  <2>4. CASE files[p] # NoFile
    <3>1. ed' = Loaded(ed, p, files[p]) /\ stray' = FALSE
      BY <2>2, <2>4
    <3>2. files[p] \in Seq(Codes) /\ p \in Names
      BY <1>3, <2>4 DEF FilesOK, Texts, Names
    <3>3. ed' = Opened(ed, p, files[p])
      BY <3>1 DEF Loaded, Opened
    <3>4. Good(ed') /\ ed'.path = p /\ ed'.text = files[p]
      <4> DEFINE s == files[p]
      <4>1. Good(ed) /\ s \in Seq(Codes) /\ p \in Names /\ ed' = Opened(ed, p, s)
        BY <1>3, <3>2, <3>3
      <4> HIDE DEF s
      <4>2. Good(ed') /\ ed'.path = p /\ ed'.text = s
        BY <4>1, OpenedGood
      <4> QED
        BY <4>2 DEF s
    <3> QED
      BY <1>3, <2>1, <3>1, <3>4 DEF FilesOK, Saved
  <2> QED
    BY <2>3, <2>4
<1>6. ASSUME SaveFile PROVE Good(ed)' /\ FilesOK' /\ Saved' /\ Remembers(ed, ed')
  <2>1. \E p \in Paths : \E e : Save(e) /\ e = [ed EXCEPT !.path = p]
    <3>1. ASSUME ed.path # None, Save(ed) PROVE \E p \in Paths : \E e : Save(e) /\ e = [ed EXCEPT !.path = p]
      <4>1. ed.path \in Paths
        BY <1>3, <3>1 DEF Names
      <4>2. ed = [ed EXCEPT !.path = ed.path]
        BY <1>3 DEF Editors
      <4> QED
        BY <3>1, <4>1, <4>2
    <3> QED
      BY <1>6, <3>1 DEF SaveFile
  <2>path. PICK p \in Paths : \E e : Save(e) /\ e = [ed EXCEPT !.path = p]
    BY <2>1
  <2>2. PICK e : Save(e) /\ e = [ed EXCEPT !.path = p]
    BY <2>path
  <2>3. Good(e) /\ e.text = ed.text /\ e.path = p /\ e.dirty = ed.dirty /\ e \in Editors
    <3>1. e \in Editors
      BY <1>3, <2>2 DEF Names, Editors
    <3>2. SameRun(ed, e) /\ e.path = p /\ e.dirty = ed.dirty
      BY <1>3, <2>2 DEF Editors, SameRun
    <3> QED
      BY <1>3, <3>1, <3>2, GivenFile DEF SameRun
  <2>4. CASE p \in Unwritable
    <3>1. ed' = e /\ stray' = (stray \/ p # ed.path) /\ files' = files
      BY <2>2, <2>3, <2>4 DEF Save
    <3> QED
      BY <1>3, <2>3, <3>1 DEF FilesOK, Saved, Remembers
  <2>5. CASE p \notin Unwritable
    <3>1. ed' = [e EXCEPT !.dirty = FALSE] /\ files' = [files EXCEPT ![p] = e.text] /\ stray' = FALSE
      BY <2>2, <2>3, <2>5 DEF Save
    <3>2. Good(ed') /\ ed'.text = e.text /\ ed'.path = p
      <4>1. ed' \in Editors
        BY <2>3, <3>1 DEF Editors
      <4>2. SameRun(e, ed') /\ ed'.path = p
        BY <2>3, <3>1 DEF Editors, SameRun
      <4> QED
        BY <2>3, <4>1, <4>2, GivenFile DEF SameRun
    <3>3. e.text \in Texts
      BY <2>3, Fields
    <3>4. FilesOK' /\ files'[p] = e.text
      BY <1>3, <3>1, <3>3 DEF FilesOK
    <3> QED
      BY <2>3, <3>2, <3>4 DEF Saved, Remembers
  <2> QED
    BY <2>4, <2>5
<1>7. ASSUME EditorSet PROVE Good(ed)' /\ FilesOK' /\ Saved'
  <2>1. stray' = TRUE /\ files' = files /\ \E s \in {files[p] : p \in Paths} \ {NoFile} : ed' = SetText(ed, s)
    BY <1>7 DEF EditorSet
  <2>2. PICK s \in {files[p] : p \in Paths} \ {NoFile} : ed' = SetText(ed, s)
    BY <2>1
  <2>3. s \in Seq(Codes)
    BY <1>3 DEF FilesOK, Texts
  <2>4. Good(ed')
    BY <1>3, <2>2, <2>3, SetTextGood
  <2> QED
    BY <1>3, <2>1, <2>4 DEF FilesOK, Saved
<1> QED
  BY <1>2, <1>4, <1>5, <1>6, <1>7 DEF Inv

\* Every step.
LEMMA NextKeeps ==
  ASSUME Inv, [Next]_vars
  PROVE  Inv' /\ (~ReplacesText => Remembers(ed, ed'))
<1>1. CASE UNCHANGED vars
  BY <1>1 DEF vars, repl, disk, Inv, ReplOK, LogOK, FilesOK, Saved, Remembers
<1>2. CASE Char \/ Return \/ Back \/ Delete \/ Command
  BY <1>2, KeysKeep
<1>3. CASE Move \/ MouseDown \/ MouseMove \/ MouseUp \/ Wheel \/ Tab \/ Render
  BY <1>3, MotionsKeep
<1>4. CASE Submit \/ Line \/ EvalBuffer
  BY <1>4, ReplKeeps
<1>5. CASE New \/ Open \/ SaveFile \/ EditorSet
  BY <1>5, FilesKeep DEF ReplacesText
<1> QED
  BY <1>1, <1>2, <1>3, <1>4, <1>5 DEF Next

\* The invariant holds.
LEMMA Invariant == Spec => []Inv
<1>1. Inv /\ [Next]_vars => Inv'
  BY NextKeeps
<1> QED
  BY <1>1, InitInv, PTL DEF Spec

----------------------------------------------------------------------------
(* What it says *)

\* Whatever keys, mouse events, drags, undo, redo and verbs there were, the caret
\* and those that undo and redo would restore are inside their texts, the
\* snapshots within the cap, the REPL's place within its history and the log
\* within its own.
THEOREM CaretsInText == Spec => []TypeOK
<1>1. Inv => TypeOK
  <2> SUFFICES ASSUME Inv PROVE TypeOK
    OBVIOUS
  <2>1. EditorOK(ed) /\ ed \in Editors
    BY DEF Inv, Good, EditorOK
  <2>2. /\ ed.anchor \in Anchors /\ ed.goal \in Nat /\ ed.top \in Nat /\ ed.last \in Kinds /\ ed.path \in Names
        /\ ed.undo \in Seq(Snaps) /\ ed.redo \in Seq(Snaps)
    BY <2>1, Fields
  <2>3. ASSUME NEW s \in Snaps PROVE s.caret \in 0 .. Len(s.text)
    <3>1. s.text \in Seq(Codes) /\ s.caret \in Nat /\ s.caret <= Len(s.text)
      BY DEF Snaps
    <3> QED
      BY <3>1, LenProperties
  <2>4. {Snapshot(ed)} \cup ToSet(ed.undo) \cup ToSet(ed.redo) \subseteq Snaps
    <3>1. Snapshot(ed) \in Snaps
      BY <2>1, SnapshotIs
    <3>2. ASSUME NEW u \in Seq(Snaps) PROVE ToSet(u) \subseteq Snaps
      BY ElementOfSeq DEF ToSet
    <3> QED
      BY <2>2, <3>1, <3>2
  <2>5. \A s \in {Snapshot(ed)} \cup ToSet(ed.undo) \cup ToSet(ed.redo) : s.caret \in 0 .. Len(s.text)
    BY <2>3, <2>4
  <2>6. Len(ed.undo) + Len(ed.redo) <= UndoMax
    BY <2>1 DEF EditorOK
  <2>7. cmd_pos \in 0 .. Len(cmds) /\ Len(log) <= LogMax
    BY DEF Inv, ReplOK, LogOK
  <2> QED
    BY <2>2, <2>5, <2>6, <2>7 DEF TypeOK, Anchors, Kinds, Names
<1> QED
  BY <1>1, Invariant, PTL

\* Edits that share a snapshot are made in one place: what is behind the caret, and
\* in a run of deletions what is before it, is still the snapshot's.
THEOREM RunsStayInPlace == Spec => []RunInOnePlace
<1>1. Inv => RunInOnePlace
  <2> SUFFICES ASSUME Inv, ed.last # "None" PROVE RunInOnePlace
    BY DEF RunInOnePlace
  <2> DEFINE snap == Last(ed.undo).text
  <2>1. /\ ed.undo # <<>> /\ ed.redo = <<>> /\ EndsAlike(ed.text, ed.caret, snap)
        /\ ed.last = "Delete" => StartsAlike(ed.text, Start(ed), snap)
    BY DEF Inv, Good, RunOK
  <2>2. ed.text \in Texts /\ ed.caret \in 0 .. Len(ed.text) /\ ed \in Editors
    BY InText DEF Inv, Good
  <2>3. snap \in Texts
    BY <2>1, <2>2, Fields, LastSnap
  <2> HIDE DEF snap
  <2>4. IsSuffix(From(ed.text, ed.caret), snap)
    BY <2>1, <2>2, <2>3, EndsSuffix
  <2>5. ASSUME ed.last = "Delete", ~HasSelection(ed) PROVE IsPrefix(Upto(ed.text, ed.caret), snap)
    <3>1. StartsAlike(ed.text, ed.caret, snap)
      BY <2>1, <2>5 DEF Start
    <3> QED
      BY <2>2, <2>3, <3>1, StartsPrefix
  <2> QED
    BY <2>1, <2>4, <2>5 DEF RunInOnePlace, snap
<1> QED
  BY <1>1, Invariant, PTL

\* An editor that has a file and no unsaved changes shows what the file holds,
\* unless since the last load, save or new file a script set the text or a
\* save-as failed, which has changed the path already (editor.rs, save_as).
THEOREM CleanEditorsAreSaved == Spec => []CleanIsSaved
<1>1. Inv => CleanIsSaved
  BY DEF Inv, Saved, CleanIsSaved
<1> QED
  BY <1>1, Invariant, PTL

\* No step but a new text forgets a text that can be seen.
THEOREM NoTextForgotten == Spec => TextsKept
<1> DEFINE Kind == ed'.text # ed.text /\ ~ReplacesText =>
                     \/ Timeline(ed') = Timeline(ed) /\ Len(ed'.undo) # Len(ed.undo)
                     \/ ed'.last = ed.last /\ ed.last # "None" /\ ed'.undo = ed.undo
                     \/ ed'.undo # <<>> /\ Last(ed'.undo).text = ed.text /\ ed'.redo = <<>>
<1>1. Inv /\ [Next]_vars => [Kind]_vars
  <2> SUFFICES ASSUME Inv, [Next]_vars PROVE Kind
    OBVIOUS
  <2>1. ~ReplacesText => Remembers(ed, ed')
    BY NextKeeps
  <2> QED
    BY <2>1 DEF Remembers, Continues, Pushes
<1> QED
  BY <1>1, Invariant, PTL DEF Spec, TextsKept

\* Once the window is drawn the caret is in it.
THEOREM CaretInWindow == Spec => CaretShown
<1> DEFINE Shown == Render => Row(ed') \in ed'.top .. ed'.top + WindowRows - 1
<1>1. Inv /\ [Next]_vars => [Shown]_vars
  <2> SUFFICES ASSUME Inv, Render PROVE Row(ed') \in ed'.top .. ed'.top + WindowRows - 1
    OBVIOUS
  <2>1. ed' = EnsureVisible(ed, WindowRows) /\ Good(ed)
    BY DEF Render, Edit, Inv
  <2> QED
    BY <2>1, WorkspaceAssumption, EnsureVisibleEdited
<1> QED
  BY <1>1, Invariant, PTL DEF Spec, CaretShown
=============================================================================
