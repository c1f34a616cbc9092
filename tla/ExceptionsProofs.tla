-------------------------- MODULE ExceptionsProofs --------------------------
(***************************************************************************)
(* Proofs about Exceptions, for any objects, sizes of words and bounds.    *)
(* The inductive invariant adds to the properties the types of the         *)
(* variables, what lies below the present call and what each dispatch      *)
(* saved.                                                                  *)
(***************************************************************************)
EXTENDS Exceptions, SequenceLemmas

----------------------------------------------------------------------------
(* The inductive invariant *)

\* An entry of the return stack: only a word has locals open.
Entries == [kind : {"word", "cell", "catch", "send"}, n : Nat, open : Nat, prev : Int]
Entry == {e \in Entries : e.kind # "word" => e.open = 0}

\* Below the present call, and between calls everywhere, there are only cells.
CellsIn(s, k) == \A i \in 1 .. k : s[i].kind = "cell"

\* HandlersNest and LocalsOwned, of any stack s with a call from k up.
FramesIn(s, k) == {i \in k + 1 .. Len(s) : s[i].kind = "catch"}
InnermostIn(s, k, h, below) ==
  /\ h \in FramesIn(s, k) \cup {Root} /\ h < below
  /\ \A i \in FramesIn(s, k) : i < below => i <= h
NestedIn(s, k, h) ==
  InnermostIn(s, k, h, Len(s) + 1) /\ \A i \in FramesIn(s, k) : InnermostIn(s, k, s[i].prev, i)
Own(e) == e.open
OwnedIn(s) == [i \in DOMAIN s |-> Own(s[i])]
LocalsIn(s, k) == TotalOf(OwnedIn(s), k, Len(s))

\* A dispatch saved an object if it was itself in a method, else none; and so it
\* is with the current object o.
SavedIn(s, o, i) ==
  o \in Objects \cup {0} /\ (o \in Objects <=> \E j \in 1 .. i - 1 : s[j].kind = "send")
SelvesIn(s, o) ==
  SavedIn(s, o, Len(s) + 1) /\ \A i \in 1 .. Len(s) : s[i].kind = "send" => SavedIn(s, s[i].n, i)

\* What is so of the stack s in a call from k up, with handler h, locals pointer
\* l and current object o, or with no call: if gone, words with open locals were
\* left or ended with others than they take down, if away, a method was left.
Sound(s, k, h, l, o, gone, away) ==
  /\ s \in Seq(Entry) /\ k \in 0 .. Len(s) /\ CellsIn(s, k)
  /\ h \in Int /\ NestedIn(s, k, h)
  /\ l \in Int /\ (~gone => l = LocalsIn(s, k))
  /\ o \in Nat /\ (~away => SelvesIn(s, o))
Resting(s, o, away) ==
  s \in Seq(Entry) /\ CellsIn(s, Len(s)) /\ o \in Nat /\ (~away => SelvesIn(s, o))

StackInv ==
  /\ mode \in {"idle", "running", "dead"}
  /\ handler \in Int /\ lp \in Int /\ entry \in [rsp : Nat, prev : Int]
  /\ mode = "running" => Sound(rp, entry.rsp, handler, lp, self, unwound \/ skewed, left)
  /\ mode # "running" => Resting(rp, self, left)

----------------------------------------------------------------------------
(* Sums *)

\* f lists the sums of w from k on; v is as w up to n; v has zeros after m.
PartialSums(f, w, k, n) == f[k] = 0 /\ \A i \in k + 1 .. n : f[i] = f[i - 1] + w[i]
Alike(w, v, k, n) == \A i \in k + 1 .. n : w[i] \in Nat /\ v[i] = w[i]
Flat(v, m, n) == \A i \in m + 1 .. n : v[i] = 0

\* The sum is the last of its partial sums, whatever function lists them.
LEMMA TotalIs ==
  ASSUME NEW w, NEW k \in Nat, NEW n \in Nat, k <= n, NEW f,
         PartialSums(f, w, k, n)
  PROVE  TotalOf(w, k, n) = f[n]
<1> USE DEF PartialSums
<1> DEFINE Sums(g) == g = [i \in k .. n |-> IF i = k THEN 0 ELSE g[i - 1] + w[i]]
           sum == CHOOSE g : Sums(g)
           f1 == [i \in k .. n |-> f[i]]
<1>1. Sums(f1)
  <2>1. ASSUME NEW i \in k .. n PROVE f1[i] = IF i = k THEN 0 ELSE f1[i - 1] + w[i]
    <3>1. CASE i = k
      BY <3>1
    <3>2. CASE i # k
      <4>1. i \in k + 1 .. n /\ i - 1 \in k .. n
        BY <3>2
      <4> QED
        BY <3>2, <4>1
    <3> QED
      BY <3>1, <3>2
  <2> QED
    BY <2>1
<1>2. Sums(sum)
  <2>1. \E g : Sums(g)
    BY <1>1
  <2> HIDE DEF Sums
  <2> QED
    BY <2>1, Zenon
<1>3. \A i \in k .. n : sum[i] = IF i = k THEN 0 ELSE sum[i - 1] + w[i]
  <2> HIDE DEF sum
  <2> QED
    BY <1>2
<1>4. \A i \in k .. n : sum[i] = f[i]
  <2> HIDE DEF sum
  <2> DEFINE Same == {i \in k .. n : sum[i] = f[i]}
  <2>1. k \in Same
    BY <1>3
  <2>2. ASSUME NEW i \in k .. n - 1, i \in Same PROVE i + 1 \in Same
    <3>1. i + 1 \in k + 1 .. n /\ (i + 1) - 1 = i /\ i + 1 # k /\ i + 1 \in k .. n
      OBVIOUS
    <3>2. sum[i + 1] = sum[i] + w[i + 1] /\ f[i + 1] = f[i] + w[i + 1] /\ sum[i] = f[i]
      BY <1>3, <2>2, <3>1
    <3> QED
      BY <3>1, <3>2
  <2> HIDE DEF Same
  <2>3. \A i \in k .. n : i \in Same
    BY <2>1, <2>2, UpTo
  <2> QED
    BY <2>3 DEF Same
<1>5. TotalOf(w, k, n) = sum[n]
  BY DEF TotalOf
<1> QED
  BY <1>4, <1>5

\* There is such a function.
LEMMA TotalExists ==
  ASSUME NEW w, NEW k \in Nat, NEW n \in Nat, k <= n, \A i \in k + 1 .. n : w[i] \in Nat
  PROVE  \E f : f \in [k .. n -> Nat] /\ PartialSums(f, w, k, n)
<1> USE DEF PartialSums
<1> DEFINE Lists(f, m) == f \in [k .. m -> Nat] /\ PartialSums(f, w, k, m)
           Listed == {m \in k .. n : \E f : Lists(f, m)}
<1>1. k \in Listed
  <2>1. Lists([i \in k .. k |-> 0], k)
    OBVIOUS
  <2> HIDE DEF Lists
  <2> QED
    BY <2>1
<1>2. ASSUME NEW m \in k .. n - 1, m \in Listed PROVE m + 1 \in Listed
  <2>1. PICK f : Lists(f, m)
    BY <1>2
  <2> DEFINE g == [i \in k .. m + 1 |-> IF i = m + 1 THEN f[m] + w[m + 1] ELSE f[i]]
  <2>2. g \in [k .. m + 1 -> Nat] /\ g[k] = 0
    BY <2>1
  <2>3. ASSUME NEW i \in k + 1 .. m + 1 PROVE g[i] = g[i - 1] + w[i]
    <3>1. CASE i = m + 1
      <4>1. g[i] = f[m] + w[m + 1] /\ g[i - 1] = f[m]
        BY <3>1
      <4> QED
        BY <3>1, <4>1
    <3>2. CASE i # m + 1
      <4>1. i \in k + 1 .. m /\ g[i] = f[i] /\ g[i - 1] = f[i - 1]
        BY <3>2
      <4> QED
        BY <2>1, <4>1
    <3> QED
      BY <3>1, <3>2
  <2>4. Lists(g, m + 1)
    <3> HIDE DEF g
    <3> QED
      BY <2>2, <2>3
  <2> HIDE DEF Lists, g
  <2> QED
    BY <2>4
<1>3. n \in Listed
  <2> HIDE DEF Listed
  <2>1. \A m \in k .. n : m \in Listed
    BY <1>1, <1>2, UpTo
  <2> QED
    BY <2>1
<1> QED
  BY <1>3 DEF Listed

\* A sum over nothing.
LEMMA TotalEmpty ==
  ASSUME NEW w, NEW k \in Nat
  PROVE  TotalOf(w, k, k) = 0
<1> DEFINE f == [i \in k .. k |-> 0]
<1>1. PartialSums(f, w, k, k) /\ f[k] = 0
  BY DEF PartialSums
<1> HIDE DEF f
<1> QED
  BY <1>1, TotalIs

\* A sum that goes one further, over a list that begins alike.
LEMMA TotalNext ==
  ASSUME NEW w, NEW v, NEW k \in Nat, NEW n \in Nat, k <= n, v[n + 1] \in Nat,
         Alike(w, v, k, n)
  PROVE  /\ TotalOf(w, k, n) \in Nat
         /\ TotalOf(v, k, n + 1) = TotalOf(w, k, n) + v[n + 1]
<1>1. PICK f : f \in [k .. n -> Nat] /\ PartialSums(f, w, k, n)
  BY TotalExists DEF Alike
<1>2. TotalOf(w, k, n) = f[n] /\ f[n] \in Nat
  BY <1>1, TotalIs
<1> DEFINE g == [i \in k .. n + 1 |-> IF i = n + 1 THEN f[n] + v[n + 1] ELSE f[i]]
<1>3. g[k] = 0 /\ g[n + 1] = f[n] + v[n + 1]
  BY <1>1 DEF PartialSums, Alike
<1>4. ASSUME NEW i \in k + 1 .. n + 1 PROVE g[i] = g[i - 1] + v[i]
  <2>1. CASE i = n + 1
    <3>1. g[i] = f[n] + v[n + 1] /\ g[i - 1] = f[n]
      BY <2>1
    <3> QED
      BY <2>1, <3>1
  <2>2. CASE i # n + 1
    <3>1. i \in k + 1 .. n /\ g[i] = f[i] /\ g[i - 1] = f[i - 1]
      BY <2>2
    <3> QED
      BY <1>1, <3>1 DEF PartialSums, Alike
  <2> QED
    BY <2>1, <2>2
<1> HIDE DEF g
<1>5. PartialSums(g, v, k, n + 1) /\ n + 1 \in Nat /\ k <= n + 1
  BY <1>3, <1>4 DEF PartialSums, Alike
<1>6. TotalOf(v, k, n + 1) = g[n + 1]
  BY <1>5, TotalIs
<1> QED
  BY <1>2, <1>3, <1>6

\* A sum over a list that goes on with zeros.
LEMMA TotalFlat ==
  ASSUME NEW w, NEW v, NEW k \in Nat, NEW m \in Nat, NEW n \in Nat, k <= m, m <= n,
         Alike(w, v, k, m), Flat(v, m, n)
  PROVE  TotalOf(v, k, n) = TotalOf(w, k, m)
<1>1. PICK f : f \in [k .. m -> Nat] /\ PartialSums(f, w, k, m)
  BY TotalExists DEF Alike
<1>2. TotalOf(w, k, m) = f[m] /\ f[m] \in Nat
  BY <1>1, TotalIs
<1> DEFINE g == [i \in k .. n |-> IF i > m THEN f[m] ELSE f[i]]
<1>3. g[k] = 0 /\ g[n] = f[m]
  BY <1>1 DEF PartialSums, Alike
<1>4. ASSUME NEW i \in k + 1 .. n PROVE g[i] = g[i - 1] + v[i]
  <2>1. CASE i > m
    <3>1. v[i] = 0
      BY <2>1 DEF Flat
    <3>2. g[i] = f[m] /\ g[i - 1] = f[m]
      BY <2>1
    <3> QED
      BY <1>2, <3>1, <3>2
  <2>2. CASE i <= m
    <3>1. i \in k + 1 .. m /\ g[i] = f[i] /\ g[i - 1] = f[i - 1]
      BY <2>2
    <3> QED
      BY <1>1, <3>1 DEF PartialSums, Alike
  <2> QED
    BY <2>1, <2>2
<1> HIDE DEF g
<1>5. PartialSums(g, v, k, n) /\ k <= n
  BY <1>3, <1>4 DEF PartialSums, Alike
<1>6. TotalOf(v, k, n) = g[n]
  BY <1>5, TotalIs
<1> QED
  BY <1>2, <1>3, <1>6

----------------------------------------------------------------------------
(* A stack that grows by an entry, or is cut to its first m *)

Grown(s, e, t) ==
  /\ s \in Seq(Entry) /\ t \in Seq(Entry) /\ e \in Entry
  /\ Len(s) \in Nat /\ Len(t) = Len(s) + 1
  /\ \A i \in 1 .. Len(s) : t[i] = s[i]
  /\ t[Len(s) + 1] = e
Cut(s, m, t) ==
  /\ s \in Seq(Entry) /\ t \in Seq(Entry) /\ Len(s) \in Nat
  /\ m \in 0 .. Len(s) /\ Len(t) = m
  /\ \A i \in 1 .. m : t[i] = s[i]

\* Append grows a stack.
LEMMA GrownBy ==
  ASSUME NEW s \in Seq(Entry), NEW e \in Entry
  PROVE  Grown(s, e, Append(s, e))
BY Pushed DEF Grown

\* SubSeq cuts it.
LEMMA CutBy ==
  ASSUME NEW s \in Seq(Entry), NEW m \in 0 .. Len(s)
  PROVE  Cut(s, m, SubSeq(s, 1, m))
BY CutTo DEF Cut

\* Without its last entry a stack is both.
LEMMA FrontOf ==
  ASSUME NEW s \in Seq(Entry), s # <<>>
  PROVE  /\ Cut(s, Len(s) - 1, Front(s)) /\ Grown(Front(s), Last(s), s)
         /\ Last(s) = s[Len(s)]
<1>1. /\ Front(s) \in Seq(Entry) /\ Len(Front(s)) = Len(s) - 1 /\ Len(s) \in Nat \ {0}
      /\ \A i \in 1 .. Len(s) - 1 : Front(s)[i] = s[i]
  BY Popped
<1>2. Last(s) = s[Len(s)] /\ Last(s) \in Entry
  BY <1>1, ElementOfSeq DEF Last
<1> QED
  BY <1>1, <1>2 DEF Cut, Grown

\* A new frame that leads to the handler becomes the handler; anything else that
\* is pushed leaves the frames nested as they were.
LEMMA NestedGrown ==
  ASSUME NEW s, NEW t, NEW e, Grown(s, e, t), NEW k \in 0 .. Len(s), NEW h, NestedIn(s, k, h)
  PROVE  /\ e.kind # "catch" => NestedIn(t, k, h)
         /\ e.kind = "catch" /\ e.prev = h => NestedIn(t, k, Len(s) + 1)
<1> DEFINE n == Len(s)
<1>1. /\ n \in Nat /\ k \in Nat /\ k <= n /\ Len(t) = n + 1 /\ t[n + 1] = e
      /\ \A i \in 1 .. n : t[i] = s[i]
  BY DEF Grown
<1>2. ASSUME NEW i PROVE i \in FramesIn(t, k) <=> i \in FramesIn(s, k) \/ (i = n + 1 /\ e.kind = "catch")
  <2>1. i \in k + 1 .. n + 1 <=> i \in k + 1 .. n \/ i = n + 1
    BY <1>1
  <2>2. i \in k + 1 .. n => t[i] = s[i]
    BY <1>1
  <2> QED
    BY <1>1, <2>1, <2>2 DEF FramesIn
<1>3. \A i \in FramesIn(s, k) : i \in k + 1 .. n /\ t[i] = s[i] /\ i < n + 1
  BY <1>1 DEF FramesIn
<1>4. /\ h \in FramesIn(s, k) \cup {Root} /\ h \in Int /\ h < n + 1
      /\ \A i \in FramesIn(s, k) : i <= h
      /\ \A i \in FramesIn(s, k) : InnermostIn(s, k, s[i].prev, i)
  BY <1>1, <1>3 DEF NestedIn, InnermostIn, Root
<1>5. \A i \in FramesIn(s, k) : InnermostIn(t, k, t[i].prev, i)
  <2> SUFFICES ASSUME NEW i \in FramesIn(s, k) PROVE InnermostIn(t, k, s[i].prev, i)
    BY <1>3
  <2>1. InnermostIn(s, k, s[i].prev, i)
    BY <1>4
  <2>2. ~(n + 1 < i)
    BY <1>1, <1>3
  <2> QED
    BY <1>1, <1>2, <1>3, <2>1, <2>2 DEF InnermostIn
<1>6. CASE e.kind # "catch"
  <2>1. FramesIn(t, k) = FramesIn(s, k)
    BY <1>2, <1>6
  <2>2. h < Len(t) + 1
    BY <1>1, <1>4
  <2>3. InnermostIn(t, k, h, Len(t) + 1)
    BY <1>4, <2>1, <2>2 DEF InnermostIn
  <2> QED
    BY <1>5, <1>6, <2>1, <2>3 DEF NestedIn
<1>7. CASE e.kind = "catch" /\ e.prev = h
  <2>1. \A i \in FramesIn(t, k) : i <= n + 1
    BY <1>1, <1>2, <1>3
  <2>2. n + 1 \in FramesIn(t, k) /\ n + 1 < Len(t) + 1
    BY <1>1, <1>2, <1>7
  <2>3. InnermostIn(t, k, n + 1, Len(t) + 1)
    BY <2>1, <2>2 DEF InnermostIn
  <2>4. \A i \in FramesIn(t, k) : i < n + 1 => i \in FramesIn(s, k)
    BY <1>1, <1>2
  <2>5. InnermostIn(t, k, h, n + 1)
    BY <1>2, <1>4, <2>4 DEF InnermostIn
  <2>6. t[n + 1].prev = h
    BY <1>1, <1>7
  <2>7. \A i \in FramesIn(t, k) : InnermostIn(t, k, t[i].prev, i)
    BY <1>2, <1>5, <2>5, <2>6
  <2> QED
    BY <1>7, <2>3, <2>7 DEF NestedIn
<1> QED
  BY <1>6, <1>7

\* So does a cut above the frames, and one just below the handler makes the frame
\* it led to the handler.
LEMMA NestedCut ==
  ASSUME NEW s, NEW t, NEW m, Cut(s, m, t), NEW k \in 0 .. m, NEW h, NestedIn(s, k, h)
  PROVE  /\ (\A i \in m + 1 .. Len(s) : s[i].kind # "catch") => NestedIn(t, k, h)
         /\ h = m + 1 => NestedIn(t, k, s[h].prev)
<1> DEFINE n == Len(s)
<1>1. /\ n \in Nat /\ k \in Nat /\ m \in Nat /\ k <= m /\ m <= n /\ Len(t) = m
      /\ \A i \in 1 .. m : t[i] = s[i]
  BY DEF Cut
<1>2. ASSUME NEW i PROVE i \in FramesIn(t, k) <=> i \in FramesIn(s, k) /\ i <= m
  <2>1. i \in k + 1 .. m <=> i \in k + 1 .. n /\ i <= m
    BY <1>1
  <2>2. i \in k + 1 .. m => t[i] = s[i]
    BY <1>1
  <2> QED
    BY <1>1, <2>1, <2>2 DEF FramesIn
<1>3. \A i \in FramesIn(t, k) : i \in FramesIn(s, k) /\ i \in k + 1 .. m /\ t[i] = s[i]
  BY <1>1, <1>2 DEF FramesIn
<1>4. \A i \in FramesIn(s, k) : i \in k + 1 .. n
  BY DEF FramesIn
<1>5. /\ h \in FramesIn(s, k) \cup {Root} /\ h \in Int /\ h < n + 1
      /\ \A i \in FramesIn(s, k) : i <= h
      /\ \A i \in FramesIn(s, k) : InnermostIn(s, k, s[i].prev, i)
  BY <1>1, <1>4 DEF NestedIn, InnermostIn, Root
<1>6. ASSUME NEW i \in FramesIn(t, k) PROVE InnermostIn(t, k, t[i].prev, i)
  <2>1. InnermostIn(s, k, s[i].prev, i) /\ i \in k + 1 .. m /\ t[i].prev = s[i].prev
    BY <1>3, <1>5
  <2>2. /\ s[i].prev \in FramesIn(s, k) \cup {Root} /\ s[i].prev < i
        /\ \A j \in FramesIn(s, k) : j < i => j <= s[i].prev
    BY <2>1 DEF InnermostIn
  <2>3. s[i].prev \in FramesIn(t, k) \cup {Root}
    <3>1. s[i].prev \in FramesIn(s, k) => s[i].prev \in k + 1 .. n
      BY <1>4
    <3>2. s[i].prev \in FramesIn(s, k) => s[i].prev <= m
      <4>1. \A p \in k + 1 .. n : p < i => p <= m
        BY <1>1, <2>1
      <4> QED
        BY <2>2, <3>1, <4>1
    <3> QED
      BY <1>2, <2>2, <3>2
  <2> QED
    BY <1>2, <2>1, <2>2, <2>3 DEF InnermostIn
<1>7. ASSUME \A i \in m + 1 .. n : s[i].kind # "catch" PROVE NestedIn(t, k, h)
  <2>1. \A i \in FramesIn(s, k) : i <= m
    BY <1>1, <1>7 DEF FramesIn
  <2>2. FramesIn(t, k) = FramesIn(s, k)
    BY <1>2, <2>1
  <2>3. h < m + 1
    BY <1>1, <1>5, <2>1 DEF Root
  <2>4. InnermostIn(t, k, h, Len(t) + 1)
    BY <1>1, <1>5, <2>2, <2>3 DEF InnermostIn
  <2> QED
    BY <1>6, <2>4 DEF NestedIn
<1>8. ASSUME h = m + 1 PROVE NestedIn(t, k, s[h].prev)
  <2>1. h \in FramesIn(s, k)
    BY <1>1, <1>5, <1>8 DEF Root
  <2>2. InnermostIn(s, k, s[h].prev, h)
    BY <1>5, <2>1
  <2>3. s[h].prev \in FramesIn(t, k) \cup {Root}
    BY <1>1, <1>2, <1>4, <1>8, <2>2 DEF InnermostIn
  <2>4. InnermostIn(t, k, s[h].prev, Len(t) + 1)
    BY <1>1, <1>2, <1>8, <2>2, <2>3 DEF InnermostIn
  <2> QED
    BY <1>6, <2>4 DEF NestedIn
<1> QED
  BY <1>7, <1>8

\* Every entry owns a number of locals.
LEMMA OwnedTyped ==
  ASSUME NEW s \in Seq(Entry)
  PROVE  /\ Len(s) \in Nat
         /\ \A i \in 1 .. Len(s) : s[i] \in Entry /\ OwnedIn(s)[i] = Own(s[i]) /\ OwnedIn(s)[i] \in Nat
<1>1. Len(s) \in Nat /\ DOMAIN s = 1 .. Len(s) /\ \A i \in 1 .. Len(s) : s[i] \in Entry
  BY LenProperties, ElementOfSeq
<1>2. \A i \in 1 .. Len(s) : OwnedIn(s)[i] = Own(s[i])
  BY <1>1 DEF OwnedIn
<1>3. \A e \in Entry : Own(e) \in Nat
  BY DEF Entry, Entries, Own
<1> QED
  BY <1>1, <1>2, <1>3

\* A new entry adds its own locals ...
LEMMA LocalsGrown ==
  ASSUME NEW s, NEW t, NEW e, Grown(s, e, t), NEW k \in 0 .. Len(s)
  PROVE  LocalsIn(s, k) \in Nat /\ LocalsIn(t, k) = LocalsIn(s, k) + Own(e)
<1>1. /\ Len(s) \in Nat /\ k \in Nat /\ k <= Len(s) /\ Len(t) = Len(s) + 1 /\ t[Len(s) + 1] = e
      /\ \A i \in 1 .. Len(s) : t[i] = s[i]
  BY DEF Grown
<1>2. ASSUME NEW i \in k + 1 .. Len(s) PROVE OwnedIn(s)[i] \in Nat /\ OwnedIn(t)[i] = OwnedIn(s)[i]
  <2>1. i \in 1 .. Len(s) /\ i \in 1 .. Len(t) /\ s \in Seq(Entry) /\ t \in Seq(Entry) /\ t[i] = s[i]
    BY <1>1 DEF Grown
  <2> QED
    BY <2>1, OwnedTyped
<1>3. OwnedIn(t)[Len(s) + 1] \in Nat /\ OwnedIn(t)[Len(s) + 1] = Own(e)
  <2>1. Len(s) + 1 \in 1 .. Len(t) /\ t \in Seq(Entry)
    BY <1>1 DEF Grown
  <2> QED
    BY <1>1, <2>1, OwnedTyped
<1>4. /\ TotalOf(OwnedIn(s), k, Len(s)) \in Nat
      /\ TotalOf(OwnedIn(t), k, Len(s) + 1) = TotalOf(OwnedIn(s), k, Len(s)) + OwnedIn(t)[Len(s) + 1]
  <2>1. Alike(OwnedIn(s), OwnedIn(t), k, Len(s))
    BY <1>2 DEF Alike
  <2>2. k \in Nat /\ Len(s) \in Nat /\ k <= Len(s) /\ OwnedIn(t)[Len(s) + 1] \in Nat
    BY <1>1, <1>3
  <2> QED
    BY <2>1, <2>2, TotalNext
<1> QED
  BY <1>1, <1>3, <1>4 DEF LocalsIn

\* ... and a cut that loses no word with locals changes nothing.
LEMMA LocalsCut ==
  ASSUME NEW s, NEW t, NEW m, Cut(s, m, t), NEW k \in 0 .. m,
         \A i \in m + 1 .. Len(s) : Own(s[i]) = 0
  PROVE  LocalsIn(t, k) = LocalsIn(s, k)
<1>1. /\ Len(s) \in Nat /\ k \in Nat /\ m \in Nat /\ k <= m /\ m <= Len(s) /\ Len(t) = m
      /\ \A i \in 1 .. m : t[i] = s[i]
  BY DEF Cut
<1>2. ASSUME NEW i \in k + 1 .. m PROVE OwnedIn(t)[i] \in Nat /\ OwnedIn(s)[i] = OwnedIn(t)[i]
  BY <1>1, OwnedTyped DEF Cut
<1>3. ASSUME NEW i \in m + 1 .. Len(s) PROVE OwnedIn(s)[i] = 0
  BY <1>1, OwnedTyped DEF Cut
<1>4. TotalOf(OwnedIn(s), k, Len(s)) = TotalOf(OwnedIn(t), k, m)
  <2>1. Alike(OwnedIn(t), OwnedIn(s), k, m)
    BY <1>2 DEF Alike
  <2>2. Flat(OwnedIn(s), m, Len(s))
    BY <1>3 DEF Flat
  <2>3. k \in Nat /\ m \in Nat /\ Len(s) \in Nat /\ k <= m /\ m <= Len(s)
    BY <1>1
  <2> QED
    BY <2>1, <2>2, <2>3, TotalFlat
<1> QED
  BY <1>1, <1>4 DEF LocalsIn

\* A dispatch that saves the current object may set any other.
LEMMA SelvesGrown ==
  ASSUME NEW s, NEW t, NEW e, Grown(s, e, t), NEW o, SelvesIn(s, o)
  PROVE  /\ e.kind # "send" => SelvesIn(t, o)
         /\ \A q \in Objects : e.kind = "send" /\ e.n = o => SelvesIn(t, q)
<1> DEFINE n == Len(s)
<1>1. /\ n \in Nat /\ Len(t) = n + 1 /\ t[n + 1] = e
      /\ \A i \in 1 .. n : t[i] = s[i]
  BY DEF Grown
<1>2. ASSUME NEW i \in 1 .. n + 1, NEW p PROVE SavedIn(t, p, i) <=> SavedIn(s, p, i)
  <2>1. \A j \in 1 .. i - 1 : t[j] = s[j]
    BY <1>1
  <2> QED
    BY <2>1 DEF SavedIn
<1>3. ASSUME NEW i \in 1 .. n, t[i].kind = "send" PROVE SavedIn(t, t[i].n, i)
  <2>1. t[i] = s[i] /\ i \in 1 .. n + 1
    BY <1>1
  <2>2. SavedIn(s, s[i].n, i)
    BY <1>3, <2>1 DEF SelvesIn
  <2> QED
    BY <1>2, <2>1, <2>2
<1>4. SavedIn(t, o, n + 1)
  BY <1>1, <1>2 DEF SelvesIn
<1>5. 1 .. (n + 2) - 1 = 1 .. n + 1 /\ 1 .. (n + 1) - 1 = 1 .. n
  BY <1>1
<1>6. \A j : j \in 1 .. n + 1 <=> j \in 1 .. n \/ j = n + 1
  BY <1>1
<1>7. Len(t) + 1 = n + 2
  BY <1>1
<1>8. ASSUME e.kind # "send" PROVE SelvesIn(t, o)
  <2>1. SavedIn(t, o, n + 2)
    BY <1>1, <1>4, <1>5, <1>6, <1>8 DEF SavedIn
  <2> QED
    BY <1>1, <1>3, <1>6, <1>7, <1>8, <2>1 DEF SelvesIn
<1>9. ASSUME NEW q \in Objects, e.kind = "send", e.n = o PROVE SelvesIn(t, q)
  <2>1. SavedIn(t, q, n + 2)
    BY <1>1, <1>5, <1>6, <1>9 DEF SavedIn
  <2>2. SavedIn(t, t[n + 1].n, n + 1)
    BY <1>1, <1>4, <1>9
  <2> QED
    BY <1>1, <1>3, <1>6, <1>7, <2>1, <2>2 DEF SelvesIn
<1> QED
  BY <1>8, <1>9

\* A cut that loses no dispatch keeps the current object right, and one that loses
\* the last dispatch only makes the object it saved the right one.
LEMMA SelvesCut ==
  ASSUME NEW s, NEW t, NEW m, Cut(s, m, t), NEW o, SelvesIn(s, o)
  PROVE  /\ (\A i \in m + 1 .. Len(s) : s[i].kind # "send") => SelvesIn(t, o)
         /\ m + 1 = Len(s) /\ s[m + 1].kind = "send" => SelvesIn(t, s[m + 1].n)
<1> DEFINE n == Len(s)
<1>1. /\ n \in Nat /\ m \in Nat /\ m <= n /\ Len(t) = m
      /\ \A i \in 1 .. m : t[i] = s[i]
  BY DEF Cut
<1>2. ASSUME NEW i \in 1 .. m + 1, NEW p PROVE SavedIn(t, p, i) <=> SavedIn(s, p, i)
  <2>1. \A j \in 1 .. i - 1 : t[j] = s[j]
    BY <1>1
  <2> QED
    BY <2>1 DEF SavedIn
<1>3. ASSUME NEW i \in 1 .. m, t[i].kind = "send" PROVE SavedIn(t, t[i].n, i)
  <2>1. t[i] = s[i] /\ i \in 1 .. n /\ i \in 1 .. m + 1
    BY <1>1
  <2>2. SavedIn(s, s[i].n, i)
    BY <1>3, <2>1 DEF SelvesIn
  <2> QED
    BY <1>2, <2>1, <2>2
<1>4. ASSUME \A i \in m + 1 .. n : s[i].kind # "send" PROVE SelvesIn(t, o)
  <2>1. \A j \in 1 .. (n + 1) - 1 : s[j].kind = "send" => j \in 1 .. (m + 1) - 1
    BY <1>1, <1>4
  <2>2. \A j \in 1 .. (m + 1) - 1 : j \in 1 .. (n + 1) - 1
    BY <1>1
  <2>3. SavedIn(s, o, m + 1)
    BY <2>1, <2>2 DEF SelvesIn, SavedIn
  <2>4. m + 1 \in 1 .. m + 1
    BY <1>1
  <2> QED
    BY <1>1, <1>2, <1>3, <2>3, <2>4 DEF SelvesIn
<1>5. ASSUME m + 1 = n, s[m + 1].kind = "send" PROVE SelvesIn(t, s[m + 1].n)
  <2>1. m + 1 \in 1 .. m + 1 /\ m + 1 \in 1 .. n
    BY <1>1, <1>5
  <2>2. SavedIn(s, s[m + 1].n, m + 1)
    BY <1>5, <2>1 DEF SelvesIn
  <2> QED
    BY <1>1, <1>2, <1>3, <2>1, <2>2 DEF SelvesIn
<1> QED
  BY <1>4, <1>5

----------------------------------------------------------------------------
(* What each way to change the stack does to it as a whole *)

\* The four kinds of entry pushed: none has locals open yet.
LEMMA SoundGrown ==
  ASSUME NEW s, NEW k, NEW h, NEW l, NEW o, NEW gone, NEW away, Sound(s, k, h, l, o, gone, away),
         NEW e \in Entry, e.open = 0, NEW t, t = Append(s, e)
  PROVE  /\ e.kind \in {"word", "cell"} => Sound(t, k, h, l, o, gone, away)
         /\ e.kind = "catch" /\ e.prev = h => Sound(t, k, Len(s) + 1, l, o, gone, away)
         /\ \A q \in Objects : e.kind = "send" /\ e.n = o => Sound(t, k, h, l, q, gone, away)
<1>1. Grown(s, e, t) /\ s \in Seq(Entry) /\ k \in 0 .. Len(s) /\ NestedIn(s, k, h)
  BY GrownBy DEF Sound
<1>2. t \in Seq(Entry) /\ k \in 0 .. Len(t) /\ CellsIn(t, k) /\ Len(s) + 1 \in Int
  BY <1>1 DEF Sound, Grown, CellsIn
<1>3. /\ e.kind # "catch" => NestedIn(t, k, h)
      /\ e.kind = "catch" /\ e.prev = h => NestedIn(t, k, Len(s) + 1)
  BY <1>1, NestedGrown
<1>4. LocalsIn(s, k) \in Nat /\ LocalsIn(t, k) = LocalsIn(s, k) + Own(e)
  BY <1>1, LocalsGrown
<1>5. e.n \in Nat /\ l \in Int /\ h \in Int /\ o \in Nat /\ Objects \subseteq Nat
  BY ExceptionsAssumption DEF Sound, Entry, Entries
<1>6. ~away => /\ e.kind # "send" => SelvesIn(t, o)
               /\ \A q \in Objects : e.kind = "send" /\ e.n = o => SelvesIn(t, q)
  BY <1>1, SelvesGrown DEF Sound
<1>7. ~gone => l = LocalsIn(t, k)
  BY <1>4, <1>5 DEF Sound, Own
<1> QED
  BY <1>2, <1>3, <1>5, <1>6, <1>7 DEF Sound

\* Whether a cut to m entries leaves a method, or words with locals.
SendsAbove(s, m) == \E i \in m + 1 .. Len(s) : s[i].kind = "send"
LocalsAbove(s, m) == \E i \in m + 1 .. Len(s) : Own(s[i]) # 0

\* A cut to m entries, with a handler that is right for them.
LEMMA SoundCut ==
  ASSUME NEW s, NEW k, NEW h, NEW l, NEW o, NEW gone, NEW away, Sound(s, k, h, l, o, gone, away),
         NEW m \in k .. Len(s), NEW t, Cut(s, m, t),
         NEW g \in Int, NestedIn(t, k, g),
         NEW away2, SendsAbove(s, m) \/ away => away2,
         NEW gone2, LocalsAbove(s, m) \/ gone => gone2
  PROVE  Sound(t, k, g, l, o, gone2, away2)
<1>1. /\ t \in Seq(Entry) /\ Len(s) \in Nat /\ k \in Nat /\ k \in 0 .. m /\ Len(t) = m
      /\ \A i \in 1 .. m : t[i] = s[i]
  BY DEF Sound, Cut
<1>2. CellsIn(t, k)
  BY <1>1 DEF CellsIn, Sound
<1>3. ASSUME ~gone2 PROVE l = LocalsIn(t, k)
  <2>1. LocalsIn(t, k) = LocalsIn(s, k)
    BY <1>1, <1>3, LocalsCut DEF LocalsAbove
  <2> QED
    BY <1>3, <2>1 DEF Sound
<1>4. ASSUME ~away2 PROVE SelvesIn(t, o)
  BY <1>4, SelvesCut DEF Sound, SendsAbove
<1> QED
  BY <1>1, <1>2, <1>3, <1>4 DEF Sound

\* The call is over.
LEMMA RestingCut ==
  ASSUME NEW s, NEW k, NEW h, NEW l, NEW o, NEW gone, NEW away, Sound(s, k, h, l, o, gone, away),
         NEW away2, SendsAbove(s, k) \/ away => away2
  PROVE  Resting(SubSeq(s, 1, k), o, away2)
<1> DEFINE t == SubSeq(s, 1, k)
<1>1. Cut(s, k, t) /\ k \in 0 .. Len(s)
  BY CutBy DEF Sound
<1>2. t \in Seq(Entry) /\ Len(t) = k /\ k \in Nat /\ \A i \in 1 .. k : t[i] = s[i]
  BY <1>1 DEF Cut
<1> HIDE DEF t
<1>3. CellsIn(t, k)
  BY <1>2 DEF CellsIn, Sound
<1>4. ASSUME ~away2 PROVE SelvesIn(t, o)
  BY <1>1, <1>4, SelvesCut DEF Sound, SendsAbove
<1>5. Resting(t, o, away2)
  BY <1>2, <1>3, <1>4 DEF Sound, Resting
<1> QED
  BY <1>5 DEF t

\* The last entry is removed.
LEMMA SoundPopped ==
  ASSUME NEW s, NEW k, NEW h, NEW l, NEW o, NEW gone, NEW away, Sound(s, k, h, l, o, gone, away),
         k < Len(s), NEW t, t = Front(s)
  PROVE  /\ s # <<>> /\ Last(s) = s[Len(s)] /\ Last(s) \in Entry
         /\ Last(s).kind = "word" => Sound(t, k, h, l - Last(s).n, o, gone \/ Last(s).n # Last(s).open, away)
         /\ Last(s).kind = "cell" => Sound(t, k, h, l, o, gone, away)
         /\ Last(s).kind = "catch" => h = Len(s) /\ Sound(t, k, s[h].prev, l, o, gone, away)
         /\ Last(s).kind = "send" => Sound(t, k, h, l, Last(s).n, gone, away)
<1> DEFINE n == Len(s)
           e == Last(s)
           gone2 == gone \/ e.n # e.open
<1>1. s \in Seq(Entry) /\ n \in Nat /\ k \in 0 .. n /\ k < n /\ s # <<>>
  BY LenProperties DEF Sound
<1>2. Cut(s, n - 1, t) /\ Grown(t, e, s) /\ e = s[n]
  BY <1>1, FrontOf
<1> HIDE DEF e
<1>3. /\ t \in Seq(Entry) /\ e \in Entry /\ k \in 0 .. n - 1 /\ Len(t) = n - 1 /\ e.n \in Nat
      /\ \A i \in 1 .. n - 1 : t[i] = s[i]
      /\ e.kind # "word" => e.open = 0
  BY <1>1, <1>2 DEF Grown, Cut, Entry, Entries
<1>4. CellsIn(t, k)
  BY <1>1, <1>3 DEF CellsIn, Sound
<1>5. \A i \in (n - 1) + 1 .. n : s[i] = e
  BY <1>1, <1>2
<1>6. NestedIn(s, k, h) /\ l \in Int /\ h \in Int /\ o \in Nat
  BY DEF Sound
<1>7. ASSUME e.kind # "catch" PROVE NestedIn(t, k, h)
  BY <1>2, <1>3, <1>5, <1>6, <1>7, NestedCut
<1>8. ASSUME e.kind = "catch" PROVE h = n /\ NestedIn(t, k, s[h].prev)
  <2>1. n \in FramesIn(s, k)
    BY <1>1, <1>2, <1>8 DEF FramesIn
  <2>2. n < n + 1 /\ \A i \in FramesIn(s, k) : i \in k + 1 .. n
    BY <1>1 DEF FramesIn
  <2>3. h = n
    BY <1>1, <1>6, <2>1, <2>2 DEF NestedIn, InnermostIn, Root
  <2> QED
    <3>1. h = (n - 1) + 1
      BY <1>1, <2>3
    <3> QED
      BY <1>2, <1>3, <1>6, <2>3, <3>1, NestedCut
<1>9. LocalsIn(t, k) \in Nat /\ LocalsIn(s, k) = LocalsIn(t, k) + Own(e)
  <2>1. k \in 0 .. Len(t)
    BY <1>3
  <2> QED
    BY <1>2, <2>1, LocalsGrown
<1>10. ASSUME e.kind = "word" PROVE l - e.n \in Int /\ (~gone2 => l - e.n = LocalsIn(t, k))
  BY <1>3, <1>6, <1>9, <1>10 DEF Sound, Own
<1>11. ASSUME e.kind # "word" PROVE ~gone => l = LocalsIn(t, k)
  BY <1>3, <1>6, <1>9, <1>11 DEF Sound, Own
<1>12. ASSUME e.kind # "send" PROVE ~away => SelvesIn(t, o)
  BY <1>2, <1>3, <1>5, <1>12, SelvesCut DEF Sound
<1>13. ASSUME e.kind = "send" PROVE ~away => SelvesIn(t, e.n)
  <2>1. (n - 1) + 1 = n
    BY <1>1
  <2> QED
    BY <1>2, <1>13, <2>1, SelvesCut DEF Sound
<1>14. s[n].prev \in Int
  BY <1>2, <1>3 DEF Entry, Entries
<1>15. e.kind = "word" => Sound(t, k, h, l - e.n, o, gone2, away)
  BY <1>3, <1>4, <1>6, <1>7, <1>10, <1>12 DEF Sound
<1>16. e.kind = "cell" => Sound(t, k, h, l, o, gone, away)
  BY <1>3, <1>4, <1>6, <1>7, <1>11, <1>12 DEF Sound
<1>17. e.kind = "catch" => h = n /\ Sound(t, k, s[h].prev, l, o, gone, away)
  BY <1>3, <1>4, <1>6, <1>8, <1>11, <1>12, <1>14 DEF Sound
<1>18. e.kind = "send" => Sound(t, k, h, l, e.n, gone, away)
  BY <1>3, <1>4, <1>6, <1>7, <1>11, <1>13 DEF Sound
<1> QED
  BY <1>1, <1>2, <1>3, <1>15, <1>16, <1>17, <1>18 DEF e

\* The i-th entry becomes e, with some more locals open.
Opens(s, i, locals, e, t) ==
  /\ s \in Seq(Entry) /\ t \in Seq(Entry) /\ e \in Entry
  /\ Len(s) \in Nat /\ i \in 1 .. Len(s) /\ Len(t) = Len(s) /\ t[i] = e
  /\ \A j \in 1 .. Len(s) : j # i => t[j] = s[j]
  /\ locals \in Nat /\ s[i].open \in Nat /\ e.open = s[i].open + locals
  /\ e.kind = s[i].kind /\ e.n = s[i].n /\ e.prev = s[i].prev
LEMMA OpenedBy ==
  ASSUME NEW s \in Seq(Entry), NEW i \in DOMAIN s, s[i].kind = "word", NEW locals \in Nat
  PROVE  \E e \in Entry : Opens(s, i, locals, e, [s EXCEPT ![i].open = @ + locals])
<1> DEFINE n == s[i].open + locals
           e == [s[i] EXCEPT !.open = n]
           t == [s EXCEPT ![i] = e]
<1>1. Len(s) \in Nat /\ i \in 1 .. Len(s) /\ s[i] \in Entry /\ s \in [1 .. Len(s) -> Entry]
  BY LenProperties, ElementOfSeq
<1>2. s[i] \in Entries /\ s[i].open \in Nat /\ n \in Nat
  BY <1>1 DEF Entry, Entries
<1>3. e \in Entries /\ e.open = n /\ e.kind = s[i].kind /\ e.n = s[i].n /\ e.prev = s[i].prev
  <2> HIDE DEF n
  <2> QED
    BY <1>2 DEF Entries
<1>4. e \in Entry
  BY <1>3 DEF Entry
<1> HIDE DEF e
<1>5. t \in [1 .. Len(s) -> Entry] /\ t[i] = e /\ \A j \in 1 .. Len(s) : j # i => t[j] = s[j]
  BY <1>1, <1>4
<1> HIDE DEF t
<1>6. t \in Seq(Entry) /\ Len(t) = Len(s)
  BY <1>1, <1>5, SeqDef
<1>7. Opens(s, i, locals, e, t)
  BY <1>1, <1>2, <1>3, <1>4, <1>5, <1>6 DEF Opens
<1> QED
  BY <1>4, <1>7 DEF e, t

\* A word opens locals: above it are only cells, so the sum is that of what is
\* below it and its own.
LEMMA SoundOpened ==
  ASSUME NEW s, NEW k, NEW h, NEW l, NEW o, NEW gone, NEW away, Sound(s, k, h, l, o, gone, away),
         NEW i, NEW locals, NEW e, NEW t, Opens(s, i, locals, e, t),
         e.kind = "word", \A j \in i + 1 .. Len(s) : s[j].kind = "cell"
  PROVE  Sound(t, k, h, l + locals, o, gone, away)
<1>1. /\ s \in Seq(Entry) /\ Len(s) \in Nat /\ k \in 0 .. Len(s)
      /\ i \in 1 .. Len(s) /\ l \in Int /\ h \in Int /\ o \in Nat
      /\ \A j \in 1 .. Len(s) : s[j] \in Entry
  BY ElementOfSeq DEF Sound, Opens
<1>2. /\ e \in Entry /\ e.open = s[i].open + locals /\ e.kind = s[i].kind /\ e.n = s[i].n
      /\ e.prev = s[i].prev /\ s[i].open \in Nat /\ locals \in Nat
  BY DEF Opens
<1>4. /\ t \in Seq(Entry) /\ Len(t) = Len(s) /\ t[i] = e
      /\ \A j \in 1 .. Len(s) : j # i => t[j] = s[j]
  BY DEF Opens
<1>5. \A j \in 1 .. Len(s) : t[j].kind = s[j].kind /\ t[j].n = s[j].n /\ t[j].prev = s[j].prev
  BY <1>2, <1>4
<1>6. k < i /\ i - 1 \in 0 .. Len(s) /\ k \in 0 .. i - 1 /\ k \in 0 .. i /\ i \in 0 .. Len(s)
  <2>1. ~(i \in 1 .. k)
    BY <1>2 DEF Sound, CellsIn
  <2> QED
    BY <1>1, <2>1
<1>7. CellsIn(t, k)
  BY <1>1, <1>5 DEF Sound, CellsIn
<1>8. NestedIn(t, k, h)
  <2>1. FramesIn(t, k) = FramesIn(s, k)
    BY <1>1, <1>4, <1>5 DEF FramesIn
  <2>2. \A j \in FramesIn(s, k) : t[j].prev = s[j].prev
    BY <1>1, <1>5 DEF FramesIn
  <2>3. NestedIn(s, k, h)
    BY DEF Sound
  <2> QED
    BY <1>4, <2>1, <2>2, <2>3 DEF NestedIn, InnermostIn
<1>9. ~away => SelvesIn(t, o)
  <2> SUFFICES ASSUME SelvesIn(s, o) PROVE SelvesIn(t, o)
    BY DEF Sound
  <2>1. ASSUME NEW j \in 1 .. Len(s) + 1, NEW p PROVE SavedIn(t, p, j) <=> SavedIn(s, p, j)
    <3>1. \A q \in 1 .. j - 1 : t[q].kind = s[q].kind
      BY <1>1, <1>5
    <3> QED
      BY <3>1 DEF SavedIn
  <2>2. SavedIn(t, o, Len(t) + 1)
    <3>1. Len(s) + 1 \in 1 .. Len(s) + 1 /\ SavedIn(s, o, Len(s) + 1)
      BY <1>1 DEF SelvesIn
    <3> QED
      BY <1>4, <2>1, <3>1
  <2>3. ASSUME NEW j \in 1 .. Len(t), t[j].kind = "send" PROVE SavedIn(t, t[j].n, j)
    <3>1. j \in 1 .. Len(s) /\ j \in 1 .. Len(s) + 1 /\ s[j].kind = "send" /\ t[j].n = s[j].n
      BY <1>1, <1>4, <1>5, <2>3
    <3>2. SavedIn(s, s[j].n, j)
      BY <3>1 DEF SelvesIn
    <3> QED
      BY <2>1, <3>1, <3>2
  <2> QED
    BY <2>2, <2>3 DEF SelvesIn
<1>10. ~gone => l + locals = LocalsIn(t, k)
  <2> SUFFICES ASSUME l = LocalsIn(s, k) PROVE l + locals = LocalsIn(t, k)
    BY DEF Sound
  <2> DEFINE u == SubSeq(s, 1, i - 1)
             s1 == SubSeq(s, 1, i)
             t1 == SubSeq(t, 1, i)
  <2>1. Cut(s, i - 1, u) /\ Cut(s, i, s1) /\ Cut(t, i, t1)
    BY <1>1, <1>4, <1>6, CutBy
  <2> HIDE DEF u, s1, t1
  <2>2. Grown(u, s[i], s1) /\ Grown(u, e, t1) /\ Len(u) = i - 1
    <3>1. /\ i - 1 \in Nat /\ Len(u) = i - 1 /\ Len(s1) = i /\ Len(t1) = i /\ i \in 1 .. i
          /\ u \in Seq(Entry) /\ s1 \in Seq(Entry) /\ t1 \in Seq(Entry)
          /\ s[i] \in Entry /\ s1[i] = s[i] /\ t1[i] = e /\ (i - 1) + 1 = i
      BY <1>1, <1>4, <1>6, <2>1 DEF Cut
    <3>2. ASSUME NEW j \in 1 .. i - 1 PROVE s1[j] = u[j] /\ t1[j] = u[j]
      <4>1. j \in 1 .. i /\ j \in 1 .. Len(s) /\ j # i
        BY <1>1
      <4> QED
        BY <1>4, <2>1, <4>1 DEF Cut
    <3> QED
      BY <1>2, <3>1, <3>2 DEF Grown
  <2>3. LocalsIn(u, k) \in Nat /\ LocalsIn(s1, k) = LocalsIn(u, k) + s[i].open
    BY <1>6, <2>2, LocalsGrown DEF Own
  <2>4. LocalsIn(t1, k) = LocalsIn(u, k) + e.open
    BY <1>6, <2>2, LocalsGrown DEF Own
  <2>5. \A j \in i + 1 .. Len(s) : Own(s[j]) = 0 /\ Own(t[j]) = 0
    BY <1>1, <1>4 DEF Own, Entry
  <2>6. LocalsIn(s1, k) = LocalsIn(s, k)
    BY <1>6, <2>1, <2>5, LocalsCut
  <2>7. LocalsIn(t1, k) = LocalsIn(t, k)
    <3>1. \A j \in i + 1 .. Len(t) : Own(t[j]) = 0
      BY <1>4, <2>5
    <3> QED
      BY <1>6, <2>1, <3>1, LocalsCut
  <2> QED
    BY <1>1, <1>2, <2>3, <2>4, <2>6, <2>7
<1> QED
  BY <1>1, <1>2, <1>4, <1>7, <1>8, <1>9, <1>10 DEF Sound

----------------------------------------------------------------------------
(* The actions *)

\* What the actions push is an entry.
LEMMA Pushes ==
  ASSUME StackInv
  PROVE  /\ \A locals \in Sizes :
              Word(locals) \in Entry /\ Word(locals).kind = "word" /\ Word(locals).open = 0
         /\ Cell \in Entry /\ Cell.kind = "cell" /\ Cell.open = 0
         /\ Frame \in Entry /\ Frame.kind = "catch" /\ Frame.prev = handler /\ Frame.open = 0
         /\ self \in Nat =>
              /\ Dispatch(self) \in Entry /\ Dispatch(self).kind = "send"
              /\ Dispatch(self).n = self /\ Dispatch(self).open = 0
         /\ Sizes \subseteq Nat
BY ExceptionsAssumption DEF StackInv, Entry, Entries, Word, Cell, Frame, Dispatch

\* The invariant holds at first: the stack is empty.
LEMMA InitInv == Init => StackInv
<1> SUFFICES ASSUME Init PROVE StackInv
  OBVIOUS
<1>1. rp \in Seq(Entry) /\ Len(rp) = 0
  BY DEF Init
<1>2. CellsIn(rp, Len(rp))
  BY <1>1 DEF CellsIn
<1>3. SelvesIn(rp, self)
  BY <1>1, ExceptionsAssumption DEF Init, SelvesIn, SavedIn
<1> QED
  BY <1>1, <1>2, <1>3 DEF Init, StackInv, Resting

\* A call of the session: the stack it starts from has cells only, so no frame,
\* and no locals that count.
LEMMA EnterStep == StackInv /\ Enter => StackInv'
<1> SUFFICES ASSUME StackInv, Enter PROVE StackInv'
  OBVIOUS
<1> DEFINE k == Len(rp)
<1>1. PICK locals \in Sizes : rp' = Append(rp, Word(locals)) /\ lp' = 0
  BY DEF Enter
<1>2. /\ mode = "idle" /\ mode' = "running" /\ handler' = Root /\ self' = self /\ left' = left /\ ~unwound'
      /\ entry' = [rsp |-> k, prev |-> handler] /\ handler \in Int
  BY DEF Enter, StackInv
<1>3. rp \in Seq(Entry) /\ CellsIn(rp, k) /\ self \in Nat /\ (~left => SelvesIn(rp, self)) /\ k \in Nat
  BY <1>2, LenProperties DEF StackInv, Resting
<1>4. NestedIn(rp, k, Root)
  <2>1. FramesIn(rp, k) = {}
    BY <1>3 DEF FramesIn
  <2>2. Root < k + 1
    BY <1>3 DEF Root
  <2> QED
    BY <2>1, <2>2 DEF NestedIn, InnermostIn
<1>5. LocalsIn(rp, k) = 0
  BY <1>3, TotalEmpty DEF LocalsIn
<1>6. k \in 0 .. Len(rp) /\ Root \in Int
  BY <1>3 DEF Root
<1>7. Sound(rp, k, Root, 0, self, FALSE, left)
  BY <1>3, <1>4, <1>5, <1>6 DEF Sound
<1>8. Sound(rp', k, Root, 0, self, FALSE, left)
  <2>1. Word(locals) \in Entry /\ Word(locals).kind = "word" /\ Word(locals).open = 0
    BY Pushes
  <2> QED
    BY <1>1, <1>7, <2>1, SoundGrown
<1>9. lp' = 0 /\ entry'.rsp = k /\ entry' \in [rsp : Nat, prev : Int]
  BY <1>1, <1>2, <1>3, Pushes
<1>10. (unwound' \/ skewed') = FALSE
  BY DEF Enter
<1>11. Sound(rp', entry'.rsp, handler', lp', self', unwound' \/ skewed', left')
  BY <1>2, <1>8, <1>9, <1>10
<1> QED
  BY <1>2, <1>6, <1>9, <1>11 DEF StackInv

\* Between calls: the return from one, cells the session pushes and pops, its reset.
LEMMA IdleStep == StackInv /\ (Finish \/ ReplCells \/ Reset) => StackInv'
<1> SUFFICES ASSUME StackInv PROVE Finish \/ ReplCells \/ Reset => StackInv'
  OBVIOUS
<1> USE DEF StackInv
<1>1. ASSUME Finish PROVE StackInv'
  <2>1. Sound(rp, entry.rsp, handler, lp, self, unwound \/ skewed, left) /\ Len(rp) = entry.rsp
    BY <1>1 DEF Finish
  <2>2. Resting(rp, self, left)
    BY <2>1 DEF Sound, Resting
  <2> QED
    BY <1>1, <2>2 DEF Finish
<1>2. ASSUME ReplCells PROVE StackInv'
  <2>1. /\ mode = "idle" /\ Resting(rp, self, left)
        /\ UNCHANGED <<mode, handler, lp, self, entry, unwound, skewed, left>>
    BY <1>2 DEF ReplCells
  <2>2. rp \in Seq(Entry) /\ Len(rp) \in Nat /\ CellsIn(rp, Len(rp)) /\ self \in Nat
    BY <2>1, LenProperties DEF Resting
  <2>3. CASE rp' = Append(rp, Cell)
    <3>1. Grown(rp, Cell, rp') /\ Cell.kind = "cell"
      BY <2>2, <2>3, GrownBy, Pushes
    <3>2. rp' \in Seq(Entry) /\ CellsIn(rp', Len(rp'))
      BY <2>2, <3>1 DEF Grown, CellsIn
    <3>3. ~left => SelvesIn(rp', self)
      BY <2>1, <3>1, SelvesGrown DEF Resting
    <3> QED
      BY <2>1, <2>2, <3>2, <3>3 DEF Resting
  <2>4. CASE rp # <<>> /\ rp' = Front(rp)
    <3>1. Cut(rp, Len(rp) - 1, rp')
      BY <2>2, <2>4, FrontOf
    <3>2. rp' \in Seq(Entry) /\ CellsIn(rp', Len(rp'))
      BY <2>2, <3>1 DEF Cut, CellsIn
    <3>3. \A i \in (Len(rp) - 1) + 1 .. Len(rp) : rp[i].kind # "send"
      <4>1. Len(rp) > 0
        BY <2>2, <2>4, EmptySeq
      <4> QED
        BY <2>2, <4>1 DEF CellsIn
    <3>4. ~left => SelvesIn(rp', self)
      BY <2>1, <3>1, <3>3, SelvesCut DEF Resting
    <3> QED
      BY <2>1, <2>2, <3>2, <3>4 DEF Resting
  <2> QED
    BY <1>2, <2>3, <2>4 DEF ReplCells, Bounded
<1>3. ASSUME Reset PROVE StackInv'
  <2>1. rp' \in Seq(Entry) /\ Len(rp') = 0 /\ self' = 0
    BY <1>3 DEF Reset
  <2>2. CellsIn(rp', Len(rp'))
    BY <2>1 DEF CellsIn
  <2>3. SelvesIn(rp', self')
    BY <2>1, ExceptionsAssumption DEF SelvesIn, SavedIn
  <2> QED
    BY <1>3, <2>1, <2>2, <2>3 DEF Reset, Resting
<1> QED
  BY <1>1, <1>2, <1>3

\* Words: calls, locals opened, returns and the cells they keep on the return stack.
LEMMA WordStep == StackInv /\ (Call \/ OpenLocals \/ TailCall \/ Return \/ ToR \/ RFrom) => StackInv'
<1> SUFFICES ASSUME StackInv, Call \/ OpenLocals \/ TailCall \/ Return \/ ToR \/ RFrom PROVE StackInv'
  OBVIOUS
<1> DEFINE k == entry.rsp
           gone == unwound \/ skewed
<1>1. /\ InWord
      /\ UNCHANGED <<mode, handler, self, entry, unwound, left>>
  BY DEF Call, OpenLocals, TailCall, Return, ToR, RFrom
<1>2. /\ Sound(rp, k, handler, lp, self, gone, left) /\ mode = "running"
      /\ k < Len(rp) /\ lp \in Int
  <2>1. mode = "running" /\ Len(rp) > entry.rsp
    BY <1>1 DEF InWord
  <2>2. Sound(rp, k, handler, lp, self, gone, left)
    BY <2>1 DEF StackInv
  <2>3. Len(rp) \in Nat /\ k \in Nat
    BY <2>2, LenProperties DEF Sound
  <2> QED
    BY <2>1, <2>2, <2>3 DEF Sound
<1> DEFINE gone2 == unwound \/ Skewed(Last(rp))
<1>3. /\ rp # <<>> /\ Last(rp) \in Entry
      /\ Last(rp).kind = "word" => Sound(Front(rp), k, handler, lp - Last(rp).n, self, gone2, left)
      /\ Last(rp).kind = "cell" => Sound(Front(rp), k, handler, lp, self, gone, left)
  <2>1. Sound(rp, k, handler, lp, self, gone, left) /\ k < Len(rp)
    BY <1>2
  <2>2. (gone \/ Last(rp).n # Last(rp).open) = gone2
    BY Zenon DEF Skewed
  <2> HIDE DEF gone, gone2, k
  <2>3. Last(rp).kind = "word" =>
          Sound(Front(rp), k, handler, lp - Last(rp).n, self, gone \/ Last(rp).n # Last(rp).open, left)
    BY <2>1, SoundPopped
  <2>4. /\ rp # <<>> /\ Last(rp) \in Entry
        /\ Last(rp).kind = "cell" => Sound(Front(rp), k, handler, lp, self, gone, left)
    BY <2>1, SoundPopped
  <2> QED
    BY <2>2, <2>3, <2>4
<1>4. SUFFICES Sound(rp', k, handler, lp', self, unwound \/ skewed', left)
  <2>1. lp' \in Int
    BY <1>4 DEF Sound
  <2> QED
    BY <1>1, <1>2, <1>4, <2>1 DEF StackInv
<1>5. ASSUME Call PROVE Sound(rp', k, handler, lp', self, unwound \/ skewed', left)
  <2>1. PICK locals \in Sizes : rp' = Append(rp, Word(locals))
    BY <1>5 DEF Call, Bounded
  <2>2. Word(locals) \in Entry /\ Word(locals).kind = "word" /\ Word(locals).open = 0
    BY Pushes
  <2>3. Sound(rp', k, handler, lp, self, gone, left)
    <3> HIDE DEF gone, k
    <3> QED
      BY <1>2, <2>1, <2>2, SoundGrown
  <2> QED
    BY <1>5, <2>3 DEF Call
<1>6. ASSUME OpenLocals PROVE Sound(rp', k, handler, lp', self, unwound \/ skewed', left)
  <2>1. PICK i \in DOMAIN rp, locals \in Sizes \ {0} :
          /\ rp[i].kind = "word" /\ \A j \in i + 1 .. Len(rp) : rp[j].kind = "cell"
          /\ rp' = [rp EXCEPT ![i].open = @ + locals]
          /\ BoundedLP(lp + locals)
    BY <1>6 DEF OpenLocals
  <2>2. locals \in Nat /\ lp' = lp + locals
    BY <2>1, Pushes DEF BoundedLP
  <2>3. Sound(rp', k, handler, lp + locals, self, gone, left)
    <3> HIDE DEF gone, k
    <3>1. rp \in Seq(Entry)
      BY <1>2 DEF Sound
    <3>2. PICK e \in Entry : Opens(rp, i, locals, e, rp')
      BY <2>1, <2>2, <3>1, OpenedBy
    <3>3. e.kind = "word"
      BY <2>1, <3>2 DEF Opens
    <3> QED
      BY <1>2, <2>1, <3>2, <3>3, SoundOpened
  <2> QED
    BY <1>6, <2>2, <2>3 DEF OpenLocals
<1>7. ASSUME TailCall PROVE Sound(rp', k, handler, lp', self, unwound \/ skewed', left)
  <2>1. PICK locals \in Sizes :
          rp' = Append(Front(rp), Word(locals)) /\ lp' = lp - Last(rp).n
    BY <1>7 DEF TailCall, BoundedLP
  <2>2. Word(locals) \in Entry /\ Word(locals).kind = "word" /\ Word(locals).open = 0
    BY Pushes
  <2>3. Last(rp).kind = "word" /\ skewed' = Skewed(Last(rp))
    BY <1>7 DEF TailCall
  <2>4. Sound(rp', k, handler, lp', self, gone2, left)
    <3> HIDE DEF gone2, k
    <3> QED
      BY <1>3, <2>1, <2>2, <2>3, SoundGrown
  <2> QED
    BY <2>3, <2>4
<1>8. ASSUME Return PROVE Sound(rp', k, handler, lp', self, unwound \/ skewed', left)
  <2>1. rp' = Front(rp) /\ lp' = lp - Last(rp).n /\ Last(rp).kind = "word" /\ skewed' = Skewed(Last(rp))
    BY <1>8 DEF Return, BoundedLP
  <2> QED
    BY <1>3, <2>1
<1>9. ASSUME ToR PROVE Sound(rp', k, handler, lp', self, unwound \/ skewed', left)
  <2>1. rp' = Append(rp, Cell) /\ lp' = lp /\ skewed' = skewed
    BY <1>9 DEF ToR, Bounded
  <2>2. Cell \in Entry /\ Cell.kind = "cell" /\ Cell.open = 0
    BY Pushes
  <2>3. Sound(rp', k, handler, lp, self, gone, left)
    <3> HIDE DEF gone, k
    <3> QED
      BY <1>2, <2>1, <2>2, SoundGrown
  <2> QED
    BY <2>1, <2>3
<1>10. ASSUME RFrom PROVE Sound(rp', k, handler, lp', self, unwound \/ skewed', left)
  BY <1>3, <1>10 DEF RFrom
<1> QED
  BY <1>5, <1>6, <1>7, <1>8, <1>9, <1>10

\* Two entries are pushed one after the other.
LEMMA TwoAppends ==
  ASSUME NEW s \in Seq(Entry), NEW a \in Entry, NEW b \in Entry
  PROVE  s \o <<a, b>> = Append(Append(s, a), b)
OBVIOUS

\* catch and dispatch, to the word they call and back.
LEMMA ControlStep == StackInv /\ (Catch \/ CatchReturns \/ Send \/ SendReturns) => StackInv'
<1> SUFFICES ASSUME StackInv, Catch \/ CatchReturns \/ Send \/ SendReturns PROVE StackInv'
  OBVIOUS
<1> DEFINE gone == unwound \/ skewed
<1>1. /\ mode = "running" /\ Len(rp) > entry.rsp
      /\ UNCHANGED <<mode, entry, unwound, skewed, left>>
  BY DEF Catch, CatchReturns, Send, SendReturns, InWord, Control
<1>2. /\ Sound(rp, entry.rsp, handler, lp, self, gone, left)
      /\ entry.rsp < Len(rp) /\ rp \in Seq(Entry) /\ Len(rp) \in Nat /\ self \in Nat
  <2>1. Sound(rp, entry.rsp, handler, lp, self, gone, left)
    BY <1>1 DEF StackInv
  <2>2. Len(rp) \in Nat /\ entry.rsp \in Nat
    BY <2>1, LenProperties DEF Sound
  <2> QED
    BY <1>1, <2>1, <2>2 DEF Sound
<1> DEFINE k == entry.rsp
<1>3. /\ Last(rp) = rp[Len(rp)]
      /\ Last(rp).kind = "catch" =>
           handler = Len(rp) /\ Sound(Front(rp), k, rp[handler].prev, lp, self, gone, left)
      /\ Last(rp).kind = "send" => Sound(Front(rp), k, handler, lp, Last(rp).n, gone, left)
  BY <1>2, SoundPopped
<1>4. SUFFICES Sound(rp', k, handler', lp', self', gone, left)
  <2>1. lp' \in Int /\ handler' \in Int
    BY <1>4 DEF Sound
  <2> QED
    BY <1>1, <1>4, <2>1 DEF StackInv
<1>5. ASSUME Catch PROVE Sound(rp', k, handler', lp', self', gone, left)
  <2>1. PICK locals \in Sizes : rp' = rp \o <<Frame, Word(locals)>> 
    BY <1>5 DEF Catch, Bounded, BoundedLP
  <2>2. /\ Word(locals) \in Entry /\ Word(locals).kind = "word" /\ Word(locals).open = 0
        /\ Frame \in Entry /\ Frame.kind = "catch" /\ Frame.prev = handler /\ Frame.open = 0
    BY Pushes
  <2>3. Sound(Append(rp, Frame), k, Len(rp) + 1, lp, self, gone, left)
    BY <1>2, <2>2, SoundGrown
  <2>4. Sound(Append(Append(rp, Frame), Word(locals)), k, Len(rp) + 1, lp, self, gone, left)
    BY <2>2, <2>3, SoundGrown
  <2>5. rp' = Append(Append(rp, Frame), Word(locals))
    BY <1>2, <2>1, <2>2, TwoAppends
  <2>6. handler' = Len(rp) + 1 /\ self' = self /\ lp' = lp
    BY <1>5 DEF Catch
  <2> QED
    BY <2>1, <2>4, <2>5, <2>6
<1>6. ASSUME CatchReturns PROVE Sound(rp', k, handler', lp', self', gone, left)
  BY <1>3, <1>6 DEF CatchReturns, Control
<1>7. ASSUME Send PROVE Sound(rp', k, handler', lp', self', gone, left)
  <2>1. PICK locals \in Sizes : rp' = rp \o <<Dispatch(self), Word(locals)>> 
    BY <1>7 DEF Send, Bounded, BoundedLP
  <2>2. /\ Word(locals) \in Entry /\ Word(locals).kind = "word" /\ Word(locals).open = 0
        /\ Dispatch(self) \in Entry /\ Dispatch(self).kind = "send" /\ Dispatch(self).n = self /\ Dispatch(self).open = 0
    BY <1>2, Pushes
  <2>3. self' \in Objects /\ handler' = handler /\ lp' = lp
    BY <1>7 DEF Send
  <2>4. Sound(Append(rp, Dispatch(self)), k, handler, lp, self', gone, left)
    BY <1>2, <2>2, <2>3, SoundGrown
  <2>5. Sound(Append(Append(rp, Dispatch(self)), Word(locals)), k, handler, lp, self', gone, left)
    BY <2>2, <2>4, SoundGrown
  <2>6. rp' = Append(Append(rp, Dispatch(self)), Word(locals))
    BY <1>2, <2>1, <2>2, TwoAppends
  <2> QED
    BY <2>1, <2>3, <2>5, <2>6
<1>8. ASSUME SendReturns PROVE Sound(rp', k, handler', lp', self', gone, left)
  BY <1>3, <1>8 DEF SendReturns, Control
<1> QED
  BY <1>5, <1>6, <1>7, <1>8

\* A throw cuts the stack below the innermost frame.
LEMMA ThrowStep == StackInv /\ Throw => StackInv'
<1> SUFFICES ASSUME StackInv, Throw PROVE StackInv'
  OBVIOUS
<1> DEFINE k == entry.rsp
           m == handler - 1
           gone == unwound \/ skewed
           gone2 == unwound' \/ skewed'
<1>1. /\ mode = "running" /\ handler # Root /\ handler' = rp[handler].prev
      /\ rp' = SubSeq(rp, 1, m)
      /\ unwound' = (unwound \/ \E i \in DOMAIN Unwound : Unwound[i].open > 0)
      /\ left' = (left \/ "send" \in Kinds(Unwound))
      /\ UNCHANGED <<mode, lp, self, entry, skewed>>
  BY DEF Throw, InWord
<1>2. /\ Sound(rp, k, handler, lp, self, gone, left)
      /\ rp \in Seq(Entry) /\ Len(rp) \in Nat /\ k \in 0 .. Len(rp) /\ NestedIn(rp, k, handler)
  BY <1>1, LenProperties DEF StackInv, Sound
<1>3. handler \in k + 1 .. Len(rp) /\ rp[handler].kind = "catch" /\ rp[handler] \in Entry
  <2>1. handler \in FramesIn(rp, k)
    BY <1>1, <1>2 DEF NestedIn, InnermostIn
  <2>2. handler \in k + 1 .. Len(rp) /\ rp[handler].kind = "catch"
    BY <2>1 DEF FramesIn
  <2>3. handler \in 1 .. Len(rp)
    BY <1>2, <2>2
  <2> QED
    BY <1>2, <2>2, <2>3, ElementOfSeq
<1>4. m \in k .. Len(rp) /\ m \in 0 .. Len(rp) /\ k \in 0 .. m /\ handler = m + 1
  BY <1>2, <1>3
<1>5. Cut(rp, m, rp')
  BY <1>1, <1>2, <1>4, CutBy
<1>6. NestedIn(rp', k, rp[handler].prev) /\ rp[handler].prev \in Int
  BY <1>2, <1>3, <1>4, <1>5, NestedCut DEF Entry, Entries
<1>7. ASSUME NEW i \in m + 1 .. Len(rp)
      PROVE  i = handler \/ \E j \in DOMAIN Unwound : Unwound[j] = rp[i]
  <2>1. SUFFICES ASSUME i # handler PROVE \E j \in DOMAIN Unwound : Unwound[j] = rp[i]
    OBVIOUS
  <2>2. /\ handler + 1 \in 1 .. Len(rp) + 1 /\ Len(rp) \in handler .. Len(rp)
        /\ i - handler \in 1 .. Len(rp) - handler /\ (handler + 1) + (i - handler) - 1 = i
    BY <1>2, <1>3, <1>4, <2>1
  <2>3. Len(Unwound) = Len(rp) - handler /\ Unwound \in Seq(Entry) /\ Unwound[i - handler] = rp[i]
    BY <1>2, <1>3, <2>2, SubSeqProperties DEF Unwound
  <2>4. DOMAIN Unwound = 1 .. Len(rp) - handler
    BY <2>3, LenProperties
  <2> QED
    BY <2>2, <2>3, <2>4
<1>8. SendsAbove(rp, m) \/ left => left'
  BY <1>1, <1>3, <1>7 DEF Kinds, SendsAbove
<1>9. LocalsAbove(rp, m) \/ gone => gone2
  <2>1. ASSUME NEW i \in m + 1 .. Len(rp), Own(rp[i]) # 0 PROVE unwound'
    <3>1. i \in 1 .. Len(rp)
      BY <1>2, <1>4, <2>1
    <3>2. rp[i] \in Entry
      BY <1>2, <3>1, ElementOfSeq
    <3>3. rp[i].kind = "word" /\ rp[i].open > 0
      BY <2>1, <3>2 DEF Own, Entry, Entries
    <3>4. i # handler
      BY <1>3, <3>3
    <3> QED
      BY <1>1, <1>7, <3>3, <3>4
  <2> QED
    BY <1>1, <2>1 DEF LocalsAbove
<1>10. Sound(rp', k, rp[handler].prev, lp, self, gone2, left')
  <2> HIDE DEF k, m, gone, gone2
  <2>1. m \in k .. Len(rp)
    BY <1>4
  <2>2. Sound(rp, k, handler, lp, self, gone, left)
    BY <1>2
  <2> QED
    BY <1>5, <1>6, <1>8, <1>9, <2>1, <2>2, SoundCut, ZenonT(60)
<1> QED
  BY <1>1, <1>6, <1>10 DEF StackInv

\* A call ended by a throw to the root or by a fault leaves the stack as it was;
\* one ended by a fault that no guard recovers from leaves nothing.
LEMMA EndedStep == StackInv /\ (Abort \/ Fault \/ Die) => StackInv'
<1> SUFFICES ASSUME StackInv, Abort \/ Fault \/ Die PROVE StackInv'
  OBVIOUS
<1> DEFINE k == entry.rsp
<1>1. Sound(rp, k, handler, lp, self, unwound \/ skewed, left) /\ rp \in Seq(Entry) /\ k \in 0 .. Len(rp)
  BY DEF Abort, Fault, Die, InWord, StackInv, Sound
<1>2. /\ handler \in Int /\ lp \in Int /\ entry \in [rsp : Nat, prev : Int] /\ entry.prev \in Int
  BY DEF StackInv
<1>3. ASSUME left' = (left \/ "send" \in Kinds(rp)), rp' = SubSeq(rp, 1, k), self' = self
      PROVE  Resting(rp', self', left')
  <2>1. k \in Nat /\ Len(rp) \in Nat /\ DOMAIN rp = 1 .. Len(rp)
    BY <1>1, LenProperties
  <2>2. SendsAbove(rp, k) \/ left => left'
    <3>1. SendsAbove(rp, k) => "send" \in Kinds(rp)
      BY <2>1 DEF Kinds, SendsAbove
    <3> QED
      BY <1>3, <3>1, Zenon
  <2> QED
    BY <1>1, <1>3, <2>2, RestingCut
<1>4. CASE Abort
  <2>1. mode' = "idle" /\ handler' = entry.prev /\ UNCHANGED <<lp, entry>> /\ Resting(rp', self', left')
    BY <1>3, <1>4 DEF Abort
  <2> QED
    BY <1>2, <2>1 DEF StackInv
<1>5. CASE Fault
  <2>1. mode' = "idle" /\ UNCHANGED <<handler, lp, entry>> /\ Resting(rp', self', left')
    BY <1>3, <1>5 DEF Fault
  <2> QED
    BY <1>2, <2>1 DEF StackInv
<1>6. CASE Die
  <2>1. rp' \in Seq(Entry) /\ Len(rp') = 0 /\ self' = 0
    BY <1>6 DEF Die
  <2>2. CellsIn(rp', Len(rp')) /\ SelvesIn(rp', self')
    BY <2>1, ExceptionsAssumption DEF CellsIn, SelvesIn, SavedIn
  <2> QED
    BY <1>6, <2>1, <2>2 DEF Die, StackInv, Resting
<1> QED
  BY <1>4, <1>5, <1>6

\* Every step keeps the invariant.
LEMMA NextInv == StackInv /\ [Next]_vars => StackInv'
<1> SUFFICES ASSUME StackInv, [Next]_vars PROVE StackInv'
  OBVIOUS
<1>1. CASE Guard \/ Unguard \/ UNCHANGED vars
  <2>1. UNCHANGED <<machine, unwound, skewed, left>>
    BY <1>1 DEF Guard, Unguard, vars
  <2> QED
    BY <2>1 DEF StackInv, machine
<1> QED
  BY <1>1, EnterStep, IdleStep, WordStep, ControlStep, ThrowStep, EndedStep DEF Next

----------------------------------------------------------------------------
(* What a throw finds, and what a call leaves *)

\* The invariant holds in every reachable state.
THEOREM Invariant == Spec => []StackInv
<1>1. Init => StackInv
  BY InitInv
<1>2. StackInv /\ [Next]_vars => StackInv'
  BY NextInv
<1> QED
  BY <1>1, <1>2, PTL DEF Spec

\* However catches nest and throws leave them, HANDLER is the innermost frame
\* still on the return stack, each frame leads to the one around it, and the
\* last to the root (kernel/exceptions.masm, forth_main).
THEOREM HandlersAlwaysNest == Spec => []HandlersNest
<1>1. StackInv => HandlersNest
  <2>1. FramesIn(rp, entry.rsp) = Frames
    BY DEF FramesIn, Frames, Present
  <2>2. ASSUME NEW h, NEW i, InnermostIn(rp, entry.rsp, h, i) PROVE IsInnermost(h, i)
    BY <2>1, <2>2 DEF InnermostIn, IsInnermost
  <2> QED
    BY <2>1, <2>2 DEF StackInv, StackInv, Sound, NestedIn, HandlersNest
<1> QED
  BY <1>1, Invariant, PTL

\* The locals pointer is above the open locals of exactly the words that run,
\* whatever else is on the return stack and wherever they are opened: until a
\* caught throw leaves a word with open locals, or a word ends that has not opened
\* just what its one epilogue takes down (session.rs, open_locals, commit_body).
THEOREM LocalsAlwaysOwned == Spec => []LocalsOwned
<1>1. StackInv => LocalsOwned
  <2>1. OwnedIn(rp) = Opened
    BY DEF OwnedIn, Opened, Own
  <2> QED
    BY <2>1 DEF StackInv, StackInv, Sound, LocalsIn, LocalsOwned
<1> QED
  BY <1>1, Invariant, PTL

\* There is a current object exactly inside methods, until a throw or a fault
\* leaves one (kernel/oop.masm restores the sender's at its return).
THEOREM SelfOnlyInMethods == Spec => []SelfInMethods
<1>1. StackInv => SelfInMethods
  <2> SUFFICES ASSUME StackInv, ~left
               PROVE  (self \in Objects <=> "send" \in Kinds(rp)) /\ self \in Objects \cup {0}
    BY DEF SelfInMethods
  <2>1. SelvesIn(rp, self) /\ rp \in Seq(Entry)
    BY DEF StackInv, StackInv, Sound, Resting
  <2>2. Len(rp) \in Nat /\ DOMAIN rp = 1 .. Len(rp)
    BY <2>1, LenProperties
  <2>3. 1 .. (Len(rp) + 1) - 1 = DOMAIN rp
    BY <2>2
  <2> QED
    BY <2>1, <2>3 DEF SelvesIn, SavedIn, Kinds
<1> QED
  BY <1>1, Invariant, PTL

\* However a call ended, it leaves on the return stack nothing but cells.
THEOREM RestsAlwaysClean == Spec => []RestsClean
<1>1. StackInv => RestsClean
  <2> SUFFICES ASSUME StackInv, mode = "idle" PROVE Kinds(rp) \subseteq {"cell"}
    BY DEF RestsClean
  <2>1. CellsIn(rp, Len(rp)) /\ rp \in Seq(Entry)
    BY DEF StackInv, StackInv, Resting
  <2>2. DOMAIN rp = 1 .. Len(rp)
    BY <2>1, LenProperties
  <2> QED
    BY <2>1, <2>2 DEF CellsIn, Kinds
<1> QED
  BY <1>1, Invariant, PTL
=============================================================================
