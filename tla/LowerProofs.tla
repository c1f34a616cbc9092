---------------------------- MODULE LowerProofs ----------------------------
(***************************************************************************)
(* The register discipline of the lowerer, for any sequence of tokens and  *)
(* any pools: whatever is deferred, no register has two holders and none   *)
(* is lost.  The proof goes through the methods of `struct Low` as the     *)
(* code does: each has a lemma that says what it does to the registers.    *)
(* The second half counts registers: in a pool with the room the session   *)
(* leaves (RoomAssumption) every method finds those it asks for, but for   *)
(* a `nip` or `-rot` that finds the window short and the pool cached.      *)
(***************************************************************************)
EXTENDS Lower, SequenceLemmas, FiniteSetTheorems

GpRegs == {TOS} \cup Pool
FpRegs == {FTOS} \cup FPool

----------------------------------------------------------------------------
(* Windows: sequences of locations of which no two are the same register *)

RegOf(a) == IF a.k = "Reg" THEN {a.v} ELSE {}
IsLoc(a) == a.k \in {"Reg", "Const"} /\ RegOf(a) \subseteq GpRegs
Regs(s) == UNION {RegOf(s[k]) : k \in 1 .. Len(s)}

Window(s) ==
  /\ \E S : s \in Seq(S)
  /\ \A k \in 1 .. Len(s) : IsLoc(s[k])
  /\ \A j, k \in 1 .. Len(s) : j # k => RegOf(s[j]) \cap RegOf(s[k]) = {}

\* t is made of items of s, none of them twice: t[k] = s[p[k]].
Picks(t, s, p) ==
  /\ \E T : t \in Seq(T)
  /\ p \in [1 .. Len(t) -> 1 .. Len(s)]
  /\ \A k \in 1 .. Len(t) : t[k] = s[p[k]]
  /\ \A j, k \in 1 .. Len(t) : p[j] = p[k] => j = k
Rearranges(t, s, p) == Picks(t, s, p) /\ \A i \in 1 .. Len(s) : \E k \in 1 .. Len(t) : p[k] = i

\* Taking items of a window, none of them twice, leaves a window, ...
LEMMA Picked ==
  ASSUME NEW s, Window(s), NEW t, NEW p, Picks(t, s, p)
  PROVE  Window(t) /\ Regs(t) \subseteq Regs(s)
<1>1. \A k \in 1 .. Len(t) : IsLoc(t[k])
  BY DEF Window, Picks
<1>2. ASSUME NEW j \in 1 .. Len(t), NEW k \in 1 .. Len(t), j # k PROVE RegOf(t[j]) \cap RegOf(t[k]) = {}
  <2>1. p[j] \in 1 .. Len(s) /\ p[k] \in 1 .. Len(s) /\ p[j] # p[k] /\ t[j] = s[p[j]] /\ t[k] = s[p[k]]
    BY <1>2 DEF Picks
  <2>2. RegOf(s[p[j]]) \cap RegOf(s[p[k]]) = {}
    BY <2>1 DEF Window
  <2> QED
    BY <2>1, <2>2
<1>3. Regs(t) \subseteq Regs(s)
  BY DEF Regs, Picks
<1> QED
  BY <1>1, <1>2, <1>3 DEF Window, Picks

\* ... with the same registers when all are taken.
LEMMA Rearranged ==
  ASSUME NEW s, Window(s), NEW t, NEW p, Rearranges(t, s, p)
  PROVE  Window(t) /\ Regs(t) = Regs(s)
<1>1. Picks(t, s, p) /\ \A i \in 1 .. Len(s) : \E k \in 1 .. Len(t) : p[k] = i
  BY DEF Rearranges
<1>2. Window(t) /\ Regs(t) \subseteq Regs(s)
  BY <1>1, Picked
<1>3. Regs(s) \subseteq Regs(t)
  BY <1>1 DEF Regs, Picks
<1> QED
  BY <1>2, <1>3

\* The items of a window lie in it.
LEMMA InWindow ==
  ASSUME NEW s, Window(s)
  PROVE  /\ Len(s) \in Nat /\ DOMAIN s = 1 .. Len(s)
         /\ \A S : {s[k] : k \in 1 .. Len(s)} \subseteq S => s \in Seq(S)
         /\ \A k \in 1 .. Len(s) : IsLoc(s[k]) /\ RegOf(s[k]) \subseteq Regs(s)
         /\ Regs(s) \subseteq GpRegs
<1>1. PICK S : s \in Seq(S)
  BY DEF Window
<1>2. Len(s) \in Nat /\ DOMAIN s = 1 .. Len(s) /\ s \in [1 .. Len(s) -> S]
  BY <1>1, LenProperties, ElementOfSeq
<1>3. ASSUME NEW Items, {s[k] : k \in 1 .. Len(s)} \subseteq Items PROVE s \in Seq(Items)
  <2>1. s \in [1 .. Len(s) -> Items]
    BY <1>2, <1>3
  <2> QED
    BY <1>2, <2>1, IsASeq
<1>4. \A Items : {s[k] : k \in 1 .. Len(s)} \subseteq Items => s \in Seq(Items)
  BY <1>3
<1> QED
  BY <1>2, <1>4 DEF Window, Regs, IsLoc

\* t is s with one more item, a, on top.
Grown(t, s, a) ==
  /\ Window(t) /\ Regs(t) = Regs(s) \cup RegOf(a) /\ Len(t) = Len(s) + 1
  /\ t[Len(t)] = a /\ \A k \in 1 .. Len(s) : t[k] = s[k]

\* One more item, of a register of its own, on top, ...
LEMMA PushedLoc ==
  ASSUME NEW s, Window(s), NEW a, IsLoc(a), RegOf(a) \cap Regs(s) = {}, NEW t, t = Append(s, a)
  PROVE  Grown(t, s, a)
<1> DEFINE S == {s[k] : k \in 1 .. Len(s)} \cup {a}
<1>1. s \in Seq(S) /\ Len(s) \in Nat
  <2>1. {s[k] : k \in 1 .. Len(s)} \subseteq S
    OBVIOUS
  <2> HIDE DEF S
  <2> QED
    BY <2>1, InWindow
<1>2. a \in S
  OBVIOUS
<1> HIDE DEF S
<1>3. t \in Seq(S) /\ Len(t) = Len(s) + 1 /\ (\A k \in 1 .. Len(s) : t[k] = s[k]) /\ t[Len(s) + 1] = a
  BY <1>1, <1>2, Pushed
<1>4. \A k \in 1 .. Len(s) : RegOf(s[k]) \subseteq Regs(s) /\ IsLoc(s[k])
  BY InWindow
<1>5. \A k \in 1 .. Len(t) : k # Len(t) => k \in 1 .. Len(s)
  BY <1>1, <1>3
<1>6. \A k \in 1 .. Len(t) : IsLoc(t[k])
  BY <1>3, <1>4, <1>5
<1>7. ASSUME NEW j \in 1 .. Len(t), NEW k \in 1 .. Len(t), j # k PROVE RegOf(t[j]) \cap RegOf(t[k]) = {}
  <2>1. CASE j # Len(t) /\ k # Len(t)
    <3>1. RegOf(s[j]) \cap RegOf(s[k]) = {}
      BY <1>5, <1>7, <2>1 DEF Window
    <3> QED
      BY <1>3, <1>5, <2>1, <3>1
  <2> QED
    BY <1>3, <1>4, <1>5, <1>7, <2>1
<1>8. Regs(t) = Regs(s) \cup RegOf(a)
  <2>1. Regs(t) \subseteq Regs(s) \cup RegOf(a)
    BY <1>3, <1>4, <1>5 DEF Regs
  <2>2. 1 .. Len(s) \subseteq 1 .. Len(t) /\ Len(t) \in 1 .. Len(t)
    BY <1>1, <1>3
  <2>3. Regs(s) \subseteq Regs(t) /\ RegOf(a) \subseteq Regs(t)
    BY <1>3, <2>2 DEF Regs
  <2> QED
    BY <2>1, <2>3
<1> QED
  BY <1>3, <1>6, <1>7, <1>8 DEF Window, Grown

\* ... or at the bottom.
Deepened(t, s, a) == Window(t) /\ Regs(t) = Regs(s) \cup RegOf(a) /\ Len(t) = Len(s) + 1

LEMMA PulledLoc ==
  ASSUME NEW s, Window(s), NEW a, IsLoc(a), RegOf(a) \cap Regs(s) = {}, NEW t, t = <<a>> \o s
  PROVE  Deepened(t, s, a)
<1> DEFINE u == Append(s, a)
           S == {s[k] : k \in 1 .. Len(s)} \cup {a}
           b == <<a>>
           p == [k \in 1 .. Len(t) |-> IF k = 1 THEN Len(s) + 1 ELSE k - 1]
<1>1. s \in Seq(S) /\ Len(s) \in Nat
  <2>1. {s[k] : k \in 1 .. Len(s)} \subseteq S
    OBVIOUS
  <2> HIDE DEF S
  <2> QED
    BY <2>1, InWindow
<1>2. b \in Seq(S) /\ Len(b) = 1 /\ b[1] = a /\ t = b \o s
  OBVIOUS
<1>3. Grown(u, s, a)
  BY PushedLoc
<1> HIDE DEF S, b, u
<1>4. IsJoin(t, b, s, S)
  BY <1>1, <1>2, JoinedIs
<1>5. t \in Seq(S) /\ Len(t) = Len(s) + 1 /\ t[1] = a /\ \A k \in 1 .. Len(s) : t[1 + k] = s[k]
  BY <1>2, <1>4 DEF IsJoin
<1>6. Rearranges(t, u, p)
  <2>1. p \in [1 .. Len(t) -> 1 .. Len(u)]
    BY <1>1, <1>3, <1>5 DEF Grown
  <2>2. ASSUME NEW k \in 1 .. Len(t) PROVE t[k] = u[p[k]]
    <3>1. k # 1 => k - 1 \in 1 .. Len(s) /\ 1 + (k - 1) = k
      BY <1>1, <1>5
    <3> QED
      BY <1>3, <1>5, <3>1 DEF Grown
  <2>3. \A j, k \in 1 .. Len(t) : p[j] = p[k] => j = k
    BY <1>1, <1>5
  <2>4. ASSUME NEW i \in 1 .. Len(u) PROVE \E k \in 1 .. Len(t) : p[k] = i
    <3>1. CASE i = Len(u)
      BY <1>1, <1>3, <1>5, <3>1 DEF Grown
    <3>2. CASE i # Len(u)
      <4>1. i + 1 \in 1 .. Len(t) /\ p[i + 1] = i
        BY <1>1, <1>3, <1>5, <3>2 DEF Grown
      <4> QED
        BY <4>1
    <3> QED
      BY <3>1, <3>2
  <2> HIDE DEF p
  <2> QED
    BY <1>5, <2>1, <2>2, <2>3, <2>4 DEF Rearranges, Picks
<1> QED
  BY <1>3, <1>5, <1>6, Rearranged DEF Grown, Deepened

----------------------------------------------------------------------------
(* Who holds what *)

Fields == {"out", "vs", "used", "consumed", "fvs", "fused", "fconsumed", "lcache", "cells",
           "flcache", "fvcache", "hot", "ipins", "fpins", "panic"}
IsLow(L) == DOMAIN L = Fields /\ IsFiniteSet(DOMAIN L.fvcache)

CacheRegs(cache) == {cache[i].r : i \in DOMAIN cache}
OneEach(cache) == \A i, j \in DOMAIN cache : cache[i].r = cache[j].r => i = j

Held(L) == Regs(L.vs) \cup CacheRegs(L.lcache) \cup Range(L.cells) \cup Range(L.ipins)

\* No two holders share a GP register ...
Apart(L) ==
  /\ Window(L.vs) /\ OneEach(L.lcache) /\ IsInjective(L.cells) /\ IsInjective(L.ipins)
  /\ Range(L.ipins) \subseteq Pool /\ Held(L) \subseteq GpRegs
  /\ Regs(L.vs) \cap (CacheRegs(L.lcache) \cup Range(L.cells) \cup Range(L.ipins)) = {}
  /\ CacheRegs(L.lcache) \cap (Range(L.cells) \cup Range(L.ipins)) = {}
  /\ Range(L.cells) \cap Range(L.ipins) = {}
\* ... nor one that a method has in hand (X), and the marks are right.
Strict(L, X) ==
  /\ Apart(L)
  /\ X \subseteq GpRegs /\ X \cap Held(L) = {}
  /\ L.used \cap Pool = (Held(L) \cup X) \cap Pool
Gp(L, X) == L.panic \/ Strict(L, X)

\* The methods that leave one half of the state alone.
GpSame(L, M) ==
  M.vs = L.vs /\ M.used = L.used /\ M.lcache = L.lcache /\ M.cells = L.cells /\ M.ipins = L.ipins
FpSame(L, M) ==
  /\ M.fvs = L.fvs /\ M.fused = L.fused /\ M.flcache = L.flcache /\ M.fvcache = L.fvcache
  /\ M.fpins = L.fpins
Goes(L, M) == IsLow(M) /\ (L.panic => M.panic)
GpKept(L, M) == Goes(L, M) /\ GpSame(L, M)
FpKept(L, M) == Goes(L, M) /\ FpSame(L, M)

LEMMA GpStays ==
  ASSUME NEW L, NEW M, GpKept(L, M), NEW X, Gp(L, X)
  PROVE  Gp(M, X)
BY DEF GpKept, Goes, GpSame, Gp, Strict, Apart, Held

LEMMA FpKeptThrough ==
  ASSUME NEW L, NEW M, NEW N, FpKept(L, M), FpKept(M, N)
  PROVE  FpKept(L, N)
BY DEF FpKept, Goes, FpSame

----------------------------------------------------------------------------
(* Taking, freeing, pushing and popping GP registers *)

\* alloc: a register nobody holds, or the panic.
LEMMA FreshRegister ==
  ASSUME NEW L, Free(L) # {}
  PROVE  Got(L) \in Pool /\ Got(L) \notin L.used
<1>1. Free(L) \in SUBSET Nat
  BY PoolAssumption DEF Free
<1>2. \E n \in Free(L) : \A m \in Free(L) : n <= m
  BY <1>1, LeastElement
<1>3. FreeReg(L) \in Free(L)
  BY <1>2 DEF FreeReg, Min
<1> QED
  BY <1>3 DEF Got, Free

LEMMA Emitted ==
  ASSUME NEW L, IsLow(L), NEW i
  PROVE  GpKept(L, Emit(L, i)) /\ FpKept(L, Emit(L, i)) /\ GpKept(L, EmitAll(L, i)) /\ FpKept(L, EmitAll(L, i))
BY DEF IsLow, Fields, GpKept, FpKept, Goes, GpSame, FpSame, Emit, EmitAll

\* M is L after alloc has taken register r for X.
Took(L, M, r, X) ==
  /\ FpKept(L, M)
  /\ M.vs = L.vs /\ M.lcache = L.lcache /\ M.cells = L.cells /\ M.ipins = L.ipins
  /\ M.panic \/ (r \in Pool /\ r \notin X /\ r \notin Held(L) /\ Strict(M, X \cup {r}))

LEMMA Taken ==
  ASSUME NEW L, IsLow(L), NEW X, Gp(L, X)
  PROVE  Took(L, Take(L), Got(L), X)
<1> DEFINE M == Take(L)
<1>1. CASE Free(L) = {}
  BY <1>1 DEF Take, Took, IsLow, Fields, FpKept, Goes, FpSame
<1>2. CASE Free(L) # {}
  <2>1. /\ FpKept(L, M) /\ M.vs = L.vs /\ M.lcache = L.lcache /\ M.cells = L.cells /\ M.ipins = L.ipins
        /\ M.used = L.used \cup {Got(L)} /\ M.panic = L.panic
    BY <1>2 DEF Take, Got, IsLow, Fields, FpKept, Goes, FpSame
  <2>2. Got(L) \in Pool /\ Got(L) \notin L.used
    BY <1>2, FreshRegister
  <2> HIDE DEF M
  <2>3. ~L.panic => Got(L) \notin Held(L) /\ Got(L) \notin X
    BY <2>2 DEF Gp, Strict
  <2>4. ~L.panic => Strict(M, X \cup {Got(L)})
    <3>1. Held(M) = Held(L) /\ (Apart(L) => Apart(M))
      BY <2>1 DEF Held, Apart
    <3> QED
      BY <2>1, <2>2, <2>3, <3>1 DEF Gp, Strict, GpRegs
  <2> QED
    BY <2>1, <2>2, <2>3, <2>4 DEF Took, M
<1> QED
  BY <1>1, <1>2

LEMMA Loaded ==
  ASSUME NEW L, IsLow(L), NEW X, Gp(L, X), NEW i
  PROVE  Took(L, Load(L, i), Got(L), X)
<1> DEFINE A == Take(L)  j == [rd |-> Got(L)] @@ i
<1>1. Took(L, A, Got(L), X)
  BY Taken
<1>2. GpKept(A, Emit(A, j)) /\ FpKept(A, Emit(A, j)) /\ IsLow(A)
  BY <1>1, Emitted DEF Took, FpKept, Goes
<1> HIDE DEF A, j
<1>3. Took(L, Emit(A, j), Got(L), X)
  BY <1>1, <1>2 DEF Took, GpKept, FpKept, Goes, GpSame, FpSame, Strict, Apart, Held
<1> QED
  BY <1>3 DEF A, j, Load

LEMMA Freed ==
  ASSUME NEW L, IsLow(L), NEW X, Gp(L, X), NEW r, L.panic \/ r \in X
  PROVE  FpKept(L, FreeR(L, r)) /\ FreeR(L, r).vs = L.vs /\ Gp(FreeR(L, r), X \ {r})
<1> DEFINE M == FreeR(L, r)
<1>1. /\ FpKept(L, M) /\ M.vs = L.vs /\ M.lcache = L.lcache /\ M.cells = L.cells /\ M.ipins = L.ipins
      /\ M.used = L.used \ {r} /\ M.panic = L.panic
  BY DEF FreeR, IsLow, Fields, FpKept, Goes, FpSame
<1> HIDE DEF M
<1>2. Held(M) = Held(L) /\ (Apart(L) => Apart(M))
  BY <1>1 DEF Held, Apart
<1>3. Gp(M, X \ {r})
  BY <1>1, <1>2 DEF Gp, Strict
<1> QED
  BY <1>1, <1>3 DEF M

\* A location in hand: a constant, or a register of X.
InHand(L, a, X) == L.panic \/ (a.k \in {"Reg", "Const"} /\ RegOf(a) \subseteq X)

LEMMA PushKeeps ==
  ASSUME NEW L, IsLow(L), NEW X, Gp(L, X), NEW a, InHand(L, a, X)
  PROVE  FpKept(L, Push(L, a)) /\ Gp(Push(L, a), X \ RegOf(a))
<1> DEFINE M == Push(L, a)
<1>1. /\ FpKept(L, M) /\ M.vs = Append(L.vs, a) /\ M.lcache = L.lcache /\ M.cells = L.cells
      /\ M.ipins = L.ipins /\ M.used = L.used /\ M.panic = L.panic
  BY DEF Push, IsLow, Fields, FpKept, Goes, FpSame
<1> HIDE DEF M
<1>2. ASSUME ~L.panic PROVE Strict(M, X \ RegOf(a))
  <2>1. Window(L.vs) /\ IsLoc(a) /\ RegOf(a) \cap Regs(L.vs) = {}
    BY <1>2 DEF Gp, Strict, Apart, Held, IsLoc, InHand
  <2>2. Grown(M.vs, L.vs, a)
    BY <1>1, <2>1, PushedLoc
  <2>3. Window(M.vs) /\ Regs(M.vs) = Regs(L.vs) \cup RegOf(a)
    BY <2>2 DEF Grown
  <2>4. Held(M) = Held(L) \cup RegOf(a)
    BY <1>1, <2>3 DEF Held
  <2>5. Apart(M)
    BY <1>1, <1>2, <2>3, <2>4 DEF Gp, Strict, Apart, Held, InHand
  <2> QED
    BY <1>1, <1>2, <2>4, <2>5 DEF Gp, Strict, InHand
<1>3. Gp(M, X \ RegOf(a))
  BY <1>1, <1>2 DEF Gp
<1> QED
  BY <1>1, <1>3 DEF M

LEMMA StillInHand ==
  ASSUME NEW L, NEW M, Goes(L, M), NEW X, NEW Y, X \subseteq Y, NEW a, InHand(L, a, X)
  PROVE  InHand(M, a, Y)
BY DEF InHand, Goes

\* t is s without its n top items.
IsCutOff(t, s, n) ==
  /\ Window(t) /\ Len(t) = Len(s) - n /\ \A k \in 1 .. Len(t) : t[k] = s[k]
  /\ Regs(s) = Regs(t) \cup UNION {RegOf(s[k]) : k \in Len(t) + 1 .. Len(s)}
  /\ \A k \in Len(t) + 1 .. Len(s) : RegOf(s[k]) \cap Regs(t) = {}

LEMMA CutWindow ==
  ASSUME NEW s, Window(s), NEW n \in 0 .. Len(s), NEW t, t = DropN(s, n)
  PROVE  IsCutOff(t, s, n)
<1>1. PICK S : s \in Seq(S)
  BY DEF Window
<1>2. Len(s) \in Nat /\ Len(s) - n \in 0 .. Len(s)
  BY <1>1, LenProperties
<1>3. t \in Seq(S) /\ Len(t) = Len(s) - n /\ \A k \in 1 .. Len(s) - n : t[k] = s[k]
  BY <1>1, <1>2, CutTo DEF DropN
<1> DEFINE p == [k \in 1 .. Len(t) |-> k]
<1>4. Picks(t, s, p)
  BY <1>2, <1>3 DEF Picks
<1>5. Window(t)
  BY <1>4, Picked
<1>6. 1 .. Len(s) = 1 .. Len(t) \cup (Len(t) + 1 .. Len(s))
  BY <1>2, <1>3
<1>7. Regs(t) = UNION {RegOf(s[k]) : k \in 1 .. Len(t)}
  BY <1>3 DEF Regs
<1>8. Regs(s) = Regs(t) \cup UNION {RegOf(s[k]) : k \in Len(t) + 1 .. Len(s)}
  BY <1>6, <1>7 DEF Regs
<1>9. ASSUME NEW k \in Len(t) + 1 .. Len(s) PROVE RegOf(s[k]) \cap Regs(t) = {}
  <2>1. \A j \in 1 .. Len(t) : j # k /\ j \in 1 .. Len(s) /\ k \in 1 .. Len(s)
    BY <1>2, <1>3
  <2>2. \A j \in 1 .. Len(t) : RegOf(s[k]) \cap RegOf(s[j]) = {}
    BY <2>1 DEF Window
  <2> QED
    BY <1>7, <2>2
<1> QED
  BY <1>3, <1>5, <1>8, <1>9 DEF IsCutOff

\* Popping one location takes it in hand, ...
LEMMA PopKeeps ==
  ASSUME NEW L, IsLow(L), NEW X, Gp(L, X), L.panic \/ Len(L.vs) >= 1
  PROVE  /\ FpKept(L, Pop(L, 1)) /\ Gp(Pop(L, 1), X \cup RegOf(Top(L)))
         /\ InHand(Pop(L, 1), Top(L), RegOf(Top(L)))
         /\ Pop(L, 1).lcache = L.lcache /\ Pop(L, 1).cells = L.cells
<1> DEFINE M == Pop(L, 1)  a == Top(L)
<1>1. /\ FpKept(L, M) /\ M.vs = DropN(L.vs, 1) /\ M.lcache = L.lcache /\ M.cells = L.cells
      /\ M.ipins = L.ipins /\ M.used = L.used /\ M.panic = L.panic
  BY DEF Pop, IsLow, Fields, FpKept, Goes, FpSame
<1> HIDE DEF M
<1>2. ASSUME ~L.panic
      PROVE  Strict(M, X \cup RegOf(a)) /\ a.k \in {"Reg", "Const"}
  <2>1. Window(L.vs) /\ Len(L.vs) \in Nat /\ 1 \in 0 .. Len(L.vs)
    BY <1>2, InWindow DEF Gp, Strict, Apart
  <2>2. IsCutOff(M.vs, L.vs, 1)
    BY <1>1, <2>1, CutWindow
  <2>3. a = L.vs[Len(L.vs)] /\ Len(M.vs) + 1 .. Len(L.vs) = {Len(L.vs)} /\ Len(L.vs) \in 1 .. Len(L.vs)
    BY <2>1, <2>2 DEF Top, Nth, IsCutOff
  <2>4. Regs(L.vs) = Regs(M.vs) \cup RegOf(a) /\ RegOf(a) \cap Regs(M.vs) = {} /\ IsLoc(a)
    BY <2>1, <2>2, <2>3 DEF Window, IsCutOff
  <2> HIDE DEF a
  <2>5. Held(L) = Held(M) \cup RegOf(a) /\ RegOf(a) \cap Held(M) = {}
    BY <1>1, <1>2, <2>4 DEF Held, Gp, Strict, Apart
  <2>6. Apart(M)
    BY <1>1, <1>2, <2>2, <2>4, <2>5 DEF Gp, Strict, Apart, IsCutOff
  <2> QED
    BY <1>1, <1>2, <2>4, <2>5, <2>6 DEF Gp, Strict, IsLoc
<1> QED
  BY <1>1, <1>2 DEF M, Gp, InHand

\* ... popping two takes both.
LEMMA PopTwoKeeps ==
  ASSUME NEW L, IsLow(L), Gp(L, {}), L.panic \/ Len(L.vs) >= 2,
         NEW a, a = Nth(L.vs, 1), NEW b, b = Nth(L.vs, 0)
  PROVE  /\ FpKept(L, Pop(L, 2)) /\ Gp(Pop(L, 2), RegOf(a) \cup RegOf(b))
         /\ InHand(Pop(L, 2), a, RegOf(a)) /\ InHand(Pop(L, 2), b, RegOf(b))
         /\ Pop(L, 2).panic \/ RegOf(a) \cap RegOf(b) = {}
<1> DEFINE M == Pop(L, 2)
<1>1. /\ FpKept(L, M) /\ M.vs = DropN(L.vs, 2) /\ M.lcache = L.lcache /\ M.cells = L.cells
      /\ M.ipins = L.ipins /\ M.used = L.used /\ M.panic = L.panic
  BY DEF Pop, IsLow, Fields, FpKept, Goes, FpSame
<1> HIDE DEF M
<1>2. ASSUME ~L.panic
      PROVE  /\ Strict(M, RegOf(a) \cup RegOf(b)) /\ a.k \in {"Reg", "Const"} /\ b.k \in {"Reg", "Const"}
             /\ RegOf(a) \cap RegOf(b) = {}
  <2>1. Window(L.vs) /\ Len(L.vs) \in Nat /\ 2 \in 0 .. Len(L.vs)
    BY <1>2, InWindow DEF Gp, Strict, Apart
  <2>2. IsCutOff(M.vs, L.vs, 2)
    BY <1>1, <2>1, CutWindow
  <2>3. /\ a = L.vs[Len(L.vs) - 1] /\ b = L.vs[Len(L.vs)]
        /\ Len(M.vs) + 1 .. Len(L.vs) = {Len(L.vs) - 1, Len(L.vs)}
        /\ Len(L.vs) \in 1 .. Len(L.vs) /\ Len(L.vs) - 1 \in 1 .. Len(L.vs) /\ Len(L.vs) - 1 # Len(L.vs)
    BY <2>1, <2>2 DEF Nth, IsCutOff
  <2>4. /\ Regs(L.vs) = Regs(M.vs) \cup RegOf(a) \cup RegOf(b) /\ IsLoc(a) /\ IsLoc(b)
        /\ RegOf(a) \cap Regs(M.vs) = {} /\ RegOf(b) \cap Regs(M.vs) = {} /\ RegOf(a) \cap RegOf(b) = {}
    <3>1. Regs(L.vs) = Regs(M.vs) \cup RegOf(a) \cup RegOf(b)
      BY <2>2, <2>3 DEF IsCutOff
    <3>2. RegOf(a) \cap Regs(M.vs) = {} /\ RegOf(b) \cap Regs(M.vs) = {}
      BY <2>2, <2>3 DEF IsCutOff
    <3>3. IsLoc(a) /\ IsLoc(b) /\ RegOf(a) \cap RegOf(b) = {}
      BY <2>1, <2>3 DEF Window
    <3> QED
      BY <3>1, <3>2, <3>3
  <2>5. /\ Held(L) = Held(M) \cup RegOf(a) \cup RegOf(b)
        /\ RegOf(a) \cap Held(M) = {} /\ RegOf(b) \cap Held(M) = {}
    BY <1>1, <1>2, <2>4 DEF Held, Gp, Strict, Apart
  <2>6. Apart(M)
    BY <1>1, <1>2, <2>2, <2>4, <2>5 DEF Gp, Strict, Apart, IsCutOff
  <2> QED
    BY <1>1, <1>2, <2>4, <2>5, <2>6 DEF Gp, Strict, IsLoc
<1> QED
  BY <1>1, <1>2 DEF M, Gp, InHand

\* to_reg: the location's register, or a fresh one.
LEMMA InRegister ==
  ASSUME NEW L, IsLow(L), NEW X, Gp(L, X), NEW a, InHand(L, a, X), NEW M, M = ToReg(L, a), NEW r, r = InReg(L, a)
  PROVE  /\ FpKept(L, M) /\ Gp(M, X \cup {r}) /\ RegOf(a) \subseteq {r}
         /\ M.panic \/ (r \in GpRegs /\ (RegOf(a) = {r} \/ r \notin X))
<1>1. CASE a.k = "Reg"
  <2>1. M = L /\ r = a.v /\ RegOf(a) = {r}
    BY <1>1 DEF ToReg, InReg, RegOf
  <2>2. L.panic \/ r \in X
    BY <1>1, <2>1 DEF InHand
  <2>3. Gp(L, X \cup {r})
    BY <2>2 DEF Gp, Strict
  <2> QED
    BY <2>1, <2>2, <2>3 DEF FpKept, Goes, FpSame, Gp, Strict
<1>2. CASE a.k # "Reg"
  <2>1. M = Load(L, [op |-> "movi", n |-> a.v]) /\ r = Got(L) /\ RegOf(a) = {}
    BY <1>2 DEF ToReg, InReg, RegOf
  <2>2. Took(L, M, r, X)
    BY <2>1, Loaded
  <2> QED
    BY <2>1, <2>2 DEF Took, Gp, Strict
<1> QED
  BY <1>1, <1>2

----------------------------------------------------------------------------
(* Arithmetic and comparisons *)

\* M is what a method should make of the GP registers of L, the FP half untouched.
Right(L, M) == FpKept(L, M) /\ Gp(M, {})

LEMMA EmitKeeps ==
  ASSUME NEW L, IsLow(L), NEW X, Gp(L, X), NEW i
  PROVE  FpKept(L, Emit(L, i)) /\ Gp(Emit(L, i), X) /\ FpKept(L, EmitAll(L, i)) /\ Gp(EmitAll(L, i), X)
BY Emitted, GpStays

LEMMA ConstPushed ==
  ASSUME NEW L, IsLow(L), Gp(L, {}), NEW n
  PROVE  Right(L, Push(L, Const(n)))
<1> DEFINE a == Const(n)
<1>1. InHand(L, a, {}) /\ RegOf(a) = {}
  BY DEF InHand, RegOf, Const
<1> HIDE DEF a
<1>2. FpKept(L, Push(L, a)) /\ Gp(Push(L, a), {})
  <2>1. FpKept(L, Push(L, a)) /\ Gp(Push(L, a), {} \ RegOf(a))
    BY <1>1, PushKeeps
  <2>2. {} \ RegOf(a) = {}
    OBVIOUS
  <2> QED
    BY <2>1, <2>2
<1> QED
  BY <1>2 DEF a, Right

\* A register in hand goes onto the window.
LEMMA RegPushed ==
  ASSUME NEW L, IsLow(L), NEW r, Gp(L, {r})
  PROVE  Right(L, PushReg(L, r))
<1> DEFINE a == Reg(r)
<1>1. InHand(L, a, {r}) /\ {r} \ RegOf(a) = {}
  BY DEF InHand, RegOf, Reg
<1> HIDE DEF a
<1>2. FpKept(L, Push(L, a)) /\ Gp(Push(L, a), {r} \ RegOf(a))
  BY <1>1, PushKeeps
<1> QED
  BY <1>1, <1>2 DEF a, Right, PushReg

\* The operand in a register, an instruction on it, the register pushed.
LEMMA OneRegRight ==
  ASSUME NEW L, IsLow(L), NEW a, Gp(L, RegOf(a)), InHand(L, a, RegOf(a)), NEW i
  PROVE  Right(L, PushReg(Emit(ToReg(L, a), i), InReg(L, a)))
<1> DEFINE A == ToReg(L, a)  r == InReg(L, a)  B == Emit(A, i)
<1>1. FpKept(L, A) /\ Gp(A, RegOf(a) \cup {r}) /\ RegOf(a) \subseteq {r}
  BY InRegister
<1>2. Gp(A, {r}) /\ IsLow(A)
  <2>1. RegOf(a) \cup {r} = {r}
    BY <1>1
  <2> QED
    BY <1>1, <2>1 DEF FpKept, Goes
<1> HIDE DEF A, r
<1>3. FpKept(A, B) /\ Gp(B, {r}) /\ IsLow(B)
  BY <1>2, EmitKeeps DEF FpKept, Goes
<1> HIDE DEF B
<1>4. Right(B, PushReg(B, r))
  BY <1>3, RegPushed
<1> QED
  BY <1>1, <1>3, <1>4, FpKeptThrough DEF Right, A, B, r

\* Two operands in registers: one keeps the result, the other is freed.
LEMMA TwoRegsRight ==
  ASSUME NEW L, IsLow(L), NEW a, NEW b, Gp(L, RegOf(a) \cup RegOf(b)),
         InHand(L, a, RegOf(a)), InHand(L, b, RegOf(b)), L.panic \/ RegOf(a) \cap RegOf(b) = {}, NEW i
  PROVE  Right(L, TwoRegs(L, a, b, i))
<1> DEFINE X == RegOf(a) \cup RegOf(b)
           A == ToReg(L, a)  ra == InReg(L, a)
           B == ToReg(A, b)  rb == InReg(A, b)
           C == Emit(B, [rd |-> ra, rn |-> ra, rm |-> rb] @@ i)
           D == FreeR(C, rb)
<1>1. Goes(L, L)
  BY DEF Goes
<1>2. InHand(L, a, X) /\ InHand(L, b, X)
  BY <1>1, StillInHand
<1> HIDE DEF X
<1>3. FpKept(L, A) /\ Gp(A, X \cup {ra}) /\ RegOf(a) \subseteq {ra} /\ (A.panic \/ RegOf(a) = {ra} \/ ra \notin X)
  BY <1>2, InRegister DEF X
<1>4. Goes(L, A) /\ IsLow(A) /\ InHand(A, b, X \cup {ra})
  BY <1>2, <1>3, StillInHand DEF FpKept, Goes
<1> HIDE DEF A, ra
<1>5. /\ FpKept(A, B) /\ Gp(B, (X \cup {ra}) \cup {rb}) /\ RegOf(b) \subseteq {rb}
      /\ (B.panic \/ RegOf(b) = {rb} \/ rb \notin X \cup {ra})
  BY <1>3, <1>4, InRegister
<1> HIDE DEF B, rb
<1>6. B.panic \/ ra # rb
  BY <1>3, <1>4, <1>5 DEF X, FpKept, Goes
<1>7. FpKept(B, C) /\ Gp(C, (X \cup {ra}) \cup {rb}) /\ IsLow(C)
  BY <1>5, EmitKeeps DEF FpKept, Goes
<1>8. C.panic \/ ra # rb
  BY <1>6, <1>7 DEF FpKept, Goes
<1> HIDE DEF C
<1>9. FpKept(C, D) /\ Gp(D, ((X \cup {ra}) \cup {rb}) \ {rb}) /\ IsLow(D)
  BY <1>7, Freed DEF FpKept, Goes
<1>10. Gp(D, {ra})
  <2>1. CASE D.panic
    BY <2>1 DEF Gp
  <2>2. CASE ~D.panic
    <3>1. ((X \cup {ra}) \cup {rb}) \ {rb} = {ra}
      BY <1>3, <1>5, <1>8, <1>9, <2>2 DEF X, FpKept, Goes
    <3> QED
      BY <1>9, <3>1
  <2> QED
    BY <2>1, <2>2
<1> HIDE DEF D
<1>11. Right(D, PushReg(D, ra))
  BY <1>9, <1>10, RegPushed
<1>12. FpKept(L, PushReg(D, ra))
  BY <1>3, <1>5, <1>7, <1>9, <1>11, FpKeptThrough DEF Right
<1> QED
  BY <1>11, <1>12 DEF Right, TwoRegs, A, B, C, D, ra, rb

\* A method may start: n operands are in the window.
Ready(L, n) == IsLow(L) /\ Gp(L, {}) /\ (L.panic \/ Len(L.vs) >= n)

LEMMA RightThrough ==
  ASSUME NEW L, NEW M, NEW N, FpKept(L, M), Right(M, N)
  PROVE  Right(L, N)
BY FpKeptThrough DEF Right

\* What the two-operand methods end in, ...
LEMMA TwoOperands ==
  ASSUME NEW L, Ready(L, 2), NEW a, a = Nth(L.vs, 1), NEW b, b = Nth(L.vs, 0), NEW P, P = Pop(L, 2)
  PROVE  /\ a.k = "Const" /\ b.k = "Const" => \A n : Right(L, Push(P, Const(n)))
         /\ b.k = "Const" => \A i : Right(L, PushReg(Emit(ToReg(P, a), i), InReg(P, a)))
         /\ a.k = "Const" => \A i : Right(L, PushReg(Emit(ToReg(P, b), i), InReg(P, b)))
         /\ b.k = "Const" => Right(L, Push(P, a))
         /\ b.k = "Const" /\ a.k # "Const" => \A i : Right(L, PushReg(Emit(P, i), a.v))
         /\ \A i : Right(L, TwoRegs(P, a, b, i))
<1>1. /\ IsLow(P) /\ FpKept(L, P) /\ Gp(P, RegOf(a) \cup RegOf(b))
      /\ InHand(P, a, RegOf(a)) /\ InHand(P, b, RegOf(b))
      /\ P.panic \/ RegOf(a) \cap RegOf(b) = {}
  BY PopTwoKeeps DEF Ready, FpKept, Goes
<1>2. ASSUME a.k = "Const" PROVE Gp(P, RegOf(b))
  <2>1. RegOf(a) \cup RegOf(b) = RegOf(b)
    BY <1>2 DEF RegOf
  <2> QED
    BY <1>1, <2>1
<1>3. ASSUME b.k = "Const" PROVE Gp(P, RegOf(a))
  <2>1. RegOf(a) \cup RegOf(b) = RegOf(a)
    BY <1>3 DEF RegOf
  <2> QED
    BY <1>1, <2>1
<1>4. ASSUME a.k = "Const", b.k = "Const", NEW n PROVE Right(L, Push(P, Const(n)))
  <2>1. Gp(P, {})
    BY <1>2, <1>4 DEF RegOf
  <2> QED
    BY <1>1, <2>1, ConstPushed, RightThrough
<1>5. ASSUME b.k = "Const", NEW i PROVE Right(L, PushReg(Emit(ToReg(P, a), i), InReg(P, a)))
  <2>1. Right(P, PushReg(Emit(ToReg(P, a), i), InReg(P, a)))
    BY <1>1, <1>3, <1>5, OneRegRight
  <2> QED
    BY <1>1, <2>1, RightThrough
<1>6. ASSUME a.k = "Const", NEW i PROVE Right(L, PushReg(Emit(ToReg(P, b), i), InReg(P, b)))
  <2>1. Right(P, PushReg(Emit(ToReg(P, b), i), InReg(P, b)))
    BY <1>1, <1>2, <1>6, OneRegRight
  <2> QED
    BY <1>1, <2>1, RightThrough
<1>7. ASSUME b.k = "Const" PROVE Right(L, Push(P, a))
  <2>1. FpKept(P, Push(P, a)) /\ Gp(Push(P, a), RegOf(a) \ RegOf(a))
    BY <1>1, <1>3, <1>7, PushKeeps
  <2>2. RegOf(a) \ RegOf(a) = {}
    OBVIOUS
  <2>3. Right(P, Push(P, a))
    BY <2>1, <2>2 DEF Right
  <2> QED
    BY <1>1, <2>3, RightThrough
<1>8. ASSUME b.k = "Const", a.k # "Const", NEW i PROVE Right(L, PushReg(Emit(P, i), a.v))
  <2>1. Gp(P, {a.v})
    BY <1>1, <1>3, <1>8 DEF InHand, RegOf, Gp
  <2>2. FpKept(P, Emit(P, i)) /\ Gp(Emit(P, i), {a.v}) /\ IsLow(Emit(P, i))
    BY <1>1, <2>1, EmitKeeps DEF FpKept, Goes
  <2>3. Right(Emit(P, i), PushReg(Emit(P, i), a.v))
    BY <2>2, RegPushed
  <2> QED
    BY <1>1, <2>2, <2>3, RightThrough
<1>9. ASSUME NEW i PROVE Right(L, TwoRegs(P, a, b, i))
  <2>1. Right(P, TwoRegs(P, a, b, i))
    BY <1>1, TwoRegsRight
  <2> QED
    BY <1>1, <2>1, RightThrough
<1> QED
  BY <1>4, <1>5, <1>6, <1>7, <1>8, <1>9

\* ... and the one-operand methods.
LEMMA OneOperand ==
  ASSUME NEW L, Ready(L, 1), NEW a, a = Top(L), NEW P, P = Pop(L, 1)
  PROVE  /\ IsLow(P) /\ FpKept(L, P) /\ Gp(P, RegOf(a)) /\ InHand(P, a, RegOf(a))
         /\ a.k = "Const" => \A n : Right(L, Push(P, Const(n)))
         /\ \A i : Right(L, PushReg(Emit(ToReg(P, a), i), InReg(P, a)))
         /\ \A i : Right(L, Emit(L, i))
         /\ Right(L, L)
<1>1. IsLow(P) /\ FpKept(L, P) /\ Gp(P, {} \cup RegOf(a)) /\ InHand(P, a, RegOf(a))
  BY PopKeeps DEF Ready, FpKept, Goes
<1>2. {} \cup RegOf(a) = RegOf(a)
  OBVIOUS
<1>3. Gp(P, RegOf(a))
  BY <1>1, <1>2
<1>4. ASSUME a.k = "Const", NEW n PROVE Right(L, Push(P, Const(n)))
  <2>1. Gp(P, {})
    BY <1>3, <1>4 DEF RegOf
  <2> QED
    BY <1>1, <2>1, ConstPushed, RightThrough
<1>5. ASSUME NEW i PROVE Right(L, PushReg(Emit(ToReg(P, a), i), InReg(P, a)))
  <2>1. Right(P, PushReg(Emit(ToReg(P, a), i), InReg(P, a)))
    BY <1>1, <1>3, OneRegRight
  <2> QED
    BY <1>1, <2>1, RightThrough
<1>6. \A i : Right(L, Emit(L, i))
  BY EmitKeeps DEF Ready, Right
<1>7. Right(L, L)
  BY DEF Ready, Right, FpKept, Goes, FpSame
<1> QED
  BY <1>1, <1>3, <1>4, <1>5, <1>6, <1>7

LEMMA BinRight ==
  ASSUME NEW L, Ready(L, 2), NEW f
  PROVE  Right(L, Bin(L, f))
BY TwoOperands DEF Bin, Both, ImmBinTo

LEMMA ShiftRight ==
  ASSUME NEW L, Ready(L, 2), NEW f
  PROVE  Right(L, Shift(L, f))
BY TwoOperands DEF Shift, Both

LEMMA CmpRight ==
  ASSUME NEW L, Ready(L, 2), NEW c
  PROVE  Right(L, CmpOp(L, c))
BY TwoOperands DEF CmpOp, Both, ImmCmp

LEMMA SelRight ==
  ASSUME NEW L, Ready(L, 2), NEW s
  PROVE  Right(L, SelOp(L, s))
BY TwoOperands DEF SelOp, Both

LEMMA InPlaceRight ==
  ASSUME NEW L, Ready(L, 1), NEW value, NEW i
  PROVE  Right(L, InPlace(L, value, i))
BY OneOperand DEF InPlace

LEMMA ImmShiftRight ==
  ASSUME NEW L, Ready(L, 1), NEW f, NEW n
  PROVE  Right(L, ImmShift(L, f, n))
BY InPlaceRight, OneOperand DEF ImmShift

LEMMA LoadThroughRight ==
  ASSUME NEW L, Ready(L, 1), NEW i
  PROVE  Right(L, LoadThrough(L, i))
BY OneOperand DEF LoadThrough

\* A register that is taken for one instruction and given back.
LEMMA Borrowed ==
  ASSUME NEW L, IsLow(L), Gp(L, {}), NEW i, NEW j
  PROVE  Right(L, FreeR(Emit(Load(L, i), j), Got(L)))
<1> DEFINE A == Load(L, i)  r == Got(L)  B == Emit(A, j)
<1>1. FpKept(L, A) /\ Gp(A, {r}) /\ IsLow(A)
  <2>1. Took(L, A, r, {})
    BY Loaded
  <2>2. {} \cup {r} = {r}
    OBVIOUS
  <2> HIDE DEF A, r
  <2> QED
    BY <2>1, <2>2 DEF Took, Gp, FpKept, Goes
<1> HIDE DEF A, r
<1>2. FpKept(A, B) /\ Gp(B, {r}) /\ IsLow(B)
  BY <1>1, EmitKeeps DEF FpKept, Goes
<1> HIDE DEF B
<1>3. FpKept(B, FreeR(B, r)) /\ Gp(FreeR(B, r), {r} \ {r})
  BY <1>2, Freed
<1>4. {r} \ {r} = {}
  OBVIOUS
<1>5. Right(B, FreeR(B, r))
  BY <1>3, <1>4 DEF Right
<1> QED
  BY <1>1, <1>2, <1>5, RightThrough DEF A, B, r

LEMMA ImmBinRight ==
  ASSUME NEW L, Ready(L, 1), NEW f, NEW n
  PROVE  Right(L, ImmBin(L, f, n))
<1>1. IsLow(L) /\ Gp(L, {})
  BY DEF Ready
<1>2. Right(L, FreeR(Emit(Load(L, [op |-> "movi", n |-> n]),
                          [op |-> "alu", f |-> f, rd |-> Top(L).v, rn |-> Top(L).v, rm |-> Got(L)]), Got(L)))
  BY <1>1, Borrowed
<1> QED
  BY <1>2, OneOperand DEF ImmBin, ImmBinTo

LEMMA DupBinRight ==
  ASSUME NEW L, Ready(L, 1), NEW f
  PROVE  Right(L, DupBin(L, f))
<1> DEFINE a == Top(L)  P == Pop(L, 1)
<1>1. CASE a.k = "Reg" /\ f \in {"Sub", "Xor"}
  <2>1. IsLow(P) /\ FpKept(L, P) /\ Gp(P, {a.v})
    BY <1>1, OneOperand DEF RegOf
  <2> HIDE DEF P
  <2>2. FpKept(P, FreeR(P, a.v)) /\ Gp(FreeR(P, a.v), {a.v} \ {a.v}) /\ {a.v} \ {a.v} = {}
    BY <2>1, Freed
  <2>3. FpKept(P, FreeR(P, a.v)) /\ Gp(FreeR(P, a.v), {}) /\ IsLow(FreeR(P, a.v))
    BY <2>2 DEF FpKept, Goes
  <2>4. Right(FreeR(P, a.v), Push(FreeR(P, a.v), Const(0)))
    BY <2>3, ConstPushed
  <2>5. Right(L, Push(FreeR(P, a.v), Const(0)))
    BY <2>1, <2>3, <2>4, RightThrough
  <2> QED
    BY <1>1, <2>5 DEF DupBin, FreeLoc, P
<1>2. CASE ~(a.k = "Reg" /\ f \in {"Sub", "Xor"})
  BY <1>2, InPlaceRight, OneOperand DEF DupBin
<1> QED
  BY <1>1, <1>2

----------------------------------------------------------------------------
(* Settling: the state it ends in does not depend on what was deferred *)

GpSettled(L, M) ==
  /\ M.vs = <<Reg(TOS)>> /\ M.used = {TOS} \cup Range(L.ipins) /\ M.lcache = <<>> /\ M.cells = <<>>
  /\ M.ipins = L.ipins
\* What a method of the FP half may do to the GP half: settle it.
GpRest(L, M) == Goes(L, M) /\ (M.panic \/ GpSame(L, M) \/ GpSettled(L, M))

LEMMA GpRestThrough ==
  ASSUME NEW L, NEW M, NEW N, GpRest(L, M), GpRest(M, N)
  PROVE  GpRest(L, N)
BY DEF GpRest, Goes, GpSame, GpSettled

LEMMA GpKeptRests ==
  ASSUME NEW L, NEW M, GpKept(L, M)
  PROVE  GpRest(L, M)
BY DEF GpRest, GpKept

LEMMA SettledStrict ==
  ASSUME NEW L, NEW M, GpSettled(L, M), NEW X, Strict(L, X)
  PROVE  Strict(M, {}) /\ Held(M) = {TOS} \cup Range(L.ipins)
<1>1. Window(<<Reg(TOS)>>) /\ Regs(<<Reg(TOS)>>) = {TOS}
  <2>1. Reg(TOS).k = "Reg" /\ Reg(TOS).v = TOS
    BY DEF Reg
  <2> DEFINE a == Reg(TOS)
  <2>2. IsLoc(a) /\ RegOf(a) = {TOS}
    BY <2>1 DEF IsLoc, RegOf, GpRegs
  <2> HIDE DEF a
  <2>3. <<a>> \in Seq({a}) /\ Len(<<a>>) = 1 /\ <<a>>[1] = a
    OBVIOUS
  <2> DEFINE s == <<a>>
  <2> HIDE DEF s
  <2>4. s \in Seq({a}) /\ Len(s) = 1 /\ s[1] = a
    BY <2>3 DEF s
  <2>5. Window(s) /\ Regs(s) = {TOS}
    BY <2>2, <2>4 DEF Window, Regs
  <2> QED
    BY <2>5 DEF s, a
<1>2. CacheRegs(M.lcache) = {} /\ Range(M.cells) = {} /\ OneEach(M.lcache) /\ IsInjective(M.cells)
  BY DEF GpSettled, CacheRegs, Range, OneEach, IsInjective
<1>3. Held(M) = {TOS} \cup Range(L.ipins)
  BY <1>1, <1>2 DEF Held, GpSettled
<1>4. TOS \notin Pool
  BY PoolAssumption
<1>5. Apart(M)
  BY <1>1, <1>2, <1>3, <1>4 DEF Apart, GpSettled, Strict, GpRegs
<1> QED
  BY <1>3, <1>4, <1>5 DEF Strict, GpSettled

LEMMA RestKeeps ==
  ASSUME NEW L, NEW M, Gp(L, {}), GpRest(L, M)
  PROVE  Gp(M, {})
<1>1. CASE M.panic
  BY <1>1 DEF Gp
<1>2. CASE GpSame(L, M) /\ ~M.panic
  BY <1>2, GpStays DEF GpRest, GpKept
<1>3. CASE GpSettled(L, M) /\ ~M.panic
  BY <1>3, SettledStrict DEF Gp, GpRest, Goes
<1> QED
  BY <1>1, <1>2, <1>3 DEF GpRest

\* A register in hand is given back, whether or not it was settled away meanwhile.
LEMMA RestFreed ==
  ASSUME NEW L, NEW M, NEW r, Gp(L, {r}), IsLow(L), GpRest(L, M)
  PROVE  FpKept(M, FreeR(M, r)) /\ Gp(FreeR(M, r), {})
<1> DEFINE N == FreeR(M, r)
<1>1. IsLow(M) /\ (L.panic => M.panic)
  BY DEF GpRest, Goes
<1>2. /\ FpKept(M, N) /\ N.vs = M.vs /\ N.lcache = M.lcache /\ N.cells = M.cells /\ N.ipins = M.ipins
      /\ N.used = M.used \ {r} /\ N.panic = M.panic
  BY <1>1 DEF FreeR, IsLow, Fields, FpKept, Goes, FpSame
<1> HIDE DEF N
<1>3. ASSUME M.panic PROVE Gp(N, {})
  BY <1>2, <1>3 DEF Gp
<1>4. ASSUME GpSame(L, M), ~M.panic PROVE Gp(N, {})
  <2>1. Strict(M, {r})
    BY <1>1, <1>4, GpStays DEF GpKept, Goes, Gp
  <2>2. Held(N) = Held(M) /\ Apart(N)
    BY <1>2, <2>1 DEF Held, Apart, Strict
  <2> QED
    BY <1>2, <2>1, <2>2 DEF Strict, Gp
<1>5. ASSUME GpSettled(L, M), ~M.panic PROVE Gp(N, {})
  <2>1. Strict(L, {r})
    BY <1>1, <1>5 DEF Gp
  <2>2. Strict(M, {}) /\ Held(M) = {TOS} \cup Range(L.ipins)
    BY <1>5, <2>1, SettledStrict
  <2>3. Held(N) = Held(M) /\ Apart(N)
    BY <1>2, <2>2 DEF Held, Apart, Strict
  <2>4. r \notin Range(L.ipins) /\ TOS \notin Pool
    BY <2>1, PoolAssumption DEF Strict, Held
  <2>5. N.used \cap Pool = Held(N) \cap Pool
    BY <1>2, <2>2, <2>3, <2>4 DEF Strict
  <2> QED
    BY <1>2, <2>3, <2>5 DEF Strict, Gp
<1> QED
  BY <1>2, <1>3, <1>4, <1>5 DEF N, GpRest

\* One turn of ensure's loop.
LEMMA PullRight ==
  ASSUME NEW L, IsLow(L), Gp(L, {})
  PROVE  Right(L, Pull(L)) /\ (Pull(L).panic \/ Len(Pull(L).vs) = Len(L.vs) + 1)
<1> DEFINE i == [op |-> "ldsp", off |-> L.consumed]
           A == Load(L, i)  r == Got(L)  a == Reg(r)  M == Pull(L)
<1>1. Took(L, A, r, {})
  BY Loaded
<1> HIDE DEF i, A, r
<1>2. IsLow(A)
  BY <1>1 DEF Took, FpKept, Goes
<1>3. /\ FpKept(A, M) /\ M.vs = <<a>> \o A.vs /\ M.lcache = A.lcache /\ M.cells = A.cells
      /\ M.ipins = A.ipins /\ M.used = A.used /\ M.panic = A.panic
  BY <1>2 DEF Pull, A, i, r, IsLow, Fields, FpKept, Goes, FpSame
<1>4. RegOf(a) = {r} /\ (r \in Pool => IsLoc(a))
  BY DEF RegOf, Reg, IsLoc, GpRegs
<1> HIDE DEF M, a
<1>5. ASSUME ~M.panic PROVE Strict(M, {}) /\ Len(M.vs) = Len(L.vs) + 1
  <2>1. r \in Pool /\ r \notin Held(L) /\ Strict(A, {} \cup {r})
    BY <1>1, <1>3, <1>5 DEF Took
  <2>2. Window(A.vs) /\ IsLoc(a) /\ RegOf(a) \cap Regs(A.vs) = {}
    BY <1>1, <1>4, <2>1 DEF Took, Strict, Apart, Held
  <2>3. Window(M.vs) /\ Regs(M.vs) = Regs(A.vs) \cup RegOf(a) /\ Len(M.vs) = Len(A.vs) + 1
    <3>1. Deepened(M.vs, A.vs, a)
      BY <1>3, <2>2, PulledLoc
    <3> QED
      BY <3>1 DEF Deepened
  <2>4. Held(M) = Held(A) \cup {r}
    BY <1>3, <1>4, <2>3 DEF Held
  <2>5. Apart(M)
    BY <1>3, <1>4, <2>1, <2>3, <2>4 DEF Strict, Apart, Held, GpRegs
  <2> QED
    BY <1>1, <1>3, <2>1, <2>3, <2>4, <2>5 DEF Strict, Took
<1>6. FpKept(L, M)
  BY <1>1, <1>3, FpKeptThrough DEF Took
<1> QED
  BY <1>5, <1>6 DEF M, Right, Gp

\* settle_data: whatever the state, it ends settled, unless it panics.
LEMMA SettledIs ==
  ASSUME NEW L, IsLow(L), NEW M, M = SettleData(L)
  PROVE  FpKept(L, M) /\ (M.panic \/ GpSettled(L, M)) /\ (Len(L.vs) \in Nat => Len(M.vs) \in Nat)
<1> DEFINE A == ClearCells(L)  B == SpillLocals(A)  C == Filled(B)  D == EmitAll(C, UnwindCode(C))
<1>1. FpKept(L, A) /\ A.vs = L.vs /\ A.ipins = L.ipins /\ A.cells = <<>>
  BY DEF ClearCells, IsLow, Fields, FpKept, Goes, FpSame
<1> HIDE DEF A
<1>2. FpKept(A, B) /\ B.vs = A.vs /\ B.ipins = A.ipins /\ B.lcache = <<>> /\ B.cells = A.cells
  <2> DEFINE E == EmitAll(A, Spills(A.lcache, "stlp"))
  <2>1. IsLow(A)
    BY <1>1 DEF FpKept, Goes
  <2>2. GpKept(A, E) /\ FpKept(A, E)
    BY <2>1, Emitted
  <2> HIDE DEF E
  <2>3. FpKept(E, B) /\ B.vs = E.vs /\ B.ipins = E.ipins /\ B.lcache = <<>> /\ B.cells = E.cells
    <3>1. IsLow(E)
      BY <2>2 DEF FpKept, Goes
    <3> QED
      BY <3>1 DEF SpillLocals, E, IsLow, Fields, FpKept, Goes, FpSame
  <2> QED
    BY <2>2, <2>3, FpKeptThrough DEF GpKept, GpSame
<1> HIDE DEF B
<1>3. FpKept(B, C) /\ C.ipins = B.ipins /\ C.lcache = B.lcache /\ C.cells = B.cells /\ (Len(B.vs) \in Nat => Len(C.vs) \in Nat)
  <2>1. CASE B.vs # <<>>
    BY <1>2, <2>1 DEF Filled, FpKept, Goes, FpSame
  <2>2. CASE B.vs = <<>>
    <3> DEFINE i == [op |-> "ldsp", off |-> B.consumed]  E == Take(B)  F == Load(B, i)
    <3>1. IsLow(B)
      BY <1>2 DEF FpKept, Goes
    <3>2. FpKept(B, E) /\ E.vs = B.vs /\ E.ipins = B.ipins /\ E.lcache = B.lcache /\ E.cells = B.cells
      BY <3>1 DEF Take, IsLow, Fields, FpKept, Goes, FpSame
    <3>3. FpKept(E, F) /\ GpKept(E, F)
      <4>1. IsLow(E)
        BY <3>2 DEF FpKept, Goes
      <4> HIDE DEF E
      <4>2. F = Emit(E, [rd |-> Got(B)] @@ i)
        BY DEF F, E, Load
      <4> HIDE DEF F, i
      <4> QED
        BY <4>1, <4>2, Emitted
    <3> HIDE DEF E
    <3>4. F.vs = B.vs /\ F.ipins = B.ipins /\ F.lcache = B.lcache /\ F.cells = B.cells /\ FpKept(B, F) /\ IsLow(F)
      BY <3>2, <3>3, FpKeptThrough DEF GpKept, GpSame, FpKept, Goes
    <3> HIDE DEF F
    <3>5. FpKept(F, C) /\ C.ipins = F.ipins /\ C.lcache = F.lcache /\ C.cells = F.cells /\ C.vs = <<Reg(Got(B))>> \o F.vs
      BY <2>2, <3>4 DEF Filled, Pull, F, i, IsLow, Fields, FpKept, Goes, FpSame
    <3>6. Len(C.vs) \in Nat
      BY <2>2, <3>4, <3>5
    <3> QED
      BY <3>4, <3>5, <3>6, FpKeptThrough
  <2> QED
    BY <2>1, <2>2
<1> HIDE DEF C
<1>4. FpKept(L, C) /\ IsLow(C) /\ C.ipins = L.ipins /\ C.lcache = <<>> /\ C.cells = <<>> /\ (Len(L.vs) \in Nat => Len(C.vs) \in Nat)
  BY <1>1, <1>2, <1>3, FpKeptThrough DEF FpKept, Goes
<1>5. M = Unwind(C)
  BY DEF SettleData, A, B, C
<1>6. CASE Below(C, "Const") # <<>> /\ Scratch(C) = {}
  <2>1. M = [C EXCEPT !.panic = TRUE]
    BY <1>5, <1>6 DEF Unwind
  <2>2. FpKept(C, M) /\ M.panic /\ M.vs = C.vs
    BY <1>4, <2>1 DEF IsLow, Fields, FpKept, Goes, FpSame
  <2> QED
    BY <1>4, <2>2, FpKeptThrough
<1>7. CASE ~(Below(C, "Const") # <<>> /\ Scratch(C) = {})
  <2>1. M = Canonical(D)
    BY <1>5, <1>7 DEF Unwind
  <2>2. FpKept(C, D) /\ GpKept(C, D)
    BY <1>4, Emitted
  <2>3. IsLow(D)
    BY <2>2 DEF FpKept, Goes
  <2> HIDE DEF D
  <2>4. FpKept(D, M) /\ GpSettled(L, M)
    <3>1. FpKept(D, M)
      BY <2>1, <2>3 DEF Canonical, IsLow, Fields, FpKept, Goes, FpSame
    <3>2. D.lcache = <<>> /\ D.cells = <<>> /\ D.ipins = L.ipins
      BY <1>4, <2>2 DEF GpKept, GpSame
    <3>3. GpSettled(L, M)
      BY <2>1, <2>3, <3>2 DEF Canonical, IsLow, Fields, GpSettled
    <3> QED
      BY <3>1, <3>3
  <2>5. Len(M.vs) \in Nat
    BY <2>4 DEF GpSettled
  <2> QED
    BY <1>4, <2>2, <2>4, <2>5, FpKeptThrough
<1> QED
  BY <1>6, <1>7

----------------------------------------------------------------------------
(* The two loops: ensure's and spill_fvars' *)

LowStep(kind, A, x) == IF kind = "pull" THEN Pull(A) ELSE SpillFvar(A, x)

\* f goes through the sets of keys, the one that c picks last.
IsSteps(f, kind, L, S, c) ==
  f = [s \in SUBSET S |-> IF s = {} THEN L ELSE LowStep(kind, f[s \ {c[s]}], c[s])]

LEMMA StepsExist ==
  ASSUME NEW kind, NEW L, NEW S, IsFiniteSet(S), NEW c, \A s \in SUBSET S : s # {} => c[s] \in s
  PROVE  \E f : IsSteps(f, kind, L, S, c)
<1> DEFINE Turn(f, s) == IF s = {} THEN L ELSE LowStep(kind, f[s \ {c[s]}], c[s])
           Good(f, m) == \A s \in SUBSET S : Cardinality(s) <= m => f[s] = Turn(f, s)
           n == Cardinality(S)
           Done == {m \in 0 .. n : \E f : Good(f, m)}
<1>1. n \in Nat /\ \A s \in SUBSET S : /\ Cardinality(s) \in Nat /\ Cardinality(s) <= n
                                       /\ Cardinality(s) = 0 => s = {}
  BY FS_CardinalityType, FS_Subset, FS_EmptySet
<1>2. \A s \in SUBSET S : s # {} => s \ {c[s]} \in SUBSET S /\ Cardinality(s \ {c[s]}) = Cardinality(s) - 1
  <2> SUFFICES ASSUME NEW s \in SUBSET S, s # {} PROVE Cardinality(s \ {c[s]}) = Cardinality(s) - 1
    OBVIOUS
  <2> QED
    BY FS_RemoveElement, FS_Subset
<1> HIDE DEF n
<1>3. 0 \in Done
  <2>1. Good([s \in SUBSET S |-> L], 0)
    BY <1>1
  <2> HIDE DEF Good
  <2> QED
    BY <1>1, <2>1
<1>4. ASSUME NEW m \in 0 .. n - 1, m \in Done PROVE m + 1 \in Done
  <2>1. PICK f : Good(f, m)
    BY <1>4
  <2> DEFINE g == [s \in SUBSET S |-> Turn(f, s)]
  <2>2. ASSUME NEW s \in SUBSET S, Cardinality(s) <= m + 1 PROVE g[s] = Turn(g, s)
    <3>1. CASE s = {}
      BY <3>1
    <3>2. CASE s # {}
      <4> DEFINE r == s \ {c[s]}
      <4>1. r \in SUBSET S /\ Cardinality(r) <= m
        BY <1>1, <1>2, <1>4, <2>2, <3>2
      <4>2. g[r] = Turn(f, r) /\ f[r] = Turn(f, r)
        <5> HIDE DEF Turn, r
        <5> QED
          BY <2>1, <4>1
      <4>3. g[s] = LowStep(kind, f[r], c[s])
        BY <3>2
      <4> HIDE DEF g
      <4> QED
        BY <3>2, <4>2, <4>3
    <3> QED
      BY <3>1, <3>2
  <2>3. Good(g, m + 1)
    <3> HIDE DEF g, Turn
    <3> QED
      BY <2>2
  <2> HIDE DEF Good, g
  <2>4. m + 1 \in 0 .. n
    BY <1>1
  <2> QED
    BY <2>3, <2>4
<1>5. n \in Done
  <2> HIDE DEF Done
  <2>1. \A m \in 0 .. n : m \in Done
    BY <1>1, <1>3, <1>4, UpTo
  <2> QED
    BY <1>1, <2>1
<1>6. PICK f : Good(f, n)
  BY <1>5
<1> DEFINE g == [s \in SUBSET S |-> f[s]]
<1>7. \A s \in SUBSET S : g[s] = Turn(g, s)
  <2> SUFFICES ASSUME NEW s \in SUBSET S PROVE g[s] = Turn(g, s)
    OBVIOUS
  <2>1. f[s] = Turn(f, s)
    <3> HIDE DEF Turn
    <3> QED
      BY <1>1, <1>6
  <2>2. s # {} => g[s \ {c[s]}] = f[s \ {c[s]}]
    OBVIOUS
  <2>3. g[s] = f[s]
    OBVIOUS
  <2> HIDE DEF g
  <2> QED
    BY <2>1, <2>2, <2>3
<1>8. g = [s \in SUBSET S |-> g[s]]
  OBVIOUS
<1> HIDE DEF g
<1>9. g = [s \in SUBSET S |-> Turn(g, s)]
  <2> HIDE DEF Turn
  <2> QED
    BY <1>7, <1>8
<1>10. IsSteps(g, kind, L, S, c)
  BY <1>9 DEF IsSteps
<1> QED
  BY <1>10

\* ensure's loop, turn by turn.
LEMMA EnsureTurns ==
  ASSUME NEW L, Len(L.vs) \in Nat, NEW n \in Nat
  PROVE  \/ Len(L.vs) >= n /\ Ensure(L, n) = L
         \/ /\ n - Len(L.vs) \in Nat
            /\ \E g : /\ g[0] = L /\ Ensure(L, n) = g[n - Len(L.vs)]
                      /\ \A k \in 0 .. n - Len(L.vs) - 1 : g[k + 1] = Pull(g[k])
<1> DEFINE m == n - Len(L.vs)
           list == [k \in 1 .. m |-> k]
           S == 1 .. m
           c == [s \in SUBSET S |-> Max(s)]
           Fold(it) == it = [s \in SUBSET DOMAIN list |-> IF s = {} THEN L ELSE Pull(it[s \ {Max(s)}])]
           fold == CHOOSE it : Fold(it)
<1>1. m \in Int /\ DOMAIN list = S /\ IsFiniteSet(S)
  BY FS_Interval
<1>2. Ensure(L, n) = fold[S]
  <2>1. Ensure(L, n) = fold[DOMAIN list]
    BY Zenon DEF Ensure, FoldLeft, MapThenFoldSet
  <2> QED
    BY <1>1, <2>1, Zenon
<1> HIDE DEF list, m
<1>3. \A s \in SUBSET S : s # {} => Max(s) \in s /\ \A i \in s : i <= Max(s)
  <2> SUFFICES ASSUME NEW s \in SUBSET S, s # {} PROVE Max(s) \in s /\ \A i \in s : i <= Max(s)
    OBVIOUS
  <2>1. PICK i \in s : TRUE
    OBVIOUS
  <2>2. s \in SUBSET Nat /\ m \in Nat
    BY <1>1, <2>1
  <2>3. \A j \in s : j <= m
    BY <1>1
  <2> QED
    BY <2>2, <2>3, MaxIs
<1>4. PICK f : IsSteps(f, "pull", L, S, c)
  <2>1. \A s \in SUBSET S : s # {} => c[s] \in s
    BY <1>3
  <2> HIDE DEF c, S
  <2> QED
    BY <1>1, <2>1, StepsExist
<1>5. Fold(f)
  <2>1. f = [s \in SUBSET S |-> IF s = {} THEN L ELSE Pull(f[s \ {Max(s)}])]
    BY <1>4 DEF LowStep, IsSteps
  <2> QED
    BY <1>1, <2>1, Zenon
<1>6. Fold(fold)
  <2> HIDE DEF Fold
  <2> QED
    BY <1>5, Zenon
<1> HIDE DEF fold
<1>7. fold[{}] = L /\ \A s \in SUBSET S : s # {} => fold[s] = Pull(fold[s \ {Max(s)}])
  <2>1. fold = [s \in SUBSET S |-> IF s = {} THEN L ELSE Pull(fold[s \ {Max(s)}])]
    BY <1>1, <1>6, Zenon
  <2>2. {} \in SUBSET S
    OBVIOUS
  <2> QED
    BY <2>1, <2>2, Zenon
<1>8. CASE m \in Nat
  <2> DEFINE g == [k \in 0 .. m |-> fold[1 .. k]]
  <2>1. g[0] = L /\ g[m] = fold[S]
    <3>1. 1 .. 0 = {} /\ 0 \in 0 .. m /\ m \in 0 .. m
      BY <1>8
    <3> QED
      BY <1>7, <3>1
  <2>2. ASSUME NEW k \in 0 .. m - 1 PROVE g[k + 1] = Pull(g[k])
    <3> DEFINE s == 1 .. k + 1
    <3>1. s \in SUBSET S /\ s # {} /\ k + 1 \in 0 .. m /\ k \in 0 .. m /\ k + 1 \in s /\ k \in Nat
      <4>1. k \in Nat /\ k + 1 \in 0 .. m /\ k \in 0 .. m /\ k + 1 \in s
        BY <1>8
      <4>2. s \in SUBSET S
        BY <1>8
      <4> QED
        BY <4>1, <4>2
    <3>2. Max(s) \in s /\ k + 1 <= Max(s)
      <4> HIDE DEF s, S
      <4> QED
        BY <1>3, <3>1
    <3>3. Max(s) = k + 1
      BY <3>1, <3>2
    <3>4. s \ {k + 1} = 1 .. k
      BY <3>1
    <3>5. fold[s] = Pull(fold[1 .. k])
      <4> HIDE DEF s, S
      <4> QED
        BY <1>7, <3>1, <3>3, <3>4
    <3> QED
      BY <3>1, <3>5
  <2> HIDE DEF g
  <2> QED
    BY <1>2, <1>8, <2>1, <2>2 DEF m
<1>9. CASE m \notin Nat
  <2>1. S = {} /\ Len(L.vs) >= n
    BY <1>1, <1>9 DEF m
  <2> QED
    BY <1>2, <1>7, <2>1
<1> QED
  BY <1>8, <1>9

\* ensure(n): pulls until n locations are in the window.
LEMMA EnsureReady ==
  ASSUME NEW L, IsLow(L), Gp(L, {}), Len(L.vs) \in Nat, NEW n \in Nat
  PROVE  FpKept(L, Ensure(L, n)) /\ Ready(Ensure(L, n), n)
<1> DEFINE Pulled(A, k) == FpKept(L, A) /\ Gp(A, {}) /\ (A.panic \/ Len(A.vs) = Len(L.vs) + k)
<1>1. Pulled(L, 0)
  BY DEF FpKept, Goes, FpSame
<1>2. ASSUME NEW A, NEW k \in Nat, Pulled(A, k) PROVE Pulled(Pull(A), k + 1)
  <2>1. Right(A, Pull(A)) /\ (Pull(A).panic \/ Len(Pull(A).vs) = Len(A.vs) + 1)
    BY <1>2, PullRight DEF FpKept, Goes
  <2>2. FpKept(L, Pull(A)) /\ Gp(Pull(A), {}) /\ (A.panic => Pull(A).panic)
    BY <1>2, <2>1, FpKeptThrough DEF Right, FpKept, Goes
  <2>3. ASSUME ~Pull(A).panic PROVE Len(Pull(A).vs) = Len(L.vs) + (k + 1)
    <3>1. Len(Pull(A).vs) = Len(A.vs) + 1 /\ Len(A.vs) = Len(L.vs) + k
      BY <1>2, <2>1, <2>2, <2>3
    <3>2. \A x \in Nat : (x + k) + 1 = x + (k + 1)
      OBVIOUS
    <3> QED
      BY <3>1, <3>2, Zenon
  <2> QED
    BY <2>2, <2>3
<1>3. CASE Len(L.vs) >= n /\ Ensure(L, n) = L
  BY <1>3 DEF Ready, FpKept, Goes, FpSame
<1>4. CASE ~(Len(L.vs) >= n /\ Ensure(L, n) = L)
  <2> DEFINE m == n - Len(L.vs)
  <2>1. PICK g : /\ g[0] = L /\ Ensure(L, n) = g[m]
                 /\ \A k \in 0 .. m - 1 : g[k + 1] = Pull(g[k])
    BY <1>4, EnsureTurns
  <2>2. m \in Nat /\ Len(L.vs) + m = n
    BY <1>4, EnsureTurns
  <2> HIDE DEF m, Pulled
  <2> DEFINE Done == {k \in 0 .. m : Pulled(g[k], k)}
  <2>3. 0 \in Done
    BY <1>1, <2>1, <2>2
  <2>4. ASSUME NEW k \in 0 .. m - 1, k \in Done PROVE k + 1 \in Done
    <3>1. Pulled(g[k], k) /\ g[k + 1] = Pull(g[k]) /\ k \in Nat /\ k + 1 \in 0 .. m
      BY <2>1, <2>2, <2>4
    <3> QED
      BY <1>2, <3>1
  <2> HIDE DEF Done
  <2>5. \A k \in 0 .. m : k \in Done
    BY <2>2, <2>3, <2>4, UpTo
  <2>6. Pulled(Ensure(L, n), m)
    <3>1. m \in Done
      BY <2>2, <2>5
    <3> QED
      BY <2>1, <3>1 DEF Done
  <2> QED
    BY <2>2, <2>6 DEF Pulled, Ready, FpKept, Goes
<1> QED
  BY <1>3, <1>4

\* reserve and ensure, which most methods begin with.
LEMMA ReserveRight ==
  ASSUME NEW L, IsLow(L), Gp(L, {}), Len(L.vs) \in Nat, NEW n
  PROVE  /\ Right(L, Reserve(L, n)) /\ Len(Reserve(L, n).vs) \in Nat /\ GpRest(L, Reserve(L, n))
<1>1. Right(L, L) /\ GpRest(L, L)
  BY DEF Right, FpKept, Goes, FpSame, GpRest, GpSame
<1>2. Right(L, SettleData(L)) /\ Len(SettleData(L).vs) \in Nat /\ GpRest(L, SettleData(L))
  <2> DEFINE M == SettleData(L)
  <2>1. FpKept(L, M) /\ (M.panic \/ GpSettled(L, M)) /\ Len(M.vs) \in Nat
    BY SettledIs
  <2> HIDE DEF M
  <2>2. GpRest(L, M)
    BY <2>1 DEF GpRest, FpKept
  <2>3. Right(L, M)
    BY <2>1, <2>2, RestKeeps DEF Right
  <2> QED
    BY <2>1, <2>2, <2>3 DEF M
<1> QED
  BY <1>1, <1>2 DEF Reserve

LEMMA RoomReady ==
  ASSUME NEW L, IsLow(L), Gp(L, {}), Len(L.vs) \in Nat, NEW r, NEW n \in Nat
  PROVE  FpKept(L, Room(L, r, n)) /\ Ready(Room(L, r, n), n)
<1> DEFINE A == Reserve(L, r)
<1>1. FpKept(L, A) /\ Gp(A, {}) /\ IsLow(A) /\ Len(A.vs) \in Nat
  BY ReserveRight DEF Right, FpKept, Goes
<1> HIDE DEF A
<1>2. FpKept(A, Ensure(A, n)) /\ Ready(Ensure(A, n), n)
  BY <1>1, EnsureReady
<1> QED
  BY <1>1, <1>2, FpKeptThrough DEF Room, A

----------------------------------------------------------------------------
(* Stack motions *)

\* A copy of any location, in a register of its own.
LEMMA CopyPushed ==
  ASSUME NEW L, IsLow(L), Gp(L, {}), NEW a
  PROVE  Right(L, PushCopy(L, a))
<1>1. CASE a.k = "Const"
  <2>1. InHand(L, a, {}) /\ {} \ RegOf(a) = {}
    BY <1>1 DEF InHand, RegOf
  <2>2. FpKept(L, Push(L, a)) /\ Gp(Push(L, a), {} \ RegOf(a))
    BY <2>1, PushKeeps
  <2> QED
    BY <1>1, <2>1, <2>2 DEF PushCopy, CopyOf, CopyLoc, Right
<1>2. CASE a.k # "Const"
  <2> DEFINE A == Load(L, [op |-> "mov", rn |-> a.v])  r == Got(L)
  <2>1. Took(L, A, r, {})
    BY Loaded
  <2> HIDE DEF A, r
  <2>2. {} \cup {r} = {r}
    OBVIOUS
  <2>3. FpKept(L, A) /\ IsLow(A) /\ Gp(A, {r})
    BY <2>1, <2>2 DEF Took, FpKept, Goes, Gp
  <2>4. Right(A, PushReg(A, r))
    BY <2>3, RegPushed
  <2> QED
    BY <1>2, <2>3, <2>4, RightThrough DEF PushCopy, CopyOf, CopyLoc, PushReg, A, r
<1> QED
  BY <1>1, <1>2

LEMMA PickRight ==
  ASSUME NEW L, IsLow(L), Gp(L, {}), Len(L.vs) \in Nat, NEW n \in Nat
  PROVE  Right(L, PickN(L, n))
<1> DEFINE A == Room(L, n + 2, n + 1)
<1>1. FpKept(L, A) /\ IsLow(A) /\ Gp(A, {})
  BY RoomReady DEF Ready
<1> HIDE DEF A
<1>2. Right(A, PushCopy(A, Nth(A.vs, n)))
  BY <1>1, CopyPushed
<1> QED
  BY <1>1, <1>2, RightThrough DEF PickN, A

\* The same locations in another order.
LEMMA Reordered ==
  ASSUME NEW L, IsLow(L), NEW X, Gp(L, X), NEW t, L.panic \/ (\E p : Rearranges(t, L.vs, p))
  PROVE  FpKept(L, [L EXCEPT !.vs = t]) /\ Gp([L EXCEPT !.vs = t], X)
<1> DEFINE M == [L EXCEPT !.vs = t]
<1>1. /\ FpKept(L, M) /\ M.vs = t /\ M.lcache = L.lcache /\ M.cells = L.cells
      /\ M.ipins = L.ipins /\ M.used = L.used /\ M.panic = L.panic
  BY DEF IsLow, Fields, FpKept, Goes, FpSame
<1> HIDE DEF M
<1>2. ASSUME ~L.panic PROVE Strict(M, X)
  <2>1. Window(M.vs) /\ Regs(M.vs) = Regs(L.vs)
    BY <1>1, <1>2, Rearranged DEF Gp, Strict, Apart
  <2>2. Held(M) = Held(L)
    BY <1>1, <2>1 DEF Held
  <2>3. Apart(M)
    BY <1>1, <1>2, <2>1, <2>2 DEF Gp, Strict, Apart
  <2> QED
    BY <1>1, <1>2, <2>2, <2>3 DEF Gp, Strict
<1> QED
  BY <1>1, <1>2 DEF M, Gp

\* Items a to b of a sequence.
LEMMA Piece ==
  ASSUME NEW S, NEW s \in Seq(S), NEW a \in 1 .. Len(s) + 1, NEW b \in 0 .. Len(s), a <= b + 1,
         NEW t, t = SubSeq(s, a, b)
  PROVE  t \in Seq(S) /\ Len(t) = b - a + 1 /\ \A k \in 1 .. b - a + 1 : t[k] = s[a + k - 1]
<1>1. Len(s) \in Nat /\ a \in Int /\ b \in Int /\ a .. b \subseteq 1 .. Len(s)
  BY LenProperties
<1>2. \A i \in a .. b : s[i] \in S
  BY <1>1, ElementOfSeq
<1>3. /\ t \in Seq(S) /\ Len(t) = (IF a <= b THEN b - a + 1 ELSE 0)
      /\ \A i \in 1 .. b - a + 1 : t[i] = s[a + i - 1]
  BY <1>1, <1>2, SubSeqProperties
<1> QED
  BY <1>1, <1>3

\* roll: the item at depth n goes to the top.
LEMMA RolledWindow ==
  ASSUME NEW s, Window(s), NEW n \in Nat \ {0}, Len(s) >= n + 1,
         NEW t, t = Append(RemoveAt(s, Len(s) - n), Nth(s, n))
  PROVE  \E p : Rearranges(t, s, p)
<1> DEFINE m == Len(s)  i == m - n
           u == SubSeq(s, 1, i - 1)  v == SubSeq(s, i + 1, m)  w == u \o v
           p == [k \in 1 .. Len(t) |-> IF k = m THEN i ELSE IF k < i THEN k ELSE k + 1]
<1>1. PICK S : s \in Seq(S)
  BY DEF Window
<1>2. m \in Nat /\ i \in 1 .. m - 1 /\ i \in Nat /\ s[i] \in S
  BY <1>1, LenProperties, ElementOfSeq
<1>3. u \in Seq(S) /\ Len(u) = i - 1 /\ \A k \in 1 .. i - 1 : u[k] = s[k]
  <2>1. i - 1 \in 0 .. Len(s)
    BY <1>2
  <2> QED
    BY <1>1, <2>1, CutTo
<1>4. v \in Seq(S) /\ Len(v) = m - i /\ \A k \in 1 .. m - i : v[k] = s[i + k]
  <2>1. i + 1 \in 1 .. m + 1 /\ m \in 0 .. m /\ i + 1 <= m + 1 /\ m - (i + 1) + 1 = m - i
    BY <1>2
  <2>2. v \in Seq(S) /\ Len(v) = m - (i + 1) + 1 /\ \A k \in 1 .. m - (i + 1) + 1 : v[k] = s[(i + 1) + k - 1]
    BY <1>1, <2>1, Piece
  <2>3. \A k \in 1 .. m - i : (i + 1) + k - 1 = i + k
    BY <1>2
  <2> QED
    BY <2>1, <2>2, <2>3
<1> HIDE DEF u, v
<1>5. IsJoin(w, u, v, S)
  BY <1>3, <1>4, JoinedIs
<1>6. /\ w \in Seq(S) /\ Len(w) = m - 1 /\ \A k \in 1 .. i - 1 : w[k] = s[k]
      /\ \A k \in i .. m - 1 : w[k] = s[k + 1]
  <2>1. Len(w) = (i - 1) + (m - i)
    BY <1>3, <1>4, <1>5 DEF IsJoin
  <2>2. ASSUME NEW k \in i .. m - 1 PROVE w[k] = s[k + 1]
    <3>1. k - (i - 1) \in 1 .. m - i /\ (i - 1) + (k - (i - 1)) = k /\ i + (k - (i - 1)) = k + 1
      BY <1>2
    <3>2. w[(i - 1) + (k - (i - 1))] = v[k - (i - 1)]
      BY <1>3, <1>4, <1>5, <3>1 DEF IsJoin
    <3> QED
      BY <1>4, <3>1, <3>2
  <2>3. Len(w) = m - 1
    BY <1>2, <2>1
  <2>4. w \in Seq(S) /\ \A k \in 1 .. i - 1 : w[k] = s[k]
    BY <1>3, <1>5 DEF IsJoin
  <2> QED
    BY <2>2, <2>3, <2>4
<1>7. t = Append(w, s[i])
  BY DEF RemoveAt, Nth, u, v
<1> HIDE DEF w, i
<1>8. t \in Seq(S) /\ Len(t) = Len(w) + 1 /\ (\A k \in 1 .. Len(w) : t[k] = w[k]) /\ t[Len(w) + 1] = s[i]
  <2>1. PICK e \in S : e = s[i]
    BY <1>2
  <2>2. w \in Seq(S) /\ t = Append(w, e)
    BY <1>6, <1>7, <2>1
  <2> DEFINE x == Append(w, e)
  <2>3. x \in Seq(S) /\ Len(x) = Len(w) + 1 /\ (\A k \in 1 .. Len(w) : x[k] = w[k]) /\ x[Len(w) + 1] = e
    BY <2>2, AppendProperties
  <2>4. t = x
    BY <2>2
  <2> HIDE DEF x
  <2> QED
    BY <2>1, <2>3, <2>4
<1>9. Len(t) = m /\ t[m] = s[i] /\ \A k \in 1 .. m - 1 : t[k] = w[k]
  <2>1. Len(w) = m - 1 /\ Len(w) + 1 = m
    BY <1>2, <1>6
  <2> QED
    BY <1>8, <2>1
<1>10. \A k \in 1 .. Len(t) : t[k] = s[p[k]]
  <2> SUFFICES ASSUME NEW k \in 1 .. m PROVE t[k] = s[p[k]]
    BY <1>9
  <2>1. CASE k = m
    BY <1>9, <2>1
  <2>2. CASE k # m /\ k < i
    <3>1. k \in 1 .. m - 1 /\ k \in 1 .. i - 1
      BY <1>2, <2>2
    <3> QED
      BY <1>6, <1>9, <2>2, <3>1
  <2>3. CASE k # m /\ ~(k < i)
    <3>1. k \in 1 .. m - 1 /\ k \in i .. m - 1
      BY <1>2, <2>3
    <3> QED
      BY <1>6, <1>9, <2>3, <3>1
  <2> QED
    BY <2>1, <2>2, <2>3
<1>11. p \in [1 .. Len(t) -> 1 .. Len(s)]
  BY <1>2, <1>9
<1>12. \A j, k \in 1 .. Len(t) : p[j] = p[k] => j = k
  BY <1>2, <1>9
<1>13. ASSUME NEW j \in 1 .. Len(s) PROVE \E k \in 1 .. Len(t) : p[k] = j
  <2>1. CASE j = i
    BY <1>2, <1>9, <2>1
  <2>2. CASE j < i
    <3>1. j \in 1 .. Len(t) /\ p[j] = j
      BY <1>2, <1>9, <2>2
    <3> QED
      BY <3>1
  <2>3. CASE j > i
    <3>1. j - 1 \in 1 .. Len(t) /\ p[j - 1] = j
      BY <1>2, <1>9, <2>3
    <3> QED
      BY <3>1
  <2> QED
    BY <1>2, <2>1, <2>2, <2>3
<1> HIDE DEF p
<1>14. Picks(t, s, p)
  BY <1>8, <1>10, <1>11, <1>12 DEF Picks
<1> QED
  BY <1>13, <1>14 DEF Rearranges

LEMMA RollRight ==
  ASSUME NEW L, IsLow(L), Gp(L, {}), Len(L.vs) \in Nat, NEW n \in Nat
  PROVE  Right(L, RollN(L, n))
<1>1. CASE n = 0
  BY <1>1 DEF RollN, Right, FpKept, Goes, FpSame
<1>2. CASE n # 0
  <2> DEFINE A == Room(L, n + 1, n + 1)  t == Append(RemoveAt(A.vs, Len(A.vs) - n), Nth(A.vs, n))
  <2>1. FpKept(L, A) /\ Ready(A, n + 1)
    BY RoomReady
  <2> HIDE DEF A
  <2>2. A.panic \/ (\E p : Rearranges(t, A.vs, p))
    <3>1. ASSUME ~A.panic PROVE Window(A.vs) /\ Len(A.vs) >= n + 1
      BY <2>1, <3>1 DEF Ready, Gp, Strict, Apart
    <3> QED
      BY <1>2, <3>1, RolledWindow
  <2> HIDE DEF t
  <2>3. Right(A, [A EXCEPT !.vs = t])
    BY <2>1, <2>2, Reordered DEF Ready, Right
  <2>4. RollN(L, n) = [A EXCEPT !.vs = t]
    BY <1>2 DEF RollN, A, t
  <2> QED
    BY <2>1, <2>3, <2>4, RightThrough
<1> QED
  BY <1>1, <1>2

\* A location in hand is given up.
LEMMA LocFreed ==
  ASSUME NEW L, IsLow(L), NEW a, Gp(L, RegOf(a))
  PROVE  Right(L, FreeLoc(L, a))
<1>1. CASE a.k = "Reg"
  <2>1. RegOf(a) = {a.v} /\ {a.v} \ {a.v} = {}
    BY <1>1 DEF RegOf
  <2>2. FpKept(L, FreeR(L, a.v)) /\ Gp(FreeR(L, a.v), {a.v} \ {a.v})
    BY <2>1, Freed
  <2> QED
    BY <1>1, <2>1, <2>2 DEF FreeLoc, Right
<1>2. CASE a.k # "Reg"
  <2>1. RegOf(a) = {}
    BY <1>2 DEF RegOf
  <2> QED
    BY <1>2, <2>1 DEF FreeLoc, Right, FpKept, Goes, FpSame
<1> QED
  BY <1>1, <1>2

LEMMA DiscardRight ==
  ASSUME NEW L, Ready(L, 1)
  PROVE  Right(L, Discard(L))
<1> DEFINE P == Pop(L, 1)  a == Top(L)
<1>1. IsLow(P) /\ FpKept(L, P) /\ Gp(P, RegOf(a))
  BY OneOperand
<1> HIDE DEF P, a
<1>2. Right(P, FreeLoc(P, a))
  BY <1>1, LocFreed
<1> QED
  BY <1>1, <1>2, RightThrough DEF Discard, P, a

\* A window with its top items, after the n below were left out, replaced.
IsRetopped(t, s, n, b, S) ==
  /\ t \in Seq(S) /\ Len(t) = Len(s) - n + Len(b)
  /\ \A k \in 1 .. Len(s) - n : t[k] = s[k]
  /\ \A k \in 1 .. Len(b) : t[Len(s) - n + k] = b[k]

LEMMA Retopped ==
  ASSUME NEW S, NEW s \in Seq(S), NEW n \in 0 .. Len(s), NEW b \in Seq(S)
  PROVE  IsRetopped(DropN(s, n) \o b, s, n, b, S)
<1> DEFINE u == DropN(s, n)
<1>1. Len(s) \in Nat /\ Len(b) \in Nat /\ Len(s) - n \in 0 .. Len(s)
  BY LenProperties
<1>2. u \in Seq(S) /\ Len(u) = Len(s) - n /\ \A k \in 1 .. Len(s) - n : u[k] = s[k]
  BY <1>1, CutTo DEF DropN
<1> HIDE DEF u
<1>3. IsJoin(u \o b, u, b, S)
  BY <1>2, JoinedIs
<1>4. IsRetopped(u \o b, s, n, b, S)
  BY <1>1, <1>2, <1>3 DEF IsJoin, IsRetopped
<1> QED
  BY <1>4 DEF u

LEMMA MinusRotWindow ==
  ASSUME NEW s, Window(s), Len(s) >= 3, NEW t, t = Motion("MinusRot", s)
  PROVE  \E p : Rearranges(t, s, p)
<1> DEFINE m == Len(s)
           b == <<s[m], s[m - 2], s[m - 1]>>
           p == [k \in 1 .. Len(t) |-> IF k = m - 2 THEN m ELSE IF k > m - 2 THEN k - 1 ELSE k]
<1>1. PICK S : s \in Seq(S)
  BY DEF Window
<1>2. m \in Nat /\ s[m] \in S /\ s[m - 1] \in S /\ s[m - 2] \in S
  <2>1. m \in Nat /\ m \in 1 .. m /\ m - 1 \in 1 .. m /\ m - 2 \in 1 .. m
    BY <1>1, LenProperties
  <2> QED
    BY <1>1, <2>1, ElementOfSeq
<1>3. t = DropN(s, 3) \o b
  <2>1. m - 0 = m
    BY <1>2
  <2> QED
    BY <2>1 DEF Motion, Nth
<1>4. b \in Seq(S) /\ Len(b) = 3 /\ b[1] = s[m] /\ b[2] = s[m - 2] /\ b[3] = s[m - 1]
  BY <1>2
<1> HIDE DEF b
<1>5. /\ t \in Seq(S) /\ Len(t) = Len(s) - 3 + Len(b)
      /\ \A k \in 1 .. Len(s) - 3 : t[k] = s[k]
      /\ \A k \in 1 .. Len(b) : t[Len(s) - 3 + k] = b[k]
  <2>1. 3 \in 0 .. Len(s)
    BY <1>2
  <2>2. IsRetopped(DropN(s, 3) \o b, s, 3, b, S)
    BY <1>1, <1>4, <2>1, Retopped
  <2> QED
    BY <1>3, <2>2 DEF IsRetopped
<1>6. Len(t) = m /\ t[m - 2] = s[m] /\ t[m - 1] = s[m - 2] /\ t[m] = s[m - 1]
  <2>1. Len(t) = m /\ m - 3 + 1 = m - 2 /\ m - 3 + 2 = m - 1 /\ m - 3 + 3 = m
    BY <1>2, <1>4, <1>5
  <2>2. t[m - 3 + 1] = s[m] /\ t[m - 3 + 2] = s[m - 2] /\ t[m - 3 + 3] = s[m - 1]
    BY <1>4, <1>5
  <2> QED
    BY <2>1, <2>2
<1>7. ASSUME NEW k \in 1 .. Len(t) PROVE t[k] = s[p[k]]
  <2>1. k \in 1 .. m - 3 \/ k = m - 2 \/ k = m - 1 \/ k = m
    BY <1>2, <1>6
  <2>2. CASE k \in 1 .. m - 3
    <3>1. p[k] = k
      BY <1>2, <2>2
    <3> QED
      BY <1>5, <2>2, <3>1
  <2>3. CASE k = m - 2
    BY <1>6, <2>3
  <2>4. CASE k = m - 1
    <3>1. p[k] = m - 2
      BY <1>2, <2>4
    <3> QED
      BY <1>6, <2>4, <3>1
  <2>5. CASE k = m
    <3>1. p[k] = m - 1
      BY <1>2, <2>5
    <3> QED
      BY <1>6, <2>5, <3>1
  <2> QED
    BY <2>1, <2>2, <2>3, <2>4, <2>5
<1>8. p \in [1 .. Len(t) -> 1 .. Len(s)]
  BY <1>2, <1>6
<1>9. \A j, k \in 1 .. Len(t) : p[j] = p[k] => j = k
  BY <1>2, <1>6
<1>10. ASSUME NEW j \in 1 .. Len(s) PROVE \E k \in 1 .. Len(t) : p[k] = j
  <2>1. CASE j = m
    <3>1. m - 2 \in 1 .. Len(t) /\ p[m - 2] = j
      BY <1>2, <1>6, <2>1
    <3> QED
      BY <3>1
  <2>2. CASE j # m /\ j >= m - 2
    <3>1. j + 1 \in 1 .. Len(t) /\ p[j + 1] = j
      BY <1>2, <1>6, <2>2
    <3> QED
      BY <3>1
  <2>3. CASE j < m - 2
    <3>1. j \in 1 .. Len(t) /\ p[j] = j
      BY <1>2, <1>6, <2>3
    <3> QED
      BY <3>1
  <2> QED
    BY <1>2, <2>1, <2>2, <2>3
<1> HIDE DEF p
<1>11. Picks(t, s, p)
  BY <1>5, <1>7, <1>8, <1>9 DEF Picks
<1> QED
  BY <1>10, <1>11 DEF Rearranges

\* nip leaves out the item below the top.
LEMMA NippedWindow ==
  ASSUME NEW s, Window(s), Len(s) >= 2, NEW t, t = Motion("Nip", s), NEW b, b = Nth(s, 1)
  PROVE  Window(t) /\ Regs(s) = Regs(t) \cup RegOf(b) /\ RegOf(b) \cap Regs(t) = {} /\ IsLoc(b)
<1> DEFINE m == Len(s)  top == <<s[m]>>
           p == [k \in 1 .. Len(t) |-> IF k = m - 1 THEN m ELSE k]
<1>1. PICK S : s \in Seq(S)
  BY DEF Window
<1>2. m \in Nat /\ s[m] \in S /\ b = s[m - 1] /\ m - 1 \in 1 .. m /\ m \in 1 .. m /\ m - 1 # m
  <2>1. m \in Nat /\ m \in 1 .. m
    BY <1>1, LenProperties
  <2> QED
    BY <1>1, <2>1, ElementOfSeq DEF Nth
<1>3. t = DropN(s, 2) \o top
  <2>1. m - 0 = m
    BY <1>2
  <2> QED
    BY <2>1 DEF Motion, Nth
<1>4. top \in Seq(S) /\ Len(top) = 1 /\ top[1] = s[m]
  BY <1>2
<1> HIDE DEF top
<1>5. /\ t \in Seq(S) /\ Len(t) = Len(s) - 2 + Len(top)
      /\ \A k \in 1 .. Len(s) - 2 : t[k] = s[k]
      /\ \A k \in 1 .. Len(top) : t[Len(s) - 2 + k] = top[k]
  <2>1. 2 \in 0 .. Len(s)
    BY <1>2
  <2>2. IsRetopped(DropN(s, 2) \o top, s, 2, top, S)
    BY <1>1, <1>4, <2>1, Retopped
  <2> QED
    BY <1>3, <2>2 DEF IsRetopped
<1>6. Len(t) = m - 1 /\ t[m - 1] = s[m]
  <2>1. Len(t) = m - 1 /\ m - 2 + 1 = m - 1
    BY <1>2, <1>4, <1>5
  <2>2. t[m - 2 + 1] = s[m]
    BY <1>4, <1>5
  <2> QED
    BY <2>1, <2>2
<1>7. ASSUME NEW k \in 1 .. Len(t) PROVE t[k] = s[p[k]] /\ p[k] \in 1 .. m /\ p[k] # m - 1
  <2>1. CASE k = m - 1
    BY <1>2, <1>6, <2>1
  <2>2. CASE k # m - 1
    <3>1. k \in 1 .. m - 2 /\ p[k] = k
      BY <1>2, <1>6, <2>2
    <3> QED
      BY <1>2, <1>5, <2>2, <3>1
  <2> QED
    BY <2>1, <2>2
<1>8. p \in [1 .. Len(t) -> 1 .. Len(s)]
  BY <1>2, <1>6
<1>9. \A j, k \in 1 .. Len(t) : p[j] = p[k] => j = k
  BY <1>2, <1>6
<1>10. ASSUME NEW j \in 1 .. Len(s), j # m - 1 PROVE \E k \in 1 .. Len(t) : t[k] = s[j]
  <2>1. CASE j = m
    <3>1. m - 1 \in 1 .. Len(t)
      BY <1>2, <1>6
    <3> QED
      BY <1>6, <2>1, <3>1
  <2>2. CASE j # m
    <3>1. j \in 1 .. Len(t) /\ j \in 1 .. m - 2
      BY <1>2, <1>6, <1>10, <2>2
    <3> QED
      BY <1>5, <3>1
  <2> QED
    BY <2>1, <2>2
<1>11. Picks(t, s, p)
  <2> HIDE DEF p
  <2> QED
    BY <1>5, <1>7, <1>8, <1>9 DEF Picks
<1>12. Window(t) /\ Regs(t) \subseteq Regs(s)
  BY <1>11, Picked
<1>13. Regs(s) \subseteq Regs(t) \cup RegOf(b)
  BY <1>2, <1>10 DEF Regs
<1>14. RegOf(b) \subseteq Regs(s) /\ IsLoc(b)
  BY <1>2 DEF Regs, Window
<1>15. RegOf(b) \cap Regs(t) = {}
  <2> SUFFICES ASSUME NEW k \in 1 .. Len(t) PROVE RegOf(b) \cap RegOf(t[k]) = {}
    BY DEF Regs
  <2>1. RegOf(s[m - 1]) \cap RegOf(s[p[k]]) = {}
    <3>1. p[k] \in 1 .. m /\ p[k] # m - 1
      BY <1>7
    <3> HIDE DEF p
    <3> QED
      BY <1>2, <3>1 DEF Window
  <2>2. t[k] = s[p[k]]
    BY <1>7
  <2> HIDE DEF p
  <2> QED
    BY <1>2, <2>1, <2>2
<1> QED
  BY <1>12, <1>13, <1>14, <1>15

LEMMA NipRight ==
  ASSUME NEW L, Ready(L, 2)
  PROVE  Right(L, Nip(L))
<1> DEFINE t == Motion("Nip", L.vs)  b == Nth(L.vs, 1)  M == [L EXCEPT !.vs = t]
<1>1. /\ FpKept(L, M) /\ M.vs = t /\ M.lcache = L.lcache /\ M.cells = L.cells
      /\ M.ipins = L.ipins /\ M.used = L.used /\ M.panic = L.panic
  BY DEF Ready, IsLow, Fields, FpKept, Goes, FpSame
<1> HIDE DEF M
<1>2. ASSUME ~L.panic PROVE Strict(M, RegOf(b))
  <2>1. Window(L.vs) /\ Len(L.vs) >= 2 /\ Strict(L, {})
    BY <1>2 DEF Ready, Gp, Strict, Apart
  <2>2. Window(t) /\ Regs(L.vs) = Regs(t) \cup RegOf(b) /\ RegOf(b) \cap Regs(t) = {} /\ IsLoc(b)
    BY <2>1, NippedWindow
  <2> HIDE DEF t, b
  <2>3. Held(L) = Held(M) \cup RegOf(b) /\ RegOf(b) \cap Held(M) = {}
    BY <1>1, <2>1, <2>2 DEF Held, Strict, Apart
  <2>4. Apart(M)
    BY <1>1, <2>1, <2>2, <2>3 DEF Strict, Apart
  <2> QED
    BY <1>1, <2>1, <2>2, <2>3, <2>4 DEF Strict, IsLoc
<1>3. Gp(M, RegOf(b)) /\ IsLow(M)
  BY <1>1, <1>2 DEF Gp, FpKept, Goes
<1> HIDE DEF b
<1>4. Right(M, FreeLoc(M, b))
  BY <1>3, LocFreed
<1> QED
  BY <1>1, <1>4, RightThrough DEF Nip, M, b, t

LEMMA MinusRotRight ==
  ASSUME NEW L, Ready(L, 3)
  PROVE  Right(L, [L EXCEPT !.vs = Motion("MinusRot", @)])
<1> DEFINE t == Motion("MinusRot", L.vs)
<1>1. L.panic \/ (\E p : Rearranges(t, L.vs, p))
  <2>1. ASSUME ~L.panic PROVE Window(L.vs) /\ Len(L.vs) >= 3
    BY <2>1 DEF Ready, Gp, Strict, Apart
  <2> QED
    BY <2>1, MinusRotWindow
<1> HIDE DEF t
<1>2. Right(L, [L EXCEPT !.vs = t])
  BY <1>1, Reordered DEF Ready, Right
<1> QED
  BY <1>2 DEF t

\* tuck puts the new copy below the top, where a push would have put it on top.
LEMMA TuckedWindow ==
  ASSUME NEW S, NEW w \in Seq(S), Len(w) >= 2, NEW e \in S
  PROVE  \E p : Rearranges(InsertAt(w, Len(w) - 1, e), Append(w, e), p)
<1> DEFINE m == Len(w)  s == Append(w, e)  t == InsertAt(w, m - 1, e)
           u == SubSeq(w, 1, m - 2)  one == <<e>>  v == SubSeq(w, m - 1, m)  x == u \o one
           p == [k \in 1 .. Len(t) |-> IF k = m - 1 THEN m + 1 ELSE IF k < m - 1 THEN k ELSE k - 1]
<1>1. m \in Nat /\ m - 2 \in 0 .. m /\ m - 1 \in 1 .. m /\ m \in 1 .. m
  BY LenProperties
<1>2. s \in Seq(S) /\ Len(s) = m + 1 /\ (\A k \in 1 .. m : s[k] = w[k]) /\ s[m + 1] = e
  BY <1>1, AppendProperties
<1>3. u \in Seq(S) /\ Len(u) = m - 2 /\ \A k \in 1 .. m - 2 : u[k] = w[k]
  <2>1. PICK k \in 0 .. Len(w) : k = m - 2
    BY <1>1
  <2>2. SubSeq(w, 1, k) \in Seq(S) /\ Len(SubSeq(w, 1, k)) = k /\ \A j \in 1 .. k : SubSeq(w, 1, k)[j] = w[j]
    BY CutTo
  <2> QED
    BY <2>1, <2>2
<1>4. v \in Seq(S) /\ Len(v) = 2 /\ v[1] = w[m - 1] /\ v[2] = w[m]
  <2>1. m - 1 \in 1 .. m + 1 /\ m \in 0 .. m /\ m - 1 <= m + 1 /\ m - (m - 1) + 1 = 2
    BY <1>1
  <2>2. v \in Seq(S) /\ Len(v) = m - (m - 1) + 1 /\ \A k \in 1 .. m - (m - 1) + 1 : v[k] = w[(m - 1) + k - 1]
    BY <2>1, Piece
  <2>3. (m - 1) + 1 - 1 = m - 1 /\ (m - 1) + 2 - 1 = m /\ 1 \in 1 .. 2 /\ 2 \in 1 .. 2
    BY <1>1
  <2> QED
    BY <2>1, <2>2, <2>3
<1>5. one \in Seq(S) /\ Len(one) = 1 /\ one[1] = e
  OBVIOUS
<1>6. t = x \o v
  <2>1. (m - 1) - 1 = m - 2
    BY <1>1
  <2> QED
    BY <2>1 DEF InsertAt
<1> HIDE DEF u, one, v, t, s
<1>7. IsJoin(x, u, one, S)
  BY <1>3, <1>5, JoinedIs
<1>8. x \in Seq(S) /\ Len(x) = m - 1 /\ (\A k \in 1 .. m - 2 : x[k] = w[k]) /\ x[m - 1] = e
  <2>1. (m - 2) + 1 = m - 1 /\ 1 \in 1 .. 1
    BY <1>1
  <2>2. x[(m - 2) + 1] = e /\ Len(x) = (m - 2) + 1
    BY <1>3, <1>5, <1>7, <2>1 DEF IsJoin
  <2> QED
    BY <1>3, <1>7, <2>1, <2>2 DEF IsJoin
<1> HIDE DEF x
<1>9. IsJoin(t, x, v, S)
  BY <1>4, <1>6, <1>8, JoinedIs
<1>10. /\ t \in Seq(S) /\ Len(t) = m + 1 /\ (\A k \in 1 .. m - 2 : t[k] = w[k])
       /\ t[m - 1] = e /\ t[m] = w[m - 1] /\ t[m + 1] = w[m]
  <2>1. /\ (m - 1) + 2 = m + 1 /\ (m - 1) + 1 = m /\ 1 \in 1 .. 2 /\ 2 \in 1 .. 2
        /\ m - 1 \in 1 .. m - 1 /\ 1 .. m - 2 \subseteq 1 .. m - 1
    BY <1>1
  <2>2. t \in Seq(S) /\ Len(t) = (m - 1) + 2 /\ t[(m - 1) + 1] = w[m - 1] /\ t[(m - 1) + 2] = w[m]
    BY <1>4, <1>8, <1>9, <2>1 DEF IsJoin
  <2>3. t[m - 1] = e /\ \A k \in 1 .. m - 2 : t[k] = w[k]
    BY <1>8, <1>9, <2>1 DEF IsJoin
  <2> QED
    BY <2>1, <2>2, <2>3
<1>11. ASSUME NEW k \in 1 .. Len(t) PROVE t[k] = s[p[k]]
  <2>1. k \in 1 .. m - 2 \/ k = m - 1 \/ k = m \/ k = m + 1
    BY <1>1, <1>10
  <2>2. CASE k \in 1 .. m - 2
    <3>1. p[k] = k /\ k \in 1 .. m
      BY <1>1, <2>2
    <3> QED
      BY <1>2, <1>10, <2>2, <3>1
  <2>3. CASE k = m - 1
    BY <1>2, <1>10, <2>3
  <2>4. CASE k = m
    <3>1. p[k] = m - 1
      BY <1>1, <2>4
    <3> QED
      BY <1>1, <1>2, <1>10, <2>4, <3>1
  <2>5. CASE k = m + 1
    <3>1. p[k] = m
      BY <1>1, <2>5
    <3> QED
      BY <1>1, <1>2, <1>10, <2>5, <3>1
  <2> QED
    BY <2>1, <2>2, <2>3, <2>4, <2>5
<1>12. p \in [1 .. Len(t) -> 1 .. Len(s)]
  BY <1>1, <1>2, <1>10
<1>13. \A j, k \in 1 .. Len(t) : p[j] = p[k] => j = k
  BY <1>1, <1>10
<1>14. ASSUME NEW j \in 1 .. Len(s) PROVE \E k \in 1 .. Len(t) : p[k] = j
  <2>1. CASE j = m + 1
    <3>1. m - 1 \in 1 .. Len(t) /\ p[m - 1] = j
      BY <1>1, <1>10, <2>1
    <3> QED
      BY <3>1
  <2>2. CASE j # m + 1 /\ j >= m - 1
    <3>1. j + 1 \in 1 .. Len(t) /\ p[j + 1] = j
      BY <1>1, <1>2, <1>10, <2>2
    <3> QED
      BY <3>1
  <2>3. CASE j < m - 1
    <3>1. j \in 1 .. Len(t) /\ p[j] = j
      BY <1>1, <1>10, <2>3
    <3> QED
      BY <3>1
  <2> QED
    BY <1>1, <1>2, <2>1, <2>2, <2>3
<1> HIDE DEF p
<1>15. Rearranges(t, s, p)
  BY <1>10, <1>11, <1>12, <1>13, <1>14 DEF Rearranges, Picks
<1> QED
  BY <1>15 DEF s, t

LEMMA TuckRight ==
  ASSUME NEW L, Ready(L, 2)
  PROVE  Right(L, Tuck(L))
<1> DEFINE a == Top(L)  A == CopyOf(L, a)  e == CopyLoc(L, a)  B == PushCopy(L, a)
           t == InsertAt(A.vs, Len(A.vs) - 1, e)
<1>1. Right(L, B) /\ IsLow(B)
  BY CopyPushed DEF Ready, Right, FpKept, Goes
<1>2. IsLow(A) /\ A.vs = L.vs /\ (L.panic => A.panic)
  <2>1. CASE a.k = "Const"
    BY <2>1 DEF CopyOf, Ready
  <2>2. CASE a.k # "Const"
    <3>1. Took(L, Load(L, [op |-> "mov", rn |-> a.v]), Got(L), {})
      BY Loaded DEF Ready
    <3> QED
      BY <2>2, <3>1 DEF CopyOf, Took, FpKept, Goes
  <2> QED
    BY <2>1, <2>2
<1> HIDE DEF a, A, e
<1>3. B.vs = Append(A.vs, e) /\ B.panic = A.panic /\ [B EXCEPT !.vs = t] = [A EXCEPT !.vs = t]
  <2>1. B = [A EXCEPT !.vs = Append(@, e)]
    BY DEF PushCopy, Push, A, e, a
  <2> HIDE DEF B
  <2> QED
    BY <1>2, <2>1 DEF IsLow, Fields
<1> HIDE DEF B
<1>4. B.panic \/ (\E p : Rearranges(t, B.vs, p))
  <2>1. ASSUME ~B.panic PROVE \E p : Rearranges(t, B.vs, p)
    <3>1. Window(L.vs) /\ Len(L.vs) >= 2
      BY <1>2, <1>3, <2>1 DEF Ready, Gp, Strict, Apart
    <3> DEFINE S == {L.vs[k] : k \in 1 .. Len(L.vs)} \cup {e}
    <3>2. L.vs \in Seq(S)
      <4>1. {L.vs[k] : k \in 1 .. Len(L.vs)} \subseteq S
        OBVIOUS
      <4> HIDE DEF S
      <4> QED
        BY <3>1, <4>1, InWindow
    <3>3. e \in S
      OBVIOUS
    <3> HIDE DEF S
    <3> QED
      BY <1>2, <1>3, <3>1, <3>2, <3>3, TuckedWindow
  <2> QED
    BY <2>1
<1> HIDE DEF t
<1>5. Right(B, [B EXCEPT !.vs = t])
  BY <1>1, <1>4, Reordered DEF Right
<1>6. Tuck(L) = [B EXCEPT !.vs = t]
  BY <1>3 DEF Tuck, t, A, e, a
<1> QED
  BY <1>1, <1>5, <1>6, RightThrough DEF Right

LEMMA StkRight ==
  ASSUME NEW L, IsLow(L), Gp(L, {}), Len(L.vs) \in Nat,
         NEW m \in {"Dup", "Drop", "Swap", "Over", "Nip", "Rot", "MinusRot", "Tuck"}
  PROVE  Right(L, Stk(L, m))
<1>1. CASE m = "Dup"
  BY <1>1, PickRight DEF Stk
<1>2. CASE m = "Over"
  BY <1>2, PickRight DEF Stk
<1>3. CASE m = "Swap"
  BY <1>3, RollRight DEF Stk
<1>4. CASE m = "Rot"
  BY <1>4, RollRight DEF Stk
<1>5. CASE m = "Drop"
  <2>1. FpKept(L, Ensure(L, 1)) /\ Ready(Ensure(L, 1), 1)
    BY EnsureReady
  <2>2. Right(Ensure(L, 1), Discard(Ensure(L, 1)))
    BY <2>1, DiscardRight
  <2> QED
    BY <1>5, <2>1, <2>2, RightThrough DEF Stk
<1>6. CASE m = "Nip"
  <2>1. FpKept(L, Ensure(L, 2)) /\ Ready(Ensure(L, 2), 2)
    BY EnsureReady
  <2>2. Right(Ensure(L, 2), Nip(Ensure(L, 2)))
    BY <2>1, NipRight
  <2> QED
    BY <1>6, <2>1, <2>2, RightThrough DEF Stk
<1>7. CASE m = "MinusRot"
  <2> DEFINE A == Ensure(L, 3)
  <2>1. FpKept(L, A) /\ Ready(A, 3)
    BY EnsureReady
  <2> HIDE DEF A
  <2>2. Right(A, [A EXCEPT !.vs = Motion("MinusRot", @)])
    BY <2>1, MinusRotRight
  <2>3. Stk(L, m) = [A EXCEPT !.vs = Motion("MinusRot", @)]
    BY <1>7 DEF Stk, A
  <2> QED
    BY <2>1, <2>2, <2>3, RightThrough
<1>8. CASE m = "Tuck"
  <2>1. FpKept(L, Room(L, 3, 2)) /\ Ready(Room(L, 3, 2), 2)
    BY RoomReady
  <2>2. Right(Room(L, 3, 2), Tuck(Room(L, 3, 2)))
    BY <2>1, TuckRight
  <2> QED
    BY <1>8, <2>1, <2>2, RightThrough DEF Stk
<1> QED
  BY <1>1, <1>2, <1>3, <1>4, <1>5, <1>6, <1>7, <1>8

LEMMA DupShiftRight ==
  ASSUME NEW L, Ready(L, 1), NEW f, NEW sh, NEW n
  PROVE  Right(L, DupShiftBin(L, f, sh, n))
BY InPlaceRight DEF DupShiftBin

LEMMA ZCmpRight ==
  ASSUME NEW L, Ready(L, 1), NEW c
  PROVE  Right(L, ZCmp(L, c))
BY InPlaceRight DEF ZCmp

----------------------------------------------------------------------------
(* The caches of the GP half *)

\* g is f with v under key k.
IsWith(g, f, k, v) ==
  DOMAIN g = DOMAIN f \cup {k} /\ g[k] = v /\ \A x \in DOMAIN f : x # k => g[x] = f[x]

LEMMA WithIs ==
  ASSUME NEW f, NEW k, NEW v
  PROVE  IsWith(With(f, k, v), f, k, v)
BY DEF IsWith, With

\* A register in hand caches variable i; the one that cached it before is free.
LEMMA LocalCached ==
  ASSUME NEW L, NEW r, Gp(L, {r}), NEW M, FpKept(L, M), NEW i, NEW e, e.r = r,
         M.vs = L.vs, M.cells = L.cells, M.ipins = L.ipins, M.panic = L.panic,
         M.lcache = With(L.lcache, i, e), M.used = L.used \ Superseded(L.lcache, i, r)
  PROVE  Gp(M, {})
<1>1. CASE L.panic
  BY <1>1 DEF Gp
<1>2. CASE ~L.panic
  <2> DEFINE old == IF i \in DOMAIN L.lcache THEN {L.lcache[i].r} ELSE {}
  <2>1. Strict(L, {r}) /\ IsWith(M.lcache, L.lcache, i, e)
    BY <1>2, WithIs DEF Gp
  <2>2. old \subseteq CacheRegs(L.lcache) /\ r \notin CacheRegs(L.lcache)
    BY <2>1 DEF CacheRegs, Strict, Held
  <2>3. Superseded(L.lcache, i, r) = old
    BY <2>2 DEF Superseded
  <2>4. CacheRegs(M.lcache) = (CacheRegs(L.lcache) \ old) \cup {r}
    BY <2>1 DEF IsWith, CacheRegs, OneEach, Strict, Apart
  <2>5. OneEach(M.lcache)
    BY <2>1, <2>2 DEF IsWith, OneEach, CacheRegs, Strict, Apart
  <2> HIDE DEF old
  <2>6. Held(M) = (Held(L) \ old) \cup {r}
    BY <2>1, <2>2, <2>4 DEF Held, Strict, Apart
  <2>7. Apart(M)
    BY <2>1, <2>2, <2>4, <2>5, <2>6 DEF Apart, Strict, Held
  <2>8. M.used \cap Pool = Held(M) \cap Pool
    BY <2>1, <2>2, <2>3, <2>6 DEF Strict, Held
  <2> QED
    BY <2>7, <2>8 DEF Strict, Gp
<1> QED
  BY <1>1, <1>2

\* A register in hand caches the cell at address a, which none cached before.
LEMMA CellCached ==
  ASSUME NEW L, NEW r, Gp(L, {r}), NEW M, FpKept(L, M), NEW a, L.panic \/ a \notin DOMAIN L.cells,
         M.vs = L.vs, M.lcache = L.lcache, M.ipins = L.ipins, M.panic = L.panic,
         M.cells = With(L.cells, a, r), M.used = L.used
  PROVE  Gp(M, {})
<1>1. CASE L.panic
  BY <1>1 DEF Gp
<1>2. CASE ~L.panic
  <2>1. Strict(L, {r}) /\ IsWith(M.cells, L.cells, a, r) /\ a \notin DOMAIN L.cells
    BY <1>2, WithIs DEF Gp
  <2>2. Range(M.cells) = Range(L.cells) \cup {r} /\ r \notin Range(L.cells)
    BY <2>1 DEF IsWith, Range, Strict, Held
  <2>3. IsInjective(M.cells)
    BY <2>1, <2>2 DEF IsWith, IsInjective, Range, Strict, Apart
  <2>4. Held(M) = Held(L) \cup {r}
    BY <2>2 DEF Held
  <2>5. Apart(M)
    BY <2>1, <2>2, <2>3, <2>4 DEF Apart, Strict, Held
  <2> QED
    BY <2>1, <2>4, <2>5 DEF Strict, Gp
<1> QED
  BY <1>1, <1>2

LEMMA CellsCleared ==
  ASSUME NEW L, IsLow(L), Gp(L, {})
  PROVE  Right(L, ClearCells(L)) /\ ClearCells(L).vs = L.vs
<1> DEFINE M == ClearCells(L)
<1>1. /\ FpKept(L, M) /\ M.vs = L.vs /\ M.lcache = L.lcache /\ M.cells = <<>> /\ M.ipins = L.ipins
      /\ M.used = L.used \ Range(L.cells) /\ M.panic = L.panic
  BY DEF ClearCells, IsLow, Fields, FpKept, Goes, FpSame
<1> HIDE DEF M
<1>2. ASSUME ~L.panic PROVE Strict(M, {})
  <2>1. Strict(L, {})
    BY <1>2 DEF Gp
  <2>2. Range(M.cells) = {} /\ IsInjective(M.cells)
    BY <1>1 DEF Range, IsInjective
  <2>3. Held(L) = Held(M) \cup Range(L.cells) /\ Held(M) \cap Range(L.cells) = {}
    BY <1>1, <2>1, <2>2 DEF Held, Strict, Apart
  <2>4. Apart(M)
    BY <1>1, <2>1, <2>2, <2>3 DEF Apart, Strict
  <2> QED
    BY <1>1, <2>1, <2>3, <2>4 DEF Strict
<1> QED
  BY <1>1, <1>2 DEF M, Right, Gp

LEMMA PushLoadRight ==
  ASSUME NEW L, IsLow(L), Gp(L, {}), Len(L.vs) \in Nat, NEW i
  PROVE  Right(L, PushLoad(L, i))
<1> DEFINE A == Reserve(L, 1)  B == Load(A, i)  r == Got(A)
<1>1. FpKept(L, A) /\ Gp(A, {}) /\ IsLow(A)
  BY ReserveRight DEF Right, FpKept, Goes
<1> HIDE DEF A
<1>2. Took(A, B, r, {})
  BY <1>1, Loaded
<1> HIDE DEF B, r
<1>3. {} \cup {r} = {r}
  OBVIOUS
<1>4. FpKept(A, B) /\ IsLow(B) /\ Gp(B, {r})
  BY <1>2, <1>3 DEF Took, FpKept, Goes, Gp
<1>5. Right(B, PushReg(B, r))
  BY <1>4, RegPushed
<1> QED
  BY <1>1, <1>4, <1>5, RightThrough DEF PushLoad, LoadNew, A, B, r

LEMMA IvarFetchRight ==
  ASSUME NEW L, IsLow(L), Gp(L, {}), Len(L.vs) \in Nat, NEW off
  PROVE  Right(L, IvarFetch(L, off))
<1> DEFINE A == PushLoad(L, [op |-> "ldself"])
           i == [op |-> "ldr", rd |-> Top(A).v, rn |-> Top(A).v, off |-> off]
<1>1. Right(L, A) /\ IsLow(A) /\ Gp(A, {})
  BY PushLoadRight DEF Right, FpKept, Goes
<1>2. IvarFetch(L, off) = Emit(A, i)
  BY DEF IvarFetch
<1> HIDE DEF A, i
<1>3. Right(A, Emit(A, i))
  BY <1>1, EmitKeeps DEF Right
<1> QED
  BY <1>1, <1>2, <1>3, RightThrough DEF Right

LEMMA CacheCellRight ==
  ASSUME NEW L, IsLow(L), Gp(L, {}), NEW a, L.panic \/ a \notin DOMAIN L.cells
  PROVE  Right(L, CacheCell(L, a))
<1> DEFINE A == Load(L, [op |-> "movi", n |-> a])  r == Got(L)
           i == [op |-> "ldr", rd |-> r, rn |-> r, off |-> 0]
           B == Emit(A, i)  M == CacheCell(L, a)
<1>1. Took(L, A, r, {}) /\ IsLow(A)
  BY Loaded DEF Took, FpKept, Goes
<1>2. M = [B EXCEPT !.cells = With(@, a, r)]
  BY DEF CacheCell, ToReg, Const
<1> HIDE DEF A, r, M, i
<1>3. FpKept(A, B) /\ GpKept(A, B) /\ IsLow(B) /\ B.panic = A.panic
  BY <1>1, Emitted DEF FpKept, Goes, Emit, IsLow, Fields
<1> HIDE DEF B
<1>4. /\ FpKept(B, M) /\ M.vs = B.vs /\ M.lcache = B.lcache /\ M.ipins = B.ipins /\ M.panic = B.panic
      /\ M.cells = With(B.cells, a, r) /\ M.used = B.used
  BY <1>2, <1>3 DEF IsLow, Fields, FpKept, Goes, FpSame
<1>5. Gp(B, {r})
  <2>1. {} \cup {r} = {r}
    OBVIOUS
  <2>2. Gp(A, {r})
    BY <1>1, <2>1 DEF Took, Gp
  <2> QED
    BY <1>3, <2>2, GpStays
<1>6. B.panic \/ a \notin DOMAIN B.cells
  BY <1>1, <1>3 DEF Took, GpKept, GpSame, FpKept, Goes
<1>7. Gp(M, {})
  BY <1>4, <1>5, <1>6, CellCached
<1> QED
  BY <1>1, <1>3, <1>4, <1>7, FpKeptThrough DEF Right, Took, M

LEMMA FetchFromRight ==
  ASSUME NEW L, Ready(L, 1)
  PROVE  Right(L, FetchFrom(L))
<1> DEFINE a == Top(L)  P == Pop(L, 1)  C == CacheCell(P, a.v)
<1>1. IsLow(P) /\ FpKept(L, P) /\ Gp(P, RegOf(a))
  BY OneOperand
<1>2. P.cells = L.cells /\ P.panic = L.panic
  BY DEF Pop, Ready, IsLow, Fields
<1>3. CASE a.k = "Const" /\ a.v \in DOMAIN L.cells
  <2>1. FetchFrom(L) = PushCopy(P, Reg(P.cells[a.v]))
    BY <1>3 DEF FetchFrom
  <2>2. RegOf(a) = {}
    BY <1>3 DEF RegOf
  <2> HIDE DEF P, a
  <2>3. Right(P, PushCopy(P, Reg(P.cells[a.v])))
    BY <1>1, <2>2, CopyPushed
  <2> QED
    BY <1>1, <2>1, <2>3, RightThrough
<1>4. CASE a.k = "Const" /\ a.v \notin DOMAIN L.cells /\ <<"cell", a.v>> \in L.hot
  <2>1. FetchFrom(L) = PushCopy(C, Reg(C.cells[a.v]))
    BY <1>4 DEF FetchFrom
  <2>2. RegOf(a) = {}
    BY <1>4 DEF RegOf
  <2> HIDE DEF P, a
  <2>3. FpKept(P, C) /\ Gp(C, {}) /\ IsLow(C)
    BY <1>1, <1>2, <1>4, <2>2, CacheCellRight DEF Right, FpKept, Goes
  <2> HIDE DEF C
  <2>4. Right(C, PushCopy(C, Reg(C.cells[a.v])))
    BY <2>3, CopyPushed
  <2> QED
    BY <1>1, <2>1, <2>3, <2>4, RightThrough
<1>5. CASE ~(a.k = "Const" /\ a.v \in DOMAIN L.cells) /\ ~(a.k = "Const" /\ <<"cell", a.v>> \in L.hot)
  <2>1. FetchFrom(L) = LoadThrough(L, [op |-> "ldr", off |-> 0])
    BY <1>5, Zenon DEF FetchFrom
  <2> QED
    BY <2>1, LoadThroughRight
<1> QED
  BY <1>3, <1>4, <1>5

LEMMA StoreAtRight ==
  ASSUME NEW L, Ready(L, 2), NEW i
  PROVE  Right(L, StoreAt(L, i))
<1> DEFINE addr == Nth(L.vs, 0)  x == Nth(L.vs, 1)  P == Pop(L, 2)
           A == ToReg(P, addr)  ra == InReg(P, addr)
           B == ToReg(A, x)  rx == InReg(A, x)
           C == Emit(B, [rn |-> ra, rm |-> rx] @@ i)
           D == FreeR(C, rx)  E == FreeR(D, ra)
           X == RegOf(x) \cup RegOf(addr)
<1>1. /\ IsLow(P) /\ FpKept(L, P) /\ Gp(P, X)
      /\ InHand(P, addr, RegOf(addr)) /\ InHand(P, x, RegOf(x))
      /\ P.panic \/ RegOf(x) \cap RegOf(addr) = {}
  BY PopTwoKeeps DEF Ready, FpKept, Goes
<1>2. Goes(P, P)
  BY <1>1 DEF Goes
<1> HIDE DEF P, addr, x
<1>3. InHand(P, addr, X) /\ InHand(P, x, X)
  <2>1. RegOf(addr) \subseteq X /\ RegOf(x) \subseteq X
    OBVIOUS
  <2> HIDE DEF X
  <2> QED
    BY <1>1, <1>2, <2>1, StillInHand
<1> HIDE DEF X
<1>4. /\ FpKept(P, A) /\ Gp(A, X \cup {ra}) /\ RegOf(addr) \subseteq {ra}
      /\ A.panic \/ RegOf(addr) = {ra} \/ ra \notin X
  BY <1>1, <1>3, InRegister
<1>5. Goes(P, A) /\ IsLow(A)
  BY <1>4 DEF FpKept, Goes
<1>6. InHand(A, x, X \cup {ra})
  BY <1>3, <1>5, StillInHand
<1> HIDE DEF A, ra
<1>7. /\ FpKept(A, B) /\ Gp(B, (X \cup {ra}) \cup {rx}) /\ RegOf(x) \subseteq {rx}
      /\ B.panic \/ RegOf(x) = {rx} \/ rx \notin X \cup {ra}
  BY <1>4, <1>5, <1>6, InRegister
<1> HIDE DEF B, rx
<1>8. B.panic \/ ra # rx
  BY <1>1, <1>4, <1>7 DEF X, FpKept, Goes
<1>9. FpKept(B, C) /\ Gp(C, (X \cup {ra}) \cup {rx}) /\ IsLow(C)
  BY <1>7, EmitKeeps DEF FpKept, Goes
<1>10. C.panic \/ ra # rx
  BY <1>8, <1>9 DEF FpKept, Goes
<1> HIDE DEF C
<1>11. FpKept(C, D) /\ Gp(D, ((X \cup {ra}) \cup {rx}) \ {rx}) /\ IsLow(D)
  BY <1>9, Freed DEF FpKept, Goes
<1>12. Gp(D, {ra})
  <2>1. CASE D.panic
    BY <2>1 DEF Gp
  <2>2. CASE ~D.panic
    <3>1. ((X \cup {ra}) \cup {rx}) \ {rx} = {ra}
      BY <1>4, <1>7, <1>10, <1>11, <2>2 DEF X, FpKept, Goes
    <3> QED
      BY <1>11, <3>1
  <2> QED
    BY <2>1, <2>2
<1> HIDE DEF D
<1>13. FpKept(D, E) /\ Gp(E, {ra} \ {ra}) /\ {ra} \ {ra} = {}
  BY <1>11, <1>12, Freed
<1> HIDE DEF E
<1>14. FpKept(L, E) /\ Gp(E, {})
  BY <1>1, <1>4, <1>7, <1>9, <1>11, <1>13, FpKeptThrough
<1>15. StoreAt(L, i) = E
  BY DEF StoreAt, addr, x, P, A, B, C, D, E, ra, rx
<1> QED
  BY <1>14, <1>15 DEF Right

LEMMA StoreThroughRight ==
  ASSUME NEW L, IsLow(L), Gp(L, {}), Len(L.vs) \in Nat, NEW i
  PROVE  Right(L, StoreThrough(L, i))
<1> DEFINE A == Reserve(L, 3)  B == ClearCells(A)  C == Ensure(B, 2)
<1>1. FpKept(L, A) /\ Gp(A, {}) /\ IsLow(A) /\ Len(A.vs) \in Nat
  BY ReserveRight DEF Right, FpKept, Goes
<1> HIDE DEF A
<1>2. FpKept(A, B) /\ Gp(B, {}) /\ IsLow(B) /\ Len(B.vs) \in Nat
  BY <1>1, CellsCleared DEF Right, FpKept, Goes
<1> HIDE DEF B
<1>3. FpKept(B, C) /\ Ready(C, 2)
  BY <1>2, EnsureReady
<1> HIDE DEF C
<1>4. Right(C, StoreAt(C, i))
  BY <1>3, StoreAtRight
<1> QED
  BY <1>1, <1>2, <1>3, <1>4, RightThrough, FpKeptThrough DEF StoreThrough, A, B, C

LEMMA CacheLocalRight ==
  ASSUME NEW L, IsLow(L), Gp(L, {}), NEW i, L.panic \/ i \notin DOMAIN L.lcache
  PROVE  Right(L, CacheLocal(L, i))
<1> DEFINE A == Load(L, [op |-> "ldlp", off |-> i])  r == Got(L)
           e == [r |-> r, dirty |-> FALSE]
           M == [A EXCEPT !.lcache = With(@, i, e)]
<1>1. Took(L, A, r, {}) /\ IsLow(A)
  BY Loaded DEF Took, FpKept, Goes
<1>2. e.r = r
  OBVIOUS
<1>3. CacheLocal(L, i) = PushCopy(M, Reg(r))
  BY DEF CacheLocal
<1> HIDE DEF A, r, e
<1>4. /\ FpKept(A, M) /\ M.vs = A.vs /\ M.cells = A.cells /\ M.ipins = A.ipins /\ M.panic = A.panic
      /\ M.lcache = With(A.lcache, i, e) /\ M.used = A.used
  BY <1>1 DEF IsLow, Fields, FpKept, Goes, FpSame
<1> HIDE DEF M
<1>5. Gp(A, {r})
  <2>1. {} \cup {r} = {r}
    OBVIOUS
  <2> QED
    BY <1>1, <2>1 DEF Took, Gp
<1>6. Gp(M, {})
  <2>1. CASE A.panic
    BY <1>4, <2>1 DEF Gp
  <2>2. CASE ~A.panic
    <3>1. A.used \ Superseded(A.lcache, i, r) = A.used
      BY <1>1, <2>2 DEF Took, FpKept, Goes, Superseded
    <3> QED
      BY <1>2, <1>4, <1>5, <3>1, LocalCached
  <2> QED
    BY <2>1, <2>2
<1>7. FpKept(L, M) /\ IsLow(M)
  BY <1>1, <1>4, FpKeptThrough DEF Took, FpKept, Goes
<1>8. Right(M, PushCopy(M, Reg(r)))
  BY <1>6, <1>7, CopyPushed
<1> QED
  BY <1>3, <1>7, <1>8, RightThrough

\* A copy, after making room for it.
LEMMA CopyReserved ==
  ASSUME NEW L, IsLow(L), Gp(L, {}), Len(L.vs) \in Nat, NEW a
  PROVE  Right(L, PushCopy(Reserve(L, 1), a))
<1> DEFINE A == Reserve(L, 1)
<1>1. FpKept(L, A) /\ Gp(A, {}) /\ IsLow(A)
  BY ReserveRight DEF Right, FpKept, Goes
<1> HIDE DEF A
<1>2. Right(A, PushCopy(A, a))
  BY <1>1, CopyPushed
<1> QED
  BY <1>1, <1>2, RightThrough DEF A

LEMMA LocalFetchRight ==
  ASSUME NEW L, IsLow(L), Gp(L, {}), Len(L.vs) \in Nat, NEW i
  PROVE  Right(L, LocalFetch(L, i))
<1>1. CASE i \notin DOMAIN L.ipins /\ i \notin DOMAIN L.lcache /\ <<"local", i>> \in L.hot
  <2> DEFINE A == Reserve(L, 2)
  <2>1. FpKept(L, A) /\ Gp(A, {}) /\ IsLow(A) /\ GpRest(L, A)
    BY ReserveRight DEF Right, FpKept, Goes
  <2>2. LocalFetch(L, i) = CacheLocal(A, i)
    BY <1>1 DEF LocalFetch
  <2> HIDE DEF A
  <2>3. DOMAIN <<>> = {}
    OBVIOUS
  <2>4. A.panic \/ i \notin DOMAIN A.lcache
    BY <1>1, <2>1, <2>3 DEF GpRest, GpSame, GpSettled
  <2>5. Right(A, CacheLocal(A, i))
    BY <2>1, <2>4, CacheLocalRight
  <2> QED
    BY <2>1, <2>2, <2>5, RightThrough
<1>2. Right(L, PushCopy(Reserve(L, 1), Reg(L.ipins[i]))) /\ Right(L, PushCopy(Reserve(L, 1), Reg(L.lcache[i].r)))
  BY CopyReserved
<1>3. Right(L, PushLoad(L, [op |-> "ldlp", off |-> i]))
  BY PushLoadRight
<1> QED
  BY <1>1, <1>2, <1>3 DEF LocalFetch

LEMMA StorePinnedRight ==
  ASSUME NEW L, Ready(L, 1), NEW rp
  PROVE  Right(L, StorePinned(L, rp))
<1> DEFINE a == Top(L)  P == Pop(L, 1)  i == [op |-> "mov", rd |-> rp, rn |-> a.v]  A == Emit(P, i)
           j == [op |-> "movi", rd |-> rp, n |-> a.v]
<1>1. IsLow(P) /\ FpKept(L, P) /\ Gp(P, RegOf(a)) /\ InHand(P, a, RegOf(a))
  BY OneOperand
<1>2. a.k = "Const" => StorePinned(L, rp) = Emit(P, j)
  BY DEF StorePinned
<1>3. a.k # "Const" => StorePinned(L, rp) = FreeR(A, a.v)
  BY DEF StorePinned
<1> HIDE DEF P, a, i, j
<1>4. FpKept(P, A) /\ Gp(A, RegOf(a)) /\ IsLow(A) /\ FpKept(P, Emit(P, j)) /\ Gp(Emit(P, j), RegOf(a))
  BY <1>1, EmitKeeps DEF FpKept, Goes
<1>5. CASE a.k = "Const"
  <2>1. RegOf(a) = {}
    BY <1>5 DEF RegOf
  <2>2. Right(P, Emit(P, j))
    BY <1>4, <2>1 DEF Right
  <2> QED
    BY <1>1, <1>2, <1>5, <2>2, RightThrough
<1>6. CASE a.k # "Const"
  <2>1. A.panic \/ RegOf(a) = {a.v}
    BY <1>1, <1>4, <1>6 DEF InHand, RegOf, FpKept, Goes
  <2> HIDE DEF A
  <2>2. Gp(A, {a.v})
    BY <1>4, <2>1 DEF Gp
  <2>3. FpKept(A, FreeR(A, a.v)) /\ Gp(FreeR(A, a.v), {a.v} \ {a.v}) /\ {a.v} \ {a.v} = {}
    BY <1>4, <2>2, Freed
  <2>4. Right(A, FreeR(A, a.v))
    BY <2>3 DEF Right
  <2> QED
    BY <1>1, <1>3, <1>4, <1>6, <2>4, RightThrough
<1> QED
  BY <1>5, <1>6

LEMMA StoreCachedRight ==
  ASSUME NEW L, Ready(L, 1), NEW i
  PROVE  Right(L, StoreCached(L, i))
<1> DEFINE a == Top(L)  P == Pop(L, 1)  A == ToReg(P, a)  r == InReg(P, a)  e == Stored(r)
           M == StoreCached(L, i)
<1>1. IsLow(P) /\ FpKept(L, P) /\ Gp(P, RegOf(a)) /\ InHand(P, a, RegOf(a))
  BY OneOperand
<1>2. M = [A EXCEPT !.lcache = With(@, i, e), !.used = @ \ Superseded(L.lcache, i, r)]
  BY DEF StoreCached
<1>3. P.lcache = L.lcache /\ e.r = r
  BY DEF Pop, Ready, IsLow, Fields, Stored
<1> HIDE DEF P, a, e
<1>4. FpKept(P, A) /\ Gp(A, RegOf(a) \cup {r}) /\ RegOf(a) \subseteq {r} /\ IsLow(A)
  BY <1>1, InRegister DEF FpKept, Goes
<1>5. A.lcache = P.lcache
  <2>1. Took(P, Load(P, [op |-> "movi", n |-> a.v]), Got(P), RegOf(a))
    BY <1>1, Loaded
  <2> QED
    BY <2>1 DEF ToReg, Took
<1> HIDE DEF A, r, M
<1>6. Gp(A, {r})
  <2>1. RegOf(a) \cup {r} = {r}
    BY <1>4
  <2> QED
    BY <1>4, <2>1
<1>7. /\ FpKept(A, M) /\ M.vs = A.vs /\ M.cells = A.cells /\ M.ipins = A.ipins /\ M.panic = A.panic
      /\ M.lcache = With(A.lcache, i, e) /\ M.used = A.used \ Superseded(A.lcache, i, r)
  BY <1>2, <1>3, <1>4, <1>5 DEF IsLow, Fields, FpKept, Goes, FpSame
<1>8. Gp(M, {})
  BY <1>3, <1>6, <1>7, LocalCached
<1>9. FpKept(L, M)
  BY <1>1, <1>4, <1>7, FpKeptThrough
<1> QED
  BY <1>8, <1>9 DEF Right, M

LEMMA LocalStoreRight ==
  ASSUME NEW L, IsLow(L), Gp(L, {}), Len(L.vs) \in Nat, NEW i
  PROVE  Right(L, LocalStore(L, i))
<1>1. CASE i \in DOMAIN L.ipins
  <2> DEFINE A == Ensure(L, 1)
  <2>1. FpKept(L, A) /\ Ready(A, 1)
    BY EnsureReady
  <2>2. LocalStore(L, i) = StorePinned(A, L.ipins[i])
    BY <1>1 DEF LocalStore
  <2> HIDE DEF A
  <2>3. Right(A, StorePinned(A, L.ipins[i]))
    BY <2>1, StorePinnedRight
  <2> QED
    BY <2>1, <2>2, <2>3, RightThrough
<1>2. CASE i \notin DOMAIN L.ipins
  <2> DEFINE A == Room(L, 2, 1)
  <2>1. FpKept(L, A) /\ Ready(A, 1)
    BY RoomReady
  <2>2. LocalStore(L, i) = StoreCached(A, i)
    BY <1>2 DEF LocalStore
  <2> HIDE DEF A
  <2>3. Right(A, StoreCached(A, i))
    BY <2>1, StoreCachedRight
  <2> QED
    BY <2>1, <2>2, <2>3, RightThrough
<1> QED
  BY <1>1, <1>2

LEMMA IvarStoreRight ==
  ASSUME NEW L, Ready(L, 1), NEW off
  PROVE  Right(L, IvarStore(L, off))
<1> DEFINE a == Top(L)  P == Pop(L, 1)
           A == ToReg(P, a)  rv == InReg(P, a)  i == [op |-> "ldself"]
           B == Load(A, i)  rs == Got(A)
           C == Emit(B, [op |-> "str", rn |-> rs, rm |-> rv, off |-> off])
           D == FreeR(C, rv)  E == FreeR(D, rs)
<1>1. IsLow(P) /\ FpKept(L, P) /\ Gp(P, RegOf(a)) /\ InHand(P, a, RegOf(a))
  BY OneOperand
<1>2. IvarStore(L, off) = E
  BY DEF IvarStore
<1> HIDE DEF P, a
<1>3. FpKept(P, A) /\ Gp(A, RegOf(a) \cup {rv}) /\ RegOf(a) \subseteq {rv} /\ IsLow(A)
  BY <1>1, InRegister DEF FpKept, Goes
<1>4. Gp(A, {rv})
  <2>1. RegOf(a) \cup {rv} = {rv}
    BY <1>3
  <2> QED
    BY <1>3, <2>1
<1> HIDE DEF A, rv
<1>5. Took(A, B, rs, {rv})
  BY <1>3, <1>4, Loaded
<1> HIDE DEF B, rs
<1>6. FpKept(A, B) /\ IsLow(B) /\ Gp(B, {rv} \cup {rs}) /\ (B.panic \/ rs # rv)
  BY <1>5 DEF Took, FpKept, Goes, Gp
<1>7. FpKept(B, C) /\ Gp(C, {rv} \cup {rs}) /\ IsLow(C)
  BY <1>6, EmitKeeps DEF FpKept, Goes
<1>8. C.panic \/ rs # rv
  BY <1>6, <1>7 DEF FpKept, Goes
<1> HIDE DEF C
<1>9. FpKept(C, D) /\ Gp(D, ({rv} \cup {rs}) \ {rv}) /\ IsLow(D)
  BY <1>7, Freed DEF FpKept, Goes
<1> HIDE DEF D
<1>10. Gp(D, {rs})
  <2>1. CASE rs # rv
    <3>1. ({rv} \cup {rs}) \ {rv} = {rs}
      BY <2>1
    <3> QED
      BY <1>9, <3>1
  <2>2. CASE C.panic
    BY <1>9, <2>2 DEF Gp, FpKept, Goes
  <2> QED
    BY <1>8, <2>1, <2>2
<1>11. FpKept(D, E) /\ Gp(E, {rs} \ {rs}) /\ {rs} \ {rs} = {}
  BY <1>9, <1>10, Freed
<1>12. FpKept(L, E)
  BY <1>1, <1>3, <1>6, <1>7, <1>9, <1>11, FpKeptThrough
<1> QED
  BY <1>2, <1>11, <1>12 DEF Right

----------------------------------------------------------------------------
(* Settling the FP half, which may settle the GP half too *)

LEMMA GpRoomRests ==
  ASSUME NEW L, IsLow(L)
  PROVE  FpKept(L, GpRoom(L)) /\ GpRest(L, GpRoom(L))
<1> DEFINE M == SettleData(L)
<1>1. FpKept(L, M) /\ (M.panic \/ GpSettled(L, M))
  BY SettledIs
<1> HIDE DEF M
<1>2. GpRest(L, M)
  BY <1>1 DEF GpRest, FpKept
<1>3. FpKept(L, L) /\ GpRest(L, L)
  BY DEF FpKept, Goes, FpSame, GpRest, GpSame
<1> QED
  BY <1>1, <1>2, <1>3 DEF GpRoom, M

\* The address register of a spill is taken and given back at once.
LEMMA SpillViaRests ==
  ASSUME NEW L, IsLow(L), NEW a
  PROVE  FpKept(L, SpillVia(L, a)) /\ GpRest(L, SpillVia(L, a))
<1> DEFINE A == Take(L)  g == Got(L)
           is == << [op |-> "movi", rd |-> g, n |-> a], [op |-> "fstr", rn |-> g, rm |-> L.fvcache[a].r] >>
           B == EmitAll(A, is)  M == FreeR(B, g)
<1>1. SpillVia(L, a) = M
  BY DEF SpillVia
<1> HIDE DEF is
<1>2. /\ FpKept(L, A) /\ A.vs = L.vs /\ A.lcache = L.lcache /\ A.cells = L.cells /\ A.ipins = L.ipins
      /\ A.panic \/ (A.used = L.used \cup {g} /\ g \notin L.used)
  <2>1. CASE Free(L) = {}
    BY <2>1 DEF Take, IsLow, Fields, FpKept, Goes, FpSame
  <2>2. CASE Free(L) # {}
    <3>1. g \notin L.used
      BY <2>2, FreshRegister
    <3>2. A = [L EXCEPT !.used = @ \cup {g}]
      BY <2>2 DEF Take, Got
    <3> HIDE DEF A, g
    <3> QED
      BY <3>1, <3>2 DEF IsLow, Fields, FpKept, Goes, FpSame
  <2> QED
    BY <2>1, <2>2
<1> HIDE DEF A, g
<1>3. FpKept(A, B) /\ GpKept(A, B) /\ IsLow(B)
  BY <1>2, Emitted DEF FpKept, Goes
<1> HIDE DEF B
<1>4. /\ FpKept(B, M) /\ M.vs = B.vs /\ M.lcache = B.lcache /\ M.cells = B.cells /\ M.ipins = B.ipins
      /\ M.panic = B.panic /\ M.used = B.used \ {g}
  BY <1>3 DEF FreeR, IsLow, Fields, FpKept, Goes, FpSame
<1> HIDE DEF M
<1>5. M.panic \/ M.used = L.used
  BY <1>2, <1>3, <1>4 DEF GpKept, Goes, GpSame
<1>6. FpKept(L, M)
  BY <1>2, <1>3, <1>4, FpKeptThrough
<1>7. GpRest(L, M)
  BY <1>2, <1>3, <1>4, <1>5, <1>6 DEF GpRest, GpKept, GpSame, FpKept
<1> QED
  BY <1>1, <1>6, <1>7

LEMMA SpillFvarRests ==
  ASSUME NEW L, IsLow(L), NEW a
  PROVE  FpKept(L, SpillFvar(L, a)) /\ GpRest(L, SpillFvar(L, a))
<1> DEFINE A == GpRoom(L)
<1>1. FpKept(L, A) /\ GpRest(L, A) /\ IsLow(A)
  BY GpRoomRests DEF FpKept, Goes
<1> HIDE DEF A
<1>2. FpKept(A, SpillVia(A, a)) /\ GpRest(A, SpillVia(A, a))
  BY <1>1, SpillViaRests
<1> QED
  BY <1>1, <1>2, FpKeptThrough, GpRestThrough DEF SpillFvar, A

\* Induction over the subsets of a finite set, one element less at a time.
LEMMA UpSets ==
  ASSUME NEW S, IsFiniteSet(S), NEW c, \A s \in SUBSET S : s # {} => c[s] \in s,
         NEW D, {} \in D, \A s \in SUBSET S : s # {} /\ s \ {c[s]} \in D => s \in D
  PROVE  S \in D
<1> DEFINE n == Cardinality(S)
           Done == {m \in 0 .. n : \A s \in SUBSET S : Cardinality(s) <= m => s \in D}
<1>1. n \in Nat /\ \A s \in SUBSET S : /\ Cardinality(s) \in Nat /\ Cardinality(s) <= n
                                       /\ Cardinality(s) = 0 => s = {}
  BY FS_CardinalityType, FS_Subset, FS_EmptySet
<1>2. \A s \in SUBSET S : s # {} => s \ {c[s]} \in SUBSET S /\ Cardinality(s \ {c[s]}) = Cardinality(s) - 1
  <2> SUFFICES ASSUME NEW s \in SUBSET S, s # {} PROVE Cardinality(s \ {c[s]}) = Cardinality(s) - 1
    OBVIOUS
  <2> QED
    BY FS_RemoveElement, FS_Subset
<1> HIDE DEF n
<1>3. 0 \in Done
  <2>1. ASSUME NEW s \in SUBSET S, Cardinality(s) <= 0 PROVE s \in D
    <3> HIDE DEF Done
    <3>1. Cardinality(s) \in Nat /\ (Cardinality(s) = 0 => s = {})
      BY <1>1
    <3>2. Cardinality(s) = 0
      BY <2>1, <3>1
    <3> QED
      BY <3>1, <3>2
  <2>2. 0 \in 0 .. n
    BY <1>1
  <2> QED
    BY <2>1, <2>2
<1>4. ASSUME NEW m \in 0 .. n - 1, m \in Done PROVE m + 1 \in Done
  <2>1. m + 1 \in 0 .. n
    BY <1>1
  <2>2. ASSUME NEW s \in SUBSET S, Cardinality(s) <= m + 1 PROVE s \in D
    <3>1. CASE s # {}
      <4>1. s \ {c[s]} \in SUBSET S /\ Cardinality(s \ {c[s]}) <= m
        BY <1>1, <1>2, <2>2, <3>1
      <4>2. s \ {c[s]} \in D
        BY <1>4, <4>1
      <4> QED
        BY <3>1, <4>2
    <3> QED
      BY <3>1
  <2> QED
    BY <2>1, <2>2
<1>5. n \in Done
  <2> HIDE DEF Done
  <2>1. \A m \in 0 .. n : m \in Done
    BY <1>1, <1>3, <1>4, UpTo
  <2> QED
    BY <1>1, <2>1
<1> QED
  BY <1>1, <1>5

\* spill_fvars' loop, turn by turn: f[s] is what it is after the fvariables of s.
LEMMA SpillTurns ==
  ASSUME NEW L, NEW S, IsFiniteSet(S)
  PROVE  \E f, c : /\ \A s \in SUBSET S : s # {} => c[s] \in s
                   /\ f[{}] = L /\ \A s \in SUBSET S : s # {} => f[s] = SpillFvar(f[s \ {c[s]}], c[s])
                   /\ FoldSet(LAMBDA a, A : SpillFvar(A, a), L, S) = f[S]
<1> DEFINE c == [s \in SUBSET S |-> CHOOSE x \in s : TRUE]
           Fold(it) == it = [s \in SUBSET S |->
                               IF s = {} THEN L
                               ELSE SpillFvar(it[s \ {CHOOSE x \in s : TRUE}], CHOOSE x \in s : TRUE)]
           fold == CHOOSE it : Fold(it)
           M == FoldSet(LAMBDA a, A : SpillFvar(A, a), L, S)
<1>1. M = fold[S]
  BY Zenon DEF FoldSet, MapThenFoldSet
<1> HIDE DEF M
<1>2. \A s \in SUBSET S : s # {} => c[s] \in s
  OBVIOUS
<1>3. PICK f : IsSteps(f, "spill", L, S, c)
  <2> HIDE DEF c
  <2> QED
    BY <1>2, StepsExist
<1>4. Fold(f)
  BY <1>3 DEF LowStep, IsSteps
<1>5. Fold(fold)
  <2> HIDE DEF Fold
  <2> QED
    BY <1>4, Zenon
<1> HIDE DEF fold
<1>6. fold[{}] = L /\ \A s \in SUBSET S : s # {} => fold[s] = SpillFvar(fold[s \ {c[s]}], c[s])
  BY <1>5
<1> HIDE DEF Fold, c
<1> QED
  BY <1>1, <1>2, <1>6 DEF M

LEMMA SpillsRest ==
  ASSUME NEW L, IsLow(L), NEW S, IsFiniteSet(S)
  PROVE  LET M == FoldSet(LAMBDA a, A : SpillFvar(A, a), L, S)
         IN  FpKept(L, M) /\ GpRest(L, M)
<1> DEFINE Spilt(A) == FpKept(L, A) /\ GpRest(L, A)
<1>1. PICK f, c : /\ \A s \in SUBSET S : s # {} => c[s] \in s
                  /\ f[{}] = L /\ \A s \in SUBSET S : s # {} => f[s] = SpillFvar(f[s \ {c[s]}], c[s])
                  /\ FoldSet(LAMBDA a, A : SpillFvar(A, a), L, S) = f[S]
  BY SpillTurns
<1>2. Spilt(L)
  BY DEF FpKept, Goes, FpSame, GpRest, GpSame
<1>3. \A A, a : Spilt(A) => Spilt(SpillFvar(A, a))
  <2> SUFFICES ASSUME NEW A, NEW a, Spilt(A) PROVE Spilt(SpillFvar(A, a))
    OBVIOUS
  <2>1. IsLow(A)
    BY DEF FpKept, Goes
  <2>2. FpKept(A, SpillFvar(A, a)) /\ GpRest(A, SpillFvar(A, a))
    BY <2>1, SpillFvarRests
  <2> QED
    BY <2>2, FpKeptThrough, GpRestThrough
<1> HIDE DEF Spilt
<1> DEFINE D == {s \in SUBSET S : Spilt(f[s])}
<1>4. {} \in D
  BY <1>1, <1>2
<1>5. ASSUME NEW s \in SUBSET S, s # {}, s \ {c[s]} \in D PROVE s \in D
  <2>1. Spilt(f[s \ {c[s]}]) /\ f[s] = SpillFvar(f[s \ {c[s]}], c[s])
    BY <1>1, <1>5
  <2>2. Spilt(f[s])
    BY <1>3, <2>1
  <2> QED
    BY <2>2
<1>6. S \in D
  <2> HIDE DEF D
  <2> QED
    BY <1>1, <1>4, <1>5, UpSets
<1> QED
  BY <1>1, <1>6 DEF Spilt


FpSettled(L, M) ==
  /\ M.fvs = <<FTOS>> /\ M.fused = {FTOS} \cup Range(L.fpins) /\ M.flcache = <<>> /\ M.fvcache = <<>>
  /\ M.fpins = L.fpins
FpRest(L, M) == Goes(L, M) /\ (M.panic \/ FpSame(L, M) \/ FpSettled(L, M))

\* What of the FP half a settle step leaves alone on its way.
FpPart(L, M) == M.fvs = L.fvs /\ M.flcache = L.flcache /\ M.fvcache = L.fvcache /\ M.fpins = L.fpins

LEMMA FvarsSpilt ==
  ASSUME NEW L, IsLow(L), NEW M, M = SpillFvars(L)
  PROVE  GpRest(L, M) /\ M.fvs = L.fvs /\ M.flcache = L.flcache /\ M.fvcache = <<>> /\ M.fpins = L.fpins
<1> DEFINE dirty == {a \in DOMAIN L.fvcache : L.fvcache[a].dirty}
           A == FoldSet(LAMBDA a, B : SpillFvar(B, a), L, dirty)
<1>1. IsFiniteSet(dirty)
  BY FS_Subset DEF IsLow
<1>2. M = [A EXCEPT !.fused = @ \ {L.fvcache[a].r : a \in DOMAIN L.fvcache}, !.fvcache = <<>>]
  BY DEF SpillFvars
<1> HIDE DEF dirty
<1>3. FpKept(L, A) /\ GpRest(L, A)
  BY <1>1, SpillsRest
<1> HIDE DEF A
<1>4. IsLow(A)
  BY <1>3 DEF FpKept, Goes
<1>5. IsFiniteSet(DOMAIN <<>>)
  <2>1. DOMAIN <<>> = {}
    OBVIOUS
  <2> QED
    BY <2>1, FS_EmptySet
<1>6. GpKept(A, M) /\ M.fvs = A.fvs /\ M.flcache = A.flcache /\ M.fvcache = <<>> /\ M.fpins = A.fpins
  BY <1>2, <1>4, <1>5 DEF IsLow, Fields, GpKept, Goes, GpSame
<1> QED
  BY <1>3, <1>6, GpKeptRests, GpRestThrough DEF FpKept, FpSame

LEMMA FlocalsSpilt ==
  ASSUME NEW L, IsLow(L), NEW M, M = SpillFlocals(L)
  PROVE  GpKept(L, M) /\ M.fvs = L.fvs /\ M.flcache = <<>> /\ M.fvcache = L.fvcache /\ M.fpins = L.fpins
<1> DEFINE A == EmitAll(L, Spills(L.flcache, "fstlp"))
<1>1. GpKept(L, A) /\ FpKept(L, A) /\ IsLow(A)
  BY Emitted DEF FpKept, Goes
<1>2. M = [A EXCEPT !.fused = @ \ {L.flcache[i].r : i \in DOMAIN L.flcache}, !.flcache = <<>>]
  BY DEF SpillFlocals
<1> HIDE DEF A
<1>3. GpKept(A, M) /\ M.fvs = A.fvs /\ M.flcache = <<>> /\ M.fvcache = A.fvcache /\ M.fpins = A.fpins
  BY <1>1, <1>2 DEF IsLow, Fields, GpKept, Goes, GpSame
<1> QED
  BY <1>1, <1>3 DEF GpKept, Goes, GpSame, FpKept, FpSame

LEMMA FTakeSame ==
  ASSUME NEW L, IsLow(L)
  PROVE  GpKept(L, FTake(L)) /\ FpPart(L, FTake(L))
<1> DEFINE M == FTake(L)  d == FGot(L)
<1>1. M = [L EXCEPT !.panic = TRUE] \/ M = [L EXCEPT !.fused = @ \cup {d}]
  BY DEF FTake
<1> HIDE DEF M, d
<1>2. GpKept(L, M) /\ FpPart(L, M)
  BY <1>1 DEF IsLow, Fields, GpKept, Goes, GpSame, FpPart
<1> QED
  BY <1>2 DEF M

LEMMA FFilledSame ==
  ASSUME NEW L, IsLow(L), NEW M, M = FFilled(L)
  PROVE  GpKept(L, M) /\ M.flcache = L.flcache /\ M.fvcache = L.fvcache /\ M.fpins = L.fpins
<1>1. CASE L.fvs # <<>>
  BY <1>1 DEF FFilled, GpKept, Goes, GpSame
<1>2. CASE L.fvs = <<>>
  <2> DEFINE A == FTake(L)  d == FGot(L)  i == [op |-> "fldsp", rd |-> d, off |-> L.fconsumed]
             B == Emit(A, i)
  <2>1. M = [B EXCEPT !.fconsumed = @ + 1, !.fvs = <<d>> \o @]
    BY <1>2 DEF FFilled, FPullInto
  <2>2. GpKept(L, A) /\ FpPart(L, A) /\ IsLow(A)
    BY FTakeSame DEF GpKept, Goes
  <2> HIDE DEF A, d, i
  <2>3. GpKept(A, B) /\ FpKept(A, B) /\ IsLow(B)
    BY <2>2, Emitted DEF FpKept, Goes
  <2> HIDE DEF B
  <2>4. GpKept(B, M) /\ M.flcache = B.flcache /\ M.fvcache = B.fvcache /\ M.fpins = B.fpins
    BY <2>1, <2>3 DEF IsLow, Fields, GpKept, Goes, GpSame
  <2> QED
    BY <2>2, <2>3, <2>4 DEF GpKept, Goes, GpSame, FpPart, FpKept, FpSame
<1> QED
  BY <1>1, <1>2

\* fsettle: the FP half ends settled, the GP half may have been.
LEMMA FSettledIs ==
  ASSUME NEW L, IsLow(L), NEW M, M = FSettle(L)
  PROVE  GpRest(L, M) /\ FpRest(L, M) /\ (M.panic \/ FpSettled(L, M))
<1> DEFINE A == SpillFvars(L)  B == SpillFlocals(A)  C == FFilled(B)
<1>1. GpRest(L, A) /\ A.fvcache = <<>> /\ A.fpins = L.fpins /\ IsLow(A)
  BY FvarsSpilt DEF GpRest, Goes
<1>2. M = FUnwind(C)
  BY DEF FSettle
<1> HIDE DEF A
<1>3. GpKept(A, B) /\ B.flcache = <<>> /\ B.fvcache = <<>> /\ B.fpins = A.fpins /\ IsLow(B)
  BY <1>1, FlocalsSpilt DEF GpKept, Goes
<1> HIDE DEF B
<1>4. GpKept(B, C) /\ C.flcache = <<>> /\ C.fvcache = <<>> /\ C.fpins = B.fpins /\ IsLow(C)
  BY <1>3, FFilledSame DEF GpKept, Goes
<1> HIDE DEF C
<1>5. PICK code : M = FCanonical(EmitAll(C, code))
  BY <1>2, Zenon DEF FUnwind
<1> DEFINE D == EmitAll(C, code)
<1>6. GpKept(C, D) /\ FpKept(C, D) /\ IsLow(D)
  BY <1>4, Emitted DEF FpKept, Goes
<1>7. M = FCanonical(D)
  BY <1>5
<1> HIDE DEF D
<1>8. GpKept(D, M) /\ M.fvs = <<FTOS>> /\ M.fused = {FTOS} \cup Range(D.fpins)
      /\ M.flcache = D.flcache /\ M.fvcache = D.fvcache /\ M.fpins = D.fpins
  BY <1>6, <1>7 DEF FCanonical, IsLow, Fields, GpKept, Goes, GpSame
<1>9. FpSettled(L, M)
  BY <1>1, <1>3, <1>4, <1>6, <1>8 DEF FpSettled, FpKept, FpSame
<1>10. GpRest(L, M)
  BY <1>1, <1>3, <1>4, <1>6, <1>8, GpKeptRests, GpRestThrough
<1> QED
  BY <1>9, <1>10 DEF FpRest, GpRest

----------------------------------------------------------------------------
(* The FP window: a sequence of registers, no two the same *)

FWindow(s) == (\E S : s \in Seq(S)) /\ IsInjective(s)

LEMMA InFWindow ==
  ASSUME NEW s, FWindow(s)
  PROVE  Len(s) \in Nat /\ DOMAIN s = 1 .. Len(s) /\ s \in Seq(Range(s))
<1>1. PICK S : s \in Seq(S)
  BY DEF FWindow
<1>2. Len(s) \in Nat /\ DOMAIN s = 1 .. Len(s) /\ s \in [1 .. Len(s) -> S]
  BY <1>1, LenProperties, ElementOfSeq
<1>3. s \in [1 .. Len(s) -> Range(s)]
  BY <1>2 DEF Range
<1> QED
  BY <1>2, <1>3, IsASeq

\* t is s with register d added, at either end.
FGrown(t, s, d) == FWindow(t) /\ Range(t) = Range(s) \cup {d} /\ Len(t) = Len(s) + 1

LEMMA FPushedWindow ==
  ASSUME NEW s, FWindow(s), NEW d, d \notin Range(s), NEW t, t = Append(s, d)
  PROVE  FGrown(t, s, d)
<1> DEFINE S == Range(s) \cup {d}
<1>1. s \in Seq(S) /\ d \in S /\ Len(s) \in Nat /\ DOMAIN s = 1 .. Len(s)
  <2>1. s \in Seq(Range(s)) /\ Range(s) \subseteq S /\ Len(s) \in Nat /\ DOMAIN s = 1 .. Len(s)
    BY InFWindow
  <2>2. s \in [1 .. Len(s) -> S]
    BY <2>1 DEF Range
  <2> QED
    BY <2>1, <2>2, IsASeq
<1> HIDE DEF S
<1>2. t \in Seq(S) /\ Len(t) = Len(s) + 1 /\ (\A k \in 1 .. Len(s) : t[k] = s[k]) /\ t[Len(s) + 1] = d
  BY <1>1, Pushed
<1>3. DOMAIN t = 1 .. Len(s) + 1
  BY <1>2
<1>4. \A k \in 1 .. Len(s) + 1 : k = Len(s) + 1 \/ k \in 1 .. Len(s)
  BY <1>1
<1>5. \A k \in 1 .. Len(s) : s[k] # d /\ k \in 1 .. Len(s) + 1
  BY <1>1 DEF Range
<1>6. IsInjective(t)
  BY <1>1, <1>2, <1>3, <1>4, <1>5 DEF IsInjective, FWindow
<1>7. Range(t) = Range(s) \cup {d}
  <2>1. Len(s) + 1 \in 1 .. Len(s) + 1
    BY <1>1
  <2> QED
    BY <1>1, <1>2, <1>3, <1>4, <1>5, <2>1 DEF Range
<1> QED
  BY <1>2, <1>6, <1>7 DEF FGrown, FWindow

LEMMA FPulledWindow ==
  ASSUME NEW s, FWindow(s), NEW d, d \notin Range(s), NEW t, t = <<d>> \o s
  PROVE  FGrown(t, s, d)
<1> DEFINE S == Range(s) \cup {d}  b == <<d>>
<1>1. s \in Seq(S) /\ d \in S /\ Len(s) \in Nat /\ DOMAIN s = 1 .. Len(s)
  <2>1. s \in Seq(Range(s)) /\ Range(s) \subseteq S /\ Len(s) \in Nat /\ DOMAIN s = 1 .. Len(s)
    BY InFWindow
  <2>2. s \in [1 .. Len(s) -> S]
    BY <2>1 DEF Range
  <2> QED
    BY <2>1, <2>2, IsASeq
<1> HIDE DEF S
<1>2. b \in Seq(S) /\ Len(b) = 1 /\ b[1] = d /\ t = b \o s
  BY <1>1
<1> HIDE DEF b
<1>3. IsJoin(t, b, s, S)
  BY <1>1, <1>2, JoinedIs
<1>4. t \in Seq(S) /\ Len(t) = Len(s) + 1 /\ t[1] = d /\ \A k \in 1 .. Len(s) : t[1 + k] = s[k]
  BY <1>1, <1>2, <1>3 DEF IsJoin
<1>5. DOMAIN t = 1 .. Len(s) + 1 /\ 1 \in 1 .. Len(s) + 1
  BY <1>1, <1>4
<1>6. \A k \in 1 .. Len(s) + 1 : k = 1 \/ (k - 1 \in 1 .. Len(s) /\ t[k] = s[k - 1])
  <2> SUFFICES ASSUME NEW k \in 1 .. Len(s) + 1, k # 1 PROVE k - 1 \in 1 .. Len(s) /\ t[k] = s[k - 1]
    OBVIOUS
  <2>1. k - 1 \in 1 .. Len(s) /\ 1 + (k - 1) = k
    BY <1>1
  <2> QED
    BY <1>4, <2>1
<1>7. \A k \in 1 .. Len(s) : s[k] # d /\ k + 1 \in 1 .. Len(s) + 1 /\ t[k + 1] = s[k]
  <2> SUFFICES ASSUME NEW k \in 1 .. Len(s) PROVE s[k] # d /\ k + 1 \in 1 .. Len(s) + 1 /\ t[k + 1] = s[k]
    OBVIOUS
  <2>1. k + 1 = 1 + k /\ k + 1 \in 1 .. Len(s) + 1
    BY <1>1
  <2> QED
    BY <1>1, <1>4, <2>1 DEF Range
<1>8. IsInjective(t)
  <2> SUFFICES ASSUME NEW j \in 1 .. Len(s) + 1, NEW k \in 1 .. Len(s) + 1, t[j] = t[k] PROVE j = k
    BY <1>5 DEF IsInjective
  <2>1. CASE j # 1 /\ k # 1
    <3>1. s[j - 1] = s[k - 1] /\ j - 1 \in DOMAIN s /\ k - 1 \in DOMAIN s
      BY <1>1, <1>6, <2>1
    <3>2. j - 1 = k - 1
      BY <3>1 DEF IsInjective, FWindow
    <3> QED
      BY <3>2
  <2> QED
    BY <1>4, <1>6, <1>7, <2>1
<1>9. Range(t) = Range(s) \cup {d}
  <2>1. Range(t) = {t[k] : k \in 1 .. Len(s) + 1} /\ Range(s) = {s[k] : k \in 1 .. Len(s)}
    BY <1>1, <1>5 DEF Range
  <2>2. Range(t) \subseteq Range(s) \cup {d}
    BY <1>4, <1>6, <2>1
  <2>3. Range(s) \cup {d} \subseteq Range(t)
    <3>1. \A k \in DOMAIN s : k + 1 \in DOMAIN t /\ s[k] = t[k + 1]
      BY <1>1, <1>5, <1>7
    <3>2. 1 \in DOMAIN t /\ d = t[1]
      BY <1>1, <1>4, <1>5
    <3> QED
      <4> SUFFICES ASSUME NEW k \in DOMAIN s PROVE s[k] \in Range(t)
        BY <3>2 DEF Range
      <4> QED
        BY <3>1 DEF Range
  <2> QED
    BY <2>2, <2>3
<1> QED
  BY <1>4, <1>8, <1>9 DEF FGrown, FWindow

\* t is s without its n top registers.
IsFCut(t, s, n) ==
  /\ FWindow(t) /\ Len(t) = Len(s) - n
  /\ Range(s) = Range(t) \cup {s[k] : k \in Len(s) - n + 1 .. Len(s)}
  /\ \A k \in Len(s) - n + 1 .. Len(s) : s[k] \notin Range(t)

LEMMA FCutWindow ==
  ASSUME NEW s, FWindow(s), NEW n \in 0 .. Len(s), NEW t, t = DropN(s, n)
  PROVE  IsFCut(t, s, n)
<1>1. Len(s) \in Nat /\ DOMAIN s = 1 .. Len(s) /\ s \in Seq(Range(s))
  BY InFWindow
<1>2. PICK m \in 0 .. Len(s) : m = Len(s) - n
  <2>1. Len(s) \in Nat
    BY <1>1
  <2>2. Len(s) - n \in 0 .. Len(s)
    BY <2>1
  <2> QED
    BY <2>2
<1>3. t \in Seq(Range(s)) /\ Len(t) = m /\ \A k \in 1 .. m : t[k] = s[k]
  <2>1. /\ SubSeq(s, 1, m) \in Seq(Range(s)) /\ Len(SubSeq(s, 1, m)) = m
        /\ \A j \in 1 .. m : SubSeq(s, 1, m)[j] = s[j]
    BY <1>1, CutTo
  <2> QED
    BY <1>2, <2>1 DEF DropN
<1>4. DOMAIN t = 1 .. m /\ m \in Nat
  BY <1>1, <1>3
<1>5. 1 .. Len(s) = 1 .. m \cup (m + 1 .. Len(s)) /\ 1 .. m \cap (m + 1 .. Len(s)) = {}
  BY <1>1
<1>6. IsInjective(t)
  BY <1>1, <1>3, <1>4, <1>5 DEF IsInjective, FWindow
<1>7. Range(s) = Range(t) \cup {s[k] : k \in m + 1 .. Len(s)}
  BY <1>1, <1>3, <1>4, <1>5 DEF Range
<1>8. \A k \in m + 1 .. Len(s) : s[k] \notin Range(t)
  <2> SUFFICES ASSUME NEW k \in m + 1 .. Len(s), NEW j \in 1 .. m, t[j] = s[k] PROVE FALSE
    BY <1>4 DEF Range
  <2>1. s[j] = s[k] /\ j \in DOMAIN s /\ k \in DOMAIN s
    BY <1>1, <1>3, <1>5
  <2>2. j = k
    BY <2>1 DEF IsInjective, FWindow
  <2> QED
    BY <1>5, <2>2
<1> QED
  BY <1>2, <1>3, <1>6, <1>7, <1>8 DEF IsFCut, FWindow

LEMMA FSwapWindow ==
  ASSUME NEW s, FWindow(s), Len(s) >= 2, NEW t, t = Motion("Swap", s)
  PROVE  FWindow(t) /\ Range(t) = Range(s)
<1> DEFINE m == Len(s)  b == <<s[m], s[m - 1]>>  S == Range(s)
           p == [k \in 1 .. m |-> IF k = m - 1 THEN m ELSE IF k = m THEN m - 1 ELSE k]
<1>0. m \in Nat
  BY InFWindow
<1>1. m \in Nat /\ DOMAIN s = 1 .. m /\ s \in Seq(S)
  BY InFWindow
<1>2. m \in 1 .. m /\ m - 1 \in 1 .. m /\ 2 \in 0 .. m /\ s[m] \in S /\ s[m - 1] \in S
  BY <1>1 DEF Range
<1>3. t = DropN(s, 2) \o b
  <2>1. m - 0 = m
    BY <1>1
  <2> QED
    BY <2>1 DEF Motion, Nth
<1> HIDE DEF S
<1>4. b \in Seq(S) /\ Len(b) = 2 /\ b[1] = s[m] /\ b[2] = s[m - 1]
  BY <1>2
<1> HIDE DEF b
<1>5. IsRetopped(DropN(s, 2) \o b, s, 2, b, S)
  BY <1>1, <1>2, <1>4, Retopped
<1>6. t \in Seq(S) /\ Len(t) = m /\ (\A k \in 1 .. m - 2 : t[k] = s[k]) /\ t[m - 1] = s[m] /\ t[m] = s[m - 1]
  <2>1. m - 2 + 2 = m /\ m - 2 + 1 = m - 1 /\ 1 \in 1 .. 2 /\ 2 \in 1 .. 2
    BY <1>1
  <2>2. t[m - 2 + 1] = s[m] /\ t[m - 2 + 2] = s[m - 1] /\ t \in Seq(S) /\ Len(t) = m - 2 + 2
        /\ \A k \in 1 .. m - 2 : t[k] = s[k]
    BY <1>3, <1>4, <1>5, <2>1 DEF IsRetopped
  <2> QED
    BY <2>1, <2>2
<1>7. DOMAIN t = 1 .. m
  BY <1>6
<1>8. \A k \in 1 .. m : p[k] \in 1 .. m /\ p[p[k]] = k
  BY <1>1, <1>2
<1>9. \A k \in 1 .. m : t[k] = s[p[k]]
  <2> SUFFICES ASSUME NEW k \in 1 .. m PROVE t[k] = s[p[k]]
    OBVIOUS
  <2>1. k = m - 1 \/ k = m \/ (k \in 1 .. m - 2 /\ k # m /\ k # m - 1)
    BY <1>0
  <2>2. m - 1 # m
    BY <1>0
  <2> QED
    BY <1>6, <2>1, <2>2
<1> HIDE DEF p
<1>10. \A k \in 1 .. m : s[k] = t[p[k]]
  BY <1>8, <1>9
<1>11. IsInjective(t)
  <2> SUFFICES ASSUME NEW j \in 1 .. m, NEW k \in 1 .. m, t[j] = t[k] PROVE j = k
    BY <1>7 DEF IsInjective
  <2>1. p[j] = p[k]
    BY <1>1, <1>8, <1>9 DEF IsInjective, FWindow
  <2> QED
    BY <1>8, <2>1
<1>12. Range(t) = Range(s)
  BY <1>1, <1>7, <1>8, <1>9, <1>10 DEF Range
<1> QED
  BY <1>6, <1>11, <1>12 DEF FWindow

----------------------------------------------------------------------------
(* Who holds which FP register; taking, freeing, pushing and popping them *)

FHeld(L) == Range(L.fvs) \cup CacheRegs(L.flcache) \cup CacheRegs(L.fvcache) \cup Range(L.fpins)

\* The same as Apart and Strict, for the FP half.
FApart(L) ==
  /\ FWindow(L.fvs) /\ OneEach(L.flcache) /\ OneEach(L.fvcache) /\ IsInjective(L.fpins)
  /\ Range(L.fpins) \subseteq FPool /\ FHeld(L) \subseteq FpRegs
  /\ Range(L.fvs) \cap (CacheRegs(L.flcache) \cup CacheRegs(L.fvcache) \cup Range(L.fpins)) = {}
  /\ CacheRegs(L.flcache) \cap (CacheRegs(L.fvcache) \cup Range(L.fpins)) = {}
  /\ CacheRegs(L.fvcache) \cap Range(L.fpins) = {}
FStrict(L, Y) ==
  /\ FApart(L)
  /\ Y \subseteq FpRegs /\ Y \cap FHeld(L) = {}
  /\ L.fused \cap FPool = (FHeld(L) \cup Y) \cap FPool
Fp(L, Y) == L.panic \/ FStrict(L, Y)

\* M is what a method should make of the FP registers of L, the GP half left or settled.
FRight(L, M) == GpRest(L, M) /\ Fp(M, {})

LEMMA FpStays ==
  ASSUME NEW L, NEW M, FpKept(L, M), NEW Y, Fp(L, Y)
  PROVE  Fp(M, Y)
BY DEF FpKept, Goes, FpSame, Fp, FStrict, FApart, FHeld

LEMMA GpKeptThrough ==
  ASSUME NEW L, NEW M, NEW N, GpKept(L, M), GpKept(M, N)
  PROVE  GpKept(L, N)
BY DEF GpKept, Goes, GpSame

LEMMA FSettledStrict ==
  ASSUME NEW L, NEW M, FpSettled(L, M), NEW Y, FStrict(L, Y)
  PROVE  FStrict(M, {})
<1>1. FWindow(<<FTOS>>) /\ Range(<<FTOS>>) = {FTOS}
  <2> DEFINE s == <<FTOS>>
  <2>1. s \in Seq({FTOS}) /\ DOMAIN s = 1 .. 1 /\ s[1] = FTOS
    OBVIOUS
  <2> HIDE DEF s
  <2>2. FWindow(s) /\ Range(s) = {FTOS}
    BY <2>1 DEF FWindow, Range, IsInjective
  <2> QED
    BY <2>2 DEF s
<1>2. /\ CacheRegs(M.flcache) = {} /\ CacheRegs(M.fvcache) = {} /\ OneEach(M.flcache) /\ OneEach(M.fvcache)
  BY DEF FpSettled, CacheRegs, OneEach
<1>3. FHeld(M) = {FTOS} \cup Range(L.fpins)
  BY <1>1, <1>2 DEF FHeld, FpSettled
<1>4. FTOS \notin FPool
  BY PoolAssumption
<1>5. FApart(M)
  BY <1>1, <1>2, <1>3, <1>4 DEF FApart, FpSettled, FStrict, FpRegs
<1> QED
  BY <1>3, <1>4, <1>5 DEF FStrict, FpSettled

LEMMA FpRestKeeps ==
  ASSUME NEW L, NEW M, Fp(L, {}), FpRest(L, M)
  PROVE  Fp(M, {})
<1>1. CASE M.panic
  BY <1>1 DEF Fp
<1>2. CASE FpSame(L, M) /\ ~M.panic
  BY <1>2, FpStays DEF FpRest, FpKept
<1>3. CASE FpSettled(L, M) /\ ~M.panic
  BY <1>3, FSettledStrict DEF Fp, FpRest, Goes
<1> QED
  BY <1>1, <1>2, <1>3 DEF FpRest

\* M is L after falloc has taken register d for Y.
FTook(L, M, d, Y) ==
  /\ GpKept(L, M) /\ FpPart(L, M)
  /\ M.panic \/ (d \in FPool /\ d \notin Y /\ d \notin FHeld(L) /\ FStrict(M, Y \cup {d}))

LEMMA FTaken ==
  ASSUME NEW L, IsLow(L), NEW Y, Fp(L, Y)
  PROVE  FTook(L, FTake(L), FGot(L), Y)
<1> DEFINE M == FTake(L)  d == FGot(L)
<1>1. GpKept(L, M) /\ FpPart(L, M)
  BY FTakeSame
<1>2. CASE FFree(L) = {}
  <2>1. M.panic
    BY <1>2 DEF FTake, IsLow, Fields
  <2> QED
    BY <1>1, <2>1 DEF FTook
<1>3. CASE FFree(L) # {}
  <2>1. M.fused = L.fused \cup {d} /\ M.panic = L.panic
    BY <1>3 DEF FTake, IsLow, Fields
  <2>2. d \in FPool /\ d \notin L.fused
    <3>1. FFree(L) \in SUBSET Nat
      BY PoolAssumption DEF FFree
    <3>2. \E n \in FFree(L) : \A m \in FFree(L) : n <= m
      BY <1>3, <3>1, LeastElement
    <3>3. Min(FFree(L)) \in FFree(L)
      BY <3>2 DEF Min
    <3> QED
      BY <1>3, <3>3 DEF FGot, FFree
  <2> HIDE DEF M, d
  <2>3. ~L.panic => d \notin FHeld(L) /\ d \notin Y
    BY <2>2 DEF Fp, FStrict
  <2>4. ~L.panic => FStrict(M, Y \cup {d})
    <3>1. FHeld(M) = FHeld(L) /\ (FApart(L) => FApart(M))
      BY <1>1 DEF FpPart, FHeld, FApart
    <3> QED
      BY <2>1, <2>2, <2>3, <3>1 DEF Fp, FStrict, FpRegs
  <2> QED
    BY <1>1, <2>1, <2>2, <2>3, <2>4 DEF FTook, M, d
<1> QED
  BY <1>2, <1>3

\* ... and one instruction emitted.
LEMMA FTakenFor ==
  ASSUME NEW L, IsLow(L), NEW Y, Fp(L, Y), NEW i
  PROVE  FTook(L, Emit(FTake(L), i), FGot(L), Y) /\ IsLow(Emit(FTake(L), i))
<1> DEFINE A == FTake(L)  d == FGot(L)  M == Emit(A, i)
<1>1. FTook(L, A, d, Y) /\ IsLow(A)
  BY FTaken DEF FTook, GpKept, Goes
<1> HIDE DEF A, d
<1>2. GpKept(A, M) /\ FpKept(A, M) /\ IsLow(M)
  BY <1>1, Emitted DEF FpKept, Goes
<1> HIDE DEF M
<1>3. GpKept(L, M)
  BY <1>1, <1>2, GpKeptThrough DEF FTook
<1>4. FpPart(L, M)
  BY <1>1, <1>2 DEF FTook, FpPart, FpKept, FpSame
<1>5. M.panic \/ (~A.panic /\ FStrict(M, Y \cup {d}))
  <2>1. M.panic \/ ~A.panic
    BY <1>2 DEF FpKept, Goes
  <2>2. A.panic \/ Fp(A, Y \cup {d})
    BY <1>1 DEF FTook, Fp
  <2>3. A.panic \/ Fp(M, Y \cup {d})
    BY <1>2, <2>2, FpStays
  <2> QED
    BY <2>1, <2>3 DEF Fp
<1>6. FTook(L, M, d, Y)
  BY <1>1, <1>3, <1>4, <1>5 DEF FTook
<1> QED
  BY <1>2, <1>6 DEF M, A, d

LEMMA FFreed ==
  ASSUME NEW L, IsLow(L), NEW Y, Fp(L, Y), NEW d, L.panic \/ d \in Y
  PROVE  GpKept(L, FFreeR(L, d)) /\ Fp(FFreeR(L, d), Y \ {d}) /\ IsLow(FFreeR(L, d))
<1> DEFINE M == FFreeR(L, d)
<1>1. GpKept(L, M) /\ FpPart(L, M) /\ M.fused = L.fused \ {d} /\ M.panic = L.panic
  BY DEF FFreeR, IsLow, Fields, GpKept, Goes, GpSame, FpPart
<1> HIDE DEF M
<1>2. FHeld(M) = FHeld(L) /\ (FApart(L) => FApart(M))
  BY <1>1 DEF FHeld, FApart, FpPart
<1>3. Fp(M, Y \ {d})
  BY <1>1, <1>2 DEF Fp, FStrict
<1> QED
  BY <1>1, <1>3 DEF M, GpKept, Goes

\* A register in hand goes on top of the FP window, or to its bottom.
LEMMA FAdded ==
  ASSUME NEW L, IsLow(L), NEW d, Fp(L, {d}), NEW M, GpKept(L, M),
         M.fvs = Append(L.fvs, d) \/ M.fvs = <<d>> \o L.fvs,
         M.fused = L.fused, M.flcache = L.flcache, M.fvcache = L.fvcache, M.fpins = L.fpins,
         M.panic = L.panic
  PROVE  Fp(M, {}) /\ (M.panic \/ Len(M.fvs) = Len(L.fvs) + 1)
<1>1. ASSUME ~L.panic PROVE FStrict(M, {}) /\ Len(M.fvs) = Len(L.fvs) + 1
  <2>1. FStrict(L, {d})
    BY <1>1 DEF Fp
  <2>2. FWindow(L.fvs) /\ d \notin Range(L.fvs)
    BY <2>1 DEF FStrict, FApart, FHeld
  <2>3. FGrown(M.fvs, L.fvs, d)
    BY <2>2, FPushedWindow, FPulledWindow
  <2>4. FHeld(M) = FHeld(L) \cup {d}
    BY <2>3 DEF FGrown, FHeld
  <2>5. FApart(M)
    BY <2>1, <2>3, <2>4 DEF FGrown, FApart, FStrict, FHeld
  <2> QED
    BY <2>1, <2>3, <2>4, <2>5 DEF FGrown, FStrict
<1> QED
  BY <1>1 DEF Fp

\* fpop takes the top in hand, ...
LEMMA FPopKeeps ==
  ASSUME NEW L, IsLow(L), Fp(L, {}), L.panic \/ Len(L.fvs) >= 1
  PROVE  /\ GpKept(L, FPop(L, 1)) /\ Fp(FPop(L, 1), {FTop(L)}) /\ IsLow(FPop(L, 1))
         /\ FPop(L, 1).flcache = L.flcache /\ FPop(L, 1).fvcache = L.fvcache /\ FPop(L, 1).fpins = L.fpins
         /\ FPop(L, 1).panic = L.panic
<1> DEFINE M == FPop(L, 1)  d == FTop(L)
<1>1. /\ GpKept(L, M) /\ M.fvs = DropN(L.fvs, 1) /\ M.flcache = L.flcache /\ M.fvcache = L.fvcache
      /\ M.fpins = L.fpins /\ M.fused = L.fused /\ M.panic = L.panic
  BY DEF FPop, IsLow, Fields, GpKept, Goes, GpSame
<1> HIDE DEF M
<1>2. ASSUME ~L.panic PROVE FStrict(M, {d})
  <2>1. FWindow(L.fvs) /\ Len(L.fvs) \in Nat /\ Len(L.fvs) >= 1 /\ FStrict(L, {})
    BY <1>2, InFWindow DEF Fp, FStrict, FApart
  <2>2. 1 \in 0 .. Len(L.fvs) /\ Len(L.fvs) - 1 + 1 = Len(L.fvs) /\ Len(L.fvs) .. Len(L.fvs) = {Len(L.fvs)}
        /\ Len(L.fvs) - 0 = Len(L.fvs)
    BY <2>1
  <2>3. IsFCut(M.fvs, L.fvs, 1)
    BY <1>1, <2>1, <2>2, FCutWindow
  <2>4. d = L.fvs[Len(L.fvs)]
    BY <2>2 DEF FTop, Nth
  <2> HIDE DEF d
  <2>5. FWindow(M.fvs) /\ Range(L.fvs) = Range(M.fvs) \cup {d} /\ d \notin Range(M.fvs)
    BY <2>2, <2>3, <2>4 DEF IsFCut
  <2>6. FHeld(L) = FHeld(M) \cup {d} /\ d \notin FHeld(M)
    BY <1>1, <2>1, <2>5 DEF FHeld, FStrict, FApart
  <2>7. FApart(M)
    BY <1>1, <2>1, <2>5, <2>6 DEF FStrict, FApart
  <2> QED
    BY <1>1, <2>1, <2>6, <2>7 DEF FStrict, FApart
<1>3. Fp(M, {d})
  BY <1>1, <1>2 DEF Fp
<1> QED
  BY <1>1, <1>3 DEF M, GpKept, Goes

\* ... popping two takes both.
LEMMA FPopTwoKeeps ==
  ASSUME NEW L, IsLow(L), Fp(L, {}), L.panic \/ Len(L.fvs) >= 2,
         NEW a, a = Nth(L.fvs, 1), NEW b, b = FTop(L)
  PROVE  /\ GpKept(L, FPop(L, 2)) /\ Fp(FPop(L, 2), {a, b}) /\ IsLow(FPop(L, 2))
         /\ FPop(L, 2).panic \/ a # b
<1> DEFINE M == FPop(L, 2)  m == Len(L.fvs)
<1>1. /\ GpKept(L, M) /\ M.fvs = DropN(L.fvs, 2) /\ M.flcache = L.flcache /\ M.fvcache = L.fvcache
      /\ M.fpins = L.fpins /\ M.fused = L.fused /\ M.panic = L.panic
  BY DEF FPop, IsLow, Fields, GpKept, Goes, GpSame
<1> HIDE DEF M
<1>2. ASSUME ~L.panic PROVE FStrict(M, {a, b}) /\ a # b
  <2>1. FWindow(L.fvs) /\ m \in Nat /\ m >= 2 /\ FStrict(L, {}) /\ DOMAIN L.fvs = 1 .. m
    BY <1>2, InFWindow DEF Fp, FStrict, FApart
  <2>2. /\ 2 \in 0 .. m /\ m - 2 + 1 = m - 1 /\ m - 1 .. m = {m - 1, m} /\ m - 0 = m
        /\ m - 1 \in 1 .. m /\ m \in 1 .. m /\ m - 1 # m
    BY <2>1
  <2>3. IsFCut(M.fvs, L.fvs, 2)
    BY <1>1, <2>1, <2>2, FCutWindow
  <2>4. b = L.fvs[m] /\ a = L.fvs[m - 1]
    BY <2>2 DEF FTop, Nth
  <2>5. FWindow(M.fvs) /\ Range(L.fvs) = Range(M.fvs) \cup {a, b} /\ a \notin Range(M.fvs) /\ b \notin Range(M.fvs)
    BY <2>2, <2>3, <2>4 DEF IsFCut
  <2>6. a # b
    BY <2>1, <2>2, <2>4 DEF FWindow, IsInjective
  <2>7. FHeld(L) = FHeld(M) \cup {a, b} /\ a \notin FHeld(M) /\ b \notin FHeld(M)
    BY <1>1, <2>1, <2>5 DEF FHeld, FStrict, FApart
  <2>8. FApart(M)
    BY <1>1, <2>1, <2>5, <2>7 DEF FStrict, FApart
  <2> QED
    BY <1>1, <2>1, <2>6, <2>7, <2>8 DEF FStrict, FApart
<1>3. Fp(M, {a, b}) /\ (M.panic \/ a # b)
  BY <1>1, <1>2 DEF Fp
<1> QED
  BY <1>1, <1>3 DEF M, GpKept, Goes

----------------------------------------------------------------------------
(* The FP methods *)

FReady(L, n) == IsLow(L) /\ Fp(L, {}) /\ (L.panic \/ Len(L.fvs) >= n)

LEMMA FRoomRests ==
  ASSUME NEW L, IsLow(L), NEW M, M = FRoom(L)
  PROVE  GpRest(L, M) /\ FpRest(L, M) /\ IsLow(M)
<1>1. GpRest(L, FSettle(L)) /\ FpRest(L, FSettle(L))
  BY FSettledIs
<1>2. GpRest(L, L) /\ FpRest(L, L)
  BY DEF GpRest, FpRest, Goes, GpSame, FpSame
<1> QED
  BY <1>1, <1>2 DEF FRoom, GpRest, Goes

\* A method of the FP half after one that may have settled the GP half.
LEMMA FRightThrough ==
  ASSUME NEW L, NEW M, NEW N, GpRest(L, M), FRight(M, N)
  PROVE  FRight(L, N)
BY GpRestThrough DEF FRight

LEMMA FLoadNewRight ==
  ASSUME NEW L, IsLow(L), Fp(L, {}), NEW i
  PROVE  FRight(L, FLoadNew(L, i))
<1> DEFINE d == FGot(L)  j == [rd |-> d] @@ i  A == Emit(FTake(L), j)  M == FLoadNew(L, i)
<1>1. M = [A EXCEPT !.fvs = Append(@, d)]
  BY DEF FLoadNew
<1> HIDE DEF j, M
<1>2. FTook(L, A, d, {}) /\ IsLow(A)
  BY FTakenFor
<1> HIDE DEF A, d
<1>3. /\ GpKept(A, M) /\ M.fvs = Append(A.fvs, d) /\ M.fused = A.fused /\ M.flcache = A.flcache
      /\ M.fvcache = A.fvcache /\ M.fpins = A.fpins /\ M.panic = A.panic
  BY <1>1, <1>2 DEF IsLow, Fields, GpKept, Goes, GpSame
<1>4. Fp(A, {d})
  <2>1. {} \cup {d} = {d}
    OBVIOUS
  <2> QED
    BY <1>2, <2>1 DEF FTook, Fp
<1>5. Fp(M, {})
  BY <1>2, <1>3, <1>4, FAdded
<1>6. GpRest(L, M)
  BY <1>2, <1>3, GpKeptThrough, GpKeptRests DEF FTook
<1> QED
  BY <1>5, <1>6 DEF FRight, M

LEMMA FPushLoadRight ==
  ASSUME NEW L, IsLow(L), Fp(L, {}), NEW i
  PROVE  FRight(L, FPushLoad(L, i))
<1> DEFINE A == FRoom(L)
<1>1. GpRest(L, A) /\ FpRest(L, A) /\ IsLow(A)
  BY FRoomRests
<1> HIDE DEF A
<1>2. Fp(A, {})
  BY <1>1, FpRestKeeps
<1>3. FRight(A, FLoadNew(A, i))
  BY <1>1, <1>2, FLoadNewRight
<1> QED
  BY <1>1, <1>3, FRightThrough DEF FPushLoad, A

LEMMA FPullIntoRight ==
  ASSUME NEW L, IsLow(L), Fp(L, {}), NEW M, M = FPullInto(L)
  PROVE  FRight(L, M) /\ (M.panic \/ Len(M.fvs) = Len(L.fvs) + 1)
<1> DEFINE d == FGot(L)  i == [op |-> "fldsp", rd |-> d, off |-> L.fconsumed]  A == Emit(FTake(L), i)
<1>1. M = [A EXCEPT !.fconsumed = @ + 1, !.fvs = <<d>> \o @]
  BY DEF FPullInto
<1> HIDE DEF i
<1>2. FTook(L, A, d, {}) /\ IsLow(A)
  BY FTakenFor
<1> HIDE DEF A, d
<1>3. /\ GpKept(A, M) /\ M.fvs = <<d>> \o A.fvs /\ M.fused = A.fused /\ M.flcache = A.flcache
      /\ M.fvcache = A.fvcache /\ M.fpins = A.fpins /\ M.panic = A.panic
  BY <1>1, <1>2 DEF IsLow, Fields, GpKept, Goes, GpSame
<1>4. Fp(A, {d})
  <2>1. {} \cup {d} = {d}
    OBVIOUS
  <2> QED
    BY <1>2, <2>1 DEF FTook, Fp
<1>5. Fp(M, {}) /\ (M.panic \/ Len(M.fvs) = Len(A.fvs) + 1)
  BY <1>2, <1>3, <1>4, FAdded
<1>6. GpRest(L, M) /\ A.fvs = L.fvs
  BY <1>2, <1>3, GpKeptThrough, GpKeptRests DEF FTook, FpPart
<1> QED
  BY <1>5, <1>6 DEF FRight

\* One turn of fensure's loop makes the window one longer, unless it is long enough.
LEMMA FPullRight ==
  ASSUME NEW L, NEW k \in {0, 1}, FReady(L, k), NEW n \in {1, 2}
  PROVE  /\ FRight(L, FPull(L, n))
         /\ FReady(FPull(L, n), IF k + 1 < n THEN k + 1 ELSE n)
<1>1. L.panic \/ Len(L.fvs) \in Nat
  BY InFWindow DEF FReady, Fp, FStrict, FApart
<1>2. CASE Len(L.fvs) < n
  <2> DEFINE A == FRoom(L)  M == FPullInto(A)
  <2>1. GpRest(L, A) /\ FpRest(L, A) /\ IsLow(A)
    BY FRoomRests DEF FReady
  <2>2. FPull(L, n) = M
    BY <1>2 DEF FPull
  <2> HIDE DEF A
  <2>3. Fp(A, {})
    BY <2>1, FpRestKeeps DEF FReady
  <2>4. FRight(A, M) /\ (M.panic \/ Len(M.fvs) = Len(A.fvs) + 1)
    BY <2>1, <2>3, FPullIntoRight
  <2> HIDE DEF M
  <2>5. A.panic \/ (Len(A.fvs) \in Nat /\ Len(A.fvs) >= k)
    <3>1. Len(<<FTOS>>) = 1
      OBVIOUS
    <3> QED
      BY <1>1, <2>1, <3>1 DEF FpRest, FpSame, FpSettled, FReady, Goes
  <2>6. M.panic \/ Len(M.fvs) >= (IF k + 1 < n THEN k + 1 ELSE n)
    <3>1. A.panic => M.panic
      BY <2>4 DEF FRight, GpRest, Goes
    <3> QED
      BY <2>4, <2>5, <3>1
  <2>7. FRight(L, M)
    BY <2>1, <2>4, FRightThrough
  <2> QED
    BY <2>2, <2>6, <2>7 DEF FReady, FRight, GpRest, Goes
<1>3. CASE ~(Len(L.fvs) < n)
  <2>1. FPull(L, n) = L
    BY <1>3 DEF FPull
  <2>2. FRight(L, L)
    BY DEF FRight, FReady, GpRest, Goes, GpSame
  <2>3. L.panic \/ Len(L.fvs) >= (IF k + 1 < n THEN k + 1 ELSE n)
    BY <1>1, <1>3
  <2> QED
    BY <2>1, <2>2, <2>3 DEF FReady
<1> QED
  BY <1>2, <1>3

LEMMA FEnsureReady ==
  ASSUME NEW L, IsLow(L), Fp(L, {}), NEW n \in {1, 2}
  PROVE  GpRest(L, FEnsure(L, n)) /\ FReady(FEnsure(L, n), n)
<1> DEFINE A == FPull(L, n)  M == FPull(A, n)
<1>1. L.panic \/ Len(L.fvs) \in Nat
  BY InFWindow DEF Fp, FStrict, FApart
<1>2. FReady(L, 0)
  BY <1>1 DEF FReady
<1>3. FRight(L, A) /\ FReady(A, IF 0 + 1 < n THEN 0 + 1 ELSE n)
  BY <1>2, FPullRight
<1>4. FReady(A, 1)
  <2>1. (IF 0 + 1 < n THEN 0 + 1 ELSE n) = 1
    OBVIOUS
  <2> HIDE DEF A
  <2> QED
    BY <1>3, <2>1
<1> HIDE DEF A
<1>5. FRight(A, M) /\ FReady(M, IF 1 + 1 < n THEN 1 + 1 ELSE n)
  BY <1>4, FPullRight
<1>6. (IF 1 + 1 < n THEN 1 + 1 ELSE n) = n
  OBVIOUS
<1> HIDE DEF M
<1>7. FReady(M, n)
  BY <1>5, <1>6
<1>8. GpRest(L, M)
  BY <1>3, <1>5, GpRestThrough DEF FRight
<1> QED
  BY <1>7, <1>8 DEF FEnsure, M, A

\* Both halves are right after a method that starts from both right.
Sound(L) == IsLow(L) /\ Gp(L, {}) /\ Fp(L, {})

LEMMA RightSound ==
  ASSUME NEW L, Sound(L), NEW M, Right(L, M)
  PROVE  Sound(M)
BY FpStays DEF Sound, Right, FpKept, Goes

LEMMA FRightSound ==
  ASSUME NEW L, Sound(L), NEW M, FRight(L, M)
  PROVE  Sound(M)
BY RestKeeps DEF Sound, FRight, GpRest, Goes

\* An instruction emitted in between leaves both halves alone.
LEMMA FEmitKeeps ==
  ASSUME NEW L, IsLow(L), NEW Y, Fp(L, Y), NEW i
  PROVE  GpKept(L, Emit(L, i)) /\ Fp(Emit(L, i), Y) /\ IsLow(Emit(L, i))
BY Emitted, FpStays DEF FpKept, Goes

\* The top register is given back, after an instruction.
LEMMA FDropRight ==
  ASSUME NEW L, FReady(L, 1), NEW i
  PROVE  /\ FRight(L, FFreeR(Emit(FPop(L, 1), i), FTop(L)))
         /\ GpKept(L, FFreeR(FPop(L, 1), FTop(L))) /\ Fp(FFreeR(FPop(L, 1), FTop(L)), {})
<1> DEFINE d == FTop(L)  P == FPop(L, 1)  A == Emit(P, i)
<1>1. GpKept(L, P) /\ Fp(P, {d}) /\ IsLow(P)
  BY FPopKeeps DEF FReady
<1> HIDE DEF P, d
<1>2. GpKept(P, A) /\ Fp(A, {d}) /\ IsLow(A)
  BY <1>1, FEmitKeeps
<1> HIDE DEF A
<1>3. {d} \ {d} = {}
  OBVIOUS
<1>4. GpKept(A, FFreeR(A, d)) /\ Fp(FFreeR(A, d), {d} \ {d})
  BY <1>2, FFreed
<1>5. GpKept(P, FFreeR(P, d)) /\ Fp(FFreeR(P, d), {d} \ {d})
  BY <1>1, FFreed
<1>6. GpKept(L, FFreeR(A, d)) /\ GpKept(L, FFreeR(P, d))
  BY <1>1, <1>2, <1>4, <1>5, GpKeptThrough
<1> QED
  BY <1>3, <1>4, <1>5, <1>6, GpKeptRests DEF FRight, A, P, d

LEMMA FBinRight ==
  ASSUME NEW L, FReady(L, 2), NEW f
  PROVE  FRight(L, FBin(L, f))
<1>1. FReady(L, 1)
  <2>1. L.panic \/ Len(L.fvs) \in Nat
    BY InFWindow DEF FReady, Fp, FStrict, FApart
  <2> QED
    BY <2>1 DEF FReady
<1>2. FBin(L, f) = FFreeR(Emit(FPop(L, 1), [op |-> "falu", f |-> f, rd |-> Nth(L.fvs, 1),
                                            rn |-> Nth(L.fvs, 1), rm |-> FTop(L)]), FTop(L))
  BY DEF FBin
<1> QED
  BY <1>1, <1>2, FDropRight

LEMMA FUnRight ==
  ASSUME NEW L, FReady(L, 1)
  PROVE  FRight(L, FUn(L))
BY FEmitKeeps, GpKeptRests DEF FReady, FRight, FUn

LEMMA FSwapRight ==
  ASSUME NEW L, FReady(L, 2)
  PROVE  FRight(L, [L EXCEPT !.fvs = Motion("Swap", @)])
<1> DEFINE t == Motion("Swap", L.fvs)  M == [L EXCEPT !.fvs = t]
<1>1. /\ GpKept(L, M) /\ M.fvs = t /\ M.fused = L.fused /\ M.flcache = L.flcache
      /\ M.fvcache = L.fvcache /\ M.fpins = L.fpins /\ M.panic = L.panic
  BY DEF FReady, IsLow, Fields, GpKept, Goes, GpSame
<1>2. L.panic \/ (FWindow(t) /\ Range(t) = Range(L.fvs))
  BY FSwapWindow DEF FReady, Fp, FStrict, FApart
<1> HIDE DEF t, M
<1>3. Fp(M, {})
  BY <1>1, <1>2 DEF FReady, Fp, FStrict, FApart, FHeld
<1>4. FRight(L, M)
  BY <1>1, <1>3, GpKeptRests DEF FRight
<1> QED
  BY <1>4 DEF M, t

LEMMA FStkRight ==
  ASSUME NEW L, NEW m \in {"Dup", "Drop", "Swap", "Over"}, FReady(L, MotionNeeds(m))
  PROVE  FRight(L, FStk(L, m))
<1>1. CASE m = "Dup"
  BY <1>1, FPushLoadRight DEF FReady, FStk
<1>2. CASE m = "Over"
  BY <1>2, FPushLoadRight DEF FReady, FStk
<1>3. CASE m = "Drop"
  <2>1. FReady(L, 1)
    BY <1>3 DEF MotionNeeds
  <2>2. FRight(L, FFreeR(FPop(L, 1), FTop(L)))
    BY <2>1, FDropRight, GpKeptRests DEF FRight
  <2> QED
    BY <1>3, <2>2 DEF FStk
<1>4. CASE m = "Swap"
  <2>1. FReady(L, 2)
    BY <1>4 DEF MotionNeeds
  <2> QED
    BY <1>4, <2>1, FSwapRight DEF FStk
<1> QED
  BY <1>1, <1>2, <1>3, <1>4

\* A fresh GP register, filled and pushed.
LEMMA LoadNewRight ==
  ASSUME NEW L, IsLow(L), Gp(L, {}), NEW i
  PROVE  Right(L, LoadNew(L, i))
<1> DEFINE B == Load(L, i)  r == Got(L)
<1>1. Took(L, B, r, {})
  BY Loaded
<1> HIDE DEF B, r
<1>2. {} \cup {r} = {r}
  OBVIOUS
<1>3. FpKept(L, B) /\ IsLow(B) /\ Gp(B, {r})
  BY <1>1, <1>2 DEF Took, FpKept, Goes, Gp
<1>4. Right(B, PushReg(B, r))
  BY <1>3, RegPushed
<1> QED
  BY <1>3, <1>4, RightThrough DEF LoadNew, B, r

LEMMA FCmpSound ==
  ASSUME NEW L, FReady(L, 2), Gp(L, {}), NEW c
  PROVE  Sound(FCmpOp(L, c))
<1> DEFINE a == Nth(L.fvs, 1)  b == FTop(L)  P == FPop(L, 2)  A == FFreeR(P, a)  B == FFreeR(A, b)
           i == [op |-> "fcset", f |-> c, rn |-> a, rm |-> b]
<1>1. GpKept(L, P) /\ Fp(P, {a, b}) /\ IsLow(P) /\ (P.panic \/ a # b)
  BY FPopTwoKeeps DEF FReady
<1>2. FCmpOp(L, c) = LoadNew(B, i)
  BY DEF FCmpOp
<1> HIDE DEF P, a, b, i
<1>3. GpKept(P, A) /\ Fp(A, {a, b} \ {a}) /\ IsLow(A)
  BY <1>1, FFreed
<1> HIDE DEF A
<1>4. Fp(A, {b})
  <2>1. CASE a # b
    <3>1. {a, b} \ {a} = {b}
      BY <2>1
    <3> QED
      BY <1>3, <3>1
  <2>2. CASE P.panic
    BY <1>3, <2>2 DEF Fp, GpKept, Goes
  <2> QED
    BY <1>1, <2>1, <2>2
<1>5. GpKept(A, B) /\ Fp(B, {b} \ {b}) /\ IsLow(B) /\ {b} \ {b} = {}
  BY <1>3, <1>4, FFreed
<1> HIDE DEF B
<1>6. GpKept(L, B)
  BY <1>1, <1>3, <1>5, GpKeptThrough
<1>7. Sound(B)
  <2>1. Gp(B, {})
    BY <1>6, GpStays
  <2> QED
    BY <1>5, <2>1 DEF Sound
<1>8. Right(B, LoadNew(B, i))
  BY <1>7, LoadNewRight DEF Sound
<1> QED
  BY <1>2, <1>7, <1>8, RightSound

LEMMA FZCmpSound ==
  ASSUME NEW L, FReady(L, 1), Gp(L, {}), NEW c
  PROVE  Sound(FZCmp(L, c))
<1> DEFINE B == FFreeR(FPop(L, 1), FTop(L))  i == [op |-> "fcsetz", f |-> c, rn |-> FTop(L)]
<1>1. GpKept(L, B) /\ Fp(B, {})
  BY FDropRight
<1>2. FZCmp(L, c) = LoadNew(B, i)
  BY DEF FZCmp
<1> HIDE DEF B, i
<1>3. Sound(B)
  <2>1. Gp(B, {})
    BY <1>1, GpStays
  <2> QED
    BY <1>1, <2>1 DEF Sound, GpKept, Goes
<1>4. Right(B, LoadNew(B, i))
  BY <1>3, LoadNewRight DEF Sound
<1> QED
  BY <1>2, <1>3, <1>4, RightSound

\* A literal: the GP register it goes through outlives a settling of the FP half.
LEMMA FLitSound ==
  ASSUME NEW L, Sound(L), NEW n
  PROVE  Sound(FLit(L, n))
<1> DEFINE i == [op |-> "movi", n |-> n]  A == Load(L, i)  g == Got(L)
           j == [op |-> "fmovx", rn |-> g]  B == FPushLoad(A, j)  M == FreeR(B, g)
<1>1. Took(L, A, g, {})
  BY Loaded DEF Sound
<1>2. FLit(L, n) = M
  BY DEF FLit
<1> HIDE DEF A, g, j
<1>3. {} \cup {g} = {g}
  OBVIOUS
<1>4. FpKept(L, A) /\ IsLow(A) /\ Gp(A, {g})
  BY <1>1, <1>3 DEF Took, FpKept, Goes, Gp
<1>5. Fp(A, {})
  BY <1>4, FpStays DEF Sound
<1>6. FRight(A, B)
  BY <1>4, <1>5, FPushLoadRight
<1> HIDE DEF B
<1>7. FpKept(B, M) /\ Gp(M, {})
  BY <1>4, <1>6, RestFreed DEF FRight
<1>8. Fp(M, {})
  BY <1>6, <1>7, FpStays DEF FRight
<1> QED
  BY <1>2, <1>7, <1>8 DEF Sound, FpKept, Goes

----------------------------------------------------------------------------
(* The caches of the FP half *)

\* An FP register in hand caches float local i; the one before it is free.
LEMMA FlocalCached ==
  ASSUME NEW L, NEW d, Fp(L, {d}), NEW M, NEW i, NEW e, e.r = d,
         M.fvs = L.fvs, M.fvcache = L.fvcache, M.fpins = L.fpins, M.panic = L.panic,
         M.flcache = With(L.flcache, i, e), M.fused = L.fused \ Superseded(L.flcache, i, d)
  PROVE  Fp(M, {})
<1>1. CASE L.panic
  BY <1>1 DEF Fp
<1>2. CASE ~L.panic
  <2> DEFINE old == IF i \in DOMAIN L.flcache THEN {L.flcache[i].r} ELSE {}
  <2>1. FStrict(L, {d}) /\ IsWith(M.flcache, L.flcache, i, e)
    BY <1>2, WithIs DEF Fp
  <2>2. old \subseteq CacheRegs(L.flcache) /\ d \notin CacheRegs(L.flcache)
    BY <2>1 DEF CacheRegs, FStrict, FHeld
  <2>3. Superseded(L.flcache, i, d) = old
    BY <2>2 DEF Superseded
  <2>4. CacheRegs(M.flcache) = (CacheRegs(L.flcache) \ old) \cup {d}
    BY <2>1 DEF IsWith, CacheRegs, OneEach, FStrict, FApart
  <2>5. OneEach(M.flcache)
    BY <2>1, <2>2 DEF IsWith, OneEach, CacheRegs, FStrict, FApart
  <2> HIDE DEF old
  <2>6. FHeld(M) = (FHeld(L) \ old) \cup {d}
    BY <2>1, <2>2, <2>4 DEF FHeld, FStrict, FApart
  <2>7. FApart(M)
    BY <2>1, <2>2, <2>4, <2>5, <2>6 DEF FApart, FStrict, FHeld
  <2>8. M.fused \cap FPool = FHeld(M) \cap FPool
    BY <2>1, <2>2, <2>3, <2>6 DEF FStrict, FHeld
  <2> QED
    BY <2>7, <2>8 DEF FStrict, Fp
<1> QED
  BY <1>1, <1>2

\* The same for the fvariable at address a.
LEMMA FvarCached ==
  ASSUME NEW L, NEW d, Fp(L, {d}), NEW M, NEW a, NEW e, e.r = d,
         M.fvs = L.fvs, M.flcache = L.flcache, M.fpins = L.fpins, M.panic = L.panic,
         M.fvcache = With(L.fvcache, a, e), M.fused = L.fused \ Superseded(L.fvcache, a, d)
  PROVE  Fp(M, {})
<1>1. CASE L.panic
  BY <1>1 DEF Fp
<1>2. CASE ~L.panic
  <2> DEFINE old == IF a \in DOMAIN L.fvcache THEN {L.fvcache[a].r} ELSE {}
  <2>1. FStrict(L, {d}) /\ IsWith(M.fvcache, L.fvcache, a, e)
    BY <1>2, WithIs DEF Fp
  <2>2. old \subseteq CacheRegs(L.fvcache) /\ d \notin CacheRegs(L.fvcache)
    BY <2>1 DEF CacheRegs, FStrict, FHeld
  <2>3. Superseded(L.fvcache, a, d) = old
    BY <2>2 DEF Superseded
  <2>4. CacheRegs(M.fvcache) = (CacheRegs(L.fvcache) \ old) \cup {d}
    BY <2>1 DEF IsWith, CacheRegs, OneEach, FStrict, FApart
  <2>5. OneEach(M.fvcache)
    BY <2>1, <2>2 DEF IsWith, OneEach, CacheRegs, FStrict, FApart
  <2> HIDE DEF old
  <2>6. FHeld(M) = (FHeld(L) \ old) \cup {d}
    BY <2>1, <2>2, <2>4 DEF FHeld, FStrict, FApart
  <2>7. FApart(M)
    BY <2>1, <2>2, <2>4, <2>5, <2>6 DEF FApart, FStrict, FHeld
  <2>8. M.fused \cap FPool = FHeld(M) \cap FPool
    BY <2>1, <2>2, <2>3, <2>6 DEF FStrict, FHeld
  <2> QED
    BY <2>7, <2>8 DEF FStrict, Fp
<1> QED
  BY <1>1, <1>2

\* The float local is loaded into a fresh register that caches it.
HotLoaded(L, i) == [Emit(FTake(L), [op |-> "fldlp", rd |-> FGot(L), off |-> i])
                      EXCEPT !.flcache = With(@, i, [r |-> FGot(L), dirty |-> FALSE])]

LEMMA HotLoadedRight ==
  ASSUME NEW L, IsLow(L), Fp(L, {}), NEW i, L.panic \/ i \notin DOMAIN L.flcache
  PROVE  FRight(L, HotLoaded(L, i)) /\ IsLow(HotLoaded(L, i))
<1> DEFINE d == FGot(L)  e == [r |-> d, dirty |-> FALSE]  j == [op |-> "fldlp", rd |-> d, off |-> i]
           A == Emit(FTake(L), j)  M == [A EXCEPT !.flcache = With(@, i, e)]
<1>1. HotLoaded(L, i) = M /\ e.r = d
  BY DEF HotLoaded
<1> HIDE DEF j, e
<1>3. FTook(L, A, d, {}) /\ IsLow(A)
  BY FTakenFor
<1> HIDE DEF A, d
<1>4. /\ GpKept(A, M) /\ M.fvs = A.fvs /\ M.fvcache = A.fvcache /\ M.fpins = A.fpins /\ M.panic = A.panic
      /\ M.flcache = With(A.flcache, i, e) /\ M.fused = A.fused
  BY <1>3 DEF IsLow, Fields, GpKept, Goes, GpSame
<1> HIDE DEF M
<1>5. Fp(A, {d})
  <2>1. {} \cup {d} = {d}
    OBVIOUS
  <2> QED
    BY <1>3, <2>1 DEF FTook, Fp
<1>6. Fp(M, {})
  <2>1. CASE A.panic
    BY <1>4, <2>1 DEF Fp
  <2>2. CASE ~A.panic
    <3>1. A.fused \ Superseded(A.flcache, i, d) = A.fused
      BY <1>3, <2>2 DEF FTook, FpPart, GpKept, Goes, Superseded
    <3> QED
      BY <1>1, <1>4, <1>5, <3>1, FlocalCached
  <2> QED
    BY <2>1, <2>2
<1>7. GpRest(L, M) /\ IsLow(M)
  BY <1>3, <1>4, GpKeptThrough, GpKeptRests DEF FTook, GpKept, Goes
<1> QED
  BY <1>1, <1>6, <1>7 DEF FRight

LEMMA LoadHotRight ==
  ASSUME NEW L, IsLow(L), Fp(L, {}), NEW i, L.panic \/ i \notin DOMAIN L.flcache
  PROVE  FRight(L, LoadHot(L, i))
<1> DEFINE M == HotLoaded(L, i)  k == [op |-> "fmov", rn |-> FGot(L)]
<1>1. LoadHot(L, i) = FPushLoad(M, k)
  BY DEF LoadHot, HotLoaded
<1>2. FRight(L, M) /\ IsLow(M)
  BY HotLoadedRight
<1> HIDE DEF M, k
<1>3. FRight(M, FPushLoad(M, k))
  BY <1>2, FPushLoadRight DEF FRight
<1> QED
  BY <1>1, <1>2, <1>3, FRightThrough DEF FRight

LEMMA LocalFFetchRight ==
  ASSUME NEW L, IsLow(L), Fp(L, {}), NEW i
  PROVE  FRight(L, LocalFFetch(L, i))
<1>1. CASE i \notin DOMAIN L.fpins /\ i \notin DOMAIN L.flcache /\ <<"flocal", i>> \in L.hot
  <2> DEFINE A == FRoom(L)
  <2>1. GpRest(L, A) /\ FpRest(L, A) /\ IsLow(A)
    BY FRoomRests
  <2>2. LocalFFetch(L, i) = LoadHot(A, i)
    BY <1>1 DEF LocalFFetch
  <2> HIDE DEF A
  <2>3. DOMAIN <<>> = {}
    OBVIOUS
  <2>4. A.panic \/ i \notin DOMAIN A.flcache
    BY <1>1, <2>1, <2>3 DEF FpRest, FpSame, FpSettled
  <2>5. Fp(A, {})
    BY <2>1, FpRestKeeps
  <2>6. FRight(A, LoadHot(A, i))
    BY <2>1, <2>4, <2>5, LoadHotRight
  <2> QED
    BY <2>1, <2>2, <2>6, FRightThrough
<1>2. CASE ~(i \notin DOMAIN L.fpins /\ i \notin DOMAIN L.flcache /\ <<"flocal", i>> \in L.hot)
  BY <1>2, FPushLoadRight DEF LocalFFetch
<1> QED
  BY <1>1, <1>2

LEMMA LocalFStoreRight ==
  ASSUME NEW L, FReady(L, 1), NEW i
  PROVE  FRight(L, LocalFStore(L, i))
<1> DEFINE d == FTop(L)  P == FPop(L, 1)  e == Stored(d)
           M == [P EXCEPT !.flcache = With(@, i, e), !.fused = @ \ Superseded(L.flcache, i, d)]
<1>1. CASE i \in DOMAIN L.fpins
  BY <1>1, FDropRight DEF LocalFStore
<1>2. CASE i \notin DOMAIN L.fpins
  <2>1. LocalFStore(L, i) = M
    BY <1>2 DEF LocalFStore
  <2>2. e.r = d
    BY DEF Stored
  <2>3. GpKept(L, P) /\ Fp(P, {d}) /\ IsLow(P) /\ P.flcache = L.flcache
    BY FPopKeeps DEF FReady
  <2> HIDE DEF P, d, e
  <2>4. /\ GpKept(P, M) /\ M.fvs = P.fvs /\ M.fvcache = P.fvcache /\ M.fpins = P.fpins /\ M.panic = P.panic
        /\ M.flcache = With(P.flcache, i, e) /\ M.fused = P.fused \ Superseded(P.flcache, i, d)
    BY <2>3 DEF IsLow, Fields, GpKept, Goes, GpSame
  <2> HIDE DEF M
  <2>5. Fp(M, {})
    BY <2>2, <2>3, <2>4, FlocalCached
  <2>6. GpRest(L, M)
    BY <2>3, <2>4, GpKeptThrough, GpKeptRests
  <2> QED
    BY <2>1, <2>5, <2>6 DEF FRight
<1> QED
  BY <1>1, <1>2

\* A register in hand is given back after something is pushed on the FP stack through it.
LEMMA PushedThrough ==
  ASSUME NEW L, IsLow(L), NEW g, Gp(L, {g}), Fp(L, {}), NEW i
  PROVE  Sound(FreeR(FPushLoad(L, i), g))
<1> DEFINE B == FPushLoad(L, i)  M == FreeR(B, g)
<1>1. FRight(L, B)
  BY FPushLoadRight
<1> HIDE DEF B
<1>2. FpKept(B, M) /\ Gp(M, {})
  BY <1>1, RestFreed DEF FRight
<1>3. Fp(M, {})
  BY <1>1, <1>2, FpStays DEF FRight
<1> QED
  BY <1>2, <1>3 DEF Sound, FpKept, Goes, B

\* A hot fvariable is loaded through g, cached, ...
VarLoaded(L, a, g) == [FreeR(Emit(FTake(L), [op |-> "fldr", rd |-> FGot(L), rn |-> g]), g)
                         EXCEPT !.fvcache = With(@, a, [r |-> FGot(L), dirty |-> FALSE])]

LEMMA VarLoadedSound ==
  ASSUME NEW A, IsLow(A), NEW g, Gp(A, {g}), Fp(A, {}), NEW a, A.panic \/ a \notin DOMAIN A.fvcache
  PROVE  Sound(VarLoaded(FRoom(A), a, g))
<1> DEFINE R == FRoom(A)  d == FGot(R)  e == [r |-> d, dirty |-> FALSE]
           j == [op |-> "fldr", rd |-> d, rn |-> g]  B == Emit(FTake(R), j)
           C == FreeR(B, g)  M == [C EXCEPT !.fvcache = With(@, a, e)]
<1>1. GpRest(A, R) /\ FpRest(A, R) /\ IsLow(R)
  BY FRoomRests
<1>2. VarLoaded(R, a, g) = M /\ e.r = d
  BY DEF VarLoaded
<1> HIDE DEF R, e
<1>3. Fp(R, {}) /\ (R.panic \/ a \notin DOMAIN R.fvcache)
  <2>1. DOMAIN <<>> = {}
    OBVIOUS
  <2> QED
    BY <1>1, <2>1, FpRestKeeps DEF FpRest, FpSame, FpSettled, Goes
<1> HIDE DEF j
<1>4. FTook(R, B, d, {}) /\ IsLow(B)
  BY <1>1, <1>3, FTakenFor
<1> HIDE DEF B, d
<1>5. GpRest(A, B)
  BY <1>1, <1>4, GpKeptRests, GpRestThrough DEF FTook
<1>6. FpKept(B, C) /\ Gp(C, {}) /\ IsLow(C)
  BY <1>5, RestFreed DEF FpKept, Goes
<1> HIDE DEF C
<1>7. Fp(C, {d})
  <2>1. {} \cup {d} = {d}
    OBVIOUS
  <2>2. Fp(B, {d})
    BY <1>4, <2>1 DEF FTook, Fp
  <2> QED
    BY <1>6, <2>2, FpStays
<1>8. IsFiniteSet(DOMAIN With(C.fvcache, a, e))
  <2>1. DOMAIN With(C.fvcache, a, e) = DOMAIN C.fvcache \cup {a}
    BY DEF With
  <2> QED
    BY <1>6, <2>1, FS_AddElement DEF IsLow
<1>9. /\ GpKept(C, M) /\ M.fvs = C.fvs /\ M.flcache = C.flcache /\ M.fpins = C.fpins /\ M.panic = C.panic
      /\ M.fvcache = With(C.fvcache, a, e) /\ M.fused = C.fused
  BY <1>6, <1>8 DEF IsLow, Fields, GpKept, Goes, GpSame
<1> HIDE DEF M
<1>10. Fp(M, {})
  <2>1. CASE C.panic
    BY <1>9, <2>1 DEF Fp
  <2>2. CASE ~C.panic
    <3>1. a \notin DOMAIN C.fvcache
      BY <1>3, <1>4, <1>6, <2>2 DEF FTook, FpPart, GpKept, FpKept, FpSame, Goes
    <3>2. C.fused \ Superseded(C.fvcache, a, d) = C.fused
      BY <3>1 DEF Superseded
    <3> QED
      BY <1>2, <1>7, <1>9, <3>2, FvarCached
  <2> QED
    BY <2>1, <2>2
<1>11. Sound(M)
  BY <1>6, <1>9, <1>10, GpStays DEF Sound, GpKept, Goes
<1> QED
  BY <1>2, <1>11 DEF R

\* ... and copied.
LEMMA FCacheVarSound ==
  ASSUME NEW A, IsLow(A), NEW g, Gp(A, {g}), Fp(A, {}), NEW a, A.panic \/ a \notin DOMAIN A.fvcache
  PROVE  Sound(FCacheVar(FRoom(A), a, g))
<1> DEFINE R == FRoom(A)  M == VarLoaded(R, a, g)  k == [op |-> "fmov", rn |-> FGot(R)]
<1>1. FCacheVar(R, a, g) = FPushLoad(M, k)
  BY DEF FCacheVar, VarLoaded
<1>2. Sound(M)
  BY VarLoadedSound
<1> HIDE DEF R, M, k
<1>3. Sound(FPushLoad(M, k))
  BY <1>2, FPushLoadRight, FRightSound DEF Sound
<1> QED
  BY <1>1, <1>3 DEF R

LEMMA FLoadViaSound ==
  ASSUME NEW L, Sound(L), NEW a, L.panic \/ a \notin DOMAIN L.fvcache
  PROVE  Sound(FLoadVia(L, a))
<1> DEFINE i == [op |-> "movi", n |-> a]  A == Load(L, i)  g == Got(L)  j == [op |-> "fldr", rn |-> g]
<1>1. Took(L, A, g, {})
  BY Loaded DEF Sound
<1>2. FLoadVia(L, a) = IF <<"fvar", a>> \in L.hot THEN FCacheVar(FRoom(A), a, g)
                       ELSE FreeR(FPushLoad(A, j), g)
  BY DEF FLoadVia
<1> HIDE DEF A, g, j
<1>3. {} \cup {g} = {g}
  OBVIOUS
<1>4. FpKept(L, A) /\ IsLow(A) /\ Gp(A, {g})
  BY <1>1, <1>3 DEF Took, FpKept, Goes, Gp
<1>5. Fp(A, {}) /\ (A.panic \/ a \notin DOMAIN A.fvcache)
  BY <1>4, FpStays DEF Sound, FpKept, FpSame, Goes
<1>6. Sound(FCacheVar(FRoom(A), a, g))
  BY <1>4, <1>5, FCacheVarSound
<1>7. Sound(FreeR(FPushLoad(A, j), g))
  BY <1>4, <1>5, PushedThrough
<1> QED
  BY <1>2, <1>6, <1>7

LEMMA FFetchAddrSound ==
  ASSUME NEW L, Sound(L), NEW a
  PROVE  Sound(FFetchAddr(L, a))
<1>1. CASE a \in DOMAIN L.fvcache
  BY <1>1, FPushLoadRight, FRightSound DEF FFetchAddr, Sound
<1>2. CASE a \notin DOMAIN L.fvcache
  <2> DEFINE A == GpRoom(L)
  <2>1. FpKept(L, A) /\ GpRest(L, A)
    BY GpRoomRests DEF Sound
  <2>2. FFetchAddr(L, a) = FLoadVia(A, a)
    BY <1>2 DEF FFetchAddr
  <2> HIDE DEF A
  <2>3. Sound(A) /\ a \notin DOMAIN A.fvcache
    BY <1>2, <2>1, FpStays, RestKeeps DEF Sound, FpKept, FpSame, Goes
  <2> QED
    BY <2>2, <2>3, FLoadViaSound
<1> QED
  BY <1>1, <1>2

LEMMA FFetchSound ==
  ASSUME NEW L, Ready(L, 1), Fp(L, {})
  PROVE  Sound(FFetch(L))
<1> DEFINE a == Top(L)  P == Pop(L, 1)  i == [op |-> "fldr", rn |-> a.v]
<1>1. IsLow(P) /\ FpKept(L, P) /\ Gp(P, RegOf(a)) /\ InHand(P, a, RegOf(a))
  BY OneOperand
<1>2. FFetch(L) = IF a.k = "Const" THEN FFetchAddr(P, a.v) ELSE FreeR(FPushLoad(P, i), a.v)
  BY DEF FFetch
<1> HIDE DEF P, a, i
<1>3. Fp(P, {})
  BY <1>1, FpStays
<1>4. CASE a.k = "Const"
  <2>1. RegOf(a) = {}
    BY <1>4 DEF RegOf
  <2>2. Sound(P)
    BY <1>1, <1>3, <2>1 DEF Sound
  <2> QED
    BY <1>2, <1>4, <2>2, FFetchAddrSound
<1>5. CASE a.k # "Const"
  <2>1. Gp(P, {a.v})
    BY <1>1, <1>5 DEF Gp, InHand, RegOf
  <2> QED
    BY <1>1, <1>2, <1>3, <1>5, <2>1, PushedThrough
<1> QED
  BY <1>4, <1>5

\* A store through a literal address leaves the value in its register, dirty; any
\* other goes through the register the address is in, which may have been settled away.
LEMMA FStoreToSound ==
  ASSUME NEW P, NEW a, Gp(P, RegOf(a)), IsLow(P), InHand(P, a, RegOf(a)),
         NEW L, FReady(L, 1), GpRest(P, L)
  PROVE  Sound(FStoreTo(L, a))
<1> DEFINE d == FTop(L)  A == FPop(L, 1)
<1>1. /\ GpKept(L, A) /\ Fp(A, {d}) /\ IsLow(A) /\ A.fvcache = L.fvcache
  BY FPopKeeps DEF FReady
<1>2. GpRest(P, A)
  BY <1>1, GpKeptRests, GpRestThrough
<1>3. CASE a.k = "Const"
  <2> DEFINE e == Stored(d)  M == [A EXCEPT !.fvcache = With(@, a.v, e),
                                            !.fused = @ \ Superseded(L.fvcache, a.v, d)]
  <2>1. FStoreTo(L, a) = M /\ e.r = d
    BY <1>3 DEF FStoreTo, Stored
  <2> HIDE DEF A, d, e
  <2>2. IsFiniteSet(DOMAIN With(A.fvcache, a.v, e))
    <3>1. DOMAIN With(A.fvcache, a.v, e) = DOMAIN A.fvcache \cup {a.v}
      BY DEF With
    <3> QED
      BY <1>1, <3>1, FS_AddElement DEF IsLow
  <2>3. /\ GpKept(A, M) /\ M.fvs = A.fvs /\ M.flcache = A.flcache /\ M.fpins = A.fpins /\ M.panic = A.panic
        /\ M.fvcache = With(A.fvcache, a.v, e) /\ M.fused = A.fused \ Superseded(A.fvcache, a.v, d)
    BY <1>1, <2>2 DEF IsLow, Fields, GpKept, Goes, GpSame
  <2> HIDE DEF M
  <2>4. Fp(M, {})
    BY <1>1, <2>1, <2>3, FvarCached
  <2>5. Gp(M, {})
    <3>1. RegOf(a) = {}
      BY <1>3 DEF RegOf
    <3>2. GpRest(P, M)
      BY <1>2, <2>3, GpKeptRests, GpRestThrough
    <3> QED
      BY <3>1, <3>2, RestKeeps
  <2> QED
    BY <2>1, <2>3, <2>4, <2>5 DEF Sound, GpKept, Goes
<1>4. CASE a.k # "Const"
  <2> DEFINE i == [op |-> "fstr", rn |-> a.v, rm |-> d]  B == Emit(A, i)  C == FreeR(B, a.v)  M == FFreeR(C, d)
  <2>1. FStoreTo(L, a) = M
    BY <1>4 DEF FStoreTo
  <2> HIDE DEF A, d, i
  <2>2. GpKept(A, B) /\ Fp(B, {d}) /\ IsLow(B)
    BY <1>1, FEmitKeeps
  <2> HIDE DEF B
  <2>3. GpRest(P, B)
    BY <1>2, <2>2, GpKeptRests, GpRestThrough
  <2>4. Gp(P, {a.v})
    BY <1>4 DEF Gp, InHand, RegOf
  <2>5. FpKept(B, C) /\ Gp(C, {})
    BY <2>3, <2>4, RestFreed
  <2> HIDE DEF C
  <2>6. Fp(C, {d}) /\ IsLow(C)
    BY <2>2, <2>5, FpStays DEF FpKept, Goes
  <2>7. GpKept(C, M) /\ Fp(M, {d} \ {d}) /\ IsLow(M) /\ {d} \ {d} = {}
    BY <2>6, FFreed
  <2> HIDE DEF M
  <2> QED
    BY <2>1, <2>5, <2>7, GpStays DEF Sound
<1> QED
  BY <1>3, <1>4

LEMMA FStoreSound ==
  ASSUME NEW L, Ready(L, 1), Fp(L, {})
  PROVE  Sound(FStore(L))
<1> DEFINE a == Top(L)  P == Pop(L, 1)  E == FEnsure(P, 1)
<1>1. IsLow(P) /\ FpKept(L, P) /\ Gp(P, RegOf(a)) /\ InHand(P, a, RegOf(a))
  BY OneOperand
<1>2. FStore(L) = FStoreTo(E, a)
  BY DEF FStore
<1> HIDE DEF P, a
<1>3. Fp(P, {})
  BY <1>1, FpStays
<1>4. GpRest(P, E) /\ FReady(E, 1)
  BY <1>1, <1>3, FEnsureReady
<1> HIDE DEF E
<1> QED
  BY <1>1, <1>2, <1>4, FStoreToSound

----------------------------------------------------------------------------
(* The settle barrier and the locals frames *)

LEMMA SettleSound ==
  ASSUME NEW L, Sound(L)
  PROVE  Sound(Settle(L))
<1> DEFINE A == SettleData(L)  M == FSettle(A)
<1>1. FpKept(L, A) /\ (A.panic \/ GpSettled(L, A))
  BY SettledIs DEF Sound
<1>2. GpRest(L, A)
  BY <1>1 DEF FpKept, GpRest
<1>3. Sound(A)
  BY <1>1, <1>2, FpStays, RestKeeps DEF Sound, FpKept, Goes
<1> HIDE DEF A
<1>4. GpRest(A, M) /\ FpRest(A, M)
  BY <1>3, FSettledIs DEF Sound
<1> HIDE DEF M
<1>5. Sound(M)
  BY <1>3, <1>4, RestKeeps, FpRestKeeps DEF Sound, GpRest, Goes
<1> QED
  BY <1>5 DEF Settle, M, A

LEMMA EmitSound ==
  ASSUME NEW L, Sound(L), NEW i
  PROVE  Sound(Emit(L, i)) /\ Sound(EmitAll(L, i))
BY EmitKeeps, FpStays DEF Sound, FpKept, Goes

LEMMA CallSound ==
  ASSUME NEW L, Sound(L)
  PROVE  Sound(Call(L))
BY SettleSound, EmitSound DEF Call

LEMMA OpenLocalsSound ==
  ASSUME NEW L, Sound(L), NEW total, NEW inputs
  PROVE  Sound(OpenLocals(L, total, inputs))
<1> DEFINE code == << [op |-> "addlp", n |-> -total] >>
                   \o FlattenSeq([k \in 1 .. inputs |-> PopInput(inputs - k)])
<1>1. OpenLocals(L, total, inputs) = EmitAll(Settle(L), code)
  BY DEF OpenLocals
<1> HIDE DEF code
<1> QED
  BY <1>1, SettleSound, EmitSound

\* The frame's end gives up the registers that cache its locals.
LEMMA CloseLocalsSound ==
  ASSUME NEW L, Sound(L), NEW total
  PROVE  Sound(CloseLocals(L, total))
<1> DEFINE i == [op |-> "addlp", n |-> total]  A == Emit(L, i)  M == CloseLocals(L, total)
<1>1. Sound(A)
  BY EmitSound
<1>2. M = [A EXCEPT !.used = @ \ {L.lcache[k].r : k \in DOMAIN L.lcache}, !.lcache = <<>>,
                    !.fused = @ \ {L.flcache[k].r : k \in DOMAIN L.flcache}, !.flcache = <<>>]
  BY DEF CloseLocals
<1>3. A.lcache = L.lcache /\ A.flcache = L.flcache
  BY DEF Emit, Sound, IsLow, Fields
<1> HIDE DEF A, M, i
<1>4. /\ IsLow(M) /\ M.vs = A.vs /\ M.cells = A.cells /\ M.ipins = A.ipins /\ M.lcache = <<>>
      /\ M.used = A.used \ CacheRegs(A.lcache) /\ M.panic = A.panic
      /\ M.fvs = A.fvs /\ M.fvcache = A.fvcache /\ M.fpins = A.fpins /\ M.flcache = <<>>
      /\ M.fused = A.fused \ CacheRegs(A.flcache)
  BY <1>1, <1>2, <1>3 DEF Sound, IsLow, Fields, CacheRegs
<1>5. CacheRegs(<<>>) = {} /\ OneEach(<<>>)
  <2>1. DOMAIN <<>> = {}
    OBVIOUS
  <2> QED
    BY <2>1 DEF CacheRegs, OneEach
<1>6. Gp(M, {})
  <2>1. ASSUME Strict(A, {}) PROVE Strict(M, {})
    <3>1. Held(M) = Held(A) \ CacheRegs(A.lcache)
      BY <1>4, <1>5, <2>1 DEF Held, Strict, Apart
    <3>2. Apart(M)
      BY <1>4, <1>5, <2>1, <3>1 DEF Strict, Apart
    <3> QED
      BY <1>4, <2>1, <3>1, <3>2 DEF Strict
  <2> QED
    BY <1>1, <1>4, <2>1 DEF Sound, Gp
<1>7. Fp(M, {})
  <2>1. ASSUME FStrict(A, {}) PROVE FStrict(M, {})
    <3>1. FHeld(M) = FHeld(A) \ CacheRegs(A.flcache)
      BY <1>4, <1>5, <2>1 DEF FHeld, FStrict, FApart
    <3>2. FApart(M)
      BY <1>4, <1>5, <2>1, <3>1 DEF FStrict, FApart
    <3> QED
      BY <1>4, <2>1, <3>1, <3>2 DEF FStrict
  <2> QED
    BY <1>1, <1>4, <2>1 DEF Sound, Fp
<1> QED
  BY <1>4, <1>6, <1>7 DEF Sound, M

----------------------------------------------------------------------------
(* The dispatch: what a token starts from, and what it leaves *)

\* The GP methods take room in the GP half, the FP methods in the FP half.
LEMMA RoomSound ==
  ASSUME NEW L, Sound(L), ~L.panic, NEW r, NEW n \in Nat
  PROVE  Ready(Room(L, r, n), n) /\ \A M : Right(Room(L, r, n), M) => Sound(M)
<1> DEFINE A == Room(L, r, n)
<1>1. Len(L.vs) \in Nat
  BY InWindow DEF Sound, Gp, Strict, Apart
<1>2. FpKept(L, A) /\ Ready(A, n)
  BY <1>1, RoomReady DEF Sound
<1> HIDE DEF A
<1>3. Sound(A)
  BY <1>2, FpStays DEF Sound, Ready
<1>4. \A M : Right(A, M) => Sound(M)
  BY <1>3, RightSound
<1> QED
  BY <1>2, <1>4 DEF A

LEMMA EnsureSound ==
  ASSUME NEW L, Sound(L), ~L.panic, NEW n \in Nat
  PROVE  Ready(Ensure(L, n), n) /\ Fp(Ensure(L, n), {})
<1>1. Len(L.vs) \in Nat
  BY InWindow DEF Sound, Gp, Strict, Apart
<1> QED
  BY <1>1, EnsureReady, FpStays DEF Sound

LEMMA FEnsureSound ==
  ASSUME NEW L, Sound(L), NEW n \in {1, 2}
  PROVE  FReady(FEnsure(L, n), n) /\ Gp(FEnsure(L, n), {})
         /\ \A M : FRight(FEnsure(L, n), M) => Sound(M)
<1> DEFINE A == FEnsure(L, n)
<1>1. GpRest(L, A) /\ FReady(A, n)
  BY FEnsureReady DEF Sound
<1> HIDE DEF A
<1>2. Sound(A)
  BY <1>1, RestKeeps DEF Sound, FReady
<1>3. \A M : FRight(A, M) => Sound(M)
  BY <1>2, FRightSound
<1> QED
  BY <1>1, <1>2, <1>3 DEF A, Sound

\* The tokens whose method leaves the FP half alone.
GpToks == {"Bin", "ImmBin", "DupBin", "Shift", "ImmShift", "DupShiftBin", "Cmp", "ZCmp", "Sel", "IvarStore"}

LEMMA ArithSound ==
  ASSUME NEW L, Sound(L), ~L.panic, NEW t, t.op \in GpToks
  PROVE  Sound(LowerTok(L, t))
<1>1. CASE t.op = "Bin"
  BY <1>1, RoomSound, BinRight DEF LowerTok
<1>2. CASE t.op = "ImmBin"
  BY <1>2, RoomSound, ImmBinRight DEF LowerTok
<1>3. CASE t.op = "DupBin"
  BY <1>3, RoomSound, DupBinRight DEF LowerTok
<1>4. CASE t.op = "Shift"
  BY <1>4, RoomSound, ShiftRight DEF LowerTok
<1>5. CASE t.op = "ImmShift"
  BY <1>5, RoomSound, ImmShiftRight DEF LowerTok
<1>6. CASE t.op = "DupShiftBin"
  BY <1>6, RoomSound, DupShiftRight DEF LowerTok
<1>7. CASE t.op = "Cmp"
  BY <1>7, RoomSound, CmpRight DEF LowerTok
<1>8. CASE t.op = "ZCmp"
  BY <1>8, RoomSound, ZCmpRight DEF LowerTok
<1>9. CASE t.op = "Sel"
  BY <1>9, RoomSound, SelRight DEF LowerTok
<1>10. CASE t.op = "IvarStore"
  BY <1>10, RoomSound, IvarStoreRight DEF LowerTok
<1> QED
  BY <1>1, <1>2, <1>3, <1>4, <1>5, <1>6, <1>7, <1>8, <1>9, <1>10 DEF GpToks

MemoryToks == {"Lit", "Stk", "PickN", "RollN", "Fetch", "CFetch", "Store", "CStore", "LocalFetch",
               "LocalStore", "IvarFetch", "SelfPush", "LoopIdx"}

LEMMA MemorySound ==
  ASSUME NEW L, Sound(L), ~L.panic, NEW t, IsTok(t), t.op \in MemoryToks
  PROVE  Sound(LowerTok(L, t))
<1>1. IsLow(L) /\ Gp(L, {}) /\ Len(L.vs) \in Nat
  BY InWindow DEF Sound, Gp, Strict, Apart
<1>2. \A M : Right(L, M) => Sound(M)
  BY RightSound
<1>3. CASE t.op = "Lit"
  BY <1>1, <1>2, <1>3, ConstPushed DEF LowerTok
<1>4. CASE t.op = "Stk"
  BY <1>1, <1>2, <1>4, StkRight DEF LowerTok, IsTok
<1>5. CASE t.op = "PickN"
  BY <1>1, <1>2, <1>5, PickRight DEF LowerTok, IsTok
<1>6. CASE t.op = "RollN"
  BY <1>1, <1>2, <1>6, RollRight DEF LowerTok, IsTok
<1>7. CASE t.op = "Fetch"
  BY <1>7, RoomSound, FetchFromRight DEF LowerTok, Fetch
<1>8. CASE t.op = "CFetch"
  BY <1>8, RoomSound, LoadThroughRight DEF LowerTok, CFetch
<1>9. CASE t.op = "Store"
  BY <1>1, <1>2, <1>9, StoreThroughRight DEF LowerTok, Store
<1>10. CASE t.op = "CStore"
  BY <1>1, <1>2, <1>10, StoreThroughRight DEF LowerTok, CStore
<1>11. CASE t.op = "LocalFetch"
  BY <1>1, <1>2, <1>11, LocalFetchRight DEF LowerTok
<1>12. CASE t.op = "LocalStore"
  BY <1>1, <1>2, <1>12, LocalStoreRight DEF LowerTok
<1>13. CASE t.op = "IvarFetch"
  BY <1>1, <1>2, <1>13, IvarFetchRight DEF LowerTok
<1>14. CASE t.op = "SelfPush"
  BY <1>1, <1>2, <1>14, PushLoadRight DEF LowerTok, SelfPush
<1>15. CASE t.op = "LoopIdx"
  BY <1>1, <1>2, <1>15, PushLoadRight DEF LowerTok, LoopIdx
<1> QED
  BY <1>3, <1>4, <1>5, <1>6, <1>7, <1>8, <1>9, <1>10, <1>11, <1>12, <1>13, <1>14, <1>15 DEF MemoryToks

FloatToks == {"LocalFFetch", "LocalFStore", "FLit", "FBin", "FUn", "FStk", "FCmp", "FZCmp", "FFetch", "FStore"}

LEMMA FloatSound ==
  ASSUME NEW L, Sound(L), ~L.panic, NEW t, IsTok(t), t.op \in FloatToks
  PROVE  Sound(LowerTok(L, t))
<1>1. CASE t.op = "LocalFFetch"
  BY <1>1, LocalFFetchRight, FRightSound DEF LowerTok, Sound
<1>2. CASE t.op = "LocalFStore"
  BY <1>2, FEnsureSound, LocalFStoreRight DEF LowerTok
<1>3. CASE t.op = "FLit"
  <2>1. Sound(GpRoom(L))
    BY GpRoomRests, FpStays, RestKeeps DEF Sound, FpKept, Goes
  <2> QED
    BY <1>3, <2>1, FLitSound DEF LowerTok
<1>4. CASE t.op = "FBin"
  BY <1>4, FEnsureSound, FBinRight DEF LowerTok
<1>5. CASE t.op = "FUn"
  BY <1>5, FEnsureSound, FUnRight DEF LowerTok
<1>6. CASE t.op = "FStk"
  <2>1. t.m \in {"Dup", "Drop", "Swap", "Over"} /\ MotionNeeds(t.m) \in {1, 2}
    BY <1>6 DEF IsTok, MotionNeeds
  <2> QED
    BY <1>6, <2>1, FEnsureSound, FStkRight DEF LowerTok
<1>7. CASE t.op \in {"FCmp", "FZCmp"}
  <2>1. Len(L.vs) \in Nat
    BY InWindow DEF Sound, Gp, Strict, Apart
  <2>2. Sound(Reserve(L, 1))
    BY <2>1, ReserveRight, RightSound DEF Sound
  <2> QED
    BY <1>7, <2>2, FEnsureSound, FCmpSound, FZCmpSound DEF LowerTok
<1>8. CASE t.op = "FFetch"
  BY <1>8, EnsureSound, FFetchSound DEF LowerTok
<1>9. CASE t.op = "FStore"
  BY <1>9, EnsureSound, FStoreSound DEF LowerTok
<1> QED
  BY <1>1, <1>2, <1>3, <1>4, <1>5, <1>6, <1>7, <1>8, <1>9 DEF FloatToks

LEMMA TokenSound ==
  ASSUME NEW L, Sound(L), ~L.panic, NEW t, IsTok(t)
  PROVE  Sound(LowerTok(L, t))
<1>1. CASE t.op = "OpenLocals"
  BY <1>1, OpenLocalsSound DEF LowerTok
<1>2. CASE t.op = "CloseLocals"
  BY <1>2, CloseLocalsSound DEF LowerTok
<1>3. CASE t.op = "Call"
  BY <1>3, CallSound DEF LowerTok
<1>4. t.op \in GpToks \cup MemoryToks \cup FloatToks \cup {"OpenLocals", "CloseLocals", "Call"}
  BY DEF IsTok, TokOps, GpToks, MemoryToks, FloatToks
<1> QED
  BY <1>1, <1>2, <1>3, <1>4, ArithSound, MemorySound, FloatSound

----------------------------------------------------------------------------
(* The invariant *)

\* A run starts with the tops in x0 and d8 and the pins held.
LEMMA NewLowSound ==
  ASSUME NEW hot, NEW ipins, NEW fpins, IsInjective(ipins), Range(ipins) \subseteq Pool,
         IsInjective(fpins), Range(fpins) \subseteq FPool
  PROVE  Sound(NewLow(hot, ipins, fpins))
<1> DEFINE L == NewLow(hot, ipins, fpins)
<1>1. /\ DOMAIN L = Fields /\ L.vs = <<Reg(TOS)>> /\ L.used = {TOS} \cup Range(ipins) /\ L.lcache = <<>>
      /\ L.cells = <<>> /\ L.ipins = ipins /\ L.fvs = <<FTOS>> /\ L.fused = {FTOS} \cup Range(fpins)
      /\ L.flcache = <<>> /\ L.fvcache = <<>> /\ L.fpins = fpins
  BY DEF NewLow, Fields
<1> HIDE DEF L
<1>2. DOMAIN <<>> = {} /\ IsFiniteSet({})
  BY FS_EmptySet
<1>3. IsLow(L)
  BY <1>1, <1>2 DEF IsLow
<1>4. CacheRegs(<<>>) = {} /\ OneEach(<<>>) /\ Range(<<>>) = {} /\ IsInjective(<<>>)
  BY <1>2 DEF CacheRegs, OneEach, Range, IsInjective
<1>5. Window(<<Reg(TOS)>>) /\ Regs(<<Reg(TOS)>>) = {TOS}
  <2> DEFINE s == <<Reg(TOS)>>
  <2>1. Len(s) = 1 /\ s[1] = Reg(TOS) /\ s \in Seq({Reg(TOS)})
    OBVIOUS
  <2>2. Reg(TOS).k = "Reg" /\ Reg(TOS).v = TOS
    BY DEF Reg
  <2> HIDE DEF s
  <2>3. IsLoc(s[1]) /\ RegOf(s[1]) = {TOS} /\ 1 .. Len(s) = {1}
    BY <2>1, <2>2 DEF IsLoc, RegOf, GpRegs
  <2>4. Window(s) /\ Regs(s) = {TOS}
    BY <2>1, <2>3 DEF Window, Regs
  <2> QED
    BY <2>4 DEF s
<1>6. FWindow(<<FTOS>>) /\ Range(<<FTOS>>) = {FTOS}
  <2> DEFINE s == <<FTOS>>
  <2>1. s \in Seq({FTOS}) /\ DOMAIN s = 1 .. 1 /\ s[1] = FTOS
    OBVIOUS
  <2> HIDE DEF s
  <2>2. FWindow(s) /\ Range(s) = {FTOS}
    BY <2>1 DEF FWindow, Range, IsInjective
  <2> QED
    BY <2>2 DEF s
<1>7. TOS \notin Pool /\ FTOS \notin FPool
  BY PoolAssumption
<1>8. Strict(L, {})
  <2>1. Held(L) = {TOS} \cup Range(ipins)
    BY <1>1, <1>4, <1>5 DEF Held
  <2>2. Apart(L)
    BY <1>1, <1>4, <1>5, <1>7, <2>1 DEF Apart, GpRegs
  <2> QED
    BY <1>1, <2>1, <2>2 DEF Strict
<1>9. FStrict(L, {})
  <2>1. FHeld(L) = {FTOS} \cup Range(fpins)
    BY <1>1, <1>4, <1>6 DEF FHeld
  <2>2. FApart(L)
    BY <1>1, <1>4, <1>6, <1>7, <2>1 DEF FApart, FpRegs
  <2> QED
    BY <1>1, <2>1, <2>2 DEF FStrict
<1> QED
  BY <1>3, <1>8, <1>9 DEF Sound, Gp, Fp, L

\* The code already executed is forgotten.
LEMMA ExecutedSound ==
  ASSUME NEW L, Sound(L)
  PROVE  Sound([L EXCEPT !.out = <<>>])
<1> DEFINE M == [L EXCEPT !.out = <<>>]
<1>1. IsLow(M) /\ GpSame(L, M) /\ FpSame(L, M) /\ M.panic = L.panic
  BY DEF Sound, IsLow, Fields, GpSame, FpSame
<1> HIDE DEF M
<1>2. GpKept(L, M) /\ FpKept(L, M)
  BY <1>1 DEF GpKept, FpKept, Goes
<1>3. Sound(M)
  BY <1>1, <1>2, GpStays, FpStays DEF Sound
<1> QED
  BY <1>3 DEF M

IInv == prog \in Programs /\ Sound(low)

LEMMA Starts ==
  ASSUME NEW p \in Programs, NEW hot
  PROVE  Sound(NewLow(hot, p.ipins, p.fpins))
BY NewLowSound, ProgramsAssumption

LEMMA InitIInv == Init => IInv
BY Starts DEF Init, IInv

LEMMA NextIInv == IInv /\ [Next]_vars => IInv'
<1> SUFFICES ASSUME IInv, [Next]_vars PROVE IInv'
  OBVIOUS
<1>1. ASSUME NEW t \in prog.toks, Lower(t) PROVE IInv'
  <2>1. IsTok(t)
    BY ProgramsAssumption DEF IInv
  <2>2. Sound(LowerTok(low, t))
    BY <1>1, <2>1, TokenSound DEF Lower, IInv
  <2>3. low' = [LowerTok(low, t) EXCEPT !.out = <<>>] /\ prog' = prog
    BY <1>1 DEF Lower
  <2> QED
    BY <2>2, <2>3, ExecutedSound DEF IInv
<1>2. CASE FinishRun
  <2>1. Sound(Settle(low))
    BY SettleSound DEF IInv
  <2>2. \/ low' = [Settle(low) EXCEPT !.out = <<>>]
        \/ \E hot : low' = NewLow(hot, prog.ipins, prog.fpins)
    BY <1>2 DEF FinishRun
  <2>3. prog' = prog
    BY <1>2 DEF FinishRun
  <2> QED
    BY <2>1, <2>2, <2>3, ExecutedSound, Starts DEF IInv
<1>3. CASE UNCHANGED vars
  BY <1>3 DEF vars, IInv
<1> QED
  BY <1>1, <1>2, <1>3 DEF Next

\* No two holders share a register: what Apart and the marks say, holder by holder.
LEMMA GpExclusive ==
  ASSUME NEW L, Strict(L, {})
  PROVE  Exclusive(GpHeld(L), L.used, Pool)
<1> DEFINE held == GpHeld(L)
           W == {"window"} \X {k \in DOMAIN L.vs : L.vs[k].k = "Reg"}   P == {"pin"} \X DOMAIN L.ipins
           C == {"local"} \X DOMAIN L.lcache   A == {"cell"} \X DOMAIN L.cells
<1>1. DOMAIN held = W \cup P \cup C \cup A
  BY DEF GpHeld
<1>2. /\ \A h \in W : held[h] = L.vs[h[2]].v
      /\ \A h \in P : held[h] = L.ipins[h[2]]
      /\ \A h \in C : held[h] = L.lcache[h[2]].r
      /\ \A h \in A : held[h] = L.cells[h[2]]
  BY DEF GpHeld
<1>3. Window(L.vs) /\ DOMAIN L.vs = 1 .. Len(L.vs)
  BY InWindow DEF Strict, Apart
<1> HIDE DEF held
<1>4. /\ \A h \in W : held[h] \in Regs(L.vs)
      /\ \A h \in P : held[h] \in Range(L.ipins)
      /\ \A h \in C : held[h] \in CacheRegs(L.lcache)
      /\ \A h \in A : held[h] \in Range(L.cells)
  BY <1>2, <1>3 DEF Regs, RegOf, CacheRegs, Range
<1>5. /\ \A g, h \in W : held[g] = held[h] => g = h
      /\ \A g, h \in P : held[g] = held[h] => g = h
      /\ \A g, h \in C : held[g] = held[h] => g = h
      /\ \A g, h \in A : held[g] = held[h] => g = h
  <2>1. \A g, h \in W : held[g] = held[h] => g = h
    BY <1>2, <1>3 DEF Window, RegOf
  <2>2. \A g, h \in P : held[g] = held[h] => g = h
    BY <1>2 DEF Strict, Apart, IsInjective
  <2>3. \A g, h \in C : held[g] = held[h] => g = h
    BY <1>2 DEF Strict, Apart, OneEach
  <2>4. \A g, h \in A : held[g] = held[h] => g = h
    BY <1>2 DEF Strict, Apart, IsInjective
  <2> QED
    BY <2>1, <2>2, <2>3, <2>4
<1>6. IsInjective(held)
  <2> HIDE DEF W, P, C, A
  <2>1. \A g, h \in W \cup P \cup C \cup A : held[g] = held[h] => g = h
    BY <1>4, <1>5 DEF Strict, Apart
  <2> QED
    BY <1>1, <2>1 DEF IsInjective
<1>7. Range(held) = Held(L)
  <2>1. /\ \A r \in Regs(L.vs) : \E h \in W : held[h] = r
        /\ \A r \in Range(L.ipins) : \E h \in P : held[h] = r
        /\ \A r \in CacheRegs(L.lcache) : \E h \in C : held[h] = r
        /\ \A r \in Range(L.cells) : \E h \in A : held[h] = r
    <3>1. ASSUME NEW r \in Regs(L.vs) PROVE \E h \in W : held[h] = r
      <4>1. PICK k \in 1 .. Len(L.vs) : r \in RegOf(L.vs[k])
        BY DEF Regs
      <4>2. L.vs[k].k = "Reg" /\ L.vs[k].v = r
        BY <4>1 DEF RegOf
      <4>3. <<"window", k>> \in W
        BY <1>3, <4>2
      <4> QED
        BY <1>2, <4>2, <4>3
    <3>2. ASSUME NEW r \in Range(L.ipins) PROVE \E h \in P : held[h] = r
      <4>1. PICK k \in DOMAIN L.ipins : r = L.ipins[k]
        BY DEF Range
      <4>2. <<"pin", k>> \in P
        OBVIOUS
      <4> QED
        BY <1>2, <4>1, <4>2
    <3>3. ASSUME NEW r \in CacheRegs(L.lcache) PROVE \E h \in C : held[h] = r
      <4>1. PICK k \in DOMAIN L.lcache : r = L.lcache[k].r
        BY DEF CacheRegs
      <4>2. <<"local", k>> \in C
        OBVIOUS
      <4> QED
        BY <1>2, <4>1, <4>2
    <3>4. ASSUME NEW r \in Range(L.cells) PROVE \E h \in A : held[h] = r
      <4>1. PICK k \in DOMAIN L.cells : r = L.cells[k]
        BY DEF Range
      <4>2. <<"cell", k>> \in A
        OBVIOUS
      <4> QED
        BY <1>2, <4>1, <4>2
    <3> QED
      BY <3>1, <3>2, <3>3, <3>4
  <2> HIDE DEF W, P, C, A
  <2>2. Range(held) = {held[h] : h \in W \cup P \cup C \cup A}
    BY <1>1 DEF Range
  <2> QED
    BY <1>4, <2>1, <2>2 DEF Held
<1> QED
  BY <1>6, <1>7 DEF Exclusive, Strict, held

LEMMA FpExclusive ==
  ASSUME NEW L, FStrict(L, {})
  PROVE  Exclusive(FpHeld(L), L.fused, FPool)
<1> DEFINE held == FpHeld(L)
           W == {"window"} \X DOMAIN L.fvs         P == {"pin"} \X DOMAIN L.fpins
           C == {"flocal"} \X DOMAIN L.flcache     A == {"fvar"} \X DOMAIN L.fvcache
<1>1. DOMAIN held = W \cup P \cup C \cup A
  BY DEF FpHeld
<1>2. /\ \A h \in W : held[h] = L.fvs[h[2]]
      /\ \A h \in P : held[h] = L.fpins[h[2]]
      /\ \A h \in C : held[h] = L.flcache[h[2]].r
      /\ \A h \in A : held[h] = L.fvcache[h[2]].r
  BY DEF FpHeld
<1> HIDE DEF held
<1>3. /\ \A h \in W : held[h] \in Range(L.fvs)
      /\ \A h \in P : held[h] \in Range(L.fpins)
      /\ \A h \in C : held[h] \in CacheRegs(L.flcache)
      /\ \A h \in A : held[h] \in CacheRegs(L.fvcache)
  BY <1>2 DEF CacheRegs, Range
<1>4. \A g, h \in W : held[g] = held[h] => g = h
  BY <1>2 DEF FStrict, FApart, FWindow, IsInjective
<1>5. \A g, h \in P : held[g] = held[h] => g = h
  BY <1>2 DEF FStrict, FApart, IsInjective
<1>6. \A g, h \in C : held[g] = held[h] => g = h
  BY <1>2 DEF FStrict, FApart, OneEach
<1>7. \A g, h \in A : held[g] = held[h] => g = h
  BY <1>2 DEF FStrict, FApart, OneEach
<1>8. IsInjective(held)
  <2> HIDE DEF W, P, C, A
  <2>1. \A g, h \in W \cup P \cup C \cup A : held[g] = held[h] => g = h
    BY <1>3, <1>4, <1>5, <1>6, <1>7 DEF FStrict, FApart
  <2> QED
    BY <1>1, <2>1 DEF IsInjective
<1>9. Range(held) = FHeld(L)
  <2>1. ASSUME NEW r \in Range(L.fvs) PROVE \E h \in W : held[h] = r
    <3>1. PICK k \in DOMAIN L.fvs : r = L.fvs[k]
      BY DEF Range
    <3>2. <<"window", k>> \in W
      OBVIOUS
    <3> QED
      BY <1>2, <3>1, <3>2
  <2>2. ASSUME NEW r \in Range(L.fpins) PROVE \E h \in P : held[h] = r
    <3>1. PICK k \in DOMAIN L.fpins : r = L.fpins[k]
      BY DEF Range
    <3>2. <<"pin", k>> \in P
      OBVIOUS
    <3> QED
      BY <1>2, <3>1, <3>2
  <2>3. ASSUME NEW r \in CacheRegs(L.flcache) PROVE \E h \in C : held[h] = r
    <3>1. PICK k \in DOMAIN L.flcache : r = L.flcache[k].r
      BY DEF CacheRegs
    <3>2. <<"flocal", k>> \in C
      OBVIOUS
    <3> QED
      BY <1>2, <3>1, <3>2
  <2>4. ASSUME NEW r \in CacheRegs(L.fvcache) PROVE \E h \in A : held[h] = r
    <3>1. PICK k \in DOMAIN L.fvcache : r = L.fvcache[k].r
      BY DEF CacheRegs
    <3>2. <<"fvar", k>> \in A
      OBVIOUS
    <3> QED
      BY <1>2, <3>1, <3>2
  <2> HIDE DEF W, P, C, A
  <2>5. Range(held) = {held[h] : h \in W \cup P \cup C \cup A}
    BY <1>1 DEF Range
  <2> QED
    BY <1>3, <2>1, <2>2, <2>3, <2>4, <2>5 DEF FHeld
<1> QED
  BY <1>8, <1>9 DEF Exclusive, FStrict, held

\* Whatever tokens a definition is made of, whatever is hot in its runs and
\* whatever is pinned, and however few registers the pools hold: no register has
\* two holders among the window, the caches and the pins, and those marked used
\* are those held (struct Low, src/opt.rs).
THEOREM NoRegisterShared == Spec => []RegistersExclusive
<1>1. IInv => RegistersExclusive
  BY GpExclusive, FpExclusive DEF IInv, Sound, Gp, Fp, RegistersExclusive
<1> QED
  BY InitIInv, NextIInv, <1>1, PTL DEF Spec

----------------------------------------------------------------------------
(* Allocation succeeds: how many registers a method takes, and has *)

Alive(L) == IsLow(L) /\ ~L.panic
FreeCount(L) == Cardinality(Free(L))

\* M is L after a method that did not panic and cached nothing; ...
Lives(L, M) ==
  /\ Alive(M) /\ M.ipins = L.ipins /\ M.fpins = L.fpins
  /\ CacheRegs(M.lcache) \subseteq CacheRegs(L.lcache) /\ Range(M.cells) \subseteq Range(L.cells)
\* ... and took at most k registers.
Uses(L, M, k) == Lives(L, M) /\ FreeCount(M) + k >= FreeCount(L)

\* The registers it takes to have a location in a register.
Loads(a) == IF a.k = "Reg" THEN 0 ELSE 1

LEMMA FreeCounted ==
  ASSUME NEW L
  PROVE  IsFiniteSet(Free(L)) /\ FreeCount(L) \in Nat
BY RoomAssumption, FS_Difference, FS_CardinalityType DEF Free, FreeCount

LEMMA LivesThrough ==
  ASSUME NEW L, NEW M, NEW N, Lives(L, M), Lives(M, N)
  PROVE  Lives(L, N)
BY DEF Lives

LEMMA UsesThrough ==
  ASSUME NEW L, NEW M, NEW N, NEW j \in Nat, NEW k \in Nat, Uses(L, M, j), Uses(M, N, k)
  PROVE  Uses(L, N, j + k)
<1>1. FreeCount(L) \in Nat /\ FreeCount(M) \in Nat /\ FreeCount(N) \in Nat
  BY FreeCounted
<1> QED
  BY <1>1, LivesThrough DEF Uses

\* Freeing registers, or leaving them alone, uses none.
LEMMA FreesOnly ==
  ASSUME NEW L, NEW M, Lives(L, M), Free(L) \subseteq Free(M)
  PROVE  Uses(L, M, 0)
<1>1. IsFiniteSet(Free(M)) /\ FreeCount(L) \in Nat /\ FreeCount(M) \in Nat
  BY FreeCounted
<1>2. FreeCount(L) <= FreeCount(M)
  BY <1>1, FS_Subset DEF FreeCount
<1> QED
  BY <1>1, <1>2 DEF Uses

\* alloc, when there is a free register, takes it.
LEMMA TakeUses ==
  ASSUME NEW L, Alive(L), FreeCount(L) >= 1
  PROVE  Uses(L, Take(L), 1) /\ Take(L).vs = L.vs /\ Take(L).used = L.used \cup {Got(L)} /\ Got(L) \in Free(L)
<1> DEFINE M == Take(L)
<1>1. IsFiniteSet(Free(L)) /\ FreeCount(L) \in Nat /\ FreeCount(M) \in Nat
  BY FreeCounted
<1>2. Free(L) # {}
  BY FS_EmptySet DEF FreeCount
<1>3. Got(L) \in Free(L)
  BY <1>2, FreshRegister DEF Free
<1>4. Lives(L, M) /\ M.vs = L.vs /\ M.used = L.used \cup {Got(L)}
  BY <1>2 DEF Take, Got, Lives, Alive, IsLow, Fields
<1> HIDE DEF M
<1>5. Free(M) = Free(L) \ {Got(L)}
  BY <1>4 DEF Free
<1>6. FreeCount(M) = FreeCount(L) - 1
  BY <1>1, <1>3, <1>5, FS_RemoveElement DEF FreeCount
<1> QED
  BY <1>1, <1>3, <1>4, <1>6 DEF Uses, M

LEMMA Quiet ==
  ASSUME NEW L, Alive(L)
  PROVE  /\ \A i : Uses(L, Emit(L, i), 0) /\ Emit(L, i).vs = L.vs /\ Emit(L, i).used = L.used
         /\ \A i : Uses(L, EmitAll(L, i), 0)
         /\ \A a : Uses(L, Push(L, a), 0)
         /\ \A r : Uses(L, PushReg(L, r), 0)
         /\ \A n : Uses(L, Pop(L, n), 0)
         /\ \A r : Uses(L, FreeR(L, r), 0)
         /\ \A a : Uses(L, FreeLoc(L, a), 0)
         /\ \A t : Uses(L, [L EXCEPT !.vs = t], 0)
<1>1. ASSUME NEW i PROVE Uses(L, Emit(L, i), 0) /\ Emit(L, i).vs = L.vs /\ Emit(L, i).used = L.used
  <2>1. Lives(L, Emit(L, i)) /\ Emit(L, i).vs = L.vs /\ Emit(L, i).used = L.used
    BY DEF Emit, Lives, Alive, IsLow, Fields
  <2> QED
    BY <2>1, FreesOnly DEF Free
<1>2. ASSUME NEW i PROVE Uses(L, EmitAll(L, i), 0)
  <2>1. Lives(L, EmitAll(L, i)) /\ EmitAll(L, i).used = L.used
    BY DEF EmitAll, Lives, Alive, IsLow, Fields
  <2> QED
    BY <2>1, FreesOnly DEF Free
<1>3. ASSUME NEW a PROVE Uses(L, Push(L, a), 0)
  <2>1. Lives(L, Push(L, a)) /\ Push(L, a).used = L.used
    BY DEF Push, Lives, Alive, IsLow, Fields
  <2> QED
    BY <2>1, FreesOnly DEF Free
<1>4. ASSUME NEW n PROVE Uses(L, Pop(L, n), 0)
  <2>1. Lives(L, Pop(L, n)) /\ Pop(L, n).used = L.used
    BY DEF Pop, Lives, Alive, IsLow, Fields
  <2> QED
    BY <2>1, FreesOnly DEF Free
<1>5. ASSUME NEW r PROVE Uses(L, FreeR(L, r), 0)
  <2>1. Lives(L, FreeR(L, r)) /\ FreeR(L, r).used \subseteq L.used
    BY DEF FreeR, Lives, Alive, IsLow, Fields
  <2> QED
    BY <2>1, FreesOnly DEF Free
<1>6. ASSUME NEW t PROVE Uses(L, [L EXCEPT !.vs = t], 0)
  <2> DEFINE M == [L EXCEPT !.vs = t]
  <2>1. Lives(L, M) /\ M.used = L.used
    BY DEF Lives, Alive, IsLow, Fields
  <2> HIDE DEF M
  <2>2. Uses(L, M, 0)
    BY <2>1, FreesOnly DEF Free
  <2> QED
    BY <2>2 DEF M
<1>7. Uses(L, L, 0)
  BY FreesOnly DEF Lives
<1>8. \A a : Uses(L, FreeLoc(L, a), 0)
  BY <1>5, <1>7 DEF FreeLoc
<1> QED
  BY <1>1, <1>2, <1>3, <1>4, <1>5, <1>6, <1>8 DEF PushReg

LEMMA LoadUses ==
  ASSUME NEW L, Alive(L), FreeCount(L) >= 1, NEW i
  PROVE  Uses(L, Load(L, i), 1) /\ Load(L, i).vs = L.vs /\ Load(L, i).used = L.used \cup {Got(L)} /\ Got(L) \in Free(L)
<1> DEFINE A == Take(L)  j == [rd |-> Got(L)] @@ i
<1>1. Uses(L, A, 1) /\ A.vs = L.vs /\ A.used = L.used \cup {Got(L)} /\ Got(L) \in Free(L)
  BY TakeUses
<1> HIDE DEF A, j
<1>2. Uses(A, Emit(A, j), 0) /\ Emit(A, j).vs = A.vs /\ Emit(A, j).used = A.used
  BY <1>1, Quiet DEF Uses, Lives
<1>3. Uses(L, Emit(A, j), 1 + 0)
  BY <1>1, <1>2, UsesThrough
<1> QED
  BY <1>1, <1>2, <1>3 DEF Load, A, j

LEMMA ToRegUses ==
  ASSUME NEW L, Alive(L), NEW a, FreeCount(L) >= Loads(a)
  PROVE  Uses(L, ToReg(L, a), Loads(a))
<1>1. CASE a.k = "Reg"
  BY <1>1, FreesOnly DEF ToReg, Loads, Lives
<1>2. CASE a.k # "Reg"
  BY <1>2, LoadUses DEF ToReg, Loads
<1> QED
  BY <1>1, <1>2

LEMMA CopyUses ==
  ASSUME NEW L, Alive(L), NEW a, FreeCount(L) >= 1
  PROVE  Uses(L, CopyOf(L, a), 1) /\ Uses(L, PushCopy(L, a), 1)
<1> DEFINE A == CopyOf(L, a)
<1>1. Uses(L, A, 1)
  <2>1. CASE a.k = "Const"
    <3>1. Uses(L, L, 0) /\ FreeCount(L) \in Nat
      BY FreesOnly, FreeCounted DEF Lives
    <3> QED
      BY <2>1, <3>1 DEF CopyOf, Uses
  <2>2. CASE a.k # "Const"
    BY <2>2, LoadUses DEF CopyOf
  <2> QED
    BY <2>1, <2>2
<1> HIDE DEF A
<1>2. Uses(A, Push(A, CopyLoc(L, a)), 0)
  BY <1>1, Quiet DEF Uses, Lives
<1>3. Uses(L, Push(A, CopyLoc(L, a)), 1 + 0)
  BY <1>1, <1>2, UsesThrough
<1> QED
  BY <1>1, <1>3 DEF PushCopy, A

\* t is s with p registers below it.
Sunk(t, s, p) ==
  /\ \E S : t \in Seq(S)
  /\ Len(t) = Len(s) + p
  /\ \A j \in 1 .. p : t[j].k = "Reg"
  /\ \A j \in 1 .. Len(s) : t[p + j] = s[j]

LEMMA SunkDeeper ==
  ASSUME NEW s, Len(s) \in Nat, NEW p \in Nat, NEW t, Sunk(t, s, p), NEW r, NEW u, u = <<Reg(r)>> \o t
  PROVE  Sunk(u, s, p + 1)
<1> DEFINE a == Reg(r)  w == <<a>>
<1>1. a.k = "Reg"
  BY DEF Reg
<1> HIDE DEF a
<1>2. PICK S : t \in Seq(S)
  BY DEF Sunk
<1> DEFINE T == S \cup {a}
<1>3. t \in Seq(T) /\ w \in Seq(T) /\ Len(w) = 1 /\ w[1] = a
  BY <1>2
<1>4. u = w \o t
  BY DEF a
<1> HIDE DEF w, T
<1>5. /\ u \in Seq(T) /\ Len(u) = 1 + Len(t) /\ Len(t) \in Nat /\ u[1] = a
      /\ \A i \in 1 .. Len(t) : u[1 + i] = t[i]
  <2>1. IsJoin(u, w, t, T)
    BY <1>3, <1>4, JoinedIs
  <2> QED
    BY <1>3, <2>1 DEF IsJoin
<1>6. Len(u) = Len(s) + (p + 1)
  BY <1>5 DEF Sunk
<1>7. \A j \in 1 .. p + 1 : u[j].k = "Reg"
  <2> SUFFICES ASSUME NEW j \in 1 .. p + 1 PROVE u[j].k = "Reg"
    OBVIOUS
  <2>1. CASE j = 1
    BY <1>1, <1>5, <2>1
  <2>2. CASE j # 1
    <3>1. j - 1 \in 1 .. p /\ j - 1 \in 1 .. Len(t) /\ 1 + (j - 1) = j
      BY <2>2 DEF Sunk
    <3> QED
      BY <1>5, <3>1 DEF Sunk
  <2> QED
    BY <2>1, <2>2
<1>8. \A j \in 1 .. Len(s) : u[(p + 1) + j] = s[j]
  <2> SUFFICES ASSUME NEW j \in 1 .. Len(s) PROVE u[(p + 1) + j] = s[j]
    OBVIOUS
  <2>1. p + j \in 1 .. Len(t) /\ 1 + (p + j) = (p + 1) + j
    BY DEF Sunk
  <2>2. t[p + j] = s[j]
    BY DEF Sunk
  <2> QED
    BY <1>5, <2>1, <2>2
<1> QED
  BY <1>5, <1>6, <1>7, <1>8 DEF Sunk

\* One turn of ensure takes one register, which goes under the window.
LEMMA PullUses ==
  ASSUME NEW L, Alive(L), FreeCount(L) >= 1
  PROVE  Uses(L, Pull(L), 1) /\ Pull(L).vs = <<Reg(Got(L))>> \o L.vs
<1> DEFINE i == [op |-> "ldsp", off |-> L.consumed]
           A == Load(L, i)  r == Got(L)  M == Pull(L)
<1>1. Uses(L, A, 1) /\ A.vs = L.vs
  BY LoadUses
<1>2. M = [A EXCEPT !.consumed = @ + 1, !.vs = <<Reg(r)>> \o @]
  BY DEF Pull
<1> HIDE DEF A, r, M
<1>3. Lives(A, M) /\ M.used = A.used /\ M.vs = <<Reg(r)>> \o A.vs
  BY <1>1, <1>2 DEF Uses, Lives, Alive, IsLow, Fields
<1>4. Uses(A, M, 0)
  BY <1>3, FreesOnly DEF Free
<1>5. Uses(L, M, 1 + 0)
  BY <1>1, <1>4, UsesThrough
<1> QED
  BY <1>1, <1>3, <1>5 DEF M, r

\* ensure takes a register for each cell that the window lacks.
LEMMA EnsureUses ==
  ASSUME NEW L, Alive(L), NEW T, L.vs \in Seq(T), NEW n \in Nat, FreeCount(L) >= n - Len(L.vs)
  PROVE  \E p \in 0 .. n : /\ Uses(L, Ensure(L, n), p) /\ Sunk(Ensure(L, n).vs, L.vs, p)
                           /\ Len(Ensure(L, n).vs) >= n /\ (p > 0 => Len(Ensure(L, n).vs) = n)
<1>1. Len(L.vs) \in Nat /\ FreeCount(L) \in Nat
  BY FreeCounted
<1>2. Uses(L, L, 0) /\ Sunk(L.vs, L.vs, 0)
  BY <1>1, FreesOnly DEF Lives, Sunk
<1>3. CASE Len(L.vs) >= n /\ Ensure(L, n) = L
  BY <1>2, <1>3
<1>4. CASE ~(Len(L.vs) >= n /\ Ensure(L, n) = L)
  <2> DEFINE m == n - Len(L.vs)
  <2>1. PICK g : /\ g[0] = L /\ Ensure(L, n) = g[m]
                 /\ \A k \in 0 .. m - 1 : g[k + 1] = Pull(g[k])
    BY <1>1, <1>4, EnsureTurns
  <2>2. m \in Nat /\ m \in 0 .. n /\ m <= FreeCount(L) /\ Len(L.vs) + m = n
    BY <1>1, <1>4, EnsureTurns
  <2> HIDE DEF m
  <2> DEFINE Pulled(A, k) == Uses(L, A, k) /\ Sunk(A.vs, L.vs, k)
             Done == {k \in 0 .. m : Pulled(g[k], k)}
  <2>3. 0 \in Done
    BY <1>2, <2>1, <2>2
  <2>4. ASSUME NEW k \in 0 .. m - 1, k \in Done PROVE k + 1 \in Done
    <3> DEFINE A == g[k]
    <3>1. Pulled(A, k) /\ g[k + 1] = Pull(A) /\ k \in Nat /\ k + 1 \in 0 .. m
      BY <2>1, <2>2, <2>4
    <3> HIDE DEF A
    <3>2. FreeCount(A) \in Nat /\ Alive(A)
      BY <3>1, FreeCounted DEF Uses, Lives
    <3>3. FreeCount(A) >= 1
      BY <1>1, <2>2, <2>4, <3>1, <3>2 DEF Uses
    <3>4. Uses(A, Pull(A), 1) /\ Pull(A).vs = <<Reg(Got(A))>> \o A.vs
      BY <3>2, <3>3, PullUses
    <3>5. Uses(L, Pull(A), k + 1)
      BY <3>1, <3>4, UsesThrough
    <3>6. Sunk(Pull(A).vs, L.vs, k + 1)
      BY <1>1, <3>1, <3>4, SunkDeeper
    <3> QED
      BY <3>1, <3>5, <3>6
  <2> HIDE DEF Done
  <2>5. \A k \in 0 .. m : k \in Done
    BY <2>2, <2>3, <2>4, UpTo
  <2>6. Pulled(g[m], m)
    <3>1. m \in Done
      BY <2>2, <2>5
    <3> QED
      BY <3>1 DEF Done
  <2>7. Len(g[m].vs) = n
    BY <2>2, <2>6 DEF Sunk
  <2> QED
    BY <2>1, <2>2, <2>6, <2>7
<1> QED
  BY <1>3, <1>4

----------------------------------------------------------------------------
(* Settling always finds the registers it needs *)

\* What the session leaves unpinned.
Ample(L) == Cardinality(Unpinned(L)) >= 2 /\ FPool \ Range(L.fpins) # {}

LEMMA SomeUnpinned ==
  ASSUME NEW L, Ample(L), NEW X, NEW x, X = {} \/ X = {x}
  PROVE  \E y \in Unpinned(L) : y \notin X
<1>1. IsFiniteSet(Unpinned(L)) /\ Cardinality(Unpinned(L)) \in Nat
  BY RoomAssumption, FS_Difference, FS_CardinalityType DEF Unpinned
<1>2. Cardinality(Unpinned(L) \ {x}) >= 1
  <2>1. CASE x \in Unpinned(L)
    <3> DEFINE U == Unpinned(L)
    <3>1. IsFiniteSet(U) /\ Cardinality(U) \in Nat /\ Cardinality(U) >= 2 /\ x \in U
      BY <1>1, <2>1 DEF Ample
    <3> HIDE DEF U
    <3>2. Cardinality(U \ {x}) = Cardinality(U) - 1
      BY <3>1, FS_RemoveElement
    <3>3. Cardinality(U \ {x}) >= 1
      BY <3>1, <3>2
    <3> QED
      BY <3>3 DEF U
  <2>2. CASE x \notin Unpinned(L)
    <3>1. Unpinned(L) \ {x} = Unpinned(L)
      BY <2>2
    <3> QED
      BY <1>1, <3>1 DEF Ample
  <2> QED
    BY <2>1, <2>2
<1>3. Unpinned(L) \ {x} # {}
  BY <1>2, FS_EmptySet
<1> QED
  BY <1>3

\* The window has a register to fill it when it is empty, and the constants have
\* one to go through.
LEMMA Scratched ==
  ASSUME NEW B, Alive(B), NEW S, B.vs \in Seq(S), NEW X, NEW x, X = {} \/ X = {x}, Ample(B),
         B.used \cap Pool \subseteq Regs(B.vs) \cup Range(B.ipins) \cup X
  PROVE  Alive(Filled(B)) /\ Scratch(Filled(B)) # {}
<1>1. PICK y \in Unpinned(B) : y \notin X
  BY SomeUnpinned
<1>2. CASE B.vs # <<>>
  <2>1. Filled(B) = B
    BY <1>2 DEF Filled
  <2> DEFINE held == {a.v : a \in {b \in ToSet(B.vs) : b.k = "Reg"}}
  <2>2. ASSUME y \in Regs(B.vs) PROVE y \in held
    <3>1. PICK k \in 1 .. Len(B.vs) : y \in RegOf(B.vs[k])
      BY <2>2 DEF Regs
    <3>2. B.vs[k].k = "Reg" /\ B.vs[k].v = y
      BY <3>1 DEF RegOf
    <3>3. B.vs[k] \in ToSet(B.vs)
      BY DEF ToSet
    <3> QED
      BY <3>2, <3>3
  <2>3. y \in Pool /\ (y \in B.used => y \in held)
    BY <1>1, <2>2 DEF Unpinned
  <2>4. y \in Scratch(B)
    BY <2>3 DEF Scratch
  <2> QED
    BY <2>1, <2>4
<1>3. CASE B.vs = <<>>
  <2> DEFINE C == Pull(B)  g == Got(B)
  <2>1. Regs(B.vs) = {}
    BY <1>3 DEF Regs
  <2>2. y \in Free(B)
    BY <1>1, <2>1 DEF Free, Unpinned
  <2>3. FreeCount(B) >= 1
    BY <2>2, FreeCounted, FS_EmptySet DEF FreeCount
  <2>4. Alive(C) /\ C.vs = <<Reg(g)>> \o B.vs
    BY <2>3, PullUses DEF Uses, Lives
  <2>5. g \in Pool
    BY <2>2, FreshRegister
  <2>6. Filled(B) = C
    BY <1>3 DEF Filled
  <2> HIDE DEF C, g
  <2>7. C.vs = <<Reg(g)>>
    BY <1>3, <2>4
  <2>8. Reg(g).k = "Reg" /\ Reg(g).v = g /\ Reg(g) \in ToSet(C.vs)
    <3>1. DOMAIN C.vs = {1} /\ C.vs[1] = Reg(g)
      BY <2>7
    <3> QED
      BY <3>1 DEF ToSet, Reg
  <2>9. g \in Scratch(C)
    BY <2>5, <2>8 DEF Scratch
  <2> QED
    BY <2>4, <2>6, <2>9
<1> QED
  BY <1>2, <1>3

LEMMA SettleUses ==
  ASSUME NEW L, Alive(L), NEW X, NEW x, X = {} \/ X = {x}, Strict(L, X), Ample(L)
  PROVE  /\ Uses(L, SettleData(L), 0) /\ Free(SettleData(L)) = Unpinned(L)
         /\ SettleData(L).vs = <<Reg(TOS)>>
<1> DEFINE A == ClearCells(L)  B == SpillLocals(A)  C == Filled(B)  M == SettleData(L)
<1>1. Alive(A) /\ A.vs = L.vs /\ A.ipins = L.ipins /\ A.fpins = L.fpins /\ A.lcache = L.lcache
      /\ A.used = L.used \ Range(L.cells)
  BY DEF ClearCells, Alive, IsLow, Fields
<1> HIDE DEF A
<1>2. Alive(B) /\ B.vs = L.vs /\ B.ipins = L.ipins /\ B.fpins = L.fpins
      /\ B.used = (L.used \ Range(L.cells)) \ CacheRegs(L.lcache)
  BY <1>1 DEF SpillLocals, EmitAll, CacheRegs, Alive, IsLow, Fields
<1> HIDE DEF B
<1>3. B.used \cap Pool \subseteq Regs(B.vs) \cup Range(B.ipins) \cup X
  BY <1>2 DEF Strict, Held
<1>4. PICK S : L.vs \in Seq(S)
  BY DEF Strict, Apart, Window
<1>5. Ample(B)
  BY <1>2 DEF Ample, Unpinned
<1>6. Alive(C) /\ Scratch(C) # {}
  BY <1>2, <1>3, <1>4, <1>5, Scratched
<1>7. M = Unwind(C)
  BY DEF SettleData, A, B
<1> HIDE DEF C
<1>8. ~M.panic
  <2> DEFINE D == EmitAll(C, UnwindCode(C))
  <2>1. M = Canonical(D)
    BY <1>6, <1>7 DEF Unwind
  <2>2. IsLow(D) /\ ~D.panic
    <3> DEFINE code == UnwindCode(C)
    <3> HIDE DEF code
    <3>1. IsLow(EmitAll(C, code)) /\ ~EmitAll(C, code).panic
      BY <1>6 DEF EmitAll, Alive, IsLow, Fields
    <3> QED
      BY <3>1 DEF code
  <2> HIDE DEF D
  <2> QED
    BY <2>1, <2>2 DEF Canonical, IsLow, Fields
<1>9. FpKept(L, M) /\ GpSettled(L, M)
  BY <1>8, SettledIs DEF Alive
<1> HIDE DEF M
<1>10. Lives(L, M)
  <2>1. CacheRegs(<<>>) = {} /\ Range(<<>>) = {}
    BY DEF CacheRegs, Range
  <2> QED
    BY <1>8, <1>9, <2>1 DEF Lives, Alive, FpKept, FpSame, Goes, GpSettled
<1>11. Free(M) = Unpinned(L)
  BY <1>9, PoolAssumption DEF GpSettled, Free, Unpinned
<1>12. Free(L) \subseteq Free(M)
  BY <1>11 DEF Strict, Held, Free, Unpinned
<1> QED
  BY <1>9, <1>10, <1>11, <1>12, FreesOnly DEF GpSettled, M

----------------------------------------------------------------------------
(* What is left after reserve and ensure *)

\* A method of the GP half may start, or go on with X in hand.
Fit(L) == Alive(L) /\ Strict(L, {}) /\ Ample(L)

\* Room for n locations in the window and m registers besides: either for all of
\* them, or just enough after a settling, when the window holds a register.
Roomy(L, m, n) ==
  /\ Alive(L) /\ \E S : L.vs \in Seq(S)
  /\ \/ FreeCount(L) >= m + n
     \/ FreeCount(L) >= m + n - 1 /\ Len(L.vs) = 1 /\ L.vs[1].k = "Reg"

\* reserve leaves as many free registers as it was asked for.
LEMMA ReserveUses ==
  ASSUME NEW L, Fit(L), NEW n \in Nat
  PROVE  /\ Uses(L, Reserve(L, n), 0)
         /\ n <= Cardinality(Unpinned(L)) => FreeCount(Reserve(L, n)) >= n
         /\ \A m, k \in Nat : m + k <= n /\ m + k - 1 <= Cardinality(Unpinned(L)) => Roomy(Reserve(L, n), m, k)
<1> DEFINE M == SettleData(L)
<1>1. Uses(L, L, 0) /\ FreeCount(L) \in Nat
  BY FreesOnly, FreeCounted DEF Fit, Lives
<1>2. Uses(L, M, 0) /\ Free(M) = Unpinned(L) /\ M.vs = <<Reg(TOS)>>
  BY SettleUses DEF Fit
<1> HIDE DEF M
<1>3. Reserve(L, n) = IF FreeCount(L) < n THEN M ELSE L
  BY DEF Reserve, FreeCount, M
<1>4. FreeCount(M) = Cardinality(Unpinned(L)) /\ FreeCount(M) \in Nat
  BY <1>2, FreeCounted DEF FreeCount
<1>5. \E S : M.vs \in Seq(S)
  <2>1. <<Reg(TOS)>> \in Seq({Reg(TOS)})
    OBVIOUS
  <2> QED
    BY <1>2, <2>1
<1>6. \E S : L.vs \in Seq(S)
  BY DEF Fit, Strict, Apart, Window
<1>7. Len(M.vs) = 1 /\ M.vs[1].k = "Reg"
  BY <1>2 DEF Reg
<1>8. CASE FreeCount(L) < n
  BY <1>2, <1>3, <1>4, <1>5, <1>7, <1>8 DEF Roomy, Uses, Lives
<1>9. CASE ~(FreeCount(L) < n)
  BY <1>1, <1>3, <1>6, <1>9 DEF Roomy, Uses, Lives
<1> QED
  BY <1>8, <1>9

\* The registers it takes to have the top n locations in registers, n at most 2.
TopLoads(L, n) == (IF n >= 1 THEN Loads(Nth(L.vs, 0)) ELSE 0) + (IF n = 2 THEN Loads(Nth(L.vs, 1)) ELSE 0)

\* ensure uses up the room for the locations that the window lacks, and those that
\* it has may be constants.
LEMMA EnsureRoomy ==
  ASSUME NEW L, NEW m \in Nat, NEW n \in Nat, n >= 1, Roomy(L, m, n)
  PROVE  LET E == Ensure(L, n)
         IN  /\ Lives(L, E) /\ Len(E.vs) >= n /\ FreeCount(E) >= m
             /\ n <= 2 => FreeCount(E) >= m + TopLoads(E, n)
<1> DEFINE E == Ensure(L, n)
<1>1. PICK S : L.vs \in Seq(S)
  BY DEF Roomy
<1>2. FreeCount(L) >= n - Len(L.vs) /\ FreeCount(L) \in Nat /\ Len(L.vs) \in Nat /\ FreeCount(E) \in Nat
  BY <1>1, FreeCounted DEF Roomy
<1>3. PICK p \in 0 .. n : /\ Uses(L, E, p) /\ Sunk(E.vs, L.vs, p)
                          /\ Len(E.vs) >= n /\ (p > 0 => Len(E.vs) = n)
  BY <1>1, <1>2, EnsureUses DEF Roomy
<1> HIDE DEF E
<1>4. Len(E.vs) = Len(L.vs) + p /\ FreeCount(E) + p >= FreeCount(L)
  BY <1>3 DEF Sunk, Uses
<1>5. FreeCount(E) >= m
  BY <1>2, <1>3, <1>4 DEF Roomy
<1>6. \A j \in 1 .. p : Loads(E.vs[j]) = 0
  BY <1>3 DEF Sunk, Loads
<1>7. \A a : Loads(a) \in {0, 1}
  BY DEF Loads
<1>8. CASE FreeCount(L) >= m + n
  <2>1. CASE n = 1
    <3>1. Nth(E.vs, 0) = E.vs[Len(E.vs)]
      BY <1>2, <1>4 DEF Nth
    <3>2. p = 1 => Loads(Nth(E.vs, 0)) = 0
      BY <1>3, <1>6, <2>1, <3>1
    <3> QED
      BY <1>2, <1>3, <1>4, <1>5, <1>7, <1>8, <2>1, <3>2 DEF TopLoads, Uses, E
  <2>2. CASE n = 2
    <3>1. Nth(E.vs, 0) = E.vs[Len(E.vs)] /\ Nth(E.vs, 1) = E.vs[Len(E.vs) - 1]
      BY <1>2, <1>4 DEF Nth
    <3>2. p >= 1 => Loads(Nth(E.vs, 1)) = 0
      BY <1>3, <1>6, <2>2, <3>1
    <3>3. p = 2 => Loads(Nth(E.vs, 0)) = 0
      BY <1>3, <1>6, <2>2, <3>1
    <3> QED
      BY <1>2, <1>3, <1>4, <1>5, <1>7, <1>8, <2>2, <3>2, <3>3 DEF TopLoads, Uses, E
  <2> QED
    BY <1>3, <1>5, <2>1, <2>2 DEF E, Uses
<1>9. CASE FreeCount(L) >= m + n - 1 /\ Len(L.vs) = 1 /\ L.vs[1].k = "Reg"
  <2>1. p = n - 1
    BY <1>3, <1>4, <1>9
  <2>2. Loads(E.vs[n]) = 0 /\ Len(E.vs) = n
    <3>1. E.vs[p + 1] = L.vs[1]
      BY <1>3, <1>9 DEF Sunk
    <3> QED
      BY <1>4, <1>9, <2>1, <3>1 DEF Loads
  <2>3. Loads(Nth(E.vs, 0)) = 0
    BY <2>2 DEF Nth
  <2>4. n = 2 => Loads(Nth(E.vs, 1)) = 0
    BY <1>6, <2>1, <2>2 DEF Nth
  <2>5. n <= 2 => TopLoads(E, n) = 0
    BY <2>3, <2>4 DEF TopLoads
  <2> QED
    BY <1>3, <1>5, <2>5 DEF E, Uses
<1> QED
  BY <1>8, <1>9 DEF Roomy

LEMMA RoomUses ==
  ASSUME NEW L, Fit(L), NEW r \in Nat, NEW n \in Nat, n >= 1, NEW m \in Nat,
         m + n <= r, m + n - 1 <= Cardinality(Unpinned(L))
  PROVE  LET E == Room(L, r, n)
         IN  /\ Lives(L, E) /\ Len(E.vs) >= n /\ FreeCount(E) >= m
             /\ n <= 2 => FreeCount(E) >= m + TopLoads(E, n)
<1> DEFINE R == Reserve(L, r)
<1>1. Uses(L, R, 0) /\ Roomy(R, m, n)
  BY ReserveUses
<1> HIDE DEF R
<1> QED
  BY <1>1, EnsureRoomy, LivesThrough DEF Room, R, Uses

----------------------------------------------------------------------------
(* The methods of the GP half, with the registers they need free *)

\* The registers that neither a cache nor a pin holds.
Spare(L) == Pool \ (CacheRegs(L.lcache) \cup Range(L.cells) \cup Range(L.ipins))

LEMMA QuietLives ==
  ASSUME NEW L, Alive(L)
  PROVE  /\ \A i : Lives(L, Emit(L, i)) /\ Lives(L, EmitAll(L, i))
         /\ \A a : Lives(L, Push(L, a)) /\ Lives(L, PushReg(L, a)) /\ Lives(L, Pop(L, a))
         /\ \A a : Lives(L, FreeR(L, a)) /\ Lives(L, FreeLoc(L, a)) /\ Lives(L, [L EXCEPT !.vs = a])
         /\ Lives(L, L)
BY Quiet DEF Uses, Lives

\* The same after another method.
LEMMA ThenQuiet ==
  ASSUME NEW L, NEW M, Lives(L, M)
  PROVE  /\ \A i : Lives(L, Emit(M, i)) /\ Lives(L, EmitAll(M, i))
         /\ \A a : Lives(L, Push(M, a)) /\ Lives(L, PushReg(M, a)) /\ Lives(L, Pop(M, a))
         /\ \A a : Lives(L, FreeR(M, a)) /\ Lives(L, FreeLoc(M, a)) /\ Lives(L, [M EXCEPT !.vs = a])
<1>1. Alive(M)
  BY DEF Lives
<1> QED
  BY <1>1, QuietLives, LivesThrough

LEMMA SpareStays ==
  ASSUME NEW L, NEW M, Lives(L, M)
  PROVE  Spare(L) \subseteq Spare(M)
BY DEF Lives, Spare

\* Popping gives up no register.
LEMMA PopUses ==
  ASSUME NEW L, Alive(L), NEW n
  PROVE  Lives(L, Pop(L, n)) /\ Alive(Pop(L, n)) /\ FreeCount(Pop(L, n)) = FreeCount(L)
<1> DEFINE M == Pop(L, n)
<1>1. Lives(L, M) /\ M.used = L.used
  BY DEF Pop, Lives, Alive, IsLow, Fields
<1> HIDE DEF M
<1>2. Alive(M) /\ FreeCount(M) = FreeCount(L)
  BY <1>1 DEF Lives, FreeCount, Free
<1> QED
  BY <1>1, <1>2 DEF M

LEMMA OneRegLives ==
  ASSUME NEW L, Alive(L), NEW a, FreeCount(L) >= Loads(a), NEW i
  PROVE  Lives(L, PushReg(Emit(ToReg(L, a), i), InReg(L, a)))
<1> DEFINE A == ToReg(L, a)  r == InReg(L, a)
<1>1. Lives(L, A)
  BY ToRegUses DEF Uses
<1> HIDE DEF A, r
<1>2. Lives(L, Emit(A, i))
  BY <1>1, ThenQuiet
<1>3. Lives(L, PushReg(Emit(A, i), r))
  BY <1>2, ThenQuiet
<1> QED
  BY <1>3 DEF A, r

\* Two operands in registers.
LEMMA TwoLoads ==
  ASSUME NEW L, Alive(L), NEW a, NEW b, FreeCount(L) >= Loads(a) + Loads(b)
  PROVE  Lives(L, ToReg(ToReg(L, a), b))
<1> DEFINE A == ToReg(L, a)
<1>1. Loads(a) \in Nat /\ Loads(b) \in Nat
  BY DEF Loads
<1>2. FreeCount(L) \in Nat /\ FreeCount(A) \in Nat
  BY FreeCounted
<1>3. Uses(L, A, Loads(a))
  BY <1>1, <1>2, ToRegUses
<1> HIDE DEF A
<1>4. FreeCount(A) >= Loads(b) /\ Alive(A)
  BY <1>1, <1>2, <1>3 DEF Uses, Lives
<1>5. Uses(A, ToReg(A, b), Loads(b))
  BY <1>4, ToRegUses
<1> QED
  BY <1>3, <1>5, LivesThrough DEF Uses, A

LEMMA TwoRegsLives ==
  ASSUME NEW L, Alive(L), NEW a, NEW b, FreeCount(L) >= Loads(a) + Loads(b), NEW i
  PROVE  Lives(L, TwoRegs(L, a, b, i))
<1> DEFINE A == ToReg(L, a)  ra == InReg(L, a)
           B == ToReg(A, b)  rb == InReg(A, b)
           C == Emit(B, [rd |-> ra, rn |-> ra, rm |-> rb] @@ i)
           D == FreeR(C, rb)
<1>1. Lives(L, B)
  BY TwoLoads
<1> HIDE DEF B, ra, rb
<1>2. Lives(L, C)
  BY <1>1, ThenQuiet
<1> HIDE DEF C
<1>3. Lives(L, D)
  BY <1>2, ThenQuiet
<1> HIDE DEF D
<1>4. Lives(L, PushReg(D, ra))
  BY <1>3, ThenQuiet
<1> QED
  BY <1>4 DEF TwoRegs, A, B, C, D, ra, rb

\* What the two-operand methods end in.
LEMMA TwoOperandsLive ==
  ASSUME NEW L, Alive(L), FreeCount(L) >= TopLoads(L, 2), NEW a, a = Nth(L.vs, 1), NEW b, b = Nth(L.vs, 0),
         NEW P, P = Pop(L, 2)
  PROVE  /\ \A c : Lives(L, Push(P, c))
         /\ \A i, r : Lives(L, PushReg(Emit(P, i), r))
         /\ \A i : Lives(L, PushReg(Emit(ToReg(P, a), i), InReg(P, a)))
         /\ \A i : Lives(L, PushReg(Emit(ToReg(P, b), i), InReg(P, b)))
         /\ \A i : Lives(L, TwoRegs(P, a, b, i))
<1>1. Loads(a) \in Nat /\ Loads(b) \in Nat /\ FreeCount(P) \in Nat
  BY FreeCounted DEF Loads
<1>2. Alive(P) /\ Lives(L, P) /\ FreeCount(P) >= Loads(a) + Loads(b)
  <2>1. FreeCount(L) >= Loads(a) + Loads(b)
    BY <1>1 DEF TopLoads
  <2> QED
    BY <2>1, PopUses
<1>3. FreeCount(P) >= Loads(a) /\ FreeCount(P) >= Loads(b)
  BY <1>1, <1>2
<1>4. \A i : /\ Lives(P, PushReg(Emit(ToReg(P, a), i), InReg(P, a)))
             /\ Lives(P, PushReg(Emit(ToReg(P, b), i), InReg(P, b)))
             /\ Lives(P, TwoRegs(P, a, b, i))
  BY <1>2, <1>3, OneRegLives, TwoRegsLives
<1>5. \A c : Lives(L, Push(P, c))
  BY <1>2, ThenQuiet
<1>6. ASSUME NEW i, NEW r PROVE Lives(L, PushReg(Emit(P, i), r))
  <2> DEFINE B == Emit(P, i)
  <2>1. Lives(L, B)
    BY <1>2, ThenQuiet
  <2> HIDE DEF B
  <2>2. Lives(L, PushReg(B, r))
    BY <2>1, ThenQuiet
  <2> QED
    BY <2>2 DEF B
<1> QED
  BY <1>2, <1>4, <1>5, <1>6, LivesThrough

LEMMA BinLives ==
  ASSUME NEW L, Alive(L), FreeCount(L) >= TopLoads(L, 2), NEW f
  PROVE  Lives(L, Bin(L, f))
BY TwoOperandsLive DEF Bin, ImmBinTo

LEMMA ShiftLives ==
  ASSUME NEW L, Alive(L), FreeCount(L) >= TopLoads(L, 2), NEW f
  PROVE  Lives(L, Shift(L, f))
BY TwoOperandsLive DEF Shift

LEMMA CmpLives ==
  ASSUME NEW L, Alive(L), FreeCount(L) >= TopLoads(L, 2), NEW c
  PROVE  Lives(L, CmpOp(L, c))
BY TwoOperandsLive DEF CmpOp, ImmCmp

LEMMA SelLives ==
  ASSUME NEW L, Alive(L), FreeCount(L) >= TopLoads(L, 2), NEW s
  PROVE  Lives(L, SelOp(L, s))
BY TwoOperandsLive DEF SelOp

LEMMA InPlaceLives ==
  ASSUME NEW L, Alive(L), NEW v, NEW i
  PROVE  Lives(L, InPlace(L, v, i))
<1> DEFINE P == Pop(L, 1)
<1>1. Lives(L, P)
  BY QuietLives
<1> HIDE DEF P
<1>2. \A c : Lives(L, Push(P, c))
  BY <1>1, ThenQuiet
<1>3. \A j : Lives(L, Emit(L, j))
  BY QuietLives
<1> QED
  BY <1>2, <1>3 DEF InPlace, P

\* What the one-operand methods end in.
LEMMA OneOperandLives ==
  ASSUME NEW L, Alive(L), FreeCount(L) >= TopLoads(L, 1), NEW a, a = Nth(L.vs, 0), NEW P, P = Pop(L, 1)
  PROVE  /\ Alive(P) /\ Lives(L, P) /\ FreeCount(P) = FreeCount(L) /\ FreeCount(L) >= Loads(a)
         /\ \A c : Lives(L, Push(P, c))
         /\ \A i : Lives(L, PushReg(Emit(ToReg(P, a), i), InReg(P, a)))
<1>1. Alive(P) /\ Lives(L, P) /\ FreeCount(P) = FreeCount(L)
  BY PopUses
<1>2. FreeCount(L) >= Loads(a)
  <2>1. TopLoads(L, 1) = Loads(a)
    BY DEF TopLoads, Loads
  <2> QED
    BY <2>1
<1>3. \A i : Lives(P, PushReg(Emit(ToReg(P, a), i), InReg(P, a)))
  BY <1>1, <1>2, OneRegLives
<1>4. \A c : Lives(L, Push(P, c))
  BY <1>1, ThenQuiet
<1> QED
  BY <1>1, <1>2, <1>3, <1>4, LivesThrough

LEMMA ImmBinLives ==
  ASSUME NEW L, Alive(L), FreeCount(L) >= 1 + TopLoads(L, 1), NEW f, NEW n
  PROVE  Lives(L, ImmBin(L, f, n))
<1> DEFINE i == [op |-> "movi", n |-> n]  A == Load(L, i)  t == Got(L)
           j == [op |-> "alu", f |-> f, rd |-> Top(L).v, rn |-> Top(L).v, rm |-> t]
<1>1. FreeCount(L) \in Nat /\ TopLoads(L, 1) \in Nat
  BY FreeCounted DEF TopLoads, Loads
<1>2. FreeCount(L) >= 1 /\ FreeCount(L) >= TopLoads(L, 1)
  BY <1>1
<1>3. Lives(L, A)
  BY <1>2, LoadUses DEF Uses
<1> HIDE DEF A, t, j
<1>4. Lives(L, Emit(A, j))
  BY <1>3, ThenQuiet
<1>5. Lives(L, FreeR(Emit(A, j), t))
  BY <1>4, ThenQuiet
<1>6. /\ \A c : Lives(L, Push(Pop(L, 1), c))
      /\ \A k : Lives(L, PushReg(Emit(ToReg(Pop(L, 1), Top(L)), k), InReg(Pop(L, 1), Top(L))))
  BY <1>2, OneOperandLives DEF Top
<1> QED
  BY <1>5, <1>6 DEF ImmBin, ImmBinTo, A, t, j

LEMMA DupBinLives ==
  ASSUME NEW L, Alive(L), NEW f
  PROVE  Lives(L, DupBin(L, f))
<1> DEFINE P == Pop(L, 1)  B == FreeLoc(P, Top(L))
<1>1. Lives(L, P)
  BY QuietLives
<1> HIDE DEF P
<1>2. Lives(L, B)
  BY <1>1, ThenQuiet
<1> HIDE DEF B
<1>3. Lives(L, Push(B, Const(0)))
  BY <1>2, ThenQuiet
<1>4. Lives(L, L)
  BY QuietLives
<1> QED
  BY <1>3, <1>4, InPlaceLives DEF DupBin, B, P

LEMMA LoadThroughLives ==
  ASSUME NEW L, Alive(L), FreeCount(L) >= TopLoads(L, 1), NEW i
  PROVE  Lives(L, LoadThrough(L, i))
<1>1. \A k : Lives(L, PushReg(Emit(ToReg(Pop(L, 1), Top(L)), k), InReg(Pop(L, 1), Top(L))))
  BY OneOperandLives DEF Top
<1> QED
  BY <1>1 DEF LoadThrough

LEMMA IvarStoreLives ==
  ASSUME NEW L, Alive(L), FreeCount(L) >= 1 + TopLoads(L, 1), NEW off
  PROVE  Lives(L, IvarStore(L, off))
<1> DEFINE a == Top(L)  P == Pop(L, 1)  A == ToReg(P, a)  rv == InReg(P, a)  rs == Got(A)
           B == Load(A, [op |-> "ldself"])
           C == Emit(B, [op |-> "str", rn |-> rs, rm |-> rv, off |-> off])  D == FreeR(C, rv)
<1>1. FreeCount(L) \in Nat /\ Loads(a) \in Nat /\ FreeCount(A) \in Nat /\ TopLoads(L, 1) = Loads(a)
  BY FreeCounted DEF TopLoads, Loads, Top
<1>2. Alive(P) /\ Lives(L, P) /\ FreeCount(P) = FreeCount(L)
  BY PopUses
<1> HIDE DEF P, a
<1>3. Uses(P, A, Loads(a))
  BY <1>1, <1>2, ToRegUses
<1> HIDE DEF A, rv
<1>4. FreeCount(A) >= 1 /\ Alive(A) /\ Lives(L, A)
  BY <1>1, <1>2, <1>3, LivesThrough DEF Uses, Lives
<1>5. Lives(A, B)
  BY <1>4, LoadUses DEF Uses
<1> HIDE DEF B, rs
<1>6. Lives(L, B)
  BY <1>4, <1>5, LivesThrough
<1>7. Lives(L, C)
  BY <1>6, ThenQuiet
<1> HIDE DEF C
<1>8. Lives(L, D)
  BY <1>7, ThenQuiet
<1> HIDE DEF D
<1>9. Lives(L, FreeR(D, rs))
  BY <1>8, ThenQuiet
<1> QED
  BY <1>9 DEF IvarStore, A, B, C, D, P, a, rv, rs

\* The address first, then the value.
LEMMA StoreAtLives ==
  ASSUME NEW L, Alive(L), FreeCount(L) >= TopLoads(L, 2), NEW i
  PROVE  Lives(L, StoreAt(L, i))
<1> DEFINE P == Pop(L, 2)  addr == Nth(L.vs, 0)  x == Nth(L.vs, 1)
           A == ToReg(P, addr)  ra == InReg(P, addr)
           B == ToReg(A, x)     rx == InReg(A, x)
           C == Emit(B, [rn |-> ra, rm |-> rx] @@ i)  D == FreeR(C, rx)
<1>1. Loads(addr) \in Nat /\ Loads(x) \in Nat
  BY DEF Loads
<1>2. Alive(P) /\ Lives(L, P) /\ FreeCount(P) = FreeCount(L)
  BY PopUses
<1>3. FreeCount(L) >= Loads(addr) + Loads(x)
  BY <1>1 DEF TopLoads
<1> HIDE DEF P, addr, x
<1>4. Lives(P, B)
  BY <1>2, <1>3, TwoLoads
<1> HIDE DEF B, ra, rx
<1>5. Lives(L, B)
  BY <1>2, <1>4, LivesThrough
<1>6. Lives(L, C)
  BY <1>5, ThenQuiet
<1> HIDE DEF C
<1>7. Lives(L, D)
  BY <1>6, ThenQuiet
<1> HIDE DEF D
<1>8. Lives(L, FreeR(D, ra))
  BY <1>7, ThenQuiet
<1> QED
  BY <1>8 DEF StoreAt, A, B, C, D, P, addr, x, ra, rx

\* With room for them, the methods above find their registers.
LEMMA RoomSmall ==
  ASSUME NEW L, Fit(L), NEW r \in Nat, NEW n \in {1, 2}, NEW m \in {0, 1, 2}, m + n <= r, m + n <= 3
  PROVE  LET E == Room(L, r, n)
         IN  /\ Lives(L, E) /\ Alive(E) /\ Len(E.vs) >= n
             /\ FreeCount(E) >= m + TopLoads(E, n) /\ FreeCount(E) >= TopLoads(E, n) /\ FreeCount(E) >= m
<1> DEFINE E == Room(L, r, n)
<1>1. Cardinality(Unpinned(L)) >= 2 /\ Cardinality(Unpinned(L)) \in Nat
  BY RoomAssumption, FS_Difference, FS_CardinalityType DEF Fit, Ample, Unpinned
<1>2. Lives(L, E) /\ Len(E.vs) >= n /\ FreeCount(E) >= m /\ FreeCount(E) >= m + TopLoads(E, n)
  <2>1. m \in Nat /\ n \in Nat /\ n >= 1 /\ n <= 2 /\ m + n - 1 <= 2
    OBVIOUS
  <2> HIDE DEF E
  <2>2. m + n - 1 <= Cardinality(Unpinned(L))
    BY <1>1, <2>1
  <2> QED
    BY <2>1, <2>2, RoomUses DEF E
<1> HIDE DEF E
<1>3. FreeCount(E) \in Nat /\ TopLoads(E, n) \in Nat
  BY FreeCounted DEF TopLoads, Loads
<1>4. FreeCount(E) >= TopLoads(E, n)
  BY <1>2, <1>3
<1> QED
  BY <1>2, <1>4 DEF Lives, E

LEMMA ArithLives ==
  ASSUME NEW L, Fit(L), NEW t, t.op \in GpToks
  PROVE  Lives(L, LowerTok(L, t))
<1>1. \A r \in {2, 3, 4} : LET E == Room(L, r, 2) IN Lives(L, E) /\ Alive(E) /\ FreeCount(E) >= TopLoads(E, 2)
  <2> SUFFICES ASSUME NEW r \in {2, 3, 4}
               PROVE  LET E == Room(L, r, 2) IN Lives(L, E) /\ Alive(E) /\ FreeCount(E) >= TopLoads(E, 2)
    OBVIOUS
  <2>1. r \in Nat /\ 0 + 2 <= r
    OBVIOUS
  <2> QED
    BY <2>1, RoomSmall
<1>2. \A r \in {2, 3, 4} : LET E == Room(L, r, 1) IN Lives(L, E) /\ Alive(E) /\ FreeCount(E) >= 1 + TopLoads(E, 1)
  <2> SUFFICES ASSUME NEW r \in {2, 3, 4}
               PROVE  LET E == Room(L, r, 1) IN Lives(L, E) /\ Alive(E) /\ FreeCount(E) >= 1 + TopLoads(E, 1)
    OBVIOUS
  <2>1. r \in Nat /\ 1 + 1 <= r
    OBVIOUS
  <2> QED
    BY <2>1, RoomSmall
<1>3. LET E == Room(L, 1, 1) IN Lives(L, E) /\ Alive(E)
  <2>1. 1 \in Nat /\ 0 + 1 <= 1 /\ 0 + 1 <= 3 /\ 1 \in {1, 2} /\ 0 \in {0, 1, 2}
    OBVIOUS
  <2> QED
    BY <2>1, RoomSmall
<1>4. CASE t.op = "Bin"
  BY <1>1, <1>4, BinLives, LivesThrough DEF LowerTok
<1>5. CASE t.op = "ImmBin"
  BY <1>2, <1>5, ImmBinLives, LivesThrough DEF LowerTok
<1>6. CASE t.op = "DupBin"
  BY <1>2, <1>6, DupBinLives, LivesThrough DEF LowerTok
<1>7. CASE t.op = "Shift"
  BY <1>1, <1>7, ShiftLives, LivesThrough DEF LowerTok
<1>8. CASE t.op = "ImmShift"
  <2>1. \A E : Alive(E) => Lives(E, ImmShift(E, t.f, t.n))
    BY InPlaceLives, QuietLives DEF ImmShift
  <2> QED
    BY <1>3, <1>8, <2>1, LivesThrough DEF LowerTok
<1>9. CASE t.op = "DupShiftBin"
  <2>1. \A E : Alive(E) => Lives(E, DupShiftBin(E, t.f, t.sh, t.n))
    BY InPlaceLives DEF DupShiftBin
  <2> QED
    BY <1>3, <1>9, <2>1, LivesThrough DEF LowerTok
<1>10. CASE t.op = "Cmp"
  BY <1>1, <1>10, CmpLives, LivesThrough DEF LowerTok
<1>11. CASE t.op = "ZCmp"
  <2>1. \A E : Alive(E) => Lives(E, ZCmp(E, t.f))
    BY InPlaceLives DEF ZCmp
  <2> QED
    BY <1>2, <1>11, <2>1, LivesThrough DEF LowerTok
<1>12. CASE t.op = "Sel"
  BY <1>1, <1>12, SelLives, LivesThrough DEF LowerTok
<1>13. CASE t.op = "IvarStore"
  BY <1>2, <1>13, IvarStoreLives, LivesThrough DEF LowerTok
<1> QED
  BY <1>4, <1>5, <1>6, <1>7, <1>8, <1>9, <1>10, <1>11, <1>12, <1>13 DEF GpToks

\* pick and roll, of an index the pool has the registers for.
LEMMA PickLives ==
  ASSUME NEW L, Fit(L), NEW n \in Nat, n + 1 <= Cardinality(Unpinned(L))
  PROVE  Lives(L, PickN(L, n))
<1> DEFINE E == Room(L, n + 2, n + 1)  a == Nth(E.vs, n)
<1>1. Lives(L, E) /\ FreeCount(E) >= 1
  <2>1. n + 2 \in Nat /\ n + 1 \in Nat /\ n + 1 >= 1 /\ 1 + (n + 1) <= n + 2 /\ 1 + (n + 1) - 1 = n + 1
    OBVIOUS
  <2> QED
    BY <2>1, RoomUses
<1> HIDE DEF E, a
<1>2. Lives(E, PushCopy(E, a))
  BY <1>1, CopyUses DEF Uses, Lives
<1> QED
  BY <1>1, <1>2, LivesThrough DEF PickN, E, a

LEMMA RollLives ==
  ASSUME NEW L, Fit(L), NEW n \in Nat, n <= Cardinality(Unpinned(L))
  PROVE  Lives(L, RollN(L, n))
<1> DEFINE E == Room(L, n + 1, n + 1)
           vs == Append(RemoveAt(E.vs, Len(E.vs) - n), Nth(E.vs, n))
<1>1. Lives(L, E)
  <2>1. n + 1 \in Nat /\ n + 1 >= 1 /\ 0 + (n + 1) <= n + 1 /\ 0 + (n + 1) - 1 = n
    OBVIOUS
  <2> QED
    BY <2>1, RoomUses
<1>2. RollN(L, n) = IF n = 0 THEN L ELSE [E EXCEPT !.vs = vs]
  BY <1>1 DEF RollN, Lives, Alive, IsLow, Fields
<1> HIDE DEF E, vs
<1>3. Lives(L, L)
  BY QuietLives DEF Fit
<1> QED
  BY <1>1, <1>2, <1>3, ThenQuiet

\* ensure without a reserve before it: enough as long as the pool is not dry.
LEMMA EnsureLives ==
  ASSUME NEW L, Fit(L), NEW n \in Nat, Len(L.vs) + FreeCount(L) >= n
  PROVE  Lives(L, Ensure(L, n))
<1>1. PICK S : L.vs \in Seq(S)
  BY DEF Fit, Strict, Apart, Window
<1>2. FreeCount(L) >= n - Len(L.vs)
  BY <1>1, FreeCounted
<1> QED
  BY <1>1, <1>2, EnsureUses DEF Fit, Uses

\* With nothing in the window, the registers that are spare are free.
LEMMA OneEnsured ==
  ASSUME NEW L, Fit(L), Spare(L) # {}
  PROVE  Lives(L, Ensure(L, 1))
<1>1. PICK S : L.vs \in Seq(S)
  BY DEF Fit, Strict, Apart, Window
<1>2. CASE Len(L.vs) = 0
  <2>1. Regs(L.vs) = {}
    BY <1>2 DEF Regs
  <2>2. Free(L) = Spare(L)
    BY <2>1 DEF Free, Spare, Fit, Strict, Held
  <2>3. FreeCount(L) >= 1
    BY <2>2, FreeCounted, FS_EmptySet DEF FreeCount
  <2> QED
    BY <1>2, <2>3, EnsureLives, FreeCounted
<1>3. CASE Len(L.vs) # 0
  <2>1. Len(L.vs) + FreeCount(L) >= 1
    BY <1>1, <1>3, FreeCounted
  <2> QED
    BY <2>1, EnsureLives
<1> QED
  BY <1>2, <1>3

LEMMA StkLives ==
  ASSUME NEW L, Fit(L), Spare(L) # {},
         NEW m \in {"Dup", "Drop", "Swap", "Over", "Nip", "Rot", "MinusRot", "Tuck"},
         m \in {"Nip", "MinusRot"} => Len(L.vs) + FreeCount(L) >= MotionNeeds(m)
  PROVE  Lives(L, Stk(L, m))
<1>1. Cardinality(Unpinned(L)) >= 2 /\ Cardinality(Unpinned(L)) \in Nat
  BY RoomAssumption, FS_Difference, FS_CardinalityType DEF Fit, Ample, Unpinned
<1>2. CASE m \in {"Dup", "Over"}
  <2>1. Lives(L, PickN(L, 0)) /\ Lives(L, PickN(L, 1))
    BY <1>1, PickLives
  <2> QED
    BY <1>2, <2>1 DEF Stk
<1>3. CASE m \in {"Swap", "Rot"}
  <2>1. Lives(L, RollN(L, 1)) /\ Lives(L, RollN(L, 2))
    BY <1>1, RollLives
  <2> QED
    BY <1>3, <2>1 DEF Stk
<1>4. CASE m = "Drop"
  <2> DEFINE E == Ensure(L, 1)  P == Pop(E, 1)
  <2>1. Lives(L, E)
    BY OneEnsured
  <2>2. Stk(L, m) = FreeLoc(P, Top(E))
    BY <1>4 DEF Stk, Discard
  <2> HIDE DEF E
  <2>3. Lives(L, P)
    BY <2>1, ThenQuiet
  <2> HIDE DEF P
  <2>4. \A a : Lives(L, FreeLoc(P, a))
    BY <2>3, ThenQuiet
  <2> QED
    BY <2>2, <2>4
<1>5. CASE m = "Nip"
  <2> DEFINE E == Ensure(L, 2)  vs == Motion("Nip", E.vs)  P == [E EXCEPT !.vs = vs]
  <2>1. Lives(L, E)
    <3>1. MotionNeeds(m) = 2
      BY <1>5 DEF MotionNeeds
    <3> QED
      BY <1>5, <3>1, EnsureLives
  <2>2. Stk(L, m) = FreeLoc(P, Nth(E.vs, 1))
    <3>1. "vs" \in DOMAIN E
      BY <2>1 DEF Lives, Alive, IsLow, Fields
    <3> QED
      BY <1>5, <3>1 DEF Stk, Nip
  <2> HIDE DEF E, vs
  <2>3. Lives(L, P)
    BY <2>1, ThenQuiet
  <2> HIDE DEF P
  <2>4. \A a : Lives(L, FreeLoc(P, a))
    BY <2>3, ThenQuiet
  <2> QED
    BY <2>2, <2>4
<1>6. CASE m = "MinusRot"
  <2> DEFINE E == Ensure(L, 3)  vs == Motion("MinusRot", E.vs)
  <2>1. Lives(L, E)
    <3>1. MotionNeeds(m) = 3
      BY <1>6 DEF MotionNeeds
    <3> QED
      BY <1>6, <3>1, EnsureLives
  <2>2. Stk(L, m) = [E EXCEPT !.vs = vs]
    <3>1. "vs" \in DOMAIN E
      BY <2>1 DEF Lives, Alive, IsLow, Fields
    <3> QED
      BY <1>6, <3>1 DEF Stk
  <2> HIDE DEF E, vs
  <2> QED
    BY <2>1, <2>2, ThenQuiet
<1>7. CASE m = "Tuck"
  <2> DEFINE E == Room(L, 3, 2)  A == CopyOf(E, Top(E))
             vs == InsertAt(A.vs, Len(A.vs) - 1, CopyLoc(E, Top(E)))
  <2>1. Lives(L, E) /\ Alive(E) /\ FreeCount(E) >= 1
    <3>1. 3 \in Nat /\ 1 + 2 <= 3
      OBVIOUS
    <3> QED
      BY <3>1, RoomSmall
  <2>2. Stk(L, m) = Tuck(E)
    BY <1>7 DEF Stk
  <2> HIDE DEF E
  <2>3. Lives(L, A)
    BY <2>1, CopyUses, LivesThrough DEF Uses
  <2>4. Tuck(E) = [A EXCEPT !.vs = vs]
    <3>1. "vs" \in DOMAIN A
      BY <2>3 DEF Lives, Alive, IsLow, Fields
    <3> QED
      BY <3>1 DEF Tuck
  <2> HIDE DEF A, vs
  <2>5. Lives(L, [A EXCEPT !.vs = vs])
    BY <2>3, ThenQuiet
  <2> QED
    BY <2>2, <2>4, <2>5
<1> QED
  BY <1>2, <1>3, <1>4, <1>5, <1>6, <1>7

\* What a method may grow is the caches: the registers still spare are not all gone.
Fits(L, M) == Alive(M) /\ M.ipins = L.ipins /\ M.fpins = L.fpins /\ Spare(M) # {}

LEMMA LivesFits ==
  ASSUME NEW L, Spare(L) # {}, NEW M, Lives(L, M)
  PROVE  Fits(L, M)
BY SpareStays DEF Fits, Lives

LEMMA FitsThrough ==
  ASSUME NEW L, NEW M, NEW N, Lives(L, M), Fits(M, N)
  PROVE  Fits(L, N)
BY DEF Fits, Lives

\* A free register is spare, and so is one that the window holds.
LEMMA Spared ==
  ASSUME NEW M, Strict(M, {})
  PROVE  Free(M) \subseteq Spare(M) /\ Regs(M.vs) \cap Pool \subseteq Spare(M)
BY DEF Strict, Apart, Held, Free, Spare

\* A copy of a cached register goes to the window.
LEMMA CopySpares ==
  ASSUME NEW L, Alive(L), NEW S, L.vs \in Seq(S), FreeCount(L) >= 1, NEW a, a.k = "Reg",
         NEW M, M = PushCopy(L, a), Gp(M, {})
  PROVE  Fits(L, M)
<1> DEFINE A == CopyOf(L, a)  b == Reg(Got(L))
<1>1. Uses(L, M, 1)
  BY CopyUses
<1>2. A = Load(L, [op |-> "mov", rn |-> a.v]) /\ CopyLoc(L, a) = b
  BY DEF CopyOf, CopyLoc
<1>3. Uses(L, A, 1) /\ A.vs = L.vs /\ Got(L) \in Free(L)
  BY <1>2, LoadUses
<1>4. M = Push(A, b)
  BY <1>2 DEF PushCopy
<1>5. b.k = "Reg" /\ b.v = Got(L)
  BY DEF Reg
<1> HIDE DEF A, b
<1>6. M.vs = Append(L.vs, b)
  BY <1>3, <1>4 DEF Push, Uses, Lives, Alive, IsLow, Fields
<1>7. Got(L) \in Regs(M.vs)
  <2> DEFINE T == S \cup {b}
  <2>1. L.vs \in Seq(T) /\ b \in T
    OBVIOUS
  <2> HIDE DEF T
  <2>2. Len(M.vs) = Len(L.vs) + 1 /\ Len(L.vs) \in Nat /\ M.vs[Len(L.vs) + 1] = b
    BY <1>6, <2>1, Pushed
  <2>3. Len(L.vs) + 1 \in 1 .. Len(M.vs) /\ RegOf(b) = {Got(L)}
    BY <1>5, <2>2 DEF RegOf
  <2> QED
    BY <2>2, <2>3 DEF Regs
<1>8. Strict(M, {})
  BY <1>1 DEF Gp, Uses, Lives, Alive
<1>9. Got(L) \in Spare(M)
  BY <1>3, <1>7, <1>8, Spared DEF Free
<1> QED
  BY <1>1, <1>9 DEF Fits, Uses, Lives

\* A fetch may cache the cell.
LEMMA FetchFits ==
  ASSUME NEW L, Fit(L), Spare(L) # {}, Gp(Fetch(L), {})
  PROVE  Fits(L, Fetch(L))
<1> DEFINE E == Room(L, 3, 1)  a == Top(E)  P == Pop(E, 1)  M == FetchFrom(E)
           copy == PushCopy(P, Reg(P.cells[a.v]))
           B == CacheCell(P, a.v)  hot == PushCopy(B, Reg(B.cells[a.v]))
<1>1. Lives(L, E) /\ Alive(E) /\ Len(E.vs) >= 1 /\ FreeCount(E) >= 2 + TopLoads(E, 1)
      /\ FreeCount(E) >= TopLoads(E, 1) /\ FreeCount(E) >= 2
  <2>1. 3 \in Nat /\ 2 + 1 <= 3
    OBVIOUS
  <2> QED
    BY <2>1, RoomSmall
<1>2. Gp(E, {})
  <2>1. Len(L.vs) \in Nat
    BY InWindow DEF Fit, Strict, Apart
  <2>2. Ready(E, 1)
    BY <2>1, RoomReady DEF Fit, Alive, Gp
  <2> QED
    BY <2>2 DEF Ready
<1>3. \/ M = copy \/ M = hot \/ M = LoadThrough(E, [op |-> "ldr", off |-> 0])
  BY DEF FetchFrom
<1>4. Fetch(L) = M
  BY DEF Fetch
<1> HIDE DEF E, a, M
<1>5. Alive(P) /\ Lives(L, P) /\ FreeCount(P) >= 2 /\ FreeCount(P) \in Nat
  BY <1>1, PopUses, LivesThrough, FreeCounted
<1>6. PICK S : P.vs \in Seq(S)
  <2>1. Gp(P, {} \cup RegOf(Top(E)))
    BY <1>1, <1>2, PopKeeps DEF Alive
  <2> QED
    BY <1>5, <2>1 DEF Gp, Alive, Strict, Apart, Window
<1> HIDE DEF P
<1>7. Lives(L, copy)
  <2>1. FreeCount(P) >= 1
    BY <1>5
  <2> QED
    BY <1>5, <2>1, CopyUses, LivesThrough DEF Uses
<1>8. M = hot => Fits(L, M)
  <2> DEFINE T == ToReg(P, Const(a.v))  j == [op |-> "ldr", rd |-> Got(P), rn |-> Got(P), off |-> 0]
             C == Emit(T, j)
  <2>1. Uses(P, T, 1) /\ T.vs = P.vs
    <3>1. T = Load(P, [op |-> "movi", n |-> a.v])
      BY DEF ToReg, Const
    <3>2. FreeCount(P) >= 1
      BY <1>5
    <3> QED
      BY <1>5, <3>1, <3>2, LoadUses
  <2>2. B = [C EXCEPT !.cells = With(@, a.v, Got(P))]
    BY DEF CacheCell
  <2> HIDE DEF T, j
  <2>3. Uses(T, C, 0) /\ C.vs = T.vs
    BY <2>1, Quiet DEF Uses, Lives
  <2> HIDE DEF C
  <2>4. Uses(P, C, 1 + 0)
    BY <2>1, <2>3, UsesThrough
  <2> HIDE DEF B
  <2>5. Alive(B) /\ B.vs = C.vs /\ B.used = C.used /\ B.ipins = C.ipins /\ B.fpins = C.fpins
    BY <2>2, <2>4 DEF Uses, Lives, Alive, IsLow, Fields
  <2>6. FreeCount(B) >= 1
    <3>1. FreeCount(B) = FreeCount(C) /\ FreeCount(C) \in Nat
      BY <2>5, FreeCounted DEF FreeCount, Free
    <3> QED
      BY <1>5, <2>4, <3>1 DEF Uses
  <2>7. Gp(M, {})
    BY <1>4
  <2>8. M = hot => Fits(B, M)
    <3>1. B.vs \in Seq(S)
      BY <1>6, <2>1, <2>3, <2>5
    <3> DEFINE b == Reg(B.cells[a.v])
    <3>2. b.k = "Reg"
      BY DEF Reg
    <3> HIDE DEF b
    <3>3. M = PushCopy(B, b) => Fits(B, M)
      BY <2>5, <2>6, <2>7, <3>1, <3>2, CopySpares
    <3> QED
      BY <3>3 DEF b
  <2> QED
    BY <1>5, <2>4, <2>5, <2>8 DEF Fits, Uses, Lives
<1>9. Lives(L, LoadThrough(E, [op |-> "ldr", off |-> 0]))
  BY <1>1, LoadThroughLives, LivesThrough
<1> HIDE DEF copy, hot
<1> QED
  BY <1>3, <1>4, <1>7, <1>8, <1>9, LivesFits

\* A local that is read again may be cached too.
LEMMA CacheLocalFits ==
  ASSUME NEW L, Alive(L), NEW S, L.vs \in Seq(S), FreeCount(L) >= 2, NEW i, Gp(CacheLocal(L, i), {})
  PROVE  Fits(L, CacheLocal(L, i))
<1> DEFINE A == Load(L, [op |-> "ldlp", off |-> i])  e == [r |-> Got(L), dirty |-> FALSE]
           B == [A EXCEPT !.lcache = With(@, i, e)]  b == Reg(Got(L))  M == CacheLocal(L, i)
<1>1. Uses(L, A, 1) /\ A.vs = L.vs /\ FreeCount(L) \in Nat /\ FreeCount(A) \in Nat
  BY LoadUses, FreeCounted
<1>2. M = PushCopy(B, b) /\ b.k = "Reg"
  BY DEF CacheLocal, Reg
<1> HIDE DEF A, e, b, M
<1>3. Alive(B) /\ B.vs = L.vs /\ B.used = A.used /\ B.ipins = L.ipins /\ B.fpins = L.fpins
  BY <1>1 DEF Uses, Lives, Alive, IsLow, Fields
<1> HIDE DEF B
<1>4. FreeCount(B) >= 1
  BY <1>1, <1>3 DEF Uses, FreeCount, Free
<1>5. Gp(M, {})
  BY DEF M
<1>6. Fits(B, M)
  BY <1>2, <1>3, <1>4, <1>5, CopySpares
<1> QED
  BY <1>3, <1>6 DEF Fits, M

LEMMA PushLoadLives ==
  ASSUME NEW L, Fit(L), NEW i
  PROVE  Lives(L, PushLoad(L, i))
<1> DEFINE R == Reserve(L, 1)  A == Load(R, i)  r == Got(R)
<1>1. Cardinality(Unpinned(L)) >= 2 /\ Cardinality(Unpinned(L)) \in Nat
  BY RoomAssumption, FS_Difference, FS_CardinalityType DEF Fit, Ample, Unpinned
<1>2. Uses(L, R, 0) /\ FreeCount(R) >= 1
  BY <1>1, ReserveUses
<1>3. PushLoad(L, i) = PushReg(A, r)
  BY DEF PushLoad, LoadNew
<1> HIDE DEF R, r
<1>4. Lives(L, A)
  BY <1>2, LoadUses, LivesThrough DEF Uses, Lives
<1> HIDE DEF A
<1>5. \A a : Lives(L, PushReg(A, a))
  BY <1>4, ThenQuiet
<1> QED
  BY <1>3, <1>5

LEMMA LocalFetchFits ==
  ASSUME NEW L, Fit(L), Spare(L) # {}, NEW i, Gp(LocalFetch(L, i), {})
  PROVE  Fits(L, LocalFetch(L, i))
<1> DEFINE R == Reserve(L, 1)  Q == Reserve(L, 2)
<1>1. Cardinality(Unpinned(L)) >= 2 /\ Cardinality(Unpinned(L)) \in Nat
  BY RoomAssumption, FS_Difference, FS_CardinalityType DEF Fit, Ample, Unpinned
<1>2. Uses(L, R, 0) /\ FreeCount(R) >= 1 /\ Uses(L, Q, 0) /\ FreeCount(Q) >= 2
  BY <1>1, ReserveUses
<1>3. PICK S : Q.vs \in Seq(S)
  <2>1. Len(L.vs) \in Nat
    BY InWindow DEF Fit, Strict, Apart
  <2>2. Right(L, Q)
    BY <2>1, ReserveRight DEF Fit, Alive, Gp
  <2> QED
    BY <1>2, <2>2 DEF Right, Gp, Uses, Lives, Alive, Strict, Apart, Window
<1> HIDE DEF R, Q
<1>4. ASSUME NEW a PROVE Fits(L, PushCopy(R, a))
  <2>1. Lives(L, PushCopy(R, a))
    BY <1>2, CopyUses, LivesThrough DEF Uses, Lives
  <2> QED
    BY <2>1, LivesFits
<1>5. Gp(CacheLocal(Q, i), {}) => Fits(L, CacheLocal(Q, i))
  <2>1. Gp(CacheLocal(Q, i), {}) => Fits(Q, CacheLocal(Q, i))
    BY <1>2, <1>3, CacheLocalFits DEF Uses, Lives
  <2> QED
    BY <1>2, <2>1, FitsThrough DEF Uses
<1>6. \A j : Fits(L, PushLoad(L, j))
  BY PushLoadLives, LivesFits
<1>7. CASE i \in DOMAIN L.ipins
  BY <1>4, <1>7 DEF LocalFetch, R
<1>8. CASE i \notin DOMAIN L.ipins /\ i \in DOMAIN L.lcache
  BY <1>4, <1>8 DEF LocalFetch, R
<1>9. CASE i \notin DOMAIN L.ipins /\ i \notin DOMAIN L.lcache
  BY <1>5, <1>6, <1>9 DEF LocalFetch, Q
<1> QED
  BY <1>7, <1>8, <1>9

\* A store caches the value where it is; a register is free after it.
LEMMA StoreCachedFits ==
  ASSUME NEW L, Alive(L), FreeCount(L) >= 1 + TopLoads(L, 1), NEW i, Gp(StoreCached(L, i), {})
  PROVE  Fits(L, StoreCached(L, i))
<1> DEFINE a == Top(L)  P == Pop(L, 1)  r == InReg(P, a)  A == ToReg(P, a)  M == StoreCached(L, i)
           e == Stored(r)  gone == Superseded(L.lcache, i, r)
<1>1. M = [A EXCEPT !.lcache = With(@, i, e), !.used = @ \ gone]
  BY DEF StoreCached
<1>2. FreeCount(L) \in Nat /\ Loads(a) \in Nat /\ FreeCount(A) \in Nat /\ TopLoads(L, 1) = Loads(a)
  BY FreeCounted DEF TopLoads, Loads, Top
<1>3. Alive(P) /\ Lives(L, P) /\ FreeCount(P) = FreeCount(L)
  BY PopUses
<1> HIDE DEF a, P, r, e, gone, M
<1>4. Uses(P, A, Loads(a))
  BY <1>2, <1>3, ToRegUses
<1> HIDE DEF A
<1>5. FreeCount(A) >= 1 /\ Lives(L, A)
  BY <1>2, <1>3, <1>4, LivesThrough DEF Uses
<1>6. Alive(M) /\ M.ipins = L.ipins /\ M.fpins = L.fpins /\ M.used \subseteq A.used
  BY <1>1, <1>5 DEF Lives, Alive, IsLow, Fields
<1>7. Free(M) # {}
  <2>1. Free(A) # {}
    BY <1>5, FS_EmptySet DEF FreeCount
  <2> QED
    BY <1>6, <2>1 DEF Free
<1>8. Strict(M, {})
  BY <1>6 DEF Gp, M, Alive
<1> QED
  BY <1>6, <1>7, <1>8, Spared DEF Fits, M

LEMMA LocalStoreFits ==
  ASSUME NEW L, Fit(L), Spare(L) # {}, NEW i, Gp(LocalStore(L, i), {})
  PROVE  Fits(L, LocalStore(L, i))
<1>1. CASE i \in DOMAIN L.ipins
  <2> DEFINE E == Ensure(L, 1)  P == Pop(E, 1)
  <2>1. Lives(L, E)
    BY OneEnsured
  <2>2. LocalStore(L, i) = StorePinned(E, L.ipins[i])
    BY <1>1 DEF LocalStore
  <2> HIDE DEF E
  <2>3. Lives(L, P)
    BY <2>1, ThenQuiet
  <2>4. ASSUME NEW j PROVE Lives(L, Emit(P, j)) /\ \A r : Lives(L, FreeR(Emit(P, j), r))
    <3> DEFINE C == Emit(P, j)
    <3> HIDE DEF P
    <3>1. Lives(L, C)
      BY <2>3, ThenQuiet
    <3> HIDE DEF C
    <3>2. \A r : Lives(L, FreeR(C, r))
      BY <3>1, ThenQuiet
    <3> QED
      BY <3>1, <3>2 DEF C
  <2>5. Lives(L, StorePinned(E, L.ipins[i]))
    BY <2>4 DEF StorePinned
  <2> QED
    BY <2>2, <2>5, LivesFits
<1>2. CASE i \notin DOMAIN L.ipins
  <2> DEFINE E == Room(L, 2, 1)
  <2>1. Lives(L, E) /\ Alive(E) /\ FreeCount(E) >= 1 + TopLoads(E, 1)
    <3>1. 2 \in Nat /\ 1 + 1 <= 2
      OBVIOUS
    <3> QED
      BY <3>1, RoomSmall
  <2>2. LocalStore(L, i) = StoreCached(E, i)
    BY <1>2 DEF LocalStore
  <2> HIDE DEF E
  <2>3. Fits(E, StoreCached(E, i))
    BY <2>1, <2>2, StoreCachedFits
  <2> QED
    BY <2>1, <2>2, <2>3, FitsThrough
<1> QED
  BY <1>1, <1>2

\* The const-address cache is dropped between reserve and ensure.
LEMMA StoreThroughLives ==
  ASSUME NEW L, Fit(L), NEW i
  PROVE  Lives(L, StoreThrough(L, i))
<1> DEFINE R == Reserve(L, 3)  C == ClearCells(R)  E == Ensure(C, 2)
<1>1. Cardinality(Unpinned(L)) >= 2 /\ Cardinality(Unpinned(L)) \in Nat
  BY RoomAssumption, FS_Difference, FS_CardinalityType DEF Fit, Ample, Unpinned
<1>2. Uses(L, R, 0) /\ Roomy(R, 0, 2)
  <2>1. 3 \in Nat /\ 0 \in Nat /\ 2 \in Nat /\ 0 + 2 <= 3 /\ 0 + 2 - 1 <= Cardinality(Unpinned(L))
    BY <1>1
  <2> QED
    BY <2>1, ReserveUses
<1> HIDE DEF R
<1>3. Lives(R, C) /\ C.vs = R.vs /\ C.used \subseteq R.used
  <2>1. Range(<<>>) = {}
    BY DEF Range
  <2> QED
    BY <1>2, <2>1 DEF ClearCells, Uses, Lives, Alive, IsLow, Fields
<1> HIDE DEF C
<1>4. Roomy(C, 0, 2)
  <2>1. Uses(R, C, 0)
    BY <1>3, FreesOnly DEF Free
  <2>2. FreeCount(R) \in Nat /\ FreeCount(C) \in Nat
    BY FreeCounted
  <2> QED
    BY <1>2, <1>3, <2>1, <2>2 DEF Roomy, Uses, Lives
<1>5. Lives(C, E) /\ FreeCount(E) >= 0 + TopLoads(E, 2)
  BY <1>4, EnsureRoomy
<1> HIDE DEF E
<1>6. FreeCount(E) >= TopLoads(E, 2) /\ Alive(E)
  <2>1. TopLoads(E, 2) \in Nat
    BY DEF TopLoads, Loads
  <2> QED
    BY <1>5, <2>1 DEF Lives
<1>7. Lives(E, StoreAt(E, i))
  BY <1>6, StoreAtLives
<1>8. Lives(L, StoreAt(E, i))
  BY <1>2, <1>3, <1>5, <1>7, LivesThrough DEF Uses
<1> QED
  BY <1>8 DEF StoreThrough, E, C, R

----------------------------------------------------------------------------
(* The FP half: it settles when its pool is dry, and may settle the GP half too *)

\* A GP register may be in hand while the FP half works.
Calm(L) == Alive(L) /\ Ample(L) /\ \E x : \E X \in {{}, {x}} : Strict(L, X)
FCalm(L) == Calm(L) /\ FStrict(L, {})

LEMMA FitCalm ==
  ASSUME NEW L, Fit(L)
  PROVE  Calm(L)
BY DEF Fit, Calm

\* A method that leaves the GP half or settles it uses no register.
LEMMA RestUses ==
  ASSUME NEW L, Calm(L), NEW M, ~M.panic, GpRest(L, M), M.fpins = L.fpins
  PROVE  Uses(L, M, 0) /\ Calm(M)
<1>1. PICK x, X : X \in {{}, {x}} /\ Strict(L, X)
  BY DEF Calm
<1>2. Alive(M) /\ ~L.panic
  BY DEF GpRest, Goes, Alive, Calm
<1>3. CASE GpSame(L, M)
  <2>1. Gp(M, X)
    BY <1>1, <1>2, <1>3, GpStays DEF Gp, GpKept, GpRest
  <2>2. Calm(M)
    BY <1>1, <1>2, <1>3, <2>1 DEF Calm, Gp, Alive, GpSame, Ample, Unpinned
  <2>3. Lives(L, M) /\ Free(M) = Free(L)
    BY <1>2, <1>3 DEF Lives, GpSame, Free
  <2> QED
    BY <2>2, <2>3, FreesOnly
<1>4. CASE GpSettled(L, M)
  <2>1. Strict(M, {})
    BY <1>1, <1>4, SettledStrict
  <2>2. Calm(M)
    BY <1>2, <1>4, <2>1 DEF Calm, GpSettled, Ample, Unpinned
  <2>3. Lives(L, M)
    <3>1. CacheRegs(<<>>) = {} /\ Range(<<>>) = {}
      BY DEF CacheRegs, Range
    <3> QED
      BY <1>2, <1>4, <3>1 DEF Lives, GpSettled
  <2>4. Free(L) \subseteq Free(M)
    <3>1. TOS \notin Pool
      BY PoolAssumption
    <3> QED
      BY <1>1, <1>4, <3>1 DEF GpSettled, Free, Strict, Held
  <2> QED
    BY <2>2, <2>3, <2>4, FreesOnly
<1> QED
  BY <1>2, <1>3, <1>4 DEF GpRest

LEMMA RestFCalm ==
  ASSUME NEW L, FCalm(L), NEW M, ~M.panic, FRight(L, M), M.fpins = L.fpins
  PROVE  Uses(L, M, 0) /\ FCalm(M)
BY RestUses DEF FCalm, FRight, Fp

LEMMA CalmThrough ==
  ASSUME NEW L, NEW M, NEW N, Uses(L, M, 0), Uses(M, N, 0)
  PROVE  Uses(L, N, 0)
<1>1. Uses(L, N, 0 + 0)
  BY UsesThrough
<1> QED
  BY <1>1

\* gp_temp always has a register.
LEMMA GpRoomUses ==
  ASSUME NEW L, Calm(L)
  PROVE  Uses(L, GpRoom(L), 0) /\ Calm(GpRoom(L)) /\ FreeCount(GpRoom(L)) >= 1
<1> DEFINE M == SettleData(L)
<1>1. PICK x, X : X \in {{}, {x}} /\ Strict(L, X)
  BY DEF Calm
<1>2. Uses(L, M, 0) /\ Free(M) = Unpinned(L)
  BY <1>1, SettleUses DEF Calm
<1>3. Calm(M)
  <2>1. M.panic \/ GpSettled(L, M)
    BY SettledIs DEF Calm, Alive
  <2>2. ~M.panic /\ Alive(M) /\ M.fpins = L.fpins /\ M.ipins = L.ipins
    BY <1>2 DEF Uses, Lives, Alive
  <2>3. Strict(M, {})
    BY <1>1, <2>1, <2>2, SettledStrict
  <2> QED
    BY <2>2, <2>3 DEF Calm, Ample, Unpinned
<1>4. FreeCount(M) >= 1
  <2>1. Free(M) = Unpinned(L) /\ FreeCount(M) = Cardinality(Free(M)) /\ Cardinality(Unpinned(L)) >= 2
    BY <1>2 DEF Calm, Ample, FreeCount
  <2>2. Cardinality(Unpinned(L)) \in Nat
    BY RoomAssumption, FS_Subset, FS_CardinalityType DEF Unpinned
  <2> HIDE DEF M
  <2> QED
    BY <2>1, <2>2
<1> HIDE DEF M
<1>5. CASE Free(L) = {}
  BY <1>2, <1>3, <1>4, <1>5 DEF GpRoom, M
<1>6. CASE Free(L) # {}
  <2>1. FreeCount(L) >= 1
    BY <1>6, FreeCounted, FS_EmptySet DEF FreeCount
  <2>2. Uses(L, L, 0)
    BY FreesOnly DEF Calm, Lives
  <2> QED
    BY <1>6, <2>1, <2>2 DEF GpRoom
<1> QED
  BY <1>5, <1>6

LEMMA SpillViaLives ==
  ASSUME NEW L, Alive(L), FreeCount(L) >= 1, NEW a
  PROVE  Lives(L, SpillVia(L, a))
<1> DEFINE A == Take(L)  g == Got(L)
           is == << [op |-> "movi", rd |-> g, n |-> a], [op |-> "fstr", rn |-> g, rm |-> L.fvcache[a].r] >>
           B == EmitAll(A, is)
<1>1. Lives(L, A)
  BY TakeUses DEF Uses
<1>2. SpillVia(L, a) = FreeR(B, g)
  BY DEF SpillVia
<1> HIDE DEF A, g, is
<1>3. Lives(L, B)
  BY <1>1, ThenQuiet
<1> HIDE DEF B
<1>4. \A r : Lives(L, FreeR(B, r))
  BY <1>3, ThenQuiet
<1> QED
  BY <1>2, <1>4

LEMMA SpillFvarCalm ==
  ASSUME NEW L, Calm(L), NEW a
  PROVE  Calm(SpillFvar(L, a)) /\ ~SpillFvar(L, a).panic
<1> DEFINE A == GpRoom(L)  M == SpillVia(A, a)
<1>1. Calm(A) /\ FreeCount(A) >= 1
  BY GpRoomUses
<1>2. SpillFvar(L, a) = M
  BY DEF SpillFvar
<1> HIDE DEF A
<1>3. Lives(A, M) /\ GpRest(A, M)
  BY <1>1, SpillViaLives, SpillViaRests DEF Calm, Alive
<1> HIDE DEF M
<1>4. ~M.panic /\ M.fpins = A.fpins
  BY <1>3 DEF Lives, Alive
<1>5. Calm(M)
  BY <1>1, <1>3, <1>4, RestUses
<1> QED
  BY <1>2, <1>4, <1>5

LEMMA SpillsCalm ==
  ASSUME NEW L, Calm(L), NEW S, IsFiniteSet(S)
  PROVE  Calm(FoldSet(LAMBDA a, A : SpillFvar(A, a), L, S))
<1>1. PICK f, c : /\ \A s \in SUBSET S : s # {} => c[s] \in s
                  /\ f[{}] = L /\ \A s \in SUBSET S : s # {} => f[s] = SpillFvar(f[s \ {c[s]}], c[s])
                  /\ FoldSet(LAMBDA a, A : SpillFvar(A, a), L, S) = f[S]
  BY SpillTurns
<1> DEFINE D == {s \in SUBSET S : Calm(f[s])}
<1>2. {} \in D
  BY <1>1
<1>3. ASSUME NEW s \in SUBSET S, s # {}, s \ {c[s]} \in D PROVE s \in D
  <2>1. Calm(f[s \ {c[s]}]) /\ f[s] = SpillFvar(f[s \ {c[s]}], c[s])
    BY <1>1, <1>3
  <2>2. Calm(f[s])
    BY <2>1, SpillFvarCalm
  <2> QED
    BY <2>2
<1>4. S \in D
  <2> HIDE DEF D
  <2> QED
    BY <1>1, <1>2, <1>3, UpSets
<1> QED
  BY <1>1, <1>4

LEMMA FTakeLives ==
  ASSUME NEW L, Alive(L), FFree(L) # {}
  PROVE  Alive(FTake(L)) /\ FTake(L).fvs = L.fvs /\ FTake(L).fpins = L.fpins
BY DEF FTake, Alive, IsLow, Fields

\* fsettle: with its window empty and its caches given up, all that is not pinned is free.
LEMMA FSettleUses ==
  ASSUME NEW L, FCalm(L)
  PROVE  Uses(L, FSettle(L), 0) /\ FCalm(FSettle(L)) /\ FFree(FSettle(L)) # {}
<1> DEFINE dirty == {a \in DOMAIN L.fvcache : L.fvcache[a].dirty}
           A == FoldSet(LAMBDA a, N : SpillFvar(N, a), L, dirty)
           B == SpillFvars(L)  C == SpillFlocals(B)  D == FFilled(C)  M == FSettle(L)
<1>1. Calm(A) /\ FpKept(L, A)
  <2>1. IsFiniteSet(dirty) /\ IsLow(L)
    BY FS_Subset DEF IsLow, FCalm, Calm, Alive
  <2> HIDE DEF dirty
  <2>2. FpKept(L, A)
    BY <2>1, SpillsRest
  <2>3. Calm(A)
    BY <2>1, SpillsCalm DEF FCalm
  <2> QED
    BY <2>2, <2>3
<1>2. B = [A EXCEPT !.fused = @ \ {L.fvcache[a].r : a \in DOMAIN L.fvcache}, !.fvcache = <<>>]
  BY DEF SpillFvars
<1> HIDE DEF A
<1>3. /\ Alive(B) /\ B.fvs = L.fvs /\ B.flcache = L.flcache /\ B.fpins = L.fpins
      /\ B.fused = L.fused \ CacheRegs(L.fvcache)
  <2>1. IsFiniteSet(DOMAIN <<>>)
    <3>1. DOMAIN <<>> = {}
      OBVIOUS
    <3> QED
      BY <3>1, FS_EmptySet
  <2> QED
    BY <1>1, <1>2, <2>1 DEF Calm, Alive, IsLow, Fields, FpKept, FpSame, CacheRegs
<1> HIDE DEF B
<1>4. /\ Alive(C) /\ C.fvs = L.fvs /\ C.fpins = L.fpins
      /\ C.fused = (L.fused \ CacheRegs(L.fvcache)) \ CacheRegs(L.flcache)
  BY <1>3 DEF SpillFlocals, EmitAll, Alive, IsLow, Fields, CacheRegs
<1> HIDE DEF C
<1>5. C.fvs = <<>> => FFree(C) # {}
  <2>1. C.fvs = <<>> => Range(L.fvs) = {}
    BY <1>4 DEF Range
  <2>2. C.fvs = <<>> => FPool \ Range(L.fpins) \subseteq FFree(C)
    BY <1>4, <2>1 DEF FFree, FCalm, FStrict, FHeld
  <2> QED
    BY <2>2 DEF FCalm, Calm, Ample
<1>6. Alive(D) /\ D.fpins = L.fpins
  <2>1. CASE C.fvs # <<>>
    BY <1>4, <2>1 DEF FFilled
  <2>2. CASE C.fvs = <<>>
    <3> DEFINE T == FTake(C)  i == [op |-> "fldsp", rd |-> FGot(C), off |-> C.fconsumed]  E == Emit(T, i)
               w == <<FGot(C)>> \o E.fvs
    <3>1. Alive(T) /\ T.fpins = L.fpins
      BY <1>4, <1>5, <2>2, FTakeLives
    <3>2. D = [E EXCEPT !.fconsumed = @ + 1, !.fvs = <<FGot(C)>> \o @]
      BY <2>2 DEF FFilled, FPullInto
    <3> HIDE DEF T, i
    <3>3. Alive(E) /\ E.fpins = L.fpins
      BY <3>1, QuietLives DEF Lives
    <3> HIDE DEF E
    <3> QED
      BY <3>2, <3>3 DEF Alive, IsLow, Fields
  <2> QED
    BY <2>1, <2>2
<1>7. M = FUnwind(D)
  BY DEF FSettle, B, C
<1> HIDE DEF D
<1>8. ~M.panic
  <2>1. PICK code : M = FCanonical(EmitAll(D, code))
    BY <1>7, Zenon DEF FUnwind
  <2> DEFINE E == EmitAll(D, code)
  <2>2. Alive(E)
    BY <1>6, QuietLives DEF Lives
  <2>3. M = FCanonical(E)
    BY <2>1
  <2> HIDE DEF E
  <2> QED
    BY <2>2, <2>3 DEF FCanonical, Alive, IsLow, Fields
<1>9. GpRest(L, M) /\ FpRest(L, M) /\ FpSettled(L, M)
  BY <1>8, FSettledIs DEF FCalm, Calm, Alive
<1> HIDE DEF M
<1>10. Fp(M, {}) /\ M.fpins = L.fpins
  BY <1>9, FpRestKeeps DEF FCalm, Fp, FpSettled
<1>11. Uses(L, M, 0) /\ FCalm(M)
  BY <1>8, <1>9, <1>10, RestFCalm DEF FRight
<1>12. FFree(M) # {}
  <2>1. FFree(M) = FPool \ Range(L.fpins)
    BY <1>9, PoolAssumption DEF FpSettled, FFree
  <2> QED
    BY <2>1 DEF FCalm, Calm, Ample
<1> QED
  BY <1>11, <1>12 DEF M

LEMMA FRoomUses ==
  ASSUME NEW L, FCalm(L)
  PROVE  Uses(L, FRoom(L), 0) /\ FCalm(FRoom(L)) /\ FFree(FRoom(L)) # {}
<1>1. CASE FFree(L) = {}
  BY <1>1, FSettleUses DEF FRoom
<1>2. CASE FFree(L) # {}
  <2>1. Uses(L, L, 0)
    BY FreesOnly DEF FCalm, Calm, Lives
  <2> QED
    BY <1>2, <2>1 DEF FRoom
<1> QED
  BY <1>1, <1>2

\* Both halves fit: nothing is in hand.
FFit(L) == Fit(L) /\ FStrict(L, {})

LEMMA FFitIs ==
  ASSUME NEW L, FFit(L)
  PROVE  Sound(L) /\ FCalm(L) /\ Fit(L) /\ Alive(L)
BY FitCalm DEF FFit, Fit, FCalm, Sound, Alive, Gp, Fp

LEMMA SoundFit ==
  ASSUME NEW L, Ample(L), NEW M, Lives(L, M), Sound(M)
  PROVE  FFit(M)
BY DEF Ample, Unpinned, Lives, Sound, FFit, Fit, Alive, Gp, Fp

\* What is done to the FP window and its marks takes no GP register.
LEMMA FQuiet ==
  ASSUME NEW L, Alive(L)
  PROVE  /\ \A n : Uses(L, FPop(L, n), 0)
         /\ \A d : Uses(L, FFreeR(L, d), 0)
         /\ \A s : Uses(L, [L EXCEPT !.fvs = s], 0)
<1>1. ASSUME NEW n PROVE Uses(L, FPop(L, n), 0)
  <2> DEFINE M == FPop(L, n)
  <2>1. Lives(L, M) /\ Free(M) = Free(L)
    BY DEF FPop, Lives, Alive, IsLow, Fields, Free
  <2> HIDE DEF M
  <2> QED
    BY <2>1, FreesOnly DEF M
<1>2. ASSUME NEW d PROVE Uses(L, FFreeR(L, d), 0)
  <2> DEFINE M == FFreeR(L, d)
  <2>1. Lives(L, M) /\ Free(M) = Free(L)
    BY DEF FFreeR, Lives, Alive, IsLow, Fields, Free
  <2> HIDE DEF M
  <2> QED
    BY <2>1, FreesOnly DEF M
<1>3. ASSUME NEW s PROVE Uses(L, [L EXCEPT !.fvs = s], 0)
  <2> DEFINE M == [L EXCEPT !.fvs = s]
  <2>1. Lives(L, M) /\ Free(M) = Free(L)
    BY DEF Lives, Alive, IsLow, Fields, Free
  <2> HIDE DEF M
  <2> QED
    BY <2>1, FreesOnly DEF M
<1> QED
  BY <1>1, <1>2, <1>3

LEMMA ThenFQuiet ==
  ASSUME NEW L, NEW M, Lives(L, M)
  PROVE  /\ \A n : Lives(L, FPop(M, n))
         /\ \A d : Lives(L, FFreeR(M, d))
         /\ \A s : Lives(L, [M EXCEPT !.fvs = s])
<1>1. Alive(M)
  BY DEF Lives
<1>2. /\ \A n : Lives(M, FPop(M, n))
      /\ \A d : Lives(M, FFreeR(M, d))
      /\ \A s : Lives(M, [M EXCEPT !.fvs = s])
  BY <1>1, FQuiet DEF Uses
<1> QED
  BY <1>2, LivesThrough

LEMMA FLoadNewUses ==
  ASSUME NEW L, FCalm(L), FFree(L) # {}, NEW i
  PROVE  Uses(L, FLoadNew(L, i), 0) /\ FCalm(FLoadNew(L, i))
<1> DEFINE T == FTake(L)  j == [rd |-> FGot(L)] @@ i  A == Emit(T, j)  M == FLoadNew(L, i)
<1>1. Alive(T) /\ T.fpins = L.fpins
  BY FTakeLives DEF FCalm, Calm
<1>2. M = [A EXCEPT !.fvs = Append(@, FGot(L))]
  BY DEF FLoadNew
<1>3. FRight(L, M)
  BY FLoadNewRight DEF FCalm, Calm, Alive, Fp
<1> HIDE DEF T, j, M
<1>4. Lives(T, A)
  BY <1>1, QuietLives
<1> HIDE DEF A
<1>5. ~M.panic /\ M.fpins = L.fpins
  BY <1>1, <1>2, <1>4 DEF Lives, Alive, IsLow, Fields
<1> QED
  BY <1>3, <1>5, RestFCalm DEF M

LEMMA FPushLoadUses ==
  ASSUME NEW L, FCalm(L), NEW i
  PROVE  Uses(L, FPushLoad(L, i), 0) /\ FCalm(FPushLoad(L, i))
<1> DEFINE R == FRoom(L)
<1>1. Uses(L, R, 0) /\ FCalm(R) /\ FFree(R) # {}
  BY FRoomUses
<1> HIDE DEF R
<1>2. Uses(R, FLoadNew(R, i), 0) /\ FCalm(FLoadNew(R, i))
  BY <1>1, FLoadNewUses
<1> QED
  BY <1>1, <1>2, CalmThrough DEF FPushLoad, R

LEMMA FPullIntoUses ==
  ASSUME NEW L, FCalm(L), FFree(L) # {}
  PROVE  Uses(L, FPullInto(L), 0) /\ FCalm(FPullInto(L))
<1> DEFINE T == FTake(L)  j == [op |-> "fldsp", rd |-> FGot(L), off |-> L.fconsumed]
           A == Emit(T, j)  M == FPullInto(L)
<1>1. Alive(T) /\ T.fpins = L.fpins
  BY FTakeLives DEF FCalm, Calm
<1>2. M = [A EXCEPT !.fconsumed = @ + 1, !.fvs = <<FGot(L)>> \o @]
  BY DEF FPullInto
<1>3. FRight(L, M)
  BY FPullIntoRight DEF FCalm, Calm, Alive, Fp
<1> HIDE DEF T, j, M
<1>4. Lives(T, A)
  BY <1>1, QuietLives
<1> HIDE DEF A
<1>5. ~M.panic /\ M.fpins = L.fpins
  BY <1>1, <1>2, <1>4 DEF Lives, Alive, IsLow, Fields
<1> QED
  BY <1>3, <1>5, RestFCalm DEF M

LEMMA FPullUses ==
  ASSUME NEW L, FCalm(L), NEW n
  PROVE  Uses(L, FPull(L, n), 0) /\ FCalm(FPull(L, n))
<1> DEFINE R == FRoom(L)
<1>1. Uses(L, R, 0) /\ FCalm(R) /\ FFree(R) # {} /\ Uses(L, L, 0)
  BY FRoomUses, FreesOnly DEF FCalm, Calm, Lives
<1> HIDE DEF R
<1>2. Uses(R, FPullInto(R), 0) /\ FCalm(FPullInto(R))
  BY <1>1, FPullIntoUses
<1>3. Uses(L, FPullInto(R), 0)
  BY <1>1, <1>2, CalmThrough
<1> QED
  BY <1>1, <1>2, <1>3 DEF FPull, R

LEMMA FEnsureUses ==
  ASSUME NEW L, FCalm(L), NEW n \in {1, 2}
  PROVE  LET E == FEnsure(L, n)
         IN  Uses(L, E, 0) /\ FCalm(E) /\ FReady(E, n)
<1> DEFINE A == FPull(L, n)  E == FPull(A, n)
<1>1. Uses(L, A, 0) /\ FCalm(A)
  BY FPullUses
<1>2. FReady(FEnsure(L, n), n)
  BY FEnsureReady DEF FCalm, Calm, Alive, Fp
<1> HIDE DEF A
<1>3. Uses(A, E, 0) /\ FCalm(E)
  BY <1>1, FPullUses
<1> HIDE DEF E
<1>4. Uses(L, E, 0)
  BY <1>1, <1>3, CalmThrough
<1> QED
  BY <1>2, <1>3, <1>4 DEF FEnsure, A, E

----------------------------------------------------------------------------
(* The float tokens *)

LEMMA LocalFFetchLives ==
  ASSUME NEW L, FCalm(L), NEW i
  PROVE  Lives(L, LocalFFetch(L, i))
<1>1. CASE i \notin DOMAIN L.fpins /\ i \notin DOMAIN L.flcache /\ <<"flocal", i>> \in L.hot
  <2> DEFINE R == FRoom(L)  T == FTake(R)  j == [op |-> "fldlp", rd |-> FGot(R), off |-> i]  A == Emit(T, j)
             M == HotLoaded(R, i)  k == [op |-> "fmov", rn |-> FGot(R)]  N == FPushLoad(M, k)
  <2>1. Uses(L, R, 0) /\ FCalm(R) /\ FFree(R) # {}
    BY FRoomUses
  <2>2. LocalFFetch(L, i) = N
    BY <1>1 DEF LocalFFetch, LoadHot, HotLoaded
  <2>3. i \notin DOMAIN R.flcache
    <3>1. DOMAIN <<>> = {}
      OBVIOUS
    <3>2. FpRest(L, R)
      BY FRoomRests DEF FCalm, Calm, Alive
    <3> HIDE DEF R
    <3> QED
      BY <1>1, <2>1, <3>1, <3>2 DEF FpRest, FpSame, FpSettled, FCalm, Calm, Alive
  <2> HIDE DEF R, k
  <2>4. Alive(T) /\ T.fpins = R.fpins
    BY <2>1, FTakeLives DEF FCalm, Calm
  <2>5. M = [A EXCEPT !.flcache = With(@, i, [r |-> FGot(R), dirty |-> FALSE])]
    BY DEF HotLoaded
  <2>6. FRight(R, M)
    BY <2>1, <2>3, HotLoadedRight DEF FCalm, Calm, Alive, Fp
  <2> HIDE DEF T, j, M
  <2>7. Lives(T, A)
    BY <2>4, QuietLives
  <2> HIDE DEF A
  <2>8. ~M.panic /\ M.fpins = R.fpins
    BY <2>4, <2>5, <2>7 DEF Lives, Alive, IsLow, Fields
  <2>9. Uses(R, M, 0) /\ FCalm(M)
    BY <2>1, <2>6, <2>8, RestFCalm
  <2>10. Uses(M, N, 0)
    BY <2>9, FPushLoadUses
  <2> HIDE DEF N
  <2>11. Lives(L, N)
    BY <2>1, <2>9, <2>10, LivesThrough DEF Uses
  <2> QED
    BY <2>2, <2>11
<1>2. CASE ~(i \notin DOMAIN L.fpins /\ i \notin DOMAIN L.flcache /\ <<"flocal", i>> \in L.hot)
  <2>1. \A j : Lives(L, FPushLoad(L, j))
    BY FPushLoadUses DEF Uses
  <2> QED
    BY <1>2, <2>1 DEF LocalFFetch
<1> QED
  BY <1>1, <1>2

LEMMA LocalFStoreLives ==
  ASSUME NEW L, Alive(L), NEW i
  PROVE  Lives(L, LocalFStore(L, i))
<1> DEFINE d == FTop(L)  P == FPop(L, 1)
           M == [P EXCEPT !.flcache = With(@, i, Stored(d)), !.fused = @ \ Superseded(L.flcache, i, d)]
           j == [op |-> "fmov", rd |-> L.fpins[i], rn |-> d]  A == Emit(P, j)
<1>1. Lives(L, P)
  BY FQuiet DEF Uses
<1>2. LocalFStore(L, i) = IF i \in DOMAIN L.fpins THEN FFreeR(A, d) ELSE M
  BY DEF LocalFStore
<1> HIDE DEF P, d, j
<1>3. Lives(L, M)
  BY <1>1 DEF Lives, Alive, IsLow, Fields
<1>4. Lives(L, A)
  BY <1>1, ThenQuiet
<1> HIDE DEF A
<1>5. \A r : Lives(L, FFreeR(A, r))
  BY <1>4, ThenFQuiet
<1> QED
  BY <1>2, <1>3, <1>5

LEMMA GpRoomFits ==
  ASSUME NEW L, FFit(L)
  PROVE  Lives(L, GpRoom(L)) /\ FFit(GpRoom(L)) /\ FreeCount(GpRoom(L)) >= 1
<1> DEFINE A == GpRoom(L)
<1>1. Uses(L, A, 0) /\ FreeCount(A) >= 1
  BY FFitIs, GpRoomUses DEF FCalm
<1>2. FpKept(L, A) /\ GpRest(L, A)
  BY FFitIs, GpRoomRests DEF Sound
<1> HIDE DEF A
<1>3. Sound(A)
  BY <1>2, FFitIs, FpStays, RestKeeps DEF Sound, FpKept, Goes
<1>4. FFit(A)
  BY <1>1, <1>3, SoundFit DEF Uses, FFit, Fit
<1> QED
  BY <1>1, <1>4 DEF Uses, A

\* A GP register in hand, for an address or a literal.
LEMMA LoadInHand ==
  ASSUME NEW L, FFit(L), FreeCount(L) >= 1, NEW i
  PROVE  LET A == Load(L, i)
         IN  /\ Lives(L, A) /\ FCalm(A) /\ Gp(A, {Got(L)}) /\ Fp(A, {}) /\ A.fvcache = L.fvcache
<1> DEFINE A == Load(L, i)  g == Got(L)
<1>1. Took(L, A, g, {}) /\ Lives(L, A)
  BY FFitIs, Loaded, LoadUses DEF Sound, Uses
<1> HIDE DEF A, g
<1>2. {} \cup {g} = {g}
  OBVIOUS
<1>3. FpKept(L, A) /\ Gp(A, {g})
  BY <1>1, <1>2 DEF Took, FpKept, Goes, Gp
<1>4. Fp(A, {}) /\ A.fvcache = L.fvcache
  BY <1>3, FFitIs, FpStays DEF Sound, FpKept, FpSame
<1>5. FCalm(A)
  <2>1. Strict(A, {g}) /\ FStrict(A, {}) /\ Alive(A)
    BY <1>1, <1>3, <1>4 DEF Gp, Fp, Lives, Alive
  <2>2. Ample(A)
    BY <1>1 DEF Lives, FFit, Fit, Ample, Unpinned
  <2> QED
    BY <2>1, <2>2 DEF FCalm, Calm
<1> QED
  BY <1>1, <1>3, <1>4, <1>5 DEF A, g

LEMMA FLitLives ==
  ASSUME NEW L, FFit(L), FreeCount(L) >= 1, NEW n
  PROVE  Lives(L, FLit(L, n))
<1> DEFINE A == Load(L, [op |-> "movi", n |-> n])  g == Got(L)  B == FPushLoad(A, [op |-> "fmovx", rn |-> g])
<1>1. Lives(L, A) /\ FCalm(A)
  BY LoadInHand
<1>2. FLit(L, n) = FreeR(B, g)
  BY DEF FLit
<1> HIDE DEF A, g
<1>3. Lives(A, B)
  BY <1>1, FPushLoadUses DEF Uses
<1> HIDE DEF B
<1>4. Lives(L, B)
  BY <1>1, <1>3, LivesThrough
<1>5. \A r : Lives(L, FreeR(B, r))
  BY <1>4, ThenQuiet
<1> QED
  BY <1>2, <1>5

LEMMA FBinLives ==
  ASSUME NEW L, Alive(L), NEW f
  PROVE  Lives(L, FBin(L, f)) /\ Lives(L, FUn(L))
<1> DEFINE P == FPop(L, 1)
           j == [op |-> "falu", f |-> f, rd |-> Nth(L.fvs, 1), rn |-> Nth(L.fvs, 1), rm |-> FTop(L)]
           A == Emit(P, j)
<1>1. Lives(L, P)
  BY FQuiet DEF Uses
<1>2. FBin(L, f) = FFreeR(A, FTop(L))
  BY DEF FBin
<1> HIDE DEF P, j
<1>3. Lives(L, A)
  BY <1>1, ThenQuiet
<1> HIDE DEF A
<1>4. \A r : Lives(L, FFreeR(A, r))
  BY <1>3, ThenFQuiet
<1>5. Lives(L, FUn(L))
  BY QuietLives DEF FUn
<1> QED
  BY <1>2, <1>4, <1>5

LEMMA FStkLives ==
  ASSUME NEW L, FCalm(L), NEW m \in {"Dup", "Drop", "Swap", "Over"}
  PROVE  Lives(L, FStk(L, m))
<1> DEFINE P == FPop(L, 1)
<1>1. \A j : Lives(L, FPushLoad(L, j))
  BY FPushLoadUses DEF Uses
<1>2. Lives(L, P) /\ \A s : Lives(L, [L EXCEPT !.fvs = s])
  BY FQuiet DEF Uses, FCalm, Calm
<1> HIDE DEF P
<1>3. \A r : Lives(L, FFreeR(P, r))
  BY <1>2, ThenFQuiet
<1>4. CASE m = "Dup"
  BY <1>1, <1>4 DEF FStk
<1>5. CASE m = "Over"
  BY <1>1, <1>5 DEF FStk
<1>6. CASE m = "Drop"
  BY <1>3, <1>6 DEF FStk, P
<1>7. CASE m = "Swap"
  <2> DEFINE s == Motion("Swap", L.fvs)
  <2>1. FStk(L, m) = [L EXCEPT !.fvs = s]
    BY <1>7 DEF FStk
  <2> HIDE DEF s
  <2> QED
    BY <1>2, <2>1
<1> QED
  BY <1>4, <1>5, <1>6, <1>7

LEMMA LoadNewLives ==
  ASSUME NEW L, Alive(L), FreeCount(L) >= 1, NEW i
  PROVE  Lives(L, LoadNew(L, i))
<1> DEFINE A == Load(L, i)
<1>1. Lives(L, A)
  BY LoadUses DEF Uses
<1> HIDE DEF A
<1>2. \A r : Lives(L, PushReg(A, r))
  BY <1>1, ThenQuiet
<1> QED
  BY <1>2 DEF LoadNew, A

\* The flag of an FP comparison: the operands are in FP registers.
LEMMA FCmpLives ==
  ASSUME NEW L, Alive(L), FreeCount(L) >= 1, NEW c
  PROVE  Lives(L, FCmpOp(L, c)) /\ Lives(L, FZCmp(L, c))
<1>0. ASSUME NEW M, Uses(L, M, 0), NEW j PROVE Lives(L, LoadNew(M, j))
  <2>1. FreeCount(M) \in Nat /\ FreeCount(L) \in Nat
    BY FreeCounted
  <2>2. FreeCount(M) >= 1 /\ Alive(M)
    BY <1>0, <2>1 DEF Uses, Lives
  <2> QED
    BY <1>0, <2>2, LoadNewLives, LivesThrough DEF Uses
<1>1. ASSUME NEW n, NEW a PROVE Uses(L, FFreeR(FPop(L, n), a), 0)
  <2> DEFINE P == FPop(L, n)
  <2>1. Uses(L, P, 0)
    BY FQuiet
  <2> HIDE DEF P
  <2>2. Uses(P, FFreeR(P, a), 0)
    BY <2>1, FQuiet DEF Uses, Lives
  <2> QED
    BY <2>1, <2>2, CalmThrough DEF P
<1>2. ASSUME NEW n, NEW a, NEW b PROVE Uses(L, FFreeR(FFreeR(FPop(L, n), a), b), 0)
  <2> DEFINE P == FFreeR(FPop(L, n), a)
  <2>1. Uses(L, P, 0)
    BY <1>1
  <2> HIDE DEF P
  <2>2. Uses(P, FFreeR(P, b), 0)
    BY <2>1, FQuiet DEF Uses, Lives
  <2> QED
    BY <2>1, <2>2, CalmThrough DEF P
<1>3. Lives(L, FCmpOp(L, c))
  BY <1>0, <1>2 DEF FCmpOp
<1>4. Lives(L, FZCmp(L, c))
  BY <1>0, <1>1 DEF FZCmp
<1> QED
  BY <1>3, <1>4

\* A hot fvariable.
LEMMA FCacheVarLives ==
  ASSUME NEW A, FCalm(A), NEW g, Gp(A, {g}), NEW a, a \notin DOMAIN A.fvcache
  PROVE  Lives(A, FCacheVar(FRoom(A), a, g))
<1> DEFINE R == FRoom(A)  T == FTake(R)  j == [op |-> "fldr", rd |-> FGot(R), rn |-> g]  B == Emit(T, j)
           C == FreeR(B, g)  M == VarLoaded(R, a, g)  k == [op |-> "fmov", rn |-> FGot(R)]  N == FPushLoad(M, k)
<1>1. Uses(A, R, 0) /\ FCalm(R) /\ FFree(R) # {}
  BY FRoomUses
<1>2. FCacheVar(R, a, g) = N
  BY DEF FCacheVar, VarLoaded
<1>3. Sound(M)
  BY VarLoadedSound DEF FCalm, Calm, Alive, Fp
<1> HIDE DEF R, k
<1>4. Lives(R, T)
  BY <1>1 DEF FTake, FCalm, Calm, Lives, Alive, IsLow, Fields
<1>5. M = [C EXCEPT !.fvcache = With(@, a, [r |-> FGot(R), dirty |-> FALSE])]
  BY DEF VarLoaded
<1> HIDE DEF T, j, M
<1>6. Lives(R, B)
  BY <1>4, ThenQuiet
<1> HIDE DEF B
<1>7. Lives(R, C)
  BY <1>6, ThenQuiet
<1> HIDE DEF C
<1>8. Lives(R, M)
  <2>1. IsFiniteSet(DOMAIN M.fvcache)
    BY <1>3 DEF Sound, IsLow
  <2> QED
    BY <1>5, <1>7, <2>1 DEF Lives, Alive, IsLow, Fields
<1>9. FCalm(M)
  BY <1>1, <1>3, <1>8, SoundFit, FFitIs DEF FCalm, Calm
<1>10. Lives(M, N)
  BY <1>9, FPushLoadUses DEF Uses
<1> HIDE DEF N
<1> QED
  BY <1>1, <1>2, <1>8, <1>10, LivesThrough DEF Uses, R

LEMMA FLoadViaLives ==
  ASSUME NEW L, FFit(L), FreeCount(L) >= 1, NEW a, a \notin DOMAIN L.fvcache
  PROVE  Lives(L, FLoadVia(L, a))
<1> DEFINE A == Load(L, [op |-> "movi", n |-> a])  g == Got(L)  j == [op |-> "fldr", rn |-> g]  B == FPushLoad(A, j)
<1>1. Lives(L, A) /\ FCalm(A) /\ Gp(A, {g}) /\ a \notin DOMAIN A.fvcache
  BY LoadInHand
<1>2. FLoadVia(L, a) = IF <<"fvar", a>> \in L.hot THEN FCacheVar(FRoom(A), a, g) ELSE FreeR(B, g)
  BY DEF FLoadVia
<1> HIDE DEF A, g, j
<1>3. Lives(L, FCacheVar(FRoom(A), a, g))
  BY <1>1, FCacheVarLives, LivesThrough
<1>4. Lives(L, B)
  BY <1>1, FPushLoadUses, LivesThrough DEF Uses
<1> HIDE DEF B
<1>5. \A r : Lives(L, FreeR(B, r))
  BY <1>4, ThenQuiet
<1> QED
  BY <1>2, <1>3, <1>5

LEMMA FFetchAddrLives ==
  ASSUME NEW L, FFit(L), NEW a
  PROVE  Lives(L, FFetchAddr(L, a))
<1>1. CASE a \in DOMAIN L.fvcache
  <2>1. \A j : Lives(L, FPushLoad(L, j))
    BY FFitIs, FPushLoadUses DEF Uses
  <2> QED
    BY <1>1, <2>1 DEF FFetchAddr
<1>2. CASE a \notin DOMAIN L.fvcache
  <2> DEFINE A == GpRoom(L)
  <2>1. Lives(L, A) /\ FFit(A) /\ FreeCount(A) >= 1
    BY GpRoomFits
  <2>2. FpKept(L, A)
    BY FFitIs, GpRoomRests DEF Sound
  <2>3. FFetchAddr(L, a) = FLoadVia(A, a)
    BY <1>2 DEF FFetchAddr
  <2> HIDE DEF A
  <2>4. a \notin DOMAIN A.fvcache
    BY <1>2, <2>2 DEF FpKept, FpSame
  <2> QED
    BY <2>1, <2>3, <2>4, FLoadViaLives, LivesThrough
<1> QED
  BY <1>1, <1>2

\* What f@ and f! begin with: the address, popped, may stay in its register.
LEMMA AddressInHand ==
  ASSUME NEW L, FFit(L), Len(L.vs) >= 1
  PROVE  LET a == Top(L)  P == Pop(L, 1)
         IN  /\ Lives(L, P) /\ FCalm(P) /\ Gp(P, RegOf(a)) /\ Fp(P, {})
             /\ a.k = "Const" => FFit(P)
<1> DEFINE a == Top(L)  P == Pop(L, 1)
<1>1. IsLow(P) /\ FpKept(L, P) /\ Gp(P, RegOf(a))
  BY FFitIs, OneOperand DEF Ready, Sound
<1>2. Lives(L, P)
  BY FFitIs, QuietLives
<1> HIDE DEF P, a
<1>3. Fp(P, {})
  BY <1>1, FFitIs, FpStays DEF Sound
<1>4. FCalm(P)
  <2>1. Strict(P, RegOf(a)) /\ FStrict(P, {}) /\ Alive(P)
    BY <1>1, <1>2, <1>3 DEF Gp, Fp, Lives, Alive
  <2>2. Ample(P)
    BY <1>2 DEF Lives, FFit, Fit, Ample, Unpinned
  <2>3. \E x : RegOf(a) \in {{}, {x}}
    BY DEF RegOf
  <2> QED
    BY <2>1, <2>2, <2>3 DEF FCalm, Calm
<1>5. a.k = "Const" => FFit(P)
  <2> SUFFICES ASSUME a.k = "Const" PROVE FFit(P)
    OBVIOUS
  <2>1. RegOf(a) = {}
    BY DEF RegOf
  <2>2. Sound(P)
    BY <1>1, <1>3, <2>1 DEF Sound
  <2> QED
    BY <1>2, <2>2, SoundFit DEF FFit, Fit
<1> QED
  BY <1>1, <1>2, <1>3, <1>4, <1>5 DEF P, a

LEMMA FFetchLives ==
  ASSUME NEW L, FFit(L), Len(L.vs) >= 1
  PROVE  Lives(L, FFetch(L))
<1> DEFINE a == Top(L)  P == Pop(L, 1)  B == FPushLoad(P, [op |-> "fldr", rn |-> a.v])
<1>1. Lives(L, P) /\ FCalm(P) /\ (a.k = "Const" => FFit(P))
  BY AddressInHand
<1>2. FFetch(L) = IF a.k = "Const" THEN FFetchAddr(P, a.v) ELSE FreeR(B, a.v)
  BY DEF FFetch
<1> HIDE DEF P, a
<1>3. Lives(L, B)
  BY <1>1, FPushLoadUses, LivesThrough DEF Uses
<1> HIDE DEF B
<1>4. \A r : Lives(L, FreeR(B, r))
  BY <1>3, ThenQuiet
<1>5. a.k = "Const" => Lives(L, FFetchAddr(P, a.v))
  BY <1>1, FFetchAddrLives, LivesThrough
<1> QED
  BY <1>2, <1>4, <1>5

LEMMA FStoreLives ==
  ASSUME NEW L, FFit(L), Len(L.vs) >= 1
  PROVE  Lives(L, FStore(L))
<1> DEFINE a == Top(L)  P == Pop(L, 1)  E == FEnsure(P, 1)  d == FTop(E)  A == FPop(E, 1)
           N == [A EXCEPT !.fvcache = With(@, a.v, Stored(d)), !.fused = @ \ Superseded(E.fvcache, a.v, d)]
           B == Emit(A, [op |-> "fstr", rn |-> a.v, rm |-> d])  C == FreeR(B, a.v)
<1>1. Lives(L, P) /\ FCalm(P)
  BY AddressInHand
<1>2. FStore(L) = IF a.k = "Const" THEN N ELSE FFreeR(C, d)
  BY DEF FStore, FStoreTo
<1> HIDE DEF P, a
<1>3. Lives(L, E)
  BY <1>1, FEnsureUses, LivesThrough DEF Uses
<1> HIDE DEF E
<1>4. Lives(L, A)
  BY <1>3, ThenFQuiet
<1> HIDE DEF A, d
<1>5. Lives(L, N)
  <2>1. IsFiniteSet(DOMAIN With(A.fvcache, a.v, Stored(d)))
    <3>1. DOMAIN With(A.fvcache, a.v, Stored(d)) = DOMAIN A.fvcache \cup {a.v}
      BY DEF With
    <3> QED
      BY <1>4, <3>1, FS_AddElement DEF Lives, Alive, IsLow
  <2> QED
    BY <1>4, <2>1 DEF Lives, Alive, IsLow, Fields
<1>6. Lives(L, B)
  BY <1>4, ThenQuiet
<1> HIDE DEF B, N
<1>7. Lives(L, C)
  BY <1>6, ThenQuiet
<1> HIDE DEF C
<1>8. \A r : Lives(L, FFreeR(C, r))
  BY <1>7, ThenFQuiet
<1> QED
  BY <1>2, <1>5, <1>8

LEMMA SettleLives ==
  ASSUME NEW L, FFit(L)
  PROVE  Lives(L, Settle(L))
<1> DEFINE A == SettleData(L)
<1>1. Lives(L, A)
  BY FFitIs, SettleUses DEF Fit, Uses
<1>2. FpKept(L, A) /\ GpSettled(L, A)
  BY <1>1, FFitIs, SettledIs DEF Sound, Lives, Alive
<1> HIDE DEF A
<1>3. Sound(A)
  <2>1. GpRest(L, A)
    BY <1>2 DEF FpKept, GpRest
  <2> QED
    BY <1>2, <2>1, FFitIs, FpStays, RestKeeps DEF Sound, FpKept, Goes
<1>4. FCalm(A)
  BY <1>1, <1>3, SoundFit, FFitIs DEF FFit, Fit
<1>5. Lives(A, FSettle(A))
  BY <1>4, FSettleUses DEF Uses
<1> QED
  BY <1>1, <1>5, LivesThrough DEF Settle, A

LEMMA OpenLocalsLives ==
  ASSUME NEW L, FFit(L), NEW total, NEW inputs
  PROVE  Lives(L, OpenLocals(L, total, inputs)) /\ Lives(L, Call(L))
<1> DEFINE code == << [op |-> "addlp", n |-> -total] >>
                   \o FlattenSeq([k \in 1 .. inputs |-> PopInput(inputs - k)])
           A == Settle(L)
<1>1. OpenLocals(L, total, inputs) = EmitAll(A, code) /\ Call(L) = Emit(A, [op |-> "call"])
  BY DEF OpenLocals, Call
<1>2. Lives(L, A)
  BY SettleLives
<1> HIDE DEF code, A
<1> QED
  BY <1>1, <1>2, ThenQuiet

LEMMA CloseLocalsLives ==
  ASSUME NEW L, Alive(L), NEW total
  PROVE  Lives(L, CloseLocals(L, total))
<1> DEFINE i == [op |-> "addlp", n |-> total]  A == Emit(L, i)  M == CloseLocals(L, total)
<1>1. Lives(L, A)
  BY QuietLives
<1>2. M = [A EXCEPT !.used = @ \ {L.lcache[k].r : k \in DOMAIN L.lcache}, !.lcache = <<>>,
                    !.fused = @ \ {L.flcache[k].r : k \in DOMAIN L.flcache}, !.flcache = <<>>]
  BY DEF CloseLocals
<1> HIDE DEF A, M, i
<1>3. CacheRegs(<<>>) = {}
  BY DEF CacheRegs
<1>4. Lives(L, M)
  BY <1>1, <1>2, <1>3 DEF Lives, Alive, IsLow, Fields
<1> QED
  BY <1>4 DEF M

----------------------------------------------------------------------------
(* The dispatch *)

\* What a token needs of the registers: the length of what it reaches for.
Affords(L, t) ==
  /\ t.op = "PickN" => t.n + 1 <= Cardinality(Unpinned(L))
  /\ t.op = "RollN" => t.n <= Cardinality(Unpinned(L))
  /\ t.op = "Stk" /\ t.m \in {"Nip", "MinusRot"} => Len(L.vs) + FreeCount(L) >= MotionNeeds(t.m)

LEMMA FloatLives ==
  ASSUME NEW L, FFit(L), Spare(L) # {}, NEW t, IsTok(t), t.op \in FloatToks
  PROVE  Lives(L, LowerTok(L, t))
<1>1. \A n \in {1, 2} : LET E == FEnsure(L, n) IN Lives(L, E) /\ FCalm(E) /\ Alive(E)
  BY FFitIs, FEnsureUses DEF Uses, Lives
<1>2. LET E == Ensure(L, 1) IN Lives(L, E) /\ FFit(E) /\ Len(E.vs) >= 1
  <2> DEFINE E == Ensure(L, 1)
  <2>1. Lives(L, E)
    BY FFitIs, OneEnsured
  <2>2. Ready(E, 1) /\ Fp(E, {})
    BY FFitIs, EnsureSound DEF Alive
  <2> HIDE DEF E
  <2>3. Sound(E) /\ Len(E.vs) >= 1
    BY <2>1, <2>2 DEF Ready, Sound, Lives, Alive
  <2> QED
    BY <2>1, <2>3, SoundFit DEF FFit, Fit, E
<1>3. CASE t.op = "LocalFFetch"
  BY <1>3, FFitIs, LocalFFetchLives DEF LowerTok
<1>4. CASE t.op = "LocalFStore"
  BY <1>1, <1>4, LocalFStoreLives, LivesThrough DEF LowerTok
<1>5. CASE t.op = "FLit"
  BY <1>5, GpRoomFits, FLitLives, LivesThrough DEF LowerTok
<1>6. CASE t.op = "FBin"
  BY <1>1, <1>6, FBinLives, LivesThrough DEF LowerTok
<1>7. CASE t.op = "FUn"
  BY <1>1, <1>7, FBinLives, LivesThrough DEF LowerTok
<1>8. CASE t.op = "FStk"
  <2>1. t.m \in {"Dup", "Drop", "Swap", "Over"} /\ MotionNeeds(t.m) \in {1, 2}
    BY <1>8 DEF IsTok, MotionNeeds
  <2> QED
    BY <1>1, <1>8, <2>1, FStkLives, LivesThrough DEF LowerTok
<1>9. CASE t.op \in {"FCmp", "FZCmp"}
  <2> DEFINE R == Reserve(L, 1)
  <2>1. Cardinality(Unpinned(L)) >= 2 /\ Cardinality(Unpinned(L)) \in Nat
    BY RoomAssumption, FS_Difference, FS_CardinalityType DEF FFit, Fit, Ample, Unpinned
  <2>2. Uses(L, R, 0) /\ FreeCount(R) >= 1
    BY <2>1, FFitIs, ReserveUses
  <2>3. Sound(R)
    <3>1. Len(L.vs) \in Nat
      BY InWindow DEF FFit, Fit, Strict, Apart
    <3> QED
      BY <3>1, FFitIs, ReserveRight, RightSound DEF Sound
  <2> HIDE DEF R
  <2>4. FCalm(R)
    BY <2>2, <2>3, SoundFit, FFitIs DEF FFit, Fit, Uses
  <2>5. ASSUME NEW n \in {1, 2} PROVE LET E == FEnsure(R, n) IN Lives(R, E) /\ Alive(E) /\ FreeCount(E) >= 1
    <3> DEFINE E == FEnsure(R, n)
    <3>1. Uses(R, E, 0)
      BY <2>4, FEnsureUses
    <3> HIDE DEF E
    <3>2. FreeCount(R) \in Nat /\ FreeCount(E) \in Nat
      BY FreeCounted
    <3> QED
      BY <2>2, <3>1, <3>2 DEF Uses, Lives, E
  <2> QED
    BY <1>9, <2>2, <2>5, FCmpLives, LivesThrough DEF LowerTok, R, Uses
<1>10. CASE t.op = "FFetch"
  BY <1>2, <1>10, FFetchLives, LivesThrough DEF LowerTok
<1>11. CASE t.op = "FStore"
  BY <1>2, <1>11, FStoreLives, LivesThrough DEF LowerTok
<1> QED
  BY <1>3, <1>4, <1>5, <1>6, <1>7, <1>8, <1>9, <1>10, <1>11 DEF FloatToks

LEMMA MemoryFits ==
  ASSUME NEW L, FFit(L), Spare(L) # {}, NEW t, IsTok(t), t.op \in MemoryToks, Affords(L, t),
         Gp(LowerTok(L, t), {})
  PROVE  Fits(L, LowerTok(L, t))
<1>1. \A M : Lives(L, M) => Fits(L, M)
  BY LivesFits
<1>2. Fit(L) /\ Alive(L)
  BY FFitIs
<1>3. CASE t.op = "Lit"
  BY <1>1, <1>2, <1>3, QuietLives DEF LowerTok
<1>4. CASE t.op = "Stk"
  BY <1>1, <1>2, <1>4, StkLives DEF LowerTok, IsTok, Affords
<1>5. CASE t.op = "PickN"
  BY <1>1, <1>2, <1>5, PickLives DEF LowerTok, IsTok, Affords
<1>6. CASE t.op = "RollN"
  BY <1>1, <1>2, <1>6, RollLives DEF LowerTok, IsTok, Affords
<1>7. CASE t.op = "Fetch"
  BY <1>2, <1>7, FetchFits DEF LowerTok
<1>8. CASE t.op = "CFetch"
  <2> DEFINE E == Room(L, 3, 1)  M == LoadThrough(E, [op |-> "ldrb"])
  <2>1. Lives(L, E) /\ Alive(E) /\ FreeCount(E) >= TopLoads(E, 1)
    <3>1. 3 \in Nat /\ 2 + 1 <= 3
      OBVIOUS
    <3> QED
      BY <1>2, <3>1, RoomSmall
  <2> HIDE DEF E
  <2>2. Lives(L, M)
    BY <2>1, LoadThroughLives, LivesThrough
  <2> QED
    BY <1>1, <1>8, <2>2 DEF LowerTok, CFetch, E
<1>9. CASE t.op = "Store"
  BY <1>1, <1>2, <1>9, StoreThroughLives DEF LowerTok, Store
<1>10. CASE t.op = "CStore"
  BY <1>1, <1>2, <1>10, StoreThroughLives DEF LowerTok, CStore
<1>11. CASE t.op = "LocalFetch"
  BY <1>2, <1>11, LocalFetchFits DEF LowerTok
<1>12. CASE t.op = "LocalStore"
  BY <1>2, <1>12, LocalStoreFits DEF LowerTok
<1>13. CASE t.op = "IvarFetch"
  <2> DEFINE A == PushLoad(L, [op |-> "ldself"])
             j == [op |-> "ldr", rd |-> Top(A).v, rn |-> Top(A).v, off |-> t.off]
  <2>1. Lives(L, A)
    BY <1>2, PushLoadLives
  <2>2. LowerTok(L, t) = Emit(A, j)
    BY <1>13 DEF LowerTok, IvarFetch
  <2> HIDE DEF A, j
  <2> QED
    BY <1>1, <2>1, <2>2, ThenQuiet
<1>14. CASE t.op = "SelfPush"
  BY <1>1, <1>2, <1>14, PushLoadLives DEF LowerTok, SelfPush
<1>15. CASE t.op = "LoopIdx"
  BY <1>1, <1>2, <1>15, PushLoadLives DEF LowerTok, LoopIdx
<1> QED
  BY <1>3, <1>4, <1>5, <1>6, <1>7, <1>8, <1>9, <1>10, <1>11, <1>12, <1>13, <1>14, <1>15 DEF MemoryToks

LEMMA TokenFits ==
  ASSUME NEW L, FFit(L), Spare(L) # {}, NEW t, IsTok(t), Affords(L, t)
  PROVE  Fits(L, LowerTok(L, t))
<1>1. \A M : Lives(L, M) => Fits(L, M)
  BY LivesFits
<1>2. Gp(LowerTok(L, t), {})
  BY FFitIs, TokenSound DEF Sound, Alive
<1>3. CASE t.op = "OpenLocals"
  BY <1>1, <1>3, OpenLocalsLives DEF LowerTok
<1>4. CASE t.op = "CloseLocals"
  BY <1>1, <1>4, FFitIs, CloseLocalsLives DEF LowerTok
<1>5. CASE t.op = "Call"
  BY <1>1, <1>5, OpenLocalsLives DEF LowerTok
<1>6. CASE t.op \in GpToks
  BY <1>1, <1>6, FFitIs, ArithLives
<1>7. CASE t.op \in MemoryToks
  BY <1>2, <1>7, MemoryFits
<1>8. CASE t.op \in FloatToks
  BY <1>1, <1>8, FloatLives
<1>9. t.op \in GpToks \cup MemoryToks \cup FloatToks \cup {"OpenLocals", "CloseLocals", "Call"}
  BY DEF IsTok, TokOps, GpToks, MemoryToks, FloatToks
<1> QED
  BY <1>3, <1>4, <1>5, <1>6, <1>7, <1>8, <1>9

\* A motion that finds no register leaves the caches alone, though it panics.
CachesSame(L, M) ==
  IsLow(M) /\ M.lcache = L.lcache /\ M.cells = L.cells /\ M.ipins = L.ipins /\ M.fpins = L.fpins

LEMMA EnsureCaches ==
  ASSUME NEW L, IsLow(L), Len(L.vs) \in Nat, NEW n \in Nat
  PROVE  CachesSame(L, Ensure(L, n))
<1>1. CachesSame(L, L)
  BY DEF CachesSame
<1>2. CASE Len(L.vs) >= n /\ Ensure(L, n) = L
  BY <1>1, <1>2
<1>3. CASE ~(Len(L.vs) >= n /\ Ensure(L, n) = L)
  <2> DEFINE m == n - Len(L.vs)
  <2>1. PICK g : /\ g[0] = L /\ Ensure(L, n) = g[m]
                 /\ \A k \in 0 .. m - 1 : g[k + 1] = Pull(g[k])
    BY <1>3, EnsureTurns
  <2>2. m \in Nat
    BY <1>3, EnsureTurns
  <2> HIDE DEF m
  <2> DEFINE Done == {k \in 0 .. m : CachesSame(L, g[k])}
  <2>3. 0 \in Done
    <3>1. CachesSame(L, g[0])
      BY <1>1, <2>1
    <3>2. 0 \in 0 .. m
      BY <2>2
    <3> QED
      BY <3>1, <3>2
  <2>4. ASSUME NEW k \in 0 .. m - 1, k \in Done PROVE k + 1 \in Done
    <3> DEFINE A == g[k]  T == Take(A)  j == [rd |-> Got(A)] @@ [op |-> "ldsp", off |-> A.consumed]
               B == Emit(T, j)
    <3>1. CachesSame(L, A) /\ g[k + 1] = Pull(A) /\ k + 1 \in 0 .. m
      BY <2>1, <2>2, <2>4
    <3> HIDE DEF A
    <3>2. Pull(A) = [B EXCEPT !.consumed = @ + 1, !.vs = <<Reg(Got(A))>> \o @]
      BY DEF Pull, Load
    <3>3. CachesSame(L, T)
      BY <3>1 DEF Take, CachesSame, IsLow, Fields
    <3> HIDE DEF T, j
    <3>4. CachesSame(L, B)
      BY <3>3 DEF Emit, CachesSame, IsLow, Fields
    <3> HIDE DEF B
    <3>5. CachesSame(L, Pull(A))
      BY <3>2, <3>4 DEF CachesSame, IsLow, Fields
    <3> QED
      BY <3>1, <3>5
  <2> HIDE DEF Done
  <2>5. \A k \in 0 .. m : k \in Done
    BY <2>2, <2>3, <2>4, UpTo
  <2>6. m \in Done
    BY <2>2, <2>5
  <2> QED
    BY <2>1, <2>6 DEF Done
<1> QED
  BY <1>2, <1>3

LEMMA MotionCaches ==
  ASSUME NEW L, IsLow(L), Len(L.vs) \in Nat, NEW m \in {"Nip", "MinusRot"}
  PROVE  CachesSame(L, Stk(L, m))
<1>1. ASSUME NEW A, CachesSame(L, A), NEW s, NEW r
      PROVE  CachesSame(L, [A EXCEPT !.vs = s]) /\ CachesSame(L, FreeR([A EXCEPT !.vs = s], r))
  <2> DEFINE B == [A EXCEPT !.vs = s]
  <2>1. CachesSame(L, B)
    BY <1>1 DEF CachesSame, IsLow, Fields
  <2> HIDE DEF B
  <2>2. CachesSame(L, FreeR(B, r))
    BY <2>1 DEF FreeR, CachesSame, IsLow, Fields
  <2> QED
    BY <2>1, <2>2 DEF B
<1>2. CASE m = "Nip"
  <2> DEFINE A == Ensure(L, 2)  s == Motion("Nip", A.vs)  a == Nth(A.vs, 1)  B == [A EXCEPT !.vs = s]
  <2>1. CachesSame(L, A)
    BY EnsureCaches
  <2>2. Stk(L, m) = FreeLoc(B, a)
    BY <1>2 DEF Stk, Nip
  <2> HIDE DEF A, s, a
  <2>3. CachesSame(L, B) /\ \A r : CachesSame(L, FreeR(B, r))
    BY <1>1, <2>1
  <2> QED
    BY <2>2, <2>3 DEF FreeLoc
<1>3. CASE m = "MinusRot"
  <2> DEFINE A == Ensure(L, 3)  s == Motion("MinusRot", A.vs)
  <2>1. CachesSame(L, A)
    BY EnsureCaches
  <2>2. Stk(L, m) = [A EXCEPT !.vs = s]
    BY <1>3 DEF Stk
  <2> HIDE DEF A, s
  <2>3. CachesSame(L, [A EXCEPT !.vs = s])
    BY <1>1, <2>1
  <2> QED
    BY <2>2, <2>3, Zenon
<1> QED
  BY <1>2, <1>3

----------------------------------------------------------------------------
(* The invariant of the allocation *)

\* The pins are the program's, and some register is neither pinned nor in a cache.
HasRoom(L) == L.ipins = prog.ipins /\ L.fpins = prog.fpins /\ Spare(L) # {}
AInv == IInv /\ (low.panic \/ HasRoom(low))

LEMMA RoomFit ==
  ASSUME AInv, ~low.panic
  PROVE  FFit(low)
<1>1. Ample(low)
  BY RoomAssumption DEF AInv, IInv, HasRoom, Ample, Unpinned
<1> QED
  BY <1>1 DEF AInv, IInv, Sound, Gp, Fp, FFit, Fit, Alive

LEMMA NewLowHasRoom ==
  ASSUME NEW p \in Programs, NEW hot
  PROVE  LET L == NewLow(hot, p.ipins, p.fpins)
         IN  L.ipins = p.ipins /\ L.fpins = p.fpins /\ Spare(L) # {}
<1> DEFINE L == NewLow(hot, p.ipins, p.fpins)
<1>1. L.ipins = p.ipins /\ L.fpins = p.fpins /\ L.lcache = <<>> /\ L.cells = <<>>
  BY DEF NewLow
<1> HIDE DEF L
<1>2. CacheRegs(<<>>) = {} /\ Range(<<>>) = {}
  BY DEF CacheRegs, Range
<1>3. Spare(L) = Unpinned(p)
  BY <1>1, <1>2 DEF Spare, Unpinned
<1>4. Unpinned(p) # {}
  <2>1. Cardinality(Unpinned(p)) >= 2
    BY RoomAssumption
  <2> QED
    BY <2>1, FS_EmptySet
<1> QED
  BY <1>1, <1>3, <1>4 DEF L

LEMMA InitAInv == Init => AInv
<1> SUFFICES ASSUME Init PROVE AInv
  OBVIOUS
<1>1. IInv
  BY InitIInv
<1>2. PICK hot : low = NewLow(hot, prog.ipins, prog.fpins)
  BY DEF Init
<1> QED
  BY <1>1, <1>2, NewLowHasRoom DEF AInv, IInv, HasRoom

\* A step that panics is a dry motion, and any other keeps the room.
LEMMA NextAInv == AInv /\ [Next]_vars => AInv' /\ [low'.panic => DryMotion]_vars
<1> SUFFICES ASSUME AInv, [Next]_vars PROVE AInv' /\ [low'.panic => DryMotion]_vars
  OBVIOUS
<1>1. IInv'
  BY NextIInv DEF AInv
<1>2. ASSUME NEW t \in prog.toks, Lower(t), ~DryMotion PROVE ~low'.panic /\ HasRoom(low)'
  <2> DEFINE M == LowerTok(low, t)
  <2>1. FFit(low) /\ Spare(low) # {} /\ low.ipins = prog.ipins /\ low.fpins = prog.fpins /\ prog \in Programs
    BY <1>2, RoomFit DEF Lower, AInv, IInv, HasRoom
  <2>2. IsTok(t)
    BY <2>1, ProgramsAssumption
  <2>3. Affords(low, t)
    <3>1. Len(low.vs) \in Nat /\ FreeCount(low) \in Nat
      BY <2>1, InWindow, FreeCounted DEF FFit, Fit, Strict, Apart
    <3>2. t.op = "Stk" /\ t.m \in {"Nip", "MinusRot"} => ~(Len(low.vs) + FreeCount(low) < MotionNeeds(t.m))
      BY <1>2 DEF Lower, DryMotion, FreeCount
    <3>3. t.m \in {"Nip", "MinusRot"} => MotionNeeds(t.m) \in Nat
      BY DEF MotionNeeds
    <3>4. t.op = "Stk" /\ t.m \in {"Nip", "MinusRot"} => Len(low.vs) + FreeCount(low) >= MotionNeeds(t.m)
      BY <3>1, <3>2, <3>3
    <3>5. Unpinned(low) = Unpinned(prog)
      BY <2>1 DEF Unpinned
    <3> QED
      BY <2>1, <3>4, <3>5, RoomAssumption DEF Affords
  <2>4. Fits(low, M)
    BY <2>1, <2>2, <2>3, TokenFits
  <2>5. low' = [M EXCEPT !.out = <<>>] /\ prog' = prog
    BY <1>2 DEF Lower
  <2> HIDE DEF M
  <2>6. /\ low'.panic = M.panic /\ low'.ipins = M.ipins /\ low'.fpins = M.fpins
        /\ low'.lcache = M.lcache /\ low'.cells = M.cells
    BY <2>4, <2>5 DEF Fits, Alive, IsLow, Fields
  <2> QED
    BY <2>1, <2>4, <2>5, <2>6 DEF Fits, Alive, HasRoom, Spare
<1>3. ASSUME FinishRun PROVE ~low'.panic /\ HasRoom(low)'
  <2>1. FFit(low)
    BY <1>3, RoomFit DEF FinishRun
  <2>2. Lives(low, Settle(low))
    BY <2>1, SettleLives
  <2>3. \E hot : low' = NewLow(hot, prog.ipins, prog.fpins)
    BY <1>3, <2>2 DEF FinishRun, Lives, Alive
  <2>4. prog' = prog /\ prog \in Programs
    BY <1>3 DEF FinishRun, AInv, IInv
  <2>5. HasRoom(low)'
    BY <2>3, <2>4, NewLowHasRoom DEF HasRoom, Spare
  <2>6. ~low'.panic
    BY <2>3 DEF NewLow
  <2> QED
    BY <2>5, <2>6
<1>4. CASE UNCHANGED vars
  BY <1>1, <1>4 DEF vars, AInv, HasRoom, Spare
<1>5. ASSUME NEW t \in prog.toks, Lower(t), DryMotion PROVE HasRoom(low)'
  <2> DEFINE M == LowerTok(low, t)
  <2>1. t.op = "Stk" /\ t.m \in {"Nip", "MinusRot"} /\ ~low.panic
    BY <1>5 DEF Lower, DryMotion
  <2>2. HasRoom(low) /\ IsLow(low) /\ Len(low.vs) \in Nat
    BY <2>1, InWindow, RoomFit DEF AInv, FFit, Fit, Alive, Strict, Apart
  <2>3. M = Stk(low, t.m)
    BY <2>1 DEF LowerTok
  <2>4. low' = [M EXCEPT !.out = <<>>] /\ prog' = prog
    BY <1>5 DEF Lower
  <2> HIDE DEF M
  <2>5. CachesSame(low, M)
    BY <2>1, <2>2, <2>3, MotionCaches
  <2>6. /\ low'.ipins = low.ipins /\ low'.fpins = low.fpins
        /\ low'.lcache = low.lcache /\ low'.cells = low.cells
    BY <2>4, <2>5 DEF CachesSame, IsLow, Fields
  <2> QED
    BY <2>2, <2>4, <2>6 DEF HasRoom, Spare
<1>6. ASSUME NEW t \in prog.toks, Lower(t) PROVE AInv' /\ [low'.panic => DryMotion]_vars
  <2>1. CASE ~DryMotion
    BY <1>1, <1>2, <1>6, <2>1 DEF AInv
  <2>2. CASE DryMotion
    BY <1>1, <1>5, <1>6, <2>2 DEF AInv
  <2> QED
    BY <2>1, <2>2
<1>7. CASE FinishRun
  BY <1>1, <1>3, <1>7 DEF AInv
<1> QED
  BY <1>4, <1>6, <1>7 DEF Next

\* Compiling panics in no other way than by a dry `nip` or `-rot`: whatever the
\* pools, the pins and the programs, `alloc`, `gp_temp` and `falloc` find a
\* register in every other method.
THEOREM OnlyDryMotionsPanic == Spec => [][low'.panic => DryMotion]_vars
<1>1. Init => AInv
  BY InitAInv
<1>2. AInv /\ [Next]_vars => AInv' /\ [low'.panic => DryMotion]_vars
  BY NextAInv
<1> QED
  BY <1>1, <1>2, PTL DEF Spec

\* Where no `nip` or `-rot` is dry, every allocation succeeds (`reserve`: "so
\* later allocs never settle").
THEOREM AllocationsSucceed == Spec /\ [][~DryMotion]_vars => []AllocationSucceeds
<1>1. Init => AllocationSucceeds
  BY DEF Init, NewLow, AllocationSucceeds
<1>2. AllocationSucceeds /\ [low'.panic => DryMotion]_vars /\ [~DryMotion]_vars => AllocationSucceeds'
  BY DEF AllocationSucceeds, vars
<1> QED
  BY <1>1, <1>2, OnlyDryMotionsPanic, PTL DEF Spec
=============================================================================
