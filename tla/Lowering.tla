------------------------------ MODULE Lowering ------------------------------
(***************************************************************************)
(* The deferred lowerer of src/opt.rs (`struct Low` and its methods) as    *)
(* operators on its state L.  Each operator returns the state after the    *)
(* method, the instructions it emitted appended to L.out.                  *)
(*                                                                         *)
(* L.vs is the virtual stack, top last; L.used the GP registers held;      *)
(* L.consumed the cells pulled in from memory below the window; L.lcache   *)
(* and L.cells the local and const-address caches; the f-fields are the    *)
(* same for the FP stack; L.hot the <<kind, key>> reads worth caching;      *)
(* L.ipins/L.fpins the locals pinned to registers around a loop; L.panic   *)
(* that an allocation found no free register (`expect`).                   *)
(***************************************************************************)
EXTENDS Aarch64

CONSTANT ImmMax   \* the largest immediate of add/sub/cmp (4095 in the program)

Reg(r)   == [k |-> "Reg", v |-> r]
Const(n) == [k |-> "Const", v |-> n]

\* Low::new
NewLow(hot, ipins, fpins) ==
  [ out |-> <<>>, vs |-> <<Reg(TOS)>>, used |-> {TOS} \cup Range(ipins), consumed |-> 0,
    fvs |-> <<FTOS>>, fused |-> {FTOS} \cup Range(fpins), fconsumed |-> 0,
    lcache |-> <<>>, cells |-> <<>>, flcache |-> <<>>, fvcache |-> <<>>,
    hot |-> hot, ipins |-> ipins, fpins |-> fpins, panic |-> FALSE ]

Emit(L, i) == [L EXCEPT !.out = Append(@, i)]
EmitAll(L, is) == [L EXCEPT !.out = @ \o is]

Top(L) == Nth(L.vs, 0)
With(f, k, v) == [x \in DOMAIN f \cup {k} |-> IF x = k THEN v ELSE f[x]]

----------------------------------------------------------------------------
(* Registers *)

Free(L) == Pool \ L.used
FreeReg(L) == Min(Free(L))      \* alloc takes the first free register of POOL
Take(L) == IF Free(L) = {} THEN [L EXCEPT !.panic = TRUE]
           ELSE [L EXCEPT !.used = @ \cup {FreeReg(L)}]
Got(L) == IF Free(L) = {} THEN TOS ELSE FreeReg(L)  \* the register Take(L) takes
FreeR(L, r) == [L EXCEPT !.used = @ \ {r}]
FreeLoc(L, a) == IF a.k = "Reg" THEN FreeR(L, a.v) ELSE L

\* alloc, then one instruction that fills the register; the register is Got(L).
Load(L, i) == Emit(Take(L), [rd |-> Got(L)] @@ i)

ClearCells(L) == [L EXCEPT !.used = @ \ Range(L.cells), !.cells = <<>>]

Spills(cache, instr) ==
  LET dirty == SetToSortSeq({i \in DOMAIN cache : cache[i].dirty}, <)
  IN  [k \in 1 .. Len(dirty) |-> [op |-> instr, rn |-> cache[dirty[k]].r, off |-> dirty[k]]]

SpillLocals(L) ==
  [EmitAll(L, Spills(L.lcache, "stlp"))
     EXCEPT !.used = @ \ {L.lcache[i].r : i \in DOMAIN L.lcache}, !.lcache = <<>>]

\* One turn of ensure's loop: pull the next cell of the entry stack in.
Pull(L) == [Load(L, [op |-> "ldsp", off |-> L.consumed])
              EXCEPT !.consumed = @ + 1, !.vs = <<Reg(Got(L))>> \o @]
Ensure(L, n) == FoldLeft(LAMBDA A, k : Pull(A), L, [k \in 1 .. n - Len(L.vs) |-> k])

\* How far settling moves the stack pointer: the cells pulled in, less those
\* written back below the top.
Delta(consumed, n) == consumed - (n - 1)

\* The state every settle ends in: the top in x0, the pins still held.
CanonicalUnpinned(L) == [L EXCEPT !.vs = <<Reg(TOS)>>, !.used = {TOS}, !.consumed = 0]  \* (mutant)
Canonical(L) ==
  [L EXCEPT !.vs = <<Reg(TOS)>>, !.used = {TOS} \cup Range(L.ipins), !.consumed = 0]

\* settle_data: back to canonical form, the register entries first, then the
\* top into x0, then the deferred constants through a scratch register.
Filled(L) == IF L.vs = <<>> THEN Pull(L) ELSE L
Scratch(B) == Pool \ (B.used \ {a.v : a \in {b \in ToSet(B.vs) : b.k = "Reg"}})
Below(B, kind) ==       \* the positions below the top that hold this kind, deepest first
  SelectSeq([i \in 1 .. Len(B.vs) - 1 |-> i], LAMBDA i : B.vs[i].k = kind)
UnwindCode(B) ==
  LET n == Len(B.vs)
      top == Top(B)
      delta == Delta(B.consumed, n)
      move == IF delta = 0 THEN <<>> ELSE << [op |-> "addsp", n |-> delta] >>
      regs == [j \in 1 .. Len(Below(B, "Reg")) |->
                LET i == Below(B, "Reg")[j] IN [op |-> "stsp", rn |-> B.vs[i].v, off |-> n - 1 - i]]
      totop == IF top.k = "Const" THEN << [op |-> "movi", rd |-> TOS, n |-> top.v] >>
               ELSE IF top.v = TOS THEN <<>>
               ELSE << [op |-> "mov", rd |-> TOS, rn |-> top.v] >>
      consts == FlattenSeq([j \in 1 .. Len(Below(B, "Const")) |->
                LET i == Below(B, "Const")[j]
                IN  << [op |-> "movi", rd |-> Min(Scratch(B)), n |-> B.vs[i].v],
                       [op |-> "stsp", rn |-> Min(Scratch(B)), off |-> n - 1 - i] >>])
  IN  move \o regs \o totop \o consts
Unwind(B) ==
  IF Below(B, "Const") # <<>> /\ Scratch(B) = {} THEN [B EXCEPT !.panic = TRUE]
  ELSE Canonical(EmitAll(B, UnwindCode(B)))

SettleData(L) == Unwind(Filled(SpillLocals(ClearCells(L))))

Reserve(L, n) == IF Cardinality(Free(L)) < n THEN SettleData(L) ELSE L

\* What most methods begin with: reserve(r), then ensure(n).
Room(L, r, n) == Ensure(Reserve(L, r), n)

----------------------------------------------------------------------------
(* The virtual stack *)

Pop(L, n) == [L EXCEPT !.vs = DropN(@, n)]
Push(L, a) == [L EXCEPT !.vs = Append(@, a)]
PushReg(L, r) == Push(L, Reg(r))

\* to_reg: a value in a register, a constant loaded into a fresh one.
ToReg(L, a) == IF a.k = "Reg" THEN L ELSE Load(L, [op |-> "movi", n |-> a.v])
InReg(L, a) == IF a.k = "Reg" THEN a.v ELSE Got(L)   \* the register ToReg leaves it in

\* copy_of: constants are free, a register costs a mov into a fresh one.
CopyOf(L, a) == IF a.k = "Const" THEN L ELSE Load(L, [op |-> "mov", rn |-> a.v])
CopyLoc(L, a) == IF a.k = "Const" THEN a ELSE Reg(Got(L))

PushCopy(L, a) == Push(CopyOf(L, a), CopyLoc(L, a))

PickNUnreserved(L, n) == LET P(A) == PushCopy(A, Nth(A.vs, n)) IN P(Ensure(L, n + 1))  \* (mutant)
PickN(L, n) == LET P(A) == PushCopy(A, Nth(A.vs, n)) IN P(Room(L, n + 2, n + 1))

RollN(L, n) ==
  IF n = 0 THEN L
  ELSE [Room(L, n + 1, n + 1) EXCEPT !.vs = Append(RemoveAt(@, Len(@) - n), Nth(@, n))]

\* The motions that are neither a pick nor a roll.
Discard(L) == FreeLoc(Pop(L, 1), Top(L))
Nip(L) == FreeLoc([L EXCEPT !.vs = Motion("Nip", @)], Nth(L.vs, 1))
Tuck(L) == [CopyOf(L, Top(L)) EXCEPT !.vs = InsertAt(@, Len(@) - 1, CopyLoc(L, Top(L)))]

Stk(L, m) ==
  CASE m = "Dup"  -> PickN(L, 0)
    [] m = "Over" -> PickN(L, 1)
    [] m = "Swap" -> RollN(L, 1)
    [] m = "Rot"  -> RollN(L, 2)
    [] m = "Drop" -> Discard(Ensure(L, 1))
    [] m = "Nip"  -> Nip(Ensure(L, 2))
    [] m = "MinusRot" -> [Ensure(L, 3) EXCEPT !.vs = Motion("MinusRot", @)]
    [] m = "Tuck" -> Tuck(Room(L, 3, 2))

----------------------------------------------------------------------------
(* Arithmetic.  L has room and the operands in the window: see LowerTok. *)

PowersOfTwo == {Pow2(k) : k \in 1 .. Width}

\* imm_bin_to's cases: x * 2^k becomes a shift, and small constants of either
\* sign become the immediate of an add or a sub.
HasImm(f, n) == \/ f = "Mul" /\ n \in PowersOfTwo
                \/ f \in {"Add", "Sub"} /\ n \in -ImmMax .. ImmMax

ImmInstrUnsigned(f, r, n) ==                                     \* (mutant)
  IF f = "Mul"
  THEN [op |-> "shi", f |-> "Lsl", rd |-> r, rn |-> r, n |-> CHOOSE k \in 1 .. Width : Pow2(k) = n]
  ELSE [op |-> "alui", rd |-> r, rn |-> r, n |-> IF n < 0 THEN -n ELSE n, f |-> f]

ImmInstr(f, r, n) ==
  IF f = "Mul"
  THEN [op |-> "shi", f |-> "Lsl", rd |-> r, rn |-> r, n |-> CHOOSE k \in 1 .. Width : Pow2(k) = n]
  ELSE [op |-> "alui", rd |-> r, rn |-> r, n |-> IF n < 0 THEN -n ELSE n,
        f |-> IF (f = "Add") = (n >= 0) THEN "Add" ELSE "Sub"]

ImmBinTo(L, a, f, n) ==
  PushReg(Emit(ToReg(L, a), ImmInstr(f, InReg(L, a), n)), InReg(L, a))

TwoRegsLeak(L, a, b, i) ==                                       \* (mutant)
  LET A == ToReg(L, a)  ra == InReg(L, a)
      B == ToReg(A, b)
  IN  PushReg(Emit(B, [rd |-> ra, rn |-> ra, rm |-> InReg(A, b)] @@ i), ra)

\* Two operands in registers: the result replaces the deeper one's register and
\* the other is freed.
TwoRegs(L, a, b, i) ==
  LET A == ToReg(L, a)  ra == InReg(L, a)
      B == ToReg(A, b)  rb == InReg(A, b)
  IN  PushReg(FreeR(Emit(B, [rd |-> ra, rn |-> ra, rm |-> rb] @@ i), rb), ra)

Both(a, b, k) == a.k = k /\ b.k = k

Bin(L, f) ==
  LET a == Nth(L.vs, 1)  b == Nth(L.vs, 0)  P == Pop(L, 2)
  IN  IF Both(a, b, "Const") THEN Push(P, Const(BinEval(f, a.v, b.v)))
      ELSE IF b.k = "Const" /\ HasImm(f, b.v) THEN ImmBinTo(P, a, f, b.v)
      ELSE IF a.k = "Const" /\ f = "Add" /\ HasImm(f, a.v) THEN ImmBinTo(P, b, f, a.v)
      ELSE TwoRegs(P, a, b, [op |-> "alu", f |-> f])

\* The one-operand forms: a constant is folded, a register combined in place.
InPlace(L, value, i) ==
  IF Top(L).k = "Const" THEN Push(Pop(L, 1), Const(value))
  ELSE Emit(L, [rd |-> Top(L).v, rn |-> Top(L).v] @@ i)

ImmBin(L, f, n) ==
  LET a == Top(L)  t == Got(L)
  IN  IF a.k = "Const" \/ ~HasImm(f, n)
      THEN IF a.k = "Const" THEN Push(Pop(L, 1), Const(BinEval(f, a.v, n)))
           ELSE FreeR(Emit(Load(L, [op |-> "movi", n |-> n]),
                           [op |-> "alu", f |-> f, rd |-> a.v, rn |-> a.v, rm |-> t]), t)
      ELSE ImmBinTo(Pop(L, 1), a, f, n)

DupBin(L, f) ==
  LET a == Top(L)
  IN  IF a.k = "Reg" /\ f \in {"Sub", "Xor"} THEN Push(FreeLoc(Pop(L, 1), a), Const(0))
      ELSE IF a.k = "Reg" /\ f \in {"And", "Or"} THEN L
      ELSE InPlace(L, BinEval(f, a.v, a.v),
                   [op |-> "alu", f |-> f, rm |-> a.v])

Shift(L, f) ==
  LET a == Nth(L.vs, 1)  b == Nth(L.vs, 0)  P == Pop(L, 2)
      n == Unsigned(b.v) % Width
  IN  IF Both(a, b, "Const") THEN Push(P, Const(ShEval(f, a.v, b.v)))
      ELSE IF b.k = "Const"
      THEN IF n = 0 THEN Push(P, a)
           ELSE PushReg(Emit(P, [op |-> "shi", f |-> f, rd |-> a.v, rn |-> a.v, n |-> n]), a.v)
      ELSE TwoRegs(P, a, b, [op |-> "sh", f |-> f])

ImmShift(L, f, n) ==
  IF n = 0 THEN L
  ELSE InPlace(L, ShEval(f, Top(L).v, n), [op |-> "shi", f |-> f, n |-> n])

DupShiftBin(L, f, sh, n) ==
  LET v == Top(L).v
  IN  InPlace(L, BinEval(f, v, ShEval(sh, v, n)), [op |-> "alush", f |-> f, sh |-> sh, n |-> n])

ImmCmp(L, a, c, n) ==
  PushReg(Emit(ToReg(L, a), [op |-> "csetmi", f |-> c, rd |-> InReg(L, a),
                             rn |-> InReg(L, a), n |-> n]), InReg(L, a))

CmpOpUnswapped(L, c) ==                                         \* (mutant)
  LET a == Nth(L.vs, 1)  b == Nth(L.vs, 0)  P == Pop(L, 2)
  IN  IF Both(a, b, "Const") THEN Push(P, Const(Flag(CmpHolds(c, a.v, b.v))))
      ELSE IF b.k = "Const" /\ b.v \in 0 .. ImmMax THEN ImmCmp(P, a, c, b.v)
      ELSE IF a.k = "Const" /\ a.v \in 0 .. ImmMax THEN ImmCmp(P, b, c, a.v)
      ELSE TwoRegs(P, a, b, [op |-> "csetm", f |-> c])

CmpOp(L, c) ==
  LET a == Nth(L.vs, 1)  b == Nth(L.vs, 0)  P == Pop(L, 2)
  IN  IF Both(a, b, "Const") THEN Push(P, Const(Flag(CmpHolds(c, a.v, b.v))))
      ELSE IF b.k = "Const" /\ b.v \in 0 .. ImmMax THEN ImmCmp(P, a, c, b.v)
      ELSE IF a.k = "Const" /\ a.v \in 0 .. ImmMax THEN ImmCmp(P, b, Swapped(c), a.v)
      ELSE TwoRegs(P, a, b, [op |-> "csetm", f |-> c])

ZCmp(L, c) == InPlace(L, Flag(CmpHolds(c, Top(L).v, 0)), [op |-> "csetmi", f |-> c, n |-> 0])

SelOp(L, s) ==
  LET a == Nth(L.vs, 1)  b == Nth(L.vs, 0)  P == Pop(L, 2)
  IN  IF Both(a, b, "Const") THEN Push(P, Const(SelEval(s, a.v, b.v)))
      ELSE TwoRegs(P, a, b, [op |-> "csel", f |-> SelCond(s)])

----------------------------------------------------------------------------
(* Memory cells and the const-address cache *)

\* A load through the address on top of the stack, which it replaces.
LoadThrough(L, i) ==
  LET a == Top(L)  P == Pop(L, 1)
  IN  PushReg(Emit(ToReg(P, a), [rd |-> InReg(P, a), rn |-> InReg(P, a)] @@ i), InReg(P, a))

CacheCell(L, a) ==      \* an address that will be fetched again
  [Emit(ToReg(L, Const(a)), [op |-> "ldr", rd |-> Got(L), rn |-> Got(L), off |-> 0])
     EXCEPT !.cells = With(@, a, Got(L))]

FetchFrom(L) ==         \* cached, hot, or plain
  LET a == Top(L)
      Copy(P) == PushCopy(P, Reg(P.cells[a.v]))
  IN  IF a.k = "Const" /\ a.v \in DOMAIN L.cells THEN Copy(Pop(L, 1))
      ELSE IF a.k = "Const" /\ <<"cell", a.v>> \in L.hot THEN Copy(CacheCell(Pop(L, 1), a.v))
      ELSE LoadThrough(L, [op |-> "ldr", off |-> 0])

FetchUnreserved(L) == FetchFrom(Ensure(L, 1))                    \* (mutant)
FetchUncopied(L0) ==                                             \* (mutant)
  LET From(L) ==
        IF Top(L).k = "Const" /\ Top(L).v \notin DOMAIN L.cells /\ <<"cell", Top(L).v>> \in L.hot
        THEN PushReg(CacheCell(Pop(L, 1), Top(L).v), Got(L)) ELSE FetchFrom(L)
  IN  From(Room(L0, 3, 1))
Fetch(L) == FetchFrom(Room(L, 3, 1))

CFetch(L) == LoadThrough(Room(L, 3, 1), [op |-> "ldrb"])

StoreAt(L, i) ==
  LET addr == Nth(L.vs, 0)  x == Nth(L.vs, 1)
      A == ToReg(Pop(L, 2), addr)  ra == InReg(Pop(L, 2), addr)
      B == ToReg(A, x)             rx == InReg(A, x)
  IN  FreeR(FreeR(Emit(B, [rn |-> ra, rm |-> rx] @@ i), rx), ra)

StoreThroughStale(L, i) == StoreAt(Room(L, 3, 2), i)             \* (mutant)
StoreThrough(L, i) == StoreAt(Ensure(ClearCells(Reserve(L, 3)), 2), i)

Store(L)  == StoreThrough(L, [op |-> "str", off |-> 0])
CStore(L) == StoreThrough(L, [op |-> "strb"])

----------------------------------------------------------------------------
(* Integer locals, instance variables, loop indices *)

LoadNew(L, i) == PushReg(Load(L, i), Got(L))
PushLoad(L, i) == LoadNew(Reserve(L, 1), i)

LocalFetchUnreserved(L, i) ==                                    \* (mutant)
  IF i \in DOMAIN L.ipins THEN PushCopy(L, Reg(L.ipins[i]))
  ELSE PushLoad(L, [op |-> "ldlp", off |-> i])

CacheLocal(L, i) ==
  PushCopy([Load(L, [op |-> "ldlp", off |-> i])
              EXCEPT !.lcache = With(@, i, [r |-> Got(L), dirty |-> FALSE])], Reg(Got(L)))

LocalFetch(L, i) ==     \* pinned, cached, hot, or plain
  IF i \in DOMAIN L.ipins THEN PushCopy(Reserve(L, 1), Reg(L.ipins[i]))
  ELSE IF i \in DOMAIN L.lcache THEN PushCopy(Reserve(L, 1), Reg(L.lcache[i].r))
  ELSE IF <<"local", i>> \in L.hot THEN CacheLocal(Reserve(L, 2), i)
  ELSE PushLoad(L, [op |-> "ldlp", off |-> i])

\* A store leaves the value in its register, dirty, and gives up the register
\* that cached the variable before.
StoredClean(r) == [r |-> r, dirty |-> FALSE]                     \* (mutant)
Stored(r) == [r |-> r, dirty |-> TRUE]
SupersededKept(cache, key, r) == {}                              \* (mutant)
Superseded(cache, key, r) == IF key \in DOMAIN cache THEN {cache[key].r} \ {r} ELSE {}

StorePinned(L, rp) ==
  LET a == Top(L)
  IN  IF a.k = "Const" THEN Emit(Pop(L, 1), [op |-> "movi", rd |-> rp, n |-> a.v])
      ELSE FreeR(Emit(Pop(L, 1), [op |-> "mov", rd |-> rp, rn |-> a.v]), a.v)

StoreCached(L, i) ==
  LET a == Top(L)  r == InReg(Pop(L, 1), a)
  IN  [ToReg(Pop(L, 1), a) EXCEPT !.lcache = With(@, i, Stored(r)),
                                  !.used = @ \ Superseded(L.lcache, i, r)]

LocalStore(L, i) ==
  IF i \in DOMAIN L.ipins THEN StorePinned(Ensure(L, 1), L.ipins[i])
  ELSE StoreCached(Room(L, 2, 1), i)

IvarFetch(L, off) ==
  LET Through(A) == Emit(A, [op |-> "ldr", rd |-> Top(A).v, rn |-> Top(A).v, off |-> off])
  IN  Through(PushLoad(L, [op |-> "ldself"]))

IvarStore(L, off) ==
  LET a == Top(L)  P == Pop(L, 1)
      A == ToReg(P, a)  rv == InReg(P, a)  rs == Got(A)
  IN  FreeR(FreeR(Emit(Load(A, [op |-> "ldself"]),
                       [op |-> "str", rn |-> rs, rm |-> rv, off |-> off]), rv), rs)

SelfPush(L) == PushLoad(L, [op |-> "ldself"])
LoopIdx(L, of) == PushLoad(L, [op |-> "ldrp", of |-> of])

----------------------------------------------------------------------------
(* The FP stack, its caches, and the settle barrier *)

FFree(L) == FPool \ L.fused
FGot(L) == IF FFree(L) = {} THEN FTOS ELSE Min(FFree(L))
FTake(L) == IF FFree(L) = {} THEN [L EXCEPT !.panic = TRUE]
            ELSE [L EXCEPT !.fused = @ \cup {FGot(L)}]
FFreeR(L, d) == [L EXCEPT !.fused = @ \ {d}]

\* gp_temp: a GP register for an address or a literal, settling the data window
\* when there is none.
GpRoom(L) == IF Free(L) = {} THEN SettleData(L) ELSE L

\* spill_fvars: the dirty fvariables, in no particular order (it drains a HashMap),
\* are stored through a temporary address register.
SpillVia(L, a) ==
  FreeR(EmitAll(Take(L), << [op |-> "movi", rd |-> Got(L), n |-> a],
                            [op |-> "fstr", rn |-> Got(L), rm |-> L.fvcache[a].r] >>), Got(L))
SpillFvar(L, a) == SpillVia(GpRoom(L), a)

SpillFvars(L) ==
  LET dirty == {a \in DOMAIN L.fvcache : L.fvcache[a].dirty}
  IN  [FoldSet(LAMBDA a, A : SpillFvar(A, a), L, dirty)
         EXCEPT !.fused = @ \ {L.fvcache[a].r : a \in DOMAIN L.fvcache}, !.fvcache = <<>>]

SpillFlocalsLost(L) ==                                           \* (mutant)
  [L EXCEPT !.fused = @ \ {L.flcache[i].r : i \in DOMAIN L.flcache}, !.flcache = <<>>]
SpillFlocals(L) ==
  [EmitAll(L, Spills(L.flcache, "fstlp"))
     EXCEPT !.fused = @ \ {L.flcache[i].r : i \in DOMAIN L.flcache}, !.flcache = <<>>]

FPullInto(L) ==
  [Emit(FTake(L), [op |-> "fldsp", rd |-> FGot(L), off |-> L.fconsumed])
     EXCEPT !.fconsumed = @ + 1, !.fvs = <<FGot(L)>> \o @]

FCanonical(L) ==
  [L EXCEPT !.fvs = <<FTOS>>, !.fused = {FTOS} \cup Range(L.fpins), !.fconsumed = 0]

FFilled(L) == IF L.fvs = <<>> THEN FPullInto(L) ELSE L
FUnwind(B) ==
  LET n == Len(B.fvs)
      delta == Delta(B.fconsumed, n)
      move == IF delta = 0 THEN <<>> ELSE << [op |-> "faddsp", n |-> delta] >>
      deep == [i \in 1 .. n - 1 |-> [op |-> "fstsp", rn |-> B.fvs[i], off |-> n - 1 - i]]
      totop == IF B.fvs[n] = FTOS THEN <<>> ELSE << [op |-> "fmov", rd |-> FTOS, rn |-> B.fvs[n]] >>
  IN  FCanonical(EmitAll(B, move \o deep \o totop))

FSettle(L) == FUnwind(FFilled(SpillFlocals(SpillFvars(L))))

Settle(L) == FSettle(SettleData(L))

\* falloc settles the FP window when the pool is dry; the register is FGot.
FRoom(L) == IF FFree(L) = {} THEN FSettle(L) ELSE L

\* falloc, then one instruction that fills the register, pushed on the FP stack.
FLoadNew(L, i) == [Emit(FTake(L), [rd |-> FGot(L)] @@ i) EXCEPT !.fvs = Append(@, FGot(L))]
FPushLoad(L, i) == FLoadNew(FRoom(L), i)

\* Every caller asks for one or two cells: two turns of fensure's loop.
FPull(L, n) == IF Len(L.fvs) < n THEN FPullInto(FRoom(L)) ELSE L
FEnsure(L, n) == FPull(FPull(L, n), n)

FTop(L) == Nth(L.fvs, 0)
FPop(L, n) == [L EXCEPT !.fvs = DropN(@, n)]

\* A literal goes through gp_temp, taken before and freed after falloc.
FLit(L, n) ==
  FreeR(FPushLoad(Load(L, [op |-> "movi", n |-> n]), [op |-> "fmovx", rn |-> Got(L)]), Got(L))

FBin(L, f) ==
  LET a == Nth(L.fvs, 1)  b == FTop(L)
  IN  FFreeR(Emit(FPop(L, 1), [op |-> "falu", f |-> f, rd |-> a, rn |-> a, rm |-> b]), b)

FUn(L) == Emit(L, [op |-> "fneg", rd |-> FTop(L), rn |-> FTop(L)])

\* The flag of an FP comparison, in a fresh GP register on the data stack.
FCmpOp(L, c) ==
  LET a == Nth(L.fvs, 1)  b == FTop(L)
  IN  LoadNew(FFreeR(FFreeR(FPop(L, 2), a), b), [op |-> "fcset", f |-> c, rn |-> a, rm |-> b])

FZCmp(L, c) ==
  LET a == FTop(L)
  IN  LoadNew(FFreeR(FPop(L, 1), a), [op |-> "fcsetz", f |-> c, rn |-> a])

FStk(L, m) ==
  CASE m = "Dup"  -> FPushLoad(L, [op |-> "fmov", rn |-> FTop(L)])
    [] m = "Drop" -> FFreeR(FPop(L, 1), FTop(L))
    [] m = "Swap" -> [L EXCEPT !.fvs = Motion("Swap", @)]
    [] m = "Over" -> FPushLoad(L, [op |-> "fmov", rn |-> Nth(L.fvs, 1)])

\* falloc, load and cache; then falloc and copy the cached register.
LoadHot(L, i) ==
  LET entry == [r |-> FGot(L), dirty |-> FALSE]
      A == [Emit(FTake(L), [op |-> "fldlp", rd |-> FGot(L), off |-> i])
              EXCEPT !.flcache = With(@, i, entry)]
  IN  FPushLoad(A, [op |-> "fmov", rn |-> FGot(L)])

LocalFFetch(L, i) ==
  IF i \in DOMAIN L.fpins THEN FPushLoad(L, [op |-> "fmov", rn |-> L.fpins[i]])
  ELSE IF i \in DOMAIN L.flcache THEN FPushLoad(L, [op |-> "fmov", rn |-> L.flcache[i].r])
  ELSE IF <<"flocal", i>> \in L.hot THEN LoadHot(FRoom(L), i)
  ELSE FPushLoad(L, [op |-> "fldlp", off |-> i])

LocalFStore(L, i) ==
  LET d == FTop(L)
  IN  IF i \in DOMAIN L.fpins
      THEN FFreeR(Emit(FPop(L, 1), [op |-> "fmov", rd |-> L.fpins[i], rn |-> d]), d)
      ELSE [FPop(L, 1) EXCEPT !.flcache = With(@, i, Stored(d)),
                              !.fused = @ \ Superseded(L.flcache, i, d)]

\* ffetch_addr: the load goes through gp_temp g, freed after falloc.
FCacheVar(L, a, g) ==
  LET entry == [r |-> FGot(L), dirty |-> FALSE]
      A == Emit(FTake(L), [op |-> "fldr", rd |-> FGot(L), rn |-> g])
  IN  FPushLoad([FreeR(A, g) EXCEPT !.fvcache = With(@, a, entry)], [op |-> "fmov", rn |-> FGot(L)])

FLoadVia(L, a) ==
  LET A == Load(L, [op |-> "movi", n |-> a])
  IN  IF <<"fvar", a>> \in L.hot THEN FCacheVar(FRoom(A), a, Got(L))
      ELSE FreeR(FPushLoad(A, [op |-> "fldr", rn |-> Got(L)]), Got(L))

FFetchAddr(L, a) ==
  IF a \in DOMAIN L.fvcache THEN FPushLoad(L, [op |-> "fmov", rn |-> L.fvcache[a].r])
  ELSE FLoadVia(GpRoom(L), a)

FFetch(L) ==
  LET a == Top(L)  P == Pop(L, 1)
  IN  IF a.k = "Const" THEN FFetchAddr(P, a.v)
      ELSE FreeR(FPushLoad(P, [op |-> "fldr", rn |-> a.v]), a.v)

FStoreTo(L, a) ==
  LET d == FTop(L)  P == FPop(L, 1)
  IN  IF a.k = "Const"
      THEN [P EXCEPT !.fvcache = With(@, a.v, Stored(d)),
                     !.fused = @ \ Superseded(L.fvcache, a.v, d)]
      ELSE FFreeR(FreeR(Emit(P, [op |-> "fstr", rn |-> a.v, rm |-> d]), a.v), d)
FStore(L) == FStoreTo(FEnsure(Pop(L, 1), 1), Top(L))

----------------------------------------------------------------------------
(* Nested locals frames, calls, and the dispatch of `lower` *)

\* Pop the inputs into the new frame, the rightmost (the top) first.
PopInput(i) ==
  IF i \in FloatLocals
  THEN << [op |-> "fstlp", rn |-> FTOS, off |-> i], [op |-> "fldsp", rd |-> FTOS, off |-> 0],
          [op |-> "faddsp", n |-> 1] >>
  ELSE << [op |-> "stlp", rn |-> TOS, off |-> i], [op |-> "ldsp", rd |-> TOS, off |-> 0],
          [op |-> "addsp", n |-> 1] >>

OpenLocals(L, total, inputs) ==
  EmitAll(Settle(L), << [op |-> "addlp", n |-> -total] >>
                     \o FlattenSeq([k \in 1 .. inputs |-> PopInput(inputs - k)]))

CloseLocalsCached(L, total) == Emit(L, [op |-> "addlp", n |-> total])  \* (mutant)
CloseLocals(L, total) ==
  [Emit(L, [op |-> "addlp", n |-> total]) EXCEPT
     !.used = @ \ {L.lcache[i].r : i \in DOMAIN L.lcache}, !.lcache = <<>>,
     !.fused = @ \ {L.flcache[i].r : i \in DOMAIN L.flcache}, !.flcache = <<>>]

Call(L) == Emit(Settle(L), [op |-> "call"])

\* The tokens there are (enum Tok), as far as the lowerer tells them apart.
TokOps == {"Lit", "Bin", "ImmBin", "DupBin", "Shift", "ImmShift", "DupShiftBin", "Cmp", "ZCmp", "Sel",
           "Stk", "PickN", "RollN", "Fetch", "CFetch", "Store", "CStore", "LocalFetch", "LocalStore",
           "LocalFFetch", "LocalFStore", "OpenLocals", "CloseLocals", "IvarFetch", "IvarStore",
           "SelfPush", "LoopIdx", "FLit", "FBin", "FUn", "FStk", "FCmp", "FZCmp", "FFetch", "FStore", "Call"}
IsTok(t) ==
  /\ t.op \in TokOps
  /\ t.op \in {"PickN", "RollN"} => t.n \in Nat
  /\ t.op = "Stk" => t.m \in {"Dup", "Drop", "Swap", "Over", "Nip", "Rot", "MinusRot", "Tuck"}
  /\ t.op = "FStk" => t.m \in {"Dup", "Drop", "Swap", "Over"}

\* The match in `lower`: one token to the method that lowers it.
LowerTok(L, t) ==
  CASE t.op = "Lit"         -> Push(L, Const(t.n))
    [] t.op = "Bin"         -> Bin(Room(L, 4, 2), t.f)
    [] t.op = "ImmBin"      -> ImmBin(Room(L, 2, 1), t.f, t.n)
    [] t.op = "DupBin"      -> DupBin(Room(L, 2, 1), t.f)
    [] t.op = "Shift"       -> Shift(Room(L, 3, 2), t.f)
    [] t.op = "ImmShift"    -> ImmShift(Room(L, 1, 1), t.f, t.n)
    [] t.op = "DupShiftBin" -> DupShiftBin(Room(L, 1, 1), t.f, t.sh, t.n)
    [] t.op = "Cmp"         -> CmpOp(Room(L, 4, 2), t.f)
    [] t.op = "ZCmp"        -> ZCmp(Room(L, 4, 1), t.f)
    [] t.op = "Sel"         -> SelOp(Room(L, 3, 2), t.f)
    [] t.op = "Stk"         -> Stk(L, t.m)
    [] t.op = "PickN"       -> PickN(L, t.n)
    [] t.op = "RollN"       -> RollN(L, t.n)
    [] t.op = "Fetch"       -> Fetch(L)
    [] t.op = "CFetch"      -> CFetch(L)
    [] t.op = "Store"       -> Store(L)
    [] t.op = "CStore"      -> CStore(L)
    [] t.op = "LocalFetch"  -> LocalFetch(L, t.i)
    [] t.op = "LocalStore"  -> LocalStore(L, t.i)
    [] t.op = "LocalFFetch" -> LocalFFetch(L, t.i)
    [] t.op = "LocalFStore" -> LocalFStore(FEnsure(L, 1), t.i)
    [] t.op = "OpenLocals"  -> OpenLocals(L, t.total, t.inputs)
    [] t.op = "CloseLocals" -> CloseLocals(L, t.total)
    [] t.op = "IvarFetch"   -> IvarFetch(L, t.off)
    [] t.op = "IvarStore"   -> IvarStore(Room(L, 2, 1), t.off)
    [] t.op = "SelfPush"    -> SelfPush(L)
    [] t.op = "LoopIdx"     -> LoopIdx(L, t.of)
    [] t.op = "FLit"        -> FLit(GpRoom(L), t.n)
    [] t.op = "FBin"        -> FBin(FEnsure(L, 2), t.f)
    [] t.op = "FUn"         -> FUn(FEnsure(L, 1))
    [] t.op = "FStk"        -> FStk(FEnsure(L, MotionNeeds(t.m)), t.m)
    [] t.op = "FCmp"        -> FCmpOp(FEnsure(Reserve(L, 1), 2), t.f)
    [] t.op = "FZCmp"       -> FZCmp(FEnsure(Reserve(L, 1), 1), t.f)
    [] t.op = "FFetch"      -> FFetch(Ensure(L, 1))
    [] t.op = "FStore"      -> FStore(Ensure(L, 1))
    [] t.op = "Call"        -> Call(L)
    [] t.op = "EndRun"      -> Settle(L)
=============================================================================
