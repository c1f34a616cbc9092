------------------------------- MODULE Lower -------------------------------
(***************************************************************************)
(* The lowerer at work (`lower`, src/opt.rs): the tokens of straight-line  *)
(* runs arrive one by one, the lowerer's state changes, and the code it    *)
(* emits for each is executed by the machine.  Since a run has no branch,  *)
(* executing the code as it is emitted is executing the finished run.      *)
(***************************************************************************)
EXTENDS Lowering

CONSTANTS
  Init0,      \* the Forth state in which the definition is entered
  Programs,   \* the kinds of definition: records of
              \*   toks          the tokens it is made of
              \*   hot           the <<kind, key>> reads that may be hot in a run
              \*   ipins, fpins  locals pinned to registers: local -> register
              \*   steps         bound: the tokens of the definition
  MaxDepth    \* bound: cells on either stack, the guard cell included

\* The session pins each local to a pool register of its own.
ASSUME ProgramsAssumption ==
  \A p \in Programs :
    /\ \A t \in p.toks : IsTok(t)
    /\ IsInjective(p.ipins) /\ Range(p.ipins) \subseteq Pool
    /\ IsInjective(p.fpins) /\ Range(p.fpins) \subseteq FPool

\* The session leaves room in the pools: of 7 registers at most 2 are pinned ("leave
\* x9-x13 for the data stack", scan_loop_pins) and at most 4 of the 7 for floats; a
\* literal index of `pick` and `roll` is at most 6, and neither word occurs in a
\* loop that pins anything (pin_safety).
Unpinned(p) == Pool \ Range(p.ipins)
ASSUME RoomAssumption ==
  /\ IsFiniteSet(Pool)
  /\ \A p \in Programs :
       /\ Cardinality(Unpinned(p)) >= 2 /\ FPool \ Range(p.fpins) # {}
       /\ \A t \in p.toks :
            /\ t.op = "PickN" => t.n + 1 <= Cardinality(Unpinned(p))
            /\ t.op = "RollN" => t.n <= Cardinality(Unpinned(p))

VARIABLES
  prog,   \* the kind of definition this is
  low,    \* struct Low
  mach,   \* the machine
  tok,    \* the token lowered last
  reads,  \* how often each countable read has occurred in this run (0, 1, 2+)
  nest,   \* the totals of the frames opened and not yet closed in this run
  steps   \* how many tokens have been lowered

vars == <<prog, low, mach, tok, reads, nest, steps>>

Run == [op |-> "EndRun"]
Slots == 0 .. MaxDepth      \* stack memory, lowest address first

\* Memory holding sequence s (guard cell at the highest address) below its top.
Stacked(s) == [j \in Slots |-> IF MaxDepth - j + 1 < Len(s) THEN s[MaxDepth - j + 1] ELSE Trash]

Above == prog.steps * Len(Init0.loc)          \* room for nested frames
Frame == 0 .. Above + Len(Init0.loc) - 1    \* the locals stack

Entry ==
  [ x |-> [r \in {TOS} \cup Pool |->
             IF r = TOS THEN Last(Init0.ds)
             ELSE IF \E i \in DOMAIN prog.ipins : prog.ipins[i] = r
             THEN Init0.loc[(CHOOSE i \in DOMAIN prog.ipins : prog.ipins[i] = r) + 1]
             ELSE Trash],
    d |-> [r \in {FTOS} \cup FPool |->
             IF r = FTOS THEN Last(Init0.fs)
             ELSE IF \E i \in DOMAIN prog.fpins : prog.fpins[i] = r
             THEN Init0.loc[(CHOOSE i \in DOMAIN prog.fpins : prog.fpins[i] = r) + 1]
             ELSE Trash],
    stk |-> Stacked(Init0.ds), dsp |-> MaxDepth + 2 - Len(Init0.ds),
    fstk |-> Stacked(Init0.fs), fsp |-> MaxDepth + 2 - Len(Init0.fs),
    lm |-> [j \in Frame |-> IF j < Above THEN Trash ELSE Init0.loc[j - Above + 1]],
    lp |-> Above, cell |-> Init0.cell, fault |-> FALSE ]

----------------------------------------------------------------------------
(* The Forth state the lowerer and the machine represent together *)

LocValue(a) == IF a.k = "Const" THEN a.v ELSE mach.x[a.v]

\* The cells still in memory, deepest first: those from sp + consumed up.
InMemory(mem, sp) == [k \in 1 .. MaxDepth - sp + 1 |-> mem[MaxDepth - k + 1]]

LocalValue(i) ==
  IF i \in DOMAIN low.ipins THEN mach.x[low.ipins[i]]
  ELSE IF i \in DOMAIN low.fpins THEN mach.d[low.fpins[i]]
  ELSE IF i \in DOMAIN low.lcache THEN mach.x[low.lcache[i].r]
  ELSE IF i \in DOMAIN low.flcache THEN mach.d[low.flcache[i].r]
  ELSE mach.lm[mach.lp + i]

CellValue(a) == IF a \in DOMAIN low.fvcache THEN mach.d[low.fvcache[a].r] ELSE mach.cell[a]

FrameSize == FoldLeft(+, Len(Init0.loc), nest)

Forth ==
  [ ds |-> InMemory(mach.stk, mach.dsp + low.consumed)
             \o [k \in 1 .. Len(low.vs) |-> LocValue(low.vs[k])],
    fs |-> InMemory(mach.fstk, mach.fsp + low.fconsumed)
             \o [k \in 1 .. Len(low.fvs) |-> mach.d[low.fvs[k]]],
    cell |-> [a \in Addr |-> CellValue(a)],
    loc |-> [k \in 1 .. FrameSize |-> LocalValue(k - 1)] ]

----------------------------------------------------------------------------
(* Behaviour *)

\* The read that token t is to the pre-scan: a local, or the fetch of the
\* address a literal token has just pushed.
ReadOf(t) ==
  CASE t.op = "LocalFetch"  -> {<<"local", t.i>>}
    [] t.op = "LocalFFetch" -> {<<"flocal", t.i>>}
    [] t.op = "Fetch" /\ tok.op = "Lit"  -> {<<"cell", tok.n>>}
    [] t.op = "FFetch" /\ tok.op = "Lit" -> {<<"fvar", tok.n>>}
    [] OTHER -> {}

Keys == {"local", "flocal"} \X (0 .. Len(Init0.loc) + 2) \cup {"cell", "fvar"} \X Addr
NoReads == [k \in Keys |-> 0]

\* The hot set was computed from the whole run: a read that is not in it
\* occurs at most once, and one that is in it twice or more.
Foreseen(t) == \A k \in ReadOf(t) : k \notin low.hot => reads[k] = 0
RunComplete == \A k \in low.hot : reads[k] = 2

Balanced(t) == t.op = "CloseLocals" => nest # <<>> /\ Last(nest) = t.total

Init ==
  /\ prog \in Programs
  /\ low \in {NewLow(hot, prog.ipins, prog.fpins) : hot \in SUBSET prog.hot}
  /\ mach = Entry
  /\ tok = Run
  /\ reads = NoReads
  /\ nest = <<>>
  /\ steps = 0

Produces(L) == mach' = IF L.panic THEN mach ELSE ExecAll(mach, L.out)

Lower(t) ==
  /\ ~low.panic
  /\ steps < prog.steps
  /\ Enabled(Forth, t)
  /\ Len(Forth.ds) + (IF t.op = "FFetch" THEN 0 ELSE 1) <= MaxDepth
  /\ Len(Forth.fs) + 1 <= MaxDepth
  /\ Foreseen(t)
  /\ Balanced(t)
  /\ \E L \in {LowerTok(low, t)} : low' = [L EXCEPT !.out = <<>>] /\ Produces(L)
  /\ tok' = t
  /\ reads' = [k \in Keys |-> IF k \in ReadOf(t) /\ reads[k] < 2 THEN reads[k] + 1 ELSE reads[k]]
  /\ nest' = CASE t.op = "OpenLocals"  -> Append(nest, t.total)
               [] t.op = "CloseLocals" -> DropN(nest, 1)
               [] OTHER -> nest
  /\ steps' = steps + 1
  /\ UNCHANGED prog

\* The end of the run: settle, and the next run starts with its own hot set.
FinishRun ==
  /\ ~low.panic
  /\ steps < prog.steps
  /\ tok # Run
  /\ RunComplete
  /\ nest = <<>>
  /\ \E L \in {Settle(low)} :
         /\ IF L.panic THEN low' = [L EXCEPT !.out = <<>>]
            ELSE \E hot \in SUBSET prog.hot : low' = NewLow(hot, prog.ipins, prog.fpins)
         /\ Produces(L)
  /\ tok' = Run
  /\ reads' = NoReads
  /\ steps' = steps + 1
  /\ UNCHANGED <<prog, nest>>

Next == (\E t \in prog.toks : Lower(t)) \/ FinishRun

Spec == Init /\ [][Next]_vars

----------------------------------------------------------------------------
(* Properties *)

Locs == [k : {"Reg"}, v : {TOS} \cup Pool] \cup [k : {"Const"}, v : Cell]
Caching(cache, regs) == \A k \in DOMAIN cache : cache[k].r \in regs /\ cache[k].dirty \in BOOLEAN

\* The types of the lowerer's state; emitted code never leaves the memories it
\* may touch (no access outside the cells, stack pointers inside the stacks).
TypeOK ==
  /\ low.vs \in Seq(Locs)
  /\ low.fvs \in Seq({FTOS} \cup FPool)
  /\ low.used \subseteq {TOS} \cup Pool
  /\ low.fused \subseteq {FTOS} \cup FPool
  /\ Caching(low.lcache, {TOS} \cup Pool) /\ Caching(low.flcache, {FTOS} \cup FPool)
  /\ Caching(low.fvcache, {FTOS} \cup FPool)
  /\ mach.dsp \in 0 .. MaxDepth + 1 /\ mach.fsp \in 0 .. MaxDepth + 1
  /\ ~mach.fault

\* Who holds which register: <<holder, its key>> -> register.
GpHeld(L) ==
  [h \in ({"window"} \X {k \in DOMAIN L.vs : L.vs[k].k = "Reg"}) \cup ({"pin"} \X DOMAIN L.ipins)
           \cup ({"local"} \X DOMAIN L.lcache) \cup ({"cell"} \X DOMAIN L.cells) |->
     CASE h[1] = "window" -> L.vs[h[2]].v
       [] h[1] = "pin"    -> L.ipins[h[2]]
       [] h[1] = "local"  -> L.lcache[h[2]].r
       [] h[1] = "cell"   -> L.cells[h[2]]]
FpHeld(L) ==
  [h \in ({"window"} \X DOMAIN L.fvs) \cup ({"pin"} \X DOMAIN L.fpins)
           \cup ({"flocal"} \X DOMAIN L.flcache) \cup ({"fvar"} \X DOMAIN L.fvcache) |->
     CASE h[1] = "window" -> L.fvs[h[2]]
       [] h[1] = "pin"    -> L.fpins[h[2]]
       [] h[1] = "flocal" -> L.flcache[h[2]].r
       [] h[1] = "fvar"   -> L.fvcache[h[2]].r]

\* "each register is referenced by at most one vs entry" (opt.rs, struct Low), and
\* more: no two entries of the window, the caches and the pins share a register, and
\* the pool registers marked used are exactly those somebody holds, so none leaks.
\* (The mark of x0 and d8, which are in no pool, is never looked at.)
Exclusive(held, used, pool) == IsInjective(held) /\ Range(held) \cap pool = used \cap pool
RegistersExclusive ==
  ~low.panic => Exclusive(GpHeld(low), low.used, Pool) /\ Exclusive(FpHeld(low), low.fused, FPool)

\* alloc, gp_temp and falloc always find a register ("Ensure `n` free pool
\* registers ... so later allocs never settle", reserve): compiling never panics.
AllocationSucceeds == ~low.panic

\* The one way to a panic: `nip` and `-rot` pull what the window lacks without a
\* reserve before, and the caches hold the registers.
DryMotion ==
  /\ tok'.op = "Stk" /\ tok'.m \in {"Nip", "MinusRot"}
  /\ Len(low.vs) + Cardinality(Free(low)) < MotionNeeds(tok'.m)

\* Clean copies that differ from memory: the const-address cache, and the locals
\* and fvariables that were loaded and not stored since.
StaleKeys ==
  {<<"cell", a>> : a \in {b \in DOMAIN low.cells : mach.x[low.cells[b]] # mach.cell[b]}}
  \cup {<<"local", i>> : i \in {j \in DOMAIN low.lcache :
         ~low.lcache[j].dirty /\ mach.x[low.lcache[j].r] # mach.lm[mach.lp + j]}}
  \cup {<<"flocal", i>> : i \in {j \in DOMAIN low.flcache :
         ~low.flcache[j].dirty /\ mach.d[low.flcache[j].r] # mach.lm[mach.lp + j]}}
  \cup {<<"fvar", a>> : a \in {b \in DOMAIN low.fvcache :
         ~low.fvcache[b].dirty /\ mach.d[low.fvcache[b].r] # mach.cell[b]}}

\* The lowered code does to the stacks, the cells and the locals what the tokens
\* mean, whatever is still deferred in the window and the caches.
Machine == INSTANCE ForthMachine WITH st <- Forth
Implements == Machine!Spec

\* Three gaps in the above.  A read that settles the window because the pool is
\* dry, after it has chosen the register to copy from: a cached local or
\* fvariable, and fover.
DryRead ==
  \/ /\ tok'.op = "LocalFetch" /\ tok'.i \in DOMAIN low.lcache /\ Free(low) = {}
  \/ /\ FFree(low) = {}
     /\ \/ tok' = [op |-> "FStk", m |-> "Over"]
        \/ tok'.op = "LocalFFetch" /\ tok'.i \in DOMAIN low.flcache
        \/ /\ tok'.op = "FFetch" /\ low.vs # <<>>
           /\ Top(low).k = "Const" /\ Top(low).v \in DOMAIN low.fvcache

\* An access that reaches a cached fvariable's address by another way than f@ and
\* f! on the literal address.
AliasedAccess ==
  \/ /\ tok'.op \in {"Fetch", "CFetch", "Store", "CStore"}
     /\ Nth(Forth.ds, 0) \in DOMAIN low.fvcache
  \/ /\ tok'.op \in {"FFetch", "FStore"}
     /\ low.vs = <<>> \/ Top(low).k = "Reg"
     /\ Nth(Forth.ds, 0) \in DOMAIN low.fvcache
  \/ tok'.op \in {"IvarFetch", "IvarStore"} /\ Self + tok'.off \in DOMAIN low.fvcache

\* And a copy that such a write left stale: a cached cell that is read, a cached
\* fvariable that is dropped, by which memory's value comes back.
StaleCopy ==
  \/ /\ tok'.op = "Fetch" /\ low.vs # <<>> /\ Top(low).k = "Const"
     /\ <<"cell", Top(low).v>> \in StaleKeys
  \/ \E a \in Addr : <<"fvar", a>> \in StaleKeys \ StaleKeys'

\* Writes to address a that do not drop the cached cells, as `!` and `c!` do: an
\* instance variable's, f!, and a deferred f! that is stored at last.
BehindCells(a) ==
  \/ tok'.op = "IvarStore" /\ Self + tok'.off = a
  \/ tok'.op = "FStore" /\ Nth(Forth.ds, 0) = a
  \/ a \in DOMAIN low.fvcache /\ low.fvcache[a].dirty

\* No copy of a local goes stale, a copy of a cell only by one of those writes and
\* a copy of an fvariable only by an aliased one ("conservative: any cell store
\* may alias cached @ values", src/opt.rs).
CachesCoherent ==
  [][\A k \in StaleKeys' \ StaleKeys :
       \/ k[1] = "cell" /\ BehindCells(k[2])
       \/ k[1] = "fvar" /\ AliasedAccess]_vars

\* Apart from those, the lowered code does what the tokens mean: nothing else
\* the lowerer does under register pressure changes a token's effect.  Nor does
\* it touch anything but the cells, the stacks and the frames.
ImplementsExceptGaps ==
  Machine!Init
  /\ [][TypeOK' /\ (DryRead \/ AliasedAccess \/ StaleCopy \/ Machine!Next)]_<<Forth, tok>>
=============================================================================
