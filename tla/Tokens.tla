------------------------------- MODULE Tokens ----------------------------
(***************************************************************************)
(* What a token of the compiler's IR (`enum Tok`, src/opt.rs) means: its   *)
(* effect on the two Forth stacks, the memory cells and the locals frame,  *)
(* with no registers, windows or caches.  A state is a record              *)
(* [ds, fs, cell, loc]: the data stack, the FP stack, the memory cells and *)
(* the local slots from the locals pointer up.                             *)
(*                                                                         *)
(* Stacks are sequences with the top last.  The first cell of each is the  *)
(* guard cell at the stack's base: canonical form always keeps a top of    *)
(* stack in a register, so that cell is moved about but never consumed.    *)
(***************************************************************************)
EXTENDS Words, FiniteSets, Sequences, SequencesExt

CONSTANTS
  Toks,        \* the tokens a run may contain
  Addr,        \* the addresses of memory cells (a subset of Cell)
  Self,        \* the receiver's address, user_SELF (ivars are at Self + off)
  Index,       \* [i |-> the inner do-loop index, j |-> the outer one]
  FloatLocals  \* the indices of the locals declared as floats

ASSUME AddrAssumption == Addr \subseteq Cell

EndRun == [op |-> "EndRun"]   \* the end of a straight-line run: no effect
DropN(s, n) == SubSeq(s, 1, Len(s) - n)
Nth(s, n) == s[Len(s) - n]    \* the item at depth n, 0 = the top
Low(n) == n % 2               \* the low byte of a cell (one bit of a model's cell)

\* A word called through the settle barrier: it sees the canonical stacks and
\* memory, and here it changes all of them.
Callee(s) ==
  [s EXCEPT !.ds = Append(DropN(@, 1), Wrap(Nth(@, 0) + 1)),
            !.fs = Append(DropN(@, 1), Wrap(Nth(@, 0) + 1)),
            !.cell = [a \in Addr |-> Wrap(@[a] + 1)]]

\* The stack motions of enum Stk, as a permutation or copy of the top items.
Motion(m, s) ==
  LET a == Nth(s, 0)  b == Nth(s, 1)  c == Nth(s, 2)
  IN  CASE m = "Dup"  -> Append(s, a)
        [] m = "Drop" -> DropN(s, 1)
        [] m = "Swap" -> DropN(s, 2) \o <<a, b>>
        [] m = "Over" -> Append(s, b)
        [] m = "Nip"  -> DropN(s, 2) \o <<a>>
        [] m = "Rot"  -> DropN(s, 3) \o <<b, a, c>>
        [] m = "MinusRot" -> DropN(s, 3) \o <<a, c, b>>
        [] m = "Tuck" -> DropN(s, 2) \o <<a, b, a>>

MotionNeeds(m) == CASE m \in {"Dup", "Drop"} -> 1
                    [] m \in {"Swap", "Over", "Nip", "Tuck"} -> 2
                    [] m \in {"Rot", "MinusRot"} -> 3

\* How many cells of each stack a token consumes or looks at.
Needs(t) ==
  CASE t.op \in {"Bin", "Shift", "Cmp", "Sel", "Store", "CStore"} -> 2
    [] t.op \in {"ImmBin", "DupBin", "ImmShift", "DupShiftBin", "ZCmp", "Fetch",
                 "CFetch", "LocalStore", "IvarStore", "FFetch", "FStore", "Call"} -> 1
    [] t.op = "Stk" -> MotionNeeds(t.m)
    [] t.op \in {"PickN", "RollN"} -> t.n + 1
    [] t.op = "OpenLocals" -> Cardinality(0 .. t.inputs - 1 \ FloatLocals)
    [] OTHER -> 0

FNeeds(t) ==
  CASE t.op \in {"FBin", "FCmp"} -> 2
    [] t.op \in {"FUn", "FZCmp", "FStore", "LocalFStore", "Call"} -> 1
    [] t.op = "FStk" -> MotionNeeds(t.m)
    [] t.op = "OpenLocals" -> t.inputs - Needs(t)
    [] OTHER -> 0

\* A program that keeps its stacks balanced and its addresses valid.
Enabled(s, t) ==
  /\ Len(s.ds) > Needs(t)
  /\ Len(s.fs) > FNeeds(t)
  /\ t.op \in {"Fetch", "CFetch", "Store", "CStore", "FFetch", "FStore"} => Nth(s.ds, 0) \in Addr
  /\ t.op \in {"LocalFetch", "LocalStore", "LocalFFetch", "LocalFStore"} => t.i < Len(s.loc)
  /\ t.op = "CloseLocals" => Len(s.loc) >= t.total

\* The data stack after a token, where it depends on the data stack alone.
DataAfter(s, t) ==
  LET a == Nth(s, 1)  b == Nth(s, 0)
  IN  CASE t.op = "Lit"         -> Append(s, t.n)
        [] t.op = "Bin"         -> Append(DropN(s, 2), BinEval(t.f, a, b))
        [] t.op = "ImmBin"      -> Append(DropN(s, 1), BinEval(t.f, b, t.n))
        [] t.op = "DupBin"      -> Append(DropN(s, 1), BinEval(t.f, b, b))
        [] t.op = "Shift"       -> Append(DropN(s, 2), ShEval(t.f, a, b))
        [] t.op = "ImmShift"    -> Append(DropN(s, 1), ShEval(t.f, b, t.n))
        [] t.op = "DupShiftBin" -> Append(DropN(s, 1), BinEval(t.f, b, ShEval(t.sh, b, t.n)))
        [] t.op = "Cmp"         -> Append(DropN(s, 2), Flag(CmpHolds(t.f, a, b)))
        [] t.op = "ZCmp"        -> Append(DropN(s, 1), Flag(CmpHolds(t.f, b, 0)))
        [] t.op = "Sel"         -> Append(DropN(s, 2), SelEval(t.f, a, b))
        [] t.op = "Stk"         -> Motion(t.m, s)
        [] t.op = "PickN"       -> Append(s, Nth(s, t.n))
        [] t.op = "RollN"       -> Append(RemoveAt(s, Len(s) - t.n), Nth(s, t.n))
        [] t.op = "SelfPush"    -> Append(s, Self)
        [] t.op = "LoopIdx"     -> Append(s, Index[t.of])

\* The same for the FP stack.
FloatAfter(s, t) ==
  LET a == Nth(s, 1)  b == Nth(s, 0)
  IN  CASE t.op = "FLit" -> Append(s, t.n)
        [] t.op = "FBin" -> Append(DropN(s, 2), BinEval(t.f, a, b))
        [] t.op = "FUn"  -> Append(DropN(s, 1), Wrap(-b))
        [] t.op = "FStk" -> Motion(t.m, s)

\* The input locals of a frame: the rightmost is the top of its stack.
Inputs(s, t) ==
  [k \in 1 .. t.inputs |->
     LET float == k - 1 \in FloatLocals
         later == {j \in k .. t.inputs - 1 : (j \in FloatLocals) = float}
     IN  Nth(IF float THEN s.fs ELSE s.ds, Cardinality(later))]

\* The state after token t; junk fills the uninitialised locals of a new frame.
After(s, t, junk) ==
  LET a == Nth(s.ds, 0)
  IN
  CASE t.op = "Fetch"  -> [s EXCEPT !.ds = Append(DropN(@, 1), s.cell[a])]
    [] t.op = "CFetch" -> [s EXCEPT !.ds = Append(DropN(@, 1), Low(s.cell[a]))]
    [] t.op = "Store"  -> [s EXCEPT !.ds = DropN(@, 2), !.cell[a] = Nth(s.ds, 1)]
    [] t.op = "CStore" -> [s EXCEPT !.ds = DropN(@, 2),
                                    !.cell[a] = @ - Low(@) + Low(Nth(s.ds, 1))]
    [] t.op = "LocalFetch"  -> [s EXCEPT !.ds = Append(@, s.loc[t.i + 1])]
    [] t.op = "LocalStore"  -> [s EXCEPT !.ds = DropN(@, 1), !.loc[t.i + 1] = a]
    [] t.op = "LocalFFetch" -> [s EXCEPT !.fs = Append(@, s.loc[t.i + 1])]
    [] t.op = "LocalFStore" -> [s EXCEPT !.fs = DropN(@, 1), !.loc[t.i + 1] = Nth(s.fs, 0)]
    [] t.op = "OpenLocals"  -> [s EXCEPT !.ds = DropN(@, Needs(t)), !.fs = DropN(@, FNeeds(t)),
                                         !.loc = Inputs(s, t) \o junk \o @]
    [] t.op = "CloseLocals" -> [s EXCEPT !.loc = SubSeq(@, t.total + 1, Len(@))]
    [] t.op = "IvarFetch"   -> [s EXCEPT !.ds = Append(@, s.cell[Self + t.off])]
    [] t.op = "IvarStore"   -> [s EXCEPT !.ds = DropN(@, 1), !.cell[Self + t.off] = a]
    [] t.op = "FFetch" -> [s EXCEPT !.ds = DropN(@, 1), !.fs = Append(@, s.cell[a])]
    [] t.op = "FStore" -> [s EXCEPT !.ds = DropN(@, 1), !.fs = DropN(@, 1),
                                    !.cell[a] = Nth(s.fs, 0)]
    [] t.op = "FCmp"   -> [s EXCEPT !.fs = DropN(@, 2),
                             !.ds = Append(@, Flag(FCmpHolds(t.f, Nth(s.fs, 1), Nth(s.fs, 0))))]
    [] t.op = "FZCmp"  -> [s EXCEPT !.fs = DropN(@, 1),
                             !.ds = Append(@, Flag(FCmpHolds(t.f, Nth(s.fs, 0), 0)))]
    [] t.op = "Call"   -> Callee(s)
    [] t.op = "EndRun" -> s
    [] t.op \in {"FLit", "FBin", "FUn", "FStk"} -> [s EXCEPT !.fs = FloatAfter(@, t)]
    [] OTHER -> [s EXCEPT !.ds = DataAfter(@, t)]

Junk(t) == IF t.op = "OpenLocals" THEN [1 .. t.total - t.inputs -> Cell] ELSE {<<>>}
=============================================================================
