------------------------------ MODULE MCLower ------------------------------
(***************************************************************************)
(* Instances of Lower for TLC: the token alphabets and the entry states.   *)
(***************************************************************************)
EXTENDS Lower

Lits(S) == {[op |-> "Lit", n |-> n] : n \in S}
Ops(op, fs) == {[op |-> op, f |-> f] : f \in fs}
Stks(ms) == {[op |-> "Stk", m |-> m] : m \in ms}
FStks(ms) == {[op |-> "FStk", m |-> m] : m \in ms}
Plain(ops) == {[op |-> o] : o \in ops}
Locals(op, is) == {[op |-> op, i |-> i] : i \in is}

MCIndex == [i |-> 2, j |-> -3]
NoPins == <<>>

MCEntry == [ds |-> <<-4, 1, 2, 3>>, fs |-> <<-4, -1>>, cell |-> [a \in Addr |-> a - 2],
            loc |-> <<-3, -2>>]

StackToks == Lits({1, 2}) \cup Stks({"Dup", "Drop", "Swap", "Over", "Nip", "Rot", "MinusRot", "Tuck"})
  \cup Ops("Bin", {"Sub", "Mul"}) \cup Ops("Cmp", {"Lt"}) \cup Plain({"Call"})
  \cup {[op |-> "PickN", n |-> 2], [op |-> "RollN", n |-> 3]}

LocalToks == Lits({2}) \cup Locals("LocalFetch", {0, 1}) \cup Locals("LocalStore", {0, 1})
  \cup Stks({"Dup", "Drop"}) \cup Ops("Bin", {"Sub"}) \cup Plain({"Call"})
  \cup {[op |-> "IvarFetch", off |-> 1],
        [op |-> "OpenLocals", total |-> 2, inputs |-> 1], [op |-> "CloseLocals", total |-> 2]}
LocalHot == {<<"local", 0>>}

CellToks == Lits({0, 1}) \cup Plain({"Fetch", "Store", "CStore", "Call"})
  \cup Stks({"Swap", "Drop"}) \cup {[op |-> "IvarStore", off |-> 1]}
CellHot == {<<"cell", 0>>, <<"cell", 1>>}

FloatToks == Lits({0}) \cup Plain({"FFetch", "FStore", "Call"})
  \cup {[op |-> "FLit", n |-> 2]} \cup Ops("FBin", {"Sub"}) \cup Ops("FCmp", {"Mi"})
  \cup FStks({"Dup", "Drop", "Swap", "Over"})
  \cup Locals("LocalFFetch", {1}) \cup Locals("LocalFStore", {1})
FloatHot == {<<"fvar", 0>>, <<"flocal", 1>>}

\* A cell reached as a variable, as an fvariable and through its address.
SharedToks == Lits({0}) \cup Plain({"Fetch", "Store", "SelfPush", "FFetch", "FStore", "Call"})
  \cup {[op |-> "FLit", n |-> 2], [op |-> "IvarStore", off |-> 0]}
SharedHot == {<<"cell", 0>>, <<"fvar", 0>>}

\* Enough floats that a deferred f! is stored while the cell is cached.
DeferToks == Lits({0}) \cup Plain({"Fetch", "FStore"}) \cup {[op |-> "FLit", n |-> 2]}

\* The tokens of both stacks together, with the immediate forms, for short runs.
Imms == {[op |-> "ImmBin", f |-> f, n |-> n] : f \in {"Add", "Sub", "Mul", "Or"}, n \in {-1, 2, 3}}
Shifts == Ops("Shift", {"Lsl", "Lsr", "Asr"}) \cup {[op |-> "ImmShift", f |-> "Asr", n |-> 1]}
  \cup {[op |-> "DupShiftBin", f |-> "Sub", sh |-> "Lsl", n |-> 1]}
IntLocalToks == {t \in LocalToks : t.op \in {"LocalFetch", "LocalStore"} => t.i = 0}
MixedToks == IntLocalToks \cup (FloatToks \ Plain({"Call"})) \cup Plain({"Fetch", "CFetch", "CStore"}) \cup Imms \cup Shifts
  \cup Ops("DupBin", {"Add", "Mul", "Or", "Xor"}) \cup Ops("Cmp", {"ULt", "Ge"})
  \cup Ops("ZCmp", {"Eq", "Lt"}) \cup Ops("Sel", {"Min", "UMax"}) \cup Ops("FZCmp", {"Mi"})
  \cup Plain({"SelfPush", "FUn"}) \cup {[op |-> "IvarStore", off |-> 1]} \cup Lits({-1, 3})
  \cup {[op |-> "LoopIdx", of |-> "j"]} \cup Ops("Bin", {"Add", "And", "Xor"})

\* A loop body with local 0 pinned to a GP register, float local 1 to an FP one.
MCPins  == 0 :> 12
MCFPins == 1 :> 9
PinnedToks == Lits({2}) \cup Locals("LocalFetch", {0}) \cup Locals("LocalStore", {0})
  \cup Locals("LocalFFetch", {1}) \cup Locals("LocalFStore", {1})
  \cup Ops("Bin", {"Sub"}) \cup Ops("FBin", {"Sub"}) \cup Stks({"Dup", "Swap"})
  \cup FStks({"Over"}) \cup {[op |-> "LoopIdx", of |-> "i"], [op |-> "FLit", n |-> 1]}

Prog(ts, hot, max) ==
  [toks |-> ts, hot |-> hot, ipins |-> NoPins, fpins |-> NoPins, steps |-> max]

\* Definitions of integers, with each cache on its own.
IntPrograms == {Prog(StackToks, {}, 4), Prog(LocalToks, LocalHot, 5), Prog(CellToks, CellHot, 6)}

\* Definitions with a float local.
FloatPrograms ==
  {Prog(FloatToks, FloatHot, 5), Prog(MixedToks, LocalHot, 3),
   Prog(SharedToks, SharedHot, 6), Prog(DeferToks, {<<"cell", 0>>}, 10),
   [Prog(PinnedToks, {}, 5) EXCEPT !.ipins = MCPins, !.fpins = MCFPins]}

\* A definition that reaches a gap with the register pool of the real machine.
DryLocalPrograms ==
  {Prog(Locals("LocalStore", {0}) \cup Locals("LocalFetch", {0, 1}), {<<"local", 1>>}, 9)}

AllToks == UNION {p.toks : p \in Programs}
=============================================================================
