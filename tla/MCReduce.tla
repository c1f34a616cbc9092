------------------------------ MODULE MCReduce ------------------------------
(***************************************************************************)
(* Instances of Reduce for TLC: kinds of run by the rewrites they reach.   *)
(***************************************************************************)
EXTENDS Reduce

Ops(op, fs) == {[op |-> op, f |-> f] : f \in fs}
Stks(ms) == {Stk(m) : m \in ms}
Lits(S) == {Lit(n) : n \in S}

MCIndex == [i |-> 1, j |-> 0]
Entry(ds, fs) == [ds |-> ds, fs |-> fs, cell |-> [a \in Addr |-> a], loc |-> <<>>]

\* Small and large cells of either sign, and a NaN on the FP stack.
MCEntries ==
  {Entry(<<0, 1, -4, 3>>, <<0, 1, 2>>), Entry(<<0, -2, 2, 1>>, <<0, 1, 1>>),
   Entry(<<0, 3, 3, -1>>, <<0, NaN, -1>>), Entry(<<0, 2, -3, 0>>, <<0, 2, NaN>>)}

AllBins == Ops("Bin", {"Add", "Sub", "Mul", "And", "Or", "Xor"})

ArithRuns == [toks |-> AllBins \cup Lits({-1, 0, 3}) \cup Stks({"Dup", "Drop"}), len |-> 5]
ShiftRuns == [toks |-> Ops("Shift", {"Lsl", "Lsr", "Asr"}) \cup Ops("Bin", {"Sub", "Xor", "Mul"})
                       \cup Lits({-1, 0, 2}) \cup Stks({"Dup"}) \cup {[op |-> "Call"]}, len |-> 5]
MotionRuns == [toks |-> Stks({"Dup", "Drop", "Swap", "Over", "Rot", "MinusRot"})
                        \cup Lits({0, 2}) \cup Ops("Bin", {"Sub", "Mul"}), len |-> 5]
FlagRuns == [toks |-> Ops("Cmp", {"Eq", "Ne", "Lt", "Gt", "Le", "Ge", "ULt", "UGt"})
                      \cup Ops("ZCmp", {"Eq", "Ne", "Lt", "Gt"})
                      \cup Ops("FCmp", {"Mi"}) \cup Ops("FZCmp", {"Mi", "Eq"}) \cup Stks({"Drop"}),
             len |-> 4]

MCAlphabets == {ArithRuns, ShiftRuns, MotionRuns, FlagRuns}
MCToks == UNION {a.toks : a \in MCAlphabets}
=============================================================================
