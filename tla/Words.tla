------------------------------- MODULE Words -------------------------------
(***************************************************************************)
(* Cell arithmetic of the MF66 compiler (src/opt.rs, the `eval` methods).  *)
(* A cell is a two's-complement word; Half is 2^63 in the program and a    *)
(* small power of two in a model, so that wrap-around really happens.      *)
(***************************************************************************)
EXTENDS Integers, FiniteSetsExt

CONSTANT Half   \* half the number of cell values: cells are -Half .. Half-1

ASSUME HalfAssumption == Half \in Nat \ {0}

Cell == -Half .. Half - 1

\* The cell congruent to n modulo 2^width.
Wrap(n) == ((n + Half) % (2 * Half)) - Half

\* The same bits read as an unsigned number.
Unsigned(a) == a % (2 * Half)

Flag(b) == IF b THEN -1 ELSE 0

Pow2(k) == 2 ^ k
Width == CHOOSE w \in 1 .. Half + 1 : Pow2(w) = 2 * Half
Bit(a, k) == (Unsigned(a) \div Pow2(k)) % 2 = 1
FromBits(S) == Wrap(MapThenSumSet(Pow2, S))

\* Bin::eval, a = NOS (the deeper operand), b = TOS.
BinEval(op, a, b) ==
  CASE op = "Add" -> Wrap(a + b)
    [] op = "Sub" -> Wrap(a - b)
    [] op = "Mul" -> Wrap(a * b)
    [] op = "And" -> FromBits({k \in 0 .. Width - 1 : Bit(a, k) /\ Bit(b, k)})
    [] op = "Or"  -> FromBits({k \in 0 .. Width - 1 : Bit(a, k) \/ Bit(b, k)})
    [] op = "Xor" -> FromBits({k \in 0 .. Width - 1 : Bit(a, k) # Bit(b, k)})

\* Sh::eval: the count is taken modulo the width of a cell.
ShEval(sh, a, b) ==
  LET p == Pow2(Unsigned(b) % Width)
  IN  CASE sh = "Lsl" -> Wrap(Unsigned(a) * p)
        [] sh = "Lsr" -> Wrap(Unsigned(a) \div p)
        [] sh = "Asr" -> a \div p

\* Cmp::eval and the csetm condition of Cmp::cond agree on these.
CmpHolds(c, a, b) ==
  CASE c = "Eq"  -> a = b
    [] c = "Ne"  -> a # b
    [] c = "Lt"  -> a < b
    [] c = "Gt"  -> a > b
    [] c = "Le"  -> a <= b
    [] c = "Ge"  -> a >= b
    [] c = "ULt" -> Unsigned(a) < Unsigned(b)
    [] c = "UGt" -> Unsigned(a) > Unsigned(b)

\* The condition of an FCmp after `fcmp a, b`, for floats modelled as cells and
\* one NaN, which is unordered with everything: of each pair of conditions that
\* differ in the low bit, exactly one holds.
NaN == Half
FCmpHolds(c, a, b) ==
  LET ordered == a # NaN /\ b # NaN
  IN  CASE c = "Mi" -> ordered /\ a < b
        [] c = "Pl" -> ~(ordered /\ a < b)
        [] c = "Eq" -> ordered /\ a = b
        [] c = "Ne" -> ~(ordered /\ a = b)

\* Cmp::swapped_cond: the comparison with its operands exchanged.
Swapped(c) ==
  CASE c = "Lt" -> "Gt" [] c = "Gt" -> "Lt"
    [] c = "Le" -> "Ge" [] c = "Ge" -> "Le"
    [] c = "ULt" -> "UGt" [] c = "UGt" -> "ULt"
    [] OTHER -> c

\* Sel::cond: the comparison under which the deeper operand is kept.
SelCond(s) ==
  CASE s = "Min" -> "Lt" [] s = "Max" -> "Gt"
    [] s = "UMin" -> "ULt" [] s = "UMax" -> "UGt"

\* Sel::eval
SelEval(s, a, b) ==
  CASE s = "Min"  -> (IF a < b THEN a ELSE b)
    [] s = "Max"  -> (IF a > b THEN a ELSE b)
    [] s = "UMin" -> (IF Unsigned(a) < Unsigned(b) THEN a ELSE b)
    [] s = "UMax" -> (IF Unsigned(a) > Unsigned(b) THEN a ELSE b)
=============================================================================
