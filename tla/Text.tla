-------------------------------- MODULE Text --------------------------------
(***************************************************************************)
(* A text as a plain sequence of code points, with 0-based offsets as in   *)
(* src/rope_buffer.rs: the reference for what the rope's operations do,    *)
(* and what the editor's model edits in the rope's place.                  *)
(***************************************************************************)
EXTENDS Integers, Sequences, FiniteSets

CONSTANT NL     \* NEWLINE

NoOffset == -1  \* Option::None of a query
Least(a, b) == IF a < b THEN a ELSE b

\* The first n code points of t, and those after them; n may be past the end.
Upto(t, n) == SubSeq(t, 1, Least(n, Len(t)))
From(t, n) == SubSeq(t, n + 1, Len(t))

Inserted(t, pos, s) == Upto(t, pos) \o s \o From(t, pos)
Deleted(t, pos, count) == Upto(t, pos) \o From(t, pos + count)
Slice(t, start, end) == From(Upto(t, end), start)

Newlines(t) == {i \in 1 .. Len(t) : t[i] = NL}
LineCount(t) == Cardinality(Newlines(t)) + 1
RowOf(t, offset) == Cardinality(Newlines(Upto(t, offset)))

\* The offset at which a row starts: behind the newline that ends the one before.
LineStart(t, row) ==
  IF row = 0 THEN 0
  ELSE IF row >= LineCount(t) THEN NoOffset
  ELSE CHOOSE i \in Newlines(t) : RowOf(t, i) = row
\* The offset at which it ends: at its newline, or at the end of the text.
LineEnd(t, row) == IF row + 1 < LineCount(t) THEN LineStart(t, row + 1) - 1 ELSE Len(t)

ColOf(t, offset) == Least(offset, Len(t)) - LineStart(t, RowOf(t, offset))
OffsetAt(t, row, col) ==
  IF row >= LineCount(t) THEN Len(t)
  ELSE LineStart(t, row) + Least(col, LineEnd(t, row) - LineStart(t, row))
=============================================================================
