-------------------------------- MODULE Rope --------------------------------
(***************************************************************************)
(* The rope (src/rope_buffer.rs): a binary tree over leaves of at most     *)
(* LeafMax code points, whose branches cache lengths, newline counts and   *)
(* heights.  Edits split the tree at offsets and join the parts again;     *)
(* queries go down it by the cached counts.                                *)
(*                                                                         *)
(* The tree operations are recursive, so this module is only checked by    *)
(* TLC; a node is the record of its fields.                                *)
(***************************************************************************)
EXTENDS Text, SequencesExt, FiniteSetsExt

CONSTANTS
  Uses   \* what is done with a buffer: records of
         \*   leaf    LEAF_MAX
         \*   pieces  the texts loaded or inserted
         \*   len     bound: the length of the text
         \*   edits   bound: the edits

ASSUME UsesAssumption == \A u \in Uses : u.leaf \in Nat \ {0}

VARIABLES
  root,    \* RopeBuffer.root
  use,     \* the kind of use
  op,      \* the operation last applied
  edits,   \* how many edits were made
  bulk     \* whether a text of more than four leaves went in at once

vars == <<root, use, op, edits, bulk>>

LeafMax == use.leaf

----------------------------------------------------------------------------
(* Nodes *)

IsLeaf(n) == n.kind = "leaf"
TextLen(n)  == IF IsLeaf(n) THEN Len(n.buf) ELSE n.total_len
NewlinesIn(n) == IF IsLeaf(n) THEN n.newline_count ELSE n.total_newlines
Height(n)   == IF IsLeaf(n) THEN 0 ELSE n.height

Leaf(s) == [kind |-> "leaf", buf |-> s, newline_count |-> Cardinality(Newlines(s))]
EmptyLeaf == Leaf(<<>>)

BranchStale(l, r) ==                                             \* (mutant)
  [kind |-> "branch", left |-> l, right |-> r, left_len |-> TextLen(l),
   total_len |-> TextLen(l) + TextLen(r), total_newlines |-> NewlinesIn(l),
   height |-> 1 + Max({Height(l), Height(r)})]
Branch(l, r) ==
  [kind |-> "branch", left |-> l, right |-> r, left_len |-> TextLen(l),
   total_len |-> TextLen(l) + TextLen(r), total_newlines |-> NewlinesIn(l) + NewlinesIn(r),
   height |-> 1 + Max({Height(l), Height(r)})]

BalanceFactor(n) == IF IsLeaf(n) THEN 0 ELSE Height(n.left) - Height(n.right)

\* build_rope_from_slice: leaves filled up to LeafMax, then paired level by
\* level; an odd last node goes up a level unpaired.
Chunks(s) == [i \in 1 .. (Len(s) + LeafMax - 1) \div LeafMax |->
                Leaf(Slice(s, (i - 1) * LeafMax, i * LeafMax))]
RECURSIVE Paired(_)
Paired(ns) ==
  IF Len(ns) = 1 THEN ns[1]
  ELSE Paired([i \in 1 .. (Len(ns) + 1) \div 2 |->
                 IF 2 * i <= Len(ns) THEN Branch(ns[2 * i - 1], ns[2 * i]) ELSE ns[2 * i - 1]])
Built(s) == IF s = <<>> THEN EmptyLeaf ELSE Paired(Chunks(s))

----------------------------------------------------------------------------
(* Balancing, joining and splitting *)

RotateRight(n) ==
  IF IsLeaf(n.left) THEN n
  ELSE Branch(n.left.left, Branch(n.left.right, n.right))
RotateLeft(n) ==
  IF IsLeaf(n.right) THEN n
  ELSE Branch(Branch(n.left, n.right.left), n.right.right)

BalancedSingly(n) ==                                             \* (mutant)
  IF BalanceFactor(n) > 1 THEN RotateRight(n)
  ELSE IF BalanceFactor(n) < -1 THEN RotateLeft(n)
  ELSE n
Balanced(n) ==
  IF BalanceFactor(n) > 1
  THEN RotateRight(IF BalanceFactor(n.left) < 0 THEN Branch(RotateLeft(n.left), n.right) ELSE n)
  ELSE IF BalanceFactor(n) < -1
  THEN RotateLeft(IF BalanceFactor(n.right) > 0 THEN Branch(n.left, RotateRight(n.right)) ELSE n)
  ELSE n

\* Two leaves that fit in one.
Merge(l, r) == IsLeaf(l) /\ IsLeaf(r) /\ Len(l.buf) + Len(r.buf) <= LeafMax

JoinAtTop(l, r) ==                                               \* (mutant)
  IF TextLen(l) = 0 THEN r
  ELSE IF TextLen(r) = 0 THEN l
  ELSE IF Merge(l, r) THEN Leaf(l.buf \o r.buf)
  ELSE Branch(l, r)
RECURSIVE Join(_, _)
Join(l, r) ==
  IF TextLen(l) = 0 THEN r
  ELSE IF TextLen(r) = 0 THEN l
  ELSE IF Merge(l, r) THEN Leaf(l.buf \o r.buf)
  ELSE IF Height(l) > Height(r) + 1 THEN Balanced(Branch(l.left, Join(l.right, r)))
  ELSE IF Height(r) > Height(l) + 1 THEN Balanced(Branch(Join(l, r.left), r.right))
  ELSE Branch(l, r)

RECURSIVE Split(_, _)
Split(n, pos) ==
  IF pos = 0 THEN <<EmptyLeaf, n>>
  ELSE IF pos >= TextLen(n) THEN <<n, EmptyLeaf>>
  ELSE IF IsLeaf(n) THEN <<Leaf(Upto(n.buf, pos)), Leaf(From(n.buf, pos))>>
  ELSE IF pos = n.left_len THEN <<n.left, n.right>>
  ELSE IF pos < n.left_len
  THEN LET parts == Split(n.left, pos) IN <<parts[1], Join(parts[2], n.right)>>
  ELSE LET parts == Split(n.right, pos - n.left_len) IN <<Join(n.left, parts[1]), parts[2]>>

InsertNode(n, pos, new) ==
  LET parts == Split(n, pos) IN Join(Join(parts[1], new), parts[2])
DeleteRangeFromStart(n, pos, count) ==                           \* (mutant)
  Join(Split(n, pos)[1], Split(n, count)[2])
DeleteRange(n, pos, count) ==
  LET parts == Split(n, pos) IN Join(parts[1], Split(parts[2], count)[2])

----------------------------------------------------------------------------
(* Queries *)

RECURSIVE CharAtNode(_, _)
CharAtNode(n, pos) ==
  IF IsLeaf(n) THEN n.buf[pos + 1]
  ELSE IF pos < n.left_len THEN CharAtNode(n.left, pos)
  ELSE CharAtNode(n.right, pos - n.left_len)

RECURSIVE CollectRange(_, _, _)
CollectRange(n, start, end) ==
  IF start >= end THEN <<>>
  ELSE IF IsLeaf(n) THEN Slice(n.buf, start, end)
  ELSE (IF start < n.left_len THEN CollectRange(n.left, start, Least(end, n.left_len)) ELSE <<>>)
       \o (IF end > n.left_len
           THEN CollectRange(n.right, Max({start - n.left_len, 0}), end - n.left_len) ELSE <<>>)

RECURSIVE CountNewlinesBefore(_, _)
CountNewlinesBefore(n, pos) ==
  IF pos = 0 THEN 0
  ELSE IF IsLeaf(n) THEN Cardinality(Newlines(Upto(n.buf, pos)))
  ELSE IF pos <= n.left_len THEN CountNewlinesBefore(n.left, pos)
  ELSE NewlinesIn(n.left) + CountNewlinesBefore(n.right, pos - n.left_len)

RECURSIVE NthNewlineRaw(_, _)
NthNewlineRaw(n, k) ==
  LET here == {i \in Newlines(n.buf) : Cardinality(Newlines(Upto(n.buf, i - 1))) = k}
      right == NthNewlineRaw(n.right, k - NewlinesIn(n.left))
  IN  IF IsLeaf(n) THEN IF here = {} THEN NoOffset ELSE Min(here) - 1
      ELSE IF k < NewlinesIn(n.left) THEN NthNewlineRaw(n.left, k)
      ELSE IF right = NoOffset THEN NoOffset ELSE n.left_len + right
NthNewline(n, k) ==
  LET at == NthNewlineRaw(n, k) IN IF at = NoOffset THEN NoOffset ELSE at + 1

Rows(n) == NewlinesIn(n) + 1
RowStart(n, row) ==
  IF row = 0 THEN 0 ELSE IF row >= Rows(n) THEN NoOffset ELSE NthNewline(n, row - 1)
RowRange(n, row) ==
  IF row >= Rows(n) THEN <<>>
  ELSE << IF row = 0 THEN 0 ELSE NthNewline(n, row - 1),
          IF row + 1 < Rows(n) THEN NthNewlineRaw(n, row) ELSE TextLen(n) >>

SliceOf(n, start, end) ==
  LET s == Least(start, TextLen(n))  e == Least(end, TextLen(n))
  IN  IF s >= e THEN <<>> ELSE CollectRange(n, s, e)
Flat(n) == SliceOf(n, 0, TextLen(n))

OffsetToLineColUnclamped(n, offset) ==                           \* (mutant)
  LET nl == CountNewlinesBefore(n, offset)
  IN  <<nl, offset - (IF nl = 0 THEN 0 ELSE NthNewline(n, nl - 1))>>
OffsetToLineCol(n, offset) ==
  LET pos == Least(offset, TextLen(n))
      nl == CountNewlinesBefore(n, pos)
  IN  <<nl, pos - (IF nl = 0 THEN 0 ELSE NthNewline(n, nl - 1))>>
LineColToOffset(n, row, col) ==
  LET start == IF RowStart(n, row) = NoOffset THEN TextLen(n) ELSE RowStart(n, row)
      range == RowRange(n, row)
  IN  IF range = <<>> THEN start ELSE start + Least(col, range[2] - range[1])

----------------------------------------------------------------------------
(* RopeBuffer's operations *)

Init ==
  /\ root = EmptyLeaf
  /\ use \in Uses
  /\ op = [name |-> "load", s |-> <<>>]
  /\ edits = 0
  /\ bulk = FALSE

InsertedInto(n, pos, s) == IF s = <<>> THEN n ELSE InsertNode(n, pos, Built(s))
DeletedFrom(n, pos, count) ==
  IF count = 0 \/ pos >= TextLen(n) THEN n
  ELSE DeleteRange(n, pos, Least(count, TextLen(n) - pos))

Edit(o, n) ==
  /\ edits < use.edits
  /\ TextLen(n) <= use.len
  /\ root' = n
  /\ op' = o
  /\ bulk' = (bulk \/ (o.name # "delete" /\ Len(o.s) > 4 * LeafMax))
  /\ edits' = edits + 1
  /\ UNCHANGED use

\* Offsets up to one past the end: the code clamps or ignores them.
Offsets == 0 .. TextLen(root) + 1

Load == \E s \in use.pieces : Edit([name |-> "load", s |-> s], Built(s))
Insert == \E s \in use.pieces, pos \in Offsets :
  Edit([name |-> "insert", pos |-> pos, s |-> s], InsertedInto(root, pos, s))
Delete == \E pos, count \in Offsets :
  Edit([name |-> "delete", pos |-> pos, count |-> count], DeletedFrom(root, pos, count))
Replace == \E s \in use.pieces, pos, count \in Offsets :
  Edit([name |-> "replace", pos |-> pos, count |-> count, s |-> s],
       InsertedInto(DeletedFrom(root, pos, count), pos, s))

Next == Load \/ Insert \/ Delete \/ Replace
Spec == Init /\ [][Next]_vars

----------------------------------------------------------------------------
(* Properties *)

RECURSIVE NodesOf(_)
NodesOf(n) == IF IsLeaf(n) THEN {n} ELSE {n} \cup NodesOf(n.left) \cup NodesOf(n.right)
RECURSIVE LeavesIn(_)
LeavesIn(n) == IF IsLeaf(n) THEN <<n.buf>> ELSE LeavesIn(n.left) \o LeavesIn(n.right)

\* What every branch caches of its subtrees is what they hold: a stale length
\* sends later edits to another place.  Leaves are never over-full, and a leaf
\* is empty only when it is the whole buffer, whatever was split off and joined.
TypeOK ==
  /\ \A n \in NodesOf(root) :
       IF IsLeaf(n)
       THEN /\ n.newline_count = Cardinality(Newlines(n.buf))
            /\ Len(n.buf) <= LeafMax
            /\ n.buf = <<>> => n = root
       ELSE LET l == FlattenSeq(LeavesIn(n.left))  r == FlattenSeq(LeavesIn(n.right))
            IN  /\ n.left_len = Len(l)
                /\ n.total_len = Len(l) + Len(r)
                /\ n.total_newlines = Cardinality(Newlines(l \o r))
                /\ n.height = 1 + Max({Height(n.left), Height(n.right)})

\* Every query, by row, column or offset, inside the text or past its end,
\* answers what a scan of the plain text would.
QueriesAgree ==
  LET t == FlattenSeq(LeavesIn(root))
  IN  /\ Rows(root) = LineCount(t)
      /\ \A r \in 0 .. LineCount(t) - 1 :
           /\ RowStart(root, r) = LineStart(t, r)
           /\ RowRange(root, r) = <<LineStart(t, r), LineEnd(t, r)>>
           /\ LineColToOffset(root, r, Len(t)) = LineEnd(t, r)
      /\ RowRange(root, LineCount(t)) = <<>> /\ LineColToOffset(root, LineCount(t), 0) = Len(t)
      /\ \A o \in 0 .. Len(t) + 1 :
           LET at == OffsetToLineCol(root, o)
           IN  /\ at = <<RowOf(t, o), ColOf(t, o)>>
               /\ LineColToOffset(root, at[1], at[2]) = Least(o, Len(t))
               /\ o < Len(t) => CharAtNode(root, o) = t[o + 1]
               /\ SliceOf(root, Len(t) \div 2, o) = Slice(t, Len(t) \div 2, o)

\* The tree is an AVL tree as long as no text of more than four leaves went in
\* at once: such a text is built into a tree whose last leaf is left unpaired.
\* Even then the height stays proportional to the logarithm of the number of
\* leaves (at most twice it) under any splits and joins of unbalanced parts.
AVL ==
  /\ bulk \/ \A n \in NodesOf(root) : BalanceFactor(n) \in -1 .. 1
  /\ 2 ^ Height(root) <= Len(LeavesIn(root)) ^ 2

\* The rope is a text buffer: for every edit its text is what the same edit
\* makes of the plain text.
Buffer == INSTANCE TextBuffer WITH text <- Flat(root)
ImplementsText == Buffer!Spec
=============================================================================
