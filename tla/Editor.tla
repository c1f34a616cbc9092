------------------------------- MODULE Editor -------------------------------
(***************************************************************************)
(* The workspace editor (src/editor.rs): what each of its operations does  *)
(* to the editor, a record of a text with a caret, a selection, a          *)
(* clipboard, undo and redo stacks and a scroll position.  The text is a   *)
(* sequence of code points; that the rope behind it behaves as one is      *)
(* shown in Rope.                                                          *)
(***************************************************************************)
EXTENDS Text, SequencesExt

CONSTANTS
  Space,                                \* code points the formatter tells apart:
  Colon, Semi, Else, Of,                \* words that nest and part structures
  Backslash, Paren, EndParen,           \* and that begin and end comments
  UndoMax                               \* snapshots the undo stack holds (500)

ASSUME UndoMaxAssumption == UndoMax \in Nat \ {0}

None == -1      \* no anchor, no path
Greatest(a, b) == IF a > b THEN a ELSE b
Newest(s, n) == From(s, Greatest(Len(s) - n, 0))

NewEditor ==
  [text |-> <<>>, caret |-> 0, anchor |-> None, goal |-> 0, clip |-> <<>>,
   undo |-> <<>>, redo |-> <<>>, last |-> "None", top |-> 0, path |-> None, dirty |-> FALSE]

Snapshot(e) == [text |-> e.text, caret |-> e.caret]
Row(e) == RowOf(e.text, e.caret)
SyncGoal(e) == [e EXCEPT !.goal = ColOf(e.text, e.caret)]
MoveTo(e, row, col) == [e EXCEPT !.caret = OffsetAt(e.text, row, col)]

----------------------------------------------------------------------------
(* Whole texts *)

SetText(e, s) ==
  [e EXCEPT !.text = s, !.caret = Least(@, Len(s)), !.anchor = None,
            !.undo = <<>>, !.redo = <<>>, !.last = "None"]
NewFile(e) == [SetText(e, <<>>) EXCEPT !.caret = 0, !.top = 0, !.path = None, !.dirty = FALSE]
Loaded(e, p, s) == [SetText(e, s) EXCEPT !.caret = 0, !.top = 0, !.path = p, !.dirty = FALSE]

----------------------------------------------------------------------------
(* Undo and redo *)

\* The editor before an edit of a kind: runs of insertions, and of deletions,
\* share the snapshot taken before the first of them.
CheckpointKeepingRedo(e, kind) ==                                \* (mutant)
  IF e.last = kind /\ kind # "None" THEN e
  ELSE [e EXCEPT !.undo = Newest(Append(@, Snapshot(e)), UndoMax), !.last = kind]
Checkpoint(e, kind) ==
  IF e.last = kind /\ kind # "None" THEN e
  ELSE [e EXCEPT !.undo = Newest(Append(@, Snapshot(e)), UndoMax), !.redo = <<>>, !.last = kind]

Restored(e, snap) ==
  [e EXCEPT !.text = snap.text, !.caret = Least(snap.caret, Len(snap.text)), !.anchor = None,
            !.last = "None", !.dirty = TRUE]
UndoForgetful(e) ==                                              \* (mutant)
  IF e.undo = <<>> THEN e ELSE [Restored(e, Last(e.undo)) EXCEPT !.undo = Front(@)]
Undo(e) ==
  IF e.undo = <<>> THEN e
  ELSE [Restored(e, Last(e.undo)) EXCEPT !.undo = Front(@), !.redo = Append(@, Snapshot(e))]
Redo(e) ==
  IF e.redo = <<>> THEN e
  ELSE [Restored(e, Last(e.redo)) EXCEPT !.redo = Front(@), !.undo = Append(@, Snapshot(e))]

----------------------------------------------------------------------------
(* Selection and clipboard *)

HasSelection(e) == e.anchor \notin {None, e.caret}
SelectionStart(e) == Least(e.anchor, e.caret)
SelectionEnd(e) == Greatest(e.anchor, e.caret)
SelectAll(e) == [e EXCEPT !.anchor = 0, !.caret = Len(e.text)]

DeleteSelection(e) ==
  IF ~HasSelection(e) THEN e
  ELSE [e EXCEPT !.text = Deleted(@, SelectionStart(e), SelectionEnd(e) - SelectionStart(e)),
                 !.caret = SelectionStart(e), !.anchor = None, !.dirty = TRUE]

Copy(e) ==
  IF HasSelection(e)
  THEN [e EXCEPT !.clip = Slice(e.text, SelectionStart(e), SelectionEnd(e))] ELSE e
Cut(e) ==
  IF HasSelection(e) THEN DeleteSelection(Checkpoint(Copy(e), "None")) ELSE e

\* The editor with s in front of the caret.
Put(e, s) ==
  SyncGoal([e EXCEPT !.text = Inserted(@, e.caret, s), !.caret = @ + Len(s), !.dirty = TRUE])
PasteUnchecked(e) ==                                             \* (mutant)
  IF e.clip = <<>> THEN e ELSE Put(DeleteSelection(e), e.clip)
Paste(e) ==
  IF e.clip = <<>> THEN e ELSE Put(DeleteSelection(Checkpoint(e, "None")), e.clip)

----------------------------------------------------------------------------
(* Editing *)

InsertChar(e, c) == Put(DeleteSelection(Checkpoint(e, "Insert")), <<c>>)
Newline(e) == Put(DeleteSelection(Checkpoint(e, "None")), <<NL>>)

BackspaceClean(e) ==                                             \* (mutant)
  LET d == Checkpoint(e, "Delete")
  IN  IF HasSelection(d) THEN DeleteSelection(d)
      ELSE IF d.caret = 0 THEN d
      ELSE SyncGoal([d EXCEPT !.text = Deleted(@, d.caret - 1, 1), !.caret = @ - 1])
Backspace(e) ==
  LET d == Checkpoint(e, "Delete")
  IN  IF HasSelection(d) THEN DeleteSelection(d)
      ELSE IF d.caret = 0 THEN d
      ELSE SyncGoal([d EXCEPT !.text = Deleted(@, d.caret - 1, 1), !.caret = @ - 1,
                              !.dirty = TRUE])
DeleteForward(e) ==
  LET d == Checkpoint(e, "Delete")
  IN  IF HasSelection(d) THEN DeleteSelection(d)
      ELSE IF d.caret >= Len(d.text) THEN d
      ELSE [d EXCEPT !.text = Deleted(@, d.caret, 1), !.dirty = TRUE]

----------------------------------------------------------------------------
(* Motion; extend is the Shift key. *)

PreMoveInRun(e, extend) ==                                       \* (mutant)
  [e EXCEPT !.anchor = IF ~extend THEN None ELSE IF @ = None THEN e.caret ELSE @]
PreMove(e, extend) ==
  [e EXCEPT !.anchor = IF ~extend THEN None ELSE IF @ = None THEN e.caret ELSE @,
            !.last = "None"]

MoveLeft(e, extend) == SyncGoal([PreMove(e, extend) EXCEPT !.caret = Greatest(@ - 1, 0)])
MoveRightFreely(e, extend) ==                                    \* (mutant)
  SyncGoal([PreMove(e, extend) EXCEPT !.caret = @ + 1])
MoveRight(e, extend) ==
  SyncGoal([PreMove(e, extend) EXCEPT !.caret = Least(@ + 1, Len(e.text))])

\* Vertical motion keeps to the goal column.
MoveUp(e, extend) ==
  LET d == PreMove(e, extend) IN IF Row(d) = 0 THEN d ELSE MoveTo(d, Row(d) - 1, d.goal)
MoveDown(e, extend) ==
  LET d == PreMove(e, extend)
  IN  IF Row(d) + 1 = LineCount(d.text) THEN d ELSE MoveTo(d, Row(d) + 1, d.goal)

Home(e, extend) == SyncGoal(MoveTo(PreMove(e, extend), Row(e), 0))
\* On an empty line behind a newline the caret goes back over that newline.
End(e, extend) ==
  LET end == LineEnd(e.text, Row(e))
  IN  SyncGoal([PreMove(e, extend) EXCEPT !.caret =
                  IF end > 0 /\ e.text[end] = NL THEN end - 1 ELSE end])

\* Rows past the last one count as the last one.
InRows(e, row) == Least(row, LineCount(e.text) - 1)
SetCaret(e, row, col) ==
  SyncGoal([MoveTo(e, InRows(e, row), col) EXCEPT !.anchor = None, !.last = "None"])
ExtendTo(e, row, col) == SyncGoal(MoveTo(PreMove(e, TRUE), InRows(e, row), col))

Scroll(e, delta) ==
  [e EXCEPT !.top = Least(Greatest(@ + delta, 0), LineCount(e.text) - 1)]
EnsureVisibleLate(e, rows) ==                                    \* (mutant)
  [e EXCEPT !.top = IF Row(e) < @ THEN Row(e)
                    ELSE IF Row(e) > @ + rows THEN Row(e) + 1 - rows ELSE @]
EnsureVisible(e, rows) ==
  [e EXCEPT !.top = IF Row(e) < @ THEN Row(e)
                    ELSE IF rows > 0 /\ Row(e) >= @ + rows THEN Row(e) + 1 - rows ELSE @]

----------------------------------------------------------------------------
(* The formatter.  Four words of one code point stand for the rest: Colon *)
(* for those that open a structure, Semi for those that close one (endof   *)
(* too: it is also in dedent_line, which says the same of it), Else for    *)
(* those that only part one, and Of, which opens one on a dedented line.   *)

Lines(t) == [r \in 1 .. LineCount(t) |-> Slice(t, LineStart(t, r - 1), LineEnd(t, r - 1))]

WordsIn(line) ==
  FoldLeft(LAMBDA acc, c :
             IF c = Space THEN [acc EXCEPT !.inside = FALSE]
             ELSE IF acc.inside THEN [acc EXCEPT !.words[Len(acc.words)] = Append(@, c)]
             ELSE [words |-> Append(acc.words, <<c>>), inside |-> TRUE],
           [words |-> <<>>, inside |-> FALSE], line).words
Words(t) == [r \in 1 .. LineCount(t) |-> WordsIn(Lines(t)[r])]

Opens(w) == w \in {<<Colon>>, <<Of>>}
Closes(w) == w = <<Semi>>
DedentLine(w) == w \in {<<Else>>, <<Of>>}

\* A backslash comments out the rest of its line, a parenthesis what follows
\* up to a word that ends with the other one.
DepthAfter(depth, words) ==
  LET inside[i \in 0 .. Len(words)] ==      \* in parentheses after word i
        IF i = 0 THEN FALSE
        ELSE IF inside[i - 1] THEN Last(words[i]) # EndParen ELSE words[i] = <<Paren>>
      Ends(i) == ~inside[i - 1] /\ words[i] = <<Backslash>>
      code == {i \in 1 .. Len(words) : ~inside[i - 1] /\ \A j \in 1 .. i : ~Ends(j)}
      Count(P(_)) == Cardinality({i \in code : P(words[i])})
  IN  Greatest(depth + Count(Opens) - Count(Closes), 0)

FormatLineUntrimmed(depth, line) ==                              \* (mutant)
  IF WordsIn(line) = <<>> THEN <<>> ELSE [i \in 1 .. 2 * depth |-> Space] \o line
FormatLine(depth, line) ==
  LET words == WordsIn(line)
      indent == IF Closes(words[1]) \/ DedentLine(words[1]) THEN Greatest(depth - 1, 0) ELSE depth
  IN  IF words = <<>> THEN <<>>
      ELSE [i \in 1 .. 2 * indent |-> Space]
           \o FlattenSeq([i \in 1 .. Len(words) |->
                            (IF i = 1 THEN <<>> ELSE <<Space>>) \o words[i]])

FormatForth(t) ==
  FoldLeft(LAMBDA acc, line :
             [out |-> acc.out \o (IF acc.first THEN <<>> ELSE <<NL>>) \o FormatLine(acc.depth, line),
              depth |-> DepthAfter(acc.depth, WordsIn(line)), first |-> FALSE],
           [out |-> <<>>, depth |-> 0, first |-> TRUE], Lines(t)).out

Format(e) ==
  LET d == Checkpoint(e, "None")  s == FormatForth(e.text)
  IN  [d EXCEPT !.text = s, !.caret = Least(@, Len(s)), !.anchor = None, !.dirty = TRUE]
=============================================================================
