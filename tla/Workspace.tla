------------------------------ MODULE Workspace ------------------------------
(***************************************************************************)
(* The workspace (src/workspace.rs): an editor and a REPL that events are  *)
(* routed to, with the host loop that draws it and acts on its reactions   *)
(* (src/bin/mf66-ui.rs) and the verbs a script drives it with              *)
(* (src/wsdriver.rs).                                                      *)
(***************************************************************************)
EXTENDS Editor

CONSTANTS
  Codes,        \* code points there can be
  Paths,        \* files there can be
  Unwritable,   \* those that writing fails for
  Disk,         \* the files at the start: a text for each path, NoFile for none
  NoFile,
  WindowRows,   \* rows of the editor the window shows
  LogMax,       \* lines the output log holds (2000)
  Uses          \* how a workspace is used: records of
                \*   typed   the characters typed
                \*   events  the names of the events that occur
                \*   steps   bound: the events

ASSUME WorkspaceAssumption ==
  /\ {NL, Space, Colon, Semi, Else, Of, Backslash, Paren, EndParen} \subseteq Codes
  /\ \A u \in Uses : u.typed \subseteq Codes
  /\ Disk \in [Paths -> {NoFile} \cup Seq(Codes)] /\ Unwritable \subseteq Paths
  /\ WindowRows \in Nat \ {0}
  /\ LogMax \in Nat \ {0}

VARIABLES
  ed,        \* Workspace.editor
  focus, dragging,
  input, cmds, cmd_pos,   \* the REPL's line, its history and the place in it
  log,       \* the kinds of the lines of the output log
  compiling, \* whether the session was compiling after the last evaluation
  files,     \* the files
  stray,     \* whether editor-set, or a save-as that failed, came after the
             \* last load, save or new file
  use, steps

repl == <<input, cmds, cmd_pos, log, compiling>>
disk == <<files, stray>>
vars == <<ed, focus, dragging, repl, disk, use, steps>>

Init ==
  /\ ed = NewEditor
  /\ focus = "Repl" /\ dragging = FALSE
  /\ input = <<>> /\ cmds = <<>> /\ cmd_pos = 0
  /\ log = <<"Note">> /\ compiling = FALSE
  /\ files = Disk /\ stray = TRUE
  /\ use \in Uses /\ steps = 0

\* An event the kind of use has, within its bound.
On(event) == event \in use.events /\ steps < use.steps /\ steps' = steps + 1 /\ UNCHANGED use

----------------------------------------------------------------------------
(* Events for the editor *)

Edit(e) == ed' = e /\ UNCHANGED <<focus, dragging, repl, disk>>
InEditor(event) == focus = "Editor" /\ On(event)

Char == InEditor("char") /\ \E c \in use.typed : Edit(InsertChar(ed, c))
Return == InEditor("return") /\ Edit(Newline(ed))
Back == InEditor("back") /\ Edit(Backspace(ed))
Delete == InEditor("delete") /\ Edit(DeleteForward(ed))

Move ==
  /\ InEditor("move")
  /\ \E shift \in BOOLEAN :
       \/ Edit(MoveLeft(ed, shift))
       \/ Edit(MoveRight(ed, shift))
       \/ Edit(MoveUp(ed, shift))
       \/ Edit(MoveDown(ed, shift))
       \/ Edit(Home(ed, shift))
       \/ Edit(End(ed, shift))

Command ==
  \/ InEditor("select_all") /\ Edit(SelectAll(ed))
  \/ InEditor("clip") /\ (Edit(Copy(ed)) \/ Edit(Cut(ed)) \/ Edit(Paste(ed)))
  \/ InEditor("history") /\ (Edit(Undo(ed)) \/ Edit(Redo(ed)))
  \/ InEditor("format") /\ Edit(Format(ed))

----------------------------------------------------------------------------
(* The mouse: a place is a row of the window and a column *)

Places == (0 .. WindowRows - 1) \X {0, 1}
TextRow(place) == InRows(ed, ed.top + place[1])

MouseDown ==
  /\ On("mouse")
  /\ \/ /\ \E place \in Places :
             \/ ed' = SetCaret(ed, TextRow(place), place[2])
             \/ ed' = ExtendTo(ed, TextRow(place), place[2])      \* with Shift
        /\ focus' = "Editor" /\ dragging' = TRUE
     \/ focus' = "Repl" /\ UNCHANGED <<ed, dragging>>             \* below the editor
  /\ UNCHANGED <<repl, disk>>
MouseMove ==
  /\ On("mouse")
  /\ dragging
  /\ \E place \in Places : Edit(ExtendTo(ed, TextRow(place), place[2]))
MouseUp == On("mouse") /\ dragging' = FALSE /\ UNCHANGED <<ed, focus, repl, disk>>
Wheel == On("wheel") /\ \E delta \in {-3, 3} : Edit(Scroll(ed, delta))

Tab ==
  /\ On("focus")
  /\ focus' = IF focus = "Editor" THEN "Repl" ELSE "Editor"
  /\ UNCHANGED <<ed, dragging, repl, disk>>

\* The host draws the window after it has drained the events.
Render == On("render") /\ Edit(EnsureVisible(ed, WindowRows))

----------------------------------------------------------------------------
(* The REPL *)

\* Workspace::record: the lines that were put in, a line that was printed
\* or none, and how the evaluation ended.
Record(lines) ==
  \E printed \in {<<>>, <<"Output">>}, end \in {<<"Ok">>, <<"Err">>, <<>>} :
    LET added == lines \o (IF end = <<"Err">> THEN end ELSE printed \o end)
    IN  /\ log' = Newest(log \o added, LogMax)
        /\ IF end = <<"Err">> THEN compiling' \in BOOLEAN ELSE compiling' = (end = <<>>)

InRepl(event) == focus = "Repl" /\ On(event) /\ UNCHANGED <<ed, focus, dragging, disk>>

Submit ==
  /\ InRepl("repl")
  /\ cmds' = IF \A i \in DOMAIN input : input[i] = Space THEN cmds ELSE Append(cmds, input)
  /\ cmd_pos' = Len(cmds')
  /\ input' = <<>>
  /\ Record(<<"Input">>)

RecallTo(pos) ==
  /\ cmds # <<>>
  /\ cmd_pos' = Least(Greatest(pos, 0), Len(cmds))
  /\ input' = IF cmd_pos' = Len(cmds) THEN <<>> ELSE cmds[cmd_pos' + 1]
  /\ UNCHANGED <<cmds, log, compiling>>

Line ==
  \/ /\ InRepl("repl")
     /\ \/ \E c \in use.typed : input' = Append(input, c)
        \/ input # <<>> /\ input' = Front(input)
     /\ UNCHANGED <<cmds, cmd_pos, log, compiling>>
  \/ InRepl("repl") /\ (RecallTo(cmd_pos - 1) \/ RecallTo(cmd_pos + 1))

\* Command-Return: the buffer goes to the session, the editor keeps it.
EvalBuffer ==
  /\ InEditor("eval")
  /\ Record([r \in 1 .. LineCount(ed.text) |-> "Input"])
  /\ UNCHANGED <<ed, focus, dragging, input, cmds, cmd_pos, disk>>

----------------------------------------------------------------------------
(* Files, by the keys' reactions and by the verbs *)

New ==
  /\ On("file")
  /\ ed' = NewFile(ed)
  /\ stray' = TRUE
  /\ UNCHANGED <<focus, dragging, repl, files>>

\* A file that cannot be read leaves the editor as it was.
Open ==
  /\ On("file")
  /\ \E p \in Paths :
       IF files[p] = NoFile THEN UNCHANGED <<ed, stray>>
       ELSE ed' = Loaded(ed, p, files[p]) /\ stray' = FALSE
  /\ UNCHANGED <<focus, dragging, repl, files>>

\* Editor::save, of an editor that may just have been given another path.
SaveUnwritten(e) ==                                              \* (mutant)
  /\ ed' = [e EXCEPT !.dirty = FALSE]
  /\ IF e.path \in Unwritable THEN UNCHANGED disk
     ELSE files' = [files EXCEPT ![e.path] = e.text] /\ stray' = FALSE
Save(e) ==
  IF e.path \in Unwritable
  THEN /\ ed' = e
       /\ stray' = (stray \/ e.path # ed.path)
       /\ UNCHANGED files
  ELSE /\ ed' = [e EXCEPT !.dirty = FALSE]
       /\ files' = [files EXCEPT ![e.path] = e.text]
       /\ stray' = FALSE
SaveFile ==
  /\ On("file")
  /\ \/ ed.path # None /\ Save(ed)
     \/ \E p \in Paths : Save([ed EXCEPT !.path = p])     \* save-as
  /\ UNCHANGED <<focus, dragging, repl>>

EditorSet ==
  /\ On("set")
  /\ \E s \in {files[p] : p \in Paths} \ {NoFile} : ed' = SetText(ed, s)
  /\ stray' = TRUE
  /\ UNCHANGED <<focus, dragging, repl, files>>

----------------------------------------------------------------------------

Next ==
  \/ Char \/ Return \/ Back \/ Delete \/ Move \/ Command
  \/ MouseDown \/ MouseMove \/ MouseUp \/ Wheel \/ Tab \/ Render
  \/ Submit \/ Line \/ EvalBuffer
  \/ New \/ Open \/ SaveFile \/ EditorSet

Spec == Init /\ [][Next]_vars

----------------------------------------------------------------------------
(* Properties *)

\* The caret, and every caret that undo or redo would restore, is inside its
\* text after any mix of keys, mouse events, drags that outlive their text
\* and verbs; the snapshots stay within the cap even when redo, which does
\* not check it, puts them back; the REPL's place is one of its history.
TypeOK ==
  /\ \A s \in {Snapshot(ed)} \cup ToSet(ed.undo) \cup ToSet(ed.redo) : s.caret \in 0 .. Len(s.text)
  /\ ed.anchor \in Nat \cup {None}
  /\ ed.goal \in Nat /\ ed.top \in Nat
  /\ ed.last \in {"None", "Insert", "Delete"}
  /\ Len(ed.undo) + Len(ed.redo) <= UndoMax
  /\ ed.path \in Paths \cup {None}
  /\ cmd_pos \in 0 .. Len(cmds)
  /\ Len(log) <= LogMax

\* Edits that share a snapshot were made in one place: behind the caret the
\* text is still what the snapshot ends with and, in a run of deletions,
\* before the caret what it starts with.  A run that went on after the caret
\* was moved would be undone in two places at once.  There is nothing to redo
\* within a run.
RunInOnePlace ==
  ed.last # "None" =>
    LET snap == Last(ed.undo).text
    IN  /\ ed.undo # <<>> /\ ed.redo = <<>>
        /\ IsSuffix(From(ed.text, ed.caret), snap)
        /\ ed.last = "Delete" /\ ~HasSelection(ed) => IsPrefix(Upto(ed.text, ed.caret), snap)

\* An editor that has a path and no unsaved changes shows what the file holds,
\* as long as the text was not set by a script and no save-as failed half-way.
CleanIsSaved == ~stray /\ ~ed.dirty => files[ed.path] = ed.text

Timeline(e) == [i \in DOMAIN e.undo |-> e.undo[i].text] \o <<e.text>>
               \o [i \in DOMAIN e.redo |-> Reverse(e.redo)[i].text]
ReplacesText == New \/ Open \/ EditorSet

\* No step but a new text forgets a text that can be seen: undo and redo move
\* along one line of texts, and an edit puts the text it changed on that line
\* unless it continues a run.
TextsKept ==
  [][ed'.text # ed.text /\ ~ReplacesText =>
       \/ Timeline(ed') = Timeline(ed) /\ Len(ed'.undo) # Len(ed.undo)
       \/ ed'.last = ed.last /\ ed.last # "None" /\ ed'.undo = ed.undo
       \/ ed'.undo # <<>> /\ Last(ed'.undo).text = ed.text /\ ed'.redo = <<>>]_vars

\* Formatting changes no word and no line, and what was formatted stays as it is.
FormatSettles ==
  LET formatted == FormatForth(ed.text)
  IN  Words(formatted) = Words(ed.text) /\ FormatForth(formatted) = formatted

\* Wherever the text was scrolled or edited, once the window is drawn the caret
\* is in it.
CaretShown == [][Render => Row(ed') \in ed'.top .. ed'.top + WindowRows - 1]_vars
=============================================================================
