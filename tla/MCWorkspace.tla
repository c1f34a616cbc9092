----------------------------- MODULE MCWorkspace -----------------------------
(***************************************************************************)
(* Instances of Workspace for TLC: kinds of use that keep the events that  *)
(* matter to one another together.                                         *)
(***************************************************************************)
EXTENDS Workspace

CONSTANTS x, y    \* letters

MCCodes == {NL, Space, Colon, Semi, Else, Of, Backslash, Paren, EndParen, x, y}
MCPaths == {1, 2, 3}
MCUnwritable == {3}
MCDisk == <<(<<x, NL, Colon, Space, x, NL, Semi>>), NoFile, (<<y>>)>>

\* Typing, deleting and selecting by keys, with undo.
Keys == [typed |-> {x, y}, steps |-> 8,
         events |-> {"focus", "char", "back", "delete", "move", "select_all", "history"}]
Clips == [typed |-> {x}, steps |-> 8,
          events |-> {"focus", "char", "return", "clip", "select_all", "history"}]
\* A long history: more edits than snapshots are held.
Snapshots == [typed |-> {x}, steps |-> 9, events |-> {"focus", "return", "history", "char"}]
Structures == [typed |-> {Colon, Semi, Else, Of, Space}, steps |-> 7,
               events |-> {"focus", "char", "return", "format"}]
Comments == [typed |-> {Colon, Backslash, Paren, EndParen, Space}, steps |-> 7,
             events |-> {"focus", "char", "return", "format"}]
\* The mouse, in a text that is changed and replaced while it is dragged over.
Drags == [typed |-> {x}, steps |-> 6,
          events |-> {"mouse", "wheel", "render", "char", "back", "file", "set"}]
Windows == [typed |-> {x}, steps |-> 10,
            events |-> {"focus", "return", "wheel", "render", "history"}]
FileOps == [typed |-> {x}, steps |-> 7,
            events |-> {"focus", "char", "back", "history", "file", "set", "format"}]
Repls == [typed |-> {x, Space}, steps |-> 6, events |-> {"repl"}]
Evals == [typed |-> {x}, steps |-> 5, events |-> {"focus", "return", "eval", "repl"}]
MCUses == {Keys, Clips, Snapshots, Structures, Comments, Drags, Windows, FileOps, Repls, Evals}
=============================================================================
