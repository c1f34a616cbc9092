---------------------------- MODULE ForthMachine ----------------------------
(***************************************************************************)
(* The abstract specification the lowerer implements: a machine that       *)
(* executes the tokens of a definition one after another with the meaning  *)
(* Tokens gives them.                                                      *)
(***************************************************************************)
EXTENDS Tokens

CONSTANT Init0   \* the state in which a definition is entered

VARIABLES
  st,   \* the state [ds, fs, cell, loc]
  tok   \* the token executed last

Execute(t) ==
  /\ tok' = t
  /\ Enabled(st, t)
  /\ \E junk \in Junk(t) : st' = After(st, t, junk)

Init == st = Init0 /\ tok = EndRun
Next == \E t \in Toks \cup {EndRun} : Execute(t)
Spec == Init /\ [][Next]_<<st, tok>>
=============================================================================
