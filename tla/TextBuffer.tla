----------------------------- MODULE TextBuffer -----------------------------
(***************************************************************************)
(* What a rope buffer promises (the public operations of RopeBuffer in     *)
(* src/rope_buffer.rs): a text that is loaded, inserted into and deleted   *)
(* from, whatever tree holds it.                                           *)
(***************************************************************************)
EXTENDS Text

VARIABLES
  text,
  op      \* the operation last applied

Applied(t, o) ==
  CASE o.name = "load"    -> o.s
    [] o.name = "insert"  -> Inserted(t, o.pos, o.s)
    [] o.name = "delete"  -> Deleted(t, o.pos, o.count)
    [] o.name = "replace" -> Inserted(Deleted(t, o.pos, o.count), o.pos, o.s)

Init == text = <<>> /\ op = [name |-> "load", s |-> <<>>]
Next == text' = Applied(text, op')
Spec == Init /\ [][Next]_<<text, op>>
=============================================================================
