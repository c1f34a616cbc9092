------------------------------- MODULE MCRope -------------------------------
(***************************************************************************)
(* Instances of Rope for TLC: short leaves, so that a few code points make *)
(* a tree of some height.                                                  *)
(***************************************************************************)
EXTENDS Rope

CONSTANT x      \* any code point but NL

\* A text of n code points with a newline at every third.
Filled(n) == [i \in 1 .. n |-> IF i % 3 = 0 THEN NL ELSE x]

\* Typing and deleting a code point or two at a time.
Typing == [leaf |-> 2, pieces |-> {<<x>>, <<NL>>}, len |-> 5, edits |-> 5]
Growing == [leaf |-> 1, pieces |-> {<<x>>}, len |-> 7, edits |-> 9]
\* Short and long texts loaded and pasted into one another.
Pasting == [leaf |-> 1, pieces |-> {<<NL>>, Filled(4), Filled(9)}, len |-> 10, edits |-> 3]
Merging == [leaf |-> 2, pieces |-> {<<x>>, Filled(7)}, len |-> 8, edits |-> 3]
MCUses == {Typing, Growing, Pasting, Merging}
=============================================================================
