---------------------------- MODULE MCDictionary ----------------------------
(***************************************************************************)
(* Instances of Dictionary for TLC: two names; a colon word's code is      *)
(* longer than the others'.                                                *)
(***************************************************************************)
EXTENDS Dictionary, TLC

CONSTANTS foo, bar

TwoNames == Permutations({foo, bar})

MCSize == [k \in Kinds |-> IF k = "colon" THEN 2 ELSE 1]
=============================================================================
