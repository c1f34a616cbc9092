----------------------------- MODULE MCLoopPins -----------------------------
(***************************************************************************)
(* Instances of LoopPins for TLC: two integer locals and one float.        *)
(***************************************************************************)
EXTENDS LoopPins

CONSTANTS cnt, lim, ang
=============================================================================
