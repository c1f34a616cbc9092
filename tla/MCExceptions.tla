---------------------------- MODULE MCExceptions ----------------------------
(***************************************************************************)
(* The instance of Exceptions for TLC: two calls, and room for a method    *)
(* inside a handler or a handler inside a method, and for two words that   *)
(* have locals open at once.                                               *)
(***************************************************************************)
EXTENDS Exceptions
=============================================================================
