------------------------------ MODULE MCMailbox ------------------------------
(***************************************************************************)
(* The instance of Mailbox for TLC: three requests over three lives of the *)
(* server, so that a number is met again in a life after it was answered.  *)
(***************************************************************************)
EXTENDS Mailbox
=============================================================================
