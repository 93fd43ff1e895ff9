---------------------------- MODULE MCEmailOutbox ----------------------------
(***************************************************************************)
(* A small instance of EmailOutbox: a password reset and a welcome to one  *)
(* address.                                                                *)
(***************************************************************************)
EXTENDS EmailOutbox, TLC

CONSTANTS reset, welcome, member

OneAddress == [m \in Emails |-> member]
=============================================================================
