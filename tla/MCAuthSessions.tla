---------------------------- MODULE MCAuthSessions ----------------------------
(***************************************************************************)
(* A small instance of AuthSessions.                                       *)
(***************************************************************************)
EXTENDS AuthSessions, TLC

CallerSymmetry == Permutations(Callers)
=============================================================================
