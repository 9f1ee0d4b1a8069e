-------------------------- MODULE MCPasswordReset --------------------------
(***************************************************************************)
(* Three concurrent jobs or confirmations and three tokens.                *)
(***************************************************************************)
EXTENDS PasswordReset, TLC

CONSTANTS r1, r2, r3
Symmetry == Permutations(Requests)
=============================================================================
