------------------------------ MODULE MCSignIn ------------------------------
(* The instance of SignIn for TLC. *)
EXTENDS SignIn, TLC

Perms == Permutations(Tasks)
=============================================================================
