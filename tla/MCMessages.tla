----------------------------- MODULE MCMessages -----------------------------
(* Instances of Messages for TLC. The runs tell the users apart: some      *)
(* leave, some read the history.                                           *)
EXTENDS Messages, TLC

Symmetry == Permutations(Tasks)
=============================================================================
