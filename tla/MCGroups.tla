------------------------------ MODULE MCGroups ------------------------------
(* Instances of Groups for TLC. *)
EXTENDS Groups, TLC

(* Users and tasks are interchangeable. *)
Symmetry == Permutations(Users) \cup Permutations(Tasks)
=============================================================================
