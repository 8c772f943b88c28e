------------------------------- MODULE MCCalls -------------------------------
(* Instances of Calls for TLC. *)
EXTENDS Calls, TLC

(* Users, call ids and tasks are interchangeable. *)
Symmetry == Permutations(Users) \cup Permutations(CallIds)
              \cup Permutations(Tasks)
=============================================================================
