------------------------------ MODULE MCSessions ------------------------------
(* Instances of Sessions for TLC. *)
EXTENDS Sessions, TLC

(* Devices, session ids and tasks are interchangeable. *)
Symmetry == Permutations(Devices) \cup Permutations(SessionIds)
              \cup Permutations(Tasks)
=============================================================================
