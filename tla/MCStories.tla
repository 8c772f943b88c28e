----------------------------- MODULE MCStories ------------------------------
(* Viewers and tasks are interchangeable. *)
EXTENDS Stories, TLC

Symmetry == Permutations(Viewers) \cup Permutations(Tasks)
=============================================================================
