----------------------------- MODULE MCGateway -----------------------------
(* Instances of Gateway for TLC. No symmetry: a run checks liveness. *)
EXTENDS Gateway, TLC
=============================================================================
