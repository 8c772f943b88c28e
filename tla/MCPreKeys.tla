----------------------------- MODULE MCPreKeys ------------------------------
(* The instance of PreKeys for TLC: a batch of one key, one of two, the     *)
(* larger id first, and one that repeats an id.                             *)
EXTENDS PreKeys

SomeBatches == {<<1>>, <<2, 1>>, <<1, 1>>}
=============================================================================
