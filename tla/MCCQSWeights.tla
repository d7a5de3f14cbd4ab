----------------------------- MODULE MCCQSWeights -----------------------------
(* Instances of CQSWeights for TLC. *)
EXTENDS CQSWeights, TLC

Symmetry == Permutations(Backends)
=============================================================================
