------------------------------ MODULE MCQLBaseline ------------------------------
(* An instance of QLBaseline for TLC. *)
EXTENDS QLBaseline, TLC

Symmetry == Permutations(Nodes) \cup Permutations(Reqs) \cup Permutations(Jobs)
=============================================================================
