----------------------------- MODULE MCCQSBalancer -----------------------------
(* Instances of CQSBalancer for TLC. *)
EXTENDS CQSBalancer, TLC

Triple(a, b, c) == [a |-> a, b |-> b, c |-> c]

\* Default weights, and weights after B and C have been raised.
TwoTriples == {Triple(800, 100, 100), Triple(400, 200, 400)}
OneTriple  == {Triple(800, 100, 100)}

Symmetry == Permutations(Backends) \cup Permutations(Handlers)
=============================================================================
