----------------------------- MODULE MCRaftElection -----------------------------
(* Instance of RaftElection for TLC. *)
EXTENDS RaftElection, TLC

Symmetry == Permutations(Nodes)
=============================================================================
