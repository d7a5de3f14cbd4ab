------------------------------ MODULE MCCQSSystem ------------------------------
(* An instance of CQSSystem for TLC. *)
EXTENDS CQSSystem
=============================================================================
