----------------------------- MODULE MCCQSBackend -----------------------------
(* An instance of CQSBackend for TLC. *)
EXTENDS CQSBackend
=============================================================================
