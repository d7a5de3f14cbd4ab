------------------------------ MODULE MCCQSClient ------------------------------
(* Instances of CQSClient for TLC. *)
EXTENDS CQSClient

\* Rates of /hello10 and of the default.
TwoRates == {2, 10}
================================================================================
