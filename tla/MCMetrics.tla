------------------------------- MODULE MCMetrics -------------------------------
(* Instance of MetricsLoggers for TLC. *)
EXTENDS MetricsLoggers
=============================================================================
