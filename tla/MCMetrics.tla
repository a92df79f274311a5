------------------------------ MODULE MCMetrics ------------------------------
(* Small instances of Metrics for TLC.                                       *)
EXTENDS Metrics, TLC

MCBounds == <<1, 3>>
MetricsSymmetry == Permutations(Requests) \cup Permutations(Methods)
=============================================================================
