------------------------------ MODULE MCMetrics ------------------------------
(* Instances of Metrics for TLC. *)
EXTENDS Metrics

MCPolicy == [base |-> 1, max |-> 2, jitter |-> 4]
=============================================================================
