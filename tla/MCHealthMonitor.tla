-------------------------- MODULE MCHealthMonitor ---------------------------
(* HealthMonitor for TLC: one statistics call, probes numbered 1..2.       *)
EXTENDS HealthMonitor

MCProbes == 1..2
=============================================================================
