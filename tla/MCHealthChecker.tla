-------------------------- MODULE MCHealthChecker ---------------------------
(* Model values for the health checker.                                     *)
EXTENDS HealthChecker

CONSTANTS a1, t1
=============================================================================
