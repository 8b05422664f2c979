---------------------------- MODULE MCWorkloads ----------------------------
(* Two controllers, and one goroutine of retryFailedWorkloads. *)
EXTENDS Workloads

CONSTANTS c1, c2, r1

=============================================================================
