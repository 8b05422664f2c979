---------------------------- MODULE MCCRDWatcher ----------------------------
(* One controller. *)
EXTENDS CRDWatcher

CONSTANTS c1

=============================================================================
