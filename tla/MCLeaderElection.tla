-------------------------- MODULE MCLeaderElection --------------------------
(***************************************************************************)
(* LeaderElection with the names of the controllers in its TLC runs.       *)
(***************************************************************************)
EXTENDS LeaderElection

CONSTANTS c1, c2

=============================================================================
