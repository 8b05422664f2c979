---------------------------- MODULE MCLeaseTiming ----------------------------
(***************************************************************************)
(* LeaseTiming with the definitions its TLC runs need.                     *)
(***************************************************************************)
EXTENDS LeaseTiming

CONSTANTS c1, c2, c3

=============================================================================
