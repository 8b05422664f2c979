--------------------------- MODULE MCLeaderStorage ---------------------------
(***************************************************************************)
(* LeaderStorage with the definitions its TLC run needs.                   *)
(***************************************************************************)
EXTENDS LeaderStorage

CONSTANTS c1, c2

\* c2's clock is ahead of c1's by the most that it may be.
SkewedClocks == [c \in Clients |-> IF c = c2 THEN MaxSkew ELSE 0]

=============================================================================
