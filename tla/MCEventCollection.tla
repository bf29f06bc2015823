------------------------- MODULE MCEventCollection -------------------------
(***************************************************************************)
(* Small collections for TLC.                                               *)
(***************************************************************************)
EXTENDS EventCollection, TLC

CONSTANTS k1, c1, c2, c3, d1, d2

Symmetric == Permutations({c1, c2, c3}) \cup Permutations({d1, d2})

=============================================================================
