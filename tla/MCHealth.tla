------------------------------ MODULE MCHealth ------------------------------
(***************************************************************************)
(* A small instance of Health for TLC.                                      *)
(***************************************************************************)
EXTENDS Health, TLC

CONSTANTS r1, r2, p1

\* A good request, and one whose body is no event.
Genuine ==
  [headers |-> TRUE, algorithm |-> "sha256", timestamp |-> 1,
   rawBody |-> TRUE, authentic |-> TRUE, wellFormed |-> TRUE]
TwoContents == {Genuine, [Genuine EXCEPT !.wellFormed = FALSE]}

=============================================================================
