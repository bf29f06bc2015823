---------------------------- MODULE MCIngestion ----------------------------
(***************************************************************************)
(* Small instances of Ingestion for TLC.                                    *)
(***************************************************************************)
EXTENDS Ingestion, TLC

CONSTANTS r1, r2

\* A good request whose signature was made at second 2.
Genuine ==
  [headers |-> TRUE, algorithm |-> "sha256", timestamp |-> 2,
   rawBody |-> TRUE, authentic |-> TRUE, wellFormed |-> TRUE]

\* Good requests, and one of each kind that is refused.
AllContents == {
  Genuine,
  [Genuine EXCEPT !.headers = FALSE],
  [Genuine EXCEPT !.algorithm = "unsupported"],
  [Genuine EXCEPT !.timestamp = 0],
  [Genuine EXCEPT !.rawBody = FALSE],
  [Genuine EXCEPT !.authentic = FALSE],
  [Genuine EXCEPT !.wellFormed = FALSE]}

\* A good request, and one whose body is no event.
TwoContents == {Genuine, [Genuine EXCEPT !.wellFormed = FALSE]}

Alike == Permutations({r1, r2})

=============================================================================
