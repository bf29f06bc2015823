----------------------------- MODULE MCLoadTest -----------------------------
(***************************************************************************)
(* A small load test for TLC.                                               *)
(***************************************************************************)
EXTENDS LoadTest

CONSTANT old

=============================================================================
