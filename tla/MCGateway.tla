------------------------------ MODULE MCGateway ------------------------------
(***************************************************************************)
(* A small instance of Gateway for TLC.                                     *)
(***************************************************************************)
EXTENDS Gateway, TLC

CONSTANTS k1, x1, w1, w2, s1, s2, r1, r2

\* Two requests with one event, and the job of each.
TwoJobs == {r1, r2} \X {1}
OneEvent == [job \in TwoJobs |-> k1]
OneShipment == [job \in TwoJobs |-> x1]
\* The first request's payload lacks a field.
FirstMalformed == {r1} \X {1}
TwoHosts == (s1 :> w1) @@ (s2 :> w2)
OneError == {[code |-> "ECONNREFUSED", timeoutName |-> FALSE, words |-> {}]}

\* A genuine request, and one with a signature of another body.
Genuine ==
  [headers |-> TRUE, algorithm |-> "sha256", timestamp |-> 1,
   rawBody |-> TRUE, authentic |-> TRUE, wellFormed |-> TRUE]
Forged == [Genuine EXCEPT !.authentic = FALSE]
TwoContents == {Genuine, Forged}

=============================================================================
