-------------------------- MODULE MCRetryCampaign --------------------------
(***************************************************************************)
(* Retry configurations, errors and random factors for TLC.                 *)
(***************************************************************************)
EXTENDS RetryCampaign

MCConfigs ==
  [baseMs : {1, 7, 1000},
   multiplier : {[num |-> 1, den |-> 2], [num |-> 1, den |-> 1],
                 [num |-> 3, den |-> 2], [num |-> 2, den |-> 1]},
   jitterPercent : {0, 20, 50, 100},
   maxAttempts : {1, 2, 4, 5}]

\* A refused connection whose message is about bad data, a timeout by name,
\* two kinds of bad data, an error with a code the classifier does not know.
MCErrors == {
  [code |-> "ECONNREFUSED", timeoutName |-> FALSE, words |-> {"invalid"}],
  [code |-> "absent", timeoutName |-> TRUE, words |-> {}],
  [code |-> "absent", timeoutName |-> FALSE, words |-> {"invalid"}],
  [code |-> "other", timeoutName |-> FALSE, words |-> {"validation", "malformed"}],
  [code |-> "other", timeoutName |-> FALSE, words |-> {}]}

MCRandoms == {0, 1, 50, 99}

=============================================================================
