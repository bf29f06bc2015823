--------------------------- MODULE RetryCampaign ---------------------------
(***************************************************************************)
(* One event that fails again and again: the decisions of RetryPolicy as   *)
(* processEvent's catch block takes them, attempt after attempt, with the  *)
(* delay it computes for each. (Nothing in the code waits for that delay:   *)
(* EventWorkerClaims shows what comes of it.)                              *)
(***************************************************************************)
EXTENDS RetryPolicy

CONSTANTS
  Configs,  \* retry configurations that loadWorkerEnv accepts
  Errors,   \* what may be thrown inside the try block
  Randoms   \* values of Math.random(), in hundredths

\* loadWorkerEnv's schema: what each setting is at least, and at most.
LegalConfig(config) ==
  /\ config.baseMs \in Nat \ {0}
  /\ config.multiplier.num \in Nat \ {0}
  /\ config.multiplier.den \in Nat \ {0}
  /\ config.jitterPercent \in 0..100
  /\ config.maxAttempts \in Nat \ {0}

ASSUME RetryCampaignAssumption ==
  /\ \A config \in Configs : LegalConfig(config)
  /\ Errors \subseteq ErrorLike
  /\ Randoms \subseteq 0..99

VARIABLES
  config,   \* the configuration, fixed at start
  attempt,  \* the attempt under way
  delay,    \* the delay computed after the last one, NoDelay before that
  error,    \* what the last one threw
  outcome   \* "trying" until markDeadLettered

vars == <<config, attempt, delay, error, outcome>>

NoError == [code |-> "absent", timeoutName |-> FALSE, words |-> {}]

Init ==
  /\ config \in Configs
  /\ attempt = 1
  /\ delay = NoDelay
  /\ error = NoError
  /\ outcome = "trying"

Classified == ClassifyError(error')

\* The catch block allows another attempt, and computes its delay.
Retry ==
  /\ ShouldRetry(attempt, config.maxAttempts, Classified.classification)
  /\ \E random \in Randoms : delay' = RetryDelay(attempt, config, random)
  /\ attempt' = attempt + 1
  /\ UNCHANGED outcome

GiveUp ==
  /\ ~ShouldRetry(attempt, config.maxAttempts, Classified.classification)
  /\ outcome' = "dead_lettered"
  /\ UNCHANGED <<attempt, delay>>

Next ==
  /\ outcome = "trying"
  /\ UNCHANGED config
  /\ error' \in Errors
  /\ Retry \/ GiveUp

Spec == Init /\ [][Next]_vars

-----------------------------------------------------------------------------
\* The delay after the attempt before this one, at a random factor of r.
Expected(r) ==
  LET factor == Power(config.multiplier.num)[attempt - 2]
      unit   == 10000 * Power(config.multiplier.den)[attempt - 2]
  IN  [num |-> config.baseMs * factor * (10000 + config.jitterPercent * r), den |-> unit]

\* docs/queues.md:76: a delay lies between the exponential backoff of its
\* attempt and that plus jitterPercent of it, but for half a millisecond of
\* rounding: no attempt is delayed by the backoff of another.
DelayInJitterBand ==
  attempt >= 2 =>
    /\ 2 * delay * Expected(0).den + Expected(0).den >= 2 * Expected(0).num
    /\ 2 * delay * Expected(100).den <= 2 * Expected(100).num + Expected(100).den

\* An outage of a dependency uses up every attempt before it buries an event,
\* even if the message of the error sounds like bad data.
OutageUsesEveryAttempt ==
  outcome = "dead_lettered" /\ IsDependencyFailure(error) => attempt = config.maxAttempts

\* The fallback of process-event.ts:160 is never taken: whenever shouldRetry
\* allows an attempt, calculateBackoffDelay knows its delay. (Were it taken, the
\* delay would have neither growth nor jitter.)
FallbackNeverTaken ==
  \A r \in Randoms :
    attempt < config.maxAttempts => CalculateBackoffDelay(attempt, config, r) # NoDelay

\* With a multiplier of at least 1 + jitterPercent/100 (the defaults: 2 and 20)
\* no draw of the jitter makes a later delay shorter than an earlier one.
JitterNeverUndoesBackoff ==
  [][/\ 100 * config.multiplier.num >=
          (100 + config.jitterPercent) * config.multiplier.den
     /\ delay # NoDelay
     => delay' >= delay]_vars

=============================================================================
