---------------------------- MODULE RetryPolicy ----------------------------
(***************************************************************************)
(* The pure decisions the worker takes about a failed attempt: what kind of *)
(* failure it was (processors/error-classifier.ts), whether another attempt *)
(* is allowed, and after which delay (queue/retry-policy.ts).               *)
(*                                                                          *)
(* Numbers that the code keeps as doubles are exact here: the multiplier is *)
(* a fraction [num, den] and the random factor a number of hundredths.      *)
(***************************************************************************)
EXTENDS Integers

-----------------------------------------------------------------------------
(* Errors, as far as classifyError looks at them. *)

\* error.code: the two codes the classifier knows, any other, or no code.
ErrorCodes == {"ECONNREFUSED", "ETIMEDOUT", "other", "absent"}

\* The words the classifier searches for in the lower-cased message.
PermanentWords == {"validation", "malformed", "invalid"}

\* What asErrorLike keeps of a thrown value: its code, whether its name
\* contains "Timeout", and which of the words above its message contains.
ErrorLike ==
  [code : ErrorCodes, timeoutName : BOOLEAN, words : SUBSET PermanentWords]

Classification == {"transient", "permanent"}

ClassifiedCodes ==
  {"TRANSIENT_DEPENDENCY_FAILURE", "PERMANENT_FAILURE", "UNKNOWN_ERROR"}

IsDependencyFailure(error) ==
  error.code \in {"ECONNREFUSED", "ETIMEDOUT"} \/ error.timeoutName

\* Mutant: the message is searched first.
ClassifyError_MessageFirst(error) ==
  CASE error.words # {} ->
         [classification |-> "permanent", code |-> "PERMANENT_FAILURE"]
    [] error.words = {} /\ IsDependencyFailure(error) ->
         [classification |-> "transient", code |-> "TRANSIENT_DEPENDENCY_FAILURE"]
    [] OTHER ->
         [classification |-> "transient", code |-> "UNKNOWN_ERROR"]

\* The three returns of classifyError, in its order: what looks like a
\* dependency failure is never searched for the words.
ClassifyError(error) ==
  CASE IsDependencyFailure(error) ->
         [classification |-> "transient", code |-> "TRANSIENT_DEPENDENCY_FAILURE"]
    [] ~IsDependencyFailure(error) /\ error.words # {} ->
         [classification |-> "permanent", code |-> "PERMANENT_FAILURE"]
    [] OTHER ->
         [classification |-> "transient", code |-> "UNKNOWN_ERROR"]

-----------------------------------------------------------------------------
(* Whether to try again, and when. *)

\* Mutant: one attempt too many.
ShouldRetry_OneMore(attempt, maxAttempts, classification) ==
  classification # "permanent" /\ attempt <= maxAttempts

ShouldRetry(attempt, maxAttempts, classification) ==
  classification # "permanent" /\ attempt < maxAttempts

\* null, the delay of an attempt beyond the maximum.
NoDelay == -1

Least(a, b) == IF a <= b THEN a ELSE b
Greatest(a, b) == IF a <= b THEN b ELSE a

\* Math.round of the non-negative fraction num / den: halves go up.
RoundHalfUp(num, den) == (2 * num + den) \div (2 * den)

\* Mutant: null for the last attempt that may be retried, too.
BeyondMaximum_Early(attempt, config) == attempt + 1 >= config.maxAttempts
BeyondMaximum(attempt, config) == attempt > config.maxAttempts

\* Mutant: the backoff of the next attempt.
Exponent_OneMore(attempt) == Greatest(1, attempt)
Exponent(attempt) == Greatest(1, attempt) - 1

\* Math.pow, of a whole base, as the function of its exponent.
Power(base) ==
  LET p[n \in Nat] == IF n = 0 THEN 1 ELSE base * p[n - 1]
  IN  p

\* Mutant: jitter to both sides of the backoff.
JitterFactor_Centred(config, random) == 10000 + config.jitterPercent * (2 * random - 100)

\* 1 + jitterPercent/100 * random/100, in ten-thousandths.
JitterFactor(config, random) == 10000 + config.jitterPercent * random

\* base * multiplier^(n-1), plus the jitter: jitterPercent of it, scaled by
\* the random factor cut to [0, 1]; all of it rounded.
CalculateBackoffDelay(attempt, config, randomHundredths) ==
  LET backoffNum == config.baseMs * Power(config.multiplier.num)[Exponent(attempt)]
      backoffDen == Power(config.multiplier.den)[Exponent(attempt)]
      random     == Least(100, Greatest(0, randomHundredths))
  IN  IF BeyondMaximum(attempt, config)
      THEN NoDelay
      ELSE Greatest(0, RoundHalfUp(backoffNum * JitterFactor(config, random),
                                   backoffDen * 10000))

\* processEvent's delay of a failed attempt, with the fallback it takes when
\* calculateBackoffDelay returns null.
RetryDelay(attempt, config, randomHundredths) ==
  LET delay == CalculateBackoffDelay(attempt, config, randomHundredths)
  IN  IF delay = NoDelay
      THEN RoundHalfUp(config.baseMs * config.multiplier.num, config.multiplier.den)
      ELSE delay

=============================================================================
