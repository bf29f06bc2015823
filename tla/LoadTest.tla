------------------------------ MODULE LoadTest ------------------------------
(***************************************************************************)
(* scripts/load-test: the load generator, its report, and the threshold     *)
(* check that reads processed_events while the workers are still busy.      *)
(*                                                                          *)
(* The gateway is what the script sees of it: an answer to each request,    *)
(* and records that go through the lifecycle of EventLedger once a job for  *)
(* their key is in the queue.                                               *)
(***************************************************************************)
EXTENDS Integers, Sequences, FiniteSets, Functions

CONSTANTS
  TotalRequests,     \* LOADTEST_TOTAL_REQUESTS
  Concurrency,       \* LOADTEST_CONCURRENCY
  DuplicatePercent,  \* LOADTEST_DUPLICATE_PERCENT
  Earlier,           \* keys of records that earlier runs have left
  Tolerance,         \* SIGNATURE_TOLERANCE_SECONDS of the API
  AcceptPercent,     \* the share of events SC-001 wants accepted: 99
  LatencyPercentile, \* the percentile it looks at: 95
  LatencyLimit,      \* the limit for that: 2000 ms
  Answers,           \* bound: the answers of the target that are looked at
  MaxTime,           \* bound: the clock stops there
  MaxAttempts,       \* RETRY_MAX_ATTEMPTS of the workers
  None               \* no event, no verdict

Events == 0..TotalRequests - 1
Senders == 1..Concurrency
Keys == Events \cup Earlier

\* What is configured as a percentage, and what is counted as an answer: the status
\* codes, and 0 for a fetch that threw.
Percentages == 1..100
StatusCodes == {202, 400, 401, 500, 503, 0}

ASSUME LoadTestAssumption ==
  /\ {TotalRequests, Concurrency} \subseteq Nat \ {0}
  /\ {DuplicatePercent, AcceptPercent, LatencyPercentile} \subseteq Percentages
  /\ LatencyPercentile <= AcceptPercent
  /\ {Tolerance, LatencyLimit, MaxTime} \subseteq Nat
  /\ MaxAttempts \in Nat \ {0}
  /\ Answers \subseteq StatusCodes
  /\ Earlier \cap Events = {} /\ IsFiniteSet(Earlier)
  /\ None \notin Int

VARIABLES
  now,         \* the clock; the events were built and signed at 0
  keyOf,       \* the idempotency key of each prepared event
  cursor,      \* the pool's shared cursor
  sender,      \* the event each consumer of the pool waits for, and since when
  reply,       \* the answer each event got
  counts,      \* totalSent, and how many got each answer
  duplicates,  \* duplicateAccepted and duplicateRejected
  latencies,   \* latenciesMs
  took,        \* history: how long each answered event took
  stage,       \* what run() is at: the pool, or a read of the threshold check
  report,      \* the report
  stats,       \* what the threshold check has read so far
  verdict,     \* and its result
  queued,      \* external: keys with a job in courier-events-main
  status,      \* external: processed_events, as EventLedger has it
  attempts

pool == <<cursor, sender, reply, counts, duplicates, latencies, took>>
check == <<stage, report, stats, verdict>>
gateway == <<queued, status, attempts>>
vars == <<now, keyOf, pool, check, gateway>>

-----------------------------------------------------------------------------
(* The prepared events *)

\* fetch threw.
NoAnswer == 0

AtLeast(a, b) == IF a >= b THEN a ELSE b
AtMost(a, b) == IF a <= b THEN a ELSE b

SourcePoolSize == AtLeast(1, TotalRequests \div 2)

Duplicates ==
  SourcePoolSize..AtMost(TotalRequests,
                         SourcePoolSize + (TotalRequests * DuplicatePercent) \div 100) - 1

\* Mutant: a source is drawn from all events.
Sources_AnyEvent == Events

Sources == 0..SourcePoolSize - 1

\* buildEvents: an event's own key, or, for a duplicate, that of a random source.
Prepared ==
  {key \in [Events -> Events] :
     \A i \in Events : IF i \in Duplicates THEN key[i] \in Sources ELSE key[i] = i}

\* What the script counts: what was sent, and each answer but 500, which stands
\* for every other status.
Counters == {"accepted202", "badRequest400", "unauthorized401", "serviceUnavailable503",
             "networkErrors", "totalSent"}

CounterOf(answer) ==
  CASE answer = 202 -> "accepted202"
    [] answer = 400 -> "badRequest400"
    [] answer = 401 -> "unauthorized401"
    [] answer = 503 -> "serviceUnavailable503"
    [] answer = NoAnswer -> "networkErrors"
    [] OTHER -> "totalSent"

\* An earlier run has left no record, one that is stuck, or one that has ended.
EarlierStatus == {"none", "processing", "processed"}

Free == [event |-> None, startedAt |-> 0]

Init ==
  /\ now = 0
  /\ keyOf \in Prepared
  /\ cursor = 0
  /\ sender = [c \in Senders |-> Free]
  /\ reply = [i \in Events |-> None]
  /\ counts = [c \in Counters |-> 0]
  /\ duplicates = [accepted |-> 0, rejected |-> 0]
  /\ latencies = <<>>
  /\ took = [i \in Events |-> 0]
  /\ stage = "pool"
  /\ report = None
  /\ stats = <<>>
  /\ verdict = None
  /\ queued = {}
  /\ status \in {s \in [Keys -> EarlierStatus] : \A i \in Events : s[i] = "none"}
  /\ attempts = [k \in Keys |-> IF status[k] = "none" THEN 0 ELSE 1]

-----------------------------------------------------------------------------
(* The gateway, as the script meets it *)

Tick ==
  /\ stage = "pool" /\ now < MaxTime
  /\ now' = now + 1
  /\ UNCHANGED <<keyOf, pool, check, gateway>>

Ledger == INSTANCE EventLedger WITH
  Key <- Keys, LostReplies <- FALSE, MaxMessages <- 1,
  letters <- [k \in Keys |-> 0], messages <- [k \in Keys |-> 0]

\* A worker moves the record of an event that has a job. Before the report nobody
\* reads a record, so what is done by then can as well be done just after it.
WorkersStep(k) ==
  /\ k \in queued /\ stage # "pool"
  /\ \/ Ledger!Receive(k) \/ Ledger!Begin(k) \/ Ledger!Succeed(k)
     \/ Ledger!Fail(k) \/ Ledger!Bury(k)
  /\ UNCHANGED <<now, keyOf, pool, check, queued>>

\* What the API may answer to a request it saw between startedAt and now, whose
\* signature was made when it was prepared: its guard refuses a stale one.
MayAnswer(answer, startedAt) ==
  /\ answer = 401 => now > Tolerance
  /\ answer \in {202, 503} => startedAt <= Tolerance

\* 202 comes with a job; an answer that tells of trouble may come with one.
JobsOf(answer, k) ==
  CASE answer = 202 -> {{k}}
    [] answer \in {500, 503} -> {{}, {k}}
    [] OTHER -> {{}}

\* fetch threw, and the API still works on the request: it may wait for Redis and
\* add the job long after. What is added by the time of the report can, like what
\* the workers do, as well be added just after it.
LateJob(i) ==
  /\ stage # "pool" /\ reply[i] = NoAnswer
  /\ queued' = queued \cup {keyOf[i]}
  /\ UNCHANGED <<now, keyOf, pool, check, status, attempts>>

-----------------------------------------------------------------------------
(* runConcurrencyPool *)

\* Mutant: the cursor moves on only when the answer is there.
NextCursor_Late == cursor

NextCursor == cursor + 1

\* A free consumer takes the next event and sends it.
Take(c) ==
  /\ stage = "pool"
  /\ sender[c] = Free /\ cursor \in Events
  /\ sender' = [sender EXCEPT ![c] = [event |-> cursor, startedAt |-> now]]
  /\ cursor' = NextCursor
  /\ UNCHANGED <<now, keyOf, reply, counts, duplicates, latencies, took, check, gateway>>

\* The counters after an answer, or after fetch threw.
Count(answer) ==
  [c \in Counters |-> counts[c] + (IF c \in {"totalSent", CounterOf(answer)} THEN 1 ELSE 0)]

\* The answer arrives, or fetch throws; the consumer is free for the next event.
Answer(c) ==
  LET i == sender[c].event
      startedAt == sender[c].startedAt
  IN  /\ i # None
      /\ \E answer \in Answers :
           /\ MayAnswer(answer, startedAt)
           /\ \E jobs \in JobsOf(answer, keyOf[i]) : queued' = queued \cup jobs
           /\ reply' = [reply EXCEPT ![i] = answer]
           /\ counts' = Count(answer)
           /\ duplicates' =
                IF i \notin Duplicates THEN duplicates
                ELSE [duplicates EXCEPT !.accepted = @ + (IF answer = 202 THEN 1 ELSE 0),
                                        !.rejected = @ + (IF answer \in {400, 401} THEN 1 ELSE 0)]
      /\ latencies' = Append(latencies, now - startedAt)
      /\ took' = [took EXCEPT ![i] = now - startedAt]
      /\ sender' = [sender EXCEPT ![c] = Free]
      /\ UNCHANGED <<now, keyOf, cursor, check, status, attempts>>

-----------------------------------------------------------------------------
(* generateReport *)

\* Mutant: the index is rounded down.
PercentileIndex_Floor(length, p) == (p * length) \div 100

\* Math.ceil of p percent of the length, counted from one; at least one.
PercentileIndex(length, p) == AtMost(length, AtLeast(1, (p * length + 99) \div 100))

\* The values in ascending order.
Sorted(values) ==
  LET order == CHOOSE p \in Bijection(DOMAIN values, DOMAIN values) :
                 \A i, j \in DOMAIN values : i < j => values[p[i]] <= values[p[j]]
  IN  [i \in DOMAIN values |-> values[order[i]]]

Percentile(values, p) ==
  IF values = <<>> THEN 0 ELSE Sorted(values)[PercentileIndex(Len(values), p)]

\* Enough events accepted, and the percentile of all latencies within the limit.
Acceptable(accepted, total, p95) ==
  100 * accepted >= AcceptPercent * total /\ p95 <= LatencyLimit

\* The pool has ended. No counter of retryOutcomes is ever moved, so the report
\* finds no retry-eligible failure; sc002 is left to the threshold check.
GenerateReport ==
  /\ stage = "pool"
  /\ cursor \notin Events /\ \A c \in Senders : sender[c] = Free
  /\ LET p95 == Percentile(latencies, LatencyPercentile)
         injected == Cardinality(Duplicates)
     IN  report' =
           [accepted |-> counts["accepted202"], totalSent |-> counts["totalSent"], p95 |-> p95,
            rejected |-> counts["badRequest400"] + counts["unauthorized401"],
            sc001 |-> Acceptable(counts["accepted202"], AtLeast(1, counts["totalSent"]), p95),
            sc003 |-> injected > 0 /\ duplicates.accepted <= injected]
  /\ stage' = "totalTracked"
  /\ UNCHANGED <<now, keyOf, pool, stats, verdict, gateway>>

-----------------------------------------------------------------------------
(* assertThresholds: counts of processed_events, one read after the other *)

Tracked == {k \in Keys : status[k] # "none"}

\* Mutant: a failed record counts as terminal.
TerminalTracked_Failed == {k \in Keys : status[k] \in {"processed", "failed", "dead_lettered"}}

TerminalTracked == {k \in Keys : status[k] \in {"processed", "dead_lettered"}}

RetryEligible == {k \in Keys : attempts[k] > 1}

Recovered == {k \in RetryEligible : status[k] = "processed"}

\* The reads, in their order, and what they return; idempotencyKey is unique, so
\* no group of the aggregation has two records.
Reads == <<"totalTracked", "terminalTracked", "duplicateKeys", "retryEligible", "recovered">>

ReadResult(read) ==
  CASE read = "totalTracked"    -> Cardinality(Tracked)
    [] read = "terminalTracked" -> Cardinality(TerminalTracked)
    [] read = "duplicateKeys"   -> 0
    [] read = "retryEligible"   -> Cardinality(RetryEligible)
    [] read = "recovered"       -> Cardinality(Recovered)

Skipped == [sc002 |-> FALSE, sc003 |-> FALSE, sc004 |-> FALSE]

\* The three criteria that need the database, from the five figures.
Criteria(total, terminal, groups, eligible, recovered) ==
  [sc002 |-> total > 0 /\ terminal = total,
   sc003 |-> groups = 0,
   sc004 |-> eligible = 0 \/ 100 * recovered >= 95 * eligible]

Sc001 ==
  report.totalSent > 0 /\ Acceptable(report.accepted, report.totalSent, report.p95)

\* One read. After the last one, or a failed one, the verdict is there.
Read ==
  LET n == Len(stats) + 1
      done(criteria) == stage' = "done" /\ stats' = <<>>
                          /\ verdict' = [sc001 |-> Sc001, database |-> criteria]
  IN  /\ stage = Reads[n]
      /\ \/ /\ n < Len(Reads)
            /\ stats' = Append(stats, ReadResult(stage))
            /\ stage' = Reads[n + 1]
            /\ UNCHANGED verdict
         \/ /\ n = Len(Reads)
            /\ done(Criteria(stats[1], stats[2], stats[3], stats[4], ReadResult(stage)))
         \/ done(Skipped)
      /\ UNCHANGED <<now, keyOf, pool, report, gateway>>

\* The check as a command of its own, on the report that was saved.
Reassert ==
  /\ stage = "done"
  /\ stage' = "totalTracked"
  /\ UNCHANGED <<now, keyOf, pool, report, stats, verdict, gateway>>

-----------------------------------------------------------------------------
Next ==
  \/ Tick
  \/ \E k \in Keys : WorkersStep(k)
  \/ \E i \in Events : LateJob(i)
  \/ \E c \in Senders : Take(c) \/ Answer(c)
  \/ GenerateReport \/ Read \/ Reassert

Spec == Init /\ [][Next]_vars

-----------------------------------------------------------------------------
(* Properties *)

\* The consumers share a cursor and nothing else, and yet each event is sent by
\* one of them, once: it is still to be taken, or one consumer waits for its
\* answer, or it has been answered. The report is made when all have been.
PoolSendsEachOnce ==
  /\ \A i \in Events :
       LET waiting == {c \in Senders : sender[c].event = i}
       IN  /\ i >= cursor => waiting = {} /\ reply[i] = None
           /\ i < cursor => Cardinality(waiting) = IF reply[i] = None THEN 1 ELSE 0
  /\ counts["totalSent"] = Cardinality({i \in Events : reply[i] # None})
  /\ stage # "pool" => counts["totalSent"] = TotalRequests

\* A duplicate repeats the key of an event that is not one itself, so that the
\* run leaves no more records than it has prepared distinct events, however the
\* duplicates were drawn and whichever of the two was processed.
DuplicatesMakeNoRecords ==
  Cardinality(Tracked \ Earlier) <= TotalRequests - Cardinality(Duplicates)

\* spec.md asks for 99% of the events acknowledged within two seconds. The code asks
\* for 99% acknowledged and for 95% of all answers within two seconds, which is less:
\* report and check, which compute it each in its way, always pass a run that meets
\* the specification, and may pass one with 94% acknowledged in time, but not with less.
Sc001BracketsSpec ==
  LET acknowledged == {i \in Events : reply[i] = 202 /\ took[i] <= LatencyLimit}
      share(percent) == 100 * Cardinality(acknowledged) >= percent * TotalRequests
  IN  /\ report # None =>
           /\ share(AcceptPercent) => report.sc001
           /\ report.sc001 => share(AcceptPercent + LatencyPercentile - 100)
      /\ verdict # None => verdict.sc001 = report.sc001

\* The five counts are read one after the other, and the workers do not wait. What a
\* check is worth all the same, when it ends: SC-002 passes only if every record has
\* ended, or one was added after the first read; SC-004 fails only if too few records
\* have recovered, and passes only if enough have or one became eligible meanwhile.
CheckBesideWorkers ==
  [][stage # "done" /\ stage' = "done" /\ verdict'.database # Skipped =>
       LET tracked == {k \in Keys : status[k] # "none"}
           eligible == {k \in Keys : attempts[k] > 1}
           recovered == {k \in eligible : status[k] = "processed"}
           enough == 100 * Cardinality(recovered) >= 95 * Cardinality(eligible)
       IN  /\ verdict'.database.sc002 /\ stats[1] = Cardinality(tracked) =>
                \A k \in tracked : status[k] \in {"processed", "dead_lettered"}
           /\ ~verdict'.database.sc004 => ~enough
           /\ verdict'.database.sc004 /\ stats[4] = Cardinality(eligible) => enough]_vars

=============================================================================
