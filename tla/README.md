# Verification of the courier event gateway

TLA+ models of the Fincart event gateway, TLC runs that check them on small
instances, and TLAPS proofs of their main safety properties for every value of
the constants. Paths are relative to the root of the repository.

Run, in this directory, `tlc -config EventWorker_faults.cfg MCEventWorker` (a
run), or `tlapm EventWorker_proofs.tla` (the proofs of a module).
`PROJECT.json` lists the runs, what each definition models, the mutations that
each property detects, the hazards of the code and the theorems.

## 1. The system

Couriers post signed events to **gateway-api**, which adds them to the BullMQ
queue `courier-events-main`. Processes of **gateway-worker** take the jobs and
keep three MongoDB collections; events that fail for good go to
`dead_letter_events` and to the queue `courier-events-dlq`, from where an
operator's **script** can replay them.

| Part | State | Operations | Talks to |
|---|---|---|---|
| Ingestion route (`gateway-api/src/routes`, `controllers`, `middleware`, `services`) | none of its own; requests between awaits | signature guard, validation, audit record, `queue.add`, answer | `ingestion_records`, main queue |
| API process (`gateway-api/src/main.ts`) | listening, closing, down; Redis connection | start, SIGTERM/SIGINT | route |
| Main queue (BullMQ) | jobs: waiting, active and locked, completed, failed | add, fetch, settle, stalled check | API, script, workers |
| Event processor (`gateway-worker/src/processors`, `queue/worker.ts`) | up to `WORKER_CONCURRENCY` jobs between awaits | `processEvent` | everything below |
| Ledger (`processed-events.repository.ts`) | status, attempt count and history per idempotency key | markReceived, markProcessing, markProcessed, markFailed, markDeadLettered, find | MongoDB |
| Shipments (`active-shipments.repository.ts`) | last event per shipment | upsertShipment | MongoDB |
| Dead letters (`dead-letter-events.repository.ts`, DLQ) | documents, their review status, messages | persistDeadLetter, `dlqQueue.add` | MongoDB, Redis |
| Retry policy (`retry-policy.ts`, `error-classifier.ts`) | none | classifyError, shouldRetry, calculateBackoffDelay | processor |
| Worker process (`gateway-worker/src/main.ts`) | up, draining, down | start, SIGTERM/SIGINT, drain timeout | processor |
| Replay script (`scripts/dlq/replay-dlq.ts`) | the batch it has read | find, add, mark | dead letters, main queue |
| Health checks (`gateway-api/src/health`, `gateway-worker/src/health`) | what a probe has found so far | ping Redis, ping MongoDB, report | Redis, MongoDB |
| Index script (`scripts/db/init-indexes.ts`) | the indexes left to create | createIndex | the collections |
| Load test (`scripts/load-test`, `scripts/signing`) | pool, counters, report, figures read | build and sign, send, report, assert thresholds | route, ledger |

What is hard here: several executions of the processor share one ledger record
and see each other only through single-document updates; every call may fail,
or take effect and fail all the same; processes die between any two calls;
BullMQ hands a job out again while its first execution still runs; Redis
outages make the API wait rather than fail, health probes and shutdowns
included; the one thing that makes a key unique is an index created by hand; and
the recovery that exists is only the redelivery of a job, which the idempotency
gate then looks at.

What makes each part correct:

* **processor and ledger**: one execution at a time per event; each attempt
  counted once and never more than `RETRY_MAX_ATTEMPTS`; final statuses final;
  every event ends processed or dead-lettered; nothing completes without work;
* **dead letters**: complete history, one document and one message per event,
  no message without a document, a document for every dead-lettered event;
* **retry policy**: delays within the documented band, growing, defined for every
  attempt that is allowed; outages never mistaken for bad data;
* **ingestion**: 202 only with a job; jobs only for verified requests; audit
  trail and answer consistent; duplicates bounded; every request answered;
* **queue and processes**: jobs neither lost nor redelivered forever; shutdowns
  that wait for what is in flight;
* **replay**: no letter marked without a job; a replay leaves closed events
  closed;
* **health and shutdown**: every probe answered; an audit trail without holes while
  MongoDB is up; a shutdown that ends;
* **indexes**: where the unique index is, it was never too late;
* **load test**: each event sent once, figures that say something of the criteria;
* **the whole**: only verified events are processed, and every event that was
  submitted has one final outcome.

Where the code does not have one of these properties, the run that shows it is
in section 5.

## 2. Modules

| Module | Models | Extends |
|---|---|---|
| `RetryPolicy` | `error-classifier.ts`, `retry-policy.ts` as operators | |
| `RetryCampaign` | the failures of one event, attempt after attempt, with the delays that are computed | `RetryPolicy` |
| `EventWorker` | worker processes, `processEvent`, the three collections, both queues | `RetryPolicy` |
| `EventLedger` | abstract: the lifecycle of an event in the ledger | |
| `EventWorkerClaims` | sentences of the documents, as formulas | `EventWorker` |
| `DlqReplay` | the replay script beside the workers | `EventWorker` |
| `Ingestion` | the ingestion route and the API process | |
| `Health` | `GET /health` beside the route, and what the shutdown waits for | `Ingestion` |
| `Gateway` | API and workers, joined by the main queue | `EventWorker`, an instance of `Ingestion` |
| `EventPromise` | abstract: what couriers and operators are promised | |
| `EventCollection` | `processed_events` as documents, and the index script | an instance of `EventLedger` |
| `LoadTest` | the load test, its report and its threshold check | an instance of `EventLedger` |
| `MC...` | the constants of TLC's runs | |
| `..._proofs` | theorems and their proofs | |

### EventWorker

A *slot* is one concurrent job execution of a worker process. `run[s].step` is
the await the slot is at; an action of a slot is the call it awaits together
with all the code up to the next await, since Node.js does not interrupt that.
So `MarkProcessing` contains the update of the ledger, the early return when the
lock is refused, the two `getPayloadField` calls, and, if one of them throws, the
catch block up to its first await (`Catch`).

| Action | Code (`gateway-worker/src/`) |
|---|---|
| `CheckIdempotency` | `processors/idempotency-coordinator.ts:11-38` |
| `MarkReceived`, `MarkProcessing` | `process-event.ts:110-129`, `processed-events.repository.ts:49-106` |
| `UpsertShipment`, `MarkProcessed` | `process-event.ts:131-141` and the repositories |
| `MarkFailed` | `process-event.ts:151-172` |
| `MarkDeadLettered`, `GatherHistory`, `PersistDeadLetter`, `AnnounceDeadLetter` | `process-event.ts:174-210` |
| `Settle` | `queue/worker.ts:29-51` and what BullMQ does with the result |
| `Enqueue` | `gateway-api/src/services/enqueue-event.service.ts:8` |
| `Shutdown`, `DrainDone`, `DrainTimeout`, `Crash`, `Restart` | `main.ts:39-48`, `main.ts:122-155` |
| `Fetch`, `LockExpires`, `StalledCheck` | BullMQ, as `createWorkerQueue` configures it (defaults, so `maxStalledCount` is 1) |

Calls that write end in one of three ways (`WriteReplies`): they take effect and
answer, have no effect and throw, or take effect and throw. Which of these, and
of crashes, drain timeouts and expired locks, can happen is the constant
`Faults`; each run names them.

Data: an event is its idempotency key; a job is a model value with a key, a
shipment, and whether its payload has the two fields that are needed. A history
entry keeps the attempt and error code. Timestamps, messages, snapshots and
`expiresAt` are left out; no branch reads them. One record per key and one row per
shipment is what the unique indexes of `scripts/db/init-indexes.ts` guarantee;
`EventCollection` looks at the ledger without that assumption. The connection to
Redis has `maxRetriesPerRequest: null`, so that `dlqQueue.add` may be sent again
when its answer is cut off (`ResendAnnouncement`); `MaxResends` bounds how often.
`job.attemptsMade` (`queue/worker.ts:27`) reaches only a log line. A call to the
database may fail with any error of `MongoError`, whatever its message.

### EventLedger and the refinement

`EventLedger` is what a client may rely on for one event: it is received, begun
(at most `MaxAttempts` times), succeeds, fails with attempts left, or is buried,
and a buried one gets one document and then one message. `EventWorker` states
`ImplementsLedger == Ledger!Spec`, with status and count read off the record and
the letters and messages counted. One thing in the abstract lifecycle is there
because of the code: if answers may be lost, an attempt can end as failed or
buried after its own success (`Ending`), see the end of section 5.

### RetryPolicy and RetryCampaign

Doubles are replaced by fractions, so the module says what the formula means; the
rounding of doubles is not modelled. `RetryCampaign` runs one event through
failures of every kind and keeps the delay. Nothing in the code waits for that
delay: it is logged and thrown (`claim_retry`).

### Ingestion

`handler[r]` is the await request `r` is at. The guard has no await, so
`SignatureGuard` is the guard and the controller up to its first await. The
branch for missing signature metadata (`ingestion.controller.ts:95-112`) is not
there: the guard either answers or sets the metadata, so no request reaches it.
The validity of the HMAC and of the body are Booleans of a request. Requests that
Fastify refuses by itself reach no code of the repository and are left out.

The connection to Redis has `maxRetriesPerRequest: null`: commands wait while it
is down, and one whose answer was cut off is sent again (`ConnectionDrops` adds
the job a first time; the later `EnqueueEvent` adds it again). `EnqueueEvent` is the
add and its answer; that the add takes effect and nobody hears of it is `UnheardAdds`,
in a step that drops the connection (`ConnectionDrops`) or ends the process (`Crash`).
`ShutdownDone` does not wait for Redis: once no request does, nothing is left to send.

### DlqReplay

The workers of `EventWorker` with one more field (`review`) and runs of the
script that interleave with them; `script[o].batch` is the rest of the records
that `find` returned. `replay` jobs are added as `Enqueue` adds them, except that
here their add is a step of the script only.

### Health

`Health` adds to `Ingestion` requests that ping Redis and then MongoDB. A ping on a
connection that is down waits for the next one, as `queue.add` does; one that is
answered may be answered with something else than PONG, or an error. A command to
MongoDB fails when no server is found. What a probe finds is kept (`connected`) and
nothing is claimed of it: the two answers need not be of one moment.

MongoDB also keeps the audit records. `HandleRequest` is a step of the route under the
MongoDB of that moment: an insert takes effect while it is up; while it is down the
insert fails, or took effect before its answer got lost, and the route does not notice
the difference. `unwatched` is a history variable, the requests that were at work at
some time when MongoDB was down.

`CloseDone` is `ShutdownDone` of `Ingestion`, once the probes have been answered too
(`gateway-api/src/main.ts:65-81`); `Elsewhere` lets every other step of `Ingestion`
pass by the probes. The worker's timer (`gateway-worker/src/main.ts:108-120`) runs the
same two pings (`health/health.ts`) and only logs what they say.

### Gateway and EventPromise

`Gateway` is one instance of `Ingestion` and the variables of `EventWorker`. For the
API the queue is a number of jobs per request, for the workers the state of each
job; job `<<r, n>>` is the n-th that request `r` added, and `ApiStep` puts into
`wait` the jobs that its step added (`enqueue-event.service.ts:7-9`). `EventWorker`'s
own `Enqueue` is not a step here: the API is the only source of jobs.

`EventPromise` hides all of it. An event is submitted, resolved as `processed` or
`dead_lettered`, and that is final; some courier may be told that it is accepted,
never before it is submitted. `KeepsPromise` reads the stage of an event off the
ledger, the DLQ and the jobs: an event counts as dead-lettered when the message for
the operators is there, not when its record says so.

### EventCollection

The repository's updates on documents instead of one record per key: an upsert is a
search and an insert that the unique index may refuse, and the updates take any one
of the documents that match. The script creates the three indexes of the collection
one after the other, may be run at any time and any number of times, and goes on
when one is refused. `expiresAt` has a type: the TTL monitor (`NextDay`) removes dates
that have passed and nothing else. A *client* is one `processEvent`, seen as its
calls of the repository. Its `markProcessed` may take effect and throw all the same; then
the client is in its catch block (`catch`) and writes a second outcome over the first.

### LoadTest

The gateway is what the script sees of it: an answer to each request, and records
that move through `EventLedger` once a job for their key is in the queue. After a fetch
that threw the API may still be at work on the request, and add its job at any later
time (`LateJob`). Events are signed before the first is sent, so the guard refuses
those that are sent too late (`MayAnswer`). Before the report nobody reads a record, so
`WorkersStep` and `LateJob` wait until then; everything they could have done can be
done between the report and the first read.

The percentages of SC-001 are constants, `AcceptPercent` and `LatencyPercentile`, 99 and
95 in the code; `took` is a history variable that says which event a latency was of.
`ReadResult` gives 0 for the aggregation over duplicate keys, which is what the unique
index means (`EventCollection`); without the index the figure may be another. What the
module shows besides its properties: `sc002` looks at the tracked records only, so an
acknowledged event without a record does not count against it; `sc004` of the report
always passes, since nothing moves `retryOutcomes`, and `sc003` of the report only asks
whether there were duplicates; `run-load-test.ts` exits with 0 also when a threshold
fails.

## 3. Runs that pass

| Run | Instance | Shows |
|---|---|---|
| `worker_faults` | 1 event, 3 deliveries (1 malformed), 1 worker with 2 slots, 2 attempts, 1 resent announcement, all faults | all safety properties of the worker, and the refinement |
| `worker_settle` | 1 event, 2 deliveries; refused calls, drain timeouts, expired locks | every job is settled by BullMQ; a processed event stays processed if no answer is lost |
| `gateway_live` | 2 requests with 1 event (1 malformed), genuine or forged, 2 workers; the API crashes and loses answers, the workers are shut down and restarted | only verified events are processed; every event that was submitted ends processed or announced |
| `retry_campaign` | 192 configurations, 5 errors, 4 random factors | bounds and growth of the delays, priority of dependency failures, no fallback |
| `ingestion_faults` | 2 requests of 7 kinds, clock 0..4, 2 outages, all faults | answers, jobs and audit trail agree |
| `api_health` | 2 requests, 1 probe, an outage of Redis, outages of MongoDB, refused and lost calls | requests and probes are answered, shutdowns end; the audit trail has holes only where MongoDB was down |
| `replay_faults` | 2 events, 2 deliveries and 2 replays of the first, 1 delivery of the second, 2 operators, batches of 2; refused calls, stopped scripts | no letter marked without a job; the ledger stays closed |
| `load_test` | 3 events (1 duplicate), 2 consumers, 1 record of an earlier run, answers 202, 401 and none, jobs that come late, a clock that outlasts the signatures | what is sent and tracked; what a passed SC-001 means; what SC-002 and SC-004 mean when the check runs beside the workers |
| `indexes` | 1 key, 3 executions, 2 documents, 4 days, 2 attempts | what the unique index is worth whenever it comes, and that the documents under it keep to the lifecycle |

Why these bounds are enough. Records of different events do not interact (no
condition compares two keys), so one event with several deliveries has every
conflict there is; two events occur where a batch has an order (`replay_faults`). There
two operators may replay the letter of the first event twice; the second event only
gives the batch an order, and its replay is never added. All jobs of that run are malformed,
which buries an event in the fewest steps.
Two slots give every race for one record, and with expired locks a job is
redelivered to one while the other still runs it. Two attempts are a first and a
last one; three deliveries let one follow a burial or a success. What happens with
more of each is what the proofs are for. The clock of `Ingestion` starts before the
tolerance of timestamp 2, passes through it and ends after it; `api_health` and
`gateway_live` leave it still, since what passes the guard is `ingestion_faults`'
question. A script that may stop after any call does all
that one with a lost answer does. In `gateway_live` the workers' calls do not fail:
with refused or lost ones the promise does not hold (`claim_retry`), and its safety
half is proved for refused calls, drain timeouts, crashes and expired locks too.
In `indexes` two documents of one key are the least that break the lock, and three
executions let one insert, one hold the first document and one come late. In
`load_test` three events have a duplicate of the first, in a pool that is smaller
than the list; the latency limit is 0 and the clock 0..1, so that a latency is within
it or not; the percentile is 60, which leaves out one of three latencies as the 95th
leaves out one of twenty. The five reads of a check interleave with the workers in
every way.

Every clock, outage, resend and stalled count has its bound as a constant: `MaxTime`,
`MaxOutages`, `MaxResends`, `MaxStalledCount` (BullMQ's own), and the finite sets
`Job`, `ReplayJob`, `Request`, `Probe`, `Id`. Symmetry is used in runs of safety
properties only.

Deadlock is checked in all runs but those of `RetryCampaign`, where an event that
is buried has nothing left to do.

## 4. Fairness

`EventWorker`: an await of a live process is resumed when its call has answered
and each call answers or fails (weak fairness of `ProcessEvent`, `Settle`); a
drained process ends and is started again (`restart: unless-stopped`). A waiting
job competes for slots with other jobs and with shutdowns, and BullMQ serves jobs in
order and repeats its stalled check while a worker lives, hence strong fairness of
`Fetch` and `StalledCheck` per job. There is no fairness for clients, signals,
crashes or any other fault.

`Health`, for the API process: weak fairness per request and per probe whose call can
answer, and of the end of an idle closing server (`app.close()`). Redis comes back
(`restart: unless-stopped`, and ioredis retries for ever): without that
`EveryRequestAnswered`, `EveryProbeAnswered` and `ShutdownEnds` do not hold, since
neither a request nor a probe has a timeout of its own, and the shutdown waits for
both. Nothing is assumed of MongoDB.
`Gateway`: the workers' fairness, and none of the API, which may stop before any
await. `DlqReplay`: weak fairness of a script that was started. `LoadTest` and
`EventCollection` have safety properties only and assume nothing.

## 5. Where the code and its documents differ

Each run checks one sentence, and TLC returns an execution that violates it.

| Run | Sentence | What the code does |
|---|---|---|
| `claim_retry` | `docs/queues.md:78` "Transient errors are retried to max attempts." | the job has no `attempts`, so it fails for good; the record stays `failed` |
| `claim_shutdown` | `README.md:302` "scaling down must not drop in-flight events" | after a drain timeout the redelivered job is skipped as in progress |
| `claim_replay` | `docs/runbook.md:43` "`pending -> replayed` (and downstream processing updates)" | the gate skips the replayed job |

(`spec.md` and `data-model.md` are in `specs/001-build-event-orchestration-gateway/`.)

Other sentences differ from a definition or a property one can point at:

* `data-model.md:48` lets a record become `dead_lettered` only from `failed`, but
  `MarkDeadLettered` follows `processing`;
* `README.md:299` says that unknown errors bypass retries, but the last return of
  `ClassifyError` is transient;
* `data-model.md:94` says that terminal failures produce a dead-letter record, but a
  crash between `MarkDeadLettered` and `PersistDeadLetter` leaves none, and the
  redelivery is skipped;
* `spec.md:120` (SC-003) allows one successful outcome per event, but when the answer
  of `markProcessed` is lost the catch block overwrites `processed` with `failed`, and the
  next delivery processes the event again. `ProcessedIsFinal` holds only as long as no
  answer is lost, and `EventLedger` has the step `Ending` for this;
* `README.md:270` promises 503 when Redis is down, and `docs/api.md:97-107` a health
  report that says `disconnected`; in `EnqueueEvent` and `PingRedis` the request waits
  while the connection is down. The 503 branch is reached only when `queue.add` fails for
  another reason, and Redis is reported as disconnected only when it does answer, with an
  error;
* `spec.md:118` and `plan.md:18` (SC-001) ask for 99% of the events acknowledged within
  two seconds. The code (`reporter.ts:88`, `assert-thresholds.ts:96-102`) asks for 99%
  acknowledged, and for 95% of all answers within two seconds: a run with 97%
  acknowledged in time passes in the code and not in the specification.
  `Sc001BracketsSpec` has the exact relation: what meets the specification passes, and
  what passes has at least 94% acknowledged in time;
* `spec.md:119` (SC-002) is about all acknowledged events, and the check compares two
  counts it reads one after the other: a record that is added and ends in between stands
  in for one that has not ended. `CheckBesideWorkers` leaves out only that case;
* `README.md:345`, `docs/queues.md:105` and `data-model.md:43` have records of
  `processed_events` expire after 30 days, but `TerminalExpiry` is a string, which no TTL
  index removes, and is set on final statuses only. `IndexedFollowsLedger` rests on this:
  under its mutation, a date, an event whose record has expired is received again.

## 6. Proofs

Every theorem holds for all values of the constants that satisfy the named
assumptions of its module: any keys, jobs, slots, workers, errors, faults, requests,
probes, operators, executions, documents, consumers and limits. Beyond typing the
assumptions say that the keys and jobs beside the replay script and the records of an
earlier run are finitely many, that in `Gateway` the jobs of a request carry one
event, and that a retry configuration is one `env.ts` lets pass; its multiplier is any
fraction, its random draw any number of hundredths below 1.

| Module | Theorems |
|---|---|
| `EventWorker_proofs` | `TypeCorrectness`, `MutualExclusion`, `NoStaleRead`, `AttemptAccounting`, `AttemptLimit`, `BurialCompleteness`, `BurialSafety`, `OutcomeSafety`, `ShipmentSafety`: each invariant of `worker_faults`; `DeadLetterFinality`, `ProcessedFinality` (if no answer is lost), `Refinement`: `Spec => ImplementsLedger` |
| `Ingestion_proofs` | `TypeCorrectness`, `Acknowledgement`, `DuplicatesBounded`, `Verification`, `TrailSafety` |
| `Health_proofs` | `TrailSafetyUnderOutages` |
| `DlqReplay_proofs` | `ReplayTypeCorrectness`, `ReplayMarking`, `ReplayIdempotence`, `ReplayRefinement` |
| `Gateway_proofs` | `GatewayMutualExclusion`, `EndToEndVerification`, `GatewayRefinement`, `PromiseSafety` (if the workers' calls lose no answers) |
| `EventCollection_proofs` | `IndexSafety`, `IndexedRefinement`: `Spec => IndexedFollowsLedger` |
| `RetryCampaign_proofs` | `Counting`, `OutagePriority`, `FallbackIsDead`, `DelaysInBand`, `JitterBounded` |
| `LoadTest_proofs` | `PoolSafety`, `DuplicateSafety`, `CriterionSafety`, `CheckSafety` |

They cover all invariants and action properties that the passing runs check. The
inductive invariants are theorems of their own (`Invariance`, `ReplayInvariance`,
`GatewayInvariance`).

**The worker's invariant.** None of the properties is inductive alone. `LockExclusive`
needs that a slot in the try or catch block still finds the record closed to
others; that needs to know what every slot assumes of its record at each await,
which is `RunsMatchRecords`: the holder's attempt is the record's count, the
status is the one its next write takes for granted, and a burial finds no earlier
document. The one exception is a holder whose own `markProcessed` was applied
although it failed: it may find `processed`, and only if answers can be lost.
Because markProcessing matches only `received` and `failed`, a status that no holder
leaves behind while it holds, no second slot gets in. `AttemptsRecorded` and
`AttemptsBounded` follow the count and the history through the two calls that
change them; `DeadLettersComplete` follows from them at `GatherHistory`. `IInv` is
the conjunction, and the proof has one lemma per action.

**Finality and refinement.** `EventWorker_proofs` then shows that each step changes
the record, the documents and the messages of at most one key, in one of the seven
ways of `EventLedger` (`OneWrite`, `StepWrites`), using `IInv` for what the record
looked like before. The three theorems follow from that lemma.

**The route's invariant.** `RequestOK` says what a request can have at each await:
no job and no record before the audit insert, as many jobs as there were outages
while it waits for the queue, verified contents from the guard on. It speaks about one
request only; `Undisturbed` settles all others, whatever the step does.

The trail of a store that takes its inserts is a second invariant for one request
(`Audited`): it has no job before it has its record, and each answer has its whole
trail. `Ingestion_proofs` shows that a step keeps it unless an insert of the request is
refused. `Health_proofs` needs it only for a request that is not among the unwatched
(`Watched`): such a request is at work only while MongoDB is up, where its inserts are
taken (`TakenWhileUp`). A step of `Health` is a step of `Ingestion` or leaves its
variables alone (`BesideProbes`), so all else that is proved of the route holds beside
the probes.

**Replay.** A replay job is not added before the event has a dead letter, and then
its record is closed and, by `BuriedStays`, stays as it is; a script that is about to
mark a letter has added a job for it. With that, `ReplayNextKeeps` adds the script's
steps to `IInv`. A step of the two together is a step of the worker with its clients
or none (`ReplayStepsAreWorkerSteps`, `Composition`), hence the refinement.

**The whole.** `Gateway_proofs` takes the API's invariant from an instance of
`Ingestion_proofs` and the worker's from `EventWorker_proofs`. `Joined` is what
connects them: a job that is not unborn is one its request has, a slot works on such
a job, and a record is about an event of some request with a job. The last one, with
`QueuedWasVerified`, is `EndToEndVerification`. `PromiseSafety` maps every step to one
of `EventPromise` or a stutter: a step of the API submits or acknowledges, the write of
`markProcessed` and the add of the dead letter's message resolve.

**Documents.** `IndexMeansOneLock` is inductive only together with what holds of a key
with one document before there is an index (`KeyOK`): its holder is alone, and finds the
document as it left it. Two documents of a key stay two for ever, since nothing is
removed, and then `Creatable` refuses the index.

`IndexedRefinement` reads the record of a key off its one document and shows for
each of the repository's calls which step of `EventLedger` it is: `InsertIsReceive`,
`LockIsBegin`, `FinishIsOutcome`. Of `KeyOK` it needs one conjunct that
`IndexMeansOneLock` does not: a document that may be locked has an attempt left,
without which the lock would be no `Begin`.

**Retries.** `Counting` keeps the attempt within the configuration's maximum, which makes
the delay known (`DelayKnown`) wherever a retry is decided. The delay rests on
`Power`, a recursive function. The prover knows its definition only, so that there
is such a function has to be shown: `LeastElement` gives the least number up to which
there were none, and one more value is always possible (`PowersUpTo`,
`PowersAgree`, `PowerIs`). The induction theorems of the library take an operator
and cannot be used for this. `DelayInBand` is then arithmetic on a quotient that is
rounded (`Rounding`), and `BandsAscend` says that from one attempt to the next the
lower end of the band is not below the upper end of the one before, if the multiplier
is large enough; `JitterBounded` follows for every draw.

**Load test.** `IInv` has what each consumer holds (`Pooled`: a taken event is below
the cursor and nobody else's), the counters as cardinalities (`Counted`), the report as
a function of them (`Reported`) and where records come from (`Recorded`). The
percentile is read off a sorted copy; that there is one is proved by giving each
latency the number of those not above it as its place (`SortedOrder`), and
`PercentileWithin` says of the rank what a share says: the percentile is within the limit
exactly when that share of the latencies is. `CriterionSafety` then counts: of the
events acknowledged, at most the slow ones are not acknowledged in time.
`CheckBesideWorkers` is about five reads, so `CheckSafety` goes through a formula that
stays true once it is (`ReadSoFar`): records are only added, end once, and never become
less eligible or less recovered, so each figure that was read is at most the one the
records have now (`RecordsGrow`, `ReadsGrow`). A figure that is still the same was
of the same records.

Only model-checked: liveness, since fairness and leads-to are outside the prover's
reach. That is the progress half of `KeepsPromise`, `EveryJobSettles`,
`EveryRequestAnswered`, `EveryProbeAnswered` and `ShutdownEnds`. The runs of section 5
are counterexamples.

## 7. Not modelled

* `processors/idempotency-key.ts`: a pure hash that nothing calls; the key is the
  one the client sends. `packages/shared`'s contracts and logger: types, which
  are the record sets here, and formatting.
* Environment parsing and connecting: once, at start, before there is any state. The
  bounds on the retry settings are an assumption of `RetryCampaign`.
* `findPendingReview`, `markReviewed` and `markReplayed` of the dead-letter
  repository, and `findByShipmentId`: no caller.
* The worker's health timer beyond its two pings (it logs), the indexes of the other
  two collections (nothing here depends on them but one row per shipment, which
  `EventWorker` assumes), printing and file names of the load test, the command line
  of the signing script.
* HMAC and schema validation are Booleans of a request. A crash during a health
  probe is left out of `Health`: it ends a probe like a request.
* BullMQ's job retention, lost Redis data, elections and rollbacks of MongoDB: both
  stores keep what they acknowledged.

## 8. What is left

Everything above that is marked as modelled is also checked, and its safety
properties are proved. What would be next: the shutdown sequences of both processes
connection by connection; and a load test whose gateway is `Gateway` instead of its
abstract ledger.
