---------------------------- MODULE EventWorker ----------------------------
(***************************************************************************)
(* gateway-worker: the worker processes that take jobs from the BullMQ      *)
(* queue courier-events-main and run processEvent on each, against three    *)
(* MongoDB collections and the queue courier-events-dlq.                    *)
(*                                                                          *)
(* A slot is one of the concurrent job executions of a worker process       *)
(* (WORKER_CONCURRENCY of them). Each action of a slot is one await of      *)
(* processEvent together with the code that runs, without yielding, after   *)
(* it; slots interleave between awaits. A call to MongoDB or Redis may      *)
(* answer, be refused, or take effect and still report an error.            *)
(***************************************************************************)
EXTENDS RetryPolicy, Sequences

CONSTANTS
  Key,          \* idempotency keys
  Shipment,     \* shipment ids
  Job,          \* jobs that may be added to courier-events-main
  Worker,       \* worker processes
  Slot,         \* concurrent job executions, over all workers
  None,         \* no job, no slot
  JobKey,       \* the idempotency key of a job's payload
  JobShipment,  \* the shipment it is about
  Malformed,    \* jobs whose payload lacks shipmentId or status
  Host,         \* the worker process a slot belongs to
  MongoError,   \* the errors the MongoDB driver reports
  MaxAttempts,  \* RETRY_MAX_ATTEMPTS
  MaxResends,   \* bound: messages an event has when its announcement is resent
  Faults        \* which faults the environment produces

FaultKinds == {
  "reject",     \* a call fails and has had no effect
  "lost",       \* a call takes effect and its answer is lost: it fails too
  "crash",      \* a worker process dies
  "drain",      \* jobs outlast WORKER_DRAIN_TIMEOUT_MS at shutdown
  "stall" }     \* BullMQ's lock on a job expires while the job still runs

ASSUME EventWorkerAssumption ==
  /\ JobKey \in [Job -> Key]
  /\ JobShipment \in [Job -> Shipment]
  /\ Malformed \subseteq Job
  /\ Host \in [Slot -> Worker]
  /\ MongoError \subseteq ErrorLike
  /\ MaxAttempts \in Nat \ {0}
  /\ MaxResends \in Nat
  /\ Faults \subseteq FaultKinds
  /\ None \notin Job \cup Slot

VARIABLES
  worker,       \* lifecycle of each worker process
  queue,        \* courier-events-main: BullMQ's view of each job
  run,          \* what each slot is doing
  ledger,       \* collection processed_events, by idempotency key
  shipments,    \* collection active_shipments: the job that wrote each last
  deadLetters,  \* collection dead_letter_events, by idempotency key
  dlq           \* queue courier-events-dlq, by idempotency key

vars == <<worker, queue, run, ledger, shipments, deadLetters, dlq>>

-----------------------------------------------------------------------------
(* Types and empty values *)

WorkerStates == {"up", "draining", "down"}

JobStates == {"unborn", "wait", "active", "completed", "failed"}

\* BullMQ's default maxStalledCount, which createWorkerQueue does not change.
MaxStalledCount == 1

JobEntry ==
  [state : JobStates, owner : Slot \cup {None}, stalled : 0..MaxStalledCount]

AttemptEntry == [attempt : Nat, errorCode : ClassifiedCodes]

ProcessedStatus ==
  {"none", "received", "processing", "processed", "failed", "dead_lettered"}

LedgerRecord ==
  [status : ProcessedStatus, attemptCount : Nat, attemptHistory : Seq(AttemptEntry)]

DeadLetterRecord == [attemptCount : Nat, attemptHistory : Seq(AttemptEntry)]

\* Where a slot is: the await it is at, or what its job will be settled as.
Steps ==
  {"idle", "check", "receive", "acquire", "upsert", "complete",
   "fail", "bury", "gather", "persist", "announce", "resolved", "rejected"}

NoCode == "none"

RunRecord ==
  [step : Steps, job : Job \cup {None}, attempt : Nat,
   code : ClassifiedCodes \cup {NoCode}, history : Seq(AttemptEntry)]

IdleRun ==
  [step |-> "idle", job |-> None, attempt |-> 0, code |-> NoCode, history |-> <<>>]

NoRecord == [status |-> "none", attemptCount |-> 0, attemptHistory |-> <<>>]

TypeOK ==
  /\ worker \in [Worker -> WorkerStates]
  /\ queue \in [Job -> JobEntry]
  /\ run \in [Slot -> RunRecord]
  /\ ledger \in [Key -> LedgerRecord]
  /\ shipments \in [Shipment -> Job \cup {None}]
  /\ deadLetters \in [Key -> Seq(DeadLetterRecord)]
  /\ dlq \in [Key -> Seq(DeadLetterRecord)]

Init ==
  /\ worker = [w \in Worker |-> "up"]
  /\ queue = [j \in Job |-> [state |-> "unborn", owner |-> None, stalled |-> 0]]
  /\ run = [s \in Slot |-> IdleRun]
  /\ ledger = [k \in Key |-> NoRecord]
  /\ shipments = [x \in Shipment |-> None]
  /\ deadLetters = [k \in Key |-> <<>>]
  /\ dlq = [k \in Key |-> <<>>]

-----------------------------------------------------------------------------
(* Calls to MongoDB and Redis *)

\* How a write may end: "ok" and "lost" apply it, "reject" and "lost" throw.
WriteReplies == {"ok"} \cup (Faults \cap {"reject", "lost"})
ReadReplies == {"ok"} \cup (Faults \cap {"reject"})

Applied(reply) == reply # "reject"

\* The job slot s executes, and its idempotency key.
JobOf(s) == run[s].job
KeyOf(s) == JobKey[run[s].job]

\* Slot s, at step from, goes on to step to.
At(s, from) == run[s].step = from
GoTo(s, to) == run' = [run EXCEPT ![s].step = to]

\* A call outside processEvent's try block: its error leaves processEvent.
Await(s, reply, next) == GoTo(s, IF reply = "ok" THEN next ELSE "rejected")

\* Mongo's update of the record of key k, when the call takes effect.
Update(reply, k, record) ==
  ledger' = IF Applied(reply) THEN [ledger EXCEPT ![k] = record] ELSE ledger

-----------------------------------------------------------------------------
(* BullMQ around processEvent *)

\* queue.add by the gateway API, or by the replay script: no options, so the
\* job has no attempts left once it fails.
Enqueue(j) ==
  /\ queue[j].state = "unborn"
  /\ queue' = [queue EXCEPT ![j].state = "wait"]
  /\ UNCHANGED <<worker, run, ledger, shipments, deadLetters, dlq>>

\* A worker that is not closing hands a waiting job to a free slot and locks it.
Fetch(s, j) ==
  /\ worker[Host[s]] = "up"
  /\ At(s, "idle")
  /\ queue[j].state = "wait"
  /\ queue' = [queue EXCEPT ![j].state = "active", ![j].owner = s]
  /\ run' = [run EXCEPT ![s] = [IdleRun EXCEPT !.step = "check", !.job = j]]
  /\ UNCHANGED <<worker, ledger, shipments, deadLetters, dlq>>

\* Mutants: a processor that swallows its error; a job that fails forever.
SettledState_Swallowed(s) == "completed"
SettledState_Requeued(s) == IF At(s, "resolved") THEN "completed" ELSE "wait"

\* What BullMQ makes of a job whose processor returned or threw.
SettledState(s) == IF At(s, "resolved") THEN "completed" ELSE "failed"

\* The processor's promise settles. BullMQ moves the job only if the slot
\* still holds the job's lock; a rejected job is not retried but fails.
Settle(s) ==
  /\ run[s].step \in {"resolved", "rejected"}
  /\ run' = [run EXCEPT ![s] = IdleRun]
  /\ queue' = IF queue[JobOf(s)].owner = s
              THEN [queue EXCEPT ![JobOf(s)].owner = None,
                                 ![JobOf(s)].state = SettledState(s)]
              ELSE queue
  /\ UNCHANGED <<worker, ledger, shipments, deadLetters, dlq>>

\* The lock of a job runs out although its slot still works on it.
LockExpires(j) ==
  /\ "stall" \in Faults
  /\ queue[j].state = "active"
  /\ queue[j].owner # None
  /\ queue' = [queue EXCEPT ![j].owner = None]
  /\ UNCHANGED <<worker, run, ledger, shipments, deadLetters, dlq>>

\* Mutant: one redelivery too many.
MayRequeue_OneMore(j) == queue[j].stalled <= MaxStalledCount

MayRequeue(j) == queue[j].stalled < MaxStalledCount

\* A live worker finds an active job without a lock: back to wait, or failed
\* when it has stalled too often.
StalledCheck(j) ==
  /\ \E w \in Worker : worker[w] = "up"
  /\ queue[j].state = "active"
  /\ queue[j].owner = None
  /\ queue' = IF MayRequeue(j)
              THEN [queue EXCEPT ![j].state = "wait", ![j].stalled = @ + 1]
              ELSE [queue EXCEPT ![j].state = "failed"]
  /\ UNCHANGED <<worker, run, ledger, shipments, deadLetters, dlq>>

-----------------------------------------------------------------------------
(* processEvent, up to the processing lock *)

SkippedStatuses == {"processed", "dead_lettered", "processing"}

\* await checkIdempotency
CheckIdempotency(s) ==
  /\ At(s, "check")
  /\ \E reply \in ReadReplies :
       Await(s, reply, IF ledger[KeyOf(s)].status \in SkippedStatuses
                       THEN "resolved" ELSE "receive")
  /\ UNCHANGED <<worker, queue, ledger, shipments, deadLetters, dlq>>

\* Mutant: $set in place of $setOnInsert.
ReceivedRecord_Set(k) == [NoRecord EXCEPT !.status = "received"]

\* The record after $setOnInsert: nothing of an existing one changes.
ReceivedRecord(k) ==
  IF ledger[k].status = "none" THEN [NoRecord EXCEPT !.status = "received"] ELSE ledger[k]

\* await markReceived
MarkReceived(s) ==
  /\ At(s, "receive")
  /\ \E reply \in WriteReplies :
       /\ Await(s, reply, "acquire")
       /\ Update(reply, KeyOf(s), ReceivedRecord(KeyOf(s)))
  /\ UNCHANGED <<worker, queue, shipments, deadLetters, dlq>>

\* Mutants: filters of markProcessing that let one status too many through.
Lockable_Processing == {"received", "failed", "processing"}
Lockable_DeadLettered == {"received", "failed", "dead_lettered"}
Lockable_Processed == {"received", "failed", "processed"}

LockableStatuses == {"received", "failed"}

PayloadError == [code |-> "absent", timeoutName |-> FALSE, words |-> {"invalid"}]

\* The catch block up to its first await: the error decides between another
\* attempt and the dead letters.
Catch(s, attempt, error) ==
  LET classified == ClassifyError(error)
      retryAllowed == ShouldRetry(attempt, MaxAttempts, classified.classification)
  IN  run' = [run EXCEPT ![s].attempt = attempt,
                         ![s].code = classified.code,
                         ![s].step = IF retryAllowed THEN "fail" ELSE "bury"]

\* await markProcessing: takes the lock if the status allows it. The slot that
\* gets it goes on into the try block, as far as the payload's fields allow.
MarkProcessing(s) ==
  LET record   == ledger[KeyOf(s)]
      matched  == record.status \in LockableStatuses
      acquired == [record EXCEPT !.status = "processing", !.attemptCount = @ + 1]
  IN  /\ At(s, "acquire")
      /\ \E reply \in WriteReplies :
           /\ Update(reply, KeyOf(s), IF matched THEN acquired ELSE record)
           /\ \/ /\ reply = "ok" /\ matched
                 /\ IF JobOf(s) \in Malformed
                    THEN Catch(s, acquired.attemptCount, PayloadError)
                    ELSE run' = [run EXCEPT ![s].step = "upsert",
                                            ![s].attempt = acquired.attemptCount]
              \/ ~(reply = "ok" /\ matched) /\ Await(s, reply, "resolved")
      /\ UNCHANGED <<worker, queue, shipments, deadLetters, dlq>>

-----------------------------------------------------------------------------
(* processEvent's try block *)

\* A call inside the try block: its error goes to the catch block.
TryAwait(s, reply, next) ==
  \/ reply = "ok" /\ GoTo(s, next)
  \/ reply # "ok" /\ \E error \in MongoError : Catch(s, run[s].attempt, error)

\* Mutant: a repository that logs its error and does not throw it.
UpsertShipment_Swallowed(s) ==
  /\ At(s, "upsert")
  /\ GoTo(s, "complete")
  /\ \E reply \in WriteReplies :
       shipments' = IF Applied(reply)
                    THEN [shipments EXCEPT ![JobShipment[JobOf(s)]] = JobOf(s)]
                    ELSE shipments
  /\ UNCHANGED <<worker, queue, ledger, deadLetters, dlq>>

\* await upsertShipment: the last writer's fields stay
UpsertShipment(s) ==
  /\ At(s, "upsert")
  /\ \E reply \in WriteReplies :
       /\ TryAwait(s, reply, "complete")
       /\ shipments' = IF Applied(reply)
                       THEN [shipments EXCEPT ![JobShipment[JobOf(s)]] = JobOf(s)]
                       ELSE shipments
  /\ UNCHANGED <<worker, queue, ledger, deadLetters, dlq>>

\* await markProcessed
MarkProcessed(s) ==
  /\ At(s, "complete")
  /\ \E reply \in WriteReplies :
       /\ TryAwait(s, reply, "resolved")
       /\ Update(reply, KeyOf(s), [ledger[KeyOf(s)] EXCEPT !.status = "processed"])
  /\ UNCHANGED <<worker, queue, shipments, deadLetters, dlq>>

-----------------------------------------------------------------------------
(* processEvent's catch block: another attempt *)

ThisAttempt(s) == [attempt |-> run[s].attempt, errorCode |-> run[s].code]

\* Mutant: the status changes, and no entry is pushed.
MarkFailed_Unrecorded(s) ==
  /\ At(s, "fail")
  /\ GoTo(s, "rejected")
  /\ \E reply \in WriteReplies :
       Update(reply, KeyOf(s), [ledger[KeyOf(s)] EXCEPT !.status = "failed"])
  /\ UNCHANGED <<worker, queue, shipments, deadLetters, dlq>>

\* await markFailed, whatever the status is by now. Then the catch block
\* throws: RetryableProcessingError, or the error of the call itself.
MarkFailed(s) ==
  /\ At(s, "fail")
  /\ GoTo(s, "rejected")
  /\ \E reply \in WriteReplies :
       Update(reply, KeyOf(s),
              [ledger[KeyOf(s)] EXCEPT !.status = "failed",
                                       !.attemptHistory = Append(@, ThisAttempt(s))])
  /\ UNCHANGED <<worker, queue, shipments, deadLetters, dlq>>

-----------------------------------------------------------------------------
(* processEvent's catch block: the dead letters *)

\* await markDeadLettered, whatever the status is by now
MarkDeadLettered(s) ==
  /\ At(s, "bury")
  /\ \E reply \in WriteReplies :
       /\ Await(s, reply, "gather")
       /\ Update(reply, KeyOf(s), [ledger[KeyOf(s)] EXCEPT !.status = "dead_lettered"])
  /\ UNCHANGED <<worker, queue, shipments, deadLetters, dlq>>

\* Mutant: the attempts on record only.
FullHistory_OnRecord(s) == ledger[KeyOf(s)].attemptHistory

\* The attempts on record, and this one.
FullHistory(s) == Append(ledger[KeyOf(s)].attemptHistory, ThisAttempt(s))

\* await findByIdempotencyKey, which finds the record closed by now
GatherHistory(s) ==
  /\ At(s, "gather")
  /\ \E reply \in ReadReplies :
       IF reply = "ok"
       THEN run' = [run EXCEPT ![s].step = "persist", ![s].history = FullHistory(s)]
       ELSE GoTo(s, "rejected")
  /\ UNCHANGED <<worker, queue, ledger, shipments, deadLetters, dlq>>

DeadLetterOf(s) ==
  [attemptCount |-> run[s].attempt, attemptHistory |-> run[s].history]

\* await persistDeadLetter: insertOne, so every call adds a document
PersistDeadLetter(s) ==
  /\ At(s, "persist")
  /\ \E reply \in WriteReplies :
       /\ Await(s, reply, "announce")
       /\ deadLetters' = IF Applied(reply)
                         THEN [deadLetters EXCEPT ![KeyOf(s)] = Append(@, DeadLetterOf(s))]
                         ELSE deadLetters
  /\ UNCHANGED <<worker, queue, ledger, shipments, dlq>>

\* await dlqQueue.add
AnnounceDeadLetter(s) ==
  /\ At(s, "announce")
  /\ \E reply \in WriteReplies :
       /\ Await(s, reply, "resolved")
       /\ dlq' = IF Applied(reply)
                 THEN [dlq EXCEPT ![KeyOf(s)] = Append(@, DeadLetterOf(s))]
                 ELSE dlq
  /\ UNCHANGED <<worker, queue, ledger, shipments, deadLetters>>

\* The connection drops before dlqQueue.add is answered, and the message was
\* added: with maxRetriesPerRequest: null ioredis sends the command again.
ResendAnnouncement(s) ==
  /\ At(s, "announce")
  /\ Len(dlq[KeyOf(s)]) < MaxResends
  /\ dlq' = [dlq EXCEPT ![KeyOf(s)] = Append(@, DeadLetterOf(s))]
  /\ UNCHANGED <<worker, queue, run, ledger, shipments, deadLetters>>

ProcessEvent(s) ==
  \/ CheckIdempotency(s)
  \/ MarkReceived(s)
  \/ MarkProcessing(s)
  \/ UpsertShipment(s)
  \/ MarkProcessed(s)
  \/ MarkFailed(s)
  \/ MarkDeadLettered(s)
  \/ GatherHistory(s)
  \/ PersistDeadLetter(s)
  \/ AnnounceDeadLetter(s)

-----------------------------------------------------------------------------
(* Worker processes: start, graceful shutdown, death *)

SlotsOf(w) == {s \in Slot : Host[s] = w}

\* SIGTERM or SIGINT: worker.close() stops fetching and waits for the slots.
Shutdown(w) ==
  /\ worker[w] = "up"
  /\ worker' = [worker EXCEPT ![w] = "draining"]
  /\ UNCHANGED <<queue, run, ledger, shipments, deadLetters, dlq>>

\* The process ends with its slots where they are; their locks lapse.
Die(w) ==
  /\ worker' = [worker EXCEPT ![w] = "down"]
  /\ run' = [s \in Slot |-> IF Host[s] = w THEN IdleRun ELSE run[s]]
  /\ queue' = [j \in Job |->
                 IF queue[j].owner \in SlotsOf(w)
                 THEN [queue[j] EXCEPT !.owner = None] ELSE queue[j]]
  /\ UNCHANGED <<ledger, shipments, deadLetters, dlq>>

\* Mutant: a shutdown that does not wait for the dead-letter message.
Drained_BeforeAnnounce(w) == \A s \in SlotsOf(w) : At(s, "idle") \/ At(s, "announce")

\* worker.close() resolves once no slot has a job.
Drained(w) == \A s \in SlotsOf(w) : At(s, "idle")

\* The connections close one after the other and the process ends.
DrainDone(w) ==
  /\ worker[w] = "draining"
  /\ Drained(w)
  /\ Die(w)

\* closeWithTimeout rejects, nothing handles it, and the process goes down.
DrainTimeout(w) ==
  /\ "drain" \in Faults
  /\ worker[w] = "draining"
  /\ ~Drained(w)
  /\ Die(w)

Crash(w) ==
  /\ "crash" \in Faults
  /\ worker[w] # "down"
  /\ Die(w)

Restart(w) ==
  /\ worker[w] = "down"
  /\ worker' = [worker EXCEPT ![w] = "up"]
  /\ UNCHANGED <<queue, run, ledger, shipments, deadLetters, dlq>>

-----------------------------------------------------------------------------

SlotStep(s) ==
  ProcessEvent(s) \/ ResendAnnouncement(s) \/ Settle(s) \/ \E j \in Job : Fetch(s, j)

JobStep(j) == Enqueue(j) \/ LockExpires(j) \/ StalledCheck(j)

WorkerStep(w) ==
  Shutdown(w) \/ DrainDone(w) \/ DrainTimeout(w) \/ Crash(w) \/ Restart(w)

Next ==
  \/ \E s \in Slot : SlotStep(s)
  \/ \E j \in Job : JobStep(j)
  \/ \E w \in Worker : WorkerStep(w)

Spec == Init /\ [][Next]_vars

-----------------------------------------------------------------------------
(* Fairness: the event loop of a live worker resumes every slot whose call    *)
(* has answered; a drained process exits and is started again (restart:       *)
(* unless-stopped). BullMQ serves waiting jobs in order and looks for stalled *)
(* jobs periodically, so a job that could be served again and again, between  *)
(* restarts and busy slots, is served at some point. Nothing is assumed of    *)
(* the clients that add jobs, of signals, or of faults.                       *)

Fairness ==
  /\ \A s \in Slot : WF_vars(ProcessEvent(s)) /\ WF_vars(Settle(s))
  /\ \A j \in Job : SF_vars(\E s \in Slot : Fetch(s, j)) /\ SF_vars(StalledCheck(j))
  /\ \A w \in Worker : WF_vars(DrainDone(w)) /\ WF_vars(Restart(w))

FairSpec == Spec /\ Fairness

-----------------------------------------------------------------------------
(* Safety *)

\* Between markProcessing and the write that ends its attempt, a slot works
\* under the lock of its key; up to the dead-letter message it finishes what
\* the attempt left to do.
LockedSteps == {"upsert", "complete", "fail", "bury"}
BurialSteps == {"gather", "persist", "announce"}

Owns(s) == run[s].step \in LockedSteps \cup BurialSteps

\* At most one slot works on an idempotency key beyond the idempotency gate,
\* whatever is redelivered, duplicated, stalled or restarted: the conditional
\* update of markProcessing is the only lock, and nothing checks it later.
LockExclusive ==
  \A s, t \in Slot : Owns(s) /\ Owns(t) /\ KeyOf(s) = KeyOf(t) => s = t

NumberedFromOne(history) ==
  \A i \in 1..Len(history) : history[i].attempt = i

\* The ledger counts every attempt once: a record that may be locked has one
\* history entry per attempt, numbered 1, 2, ...; a record that an attempt has
\* locked, or ended without markFailed, has one entry less than its count
\* (markProcessing increments the count, markFailed pushes the entry, and the
\* two are separate calls).
AttemptsRecorded ==
  \A k \in Key :
    LET record == ledger[k]
    IN  /\ NumberedFromOne(record.attemptHistory)
        /\ record.attemptCount = Len(record.attemptHistory)
             + IF record.status \in {"none", "received", "failed"} THEN 0 ELSE 1
        /\ record.status \in {"none", "received"} => record.attemptCount = 0

\* No event is attempted more often than RETRY_MAX_ATTEMPTS, over all of its
\* jobs, and a record is left as failed only while an attempt remains: no
\* status that waits for a retry is out of retries.
AttemptsBounded ==
  \A k \in Key :
    /\ ledger[k].attemptCount <= MaxAttempts
    /\ ledger[k].status \in LockableStatuses => ledger[k].attemptCount < MaxAttempts

\* A dead letter and its message tell the whole story: attemptCount attempts,
\* all in the history, in order (the history is read back after the record was
\* closed, so a second writer would show here).
DeadLettersComplete ==
  \A k \in Key :
    \A letters \in {deadLetters[k], dlq[k]} :
      \A i \in 1..Len(letters) :
        /\ letters[i].attemptCount = Len(letters[i].attemptHistory)
        /\ letters[i].attemptCount \in 1..MaxAttempts
        /\ NumberedFromOne(letters[i].attemptHistory)

\* An event is buried once: one document at most although insertOne is
\* unconditional and has no unique index, and not unless the ledger says
\* dead_lettered; no message without the document, and one message, but for
\* those that are sent again on a new connection.
BuriedOnce ==
  \A k \in Key :
    /\ Len(deadLetters[k]) <= 1
    /\ Len(dlq[k]) <= 1 + MaxResends
    /\ dlq[k] # <<>> => Len(deadLetters[k]) = 1
    /\ Len(deadLetters[k]) = 1 => ledger[k].status = "dead_lettered"

\* A job that BullMQ records as completed was not dropped: some attempt at its
\* event has begun (the gate and the refused lock both complete the job without
\* doing anything).
CompletedWasAttempted ==
  \A j \in Job : queue[j].state = "completed" => ledger[JobKey[j]].attemptCount >= 1

\* The shipment table shows only events that hold or held the lock, and an
\* event counts as processed only once its shipment has been written.
ShipmentsFollowLedger ==
  /\ \A x \in Shipment :
       shipments[x] # None => ledger[JobKey[shipments[x]]].attemptCount >= 1
  /\ \A k \in Key :
       ledger[k].status = "processed" =>
         \E j \in Job : JobKey[j] = k /\ shipments[JobShipment[j]] # None

\* dead_lettered is final: no redelivery, late writer or restart changes the
\* record afterwards (the writes that end an attempt have no status filter).
DeadLetteredIsFinal ==
  [][\A k \in Key : ledger[k].status = "dead_lettered" => ledger'[k] = ledger[k]]_vars

\* A processed event stays processed, and its record as it is.
ProcessedIsFinal ==
  [][\A k \in Key : ledger[k].status = "processed" => ledger'[k] = ledger[k]]_vars

-----------------------------------------------------------------------------
(* The inductive invariant *)

\* What a slot took from a record before an await still holds when it acts on
\* it afterwards. A lock holder's attempt number is the record's count, and the
\* status is the one its next write assumes; only its own lost success can be
\* in the way. The burial finds no earlier document.
RunOK(s) ==
  LET step   == run[s].step
      record == ledger[KeyOf(s)]
  IN  /\ step # "idle" => run[s].job \in Job
      /\ step = "acquire" => record.status # "none"
      /\ step = "resolved" => record.attemptCount >= 1
      /\ step = "complete" => shipments[JobShipment[run[s].job]] # None
      /\ Owns(s) => record.attemptCount = run[s].attempt
      /\ step \in {"upsert", "complete"} => record.status = "processing"
      /\ step \in {"fail", "bury"} =>
           \/ record.status = "processing"
           \/ record.status = "processed" /\ "lost" \in Faults
      /\ step \in {"fail", "bury"} \cup BurialSteps => run[s].code \in ClassifiedCodes
      /\ step = "fail" => run[s].attempt < MaxAttempts
      /\ step \in BurialSteps => record.status = "dead_lettered"
      /\ step \in {"gather", "persist"} => deadLetters[KeyOf(s)] = <<>>
      /\ step \in {"persist", "announce"} =>
           /\ Len(run[s].history) = run[s].attempt
           /\ NumberedFromOne(run[s].history)
      /\ step = "announce" =>
           Len(deadLetters[KeyOf(s)]) = 1 /\ Len(dlq[KeyOf(s)]) <= MaxResends

RunsMatchRecords == \A s \in Slot : RunOK(s)

IInv ==
  /\ TypeOK
  /\ RunsMatchRecords
  /\ LockExclusive
  /\ AttemptsRecorded
  /\ AttemptsBounded
  /\ DeadLettersComplete
  /\ BuriedOnce
  /\ CompletedWasAttempted
  /\ ShipmentsFollowLedger

-----------------------------------------------------------------------------
(* The abstract specification *)

Ledger == INSTANCE EventLedger WITH
  LostReplies <- "lost" \in Faults,
  MaxMessages <- 1 + MaxResends,
  status <- [k \in Key |-> ledger[k].status],
  attempts <- [k \in Key |-> ledger[k].attemptCount],
  letters <- [k \in Key |-> Len(deadLetters[k])],
  messages <- [k \in Key |-> Len(dlq[k])]

\* Seen through the two collections and the dead-letter queue, every event goes
\* through EventLedger's lifecycle on its own, although slots share the records
\* and none of the writes that end an attempt looks at the status.
ImplementsLedger == Ledger!Spec

-----------------------------------------------------------------------------
(* Liveness *)

Terminal(k) == ledger[k].status \in {"processed", "dead_lettered"}

\* BullMQ lets go of every job: whatever is lost, stalled or restarted, a job
\* is neither redelivered forever nor held forever.
EveryJobSettles ==
  \A j \in Job : queue[j].state = "wait" ~> queue[j].state \in {"completed", "failed"}

=============================================================================
