------------------------- MODULE EventWorkerClaims -------------------------
(***************************************************************************)
(* What the repository's documents say of the worker and the code does not *)
(* do. Each formula is one sentence of a document; TLC shows how the code   *)
(* comes to violate it, under the faults the sentence is about.             *)
(***************************************************************************)
EXTENDS EventWorker

\* docs/queues.md:78, "Transient errors are retried to max attempts.": an event
\* whose attempt failed for a transient reason is attempted again. The code
\* leaves the record as failed and throws, and the job has no BullMQ attempts.
FailedIsRetried ==
  \A k \in Key : ledger[k].status = "failed" ~> ledger[k].status # "failed"

\* README.md:302, "scaling down must not drop in-flight events": a job that a
\* worker has taken when it is told to stop still ends with its event processed
\* or dead-lettered. A job that outlasts the drain timeout is redelivered, but
\* its record says processing and the idempotency gate skips it.
InFlightSurvivesShutdown ==
  \A j \in Job : queue[j].state = "active" ~> Terminal(JobKey[j])

=============================================================================
