------------------------------- MODULE Gateway -------------------------------
(***************************************************************************)
(* The whole path of an event: the API of Ingestion and the workers of      *)
(* EventWorker, joined by the queue courier-events-main. For the API the    *)
(* queue is how many jobs each request has; for the workers it is the state *)
(* of each job. Here job <<r, n>> is the n-th job that request r added, and *)
(* the clients are the only ones that add jobs.                             *)
(***************************************************************************)
EXTENDS EventWorker

CONSTANTS
  Request,     \* the rest as in Ingestion
  Contents,
  Tolerance,
  MaxTime,
  MaxOutages,
  ApiFaults

VARIABLES now, server, redis, outages, content, handler, receivedAt, answer, audit, jobs

API == INSTANCE Ingestion WITH Faults <- ApiFaults

apiVars == <<now, server, redis, outages, content, handler, receivedAt, answer, audit, jobs>>

gatewayVars == <<vars, apiVars>>

\* The jobs of a request are copies: they carry the same event.
ASSUME GatewayAssumption ==
  /\ MaxOutages \in Nat
  /\ Job = Request \X (1..(1 + MaxOutages))
  /\ \A r \in Request : \A m, n \in 1..(1 + MaxOutages) : JobKey[<<r, m>>] = JobKey[<<r, n>>]
  /\ Contents \subseteq API!RequestContent
  /\ Tolerance \in Nat \ {0}
  /\ MaxTime \in Nat
  /\ ApiFaults \subseteq API!FaultKinds

\* The event a request carries.
EventOf(r) == JobKey[<<r, 1>>]

GatewayInit == Init /\ API!Init

-----------------------------------------------------------------------------
\* The jobs in the queue after a step of the API.
Delivered(job) == job[2] <= jobs'[job[1]]

\* A step of the API; the jobs it adds are waiting now.
ApiStep ==
  /\ API!Next
  /\ queue' = [job \in Job |->
                 IF queue[job].state = "unborn" /\ Delivered(job)
                 THEN [queue[job] EXCEPT !.state = "wait"] ELSE queue[job]]
  /\ UNCHANGED <<worker, run, ledger, shipments, deadLetters, dlq>>

\* A step of a worker, of BullMQ or of a worker process.
WorkersStep ==
  /\ \/ \E s \in Slot : SlotStep(s)
     \/ \E job \in Job : LockExpires(job) \/ StalledCheck(job)
     \/ \E w \in Worker : WorkerStep(w)
  /\ UNCHANGED apiVars

GatewayNext == ApiStep \/ WorkersStep

GatewaySpec == GatewayInit /\ [][GatewayNext]_gatewayVars

\* The workers are as fair as EventWorker says. Nothing is asked of the API: it
\* may stop before any await.
FairGatewaySpec == GatewaySpec /\ Fairness

-----------------------------------------------------------------------------
(* Properties *)

\* No event reaches the ledger, the shipments or the dead letters that did not
\* come in a request that was genuine and fresh and carried that event; and it
\* was recorded first, unless the API's record of it was refused.
LedgerWasVerified ==
  \A k \in Key :
    ledger[k].status # "none" =>
      \E r \in Request :
        /\ EventOf(r) = k
        /\ API!Verified(r)
        /\ "audit" \in ApiFaults \/ audit[r] # <<>>

Promise == INSTANCE EventPromise WITH
  stage <- [k \in Key |->
              IF ledger[k].status = "processed" THEN "processed"
              ELSE IF dlq[k] # <<>> THEN "dead_lettered"
              ELSE IF \E r \in Request : EventOf(r) = k /\ jobs[r] > 0 THEN "submitted"
              ELSE "unknown"],
  acknowledged <- {EventOf(r) : r \in {q \in Request : answer[q] = 202}}

\* As couriers and operators see it, an event that was acknowledged, and any
\* other that got into the queue, goes to one final outcome, exactly once,
\* whatever the API's calls, process and connection did to its requests: it is
\* processed, or the operators have the message about its dead letter.
KeepsPromise == Promise!Spec

-----------------------------------------------------------------------------
(* The inductive invariant *)

\* What joins the two halves: a job that was added is one its request has, a
\* slot works on a job that was added, and a record is about an event that came
\* in a request.
Joined ==
  /\ \A job \in Job : queue[job].state # "unborn" => job[2] <= jobs[job[1]]
  /\ \A s \in Slot : ~At(s, "idle") => queue[JobOf(s)].state # "unborn"
  /\ \A k \in Key :
       ledger[k].status # "none" => \E r \in Request : EventOf(r) = k /\ jobs[r] > 0

GatewayIInv == IInv /\ API!IInv /\ Joined

=============================================================================
