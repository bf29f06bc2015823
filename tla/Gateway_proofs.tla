---------------------------- MODULE Gateway_proofs ----------------------------
(***************************************************************************)
(* Proofs about the whole path of an event. The invariants of the API and   *)
(* of the workers are those of Ingestion_proofs and EventWorker_proofs;     *)
(* what is added here is the queue between them: a step of the API gives    *)
(* the workers new jobs and nothing else, a step of the workers gives the   *)
(* API nothing, and so no record is about an event no request carried.      *)
(***************************************************************************)
EXTENDS Gateway, EventWorker_proofs

APIProofs == INSTANCE Ingestion_proofs WITH Faults <- ApiFaults

-----------------------------------------------------------------------------
(* The API of Gateway is the one Ingestion_proofs is about *)

LEMMA SameAssumption == GatewayAssumption => APIProofs!IngestionAssumption
BY DEF GatewayAssumption, APIProofs!IngestionAssumption, API!FaultKinds, APIProofs!FaultKinds,
   API!RequestContent, APIProofs!RequestContent, API!Algorithms, APIProofs!Algorithms

LEMMA SameInit == API!Init <=> APIProofs!Init
BY DEF API!Init, APIProofs!Init, API!NoContent, APIProofs!NoContent, API!NoAnswer,
   APIProofs!NoAnswer

LEMMA SameHandle ==
  ASSUME NEW r \in Request
  PROVE  API!Handle(r) <=> APIProofs!Handle(r)
BY DEF API!NoAnswer, APIProofs!NoAnswer, API!GoTo, APIProofs!GoTo, API!Reply, APIProofs!Reply,
   API!Distance, APIProofs!Distance, API!IsStale, APIProofs!IsStale, API!Algorithms,
   APIProofs!Algorithms, API!GuardRefusal, APIProofs!GuardRefusal, API!SignatureGuard,
   APIProofs!SignatureGuard, API!Insert, APIProofs!Insert, API!SafeInsert, APIProofs!SafeInsert, API!RecordRejected,
   APIProofs!RecordRejected, API!RecordAccepted, APIProofs!RecordAccepted, API!AddReplies,
   APIProofs!AddReplies, API!EnqueueEvent, APIProofs!EnqueueEvent, API!RecordEnqueueFailure,
   APIProofs!RecordEnqueueFailure, API!Handle, APIProofs!Handle

LEMMA SameNext == API!Next <=> APIProofs!Next
BY SameHandle DEF API!Steps, APIProofs!Steps, API!ActiveSteps, APIProofs!ActiveSteps, API!Tick,
   APIProofs!Tick, API!UnheardAdds, APIProofs!UnheardAdds, API!Arrive, APIProofs!Arrive, API!ConnectionDrops, APIProofs!ConnectionDrops,
   API!Reconnect, APIProofs!Reconnect, API!Shutdown, APIProofs!Shutdown, API!Quiet,
   APIProofs!Quiet, API!Stop, APIProofs!Stop, API!ShutdownDone, APIProofs!ShutdownDone,
   API!Crash, APIProofs!Crash, API!Restart, APIProofs!Restart, API!Next, APIProofs!Next

LEMMA SameIInv == API!IInv <=> APIProofs!IInv
BY DEF API!TypeOK, APIProofs!TypeOK, API!Steps, APIProofs!Steps, API!NoContent,
   APIProofs!NoContent, API!NoAnswer, APIProofs!NoAnswer, API!Answers, APIProofs!Answers,
   API!Outcomes, APIProofs!Outcomes, API!AcknowledgedIsQueued, APIProofs!AcknowledgedIsQueued,
   API!OneJobPerConnection, APIProofs!OneJobPerConnection, API!Verified, APIProofs!Verified,
   API!QueuedWasVerified, APIProofs!QueuedWasVerified, API!TrailsOf, APIProofs!TrailsOf,
   API!TrailFitsAnswer, APIProofs!TrailFitsAnswer, API!RequestOK, APIProofs!RequestOK,
   API!IInv, APIProofs!IInv

LEMMA SameIInvAfter == API!IInv' <=> APIProofs!IInv'
BY SameIInv, PTL

-----------------------------------------------------------------------------
(* Steps of the API *)

LEMMA ApiKeepsIInv ==
  ASSUME GatewayAssumption, API!IInv, [API!Next]_apiVars
  PROVE  API!IInv'
<1>1. APIProofs!IngestionAssumption /\ APIProofs!IInv
  BY SameAssumption, SameIInv
<1>2. [APIProofs!Next]_APIProofs!vars
  BY SameNext DEF apiVars, APIProofs!vars
<1>3. APIProofs!IInv'
  BY <1>1, <1>2, APIProofs!NextKeeps
<1> QED
  BY <1>3, SameIInvAfter

\* No job is taken away from a request.
LEMMA JobsGrow ==
  ASSUME API!IInv, API!Next, NEW r \in Request
  PROVE  jobs[r] \in Nat /\ jobs'[r] \in Nat /\ jobs'[r] >= jobs[r]
<1>1. jobs \in [Request -> Nat]
  BY DEF API!IInv, API!TypeOK
<1>2. ASSUME NEW q \in Request, API!Arrive(q) \/ API!Handle(q)
      PROVE  jobs' = jobs \/ jobs' = [jobs EXCEPT ![q] = @ + 1]
  BY <1>2 DEF API!Arrive, API!Handle, API!SignatureGuard, API!RecordRejected,
     API!RecordAccepted, API!EnqueueEvent, API!RecordEnqueueFailure
<1>3. ASSUME NEW served \in SUBSET Request, API!ConnectionDrops(served) \/ API!Crash(served)
      PROVE  jobs'[r] \in {jobs[r], jobs[r] + 1}
  BY <1>3 DEF API!ConnectionDrops, API!Crash, API!UnheardAdds
<1>4. CASE API!Tick \/ API!Reconnect \/ API!Shutdown \/ API!ShutdownDone \/ API!Restart
  BY <1>1, <1>4 DEF API!Tick, API!Reconnect, API!Shutdown, API!ShutdownDone, API!Restart
<1> QED
  BY <1>1, <1>2, <1>3, <1>4 DEF API!Next

\* A step of the API adds jobs to the queue and leaves the workers alone.
LEMMA ApiStepFacts ==
  ASSUME TypeOK, ApiStep, NEW job \in Job
  PROVE  /\ queue[job].state # "unborn" => queue'[job] = queue[job]
         /\ queue[job].state = "unborn" =>
              \/ queue'[job] = queue[job]
              \/ queue'[job] = [queue[job] EXCEPT !.state = "wait"] /\ job[2] <= jobs'[job[1]]
         /\ queue'[job] \in JobEntry
<1>1. queue[job] \in JobEntry
  BY DEF TypeOK
<1>2. queue'[job] = IF queue[job].state = "unborn" /\ Delivered(job)
                    THEN [queue[job] EXCEPT !.state = "wait"] ELSE queue[job]
  BY DEF ApiStep
<1>3. [queue[job] EXCEPT !.state = "wait"] \in JobEntry
  BY <1>1 DEF JobEntry, JobStates
<1> QED
  BY <1>1, <1>2, <1>3 DEF Delivered

LEMMA ApiStepKeepsWorkers ==
  ASSUME EventWorkerAssumption, IInv, ApiStep
  PROVE  IInv'
<1>1. TypeOK /\ UNCHANGED <<worker, run, ledger, shipments, deadLetters, dlq>>
  BY DEF IInv, ApiStep
<1>2. queue' \in [Job -> JobEntry]
  <2>1. \A job \in Job : queue'[job] \in JobEntry
    BY <1>1, ApiStepFacts
  <2>2. queue' = [job \in Job |-> queue'[job]]
    BY DEF ApiStep
  <2> QED
    BY <2>1, <2>2
<1>3. TypeOK'
  BY <1>1, <1>2 DEF TypeOK
<1>4. ASSUME NEW job \in Job, queue'[job].state = "completed"
      PROVE  queue[job].state = "completed"
  <2>1. queue[job] \in JobEntry
    BY <1>1 DEF TypeOK
  <2>2. queue'[job] # [queue[job] EXCEPT !.state = "wait"]
    BY <1>4, <2>1 DEF JobEntry
  <2> QED
    BY <1>1, <1>4, <2>2, ApiStepFacts
<1>5. CompletedWasAttempted'
  BY <1>1, <1>4, CompletedFacts
<1> QED
  BY <1>1, <1>3, <1>5, OtherStepKeepsIInv DEF OtherFrame

-----------------------------------------------------------------------------
(* Steps of the workers *)

LEMMA WorkersStepIsNext ==
  ASSUME WorkersStep
  PROVE  [Next]_vars /\ UNCHANGED apiVars
BY DEF WorkersStep, Next, JobStep

\* The workers add no job.
LEMMA WorkersAddNothing ==
  ASSUME EventWorkerAssumption, IInv, Joined, WorkersStep,
         NEW job \in Job, queue[job].state = "unborn"
  PROVE  queue'[job].state = "unborn"
<1>1. queue \in [Job -> JobEntry] /\ queue[job] \in JobEntry
  BY DEF IInv, TypeOK
<1>2. ASSUME NEW s \in Slot, SlotStep(s) PROVE queue'[job].state = "unborn"
  <2>1. CASE ProcessEvent(s) \/ ResendAnnouncement(s)
    BY <2>1 DEF ResendAnnouncement, ProcessEvent, CheckIdempotency, MarkReceived,
       MarkProcessing, UpsertShipment, MarkProcessed, MarkFailed, MarkDeadLettered,
       GatherHistory, PersistDeadLetter, AnnounceDeadLetter
  <2>2. CASE Settle(s)
    <3>1. JobOf(s) # job
      BY <2>2 DEF Settle, Joined, At
    <3> QED
      BY <1>1, <2>2, <3>1 DEF Settle
  <2>3. ASSUME NEW i \in Job, Fetch(s, i) PROVE queue'[job].state = "unborn"
    BY <1>1, <2>3 DEF Fetch
  <2> QED
    BY <1>2, <2>1, <2>2, <2>3 DEF SlotStep
<1>3. ASSUME NEW i \in Job, LockExpires(i) \/ StalledCheck(i)
      PROVE  queue'[job].state = "unborn"
  BY <1>1, <1>3 DEF LockExpires, StalledCheck
<1>4. ASSUME NEW w \in Worker, WorkerStep(w) PROVE queue'[job].state = "unborn"
  <2>1. queue' = queue \/ Die(w)
    BY <1>4 DEF WorkerStep, Shutdown, DrainDone, DrainTimeout, Crash, Restart
  <2>2. ASSUME Die(w)
        PROVE  queue'[job] = queue[job] \/ queue'[job] = [queue[job] EXCEPT !.owner = None]
    BY <2>2 DEF Die
  <2> QED
    BY <1>1, <2>1, <2>2 DEF JobEntry
<1> QED
  BY <1>2, <1>3, <1>4 DEF WorkersStep

\* A slot is at a job it was at before, or at one that was waiting.
LEMMA RunsAreGiven ==
  ASSUME IInv, WorkersStep, NEW s \in Slot, run'[s].step # "idle"
  PROVE  \/ run[s].step # "idle" /\ run'[s].job = run[s].job
         \/ run'[s].job \in Job /\ queue[run'[s].job].state = "wait"
<1>1. run \in [Slot -> RunRecord]
  BY DEF IInv, TypeOK
<1>2. ASSUME NEW t \in Slot, ProcessEvent(t)
      PROVE  /\ run[t].step # "idle"
             /\ \A u \in Slot : run'[u].job = run[u].job
             /\ \A u \in Slot \ {t} : run'[u] = run[u]
  <2> DEFINE Moves == /\ \A u \in Slot : run'[u].job = run[u].job
                      /\ \A u \in Slot \ {t} : run'[u] = run[u]
  <2>1. run[t].step # "idle"
    BY <1>2 DEF ProcessEvent, CheckIdempotency, MarkReceived, MarkProcessing, UpsertShipment,
       MarkProcessed, MarkFailed, MarkDeadLettered, GatherHistory, PersistDeadLetter,
       AnnounceDeadLetter, At
  <2>2. ASSUME NEW next, GoTo(t, next) PROVE Moves
    BY <1>1, <2>2 DEF GoTo, RunRecord
  <2>3. ASSUME NEW attempt, NEW error, Catch(t, attempt, error) PROVE Moves
    BY <1>1, <2>3 DEF Catch, RunRecord
  <2>4. ASSUME NEW reply, NEW next, Await(t, reply, next) \/ TryAwait(t, reply, next)
        PROVE  Moves
    BY <2>2, <2>3, <2>4 DEF Await, TryAwait
  <2>5. ASSUME MarkProcessing(t) PROVE Moves
    <3>1. ASSUME NEW attempt, run' = [run EXCEPT ![t].step = "upsert", ![t].attempt = attempt]
          PROVE  Moves
      BY <1>1, <3>1 DEF RunRecord
    <3> HIDE DEF Moves
    <3> QED
      BY <2>3, <2>4, <2>5, <3>1 DEF MarkProcessing
  <2>6. ASSUME GatherHistory(t) PROVE Moves
    <3>1. ASSUME NEW history,
                 run' = [run EXCEPT ![t].step = "persist", ![t].history = history]
          PROVE  Moves
      BY <1>1, <3>1 DEF RunRecord
    <3> HIDE DEF Moves
    <3> QED
      BY <2>2, <2>6, <3>1 DEF GatherHistory
  <2>7. ASSUME ~MarkProcessing(t), ~GatherHistory(t) PROVE Moves
    <3> HIDE DEF Moves
    <3> QED
      BY <1>2, <2>2, <2>4, <2>7 DEF ProcessEvent, CheckIdempotency, MarkReceived,
         UpsertShipment, MarkProcessed, MarkFailed, MarkDeadLettered, PersistDeadLetter,
         AnnounceDeadLetter
  <2> QED
    BY <2>1, <2>5, <2>6, <2>7
<1>3. ASSUME NEW t \in Slot, Settle(t) \/ ResendAnnouncement(t)
      PROVE  run'[s] = run[s] \/ run'[s].step = "idle"
  BY <1>1, <1>3 DEF Settle, ResendAnnouncement, IdleRun
<1>4. ASSUME NEW t \in Slot, NEW i \in Job, Fetch(t, i)
      PROVE  run'[s] = run[s] \/ (run'[s].job = i /\ queue[i].state = "wait")
  BY <1>1, <1>4 DEF Fetch, IdleRun
<1>5. ASSUME NEW i \in Job, LockExpires(i) \/ StalledCheck(i) PROVE run' = run
  BY <1>5 DEF LockExpires, StalledCheck
<1>6. ASSUME NEW w \in Worker, WorkerStep(w)
      PROVE  run'[s] = run[s] \/ run'[s].step = "idle"
  BY <1>6 DEF WorkerStep, Shutdown, DrainDone, DrainTimeout, Crash, Restart, Die, IdleRun
<1> QED
  BY <1>2, <1>3, <1>4, <1>5, <1>6 DEF WorkersStep, SlotStep

\* Only a slot that works on an event writes its record.
LEMMA RecordsAreWritten ==
  ASSUME IInv, WorkersStep, NEW k \in Key, ledger'[k] # ledger[k]
  PROVE  \E s \in Slot : run[s].step # "idle" /\ KeyOf(s) = k
<1>1. ledger \in [Key -> LedgerRecord]
  BY DEF IInv, TypeOK
<1>2. ASSUME NEW s \in Slot, ProcessEvent(s)
      PROVE  /\ run[s].step # "idle"
             /\ \/ ledger' = ledger
                \/ \E record : ledger' = [ledger EXCEPT ![KeyOf(s)] = record]
  BY <1>2 DEF ProcessEvent, CheckIdempotency, MarkReceived,
     MarkProcessing, UpsertShipment, MarkProcessed, MarkFailed, MarkDeadLettered,
     GatherHistory, PersistDeadLetter, AnnounceDeadLetter, At, Update
<1>3. ASSUME NEW s \in Slot, ProcessEvent(s) PROVE KeyOf(s) = k
  BY <1>1, <1>2, <1>3
<1>4. \/ \E s \in Slot : ProcessEvent(s)
      \/ ledger' = ledger
  BY DEF WorkersStep, SlotStep, Settle, ResendAnnouncement, Fetch, LockExpires, StalledCheck,
     WorkerStep, Shutdown, DrainDone, DrainTimeout, Crash, Restart, Die
<1> QED
  BY <1>2, <1>3, <1>4

-----------------------------------------------------------------------------
(* The queue between them *)

LEMMA JobParts ==
  ASSUME GatewayAssumption, NEW job \in Job
  PROVE  /\ job[1] \in Request /\ job[2] \in Nat /\ job[2] >= 1
         /\ job = <<job[1], job[2]>>
         /\ JobKey[job] = EventOf(job[1])
<1>1. MaxOutages \in Nat /\ Job = Request \X (1..(1 + MaxOutages))
  BY DEF GatewayAssumption
<1>2. PICK r \in Request, n \in 1..(1 + MaxOutages) : job = <<r, n>>
  BY <1>1
<1>3. JobKey[<<r, n>>] = JobKey[<<r, 1>>]
  BY <1>1, <1>2 DEF GatewayAssumption
<1> QED
  BY <1>1, <1>2, <1>3 DEF EventOf

LEMMA InitJoined ==
  ASSUME GatewayInit
  PROVE  Joined
BY DEF GatewayInit, Init, Joined, NoRecord, IdleRun, At

LEMMA ApiStepKeepsJoined ==
  ASSUME GatewayAssumption, GatewayIInv, ApiStep
  PROVE  Joined'
<1>1. /\ TypeOK /\ IInv /\ API!IInv /\ API!Next
      /\ run' = run /\ ledger' = ledger
  BY DEF GatewayIInv, IInv, ApiStep
<1>2. ASSUME NEW job \in Job, queue'[job].state # "unborn"
      PROVE  job[2] <= jobs'[job[1]]
  <2>1. CASE queue[job].state # "unborn"
    <3>1. job[2] <= jobs[job[1]]
      BY <2>1 DEF GatewayIInv, Joined
    <3>2. job[1] \in Request /\ job[2] \in Nat
      BY JobParts
    <3>3. jobs[job[1]] \in Nat /\ jobs'[job[1]] \in Nat /\ jobs'[job[1]] >= jobs[job[1]]
      BY <1>1, <3>2, JobsGrow
    <3> QED
      BY <3>1, <3>2, <3>3
  <2>2. CASE queue[job].state = "unborn"
    BY <1>1, <1>2, <2>2, ApiStepFacts
  <2> QED
    BY <2>1, <2>2
<1>3. ASSUME NEW s \in Slot, run'[s].step # "idle"
      PROVE  queue'[run'[s].job].state # "unborn"
  <2>1. PICK job : job = run[s].job
    OBVIOUS
  <2>2. run[s].step # "idle" /\ job \in Job /\ queue[job].state # "unborn"
    BY <1>1, <1>3, <2>1 DEF IInv, RunsMatchRecords, RunOK, GatewayIInv, Joined, At,
         JobOf
  <2>3. queue'[job] = queue[job]
    BY <1>1, <2>2, ApiStepFacts
  <2> QED
    BY <1>1, <2>1, <2>2, <2>3
<1>4. ASSUME NEW k \in Key, ledger'[k].status # "none"
      PROVE  \E r \in Request : EventOf(r) = k /\ jobs'[r] > 0
  <2>1. PICK r \in Request : EventOf(r) = k /\ jobs[r] > 0
    BY <1>1, <1>4 DEF GatewayIInv, Joined
  <2>2. jobs[r] \in Nat /\ jobs'[r] \in Nat /\ jobs'[r] >= jobs[r]
    BY <1>1, JobsGrow
  <2> QED
    BY <2>1, <2>2
<1> QED
  BY <1>2, <1>3, <1>4 DEF Joined, At, JobOf

LEMMA WorkersStepKeepsJoined ==
  ASSUME EventWorkerAssumption, GatewayAssumption, GatewayIInv, WorkersStep
  PROVE  Joined'
<1>1. /\ TypeOK /\ IInv /\ API!IInv /\ Joined /\ [Next]_vars
      /\ jobs' = jobs /\ jobs \in [Request -> Nat]
  BY WorkersStepIsNext DEF GatewayIInv, IInv, API!IInv, API!TypeOK, apiVars
<1>2. ASSUME NEW job \in Job, queue'[job].state # "unborn"
      PROVE  job[2] <= jobs'[job[1]]
  BY <1>1, <1>2, WorkersAddNothing DEF Joined
<1>3. ASSUME NEW s \in Slot, run'[s].step # "idle"
      PROVE  queue'[run'[s].job].state # "unborn"
  <2>1. PICK job : job = run'[s].job
    OBVIOUS
  <2>2. job \in Job /\ queue[job].state # "unborn"
    <3>1. CASE run[s].step # "idle" /\ run'[s].job = run[s].job
      BY <1>1, <2>1, <3>1 DEF IInv, RunsMatchRecords, RunOK, Joined, At, JobOf
    <3>2. CASE run'[s].job \in Job /\ queue[run'[s].job].state = "wait"
      BY <2>1, <3>2
    <3> QED
      BY <1>1, <1>3, <3>1, <3>2, RunsAreGiven
  <2>3. queue'[job].state # "unborn"
    BY <1>1, <2>2, BornStays
  <2> QED
    BY <2>1, <2>3
<1>4. ASSUME NEW k \in Key, ledger'[k].status # "none"
      PROVE  \E r \in Request : EventOf(r) = k /\ jobs'[r] > 0
  <2>1. CASE ledger'[k] = ledger[k]
    BY <1>1, <1>4, <2>1 DEF Joined
  <2>2. CASE ledger'[k] # ledger[k]
    <3>1. PICK s \in Slot : run[s].step # "idle" /\ KeyOf(s) = k
      BY <1>1, <2>2, RecordsAreWritten
    <3>2. PICK job : job = run[s].job
      OBVIOUS
    <3>3. job \in Job /\ queue[job].state # "unborn" /\ JobKey[job] = k
      BY <1>1, <3>1, <3>2 DEF IInv, RunsMatchRecords, RunOK, Joined, At, JobOf, KeyOf
    <3>4. job[2] <= jobs[job[1]]
      BY <1>1, <3>3 DEF Joined
    <3>5. job[1] \in Request /\ job[2] \in Nat /\ job[2] >= 1 /\ EventOf(job[1]) = k
      BY <3>3, JobParts
    <3>6. jobs[job[1]] \in Nat
      BY <1>1, <3>5
    <3>7. jobs[job[1]] > 0
      BY <3>4, <3>5, <3>6
    <3> QED
      BY <1>1, <3>5, <3>7
  <2> QED
    BY <2>1, <2>2
<1> QED
  BY <1>2, <1>3, <1>4 DEF Joined, At, JobOf

LEMMA GatewayNextKeeps ==
  ASSUME EventWorkerAssumption, GatewayAssumption, GatewayIInv, [GatewayNext]_gatewayVars
  PROVE  GatewayIInv'
<1>1. IInv /\ API!IInv /\ Joined
  BY DEF GatewayIInv
<1>2. CASE ApiStep
  <2>1. API!IInv'
    BY <1>1, <1>2, ApiKeepsIInv DEF ApiStep
  <2> QED
    BY <1>1, <1>2, <2>1, ApiStepKeepsWorkers, ApiStepKeepsJoined DEF GatewayIInv
<1>3. CASE WorkersStep
  <2>1. IInv'
    BY <1>1, <1>3, WorkersStepIsNext, NextKeepsIInv
  <2>2. API!IInv'
    BY <1>1, <1>3, WorkersStepIsNext, ApiKeepsIInv
  <2> QED
    BY <1>3, <2>1, <2>2, WorkersStepKeepsJoined DEF GatewayIInv
<1>4. CASE UNCHANGED gatewayVars
  <2>1. UNCHANGED vars /\ UNCHANGED apiVars
    BY <1>4 DEF gatewayVars
  <2>2. IInv' /\ API!IInv'
    BY <1>1, <2>1, NextKeepsIInv, ApiKeepsIInv
  <2>3. Joined'
    BY <1>1, <2>1 DEF Joined, At, JobOf, vars, apiVars
  <2> QED
    BY <2>2, <2>3 DEF GatewayIInv
<1> QED
  BY <1>2, <1>3, <1>4 DEF GatewayNext

-----------------------------------------------------------------------------
(* The records of the API *)

LEMMA ApiAudits ==
  ASSUME GatewayAssumption, "audit" \notin ApiFaults, API!IInv, APIProofs!AllAudited,
         [API!Next]_apiVars
  PROVE  APIProofs!AllAudited'
<1>1. [APIProofs!Next]_APIProofs!vars
  BY SameNext DEF apiVars, APIProofs!vars
<1> QED
  BY <1>1, SameAssumption, SameIInv, APIProofs!NextAudits DEF APIProofs!IngestionAssumption

LEMMA AuditedFacts ==
  ASSUME APIProofs!AllAudited, NEW r \in Request, jobs[r] > 0
  PROVE  audit[r] # <<>>
<1>1. audit[r] \in {<<"accepted">>, <<"accepted", "enqueue_failed">>}
  BY DEF APIProofs!AllAudited, APIProofs!Audited, APIProofs!Trails
<1> QED
  BY <1>1

-----------------------------------------------------------------------------
(* Every step is one of EventPromise, or hidden from it *)

\* The refinement mapping.
stageBar ==
  [k \in Key |->
     IF ledger[k].status = "processed" THEN "processed"
     ELSE IF dlq[k] # <<>> THEN "dead_lettered"
     ELSE IF \E r \in Request : EventOf(r) = k /\ jobs[r] > 0 THEN "submitted"
     ELSE "unknown"]

acknowledgedBar == {EventOf(r) : r \in {q \in Request : answer[q] = 202}}

LEMMA EventsAreKeys ==
  ASSUME EventWorkerAssumption, GatewayAssumption, NEW r \in Request
  PROVE  EventOf(r) \in Key
<1>1. MaxOutages \in Nat /\ 1 \in 1..(1 + MaxOutages) /\ Job = Request \X (1..(1 + MaxOutages))
  BY DEF GatewayAssumption
<1>2. <<r, 1>> \in Job
  BY <1>1
<1> QED
  BY <1>2 DEF EventWorkerAssumption, EventOf

\* A step of the API answers one request with 202, whose job it adds, or none.
LEMMA ApiAnswers ==
  ASSUME API!IInv, API!Next
  PROVE  \/ acknowledgedBar' = acknowledgedBar
         \/ \E q \in Request :
              /\ acknowledgedBar' = acknowledgedBar \cup {EventOf(q)}
              /\ jobs' = [jobs EXCEPT ![q] = @ + 1]
<1>1. answer \in [Request -> API!Answers \cup {API!NoAnswer}]
  BY DEF API!IInv, API!TypeOK
<1>2. ASSUME NEW q \in Request, NEW code, API!Reply(q, code), answer[q] # 202
      PROVE  acknowledgedBar' = IF code = 202 THEN acknowledgedBar \cup {EventOf(q)}
                                ELSE acknowledgedBar
  <2>1. answer' = [answer EXCEPT ![q] = code]
    BY <1>2 DEF API!Reply
  <2>2. \A e : e \in acknowledgedBar <=> \E r \in Request : answer[r] = 202 /\ EventOf(r) = e
    BY DEF acknowledgedBar
  <2>3. \A e : e \in acknowledgedBar' <=> \E r \in Request : answer'[r] = 202 /\ EventOf(r) = e
    BY DEF acknowledgedBar, EventOf
  <2>4. \A r \in Request : answer'[r] = 202 <=> answer[r] = 202 \/ (r = q /\ code = 202)
    BY <1>1, <1>2, <2>1
  <2>5. \A e : e \in acknowledgedBar' <=>
                 e \in acknowledgedBar \/ (e = EventOf(q) /\ code = 202)
    BY <2>2, <2>3, <2>4
  <2> QED
    BY <2>5
<1>3. ASSUME NEW q \in Request, API!Handle(q)
      PROVE  answer[q] # 202
  BY <1>3 DEF API!IInv, API!RequestOK, API!NoAnswer, API!Handle, API!SignatureGuard,
     API!RecordRejected, API!RecordAccepted, API!EnqueueEvent, API!RecordEnqueueFailure
<1>4. ASSUME answer' = answer PROVE acknowledgedBar' = acknowledgedBar
  BY <1>4 DEF acknowledgedBar, EventOf
<1>5. ASSUME NEW q \in Request, API!EnqueueEvent(q)
      PROVE  \/ acknowledgedBar' = acknowledgedBar
             \/ /\ acknowledgedBar' = acknowledgedBar \cup {EventOf(q)}
                /\ jobs' = [jobs EXCEPT ![q] = @ + 1]
  <2>1. PICK reply \in API!AddReplies :
          /\ jobs' = IF reply # "reject" THEN [jobs EXCEPT ![q] = @ + 1] ELSE jobs
          /\ IF reply = "ok" THEN API!Reply(q, 202) ELSE API!GoTo(q, "recordEnqueueFailure")
    BY <1>5 DEF API!EnqueueEvent
  <2>2. CASE reply = "ok"
    BY <1>2, <1>3, <1>5, <2>1, <2>2 DEF API!Handle
  <2>3. CASE reply # "ok"
    BY <1>4, <2>1, <2>3 DEF API!GoTo
  <2> QED
    BY <2>2, <2>3
<1>6. ASSUME NEW q \in Request, API!SignatureGuard(q)
      PROVE  acknowledgedBar' = acknowledgedBar
  <2>1. CASE API!GuardRefusal(content[q]) = API!NoAnswer
    BY <1>4, <1>6, <2>1 DEF API!SignatureGuard, API!GoTo
  <2>2. CASE API!GuardRefusal(content[q]) # API!NoAnswer
    <3>1. API!Reply(q, API!GuardRefusal(content[q]))
      BY <1>6, <2>2 DEF API!SignatureGuard
    <3>2. API!GuardRefusal(content[q]) # 202
      BY DEF API!GuardRefusal, API!NoAnswer
    <3> QED
      BY <1>2, <1>3, <1>6, <3>1, <3>2 DEF API!Handle
  <2> QED
    BY <2>1, <2>2
<1>7. ASSUME NEW q \in Request, API!RecordRejected(q) \/ API!RecordEnqueueFailure(q)
      PROVE  acknowledgedBar' = acknowledgedBar
  <2>1. API!Reply(q, 400) \/ API!Reply(q, 503)
    BY <1>7 DEF API!RecordRejected, API!RecordEnqueueFailure
  <2> QED
    BY <1>2, <1>3, <1>7, <2>1 DEF API!Handle
<1>8. ASSUME NEW q \in Request, API!RecordAccepted(q) \/ API!Arrive(q)
      PROVE  acknowledgedBar' = acknowledgedBar
  BY <1>4, <1>8 DEF API!RecordAccepted, API!Arrive, API!GoTo
<1>9. CASE \/ API!Tick \/ API!Reconnect \/ API!Shutdown \/ API!ShutdownDone \/ API!Restart
           \/ \E served \in SUBSET Request : API!ConnectionDrops(served) \/ API!Crash(served)
  BY <1>4, <1>9 DEF API!Tick, API!Reconnect, API!Shutdown, API!ShutdownDone, API!Crash,
     API!Restart, API!Stop, API!ConnectionDrops
<1> QED
  BY <1>5, <1>6, <1>7, <1>8, <1>9 DEF API!Next, API!Handle

LEMMA ApiStepImplements ==
  ASSUME EventWorkerAssumption, GatewayAssumption, GatewayIInv, ApiStep
  PROVE  Promise!Next
<1>1. /\ API!IInv /\ API!Next /\ ledger' = ledger /\ dlq' = dlq
      /\ jobs \in [Request -> Nat]
  BY DEF GatewayIInv, ApiStep, API!IInv, API!TypeOK
<1> DEFINE keys == {k \in Key : stageBar[k] = "unknown" /\ stageBar'[k] # "unknown"}
<1>2. ASSUME NEW k \in Key
      PROVE  stageBar'[k] = IF k \in keys THEN "submitted" ELSE stageBar[k]
  <2>1. (\E r \in Request : EventOf(r) = k /\ jobs[r] > 0)
        => (\E r \in Request : EventOf(r) = k /\ jobs'[r] > 0)
    <3> SUFFICES ASSUME NEW r \in Request, EventOf(r) = k, jobs[r] > 0
                 PROVE  jobs'[r] > 0
      OBVIOUS
    <3>1. jobs[r] \in Nat /\ jobs'[r] \in Nat /\ jobs'[r] >= jobs[r]
      BY <1>1, JobsGrow
    <3> QED
      BY <3>1
  <2> QED
    BY <1>1, <2>1 DEF stageBar, EventOf
<1>3. stageBar' = [k \in Key |-> IF k \in keys THEN "submitted" ELSE stageBar[k]]
  BY <1>2 DEF stageBar
<1>4. \A k \in keys : stageBar[k] = "unknown"
  OBVIOUS
<1>f. stageBar = [k \in Key |-> stageBar[k]]
  BY DEF stageBar
<1>5. CASE acknowledgedBar' = acknowledgedBar
  BY <1>3, <1>4, <1>5 DEF Promise!Next, Promise!Submit, stageBar, acknowledgedBar
<1>6. ASSUME NEW q \in Request,
             acknowledgedBar' = acknowledgedBar \cup {EventOf(q)},
             jobs' = [jobs EXCEPT ![q] = @ + 1]
      PROVE  Promise!Next
  <2>1. PICK k \in Key : k = EventOf(q)
    BY EventsAreKeys
  <2>2. jobs'[q] > 0 /\ \A r \in Request \ {q} : jobs'[r] = jobs[r]
    BY <1>1, <1>6
  <2>3. stageBar'[k] # "unknown"
    BY <2>1, <2>2 DEF stageBar, EventOf
  <2>4. \A i \in Key \ {k} : stageBar'[i] = stageBar[i]
    BY <1>1, <2>1, <2>2 DEF stageBar, EventOf
  <2>5. CASE k \in keys
    <3> HIDE DEF keys
    <3>1. \E i \in keys : acknowledgedBar' = acknowledgedBar \cup {i}
      BY <1>6, <2>1, <2>5
    <3>2. keys \in SUBSET Key
      BY DEF keys
    <3> QED
      BY <1>3, <1>4, <3>1, <3>2 DEF Promise!Next, Promise!Submit, stageBar, acknowledgedBar
  <2>6. CASE k \notin keys
    <3>1. stageBar[k] # "unknown" /\ keys = {}
      BY <2>3, <2>4, <2>6
    <3>2. stageBar' = stageBar
      <4> HIDE DEF keys
      <4> QED
        BY <1>3, <1>f, <3>1
    <3>3. Promise!Acknowledge(k)
      <4>1. acknowledgedBar' = acknowledgedBar \cup {k}
        BY <1>6, <2>1
      <4> HIDE DEF keys
      <4> QED
        BY <3>1, <3>2, <4>1 DEF Promise!Acknowledge, stageBar, acknowledgedBar
    <3> QED
      BY <3>3 DEF Promise!Next
  <2> QED
    BY <2>5, <2>6
<1> QED
  BY <1>1, <1>5, <1>6, ApiAnswers

\* The workers answer no request and add no job.
LEMMA WorkersStepImplements ==
  ASSUME EventWorkerAssumption, GatewayIInv, "lost" \notin Faults, WorkersStep
  PROVE  [Promise!Next]_Promise!vars
<1>1. /\ TypeOK /\ IInv /\ BuriedOnce /\ Joined /\ OneWrite
      /\ jobs' = jobs /\ answer' = answer
  BY WorkersStepIsNext, StepWrites DEF GatewayIInv, IInv, apiVars
<1>2. acknowledgedBar' = acknowledgedBar
  BY <1>1 DEF acknowledgedBar, EventOf
<1>3. ASSUME stageBar' = stageBar PROVE [Promise!Next]_Promise!vars
  BY <1>2, <1>3 DEF Promise!vars, stageBar, acknowledgedBar
<1>4. ASSUME NEW k \in Key, stageBar[k] = "submitted",
             NEW outcome \in {"processed", "dead_lettered"},
             stageBar' = [stageBar EXCEPT ![k] = outcome]
      PROVE  [Promise!Next]_Promise!vars
  <2>1. Promise!Resolve(k)
    BY <1>2, <1>4 DEF Promise!Resolve, Promise!Outcomes, stageBar, acknowledgedBar
  <2> QED
    BY <2>1 DEF Promise!Next
\* An event with a record was submitted.
<1>5. ASSUME NEW k \in Key, ledger[k].status \notin {"none", "processed"}, dlq[k] = <<>>
      PROVE  stageBar[k] = "submitted"
  BY <1>1, <1>5 DEF Joined, stageBar
<1>6. CASE NoWrite
  BY <1>1, <1>3, <1>6 DEF NoWrite, stageBar, EventOf
<1>7. ASSUME NEW k \in Key, LetterWrite(k) PROVE stageBar' = stageBar
  BY <1>1, <1>7 DEF LetterWrite, stageBar, EventOf
<1>8. ASSUME NEW k \in Key, MessageWrite(k) PROVE [Promise!Next]_Promise!vars
  <2>1. PICK letter : dlq' = [dlq EXCEPT ![k] = Append(dlq[k], letter)]
    BY <1>8 DEF MessageWrite
  <2>2. ledger[k].status = "dead_lettered" /\ ledger' = ledger
    BY <1>1, <1>8 DEF MessageWrite, BuriedOnce
  <2>3. dlq'[k] # <<>> /\ \A i \in Key \ {k} : dlq'[i] = dlq[i]
    <3> DEFINE list == Append(dlq[k], letter)
    <3>1. dlq[k] \in Seq(DeadLetterRecord) /\ Len(dlq[k]) \in Nat
      BY <1>1 DEF TypeOK
    <3>2. Len(list) = Len(dlq[k]) + 1 /\ Len(<<>>) = 0
      BY <3>1
    <3>3. dlq' = [dlq EXCEPT ![k] = list]
      BY <2>1
    <3> HIDE DEF list
    <3>4. list # <<>>
      <4>1. Len(list) # Len(<<>>)
        BY <3>1, <3>2
      <4> QED
        BY <4>1
    <3> QED
      BY <1>1, <3>3, <3>4 DEF TypeOK
  <2>4. CASE dlq[k] = <<>>
    <3>1. stageBar[k] = "submitted"
      BY <1>5, <2>2, <2>4
    <3>2. \A i \in Key : stageBar'[i] = IF i = k THEN "dead_lettered" ELSE stageBar[i]
      BY <1>1, <2>2, <2>3 DEF stageBar, EventOf
    <3>3. stageBar' = [stageBar EXCEPT ![k] = "dead_lettered"]
      BY <3>2 DEF stageBar
    <3> QED
      BY <1>4, <3>1, <3>3
  <2>5. CASE dlq[k] # <<>>
    <3>1. \A i \in Key : stageBar'[i] = stageBar[i]
      BY <1>1, <2>2, <2>3, <2>5 DEF stageBar, EventOf
    <3>2. stageBar' = stageBar
      BY <3>1 DEF stageBar
    <3> QED
      BY <1>3, <3>2
  <2> QED
    BY <2>4, <2>5
<1>9. ASSUME NEW k \in Key, NEW record \in LedgerRecord, RecordWrite(k, record)
      PROVE  [Promise!Next]_Promise!vars
  <2>1. /\ dlq' = dlq /\ ledger'[k] = record
        /\ \A i \in Key \ {k} : ledger'[i] = ledger[i]
    BY <1>1, <1>9 DEF RecordWrite, TypeOK
  <2>2. /\ ledger[k].status \notin {"processed", "dead_lettered"}
        /\ record.status = "processed" => ledger[k].status = "processing"
    BY <1>9 DEF RecordWrite, EndingStatus, LockableStatuses
  <2>3. CASE record.status = "processed"
    <3>1. dlq[k] = <<>>
      BY <1>1, <2>2 DEF BuriedOnce
    <3>2. stageBar[k] = "submitted"
      BY <1>5, <2>2, <2>3, <3>1
    <3>3. \A i \in Key : stageBar'[i] = IF i = k THEN "processed" ELSE stageBar[i]
      BY <1>1, <2>1, <2>3 DEF stageBar, EventOf
    <3>4. stageBar' = [stageBar EXCEPT ![k] = "processed"]
      BY <3>3 DEF stageBar
    <3> QED
      BY <1>4, <3>2, <3>4
  <2>4. CASE record.status # "processed"
    <3>1. \A i \in Key : stageBar'[i] = stageBar[i]
      BY <1>1, <2>1, <2>2, <2>4 DEF stageBar, EventOf
    <3>2. stageBar' = stageBar
      BY <3>1 DEF stageBar
    <3> QED
      BY <1>3, <3>2
  <2> QED
    BY <2>3, <2>4
<1> QED
  BY <1>1, <1>3, <1>6, <1>7, <1>8, <1>9 DEF OneWrite

-----------------------------------------------------------------------------
(* Theorems *)

\* The invariants of the API and of the workers hold of the two together, and
\* the queue joins them: whatever the API's faults, a slot only works on a job
\* that a request added.
THEOREM GatewayInvariance == GatewaySpec => []GatewayIInv
<1>1. GatewayInit => GatewayIInv
  <2>1. GatewayInit => IInv
    BY EventWorkerAssumption, InitIInv DEF GatewayInit
  <2>2. GatewayInit => API!IInv
    BY GatewayAssumption, SameAssumption, SameInit, SameIInv, APIProofs!InitEstablishes
       DEF GatewayInit
  <2> QED
    BY <2>1, <2>2, InitJoined DEF GatewayIInv
<1>2. GatewayIInv /\ [GatewayNext]_gatewayVars => GatewayIInv'
  BY EventWorkerAssumption, GatewayAssumption, GatewayNextKeeps
<1> QED
  BY <1>1, <1>2, PTL DEF GatewaySpec

\* No two executions work on one event beyond the idempotency gate, when the
\* jobs come from the API, however many requests and resends carry the event.
THEOREM GatewayMutualExclusion == GatewaySpec => []LockExclusive
BY GatewayInvariance, PTL DEF GatewayIInv, IInv

\* Only events of requests that were genuine and fresh, and recorded first unless
\* inserts are refused, reach the ledger (signature-guard.ts:64-132,
\* ingestion.controller.ts:114-136, process-event.ts:101-110).
THEOREM EndToEndVerification == GatewaySpec => []LedgerWasVerified
<1> DEFINE Recorded == "audit" \in ApiFaults \/ APIProofs!AllAudited
<1>1. GatewayInit => Recorded
  <2> SUFFICES ASSUME GatewayInit, NEW r \in Request PROVE APIProofs!Audited(r)
    BY DEF APIProofs!AllAudited
  <2>1. handler[r] = "unsent" /\ answer[r] = 0 /\ jobs[r] = 0
    BY DEF GatewayInit, API!Init, API!NoAnswer
  <2> QED
    BY <2>1 DEF APIProofs!Audited
<1>2. GatewayIInv /\ Recorded /\ [GatewayNext]_gatewayVars => Recorded'
  <2> SUFFICES ASSUME GatewayIInv, [GatewayNext]_gatewayVars, "audit" \notin ApiFaults,
                      APIProofs!AllAudited
               PROVE  APIProofs!AllAudited'
    OBVIOUS
  <2>1. [API!Next]_apiVars
    BY WorkersStepIsNext DEF GatewayNext, gatewayVars, ApiStep
  <2> QED
    BY <2>1, GatewayAssumption, ApiAudits DEF GatewayIInv
<1>3. GatewayIInv /\ Recorded => LedgerWasVerified
  <2> SUFFICES ASSUME GatewayIInv, Recorded, NEW k \in Key, ledger[k].status # "none"
               PROVE  \E r \in Request : /\ EventOf(r) = k
                                         /\ API!Verified(r)
                                         /\ "audit" \in ApiFaults \/ audit[r] # <<>>
    BY DEF LedgerWasVerified
  <2>1. PICK r \in Request : EventOf(r) = k /\ jobs[r] > 0
    BY DEF GatewayIInv, Joined
  <2>2. API!Verified(r)
    BY <2>1 DEF GatewayIInv, API!IInv, API!QueuedWasVerified
  <2>3. "audit" \in ApiFaults \/ audit[r] # <<>>
    BY <2>1, AuditedFacts
  <2> QED
    BY <2>1, <2>2, <2>3
<1> HIDE DEF Recorded
<1> QED
  BY <1>1, <1>2, <1>3, GatewayInvariance, PTL DEF GatewaySpec

\* Fed by the API, the workers still implement EventLedger.
THEOREM GatewayRefinement == GatewaySpec => ImplementsLedger
<1>1. GatewayInit => Ledger!Init
  BY InitImplements DEF GatewayInit
<1>2. GatewayIInv /\ [GatewayNext]_gatewayVars => [Ledger!Next]_Ledger!vars
  <2> SUFFICES ASSUME GatewayIInv, [GatewayNext]_gatewayVars
               PROVE  [Ledger!Next]_Ledger!vars
    OBVIOUS
  <2>1. TypeOK /\ IInv
    BY DEF GatewayIInv, IInv
  <2>2. CASE ApiStep \/ UNCHANGED gatewayVars
    <3>1. OneWrite
      BY <2>2 DEF ApiStep, gatewayVars, vars, OneWrite, NoWrite
    <3> QED
      BY <2>1, <3>1, EventWorkerAssumption, StepImplements
  <2>3. CASE WorkersStep
    <3>1. OneWrite
      BY <2>1, <2>3, WorkersStepIsNext, EventWorkerAssumption, StepWrites
    <3> QED
      BY <2>1, <3>1, EventWorkerAssumption, StepImplements
  <2> QED
    BY <2>2, <2>3 DEF GatewayNext
<1> QED
  BY <1>1, <1>2, GatewayInvariance, PTL DEF GatewaySpec, ImplementsLedger, Ledger!Spec

\* As long as no write is applied and then reported as failed, the API and the
\* workers together keep the safety part of EventPromise, whatever else fails or
\* dies: nothing is acknowledged that was not submitted, and an outcome is one of
\* the two, comes after the submission and is final.
THEOREM PromiseSafety == "lost" \notin Faults /\ GatewaySpec => Promise!Safety
<1> SUFFICES ASSUME "lost" \notin Faults PROVE GatewaySpec => Promise!Safety
  OBVIOUS
<1>1. GatewayInit => Promise!Init
  BY DEF GatewayInit, Init, API!Init, API!NoAnswer, NoRecord, Promise!Init
<1>2. GatewayIInv /\ [GatewayNext]_gatewayVars => [Promise!Next]_Promise!vars
  <2> SUFFICES ASSUME GatewayIInv, [GatewayNext]_gatewayVars
               PROVE  [Promise!Next]_Promise!vars
    OBVIOUS
  <2>1. CASE UNCHANGED gatewayVars
    BY <2>1 DEF gatewayVars, vars, apiVars, Promise!vars, EventOf
  <2> QED
    BY <2>1, EventWorkerAssumption, GatewayAssumption, ApiStepImplements,
       WorkersStepImplements DEF GatewayNext
<1> QED
  BY <1>1, <1>2, GatewayInvariance, PTL DEF GatewaySpec, Promise!Safety

=============================================================================
