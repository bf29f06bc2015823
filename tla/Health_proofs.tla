---------------------------- MODULE Health_proofs ----------------------------
(***************************************************************************)
(* Proofs about the API process with its health requests. A step of the two *)
(* is a step of Ingestion or leaves its variables alone, so all that is     *)
(* proved of the route holds beside the probes; and what is known of the    *)
(* trail of a store that takes its inserts (Audited) is known of every      *)
(* request that was never at work under an outage of MongoDB.               *)
(***************************************************************************)
EXTENDS Health, Ingestion_proofs

LEMMA HealthStepIsNext ==
  ASSUME [HealthNext]_healthVars
  PROVE  [Next]_vars
BY DEF HealthNext, healthVars, AskHealth, AnswerHealth, PingRedis, PingMongo,
   MongoStopsOrStarts, Elsewhere, HandleRequest, CloseDone, Next

\* Beside any number of probes the route is still the route of Ingestion.
LEMMA BesideProbes == HealthSpec => Spec
<1>1. HealthInit => Init
  BY DEF HealthInit
<1>2. [HealthNext]_healthVars => [Next]_vars
  BY HealthStepIsNext
<1> QED
  BY <1>1, <1>2, PTL DEF HealthSpec, Spec

-----------------------------------------------------------------------------
(* Requests that were at work under no outage *)

\* A request at work while MongoDB is down is among the unwatched; the others
\* have the trail that inserts leave when none is refused.
Watched(r) ==
  /\ mongo # "up" /\ handler[r] \in ActiveSteps => r \in unwatched
  /\ r \notin unwatched => Audited(r)

AllWatched == \A r \in Request : Watched(r)

\* Observe keeps the first half, whatever the step was.
LEMMA Observed ==
  ASSUME Observe, NEW r \in Request
  PROVE  /\ r \in unwatched => r \in unwatched'
         /\ mongo' # "up" /\ handler'[r] \in ActiveSteps => r \in unwatched'
BY DEF Observe

LEMMA InitWatched == ASSUME HealthInit PROVE AllWatched
<1> SUFFICES ASSUME NEW r \in Request PROVE Watched(r)
  BY DEF AllWatched
<1>1. mongo = "up" /\ handler[r] = "unsent" /\ answer[r] = 0 /\ jobs[r] = 0
  BY DEF HealthInit, Init, NoAnswer
<1> QED
  BY <1>1 DEF Watched, Audited

\* MongoDB takes the insert of a request unless it is down.
LEMMA TakenWhileUp ==
  ASSUME IInv, NEW q \in Request, HandleRequest(q), mongo = "up"
  PROVE  Taken(q)
<1> SUFFICES ASSUME handler[q] \in RecordSteps, NEW outcome \in Outcomes, SafeInsert(q, outcome)
             PROVE  Insert(q, outcome)
  BY DEF Taken, RecordSteps
<1>1. audit'[q] # audit[q]
  BY DEF HandleRequest
<1> QED
  BY <1>1 DEF SafeInsert

LEMMA HandleRequestWatched ==
  ASSUME IInv, AllWatched, Observe, NEW q \in Request, HandleRequest(q), UNCHANGED mongo
  PROVE  AllWatched'
<1>1. Handle(q) /\ TypeOK
  BY DEF HandleRequest, IInv
<1>2. ASSUME NEW r \in Request, r # q PROVE Watched(r)'
  <2>1. Audited(r) => Audited(r)'
    BY <1>1, <1>2, HandleOthers DEF Audited
  <2> QED
    BY <2>1, Observed DEF AllWatched, Watched
<1>3. ASSUME q \notin unwatched' PROVE Audited(q)'
  <2>1. q \notin unwatched /\ Watched(q)
    BY <1>3, Observed DEF AllWatched
  <2>2. handler[q] \in ActiveSteps
    BY <1>1 DEF Handle, SignatureGuard, RecordRejected, RecordAccepted, EnqueueEvent,
                RecordEnqueueFailure, ActiveSteps, Steps
  <2>3. mongo = "up" /\ Audited(q)
    BY <2>1, <2>2 DEF Watched
  <2> QED
    BY <1>1, <2>3, TakenWhileUp, HandleAudits
<1> QED
  BY <1>2, <1>3, Observed DEF AllWatched, Watched

\* Arrivals insert nothing.
LEMMA ArriveWatched ==
  ASSUME IInv, AllWatched, Observe, NEW q \in Request, Arrive(q)
  PROVE  AllWatched'
<1>1. Taken(q) /\ TypeOK
  BY DEF Taken, Arrive, IInv
<1>2. ASSUME NEW r \in Request, Audited(r) PROVE Audited(r)'
  BY <1>1, <1>2, HandleOthers, HandleAudits DEF Audited
<1> QED
  BY <1>2, Observed DEF AllWatched, Watched

\* So do the steps of the environment and the process.
LEMMA OthersWatched ==
  ASSUME IInv, AllWatched, Observe,
         \/ UNCHANGED vars
         \/ Tick \/ Reconnect \/ Shutdown \/ ShutdownDone \/ Restart
         \/ \E served \in SUBSET Request : ConnectionDrops(served)
  PROVE  AllWatched'
<1>1. ASSUME NEW r \in Request, Audited(r) PROVE Audited(r)'
  <2>1. UNCHANGED vars => Audited(r)'
    BY <1>1 DEF vars, Audited
  <2> QED
    BY <1>1, <2>1, OthersAudit DEF IInv
<1> QED
  BY <1>1, Observed DEF AllWatched, Watched

LEMMA HealthNextWatched ==
  ASSUME IInv, AllWatched, [HealthNext]_healthVars
  PROVE  AllWatched'
<1>1. CASE UNCHANGED healthVars
  BY <1>1 DEF healthVars, vars, AllWatched, Watched, Audited
<1>2. CASE HealthNext
  <2>1. Observe
    BY <1>2 DEF HealthNext
  <2>2. CASE (\E p \in Probe : AskHealth(p) \/ AnswerHealth(p)) \/ MongoStopsOrStarts
    <3>1. UNCHANGED vars
      BY <2>2 DEF AskHealth, AnswerHealth, PingRedis, PingMongo, MongoStopsOrStarts
    <3> QED
      BY <2>1, <3>1, OthersWatched
  <2>3. CASE Elsewhere
    BY <2>1, <2>3, HandleRequestWatched, ArriveWatched, OthersWatched DEF Elsewhere
  <2>4. CASE CloseDone
    BY <2>1, <2>4, OthersWatched DEF CloseDone
  <2> QED
    BY <1>2, <2>2, <2>3, <2>4 DEF HealthNext
<1> QED
  BY <1>1, <1>2

-----------------------------------------------------------------------------
(* Theorem *)

\* recordAccepted is awaited before queue.add, and recordEnqueueFailure before the
\* answer (ingestion.controller.ts:114-162): although safeInsert swallows every
\* error, the trail of a request has a hole only if MongoDB was down at some time
\* while the request was at work.
THEOREM TrailSafetyUnderOutages ==
  ASSUME IngestionAssumption PROVE HealthSpec => []TrailWholeUnlessDown
<1>1. HealthSpec => []IInv
  BY BesideProbes, Invariance, PTL
<1>2. HealthInit => AllWatched
  BY InitWatched
<1>3. IInv /\ AllWatched /\ [HealthNext]_healthVars => AllWatched'
  BY HealthNextWatched
<1>4. AllWatched => TrailWholeUnlessDown
  BY AuditedFirst DEF AllWatched, Watched, Audited, TrailWholeUnlessDown
<1> QED
  BY <1>1, <1>2, <1>3, <1>4, PTL DEF HealthSpec

=============================================================================
