------------------------------- MODULE Health -------------------------------
(***************************************************************************)
(* GET /health beside the ingestion route of the same API process: a probe  *)
(* pings Redis, then MongoDB, on the connections the route uses, reports    *)
(* what it found, and holds up app.close() like any request. The worker     *)
(* runs the same two pings on a timer, and logs the report.                 *)
(*                                                                          *)
(* MongoDB keeps the audit records. While it is down their inserts fail.    *)
(*                                                                          *)
(* A crash ends a probe like a request of Ingestion, and is left out.       *)
(***************************************************************************)
EXTENDS Ingestion

CONSTANT Probe  \* health requests that may be sent

\* An insert into ingestion_records may be refused.
ASSUME HealthAssumption == "audit" \in Faults

VARIABLES
  mongo,     \* whether MongoDB takes commands
  probe,     \* what each health request is doing, and what it has found
  unwatched  \* history: the requests at work at some time when MongoDB was down

healthVars == <<vars, mongo, probe, unwatched>>

Services == {"redis", "mongo"}

\* The await a probe is at, and the services it found connected.
ProbeRun ==
  [step : {"unsent", "pingRedis", "pingMongo", "answered", "gone"},
   connected : SUBSET Services]

WaitingProbes == {p \in Probe : probe[p].step \in {"pingRedis", "pingMongo"}}

HealthInit ==
  /\ Init
  /\ mongo = "up"
  /\ probe = [p \in Probe |-> [step |-> "unsent", connected |-> {}]]
  /\ unwatched = {}

\* Every request that is at work after the step is so under the MongoDB of then.
Observe ==
  unwatched' = IF mongo' = "up" THEN unwatched
               ELSE unwatched \cup {r \in Request : handler'[r] \in ActiveSteps}

-----------------------------------------------------------------------------
\* A listening server reads the request.
AskHealth(p) ==
  /\ server = "up"
  /\ probe[p].step = "unsent"
  /\ probe' = [probe EXCEPT ![p].step = "pingRedis"]
  /\ UNCHANGED <<vars, mongo>>

\* Mutant: a server that is closing has stopped looking at its answers.
PingRedis_WhileUp(p) ==
  /\ server = "up"
  /\ probe[p].step = "pingRedis"
  /\ redis = "up"
  /\ probe' = [probe EXCEPT ![p] = [step |-> "pingMongo", connected |-> {"redis"}]]
  /\ UNCHANGED <<vars, mongo>>

\* await redis.ping(): on a connection that is down it neither answers nor
\* fails, but waits for the next (maxRetriesPerRequest: null). The answer may be
\* PONG or not, or an error that the route swallows.
PingRedis(p) ==
  /\ probe[p].step = "pingRedis"
  /\ redis = "up"
  /\ \E found \in {{"redis"}, {}} :
       probe' = [probe EXCEPT ![p] = [step |-> "pingMongo", connected |-> found]]
  /\ UNCHANGED <<vars, mongo>>

\* await mongoDb.command: the driver fails a command it finds no server for, and
\* the error is swallowed too. Then the report is sent.
PingMongo(p) ==
  /\ probe[p].step = "pingMongo"
  /\ probe' = [probe EXCEPT ![p].step = "answered",
                            ![p].connected = IF mongo = "up" THEN @ \cup {"mongo"} ELSE @]
  /\ UNCHANGED <<vars, mongo>>

AnswerHealth(p) == PingRedis(p) \/ PingMongo(p)

MongoStopsOrStarts ==
  /\ mongo' = IF mongo = "up" THEN "down" ELSE "up"
  /\ UNCHANGED <<vars, probe>>

-----------------------------------------------------------------------------
(* The ingestion route and the process, with probes about *)

RecordSteps == {"recordRejected", "recordAccepted", "recordEnqueueFailure"}

\* A step of the route. MongoDB takes an insert when it is up; when it is down
\* the insert is swallowed, or was taken before the answer got lost.
HandleRequest(r) ==
  /\ Handle(r)
  /\ handler[r] \in RecordSteps /\ mongo = "up" => audit'[r] # audit[r]

\* A step of Ingestion that leaves the probes where they are.
Elsewhere ==
  /\ \/ \E r \in Request : Arrive(r) \/ HandleRequest(r)
     \/ Tick
     \/ \E served \in SUBSET Request : ConnectionDrops(served)
     \/ Reconnect
     \/ Shutdown
     \/ Restart
  /\ UNCHANGED <<mongo, probe>>

\* Mutant: a close that waits for the ingestion route only.
Idle_RouteOnly == TRUE

Idle == WaitingProbes = {}

\* app.close() waits for the probes too; the end of the process is theirs.
CloseDone ==
  /\ ShutdownDone
  /\ Idle
  /\ probe' = [p \in Probe |->
                 IF p \in WaitingProbes THEN [probe[p] EXCEPT !.step = "gone"] ELSE probe[p]]
  /\ UNCHANGED mongo

HealthNext ==
  /\ \/ \E p \in Probe : AskHealth(p) \/ AnswerHealth(p)
     \/ MongoStopsOrStarts
     \/ Elsewhere
     \/ CloseDone
  /\ Observe

HealthSpec == HealthInit /\ [][HealthNext]_healthVars

\* The event loop of a live process resumes every request and probe whose call
\* has answered, and an idle closing server closes. Redis is restarted when it is
\* down (restart: unless-stopped), and the connection, retried for ever, stays up
\* long enough to send a command. Nothing is assumed of clients, signals, faults
\* or MongoDB.
FairHealthSpec ==
  /\ HealthSpec
  /\ \A r \in Request : WF_healthVars(HandleRequest(r) /\ Elsewhere /\ Observe)
  /\ \A p \in Probe : WF_healthVars(AnswerHealth(p) /\ Observe)
  /\ WF_healthVars(CloseDone /\ Observe)
  /\ WF_healthVars(Reconnect /\ Elsewhere /\ Observe)

-----------------------------------------------------------------------------
(* Properties *)

\* The audit trail has holes only where MongoDB was down: a request that was
\* never at work under an outage has its job recorded first, whatever happens to
\* it afterwards, and each answer has its whole trail, although the route never
\* looks at what became of an insert.
TrailWholeUnlessDown ==
  \A r \in Request \ unwatched :
    /\ jobs[r] > 0 => audit[r] # <<>> /\ Head(audit[r]) = "accepted"
    /\ answer[r] = 202 => audit[r] = <<"accepted">>
    /\ answer[r] = 503 => audit[r] = <<"accepted", "enqueue_failed">>

\* A probe that Redis keeps waiting is answered in the end, also by a server
\* that is closing.
EveryProbeAnswered == \A p \in Probe : probe[p].step = "pingRedis" ~> probe[p].step = "answered"

\* A graceful shutdown ends, with requests and probes waiting for Redis when
\* the signal comes, or caught by an outage after it.
ShutdownEnds == server = "closing" ~> server = "down"

=============================================================================
