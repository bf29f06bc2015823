----------------------------- MODULE Ingestion -----------------------------
(***************************************************************************)
(* gateway-api: POST /v1/events/courier. A request passes the signature     *)
(* guard and the payload validation, is recorded in ingestion_records, and  *)
(* is added to courier-events-main; then it is answered. Each action of a   *)
(* request is one await of the route together with the code that runs,      *)
(* without yielding, after it; requests interleave between awaits.          *)
(*                                                                          *)
(* Requests that Fastify itself refuses (body too large, not JSON, server   *)
(* closing) reach none of this and are left out.                            *)
(***************************************************************************)
EXTENDS Integers, Sequences

CONSTANTS
  Request,     \* HTTP requests that may be sent
  Contents,    \* what may be in them
  Tolerance,   \* SIGNATURE_TOLERANCE_SECONDS
  MaxTime,     \* bound: the clock stops there
  MaxOutages,  \* bound: how often the connection to Redis may drop
  Faults       \* which faults the environment produces

FaultKinds == {
  "audit",   \* an insert into ingestion_records is refused
  "reject",  \* queue.add fails and has had no effect
  "lost",    \* queue.add takes effect and fails all the same
  "crash" }  \* the API process dies

Algorithms == {"sha256", "sha512"}

\* A request, as far as the guard and the validation look at it: the three
\* signature headers, the algorithm named in the second, the timestamp in the
\* third (0 if it does not parse), whether Fastify captured a body, whether the
\* signature is the body's, and whether the body is a CourierEvent.
RequestContent ==
  [headers : BOOLEAN, algorithm : Algorithms \cup {"unsupported"}, timestamp : Int,
   rawBody : BOOLEAN, authentic : BOOLEAN, wellFormed : BOOLEAN]

ASSUME IngestionAssumption ==
  /\ Contents \subseteq RequestContent
  /\ Tolerance \in Nat \ {0}
  /\ MaxTime \in Nat
  /\ MaxOutages \in Nat
  /\ Faults \subseteq FaultKinds

VARIABLES
  now,         \* the API's clock, in seconds
  server,      \* lifecycle of the API process
  redis,       \* whether the connection to Redis is up
  outages,     \* how often it has dropped
  content,     \* what is in each request
  handler,     \* the await it is at
  receivedAt,  \* when the guard saw it
  answer,      \* the status code each request was answered with
  audit,       \* collection ingestion_records, by request
  jobs         \* how many jobs each request has in courier-events-main

vars == <<now, server, redis, outages, content, handler, receivedAt, answer, audit, jobs>>

-----------------------------------------------------------------------------
Steps ==
  {"unsent", "guard", "recordRejected", "recordAccepted", "enqueue",
   "recordEnqueueFailure", "answered", "gone"}

\* Before a request is sent.
NoContent ==
  [headers |-> FALSE, algorithm |-> "unsupported", timestamp |-> 0,
   rawBody |-> FALSE, authentic |-> FALSE, wellFormed |-> FALSE]

\* Steps at which the API works on a request.
ActiveSteps == Steps \ {"unsent", "answered", "gone"}

NoAnswer == 0
Answers == {202, 400, 401, 503}
Outcomes == {"accepted", "rejected", "enqueue_failed"}

\* The type of each variable.
TypeOK ==
  /\ now \in 0..MaxTime
  /\ server \in {"up", "closing", "down"}
  /\ redis \in {"up", "down"}
  /\ outages \in 0..MaxOutages
  /\ content \in [Request -> Contents \cup {NoContent}]
  /\ handler \in [Request -> Steps]
  /\ receivedAt \in [Request -> 0..MaxTime]
  /\ answer \in [Request -> Answers \cup {NoAnswer}]
  /\ audit \in [Request -> Seq(Outcomes)]
  /\ jobs \in [Request -> Nat]

Init ==
  /\ now = 0
  /\ server = "up"
  /\ redis = "up"
  /\ outages = 0
  /\ content = [r \in Request |-> NoContent]
  /\ handler = [r \in Request |-> "unsent"]
  /\ receivedAt = [r \in Request |-> 0]
  /\ answer = [r \in Request |-> NoAnswer]
  /\ audit = [r \in Request |-> <<>>]
  /\ jobs = [r \in Request |-> 0]

-----------------------------------------------------------------------------
(* The environment *)

Tick ==
  /\ now < MaxTime
  /\ now' = now + 1
  /\ UNCHANGED <<server, redis, outages, content, handler, receivedAt, answer, audit, jobs>>

\* A listening server reads a request.
Arrive(r) ==
  /\ server = "up"
  /\ handler[r] = "unsent"
  /\ handler' = [handler EXCEPT ![r] = "guard"]
  /\ \E request \in Contents : content' = [content EXCEPT ![r] = request]
  /\ UNCHANGED <<now, server, redis, outages, receivedAt, answer, audit, jobs>>

\* Redis has added the jobs of the requests in served, and no answer to their
\* queue.add will arrive.
UnheardAdds(served) ==
  /\ \A r \in served : handler[r] = "enqueue"
  /\ jobs' = [r \in Request |-> IF r \in served THEN jobs[r] + 1 ELSE jobs[r]]

\* The connection drops. With maxRetriesPerRequest: null ioredis keeps every
\* unanswered command and sends it again on the next connection, although the
\* job of some of them may have been added: those of the requests in served.
ConnectionDrops(served) ==
  /\ redis = "up"
  /\ outages < MaxOutages
  /\ UnheardAdds(served)
  /\ redis' = "down"
  /\ outages' = outages + 1
  /\ UNCHANGED <<now, server, content, handler, receivedAt, answer, audit>>

Reconnect ==
  /\ redis = "down"
  /\ redis' = "up"
  /\ UNCHANGED <<now, server, outages, content, handler, receivedAt, answer, audit, jobs>>

-----------------------------------------------------------------------------
(* The route *)

GoTo(r, step) == handler' = [handler EXCEPT ![r] = step] /\ UNCHANGED answer

Reply(r, code) ==
  /\ handler' = [handler EXCEPT ![r] = "answered"]
  /\ answer' = [answer EXCEPT ![r] = code]

Distance(a, b) == IF a <= b THEN b - a ELSE a - b

\* Mutant: timestamps from the future are never stale.
IsStale_PastOnly(request) == now - request.timestamp > Tolerance

IsStale(request) == Distance(now, request.timestamp) > Tolerance

\* Mutant: a signature that is not the body's is forbidden, not unauthorized.
GuardRefusal_Forbidden(request) ==
  IF ~request.headers \/ request.algorithm \notin Algorithms THEN 401
  ELSE IF request.timestamp <= 0 THEN 400
  ELSE IF IsStale(request) THEN 401
  ELSE IF ~request.rawBody THEN 400
  ELSE IF ~request.authentic THEN 403
  ELSE NoAnswer

\* The returns of signatureGuard, in its order.
GuardRefusal(request) ==
  IF ~request.headers \/ request.algorithm \notin Algorithms THEN 401
  ELSE IF request.timestamp <= 0 THEN 400
  ELSE IF IsStale(request) THEN 401
  ELSE IF ~request.rawBody THEN 400
  ELSE IF ~request.authentic THEN 401
  ELSE NoAnswer

\* Mutant: a controller that does not record what it accepts.
SignatureGuard_Unrecorded(r) ==
  LET refusal == GuardRefusal(content[r])
  IN  /\ handler[r] = "guard"
      /\ receivedAt' = [receivedAt EXCEPT ![r] = now]
      /\ IF refusal # NoAnswer
         THEN Reply(r, refusal)
         ELSE GoTo(r, IF content[r].wellFormed THEN "enqueue" ELSE "recordRejected")
      /\ UNCHANGED <<now, server, redis, outages, content, audit, jobs>>

\* signatureGuard and, if it lets the request pass, ingestionController up to
\* its first await. The guard's metadata is there for every request it passes.
SignatureGuard(r) ==
  LET refusal == GuardRefusal(content[r])
  IN  /\ handler[r] = "guard"
      /\ receivedAt' = [receivedAt EXCEPT ![r] = now]
      /\ IF refusal # NoAnswer
         THEN Reply(r, refusal)
         ELSE GoTo(r, IF content[r].wellFormed THEN "recordAccepted" ELSE "recordRejected")
      /\ UNCHANGED <<now, server, redis, outages, content, audit, jobs>>

Insert(r, outcome) == audit' = [audit EXCEPT ![r] = Append(@, outcome)]

\* safeInsert: an error is logged and swallowed.
SafeInsert(r, outcome) ==
  \/ Insert(r, outcome)
  \/ "audit" \in Faults /\ UNCHANGED audit

\* Mutant: a missing return after the record.
RecordRejected_FallsThrough(r) ==
  /\ handler[r] = "recordRejected"
  /\ SafeInsert(r, "rejected")
  /\ GoTo(r, "recordAccepted")
  /\ UNCHANGED <<now, server, redis, outages, content, receivedAt, jobs>>

\* await recordRejected
RecordRejected(r) ==
  /\ handler[r] = "recordRejected"
  /\ SafeInsert(r, "rejected")
  /\ Reply(r, 400)
  /\ UNCHANGED <<now, server, redis, outages, content, receivedAt, jobs>>

\* Mutant: the answer is sent before the job is added.
RecordAccepted_AnswersFirst(r) ==
  /\ handler[r] = "recordAccepted"
  /\ SafeInsert(r, "accepted")
  /\ handler' = [handler EXCEPT ![r] = "enqueue"]
  /\ answer' = [answer EXCEPT ![r] = 202]
  /\ UNCHANGED <<now, server, redis, outages, content, receivedAt, jobs>>

\* Mutant: the record is left to a later insert.
RecordAccepted_Deferred(r) ==
  /\ handler[r] = "recordAccepted"
  /\ GoTo(r, "enqueue")
  /\ UNCHANGED <<now, server, redis, outages, content, receivedAt, audit, jobs>>

\* await recordAccepted
RecordAccepted(r) ==
  /\ handler[r] = "recordAccepted"
  /\ SafeInsert(r, "accepted")
  /\ GoTo(r, "enqueue")
  /\ UNCHANGED <<now, server, redis, outages, content, receivedAt, jobs>>

AddReplies == {"ok"} \cup (Faults \cap {"reject", "lost"})

\* Mutant: a failed add is tried again until the queue takes the job.
EnqueueEvent_Retried(r) ==
  /\ handler[r] = "enqueue"
  /\ redis = "up"
  /\ jobs[r] < 3
  /\ \E reply \in AddReplies :
       /\ jobs' = IF reply # "reject" THEN [jobs EXCEPT ![r] = @ + 1] ELSE jobs
       /\ IF reply = "ok" THEN Reply(r, 202) ELSE GoTo(r, "enqueue")
  /\ UNCHANGED <<now, server, redis, outages, content, receivedAt, audit>>

\* await enqueueEvent, which waits for a connection to Redis.
EnqueueEvent(r) ==
  /\ handler[r] = "enqueue"
  /\ redis = "up"
  /\ \E reply \in AddReplies :
       /\ jobs' = IF reply # "reject" THEN [jobs EXCEPT ![r] = @ + 1] ELSE jobs
       /\ IF reply = "ok" THEN Reply(r, 202) ELSE GoTo(r, "recordEnqueueFailure")
  /\ UNCHANGED <<now, server, redis, outages, content, receivedAt, audit>>

\* await recordEnqueueFailure
RecordEnqueueFailure(r) ==
  /\ handler[r] = "recordEnqueueFailure"
  /\ SafeInsert(r, "enqueue_failed")
  /\ Reply(r, 503)
  /\ UNCHANGED <<now, server, redis, outages, content, receivedAt, jobs>>

Handle(r) ==
  \/ SignatureGuard(r)
  \/ RecordRejected(r)
  \/ RecordAccepted(r)
  \/ EnqueueEvent(r)
  \/ RecordEnqueueFailure(r)

-----------------------------------------------------------------------------
(* The API process *)

\* SIGTERM or SIGINT: app.close() stops listening and waits for the requests.
Shutdown ==
  /\ server = "up"
  /\ server' = "closing"
  /\ UNCHANGED <<now, redis, outages, content, handler, receivedAt, answer, audit, jobs>>

\* Mutant: a close that does not wait.
Quiet_AtOnce == TRUE

Quiet == \A r \in Request : handler[r] \notin ActiveSteps

\* The process ends; requests it was working on get no answer.
Stop ==
  /\ server' = "down"
  /\ handler' = [r \in Request |-> IF handler[r] \in ActiveSteps THEN "gone" ELSE handler[r]]
  /\ UNCHANGED <<now, redis, outages, content, receivedAt, answer, audit>>

\* app.close(), queue.close(), redisConnection.quit() and mongoClient.close()
\* have resolved. None waits for Redis once the requests are answered: ioredis
\* resolves quit by itself when it is offline and has no command left to send.
ShutdownDone ==
  /\ server = "closing"
  /\ Quiet
  /\ Stop
  /\ UNCHANGED jobs

\* The process dies between any two awaits, and may take with it the answers of
\* a Redis it was connected to.
Crash(served) ==
  /\ "crash" \in Faults
  /\ server # "down"
  /\ redis = "up" \/ served = {}
  /\ UnheardAdds(served)
  /\ Stop

Restart ==
  /\ server = "down"
  /\ server' = "up"
  /\ UNCHANGED <<now, redis, outages, content, handler, receivedAt, answer, audit, jobs>>

-----------------------------------------------------------------------------
Next ==
  \/ \E r \in Request : Arrive(r) \/ Handle(r)
  \/ Tick
  \/ \E served \in SUBSET Request : ConnectionDrops(served) \/ Crash(served)
  \/ Reconnect
  \/ Shutdown \/ ShutdownDone \/ Restart

Spec == Init /\ [][Next]_vars

-----------------------------------------------------------------------------
(* Properties *)

\* What 202 says is so: the job is in the queue, whatever call failed and
\* whenever the connection dropped or the process died.
AcknowledgedIsQueued == \A r \in Request : answer[r] = 202 => jobs[r] >= 1

\* One request adds one job, and one more at most for every connection that
\* was lost under its add: what the resend of ioredis costs, and the
\* idempotency gate of the worker has to absorb.
OneJobPerConnection == \A r \in Request : jobs[r] <= 1 + outages

Verified(r) ==
  LET request == content[r]
  IN  /\ request.headers /\ request.rawBody /\ request.authentic /\ request.wellFormed
      /\ request.timestamp \in (receivedAt[r] - Tolerance)..(receivedAt[r] + Tolerance)

\* Only requests that were genuine and fresh when the guard saw them, with a
\* body that is an event, ever have a job (spec.md, user story 1, scenario 2),
\* however long they waited for the queue after that.
QueuedWasVerified == \A r \in Request : jobs[r] > 0 => Verified(r)

TrailsOf(code) ==
  CASE code = 202 -> {<<>>, <<"accepted">>}
    [] code = 400 -> {<<>>, <<"rejected">>}
    [] code = 401 -> {<<>>}
    [] code = 503 ->
         {<<>>, <<"accepted">>, <<"enqueue_failed">>, <<"accepted", "enqueue_failed">>}

\* The records of a request never contradict its answer, and an answer that
\* says unavailable may come with a job all the same: a client that resends
\* then must expect a duplicate.
TrailFitsAnswer ==
  \A r \in Request :
    answer[r] # NoAnswer =>
      /\ audit[r] \in TrailsOf(answer[r])
      /\ answer[r] \in {400, 401} => jobs[r] = 0
      /\ answer[r] = 503 /\ jobs[r] > 0 => "lost" \in Faults \/ outages > 0

\* Every request that reached the route is answered, through outages, refused
\* calls and graceful shutdowns, as long as the process does not die.
EveryRequestAnswered ==
  \A r \in Request : handler[r] = "guard" ~> answer[r] # NoAnswer

-----------------------------------------------------------------------------
(* The inductive invariant: what is known of a request at each await *)

RequestOK(r) ==
  LET step == handler[r]
  IN  /\ answer[r] # NoAnswer <=> step = "answered"
      /\ step \in {"unsent", "guard", "recordRejected", "recordAccepted"} =>
           jobs[r] = 0 /\ audit[r] = <<>>
      /\ step = "enqueue" => jobs[r] <= outages
      /\ step \in {"enqueue", "recordEnqueueFailure"} => audit[r] \in {<<>>, <<"accepted">>}
      /\ step = "recordEnqueueFailure" /\ jobs[r] > 0 => "lost" \in Faults \/ outages > 0
      /\ step \in {"recordAccepted", "enqueue", "recordEnqueueFailure"} => Verified(r)

IInv ==
  /\ TypeOK
  /\ \A r \in Request : RequestOK(r)
  /\ AcknowledgedIsQueued
  /\ OneJobPerConnection
  /\ QueuedWasVerified
  /\ TrailFitsAnswer

=============================================================================
