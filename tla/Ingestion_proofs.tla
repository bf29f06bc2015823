-------------------------- MODULE Ingestion_proofs --------------------------
(***************************************************************************)
(* Proofs about the ingestion route, for every set of requests, tolerance,  *)
(* clock bound, number of outages and set of faults.                        *)
(*                                                                          *)
(* Kept(r) is what the invariant IInv says of one request. An action of     *)
(* request r has to keep Kept(r) only: Undisturbed settles the others.      *)
(***************************************************************************)
EXTENDS Ingestion, TLAPS, SequenceTheorems

Kept(r) ==
  /\ RequestOK(r)
  /\ answer[r] = 202 => jobs[r] >= 1
  /\ jobs[r] <= 1 + outages
  /\ jobs[r] > 0 => Verified(r)
  /\ answer[r] # NoAnswer =>
       /\ audit[r] \in TrailsOf(answer[r])
       /\ answer[r] \in {400, 401} => jobs[r] = 0
       /\ answer[r] = 503 /\ jobs[r] > 0 => "lost" \in Faults \/ outages > 0

\* The invariant is a statement about each request by itself.
LEMMA IInvByRequest == IInv <=> TypeOK /\ \A r \in Request : Kept(r)
  BY DEF IInv, Kept, AcknowledgedIsQueued, OneJobPerConnection, QueuedWasVerified, TrailFitsAnswer

\* The same of the state after a step.
LEMMA IInvByRequestAfter == TypeOK' /\ (\A r \in Request : Kept(r)') => IInv'
  BY DEF IInv, Kept, AcknowledgedIsQueued, OneJobPerConnection, QueuedWasVerified, TrailFitsAnswer

\* What a step leaves alone in a request.
Untouched(r) ==
  /\ content'[r] = content[r]
  /\ handler'[r] = handler[r]
  /\ receivedAt'[r] = receivedAt[r]
  /\ answer'[r] = answer[r]
  /\ audit'[r] = audit[r]
  /\ jobs'[r] = jobs[r]

\* A request that a step leaves alone is still as the invariant says.
LEMMA Undisturbed ==
  ASSUME TypeOK, TypeOK', outages' >= outages,
         NEW r \in Request, Kept(r), Untouched(r)
  PROVE  Kept(r)'
<1>1. outages \in Nat /\ outages' \in Nat /\ jobs[r] \in Nat
  BY DEF TypeOK
<1>2. Verified(r)' <=> Verified(r)
  BY DEF Untouched, Verified
<1>3. RequestOK(r)'
  BY <1>1, <1>2 DEF Kept, RequestOK, Untouched
<1>4. answer[r] # NoAnswer => audit[r] \in TrailsOf(answer[r])
  BY DEF Kept
<1>5. TrailsOf(answer'[r]) = TrailsOf(answer[r])
  BY DEF Untouched
<1>6. (audit[r] \in TrailsOf(answer[r]))' <=> audit[r] \in TrailsOf(answer[r])
  BY <1>5 DEF Untouched, TrailsOf
<1> QED
  BY <1>1, <1>2, <1>3, <1>4, <1>6 DEF Kept, Untouched, NoAnswer

\* The traces that a request can leave, written as the appends that make them.
LEMMA Appends ==
  /\ Append(<<>>, "accepted") = <<"accepted">>
  /\ Append(<<>>, "rejected") = <<"rejected">>
  /\ Append(<<>>, "enqueue_failed") = <<"enqueue_failed">>
  /\ Append(<<"accepted">>, "enqueue_failed") = <<"accepted", "enqueue_failed">>
<1>1. ASSUME NEW x PROVE Append(<<>>, x) = <<x>>
  OBVIOUS
<1>2. ASSUME NEW x, NEW y PROVE Append(<<x>>, y) = <<x, y>>
  <2> DEFINE S == {x, y}
  <2>1. <<x>> \in Seq(S) /\ <<x, y>> \in Seq(S) /\ Len(<<x>>) = 1 /\ Len(<<x, y>>) = 2
    OBVIOUS
  <2>2. Append(<<x>>, y) \in Seq(S) /\ Len(Append(<<x>>, y)) = 2
    BY <2>1, AppendProperties
  <2>3. Append(<<x>>, y)[1] = x /\ Append(<<x>>, y)[2] = y
    BY <2>1, AppendProperties
  <2>4. \A i \in 1..2 : Append(<<x>>, y)[i] = <<x, y>>[i]
    BY <2>3
  <2> QED
    BY <2>1, <2>2, <2>4, SeqEqual
<1> QED
  BY <1>1, <1>2

-----------------------------------------------------------------------------
(* Initial states and the steps of the environment *)

LEMMA InitEstablishes == ASSUME IngestionAssumption, Init PROVE IInv
<1>1. TypeOK
  BY DEF IngestionAssumption, Init, TypeOK, Steps, NoAnswer
<1>2. ASSUME NEW r \in Request PROVE Kept(r)
  BY DEF Init, Kept, RequestOK, NoAnswer
<1> QED
  BY <1>1, <1>2, IInvByRequest

\* Ticks, connections that come back, signals and restarts touch no request.
LEMMA QuietStepKeeps ==
  ASSUME IngestionAssumption, IInv, Tick \/ Reconnect \/ Shutdown \/ Restart
  PROVE  IInv'
<1>1. TypeOK'
  BY DEF IngestionAssumption, IInv, TypeOK, Tick, Reconnect, Shutdown, Restart
<1>2. outages' = outages /\ \A r \in Request : Untouched(r)
  BY DEF Tick, Reconnect, Shutdown, Restart, Untouched
<1>3. outages' >= outages
  BY <1>2 DEF IInv, TypeOK
<1>4. \A r \in Request : Kept(r)'
  BY <1>1, <1>2, <1>3, Undisturbed, IInvByRequest
<1> QED
  BY <1>1, <1>4, IInvByRequestAfter

LEMMA ArriveKeeps ==
  ASSUME IngestionAssumption, IInv, NEW r \in Request, Arrive(r)
  PROVE  IInv'
<1> USE DEF IInv
<1>1. TypeOK'
  BY DEF IngestionAssumption, TypeOK, Arrive, Steps
<1>2. outages' >= outages
  BY DEF Arrive, TypeOK
<1>3. Kept(r)
  BY IInvByRequest
<1>4. answer[r] = NoAnswer /\ jobs[r] = 0 /\ audit[r] = <<>>
  BY <1>3 DEF Arrive, Kept, RequestOK
<1>5. handler'[r] = "guard" /\ outages' \in Nat
      /\ answer'[r] = NoAnswer /\ jobs'[r] = 0 /\ audit'[r] = <<>>
  BY <1>1, <1>4 DEF Arrive, TypeOK
<1>6. Kept(r)'
  BY <1>5 DEF Kept, RequestOK, NoAnswer
<1>7. ASSUME NEW q \in Request, q # r PROVE Kept(q)'
  <2>1. Untouched(q)
    BY <1>7 DEF Arrive, Untouched, TypeOK
  <2> QED
    BY <1>1, <1>2, <2>1, Undisturbed, IInvByRequest
<1> QED
  BY <1>1, <1>6, <1>7, IInvByRequestAfter

LEMMA ConnectionDropsKeeps ==
  ASSUME IngestionAssumption, IInv, NEW served \in SUBSET Request, ConnectionDrops(served)
  PROVE  IInv'
<1> USE DEF IInv
<1>1. TypeOK'
  BY DEF IngestionAssumption, TypeOK, ConnectionDrops, UnheardAdds
<1>2. outages \in Nat /\ outages' = outages + 1
  BY DEF ConnectionDrops, TypeOK
<1>3. ASSUME NEW q \in Request PROVE Kept(q)'
  <2>1. Kept(q)
    BY IInvByRequest
  <2>2. CASE q \notin served
    <3>1. Untouched(q)
      BY <2>2 DEF ConnectionDrops, UnheardAdds, Untouched
    <3> QED
      BY <1>1, <1>2, <2>1, <3>1, Undisturbed
  <2>3. CASE q \in served
    <3>1. handler[q] = "enqueue" /\ handler'[q] = "enqueue" /\ jobs'[q] = jobs[q] + 1
      BY <2>3 DEF ConnectionDrops, UnheardAdds
    <3>2. jobs[q] \in Nat /\ jobs[q] <= outages /\ answer[q] = NoAnswer
          /\ audit[q] \in {<<>>, <<"accepted">>} /\ Verified(q)
      BY <2>1, <3>1 DEF Kept, RequestOK, TypeOK
    <3>3. Verified(q)' /\ answer'[q] = NoAnswer /\ audit'[q] = audit[q]
      BY <3>2 DEF ConnectionDrops, Verified
    <3> QED
      BY <1>2, <3>1, <3>2, <3>3 DEF Kept, RequestOK, NoAnswer
  <2> QED
    BY <2>2, <2>3
<1> QED
  BY <1>1, <1>3, IInvByRequestAfter

\* The end of the process answers nobody and removes no job. Requests whose add
\* it leaves unheard were waiting for it.
LEMMA StopKeeps ==
  ASSUME IngestionAssumption, IInv, NEW served \in SUBSET Request, UnheardAdds(served), Stop
  PROVE  IInv'
<1> USE DEF IInv
<1>1. TypeOK'
  BY DEF IngestionAssumption, TypeOK, Stop, UnheardAdds, Steps
<1>2. outages' = outages /\ outages \in Nat
  BY DEF Stop, TypeOK
<1>3. ASSUME NEW q \in Request PROVE Kept(q)'
  <2>1. Kept(q)
    BY IInvByRequest
  <2>2. CASE handler[q] \notin ActiveSteps
    <3>1. q \notin served
      BY <2>2 DEF UnheardAdds, ActiveSteps, Steps
    <3>2. Untouched(q)
      BY <2>2, <3>1 DEF Stop, UnheardAdds, Untouched
    <3> QED
      BY <1>1, <1>2, <2>1, <3>2, Undisturbed
  <2>3. CASE handler[q] \in ActiveSteps
    <3>1. handler'[q] = "gone" /\ answer'[q] = NoAnswer
      BY <2>1, <2>3 DEF Stop, ActiveSteps, Kept, RequestOK
    <3>2. Verified(q)' <=> Verified(q)
      BY DEF Stop, Verified
    <3>3. jobs[q] \in Nat
      BY DEF TypeOK
    <3>4. \/ jobs'[q] = jobs[q]
          \/ handler[q] = "enqueue" /\ jobs'[q] = jobs[q] + 1
      BY DEF UnheardAdds
    <3>5. jobs'[q] <= 1 + outages /\ (jobs'[q] > 0 => Verified(q))
      BY <1>2, <2>1, <3>3, <3>4 DEF Kept, RequestOK
    <3> QED
      BY <1>2, <3>1, <3>2, <3>5 DEF Kept, RequestOK, NoAnswer
  <2> QED
    BY <2>2, <2>3
<1> QED
  BY <1>1, <1>3, IInvByRequestAfter

LEMMA EndKeeps ==
  ASSUME IngestionAssumption, IInv,
         ShutdownDone \/ \E served \in SUBSET Request : Crash(served)
  PROVE  IInv'
<1>1. CASE ShutdownDone
  <2>1. UnheardAdds({})
    BY <1>1 DEF ShutdownDone, UnheardAdds, IInv, TypeOK
  <2> QED
    BY <1>1, <2>1, StopKeeps DEF ShutdownDone
<1>2. CASE \E served \in SUBSET Request : Crash(served)
  BY <1>2, StopKeeps DEF Crash
<1> QED
  BY <1>1, <1>2

-----------------------------------------------------------------------------
(* The steps of a request *)

LEMMA SignatureGuardKeeps ==
  ASSUME IngestionAssumption, IInv, NEW r \in Request, SignatureGuard(r)
  PROVE  IInv'
<1> USE DEF IInv
<1> DEFINE request == content[r]
           refusal == GuardRefusal(request)
<1>1. refusal \in {NoAnswer, 400, 401}
  BY DEF GuardRefusal, NoAnswer
<1>2. TypeOK'
  <2>1. handler' \in [Request -> Steps]
    BY DEF TypeOK, SignatureGuard, Reply, GoTo, Steps
  <2>2. answer' \in [Request -> Answers \cup {NoAnswer}]
    <3>1. answer' = [answer EXCEPT ![r] = refusal] \/ answer' = answer
      BY DEF SignatureGuard, Reply, GoTo
    <3>2. refusal \in Answers \cup {NoAnswer}
      BY <1>1 DEF Answers
    <3> QED
      BY <3>1, <3>2 DEF TypeOK
  <2> QED
    BY <2>1, <2>2 DEF TypeOK, SignatureGuard
<1>3. outages' = outages /\ outages \in Nat
  BY DEF SignatureGuard, TypeOK
<1>4. Kept(r)
  BY IInvByRequest
<1>5. handler[r] = "guard" /\ answer[r] = NoAnswer /\ jobs[r] = 0 /\ audit[r] = <<>>
  BY <1>4 DEF SignatureGuard, Kept, RequestOK
<1>6. jobs'[r] = 0 /\ audit'[r] = <<>> /\ content'[r] = request /\ receivedAt'[r] = now
  BY <1>5 DEF SignatureGuard, TypeOK
<1>7. ASSUME refusal # NoAnswer PROVE Kept(r)'
  <2>1. handler'[r] = "answered" /\ answer'[r] = refusal
    BY <1>7 DEF SignatureGuard, Reply, TypeOK
  <2>2. audit'[r] \in TrailsOf(answer'[r])
    BY <1>1, <1>6, <1>7, <2>1 DEF TrailsOf
  <2> QED
    BY <1>1, <1>3, <1>6, <1>7, <2>1, <2>2 DEF Kept, RequestOK, NoAnswer
<1>8. ASSUME refusal = NoAnswer PROVE Kept(r)'
  <2>1. answer'[r] = NoAnswer
        /\ handler'[r] = IF request.wellFormed THEN "recordAccepted" ELSE "recordRejected"
    BY <1>5, <1>8 DEF SignatureGuard, GoTo, TypeOK
  <2>2. request.wellFormed => Verified(r)'
    <3>1. request \in RequestContent
      <4>1. NoContent \in RequestContent
        BY DEF RequestContent, NoContent
      <4> QED
        BY <4>1 DEF TypeOK, IngestionAssumption
    <3>2. request.headers /\ request.rawBody /\ request.authentic /\ ~IsStale(request)
      BY <1>8, <3>1 DEF GuardRefusal, NoAnswer, RequestContent
    <3>3. request.timestamp \in Int /\ now \in Nat /\ Tolerance \in Nat
      BY <3>1 DEF RequestContent, TypeOK, IngestionAssumption
    <3>4. request.timestamp \in (now - Tolerance)..(now + Tolerance)
      BY <3>2, <3>3 DEF IsStale, Distance
    <3> QED
      BY <1>6, <3>2, <3>4 DEF Verified
  <2> QED
    BY <1>3, <1>6, <2>1, <2>2 DEF Kept, RequestOK, NoAnswer
<1>9. ASSUME NEW q \in Request, q # r PROVE Kept(q)'
  <2>1. Untouched(q)
    BY <1>9 DEF SignatureGuard, Reply, GoTo, Untouched, TypeOK
  <2> QED
    BY <1>2, <1>3, <2>1, Undisturbed, IInvByRequest
<1> QED
  BY <1>2, <1>7, <1>8, <1>9, IInvByRequestAfter

\* An insert that is refused leaves the trail of the request as it was, and no
\* insert touches that of another.
LEMMA SafeInsertTrail ==
  ASSUME TypeOK, NEW r \in Request, NEW outcome \in Outcomes, SafeInsert(r, outcome)
  PROVE  /\ audit' \in [Request -> Seq(Outcomes)]
         /\ audit'[r] = Append(audit[r], outcome) \/ audit'[r] = audit[r]
         /\ \A q \in Request : q # r => audit'[q] = audit[q]
<1>1. Append(audit[r], outcome) \in Seq(Outcomes)
  BY AppendProperties DEF TypeOK
<1> QED
  BY <1>1 DEF SafeInsert, Insert, TypeOK

LEMMA RecordRejectedKeeps ==
  ASSUME IngestionAssumption, IInv, NEW r \in Request, RecordRejected(r)
  PROVE  IInv'
<1> USE DEF IInv
<1>1. SafeInsert(r, "rejected") /\ "rejected" \in Outcomes
  BY DEF RecordRejected, Outcomes
<1>2. TypeOK'
  BY <1>1, SafeInsertTrail DEF TypeOK, RecordRejected, Reply, Steps, Answers
<1>3. outages' = outages /\ outages \in Nat
  BY DEF RecordRejected, TypeOK
<1>4. Kept(r)
  BY IInvByRequest
<1>5. jobs[r] = 0 /\ audit[r] = <<>>
  BY <1>4 DEF RecordRejected, Kept, RequestOK
<1>6. jobs'[r] = 0 /\ handler'[r] = "answered" /\ answer'[r] = 400
  BY <1>5 DEF RecordRejected, Reply, TypeOK
<1>7. audit'[r] \in {<<>>, <<"rejected">>}
  BY <1>1, <1>5, SafeInsertTrail, Appends
<1>8. Kept(r)'
  BY <1>3, <1>6, <1>7 DEF Kept, RequestOK, TrailsOf, NoAnswer
<1>9. ASSUME NEW q \in Request, q # r PROVE Kept(q)'
  <2>1. audit'[q] = audit[q]
    BY <1>1, <1>9, SafeInsertTrail
  <2>2. Untouched(q)
    BY <1>9, <2>1 DEF RecordRejected, Reply, Untouched, TypeOK
  <2> QED
    BY <1>2, <1>3, <2>2, Undisturbed, IInvByRequest
<1> QED
  BY <1>2, <1>8, <1>9, IInvByRequestAfter

LEMMA RecordAcceptedKeeps ==
  ASSUME IngestionAssumption, IInv, NEW r \in Request, RecordAccepted(r)
  PROVE  IInv'
<1> USE DEF IInv
<1>1. SafeInsert(r, "accepted") /\ "accepted" \in Outcomes
  BY DEF RecordAccepted, Outcomes
<1>2. TypeOK'
  BY <1>1, SafeInsertTrail DEF TypeOK, RecordAccepted, GoTo, Steps
<1>3. outages' = outages /\ outages \in Nat
  BY DEF RecordAccepted, TypeOK
<1>4. Kept(r)
  BY IInvByRequest
<1>5. jobs[r] = 0 /\ audit[r] = <<>> /\ answer[r] = NoAnswer /\ Verified(r)
  BY <1>4 DEF RecordAccepted, Kept, RequestOK
<1>6. jobs'[r] = 0 /\ handler'[r] = "enqueue" /\ answer'[r] = NoAnswer /\ Verified(r)'
  BY <1>5 DEF RecordAccepted, GoTo, TypeOK, Verified
<1>7. audit'[r] \in {<<>>, <<"accepted">>}
  BY <1>1, <1>5, SafeInsertTrail, Appends
<1>8. Kept(r)'
  BY <1>3, <1>6, <1>7 DEF Kept, RequestOK, NoAnswer
<1>9. ASSUME NEW q \in Request, q # r PROVE Kept(q)'
  <2>1. audit'[q] = audit[q]
    BY <1>1, <1>9, SafeInsertTrail
  <2>2. Untouched(q)
    BY <1>9, <2>1 DEF RecordAccepted, GoTo, Untouched, TypeOK
  <2> QED
    BY <1>2, <1>3, <2>2, Undisturbed, IInvByRequest
<1> QED
  BY <1>2, <1>8, <1>9, IInvByRequestAfter

LEMMA EnqueueEventKeeps ==
  ASSUME IngestionAssumption, IInv, NEW r \in Request, EnqueueEvent(r)
  PROVE  IInv'
<1> USE DEF IInv
<1>1. PICK reply \in AddReplies :
        /\ jobs' = IF reply # "reject" THEN [jobs EXCEPT ![r] = @ + 1] ELSE jobs
        /\ IF reply = "ok" THEN Reply(r, 202) ELSE GoTo(r, "recordEnqueueFailure")
  BY DEF EnqueueEvent
<1>2. TypeOK'
  <2>1. jobs' \in [Request -> Nat]
    BY <1>1 DEF TypeOK
  <2>2. handler' \in [Request -> Steps]
    BY <1>1 DEF TypeOK, Reply, GoTo, Steps
  <2>3. answer' \in [Request -> Answers \cup {NoAnswer}]
    <3>1. answer' = [answer EXCEPT ![r] = 202] \/ answer' = answer
      BY <1>1 DEF Reply, GoTo
    <3>2. 202 \in Answers \cup {NoAnswer}
      BY DEF Answers
    <3> QED
      BY <3>1, <3>2 DEF TypeOK
  <2> QED
    BY <2>1, <2>2, <2>3 DEF TypeOK, EnqueueEvent
<1>3. outages' = outages /\ outages \in Nat
  BY DEF EnqueueEvent, TypeOK
<1>4. Kept(r)
  BY IInvByRequest
<1>5. jobs[r] \in Nat /\ jobs[r] <= outages /\ answer[r] = NoAnswer /\ Verified(r)
      /\ audit[r] \in {<<>>, <<"accepted">>}
  BY <1>4 DEF EnqueueEvent, Kept, RequestOK, TypeOK
<1>6. Verified(r)' /\ audit'[r] = audit[r]
  BY <1>5 DEF EnqueueEvent, Verified
<1>7. ASSUME reply = "ok" PROVE Kept(r)'
  <2>1. jobs'[r] = jobs[r] + 1 /\ handler'[r] = "answered" /\ answer'[r] = 202
    BY <1>1, <1>7 DEF Reply, TypeOK
  <2> QED
    BY <1>3, <1>5, <1>6, <2>1 DEF Kept, RequestOK, TrailsOf, NoAnswer
<1>8. ASSUME reply # "ok" PROVE Kept(r)'
  <2>1. handler'[r] = "recordEnqueueFailure" /\ answer'[r] = NoAnswer
    BY <1>1, <1>5, <1>8 DEF GoTo, TypeOK
  <2>2. \/ reply = "lost" /\ "lost" \in Faults /\ jobs'[r] = jobs[r] + 1
        \/ jobs'[r] = jobs[r]
    BY <1>1, <1>8 DEF AddReplies, TypeOK
  <2> QED
    BY <1>3, <1>5, <1>6, <2>1, <2>2 DEF Kept, RequestOK, NoAnswer
<1>9. ASSUME NEW q \in Request, q # r PROVE Kept(q)'
  <2>1. Untouched(q)
    BY <1>1, <1>9 DEF EnqueueEvent, Reply, GoTo, Untouched, TypeOK
  <2> QED
    BY <1>2, <1>3, <2>1, Undisturbed, IInvByRequest
<1> QED
  BY <1>2, <1>7, <1>8, <1>9, IInvByRequestAfter

LEMMA RecordEnqueueFailureKeeps ==
  ASSUME IngestionAssumption, IInv, NEW r \in Request, RecordEnqueueFailure(r)
  PROVE  IInv'
<1> USE DEF IInv
<1>1. SafeInsert(r, "enqueue_failed") /\ "enqueue_failed" \in Outcomes
  BY DEF RecordEnqueueFailure, Outcomes
<1>2. TypeOK'
  BY <1>1, SafeInsertTrail DEF TypeOK, RecordEnqueueFailure, Reply, Steps, Answers
<1>3. outages' = outages /\ outages \in Nat
  BY DEF RecordEnqueueFailure, TypeOK
<1>4. Kept(r)
  BY IInvByRequest
<1>5. /\ audit[r] \in {<<>>, <<"accepted">>}
      /\ jobs[r] > 0 => "lost" \in Faults \/ outages > 0
      /\ Verified(r) /\ jobs[r] <= 1 + outages
  BY <1>4 DEF RecordEnqueueFailure, Kept, RequestOK
<1>6. jobs'[r] = jobs[r] /\ handler'[r] = "answered" /\ answer'[r] = 503 /\ Verified(r)'
  BY <1>5 DEF RecordEnqueueFailure, Reply, TypeOK, Verified
<1>7. audit'[r] \in {<<>>, <<"accepted">>, <<"enqueue_failed">>, <<"accepted", "enqueue_failed">>}
  BY <1>1, <1>5, SafeInsertTrail, Appends
<1>8. audit'[r] \in TrailsOf(answer'[r])
  BY <1>6, <1>7 DEF TrailsOf
<1>9. Kept(r)'
  BY <1>3, <1>5, <1>6, <1>8 DEF Kept, RequestOK, NoAnswer
<1>10. ASSUME NEW q \in Request, q # r PROVE Kept(q)'
  <2>1. audit'[q] = audit[q]
    BY <1>1, <1>10, SafeInsertTrail
  <2>2. Untouched(q)
    BY <1>10, <2>1 DEF RecordEnqueueFailure, Reply, Untouched, TypeOK
  <2> QED
    BY <1>2, <1>3, <2>2, Undisturbed, IInvByRequest
<1> QED
  BY <1>2, <1>9, <1>10, IInvByRequestAfter

-----------------------------------------------------------------------------
(* The specification *)

LEMMA NextKeeps == ASSUME IngestionAssumption, IInv, [Next]_vars PROVE IInv'
<1>1. ASSUME NEW r \in Request, Handle(r) PROVE IInv'
  BY <1>1, SignatureGuardKeeps, RecordRejectedKeeps, RecordAcceptedKeeps,
     EnqueueEventKeeps, RecordEnqueueFailureKeeps DEF Handle
<1>3. ASSUME UNCHANGED vars PROVE IInv'
  <2>1. TypeOK' /\ outages' = outages /\ outages \in Nat
    BY <1>3 DEF vars, IInv, TypeOK
  <2>2. \A r \in Request : Untouched(r)
    BY <1>3 DEF vars, Untouched
  <2>3. \A r \in Request : Kept(r)'
    BY <2>1, <2>2, Undisturbed, IInvByRequest DEF IInv
  <2> QED
    BY <2>1, <2>3, IInvByRequestAfter
<1> QED
  BY <1>1, <1>3, ArriveKeeps, ConnectionDropsKeeps, EndKeeps, QuietStepKeeps DEF Next

\* The invariant holds in every reachable state: at each await a request has the
\* records, the jobs and the answer that the code before that await can give it.
THEOREM Invariance == ASSUME IngestionAssumption PROVE Spec => []IInv
  BY InitEstablishes, NextKeeps, PTL DEF Spec

\* Every variable keeps its type, whatever the requests contain.
THEOREM TypeCorrectness == ASSUME IngestionAssumption PROVE Spec => []TypeOK
<1>1. IInv => TypeOK
  BY DEF IInv
<1> QED
  BY <1>1, Invariance, PTL

\* A request answered with 202 is in the queue (ingestion.controller.ts:135-162),
\* whatever faults, outages and crashes interleave with it.
THEOREM Acknowledgement == ASSUME IngestionAssumption PROVE Spec => []AcknowledgedIsQueued
<1>1. IInv => AcknowledgedIsQueued
  BY DEF IInv
<1> QED
  BY <1>1, Invariance, PTL

\* A request adds one job, and one more at most per lost connection to Redis
\* (enqueue-event.service.ts:8 and gateway-api/src/main.ts:35-46).
THEOREM DuplicatesBounded == ASSUME IngestionAssumption PROVE Spec => []OneJobPerConnection
<1>1. IInv => OneJobPerConnection
  BY DEF IInv
<1> QED
  BY <1>1, Invariance, PTL

\* Only verified requests are queued (signature-guard.ts:64-132).
THEOREM Verification == ASSUME IngestionAssumption PROVE Spec => []QueuedWasVerified
<1>1. IInv => QueuedWasVerified
  BY DEF IInv
<1> QED
  BY <1>1, Invariance, PTL

\* No audit record contradicts an answer (ingestion.controller.ts:76-162).
THEOREM TrailSafety == ASSUME IngestionAssumption PROVE Spec => []TrailFitsAnswer
<1>1. IInv => TrailFitsAnswer
  BY DEF IInv
<1> QED
  BY <1>1, Invariance, PTL

-----------------------------------------------------------------------------
(* The audit trail of a store that takes its inserts *)

Trails == {<<"accepted">>, <<"accepted", "enqueue_failed">>}

\* What is queued, or about to be, has been recorded as accepted, and what has
\* been answered has its whole trail.
Audited(r) ==
  /\ handler[r] \in {"enqueue", "recordEnqueueFailure"} => audit[r] = <<"accepted">>
  /\ answer[r] = 202 => audit[r] = <<"accepted">>
  /\ answer[r] = 503 => audit[r] = <<"accepted", "enqueue_failed">>
  /\ jobs[r] > 0 => audit[r] \in Trails

AllAudited == \A r \in Request : Audited(r)

\* What Audited says of a state.
LEMMA AuditedFirst ==
  ASSUME NEW r \in Request, Audited(r), jobs[r] > 0
  PROVE  audit[r] # <<>> /\ Head(audit[r]) = "accepted"
<1>1. ASSUME NEW t \in Trails PROVE t # <<>> /\ Head(t) = "accepted"
  BY <1>1 DEF Trails
<1> QED
  BY <1>1 DEF Audited

\* If the step inserts, its insert is not refused.
Taken(r) ==
  handler[r] \in {"recordRejected", "recordAccepted", "recordEnqueueFailure"} =>
    \A outcome \in Outcomes : SafeInsert(r, outcome) => Insert(r, outcome)

LEMMA InsertAppends ==
  ASSUME TypeOK, NEW q \in Request, Taken(q), NEW outcome \in Outcomes, SafeInsert(q, outcome),
         handler[q] \in {"recordRejected", "recordAccepted", "recordEnqueueFailure"}
  PROVE  audit'[q] = Append(audit[q], outcome)
BY DEF Taken, Insert, TypeOK

\* A step of a request leaves the others alone.
LEMMA HandleOthers ==
  ASSUME TypeOK, NEW q \in Request, Arrive(q) \/ Handle(q), NEW r \in Request \ {q}
  PROVE  handler'[r] = handler[r] /\ answer'[r] = answer[r]
         /\ audit'[r] = audit[r] /\ jobs'[r] = jobs[r]
BY DEF TypeOK, Arrive, Handle, SignatureGuard, RecordRejected, RecordAccepted, EnqueueEvent,
       RecordEnqueueFailure, SafeInsert, Insert, GoTo, Reply

\* The steps of a request: it reaches the queue through recordAccepted only.
LEMMA HandleAudits ==
  ASSUME IInv, NEW q \in Request, Taken(q), Audited(q), Arrive(q) \/ Handle(q)
  PROVE  Audited(q)'
<1>1. /\ handler \in [Request -> Steps] /\ audit \in [Request -> Seq(Outcomes)]
      /\ answer \in [Request -> Answers \cup {NoAnswer}]
      /\ jobs \in [Request -> Nat]
  BY DEF IInv, TypeOK
<1>2. RequestOK(q) /\ (answer[q] = NoAnswer \/ handler[q] = "answered")
  BY DEF IInv, RequestOK
<1>3. {"rejected", "accepted", "enqueue_failed"} \subseteq Outcomes /\ NoAnswer # 202 /\ NoAnswer # 503
  BY DEF Outcomes, NoAnswer
<1>4. CASE Arrive(q)
  BY <1>1, <1>2, <1>4 DEF Arrive, RequestOK, Audited
<1>5. CASE SignatureGuard(q)
  <2>1. handler[q] = "guard" /\ answer[q] = NoAnswer /\ jobs'[q] = 0
    BY <1>2, <1>5 DEF SignatureGuard, RequestOK
  <2>2. handler'[q] \in {"answered", "recordAccepted", "recordRejected"}
    BY <1>1, <1>5 DEF SignatureGuard, GoTo, Reply
  <2>3. answer'[q] \in {NoAnswer, 400, 401}
    <3>1. GuardRefusal(content[q]) \in {NoAnswer, 400, 401}
      BY DEF GuardRefusal
    <3> QED
      BY <1>1, <1>5, <2>1, <3>1 DEF SignatureGuard, GoTo, Reply
  <2> QED
    BY <1>3, <2>1, <2>2, <2>3 DEF Audited
<1>6. CASE RecordRejected(q)
  BY <1>1, <1>2, <1>6 DEF RecordRejected, RequestOK, Audited, Reply
<1>7. CASE RecordAccepted(q)
  <2>1. audit[q] = <<>> /\ jobs'[q] = 0 /\ answer'[q] = NoAnswer
    BY <1>2, <1>7 DEF RecordAccepted, RequestOK, GoTo
  <2>2. audit'[q] = <<"accepted">>
    BY <1>3, <1>7, <2>1, InsertAppends, Appends DEF RecordAccepted, IInv
  <2> QED
    BY <1>3, <2>1, <2>2 DEF Audited
<1>8. CASE EnqueueEvent(q)
  <2>1. audit' = audit /\ audit[q] = <<"accepted">> /\ audit[q] \in Trails
    BY <1>8 DEF EnqueueEvent, Audited, Trails
  <2>2. answer'[q] \in {202, NoAnswer}
    BY <1>1, <1>2, <1>8 DEF EnqueueEvent, Reply, GoTo
  <2> QED
    BY <1>3, <2>1, <2>2 DEF Audited
<1>9. CASE RecordEnqueueFailure(q)
  <2>1. audit[q] = <<"accepted">>
    BY <1>9 DEF RecordEnqueueFailure, Audited
  <2>2. audit'[q] = <<"accepted", "enqueue_failed">>
    BY <1>3, <1>9, <2>1, InsertAppends, Appends DEF RecordEnqueueFailure, IInv
  <2>3. handler'[q] = "answered" /\ answer'[q] = 503
    BY <1>1, <1>9 DEF RecordEnqueueFailure, Reply
  <2> QED
    BY <2>2, <2>3 DEF Audited, Trails
<1> QED
  BY <1>4, <1>5, <1>6, <1>7, <1>8, <1>9 DEF Handle

\* The steps of everything else add jobs for requests at the queue only.
LEMMA OthersAudit ==
  ASSUME TypeOK, NEW r \in Request, Audited(r),
         \/ Tick \/ Reconnect \/ Shutdown \/ ShutdownDone \/ Restart
         \/ \E served \in SUBSET Request : ConnectionDrops(served) \/ Crash(served)
  PROVE  Audited(r)'
<1>1. handler \in [Request -> Steps] /\ jobs \in [Request -> Nat]
  BY DEF TypeOK
<1>2. CASE Tick \/ Reconnect \/ Shutdown \/ Restart
  BY <1>2 DEF Tick, Reconnect, Shutdown, Restart, Audited
<1>3. CASE ShutdownDone
  BY <1>1, <1>3 DEF ShutdownDone, Stop, Audited
<1>4. ASSUME NEW served \in SUBSET Request, ConnectionDrops(served) \/ Crash(served)
      PROVE  Audited(r)'
  <2>1. answer'[r] = answer[r] /\ audit'[r] = audit[r] /\ handler'[r] \in {handler[r], "gone"}
    BY <1>1, <1>4 DEF ConnectionDrops, Crash, Stop
  <2>2. jobs'[r] > 0 => jobs[r] > 0 \/ handler[r] = "enqueue"
    BY <1>1, <1>4 DEF ConnectionDrops, Crash, UnheardAdds
  <2> QED
    BY <2>1, <2>2 DEF Audited, Trails
<1> QED
  BY <1>2, <1>3, <1>4

LEMMA NextAudits ==
  ASSUME IInv, "audit" \notin Faults, AllAudited, [Next]_vars
  PROVE  AllAudited'
<1>1. CASE UNCHANGED vars
  BY <1>1 DEF vars, AllAudited, Audited
<1>2. \A q \in Request : Taken(q)
  BY DEF Taken, SafeInsert
<1>3. ASSUME NEW q \in Request, Arrive(q) \/ Handle(q), NEW r \in Request PROVE Audited(r)'
  BY <1>2, <1>3, HandleAudits, HandleOthers DEF AllAudited, IInv, Audited
<1>4. CASE Next
  BY <1>3, <1>4, OthersAudit DEF Next, AllAudited, IInv
<1> QED
  BY <1>1, <1>4

=============================================================================
