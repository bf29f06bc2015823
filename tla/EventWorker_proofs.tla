------------------------- MODULE EventWorker_proofs -------------------------
(***************************************************************************)
(* Proofs about EventWorker, for every value of its constants: the inductive *)
(* invariant, the safety properties that follow from it, and the refinement  *)
(* of EventLedger.                                                           *)
(*                                                                          *)
(* The argument is the same for every await of processEvent. A step of slot *)
(* s touches the documents of one key only; either s owns that key, so that *)
(* no other slot relies on those documents, or the step leaves them as any  *)
(* owner knows them. SlotStepKeepsIInv says so once; the lemma of an action *)
(* shows that the action is such a step.                                    *)
(***************************************************************************)
EXTENDS EventWorker, TLAPS, SequenceTheorems

-----------------------------------------------------------------------------
(* The invariant key by key *)

LettersComplete(letters) ==
  \A i \in 1..Len(letters) :
    /\ letters[i].attemptCount = Len(letters[i].attemptHistory)
    /\ letters[i].attemptCount \in 1..MaxAttempts
    /\ NumberedFromOne(letters[i].attemptHistory)

CountOK(k) ==
  LET record == ledger[k]
  IN  /\ NumberedFromOne(record.attemptHistory)
      /\ record.attemptCount = Len(record.attemptHistory)
           + IF record.status \in {"none", "received", "failed"} THEN 0 ELSE 1
      /\ record.status \in {"none", "received"} => record.attemptCount = 0
      /\ record.attemptCount <= MaxAttempts
      /\ record.status \in LockableStatuses => record.attemptCount < MaxAttempts

BurialOK(k) ==
  /\ Len(deadLetters[k]) <= 1
  /\ Len(dlq[k]) <= 1 + MaxResends
  /\ dlq[k] # <<>> => Len(deadLetters[k]) = 1
  /\ Len(deadLetters[k]) = 1 => ledger[k].status = "dead_lettered"

ShipmentOK(k) ==
  ledger[k].status = "processed" =>
    \E j \in Job : JobKey[j] = k /\ shipments[JobShipment[j]] # None

\* What IInv says of the documents of one key.
KeyOK(k) ==
  /\ CountOK(k)
  /\ LettersComplete(deadLetters[k]) /\ LettersComplete(dlq[k])
  /\ BurialOK(k)
  /\ ShipmentOK(k)

ShipmentsAttempted ==
  \A x \in Shipment :
    shipments[x] # None => ledger[JobKey[shipments[x]]].attemptCount >= 1

LEMMA IInvByKey ==
  /\ IInv <=> /\ TypeOK /\ RunsMatchRecords /\ LockExclusive
              /\ \A k \in Key : KeyOK(k)
              /\ CompletedWasAttempted /\ ShipmentsAttempted
  /\ IInv' <=> /\ TypeOK' /\ RunsMatchRecords' /\ LockExclusive'
               /\ \A k \in Key : KeyOK(k)'
               /\ CompletedWasAttempted' /\ ShipmentsAttempted'
<1>1. AttemptsRecorded /\ AttemptsBounded <=> \A k \in Key : CountOK(k)
  BY DEF AttemptsRecorded, AttemptsBounded, CountOK
<1>2. DeadLettersComplete <=>
        \A k \in Key : LettersComplete(deadLetters[k]) /\ LettersComplete(dlq[k])
  BY DEF DeadLettersComplete, LettersComplete
<1>3. BuriedOnce <=> \A k \in Key : BurialOK(k)
  BY DEF BuriedOnce, BurialOK
<1>4. ShipmentsFollowLedger <=> ShipmentsAttempted /\ \A k \in Key : ShipmentOK(k)
  BY DEF ShipmentsFollowLedger, ShipmentsAttempted, ShipmentOK
<1>5. (AttemptsRecorded /\ AttemptsBounded)' <=> \A k \in Key : CountOK(k)'
  BY DEF AttemptsRecorded, AttemptsBounded, CountOK
<1>6. DeadLettersComplete' <=>
        \A k \in Key : LettersComplete(deadLetters'[k]) /\ LettersComplete(dlq'[k])
  BY DEF DeadLettersComplete, LettersComplete
<1>7. BuriedOnce' <=> \A k \in Key : BurialOK(k)'
  BY DEF BuriedOnce, BurialOK
<1>8. ShipmentsFollowLedger' <=> ShipmentsAttempted' /\ \A k \in Key : ShipmentOK(k)'
  BY DEF ShipmentsFollowLedger, ShipmentsAttempted, ShipmentOK
<1> QED
  BY <1>1, <1>2, <1>3, <1>4, <1>5, <1>6, <1>7, <1>8 DEF IInv, KeyOK

-----------------------------------------------------------------------------
(* The helpers of the actions *)

LEMMA ClassifiedType ==
  ASSUME NEW error
  PROVE  ClassifyError(error).code \in ClassifiedCodes
  BY DEF ClassifyError, ClassifiedCodes

LEMMA GoToFacts ==
  ASSUME run \in [Slot -> RunRecord], NEW s \in Slot, NEW to \in Steps, GoTo(s, to)
  PROVE  /\ run' \in [Slot -> RunRecord]
         /\ run'[s].step = to
         /\ run'[s].job = run[s].job
         /\ run'[s].attempt = run[s].attempt
         /\ run'[s].code = run[s].code
         /\ run'[s].history = run[s].history
         /\ \A t \in Slot \ {s} : run'[t] = run[t]
<1>1. [run[s] EXCEPT !.step = to] \in RunRecord
  BY DEF RunRecord
<1>2. run' = [run EXCEPT ![s] = [run[s] EXCEPT !.step = to]]
  BY DEF GoTo
<1> QED
  BY <1>1, <1>2 DEF RunRecord

LEMMA CatchFacts ==
  ASSUME EventWorkerAssumption, run \in [Slot -> RunRecord],
         NEW s \in Slot, NEW attempt \in Nat, NEW error, Catch(s, attempt, error)
  PROVE  /\ run' \in [Slot -> RunRecord]
         /\ run'[s].step \in {"fail", "bury"}
         /\ run'[s].step = "fail" => attempt < MaxAttempts
         /\ run'[s].job = run[s].job
         /\ run'[s].attempt = attempt
         /\ run'[s].code \in ClassifiedCodes
         /\ \A t \in Slot \ {s} : run'[t] = run[t]
<1> DEFINE code == ClassifyError(error).code
           step == IF ShouldRetry(attempt, MaxAttempts, ClassifyError(error).classification)
                   THEN "fail" ELSE "bury"
           next == [run[s] EXCEPT !.attempt = attempt, !.code = code, !.step = step]
<1>1. code \in ClassifiedCodes
  BY ClassifiedType
<1>2. step \in {"fail", "bury"} /\ (step = "fail" => attempt < MaxAttempts)
  BY DEF ShouldRetry
<1>3. run' = [run EXCEPT ![s] = next]
  BY DEF Catch
<1> HIDE DEF code, step
<1>4. next \in RunRecord
  BY <1>1, <1>2 DEF RunRecord, Steps
<1>5. next.step = step /\ next.job = run[s].job /\ next.attempt = attempt /\ next.code = code
  BY DEF RunRecord
<1> HIDE DEF next
<1> QED
  BY <1>1, <1>2, <1>3, <1>4, <1>5

LEMMA UpdateFacts ==
  ASSUME ledger \in [Key -> LedgerRecord], NEW k \in Key,
         NEW record \in LedgerRecord, NEW reply, Update(reply, k, record)
  PROVE  /\ ledger' \in [Key -> LedgerRecord]
         /\ reply = "ok" => ledger'[k] = record
         /\ ledger'[k] \in {record, ledger[k]}
         /\ \A other \in Key \ {k} : ledger'[other] = ledger[other]
  BY DEF Update, Applied

\* Appending the attempt of the next number keeps a history numbered.
LEMMA NumberedAppend ==
  ASSUME NEW history \in Seq(AttemptEntry), NEW entry \in AttemptEntry,
         NumberedFromOne(history), entry.attempt = Len(history) + 1
  PROVE  /\ Append(history, entry) \in Seq(AttemptEntry)
         /\ Len(Append(history, entry)) = Len(history) + 1
         /\ NumberedFromOne(Append(history, entry))
  BY DEF NumberedFromOne

-----------------------------------------------------------------------------
(* The initial states *)

LEMMA InitIInv ==
  ASSUME EventWorkerAssumption, Init
  PROVE  IInv
<1> USE DEF Init
<1>1. TypeOK
  BY DEF TypeOK, WorkerStates, JobEntry, JobStates, MaxStalledCount, RunRecord, IdleRun,
         Steps, NoCode, LedgerRecord, NoRecord, ProcessedStatus, DeadLetterRecord
<1>2. RunsMatchRecords
  BY DEF RunsMatchRecords, RunOK, Owns, IdleRun, LockedSteps, BurialSteps
<1>3. LockExclusive
  BY DEF LockExclusive, Owns, IdleRun, LockedSteps, BurialSteps
<1>4. AttemptsRecorded /\ AttemptsBounded
  BY DEF AttemptsRecorded, AttemptsBounded, NoRecord, NumberedFromOne, LockableStatuses,
         EventWorkerAssumption
<1>5. DeadLettersComplete /\ BuriedOnce
  BY DEF DeadLettersComplete, BuriedOnce, EventWorkerAssumption
<1>6. CompletedWasAttempted /\ ShipmentsFollowLedger
  BY DEF CompletedWasAttempted, ShipmentsFollowLedger, NoRecord
<1> QED
  BY <1>1, <1>2, <1>3, <1>4, <1>5, <1>6 DEF IInv

-----------------------------------------------------------------------------
(* A step of one slot *)

\* No slot but s owns the key of s.
Alone(s) == \A t \in Slot \ {s} : Owns(t) => KeyOf(t) # KeyOf(s)

\* The documents of the key of s stay as they are.
Undisturbed(s) ==
  /\ ledger'[KeyOf(s)] = ledger[KeyOf(s)]
  /\ deadLetters'[KeyOf(s)] = deadLetters[KeyOf(s)]
  /\ dlq'[KeyOf(s)] = dlq[KeyOf(s)]

\* What an await of slot s leaves alone, and what it never takes back.
SlotFrame(s) ==
  /\ \A t \in Slot \ {s} : run'[t] = run[t]
  /\ run'[s].job = run[s].job
  /\ \A k \in Key \ {KeyOf(s)} :
       /\ ledger'[k] = ledger[k]
       /\ deadLetters'[k] = deadLetters[k]
       /\ dlq'[k] = dlq[k]
  /\ ledger[KeyOf(s)].status # "none" => ledger'[KeyOf(s)].status # "none"
  /\ ledger'[KeyOf(s)].attemptCount >= ledger[KeyOf(s)].attemptCount
  /\ \A x \in Shipment :
       \/ shipments'[x] = shipments[x]
       \/ shipments'[x] = run[s].job /\ ledger'[KeyOf(s)].attemptCount >= 1
  /\ queue' = queue

LEMMA SlotStepKeepsIInv ==
  ASSUME EventWorkerAssumption, IInv, TypeOK',
         NEW s \in Slot, run[s].job \in Job, SlotFrame(s),
         Alone(s) \/ Undisturbed(s),
         Owns(s)' => Alone(s),
         RunOK(s)', KeyOK(KeyOf(s))'
  PROVE  IInv'
<1>1. KeyOf(s) \in Key /\ KeyOf(s)' = KeyOf(s)
  BY DEF KeyOf, EventWorkerAssumption, SlotFrame
<1>2. \A t \in Slot \ {s} :
        /\ run'[t] = run[t]
        /\ KeyOf(t)' = KeyOf(t)
        /\ Owns(t)' <=> Owns(t)
  BY DEF KeyOf, Owns, SlotFrame
<1>3. \A k \in Key \ {KeyOf(s)} :
        ledger'[k] = ledger[k] /\ deadLetters'[k] = deadLetters[k] /\ dlq'[k] = dlq[k]
  BY DEF SlotFrame
<1>4. \A k \in Key :
        /\ ledger[k].status # "none" => ledger'[k].status # "none"
        /\ ledger'[k].attemptCount >= ledger[k].attemptCount
        /\ ledger[k].attemptCount \in Nat /\ ledger'[k].attemptCount \in Nat
  <2>1. \A k \in Key : ledger[k].attemptCount \in Nat /\ ledger'[k].attemptCount \in Nat
    BY DEF IInv, TypeOK, LedgerRecord
  <2> QED
    BY <1>3, <2>1 DEF SlotFrame
<1>5. \A x \in Shipment :
        /\ shipments[x] # None => shipments'[x] # None
        /\ shipments'[x] # None => shipments'[x] \in Job
        /\ shipments[x] # None => shipments[x] \in Job
  BY DEF EventWorkerAssumption, SlotFrame, IInv, TypeOK
<1>6. RunsMatchRecords'
  <2> SUFFICES ASSUME NEW t \in Slot \ {s} PROVE RunOK(t)'
    BY DEF RunsMatchRecords
  <2>1. RunOK(t) /\ run[t].job \in Job \cup {None}
    BY DEF IInv, RunsMatchRecords, TypeOK, RunRecord
  <2>2. CASE run[t].step = "idle"
    BY <1>2, <2>2 DEF RunOK, Owns, LockedSteps, BurialSteps
  <2>3. CASE run[t].step # "idle" /\ KeyOf(t) # KeyOf(s)
    <3>1. KeyOf(t) \in Key \ {KeyOf(s)} /\ JobShipment[run[t].job] \in Shipment
      BY <2>1, <2>3 DEF RunOK, KeyOf, EventWorkerAssumption
    <3> QED
      BY <1>2, <1>3, <1>5, <2>1, <3>1 DEF RunOK
  <2>4. CASE run[t].step # "idle" /\ KeyOf(t) = KeyOf(s)
    <3>1. run[t].job \in Job /\ JobShipment[run[t].job] \in Shipment
      BY <2>1, <2>4 DEF RunOK, EventWorkerAssumption
    <3>2. CASE ~Owns(t)
      BY <1>1, <1>2, <1>4, <1>5, <2>1, <2>4, <3>1, <3>2 DEF RunOK, Owns, LockedSteps, BurialSteps
    <3>3. CASE Owns(t)
      <4>1. Undisturbed(s)
        BY <2>4, <3>3 DEF Alone
      <4> QED
        BY <1>1, <1>2, <1>5, <2>1, <2>4, <3>1, <4>1 DEF RunOK, Undisturbed
    <3> QED
      BY <3>2, <3>3
  <2> QED
    BY <2>2, <2>3, <2>4
<1>7. LockExclusive'
  BY <1>1, <1>2 DEF LockExclusive, Alone, IInv
<1>8. ASSUME NEW k \in Key PROVE KeyOK(k)'
  <2>1. CASE k = KeyOf(s)
    BY <1>1, <2>1 DEF KeyOK
  <2>2. CASE k # KeyOf(s)
    <3>1. KeyOK(k)
      BY IInvByKey
    <3>2. \A j \in Job : JobShipment[j] \in Shipment
      BY DEF EventWorkerAssumption
    <3> QED
      BY <1>3, <1>5, <2>2, <3>1, <3>2 DEF KeyOK, CountOK, BurialOK, ShipmentOK
  <2> QED
    BY <2>1, <2>2
<1>9. CompletedWasAttempted'
  <2>1. \A j \in Job : JobKey[j] \in Key
    BY DEF EventWorkerAssumption
  <2> QED
    BY <1>4, <2>1 DEF CompletedWasAttempted, SlotFrame, IInv
<1>10. ShipmentsAttempted'
  <2>1. \A j \in Job : JobKey[j] \in Key
    BY DEF EventWorkerAssumption
  <2>2. ShipmentsAttempted
    BY IInvByKey
  <2> QED
    BY <1>4, <1>5, <2>1, <2>2 DEF ShipmentsAttempted, SlotFrame, KeyOf
<1> QED
  BY <1>6, <1>7, <1>8, <1>9, <1>10, IInvByKey

LEMMA SlotContext ==
  ASSUME EventWorkerAssumption, IInv, NEW s \in Slot, run[s].step # "idle"
  PROVE  /\ TypeOK
         /\ run[s] \in RunRecord
         /\ run[s].job \in Job
         /\ KeyOf(s) \in Key
         /\ JobShipment[run[s].job] \in Shipment
         /\ ledger[KeyOf(s)] \in LedgerRecord
         /\ RunOK(s)
         /\ KeyOK(KeyOf(s))
         /\ Owns(s) => Alone(s)
<1>1. TypeOK /\ RunOK(s) /\ LockExclusive
  BY DEF IInv, RunsMatchRecords
<1>2. run[s].job \in Job
  BY <1>1 DEF RunOK
<1>3. KeyOf(s) \in Key /\ JobShipment[run[s].job] \in Shipment
  BY <1>2 DEF KeyOf, EventWorkerAssumption
<1>4. KeyOK(KeyOf(s))
  BY <1>3, IInvByKey
<1>5. Owns(s) => Alone(s)
  BY <1>1 DEF LockExclusive, Alone
<1> QED
  BY <1>1, <1>2, <1>3, <1>4, <1>5 DEF TypeOK

\* A record that is neither new nor waiting for an attempt has had one.
LEMMA CountPositive ==
  ASSUME NEW k \in Key, CountOK(k), ledger[k] \in LedgerRecord,
         ledger[k].status \notin {"none", "received", "failed"}
  PROVE  ledger[k].attemptCount >= 1
<1>1. Len(ledger[k].attemptHistory) \in Nat
  BY DEF LedgerRecord
<1> QED
  BY <1>1 DEF CountOK

LEMMA CheckIdempotencyKeepsIInv ==
  ASSUME EventWorkerAssumption, IInv, NEW s \in Slot, CheckIdempotency(s)
  PROVE  IInv'
<1>0. run[s].step = "check"
  BY DEF CheckIdempotency, At
<1>c. /\ TypeOK /\ run[s].job \in Job /\ KeyOf(s) \in Key /\ RunOK(s) /\ KeyOK(KeyOf(s))
      /\ ledger[KeyOf(s)] \in LedgerRecord
  BY <1>0, SlotContext
<1>1. UNCHANGED <<worker, queue, ledger, shipments, deadLetters, dlq>>
  BY DEF CheckIdempotency
<1>2. PICK to \in {"resolved", "receive", "rejected"} :
        /\ GoTo(s, to)
        /\ to = "resolved" => ledger[KeyOf(s)].status \in SkippedStatuses
  BY DEF CheckIdempotency, Await
<1>3. to \in Steps
  BY DEF Steps
<1>4. /\ run' \in [Slot -> RunRecord] /\ run'[s].step = to /\ run'[s].job = run[s].job
      /\ \A t \in Slot \ {s} : run'[t] = run[t]
  BY <1>c, <1>2, <1>3, GoToFacts DEF TypeOK
<1>5. TypeOK'
  BY <1>c, <1>1, <1>4 DEF TypeOK
<1>6. KeyOf(s)' = KeyOf(s)
  BY <1>4 DEF KeyOf
<1>7. ~Owns(s)'
  BY <1>4 DEF Owns, LockedSteps, BurialSteps
<1>8. to = "resolved" => ledger[KeyOf(s)].attemptCount >= 1
  BY <1>c, <1>2, CountPositive DEF KeyOK, SkippedStatuses
<1>9. RunOK(s)'
  BY <1>c, <1>1, <1>4, <1>6, <1>7, <1>8 DEF RunOK, BurialSteps
<1>10. KeyOK(KeyOf(s))'
  BY <1>c, <1>1, <1>6 DEF KeyOK, CountOK, BurialOK, ShipmentOK
<1>11. SlotFrame(s)
  BY <1>c, <1>1, <1>4 DEF SlotFrame, LedgerRecord
<1> QED
  BY <1>c, <1>1, <1>5, <1>7, <1>9, <1>10, <1>11, SlotStepKeepsIInv DEF Undisturbed

LEMMA MarkReceivedKeepsIInv ==
  ASSUME EventWorkerAssumption, IInv, NEW s \in Slot, MarkReceived(s)
  PROVE  IInv'
<1> DEFINE k == KeyOf(s)
<1>0. run[s].step = "receive"
  BY DEF MarkReceived, At
<1>c. /\ TypeOK /\ run[s].job \in Job /\ k \in Key /\ RunOK(s) /\ KeyOK(k)
      /\ ledger[k] \in LedgerRecord
  BY <1>0, SlotContext
<1>1. UNCHANGED <<worker, queue, shipments, deadLetters, dlq>>
  BY DEF MarkReceived
<1>2. PICK reply \in WriteReplies :
        Await(s, reply, "acquire") /\ Update(reply, k, ReceivedRecord(k))
  BY DEF MarkReceived
<1>3. ReceivedRecord(k) \in LedgerRecord /\ ReceivedRecord(k).status # "none"
  <2>1. [NoRecord EXCEPT !.status = "received"] \in LedgerRecord
    BY EmptySeq DEF LedgerRecord, NoRecord, ProcessedStatus
  <2>2. [NoRecord EXCEPT !.status = "received"].status = "received"
    BY DEF NoRecord
  <2> QED
    BY <1>c, <2>1, <2>2 DEF ReceivedRecord
<1>4. /\ ledger' \in [Key -> LedgerRecord]
      /\ reply = "ok" => ledger'[k] = ReceivedRecord(k)
      /\ ledger'[k] \in {ReceivedRecord(k), ledger[k]}
      /\ \A other \in Key \ {k} : ledger'[other] = ledger[other]
  BY <1>c, <1>2, <1>3, UpdateFacts DEF TypeOK
<1>5. PICK to \in {"acquire", "rejected"} : GoTo(s, to) /\ (to = "acquire" => reply = "ok")
  BY <1>2 DEF Await
<1>6. /\ run' \in [Slot -> RunRecord] /\ run'[s].step = to /\ run'[s].job = run[s].job
      /\ \A t \in Slot \ {s} : run'[t] = run[t]
  BY <1>c, <1>5, GoToFacts DEF TypeOK, Steps
<1>7. TypeOK'
  BY <1>c, <1>1, <1>4, <1>6 DEF TypeOK
<1>8. k' = k
  BY <1>6 DEF KeyOf
<1>9. ~Owns(s)'
  BY <1>6 DEF Owns, LockedSteps, BurialSteps
<1>10. ledger'[k] = ledger[k] \/ (ledger[k].status = "none" /\ ledger'[k] = [NoRecord EXCEPT !.status = "received"])
  BY <1>4 DEF ReceivedRecord
<1>11. RunOK(s)'
  BY <1>c, <1>3, <1>4, <1>5, <1>6, <1>8, <1>9 DEF RunOK, BurialSteps
<1>12. CASE ledger'[k] = ledger[k]
  <2>1. KeyOK(k)'
    BY <1>c, <1>1, <1>8, <1>12 DEF KeyOK, CountOK, BurialOK, ShipmentOK
  <2>2. SlotFrame(s)
    BY <1>c, <1>1, <1>4, <1>6, <1>12 DEF SlotFrame, LedgerRecord
  <2> QED
    BY <1>c, <1>1, <1>7, <1>9, <1>11, <1>12, <2>1, <2>2, SlotStepKeepsIInv DEF Undisturbed
<1>13. CASE ledger[k].status = "none" /\ ledger'[k] = [NoRecord EXCEPT !.status = "received"]
  <2>1. /\ ledger'[k].status = "received" /\ ledger'[k].attemptCount = 0
        /\ ledger'[k].attemptHistory = <<>>
    BY <1>13 DEF NoRecord
  <2>2. ledger[k].attemptCount = 0
    BY <1>c, <1>13 DEF KeyOK, CountOK, LockableStatuses, LedgerRecord
  <2>3. KeyOK(k)'
    <3>1. CountOK(k)'
      BY <1>8, <2>1 DEF CountOK, NumberedFromOne, EventWorkerAssumption
    <3>2. BurialOK(k)' /\ ShipmentOK(k)'
      BY <1>c, <1>1, <1>8, <1>13, <2>1 DEF KeyOK, BurialOK, ShipmentOK
    <3> QED
      BY <1>c, <1>1, <1>8, <3>1, <3>2 DEF KeyOK
  <2>4. SlotFrame(s)
    BY <1>c, <1>1, <1>4, <1>6, <2>1, <2>2 DEF SlotFrame
  <2>5. Alone(s)
    BY <1>13 DEF Alone, Owns, RunOK, IInv, RunsMatchRecords, LockedSteps, BurialSteps
  <2> QED
    BY <1>c, <1>7, <1>9, <1>11, <2>3, <2>4, <2>5, SlotStepKeepsIInv
<1> QED
  BY <1>10, <1>12, <1>13

LEMMA LockedRecord ==
  ASSUME NEW record \in LedgerRecord,
         NEW locked, locked = [record EXCEPT !.status = "processing", !.attemptCount = @ + 1]
  PROVE  /\ locked \in LedgerRecord
         /\ locked.status = "processing"
         /\ locked.attemptCount = record.attemptCount + 1
         /\ locked.attemptHistory = record.attemptHistory
<1>1. locked = [[record EXCEPT !.status = "processing"]
                  EXCEPT !.attemptCount = record.attemptCount + 1]
  BY DEF LedgerRecord
<1>2. record.attemptCount + 1 \in Nat
  BY DEF LedgerRecord
<1> QED
  BY <1>1, <1>2 DEF LedgerRecord, ProcessedStatus

\* The update of markProcessing, and what its slot goes on with.
LEMMA MarkProcessingKeepsIInv ==
  ASSUME EventWorkerAssumption, IInv, NEW s \in Slot, MarkProcessing(s)
  PROVE  IInv'
<1> DEFINE k == KeyOf(s)
           matched == ledger[k].status \in LockableStatuses
           acquired == [ledger[k] EXCEPT !.status = "processing", !.attemptCount = @ + 1]
<1>0. run[s].step = "acquire"
  BY DEF MarkProcessing, At
<1>c. /\ TypeOK /\ run[s].job \in Job /\ k \in Key /\ RunOK(s) /\ KeyOK(k)
      /\ ledger[k] \in LedgerRecord
  BY <1>0, SlotContext
<1>1. UNCHANGED <<worker, queue, shipments, deadLetters, dlq>>
  BY DEF MarkProcessing
<1>2. PICK reply \in WriteReplies :
        /\ Update(reply, k, IF matched THEN acquired ELSE ledger[k])
        /\ \/ /\ reply = "ok" /\ matched
              /\ IF JobOf(s) \in Malformed
                 THEN Catch(s, acquired.attemptCount, PayloadError)
                 ELSE run' = [run EXCEPT ![s].step = "upsert",
                                         ![s].attempt = acquired.attemptCount]
           \/ ~(reply = "ok" /\ matched) /\ Await(s, reply, "resolved")
  BY DEF MarkProcessing
<1>3. /\ acquired \in LedgerRecord
      /\ acquired.status = "processing"
      /\ acquired.attemptCount = ledger[k].attemptCount + 1
      /\ acquired.attemptHistory = ledger[k].attemptHistory
  BY <1>c, LockedRecord
<1> HIDE DEF acquired
<1>4. /\ ledger' \in [Key -> LedgerRecord]
      /\ reply = "ok" => ledger'[k] = IF matched THEN acquired ELSE ledger[k]
      /\ ledger'[k] \in {IF matched THEN acquired ELSE ledger[k], ledger[k]}
      /\ \A other \in Key \ {k} : ledger'[other] = ledger[other]
  BY <1>c, <1>2, <1>3, UpdateFacts DEF TypeOK
<1>5. ledger[k].attemptCount \in Nat /\ (matched => ledger[k].attemptCount < MaxAttempts)
  BY <1>c DEF KeyOK, CountOK, LedgerRecord
<1>6. CASE matched /\ ledger'[k] = acquired
  <2>1. Alone(s)
    BY <1>6 DEF Alone, Owns, RunOK, IInv, RunsMatchRecords, LockedSteps, BurialSteps,
                LockableStatuses
  <2>2. CountOK(k) /\ Len(ledger[k].attemptHistory) \in Nat
    BY <1>c DEF KeyOK, LedgerRecord
  <2>3. /\ ledger'[k].status = "processing"
        /\ ledger'[k].attemptCount = ledger[k].attemptCount + 1
        /\ ledger'[k].attemptHistory = ledger[k].attemptHistory
        /\ ledger[k].attemptCount + 1 <= MaxAttempts
    BY <1>3, <1>5, <1>6 DEF EventWorkerAssumption
  <2>4. ASSUME k' = k PROVE KeyOK(k)'
    <3>1. CountOK(k)'
      <4>1. ledger[k].attemptCount = Len(ledger[k].attemptHistory)
        <5>1. ledger[k].status \in {"none", "received", "failed"}
          BY <1>6 DEF LockableStatuses
        <5> QED
          BY <2>2, <5>1 DEF CountOK
      <4>2. NumberedFromOne(ledger[k].attemptHistory)
        BY <2>2 DEF CountOK
      <4>3. NumberedFromOne(ledger[k].attemptHistory)'
        BY <2>3, <2>4, <4>2 DEF NumberedFromOne
      <4> QED
        BY <2>3, <2>4, <4>1, <4>3 DEF CountOK, LockableStatuses
    <3>2. ledger[k].status # "dead_lettered"
      BY <1>6 DEF LockableStatuses
    <3>3. Len(deadLetters[k]) \in Nat
      BY <1>c DEF TypeOK
    <3>4. BurialOK(k)' /\ ShipmentOK(k)'
      BY <1>c, <1>1, <2>3, <2>4, <3>2, <3>3 DEF KeyOK, BurialOK, ShipmentOK
    <3> QED
      BY <1>c, <1>1, <2>4, <3>1, <3>4 DEF KeyOK
  <2>5. ASSUME run' \in [Slot -> RunRecord], run'[s].job = run[s].job,
               \A t \in Slot \ {s} : run'[t] = run[t]
        PROVE  TypeOK' /\ SlotFrame(s) /\ k' = k
    <3>1. TypeOK'
      BY <1>c, <1>1, <1>4, <2>5 DEF TypeOK
    <3>2. k' = k
      BY <2>5 DEF KeyOf
    <3>3. SlotFrame(s)
      BY <1>1, <1>4, <1>5, <2>3, <2>5 DEF SlotFrame
    <3> QED
      BY <3>1, <3>2, <3>3
  <2>6. CASE reply = "ok" /\ JobOf(s) \in Malformed
    <3>1. Catch(s, acquired.attemptCount, PayloadError)
      BY <1>2, <1>6, <2>6
    <3>2. acquired.attemptCount \in Nat
      BY <1>3, <1>5
    <3>3. /\ run' \in [Slot -> RunRecord]
          /\ run'[s].step \in {"fail", "bury"}
          /\ run'[s].step = "fail" => acquired.attemptCount < MaxAttempts
          /\ run'[s].job = run[s].job
          /\ run'[s].attempt = acquired.attemptCount
          /\ run'[s].code \in ClassifiedCodes
          /\ \A t \in Slot \ {s} : run'[t] = run[t]
      BY <1>c, <3>1, <3>2, CatchFacts DEF TypeOK
    <3>4. RunOK(s)'
      BY <1>c, <1>3, <2>3, <2>5, <3>3 DEF RunOK, BurialSteps
    <3> QED
      BY <1>c, <2>1, <2>4, <2>5, <3>3, <3>4, SlotStepKeepsIInv
  <2>7. CASE reply = "ok" /\ JobOf(s) \notin Malformed
    <3> DEFINE next == [run[s] EXCEPT !.step = "upsert", !.attempt = acquired.attemptCount]
    <3>1. run' = [run EXCEPT ![s] = next]
      BY <1>2, <1>6, <2>7
    <3>2. acquired.attemptCount \in Nat /\ run[s] \in RunRecord
      BY <1>c, <1>3, <1>5 DEF TypeOK
    <3>3. /\ next \in RunRecord /\ next.step = "upsert" /\ next.job = run[s].job
          /\ next.attempt = acquired.attemptCount
      BY <3>2 DEF RunRecord, Steps
    <3> HIDE DEF next
    <3>4. /\ run' \in [Slot -> RunRecord] /\ run'[s] = next
          /\ \A t \in Slot \ {s} : run'[t] = run[t]
      BY <1>c, <3>1, <3>3 DEF TypeOK
    <3>5. RunOK(s)'
      BY <1>c, <1>3, <2>3, <2>5, <3>3, <3>4 DEF RunOK, BurialSteps
    <3> QED
      BY <1>c, <2>1, <2>4, <2>5, <3>3, <3>4, <3>5, SlotStepKeepsIInv
  <2>8. CASE reply # "ok"
    <3>1. GoTo(s, "rejected")
      BY <1>2, <2>8 DEF Await
    <3>2. /\ run' \in [Slot -> RunRecord] /\ run'[s].step = "rejected"
          /\ run'[s].job = run[s].job /\ \A t \in Slot \ {s} : run'[t] = run[t]
      BY <1>c, <3>1, GoToFacts DEF TypeOK, Steps
    <3>3. RunOK(s)'
      BY <1>c, <2>5, <3>2 DEF RunOK, BurialSteps, Owns, LockedSteps
    <3> QED
      BY <1>c, <2>1, <2>4, <2>5, <3>2, <3>3, SlotStepKeepsIInv
  <2> QED
    BY <2>6, <2>7, <2>8
<1>7. CASE ledger'[k] = ledger[k] /\ ~(reply = "ok" /\ matched)
  <2>1. PICK to \in {"resolved", "rejected"} :
          GoTo(s, to) /\ (to = "resolved" => ~matched)
    BY <1>2, <1>7 DEF Await
  <2>2. /\ run' \in [Slot -> RunRecord] /\ run'[s].step = to
        /\ run'[s].job = run[s].job /\ \A t \in Slot \ {s} : run'[t] = run[t]
    BY <1>c, <2>1, GoToFacts DEF TypeOK, Steps
  <2>3. TypeOK'
    BY <1>c, <1>1, <1>4, <2>2 DEF TypeOK
  <2>4. k' = k
    BY <2>2 DEF KeyOf
  <2>5. ~Owns(s)'
    BY <2>2 DEF Owns, LockedSteps, BurialSteps
  <2>6. to = "resolved" => ledger[k].attemptCount >= 1
    BY <1>0, <1>c, <2>1, CountPositive DEF RunOK, KeyOK, LockableStatuses
  <2>7. RunOK(s)'
    BY <1>c, <1>7, <2>2, <2>4, <2>5, <2>6 DEF RunOK, BurialSteps
  <2>8. KeyOK(k)'
    BY <1>c, <1>1, <1>7, <2>4 DEF KeyOK, CountOK, BurialOK, ShipmentOK
  <2>9. SlotFrame(s)
    BY <1>1, <1>4, <1>5, <1>7, <2>2 DEF SlotFrame
  <2> QED
    BY <1>c, <1>1, <1>7, <2>3, <2>5, <2>7, <2>8, <2>9, SlotStepKeepsIInv DEF Undisturbed
<1> QED
  BY <1>4, <1>6, <1>7

-----------------------------------------------------------------------------
(* The steps under the lock *)

LEMMA TryAwaitFacts ==
  ASSUME EventWorkerAssumption, run \in [Slot -> RunRecord],
         NEW s \in Slot, NEW next \in Steps, NEW reply, TryAwait(s, reply, next)
  PROVE  /\ run' \in [Slot -> RunRecord]
         /\ run'[s].job = run[s].job
         /\ run'[s].attempt = run[s].attempt
         /\ \A t \in Slot \ {s} : run'[t] = run[t]
         /\ \/ reply = "ok" /\ run'[s].step = next
            \/ /\ reply # "ok"
               /\ run'[s].step \in {"fail", "bury"}
               /\ run'[s].step = "fail" => run[s].attempt < MaxAttempts
               /\ run'[s].code \in ClassifiedCodes
<1>1. run[s].attempt \in Nat
  BY DEF RunRecord
<1>2. CASE reply = "ok" /\ GoTo(s, next)
  BY <1>2, GoToFacts
<1>3. CASE reply # "ok" /\ \E error \in MongoError : Catch(s, run[s].attempt, error)
  <2>1. PICK error \in MongoError : Catch(s, run[s].attempt, error)
    BY <1>3
  <2> QED
    BY <1>1, <1>3, <2>1, CatchFacts
<1> QED
  BY <1>2, <1>3 DEF TryAwait

LEMMA UpsertShipmentKeepsIInv ==
  ASSUME EventWorkerAssumption, IInv, NEW s \in Slot, UpsertShipment(s)
  PROVE  IInv'
<1> DEFINE k == KeyOf(s)
           x == JobShipment[run[s].job]
<1>0. run[s].step = "upsert"
  BY DEF UpsertShipment, At
<1>c. /\ TypeOK /\ run[s].job \in Job /\ k \in Key /\ x \in Shipment
      /\ RunOK(s) /\ KeyOK(k) /\ ledger[k] \in LedgerRecord /\ Alone(s)
      /\ \A j \in Job : JobShipment[j] \in Shipment
  BY <1>0, SlotContext DEF Owns, LockedSteps, EventWorkerAssumption
<1>1. UNCHANGED <<worker, queue, ledger, deadLetters, dlq>>
  BY DEF UpsertShipment
<1>2. PICK reply \in WriteReplies :
        /\ TryAwait(s, reply, "complete")
        /\ shipments' = IF Applied(reply)
                        THEN [shipments EXCEPT ![x] = run[s].job]
                        ELSE shipments
  BY DEF UpsertShipment, JobOf
<1>3. /\ run' \in [Slot -> RunRecord]
      /\ run'[s].job = run[s].job
      /\ run'[s].attempt = run[s].attempt
      /\ \A t \in Slot \ {s} : run'[t] = run[t]
      /\ \/ reply = "ok" /\ run'[s].step = "complete"
         \/ /\ reply # "ok"
            /\ run'[s].step \in {"fail", "bury"}
            /\ run'[s].step = "fail" => run[s].attempt < MaxAttempts
            /\ run'[s].code \in ClassifiedCodes
  BY <1>c, <1>2, TryAwaitFacts DEF TypeOK, Steps
<1>4. /\ shipments' \in [Shipment -> Job \cup {None}]
      /\ \A y \in Shipment : shipments'[y] \in {shipments[y], run[s].job}
      /\ reply = "ok" => shipments'[x] = run[s].job
  BY <1>c, <1>2 DEF TypeOK, Applied
<1>5. TypeOK'
  BY <1>c, <1>1, <1>3, <1>4 DEF TypeOK
<1>6. k' = k
  BY <1>3 DEF KeyOf
<1>7. ledger[k].attemptCount >= 1 /\ ledger[k].attemptCount \in Nat
  BY <1>0, <1>c, CountPositive DEF RunOK, KeyOK, LedgerRecord
<1>8. RunOK(s)'
  BY <1>0, <1>c, <1>1, <1>3, <1>4, <1>6 DEF RunOK, Owns, LockedSteps, BurialSteps,
     EventWorkerAssumption
<1>9. KeyOK(k)'
  BY <1>c, <1>1, <1>4, <1>6 DEF KeyOK, CountOK, BurialOK, ShipmentOK, EventWorkerAssumption
<1>10. SlotFrame(s)
  BY <1>1, <1>3, <1>4, <1>7 DEF SlotFrame
<1> QED
  BY <1>c, <1>5, <1>8, <1>9, <1>10, SlotStepKeepsIInv

\* A write of slot s that changes the status of its record to one in which no
\* attempt is due, and nothing else of it.
LEMMA CloseRecord ==
  ASSUME NEW k \in Key, ledger \in [Key -> LedgerRecord],
         NEW status \in {"processed", "dead_lettered"}, NEW reply,
         NEW record, record = [ledger[k] EXCEPT !.status = status],
         Update(reply, k, record),
         ledger[k].status \in {"processing", "processed"}, CountOK(k)
  PROVE  /\ ledger' \in [Key -> LedgerRecord]
         /\ \A other \in Key \ {k} : ledger'[other] = ledger[other]
         /\ ledger'[k].status \in {ledger[k].status, status}
         /\ Applied(reply) => ledger'[k].status = status
         /\ ~Applied(reply) => ledger'[k] = ledger[k]
         /\ ledger'[k].attemptCount = ledger[k].attemptCount
         /\ ledger'[k].attemptHistory = ledger[k].attemptHistory
         /\ ledger[k].attemptCount >= 1 /\ ledger[k].attemptCount \in Nat
         /\ CountOK(k)'
<1>1. /\ record \in LedgerRecord /\ record.status = status
      /\ record.attemptCount = ledger[k].attemptCount
      /\ record.attemptHistory = ledger[k].attemptHistory
  BY DEF LedgerRecord, ProcessedStatus
<1>2. /\ ledger' \in [Key -> LedgerRecord]
      /\ ledger'[k] = IF Applied(reply) THEN record ELSE ledger[k]
      /\ \A other \in Key \ {k} : ledger'[other] = ledger[other]
  BY <1>1 DEF Update
<1>3. ledger[k].attemptCount >= 1 /\ ledger[k].attemptCount \in Nat
  BY CountPositive DEF LedgerRecord
<1>4. CountOK(k)'
  BY <1>1, <1>2 DEF CountOK, NumberedFromOne, LockableStatuses
<1> QED
  BY <1>1, <1>2, <1>3, <1>4

LEMMA MarkProcessedKeepsIInv ==
  ASSUME EventWorkerAssumption, IInv, NEW s \in Slot, MarkProcessed(s)
  PROVE  IInv'
<1> DEFINE k == KeyOf(s)
           record == [ledger[k] EXCEPT !.status = "processed"]
<1>0. run[s].step = "complete"
  BY DEF MarkProcessed, At
<1>c. /\ TypeOK /\ run[s].job \in Job /\ k \in Key
      /\ RunOK(s) /\ KeyOK(k) /\ ledger[k] \in LedgerRecord /\ Alone(s)
  BY <1>0, SlotContext DEF Owns, LockedSteps
<1>1. UNCHANGED <<worker, queue, shipments, deadLetters, dlq>>
  BY DEF MarkProcessed
<1>2. PICK reply \in WriteReplies :
        /\ TryAwait(s, reply, "resolved")
        /\ Update(reply, k, record)
  BY DEF MarkProcessed
<1>3. /\ run' \in [Slot -> RunRecord]
      /\ run'[s].job = run[s].job
      /\ run'[s].attempt = run[s].attempt
      /\ \A t \in Slot \ {s} : run'[t] = run[t]
      /\ \/ reply = "ok" /\ run'[s].step = "resolved"
         \/ /\ reply # "ok"
            /\ run'[s].step \in {"fail", "bury"}
            /\ run'[s].step = "fail" => run[s].attempt < MaxAttempts
            /\ run'[s].code \in ClassifiedCodes
  BY <1>c, <1>2, TryAwaitFacts DEF TypeOK, Steps
<1>4. ledger[k].status = "processing" /\ shipments[JobShipment[run[s].job]] # None
  BY <1>0, <1>c DEF RunOK
<1>5. /\ ledger' \in [Key -> LedgerRecord]
      /\ \A other \in Key \ {k} : ledger'[other] = ledger[other]
      /\ ledger'[k].status \in {"processing", "processed"}
      /\ ~Applied(reply) => ledger'[k] = ledger[k]
      /\ ledger'[k].attemptCount = ledger[k].attemptCount
      /\ ledger[k].attemptCount >= 1 /\ ledger[k].attemptCount \in Nat
      /\ CountOK(k)'
  <2>1. record = [ledger[k] EXCEPT !.status = "processed"]
    OBVIOUS
  <2>2. k' = k
    BY <1>3 DEF KeyOf
  <2> HIDE DEF record
  <2>3. \A key \in Key : key = k =>
          /\ ledger' \in [Key -> LedgerRecord]
          /\ \A other \in Key \ {key} : ledger'[other] = ledger[other]
          /\ ledger'[key].status \in {"processing", "processed"}
          /\ ~Applied(reply) => ledger'[key] = ledger[key]
          /\ ledger'[key].attemptCount = ledger[key].attemptCount
          /\ ledger[key].attemptCount >= 1 /\ ledger[key].attemptCount \in Nat
          /\ CountOK(key)'
    <3>1. ASSUME NEW key \in Key, key = k
          PROVE  /\ ledger \in [Key -> LedgerRecord]
                 /\ record = [ledger[key] EXCEPT !.status = "processed"]
                 /\ Update(reply, key, record)
                 /\ ledger[key].status = "processing" /\ CountOK(key)
      BY <1>c, <1>2, <1>4, <2>1, <3>1 DEF TypeOK, KeyOK
    <3>2. "processed" \in {"processed", "dead_lettered"}
      OBVIOUS
    <3> QED
      BY <3>1, <3>2, CloseRecord
  <2> QED
    BY <1>c, <2>2, <2>3 DEF CountOK
<1>6. TypeOK'
  BY <1>c, <1>1, <1>3, <1>5 DEF TypeOK
<1>7. k' = k
  BY <1>3 DEF KeyOf
<1>8. reply # "ok" /\ Applied(reply) => "lost" \in Faults
  BY DEF WriteReplies, Applied
<1>9. RunOK(s)'
  BY <1>0, <1>c, <1>1, <1>3, <1>4, <1>5, <1>7, <1>8 DEF RunOK, Owns, LockedSteps, BurialSteps
<1>10. KeyOK(k)'
  <2>1. BurialOK(k)'
    BY <1>c, <1>1, <1>4, <1>7 DEF KeyOK, BurialOK, TypeOK
  <2>2. ShipmentOK(k)'
    BY <1>c, <1>1, <1>4, <1>7 DEF ShipmentOK, KeyOf
  <2> QED
    BY <1>c, <1>1, <1>5, <1>7, <2>1, <2>2 DEF KeyOK
<1>11. SlotFrame(s)
  BY <1>1, <1>3, <1>5 DEF SlotFrame
<1> QED
  BY <1>c, <1>6, <1>9, <1>10, <1>11, SlotStepKeepsIInv

\* The write of markFailed: the history grows by the attempt that ends.
LEMMA FailRecord ==
  ASSUME NEW k \in Key, ledger \in [Key -> LedgerRecord],
         NEW entry \in AttemptEntry, entry.attempt = ledger[k].attemptCount,
         NEW reply, NEW record,
         record = [ledger[k] EXCEPT !.status = "failed",
                                    !.attemptHistory = Append(@, entry)],
         Update(reply, k, record),
         ledger[k].status \in {"processing", "processed"}, CountOK(k),
         ledger[k].attemptCount < MaxAttempts
  PROVE  /\ ledger' \in [Key -> LedgerRecord]
         /\ \A other \in Key \ {k} : ledger'[other] = ledger[other]
         /\ ledger'[k] = ledger[k] \/ ledger'[k].status = "failed"
         /\ ledger'[k].attemptCount = ledger[k].attemptCount
         /\ ledger[k].attemptCount >= 1 /\ ledger[k].attemptCount \in Nat
         /\ CountOK(k)'
<1> DEFINE old == ledger[k].attemptHistory
<1>1. old \in Seq(AttemptEntry) /\ ledger[k] \in LedgerRecord /\ ledger[k].attemptCount \in Nat
  BY DEF LedgerRecord
<1>2. entry.attempt = Len(old) + 1 /\ NumberedFromOne(old)
  BY <1>1 DEF CountOK
<1>3. /\ Append(old, entry) \in Seq(AttemptEntry)
      /\ Len(Append(old, entry)) = Len(old) + 1
      /\ NumberedFromOne(Append(old, entry))
  BY <1>1, <1>2, NumberedAppend
<1>4. record = [[ledger[k] EXCEPT !.status = "failed"]
                  EXCEPT !.attemptHistory = Append(old, entry)]
  BY <1>1 DEF LedgerRecord
<1>5. /\ record \in LedgerRecord /\ record.status = "failed"
      /\ record.attemptCount = ledger[k].attemptCount
      /\ record.attemptHistory = Append(old, entry)
  BY <1>1, <1>3, <1>4 DEF LedgerRecord, ProcessedStatus
<1>6. /\ ledger' \in [Key -> LedgerRecord]
      /\ ledger'[k] \in {record, ledger[k]}
      /\ \A other \in Key \ {k} : ledger'[other] = ledger[other]
  BY <1>5, UpdateFacts
<1>7. ledger[k].attemptCount >= 1
  BY <1>1, CountPositive
<1>8. CASE ledger'[k] = ledger[k]
  <2>1. CountOK(k)'
    BY <1>8 DEF CountOK
  <2> QED
    BY <1>1, <1>6, <1>7, <1>8, <2>1
<1>9. CASE ledger'[k] = record
  <2>1. NumberedFromOne(ledger'[k].attemptHistory)
    BY <1>3, <1>5, <1>9
  <2>2. \A i \in 1..Len(ledger'[k].attemptHistory) : ledger'[k].attemptHistory[i].attempt = i
    BY <2>1 DEF NumberedFromOne
  <2>3. /\ ledger'[k].attemptCount = Len(ledger'[k].attemptHistory) + 0
        /\ ledger'[k].status = "failed"
        /\ ledger'[k].attemptCount < MaxAttempts /\ ledger'[k].attemptCount <= MaxAttempts
    <3>1. Len(old) \in Nat
      BY <1>1
    <3>2. ledger[k].attemptCount = Len(old) + 1
      BY <1>1, <3>1 DEF CountOK
    <3>3. Len(ledger'[k].attemptHistory) = Len(old) + 1
      BY <1>3, <1>5, <1>9
    <3>4. ledger'[k].attemptCount = ledger[k].attemptCount /\ ledger'[k].status = "failed"
      BY <1>5, <1>9
    <3>5. ledger[k].attemptCount <= MaxAttempts
      BY DEF CountOK
    <3> QED
      BY <1>1, <3>1, <3>2, <3>3, <3>4, <3>5
  <2>4. CountOK(k)'
    BY <2>2, <2>3 DEF CountOK, NumberedFromOne
  <2> QED
    BY <1>1, <1>5, <1>6, <1>7, <1>9, <2>4
<1> QED
  BY <1>6, <1>8, <1>9

LEMMA MarkFailedKeepsIInv ==
  ASSUME EventWorkerAssumption, IInv, NEW s \in Slot, MarkFailed(s)
  PROVE  IInv'
<1> DEFINE k == KeyOf(s)
           entry == ThisAttempt(s)
           record == [ledger[k] EXCEPT !.status = "failed",
                                       !.attemptHistory = Append(@, entry)]
<1>0. run[s].step = "fail"
  BY DEF MarkFailed, At
<1>c. /\ TypeOK /\ run[s] \in RunRecord /\ run[s].job \in Job /\ k \in Key
      /\ RunOK(s) /\ KeyOK(k) /\ ledger[k] \in LedgerRecord /\ Alone(s)
  BY <1>0, SlotContext DEF Owns, LockedSteps
<1>1. UNCHANGED <<worker, queue, shipments, deadLetters, dlq>>
  BY DEF MarkFailed
<1>2. GoTo(s, "rejected") /\ \E reply \in WriteReplies : Update(reply, k, record)
  BY DEF MarkFailed
<1>3. /\ run' \in [Slot -> RunRecord] /\ run'[s].step = "rejected"
      /\ run'[s].job = run[s].job /\ \A t \in Slot \ {s} : run'[t] = run[t]
  BY <1>c, <1>2, GoToFacts DEF TypeOK, Steps
<1>4. k' = k
  BY <1>3 DEF KeyOf
<1>5. /\ ledger[k].status \in {"processing", "processed"}
      /\ ledger[k].attemptCount < MaxAttempts
      /\ entry \in AttemptEntry /\ entry.attempt = ledger[k].attemptCount
  BY <1>0, <1>c DEF RunOK, Owns, LockedSteps, ThisAttempt, AttemptEntry, RunRecord
<1>6. PICK reply \in WriteReplies : Update(reply, k, record)
  BY <1>2
<1>7. /\ ledger' \in [Key -> LedgerRecord]
      /\ \A other \in Key \ {k} : ledger'[other] = ledger[other]
      /\ ledger'[k] = ledger[k] \/ ledger'[k].status = "failed"
      /\ ledger'[k].attemptCount = ledger[k].attemptCount
      /\ ledger[k].attemptCount >= 1 /\ ledger[k].attemptCount \in Nat
      /\ CountOK(k)'
  <2>1. record = [ledger[k] EXCEPT !.status = "failed", !.attemptHistory = Append(@, entry)]
    OBVIOUS
  <2> HIDE DEF record, entry
  <2>2. \A key \in Key : key = k =>
          /\ ledger' \in [Key -> LedgerRecord]
          /\ \A other \in Key \ {key} : ledger'[other] = ledger[other]
          /\ ledger'[key] = ledger[key] \/ ledger'[key].status = "failed"
          /\ ledger'[key].attemptCount = ledger[key].attemptCount
          /\ ledger[key].attemptCount >= 1 /\ ledger[key].attemptCount \in Nat
          /\ CountOK(key)'
    BY <1>c, <1>5, <1>6, <2>1, FailRecord DEF TypeOK, KeyOK
  <2> QED
    BY <1>c, <1>4, <2>2 DEF CountOK
<1>8. TypeOK'
  BY <1>c, <1>1, <1>3, <1>7 DEF TypeOK
<1>9. ~Owns(s)'
  BY <1>3 DEF Owns, LockedSteps, BurialSteps
<1>10. RunOK(s)'
  BY <1>c, <1>3, <1>9 DEF RunOK, BurialSteps
<1>11. KeyOK(k)'
  BY <1>c, <1>1, <1>4, <1>5, <1>7 DEF KeyOK, BurialOK, ShipmentOK, TypeOK
<1>12. SlotFrame(s)
  BY <1>1, <1>3, <1>7 DEF SlotFrame
<1> QED
  BY <1>c, <1>8, <1>9, <1>10, <1>11, <1>12, SlotStepKeepsIInv

LEMMA MarkDeadLetteredKeepsIInv ==
  ASSUME EventWorkerAssumption, IInv, NEW s \in Slot, MarkDeadLettered(s)
  PROVE  IInv'
<1> DEFINE k == KeyOf(s)
           record == [ledger[k] EXCEPT !.status = "dead_lettered"]
<1>0. run[s].step = "bury"
  BY DEF MarkDeadLettered, At
<1>c. /\ TypeOK /\ run[s] \in RunRecord /\ run[s].job \in Job /\ k \in Key
      /\ RunOK(s) /\ KeyOK(k) /\ ledger[k] \in LedgerRecord /\ Alone(s)
  BY <1>0, SlotContext DEF Owns, LockedSteps
<1>1. UNCHANGED <<worker, queue, shipments, deadLetters, dlq>>
  BY DEF MarkDeadLettered
<1>2. PICK reply \in WriteReplies : Await(s, reply, "gather") /\ Update(reply, k, record)
  BY DEF MarkDeadLettered
<1>3. PICK to \in {"gather", "rejected"} : GoTo(s, to) /\ (to = "gather" => reply = "ok")
  BY <1>2 DEF Await
<1>4. /\ run' \in [Slot -> RunRecord] /\ run'[s].step = to
      /\ run'[s].job = run[s].job /\ run'[s].attempt = run[s].attempt
      /\ run'[s].code = run[s].code /\ \A t \in Slot \ {s} : run'[t] = run[t]
  BY <1>c, <1>3, GoToFacts DEF TypeOK, Steps
<1>5. k' = k
  BY <1>4 DEF KeyOf
<1>6. /\ ledger[k].status \in {"processing", "processed"}
      /\ ledger[k].attemptCount = run[s].attempt
      /\ run[s].code \in ClassifiedCodes
  BY <1>0, <1>c DEF RunOK, Owns, LockedSteps
<1>7. /\ ledger' \in [Key -> LedgerRecord]
      /\ \A other \in Key \ {k} : ledger'[other] = ledger[other]
      /\ ledger'[k].status \in {ledger[k].status, "dead_lettered"}
      /\ reply = "ok" => ledger'[k].status = "dead_lettered"
      /\ ledger'[k].attemptCount = ledger[k].attemptCount
      /\ ledger[k].attemptCount >= 1 /\ ledger[k].attemptCount \in Nat
      /\ CountOK(k)'
  <2>1. record = [ledger[k] EXCEPT !.status = "dead_lettered"]
    OBVIOUS
  <2> HIDE DEF record
  <2>2. \A key \in Key : key = k =>
          /\ ledger' \in [Key -> LedgerRecord]
          /\ \A other \in Key \ {key} : ledger'[other] = ledger[other]
          /\ ledger'[key].status \in {ledger[key].status, "dead_lettered"}
          /\ Applied(reply) => ledger'[key].status = "dead_lettered"
          /\ ledger'[key].attemptCount = ledger[key].attemptCount
          /\ ledger[key].attemptCount >= 1 /\ ledger[key].attemptCount \in Nat
          /\ CountOK(key)'
    BY <1>c, <1>2, <1>6, <2>1, CloseRecord DEF TypeOK, KeyOK
  <2>3. reply = "ok" => Applied(reply)
    BY DEF Applied
  <2> QED
    BY <1>c, <1>5, <2>2, <2>3 DEF CountOK
<1>8. TypeOK'
  BY <1>c, <1>1, <1>4, <1>7 DEF TypeOK
<1>9. deadLetters[k] = <<>>
  <2>1. deadLetters[k] \in Seq(DeadLetterRecord)
    BY <1>c DEF TypeOK
  <2>2. Len(deadLetters[k]) \in Nat
    BY <2>1
  <2>3. Len(deadLetters[k]) <= 1 /\ Len(deadLetters[k]) # 1
    BY <1>c, <1>6 DEF KeyOK, BurialOK
  <2>4. Len(deadLetters[k]) = 0
    <3>1. \A n \in Nat : n <= 1 /\ n # 1 => n = 0
      OBVIOUS
    <3> QED
      BY <2>2, <2>3, <3>1
  <2> QED
    BY <2>1, <2>4, EmptySeq
<1>10. RunOK(s)'
  BY <1>c, <1>1, <1>3, <1>4, <1>5, <1>6, <1>7, <1>9 DEF RunOK, Owns, LockedSteps, BurialSteps
<1>11. KeyOK(k)'
  BY <1>c, <1>1, <1>5, <1>6, <1>7, <1>9 DEF KeyOK, BurialOK, ShipmentOK, TypeOK
<1>12. SlotFrame(s)
  BY <1>1, <1>4, <1>6, <1>7 DEF SlotFrame
<1> QED
  BY <1>c, <1>8, <1>10, <1>11, <1>12, SlotStepKeepsIInv

LEMMA GatherHistoryKeepsIInv ==
  ASSUME EventWorkerAssumption, IInv, NEW s \in Slot, GatherHistory(s)
  PROVE  IInv'
<1> DEFINE k == KeyOf(s)
<1>0. run[s].step = "gather"
  BY DEF GatherHistory, At
<1>c. /\ TypeOK /\ run[s] \in RunRecord /\ run[s].job \in Job /\ k \in Key
      /\ RunOK(s) /\ KeyOK(k) /\ ledger[k] \in LedgerRecord /\ Alone(s)
  BY <1>0, SlotContext DEF Owns, BurialSteps
<1>1. UNCHANGED <<worker, queue, ledger, shipments, deadLetters, dlq>>
  BY DEF GatherHistory
<1>2. /\ ledger[k].status = "dead_lettered"
      /\ ledger[k].attemptCount = run[s].attempt
      /\ run[s].code \in ClassifiedCodes
      /\ deadLetters[k] = <<>>
  BY <1>0, <1>c DEF RunOK, Owns, BurialSteps
<1>3. /\ FullHistory(s) \in Seq(AttemptEntry)
      /\ Len(FullHistory(s)) = run[s].attempt
      /\ NumberedFromOne(FullHistory(s))
  <2>1. ledger[k].attemptHistory \in Seq(AttemptEntry)
    BY <1>c DEF LedgerRecord
  <2>2. Len(ledger[k].attemptHistory) + 1 = run[s].attempt /\ NumberedFromOne(ledger[k].attemptHistory)
    BY <1>c, <1>2 DEF KeyOK, CountOK
  <2>3. ThisAttempt(s) \in AttemptEntry /\ ThisAttempt(s).attempt = run[s].attempt
    BY <1>c, <1>2 DEF ThisAttempt, AttemptEntry, RunRecord
  <2> QED
    BY <2>1, <2>2, <2>3, NumberedAppend DEF FullHistory
<1>4. \/ run' = [run EXCEPT ![s].step = "persist", ![s].history = FullHistory(s)]
      \/ GoTo(s, "rejected")
  BY DEF GatherHistory
<1>5. /\ run' \in [Slot -> RunRecord]
      /\ \A t \in Slot \ {s} : run'[t] = run[t]
      /\ run'[s].job = run[s].job
      /\ run'[s].attempt = run[s].attempt
      /\ run'[s].code = run[s].code
      /\ \/ run'[s].step = "persist" /\ run'[s].history = FullHistory(s)
         \/ run'[s].step = "rejected"
  <2>1. CASE run' = [run EXCEPT ![s].step = "persist", ![s].history = FullHistory(s)]
    <3> DEFINE next == [run[s] EXCEPT !.step = "persist", !.history = FullHistory(s)]
    <3>1. next \in RunRecord
      BY <1>c, <1>3 DEF RunRecord, Steps
    <3>2. /\ next.step = "persist" /\ next.history = FullHistory(s) /\ next.job = run[s].job
          /\ next.attempt = run[s].attempt /\ next.code = run[s].code
      BY <1>c DEF RunRecord
    <3>3. run' = [run EXCEPT ![s] = next]
      BY <2>1
    <3> HIDE DEF next
    <3> QED
      BY <1>c, <3>1, <3>2, <3>3 DEF TypeOK
  <2>2. CASE GoTo(s, "rejected")
    BY <1>c, <2>2, GoToFacts DEF TypeOK, Steps
  <2> QED
    BY <1>4, <2>1, <2>2
<1>6. TypeOK'
  BY <1>c, <1>1, <1>5 DEF TypeOK
<1>7. k' = k
  BY <1>5 DEF KeyOf
<1>8. RunOK(s)'
  BY <1>c, <1>1, <1>2, <1>3, <1>5, <1>7 DEF RunOK, Owns, LockedSteps, BurialSteps, NumberedFromOne
<1>9. KeyOK(k)'
  BY <1>c, <1>1, <1>7 DEF KeyOK, CountOK, BurialOK, ShipmentOK
<1>10. SlotFrame(s)
  BY <1>c, <1>1, <1>5 DEF SlotFrame, LedgerRecord
<1> QED
  BY <1>c, <1>6, <1>8, <1>9, <1>10, SlotStepKeepsIInv

\* The dead letter a slot writes, and a list of letters it is added to.
LEMMA LetterFacts ==
  ASSUME EventWorkerAssumption, NEW s \in Slot, run[s] \in RunRecord,
         run[s].attempt \in 1..MaxAttempts,
         Len(run[s].history) = run[s].attempt, NumberedFromOne(run[s].history),
         NEW letters \in Seq(DeadLetterRecord), LettersComplete(letters)
  PROVE  LET added == Append(letters, DeadLetterOf(s))
         IN  /\ added \in Seq(DeadLetterRecord)
             /\ Len(added) = Len(letters) + 1
             /\ LettersComplete(added)
<1>1. /\ DeadLetterOf(s) \in DeadLetterRecord
      /\ DeadLetterOf(s).attemptCount = run[s].attempt
      /\ DeadLetterOf(s).attemptHistory = run[s].history
  BY DEF DeadLetterOf, DeadLetterRecord, RunRecord
<1> DEFINE added == Append(letters, DeadLetterOf(s))
<1>2. /\ added \in Seq(DeadLetterRecord) /\ Len(added) = Len(letters) + 1
      /\ added[Len(letters) + 1] = DeadLetterOf(s)
      /\ \A i \in 1..Len(letters) : added[i] = letters[i]
  BY <1>1
<1> HIDE DEF added
<1>3. ASSUME NEW i \in 1..Len(added)
      PROVE  /\ added[i].attemptCount = Len(added[i].attemptHistory)
             /\ added[i].attemptCount \in 1..MaxAttempts
             /\ NumberedFromOne(added[i].attemptHistory)
  <2>1. i \in 1..Len(letters) \/ i = Len(letters) + 1
    BY <1>2
  <2> QED
    BY <1>1, <1>2, <2>1 DEF LettersComplete
<1> QED
  BY <1>1, <1>2, <1>3 DEF added, LettersComplete

LEMMA PersistDeadLetterKeepsIInv ==
  ASSUME EventWorkerAssumption, IInv, NEW s \in Slot, PersistDeadLetter(s)
  PROVE  IInv'
<1> DEFINE k == KeyOf(s)
           added == Append(<<>>, DeadLetterOf(s))
<1>0. run[s].step = "persist"
  BY DEF PersistDeadLetter, At
<1>c. /\ TypeOK /\ run[s] \in RunRecord /\ run[s].job \in Job /\ k \in Key
      /\ RunOK(s) /\ KeyOK(k) /\ ledger[k] \in LedgerRecord /\ Alone(s)
  BY <1>0, SlotContext DEF Owns, BurialSteps
<1>1. UNCHANGED <<worker, queue, ledger, shipments, dlq>>
  BY DEF PersistDeadLetter
<1>2. /\ ledger[k].status = "dead_lettered"
      /\ ledger[k].attemptCount = run[s].attempt
      /\ run[s].code \in ClassifiedCodes
      /\ deadLetters[k] = <<>>
      /\ Len(run[s].history) = run[s].attempt /\ NumberedFromOne(run[s].history)
  BY <1>0, <1>c DEF RunOK, Owns, BurialSteps
<1>3. run[s].attempt \in 1..MaxAttempts
  <2>1. run[s].attempt \in Nat
    BY <1>c DEF RunRecord
  <2>2. ledger[k].attemptCount >= 1 /\ ledger[k].attemptCount <= MaxAttempts
    BY <1>c, <1>2, CountPositive DEF KeyOK, CountOK
  <2> QED
    BY <1>2, <2>1, <2>2 DEF EventWorkerAssumption
<1>4. added \in Seq(DeadLetterRecord) /\ Len(added) = 1 /\ LettersComplete(added)
  <2> DEFINE empty == <<>>
  <2>1. empty \in Seq(DeadLetterRecord) /\ Len(empty) = 0 /\ LettersComplete(empty)
    BY DEF LettersComplete
  <2> HIDE DEF empty
  <2>2. LET more == Append(empty, DeadLetterOf(s))
        IN  /\ more \in Seq(DeadLetterRecord)
            /\ Len(more) = Len(empty) + 1
            /\ LettersComplete(more)
    BY <1>c, <1>2, <1>3, <2>1, LetterFacts
  <2> QED
    BY <2>1, <2>2 DEF empty
<1>5. PICK reply \in WriteReplies :
        /\ Await(s, reply, "announce")
        /\ deadLetters' = IF Applied(reply)
                          THEN [deadLetters EXCEPT ![k] = Append(@, DeadLetterOf(s))]
                          ELSE deadLetters
  BY DEF PersistDeadLetter
<1>6. PICK to \in {"announce", "rejected"} : GoTo(s, to) /\ (to = "announce" => reply = "ok")
  BY <1>5 DEF Await
<1>7. /\ run' \in [Slot -> RunRecord] /\ run'[s].step = to
      /\ run'[s].job = run[s].job /\ run'[s].attempt = run[s].attempt
      /\ run'[s].code = run[s].code /\ run'[s].history = run[s].history
      /\ \A t \in Slot \ {s} : run'[t] = run[t]
  BY <1>c, <1>6, GoToFacts DEF TypeOK, Steps
<1>8. k' = k
  BY <1>7 DEF KeyOf
<1>9. /\ deadLetters' \in [Key -> Seq(DeadLetterRecord)]
      /\ deadLetters'[k] \in {<<>>, added}
      /\ reply = "ok" => deadLetters'[k] = added
      /\ \A other \in Key \ {k} : deadLetters'[other] = deadLetters[other]
  <2>1. deadLetters' = IF Applied(reply) THEN [deadLetters EXCEPT ![k] = added] ELSE deadLetters
    BY <1>2, <1>5
  <2> HIDE DEF added
  <2> QED
    BY <1>c, <1>2, <1>4, <2>1 DEF TypeOK, Applied
<1> HIDE DEF added
<1>10. TypeOK'
  BY <1>c, <1>1, <1>7, <1>9 DEF TypeOK
<1>11. LettersComplete(<<>>) /\ Len(<<>>) = 0
  BY DEF LettersComplete
<1>12. dlq[k] = <<>> /\ Len(dlq[k]) = 0 /\ Len(dlq[k]) <= MaxResends
  BY <1>c, <1>2, <1>11 DEF KeyOK, BurialOK, EventWorkerAssumption
<1>13. RunOK(s)'
  BY <1>c, <1>1, <1>2, <1>4, <1>6, <1>7, <1>8, <1>9, <1>12
     DEF RunOK, Owns, LockedSteps, BurialSteps, NumberedFromOne
<1>14. KeyOK(k)'
  <2>1. LettersComplete(deadLetters'[k]) /\ Len(deadLetters'[k]) \in {0, 1}
    BY <1>4, <1>9, <1>11
  <2>2. BurialOK(k)'
    <3>1. Len(deadLetters'[k]) <= 1
      <4>1. \A n \in {0, 1} : n <= 1
        OBVIOUS
      <4> QED
        BY <2>1, <4>1
    <3>2. ledger'[k].status = "dead_lettered" /\ dlq'[k] = <<>> /\ Len(dlq'[k]) = 0
      BY <1>1, <1>2, <1>12
    <3> QED
      BY <1>8, <3>1, <3>2 DEF BurialOK, EventWorkerAssumption
  <2>3. CountOK(k)' /\ ShipmentOK(k)' /\ LettersComplete(dlq'[k])
    BY <1>c, <1>1, <1>8 DEF KeyOK, CountOK, ShipmentOK
  <2>4. LettersComplete(deadLetters[k])'
    BY <1>8, <2>1 DEF LettersComplete
  <2> QED
    BY <1>1, <1>8, <2>2, <2>3, <2>4 DEF KeyOK
<1>15. SlotFrame(s)
  BY <1>c, <1>1, <1>7, <1>9 DEF SlotFrame, LedgerRecord
<1> QED
  BY <1>c, <1>10, <1>13, <1>14, <1>15, SlotStepKeepsIInv

\* The message is added, now or again, or it is not; the slot goes on or stays.
LEMMA MessageKeepsIInv ==
  ASSUME EventWorkerAssumption, IInv, NEW s \in Slot, run[s].step = "announce",
         UNCHANGED <<worker, queue, ledger, shipments, deadLetters>>,
         NEW to \in {"announce", "resolved", "rejected"}, GoTo(s, to),
         \/ dlq' = dlq
         \/ dlq' = [dlq EXCEPT ![KeyOf(s)] = Append(dlq[KeyOf(s)], DeadLetterOf(s))],
         to = "announce" => Len(dlq[KeyOf(s)]) < MaxResends
  PROVE  IInv'
<1> DEFINE k == KeyOf(s)
           added == Append(dlq[k], DeadLetterOf(s))
<1>c. /\ TypeOK /\ run[s] \in RunRecord /\ run[s].job \in Job /\ k \in Key
      /\ RunOK(s) /\ KeyOK(k) /\ ledger[k] \in LedgerRecord /\ Alone(s)
  BY SlotContext DEF Owns, BurialSteps
<1>2. /\ ledger[k].status = "dead_lettered"
      /\ ledger[k].attemptCount = run[s].attempt
      /\ run[s].code \in ClassifiedCodes
      /\ Len(deadLetters[k]) = 1 /\ Len(dlq[k]) <= MaxResends
      /\ Len(run[s].history) = run[s].attempt /\ NumberedFromOne(run[s].history)
  BY <1>c DEF RunOK, Owns, BurialSteps
<1>3. ledger[k].attemptCount >= 1 /\ ledger[k].attemptCount <= MaxAttempts
      /\ ledger[k].attemptCount \in Nat
  BY <1>c, <1>2, CountPositive DEF KeyOK, CountOK, LedgerRecord
<1>4. dlq[k] \in Seq(DeadLetterRecord) /\ LettersComplete(dlq[k]) /\ Len(dlq[k]) \in Nat
  BY <1>c DEF TypeOK, KeyOK
<1>5. added \in Seq(DeadLetterRecord) /\ Len(added) = Len(dlq[k]) + 1 /\ LettersComplete(added)
  <2>1. run[s].attempt \in 1..MaxAttempts
    BY <1>2, <1>3 DEF EventWorkerAssumption
  <2> QED
    BY <1>c, <1>2, <1>4, <2>1, LetterFacts
<1>7. /\ run' \in [Slot -> RunRecord] /\ run'[s].step = to
      /\ run'[s].job = run[s].job /\ run'[s].attempt = run[s].attempt
      /\ run'[s].code = run[s].code /\ run'[s].history = run[s].history
      /\ \A t \in Slot \ {s} : run'[t] = run[t]
  BY <1>c, GoToFacts DEF TypeOK, Steps
<1>8. k' = k
  BY <1>7 DEF KeyOf
<1>9. /\ dlq' \in [Key -> Seq(DeadLetterRecord)]
      /\ dlq'[k] \in {dlq[k], added}
      /\ \A other \in Key \ {k} : dlq'[other] = dlq[other]
  <2>1. dlq' = dlq \/ dlq' = [dlq EXCEPT ![k] = added]
    OBVIOUS
  <2>2. dlq \in [Key -> Seq(DeadLetterRecord)] /\ k \in Key /\ added \in Seq(DeadLetterRecord)
    BY <1>c, <1>5 DEF TypeOK
  <2> HIDE DEF added, k
  <2>3. CASE dlq' = dlq
    BY <2>2, <2>3
  <2>4. CASE dlq' = [dlq EXCEPT ![k] = added]
    BY <2>2, <2>4
  <2> QED
    BY <2>1, <2>3, <2>4
<1> HIDE DEF added
<1>10. TypeOK'
  BY <1>c, <1>7, <1>9 DEF TypeOK
<1>11. /\ Len(dlq'[k]) <= 1 + MaxResends
       /\ to = "announce" => Len(dlq'[k]) <= MaxResends
       /\ LettersComplete(dlq'[k])
  <2>1. CASE dlq'[k] = dlq[k]
    BY <1>2, <1>4, <2>1 DEF EventWorkerAssumption
  <2>2. CASE dlq'[k] = added
    BY <1>2, <1>4, <1>5, <2>2 DEF EventWorkerAssumption
  <2> QED
    BY <1>9, <2>1, <2>2
<1>13. RunOK(s)'
  <2>1. CASE to = "announce"
    BY <1>c, <1>2, <1>7, <1>8, <1>11, <2>1
       DEF RunOK, Owns, LockedSteps, BurialSteps, NumberedFromOne
  <2>2. CASE to # "announce"
    <3>1. ~Owns(s)'
      BY <1>7, <2>2 DEF Owns, LockedSteps, BurialSteps
    <3> QED
      BY <1>c, <1>3, <1>7, <1>8, <2>2, <3>1 DEF RunOK, BurialSteps
  <2> QED
    BY <2>1, <2>2
<1>14. KeyOK(k)'
  <2>1. BurialOK(k)'
    <3>1. Len(deadLetters'[k]) = 1 /\ Len(deadLetters'[k]) <= 1
      <4>1. \A n \in {1} : n <= 1
        OBVIOUS
      <4> QED
        BY <1>2, <4>1
    <3>2. ledger'[k].status = "dead_lettered"
      BY <1>2
    <3> QED
      BY <1>8, <1>11, <3>1, <3>2 DEF BurialOK
  <2>2. CountOK(k)' /\ ShipmentOK(k)' /\ LettersComplete(deadLetters'[k])
    BY <1>c, <1>8 DEF KeyOK, CountOK, ShipmentOK
  <2>3. LettersComplete(dlq[k])'
    BY <1>8, <1>11 DEF LettersComplete
  <2> QED
    BY <1>8, <2>1, <2>2, <2>3 DEF KeyOK
<1>15. SlotFrame(s)
  BY <1>c, <1>3, <1>7, <1>9 DEF SlotFrame
<1> QED
  BY <1>c, <1>10, <1>13, <1>14, <1>15, SlotStepKeepsIInv

LEMMA AnnounceDeadLetterKeepsIInv ==
  ASSUME EventWorkerAssumption, IInv, NEW s \in Slot, AnnounceDeadLetter(s)
  PROVE  IInv'
<1>1. /\ run[s].step = "announce"
      /\ UNCHANGED <<worker, queue, ledger, shipments, deadLetters>>
  BY DEF AnnounceDeadLetter, At
<1>2. /\ \/ dlq' = dlq
         \/ dlq' = [dlq EXCEPT ![KeyOf(s)] = Append(dlq[KeyOf(s)], DeadLetterOf(s))]
      /\ \E to \in {"resolved", "rejected"} : GoTo(s, to)
  BY DEF AnnounceDeadLetter, Await
<1> QED
  BY <1>1, <1>2, MessageKeepsIInv

LEMMA ResendAnnouncementKeepsIInv ==
  ASSUME EventWorkerAssumption, IInv, NEW s \in Slot, ResendAnnouncement(s)
  PROVE  IInv'
<1>1. /\ run[s].step = "announce" /\ Len(dlq[KeyOf(s)]) < MaxResends
      /\ UNCHANGED <<worker, queue, run, ledger, shipments, deadLetters>>
      /\ dlq' = [dlq EXCEPT ![KeyOf(s)] = Append(dlq[KeyOf(s)], DeadLetterOf(s))]
  BY DEF ResendAnnouncement, At
<1>2. GoTo(s, "announce")
  <2>1. run \in [Slot -> RunRecord]
    BY DEF IInv, TypeOK
  <2> QED
    BY <1>1, <2>1 DEF GoTo, RunRecord
<1> QED
  BY <1>1, <1>2, MessageKeepsIInv

-----------------------------------------------------------------------------
(* The steps of BullMQ and of the worker processes: no document changes *)

\* The documents stay as they are, and a slot may only be freed or get a job.
OtherFrame ==
  /\ ledger' = ledger /\ shipments' = shipments
  /\ deadLetters' = deadLetters /\ dlq' = dlq
  /\ \A s \in Slot :
       \/ run'[s] = run[s]
       \/ run'[s].step = "idle"
       \/ run'[s].step = "check" /\ run'[s].job \in Job

LEMMA OtherStepKeepsIInv ==
  ASSUME IInv, TypeOK', OtherFrame, CompletedWasAttempted'
  PROVE  IInv'
<1> USE DEF OtherFrame
<1>1. ASSUME NEW s \in Slot PROVE RunOK(s)' /\ (Owns(s)' => Owns(s) /\ KeyOf(s)' = KeyOf(s))
  <2>1. RunOK(s)
    BY DEF IInv, RunsMatchRecords
  <2>2. CASE run'[s] = run[s]
    BY <2>1, <2>2 DEF RunOK, Owns, KeyOf
  <2>3. CASE \/ run'[s].step = "idle"
             \/ run'[s].step = "check" /\ run'[s].job \in Job
    <3>1. ~Owns(s)'
      BY <2>3 DEF Owns, LockedSteps, BurialSteps
    <3>2. RunOK(s)'
      BY <2>3, <3>1 DEF RunOK, BurialSteps
    <3> QED
      BY <3>1, <3>2
  <2>4. \/ run'[s] = run[s]
        \/ run'[s].step = "idle"
        \/ run'[s].step = "check" /\ run'[s].job \in Job
    BY DEF OtherFrame
  <2> QED
    BY <2>2, <2>3, <2>4
<1>2. RunsMatchRecords'
  BY <1>1 DEF RunsMatchRecords
<1>3. LockExclusive'
  BY <1>1 DEF LockExclusive, IInv
<1>4. \A k \in Key : KeyOK(k)'
  <2> SUFFICES ASSUME NEW k \in Key PROVE KeyOK(k)'
    OBVIOUS
  <2>1. KeyOK(k)
    BY IInvByKey
  <2> QED
    BY <2>1 DEF KeyOK, CountOK, BurialOK, ShipmentOK
<1>5. ShipmentsAttempted'
  <2>1. ShipmentsAttempted
    BY IInvByKey
  <2> QED
    BY <2>1 DEF ShipmentsAttempted
<1> QED
  BY <1>2, <1>3, <1>4, <1>5, IInvByKey

\* A job that a step newly completes has a record that was attempted.
LEMMA CompletedFacts ==
  ASSUME IInv, UNCHANGED ledger,
         \A j \in Job : queue'[j].state = "completed" =>
           queue[j].state = "completed" \/ ledger[JobKey[j]].attemptCount >= 1
  PROVE  CompletedWasAttempted'
  BY DEF IInv, CompletedWasAttempted

LEMMA FetchKeepsIInv ==
  ASSUME EventWorkerAssumption, IInv, NEW s \in Slot, NEW j \in Job, Fetch(s, j)
  PROVE  IInv'
<1> DEFINE fresh == [IdleRun EXCEPT !.step = "check", !.job = j]
           entry == [queue[j] EXCEPT !.state = "active", !.owner = s]
<1>1. TypeOK /\ UNCHANGED <<worker, ledger, shipments, deadLetters, dlq>>
  BY DEF Fetch, IInv
<1>2. fresh \in RunRecord /\ fresh.step = "check" /\ fresh.job = j
  <2>1. IdleRun \in RunRecord
    BY DEF RunRecord, IdleRun, Steps, NoCode
  <2> QED
    BY <2>1 DEF RunRecord, Steps
<1>3. entry \in JobEntry /\ entry.state = "active"
  <2>1. queue[j] \in JobEntry
    BY <1>1 DEF TypeOK
  <2> QED
    BY <2>1 DEF JobEntry, JobStates
<1>4. run' = [run EXCEPT ![s] = fresh] /\ queue' = [queue EXCEPT ![j] = entry]
  BY DEF Fetch
<1> HIDE DEF fresh, entry
<1>5. TypeOK'
  BY <1>1, <1>2, <1>3, <1>4 DEF TypeOK
<1>6. CompletedWasAttempted'
  BY <1>1, <1>3, <1>4, CompletedFacts DEF TypeOK
<1>7. OtherFrame
  BY <1>1, <1>2, <1>4 DEF OtherFrame, TypeOK
<1> QED
  BY <1>5, <1>6, <1>7, OtherStepKeepsIInv

LEMMA SettleKeepsIInv ==
  ASSUME EventWorkerAssumption, IInv, NEW s \in Slot, Settle(s)
  PROVE  IInv'
<1> DEFINE j == run[s].job
           entry == [queue[j] EXCEPT !.owner = None, !.state = SettledState(s)]
<1>1. run[s].step \in {"resolved", "rejected"}
      /\ UNCHANGED <<worker, ledger, shipments, deadLetters, dlq>>
  BY DEF Settle
<1>2. TypeOK /\ j \in Job /\ RunOK(s)
  BY <1>1, SlotContext
<1>3. IdleRun \in RunRecord /\ IdleRun.step = "idle"
  BY DEF RunRecord, IdleRun, Steps, NoCode
<1>4. entry \in JobEntry /\ entry.state = SettledState(s)
  <2>1. queue[j] \in JobEntry
    BY <1>2 DEF TypeOK
  <2>2. SettledState(s) \in JobStates
    BY DEF JobStates, SettledState
  <2> QED
    BY <2>1, <2>2 DEF JobEntry
<1>5. run' = [run EXCEPT ![s] = IdleRun] /\ queue' \in {queue, [queue EXCEPT ![j] = entry]}
  BY DEF Settle, JobOf
<1>6. SettledState(s) = "completed" => ledger[JobKey[j]].attemptCount >= 1
  BY <1>2 DEF SettledState, At, RunOK, KeyOf
<1> HIDE DEF entry, j
<1>7. TypeOK'
  <2>1. queue' \in [Job -> JobEntry]
    BY <1>2, <1>4, <1>5 DEF TypeOK
  <2>2. run' \in [Slot -> RunRecord]
    BY <1>2, <1>3, <1>5 DEF TypeOK
  <2> QED
    BY <1>1, <1>2, <2>1, <2>2 DEF TypeOK
<1>8. CompletedWasAttempted'
  BY <1>1, <1>2, <1>4, <1>5, <1>6, CompletedFacts DEF TypeOK
<1>9. OtherFrame
  BY <1>1, <1>2, <1>3, <1>5 DEF OtherFrame, TypeOK
<1> QED
  BY <1>7, <1>8, <1>9, OtherStepKeepsIInv

LEMMA JobStepKeepsIInv ==
  ASSUME EventWorkerAssumption, IInv, NEW j \in Job, JobStep(j)
  PROVE  IInv'
<1>1. UNCHANGED <<worker, run, ledger, shipments, deadLetters, dlq>>
  BY DEF JobStep, Enqueue, LockExpires, StalledCheck
<1>2. TypeOK
  BY DEF IInv
<1>3. PICK entry \in JobEntry :
        /\ queue' = [queue EXCEPT ![j] = entry]
        /\ entry.state # "completed"
  <2>1. queue[j] \in JobEntry
    BY <1>2 DEF TypeOK
  <2>2. CASE Enqueue(j)
    <3> DEFINE entry == [queue[j] EXCEPT !.state = "wait"]
    <3>1. entry \in JobEntry /\ entry.state = "wait"
      BY <2>1 DEF JobEntry, JobStates
    <3>2. queue' = [queue EXCEPT ![j] = entry]
      BY <2>2 DEF Enqueue
    <3> HIDE DEF entry
    <3> QED
      BY <3>1, <3>2
  <2>3. CASE LockExpires(j)
    <3> DEFINE entry == [queue[j] EXCEPT !.owner = None]
    <3>1. entry \in JobEntry /\ entry.state = "active"
      BY <2>1, <2>3 DEF JobEntry, LockExpires
    <3>2. queue' = [queue EXCEPT ![j] = entry]
      BY <2>3 DEF LockExpires
    <3> HIDE DEF entry
    <3> QED
      BY <3>1, <3>2
  <2>4. CASE StalledCheck(j) /\ MayRequeue(j)
    <3> DEFINE entry == [[queue[j] EXCEPT !.state = "wait"]
                           EXCEPT !.stalled = queue[j].stalled + 1]
    <3>0. queue[j].stalled + 1 \in 0..MaxStalledCount
      BY <2>1, <2>4 DEF JobEntry, MayRequeue, MaxStalledCount
    <3>1. entry \in JobEntry /\ entry.state = "wait"
      BY <2>1, <3>0 DEF JobEntry, JobStates
    <3>2. queue' = [queue EXCEPT ![j] = entry]
      <4>1. queue' = [queue EXCEPT ![j].state = "wait", ![j].stalled = @ + 1]
        BY <2>4 DEF StalledCheck
      <4>2. [queue EXCEPT ![j].state = "wait"][j].stalled = queue[j].stalled
        BY <1>2, <2>1 DEF TypeOK, JobEntry
      <4> QED
        BY <1>2, <2>1, <4>1, <4>2 DEF TypeOK, JobEntry
    <3> HIDE DEF entry
    <3> QED
      BY <3>1, <3>2
  <2>5. CASE StalledCheck(j) /\ ~MayRequeue(j)
    <3> DEFINE entry == [queue[j] EXCEPT !.state = "failed"]
    <3>1. entry \in JobEntry /\ entry.state = "failed"
      BY <2>1 DEF JobEntry, JobStates
    <3>2. queue' = [queue EXCEPT ![j] = entry]
      BY <2>5 DEF StalledCheck
    <3> HIDE DEF entry
    <3> QED
      BY <3>1, <3>2
  <2> QED
    BY <2>2, <2>3, <2>4, <2>5 DEF JobStep
<1>4. TypeOK'
  BY <1>1, <1>2, <1>3 DEF TypeOK
<1>5. CompletedWasAttempted'
  BY <1>1, <1>2, <1>3, CompletedFacts DEF TypeOK
<1>6. OtherFrame
  BY <1>1 DEF OtherFrame
<1> QED
  BY <1>4, <1>5, <1>6, OtherStepKeepsIInv

LEMMA WorkerStepKeepsIInv ==
  ASSUME EventWorkerAssumption, IInv, NEW w \in Worker, WorkerStep(w)
  PROVE  IInv'
<1>1. TypeOK
  BY DEF IInv
<1>2. CASE Shutdown(w) \/ Restart(w)
  <2>1. UNCHANGED <<queue, run, ledger, shipments, deadLetters, dlq>>
    BY <1>2 DEF Shutdown, Restart
  <2>2. TypeOK'
    BY <1>1, <1>2, <2>1 DEF TypeOK, Shutdown, Restart, WorkerStates
  <2>3. CompletedWasAttempted'
    BY <2>1, CompletedFacts
  <2>4. OtherFrame
    BY <2>1 DEF OtherFrame
  <2> QED
    BY <2>2, <2>3, <2>4, OtherStepKeepsIInv
<1>3. CASE Die(w)
  <2>1. UNCHANGED <<ledger, shipments, deadLetters, dlq>>
    BY <1>3 DEF Die
  <2>2. IdleRun \in RunRecord /\ IdleRun.step = "idle"
    BY DEF RunRecord, IdleRun, Steps, NoCode
  <2>3. /\ run' \in [Slot -> RunRecord]
        /\ \A s \in Slot : run'[s] = run[s] \/ run'[s].step = "idle"
    BY <1>1, <1>3, <2>2 DEF Die, TypeOK
  <2>4. /\ queue' \in [Job -> JobEntry]
        /\ \A j \in Job : queue'[j].state = queue[j].state
    <3>1. \A j \in Job : LET entry == [queue[j] EXCEPT !.owner = None]
                         IN  entry \in JobEntry /\ entry.state = queue[j].state
      <4>1. \A j \in Job : queue[j] \in JobEntry
        BY <1>1 DEF TypeOK
      <4> QED
        BY <4>1 DEF JobEntry
    <3> QED
      BY <1>1, <1>3, <3>1 DEF Die, TypeOK
  <2>5. worker' \in [Worker -> WorkerStates]
    BY <1>1, <1>3 DEF Die, TypeOK, WorkerStates
  <2>6. TypeOK'
    BY <1>1, <2>1, <2>3, <2>4, <2>5 DEF TypeOK
  <2>7. CompletedWasAttempted'
    BY <2>1, <2>4, CompletedFacts
  <2>8. OtherFrame
    BY <2>1, <2>3 DEF OtherFrame
  <2> QED
    BY <2>6, <2>7, <2>8, OtherStepKeepsIInv
<1> QED
  BY <1>2, <1>3 DEF WorkerStep, DrainDone, DrainTimeout, Crash

-----------------------------------------------------------------------------
(* Every step, and every behaviour *)

LEMMA NextKeepsIInv ==
  ASSUME EventWorkerAssumption, IInv, [Next]_vars
  PROVE  IInv'
<1>1. CASE UNCHANGED vars
  <2>1. CompletedWasAttempted'
    BY <1>1, CompletedFacts DEF vars
  <2>2. TypeOK'
    BY <1>1 DEF vars, TypeOK, IInv
  <2>3. OtherFrame
    BY <1>1 DEF OtherFrame, vars
  <2> QED
    BY <2>1, <2>2, <2>3, OtherStepKeepsIInv
<1>2. ASSUME NEW s \in Slot, SlotStep(s) PROVE IInv'
  <2>1. CASE ProcessEvent(s)
    BY <2>1, CheckIdempotencyKeepsIInv, MarkReceivedKeepsIInv, MarkProcessingKeepsIInv,
       UpsertShipmentKeepsIInv, MarkProcessedKeepsIInv, MarkFailedKeepsIInv,
       MarkDeadLetteredKeepsIInv, GatherHistoryKeepsIInv, PersistDeadLetterKeepsIInv,
       AnnounceDeadLetterKeepsIInv DEF ProcessEvent
  <2>2. CASE Settle(s)
    BY <2>2, SettleKeepsIInv
  <2>3. ASSUME NEW j \in Job, Fetch(s, j) PROVE IInv'
    BY <2>3, FetchKeepsIInv
  <2> QED
    BY <1>2, <2>1, <2>2, <2>3, ResendAnnouncementKeepsIInv DEF SlotStep
<1>3. ASSUME NEW j \in Job, JobStep(j) PROVE IInv'
  BY <1>3, JobStepKeepsIInv
<1>4. ASSUME NEW w \in Worker, WorkerStep(w) PROVE IInv'
  BY <1>4, WorkerStepKeepsIInv
<1> QED
  BY <1>1, <1>2, <1>3, <1>4 DEF Next

\* A job that was added stays added.
LEMMA BornStays ==
  ASSUME EventWorkerAssumption, TypeOK, [Next]_vars, NEW j \in Job, queue[j].state # "unborn"
  PROVE  queue'[j].state # "unborn"
<1>1. CASE UNCHANGED vars
  BY <1>1 DEF vars
<1>2. ASSUME NEW s \in Slot, ProcessEvent(s) PROVE queue' = queue
  BY <1>2 DEF ProcessEvent, CheckIdempotency, MarkReceived, MarkProcessing, UpsertShipment,
     MarkProcessed, MarkFailed, MarkDeadLettered, GatherHistory, PersistDeadLetter,
     AnnounceDeadLetter
<1>3. ASSUME NEW s \in Slot, ResendAnnouncement(s) PROVE queue' = queue
  BY <1>3 DEF ResendAnnouncement
<1>q. queue \in [Job -> JobEntry] /\ queue[j] \in JobEntry
  BY DEF TypeOK
<1>4. ASSUME NEW s \in Slot, Settle(s) PROVE queue'[j].state # "unborn"
  <2>1. SettledState(s) # "unborn"
    BY DEF SettledState
  <2>2. CASE queue' = queue
    BY <2>2
  <2>3. CASE queue' = [queue EXCEPT ![JobOf(s)].owner = None, ![JobOf(s)].state = SettledState(s)]
    <3>1. CASE j = JobOf(s)
      <4>1. queue'[j] = [queue[j] EXCEPT !.owner = None, !.state = SettledState(s)]
        BY <1>q, <2>3, <3>1
      <4> QED
        BY <1>q, <2>1, <4>1 DEF JobEntry
    <3> QED
      BY <1>q, <2>3, <3>1
  <2> QED
    BY <1>4, <2>2, <2>3 DEF Settle
<1>7. ASSUME NEW s \in Slot, NEW i \in Job, Fetch(s, i) PROVE queue'[j].state # "unborn"
  <2>1. queue' = [queue EXCEPT ![i].state = "active", ![i].owner = s]
    BY <1>7 DEF Fetch
  <2>2. CASE j = i
    <3>1. queue'[j] = [queue[j] EXCEPT !.state = "active", !.owner = s]
      BY <1>q, <2>1, <2>2
    <3> QED
      BY <1>q, <3>1 DEF JobEntry
  <2> QED
    BY <1>q, <2>1, <2>2
<1>5. ASSUME NEW i \in Job, JobStep(i) PROVE queue'[j].state # "unborn"
  <2>1. CASE j = i
    <3>1. CASE Enqueue(i)
      BY <2>1, <3>1 DEF Enqueue
    <3>2. CASE LockExpires(i)
      BY <1>q, <2>1, <3>2 DEF LockExpires, JobEntry
    <3>3. CASE StalledCheck(i)
      <4>1. \/ queue'[j] = [queue[j] EXCEPT !.state = "wait", !.stalled = @ + 1]
            \/ queue'[j] = [queue[j] EXCEPT !.state = "failed"]
        BY <1>q, <2>1, <3>3 DEF StalledCheck
      <4> QED
        BY <1>q, <4>1 DEF JobEntry
    <3> QED
      BY <1>5, <3>1, <3>2, <3>3 DEF JobStep
  <2>2. CASE j # i
    BY <1>5, <1>q, <2>2 DEF JobStep, Enqueue, LockExpires, StalledCheck
  <2> QED
    BY <2>1, <2>2
<1>6. ASSUME NEW w \in Worker, WorkerStep(w) PROVE queue'[j].state # "unborn"
  <2>1. queue' = queue \/ Die(w)
    BY <1>6 DEF WorkerStep, Shutdown, DrainDone, DrainTimeout, Crash, Restart
  <2>2. ASSUME Die(w)
        PROVE  queue'[j] = queue[j] \/ queue'[j] = [queue[j] EXCEPT !.owner = None]
    BY <2>2 DEF Die
  <2> QED
    BY <1>q, <2>1, <2>2 DEF JobEntry
<1> QED
  BY <1>1, <1>2, <1>3, <1>4, <1>5, <1>6, <1>7 DEF Next, SlotStep

\* The inductive invariant holds in every reachable state: the guarded update
\* of markProcessing, and nothing else, keeps the ledger, the dead letters and
\* every slot's view of them together.
THEOREM Invariance == Spec => []IInv
<1>1. Init => IInv
  BY EventWorkerAssumption, InitIInv
<1>2. IInv /\ [Next]_vars => IInv'
  BY EventWorkerAssumption, NextKeepsIInv
<1> QED
  BY <1>1, <1>2, PTL DEF Spec

\* The types of the seven variables, which every other result starts from.
THEOREM TypeCorrectness == Spec => []TypeOK
BY Invariance, PTL DEF IInv

\* markProcessing's conditional update is a lock: no two executions ever work on
\* one idempotency key beyond it, whatever is redelivered, lost or restarted.
THEOREM MutualExclusion == Spec => []LockExclusive
BY Invariance, PTL DEF IInv

\* What a slot read before an await is still true when it acts on it.
THEOREM NoStaleRead == Spec => []RunsMatchRecords
BY Invariance, PTL DEF IInv

\* attemptCount and attemptHistory agree in every state, between the two calls
\* that write them too.
THEOREM AttemptAccounting == Spec => []AttemptsRecorded
BY Invariance, PTL DEF IInv

\* Retries are bounded by RETRY_MAX_ATTEMPTS over all jobs of an event.
THEOREM AttemptLimit == Spec => []AttemptsBounded
BY Invariance, PTL DEF IInv

\* A dead letter and its message have the whole history of the event.
THEOREM BurialCompleteness == Spec => []DeadLettersComplete
BY Invariance, PTL DEF IInv

\* An event is buried at most once.
THEOREM BurialSafety == Spec => []BuriedOnce
BY Invariance, PTL DEF IInv

\* BullMQ's completed state and the ledger fit together.
THEOREM OutcomeSafety == Spec => []CompletedWasAttempted
BY Invariance, PTL DEF IInv

\* The shipment table and the ledger fit together.
THEOREM ShipmentSafety == Spec => []ShipmentsFollowLedger
BY Invariance, PTL DEF IInv

-----------------------------------------------------------------------------
(* EventWorker keeps the promises of EventLedger: every write to            *)
(* processed_events, dead_letter_events and the dead-letter queue is one     *)
(* step of the lifecycle of one event. The finality of the two terminal      *)
(* statuses and the refinement follow from that.                             *)

\* The statuses in which an attempt that ends may find its record.
EndingStatus(status) ==
  \/ status = "processing"
  \/ status = "processed" /\ "lost" \in Faults

\* The record of event k is overwritten, in one of the five ways it ever is.
RecordWrite(k, record) ==
  /\ ledger' = [ledger EXCEPT ![k] = record]
  /\ deadLetters' = deadLetters /\ dlq' = dlq
  /\ \/ /\ ledger[k].status = "none" /\ record.status = "received"
        /\ record.attemptCount = ledger[k].attemptCount
     \/ /\ ledger[k].status \in LockableStatuses /\ record.status = "processing"
        /\ ledger[k].attemptCount < MaxAttempts
        /\ record.attemptCount = ledger[k].attemptCount + 1
     \/ /\ ledger[k].status = "processing" /\ record.status = "processed"
        /\ record.attemptCount = ledger[k].attemptCount
     \/ /\ EndingStatus(ledger[k].status) /\ record.status = "failed"
        /\ ledger[k].attemptCount < MaxAttempts
        /\ record.attemptCount = ledger[k].attemptCount
     \/ /\ EndingStatus(ledger[k].status) /\ record.status = "dead_lettered"
        /\ record.attemptCount = ledger[k].attemptCount

\* Event k gets its dead-letter document, or the message about it.
LetterWrite(k) ==
  /\ ledger' = ledger /\ dlq' = dlq
  /\ ledger[k].status = "dead_lettered"
  /\ deadLetters[k] = <<>>
  /\ \E letter : deadLetters' = [deadLetters EXCEPT ![k] = Append(<<>>, letter)]

MessageWrite(k) ==
  /\ ledger' = ledger /\ deadLetters' = deadLetters
  /\ Len(deadLetters[k]) = 1
  /\ Len(dlq[k]) <= MaxResends
  /\ \E letter : dlq' = [dlq EXCEPT ![k] = Append(dlq[k], letter)]

NoWrite == ledger' = ledger /\ deadLetters' = deadLetters /\ dlq' = dlq

OneWrite ==
  \/ NoWrite
  \/ \E k \in Key : LetterWrite(k) \/ MessageWrite(k)
                      \/ \E record \in LedgerRecord : RecordWrite(k, record)

-----------------------------------------------------------------------------
(* Every step is at most one such write *)

LEMMA MarkReceivedWrites ==
  ASSUME EventWorkerAssumption, IInv, NEW s \in Slot, MarkReceived(s)
  PROVE  OneWrite
<1> DEFINE k == KeyOf(s)
           first == [NoRecord EXCEPT !.status = "received"]
<1>0. run[s].step = "receive"
  BY DEF MarkReceived, At
<1>c. TypeOK /\ k \in Key /\ KeyOK(k) /\ ledger[k] \in LedgerRecord
  BY <1>0, SlotContext
<1>1. deadLetters' = deadLetters /\ dlq' = dlq
      /\ \E reply \in WriteReplies : Update(reply, k, ReceivedRecord(k))
  BY DEF MarkReceived
<1>2. /\ first \in LedgerRecord
      /\ first.status = "received" /\ first.attemptCount = 0
  BY EmptySeq DEF LedgerRecord, NoRecord, ProcessedStatus
<1>3. CASE ledger[k].status = "none"
  <2>1. ledger[k].attemptCount = 0
    BY <1>c, <1>3 DEF KeyOK, CountOK
  <2>2. ledger' = ledger \/ ledger' = [ledger EXCEPT ![k] = first]
    BY <1>1, <1>3 DEF Update, ReceivedRecord
  <2>3. ledger' = ledger \/ RecordWrite(k, first)
    BY <1>1, <1>2, <1>3, <2>1, <2>2 DEF RecordWrite
  <2> HIDE DEF first
  <2> QED
    BY <1>c, <1>1, <1>2, <2>3 DEF OneWrite, NoWrite
<1>4. CASE ledger[k].status # "none"
  <2>1. ledger' = ledger
    BY <1>c, <1>1, <1>4 DEF Update, ReceivedRecord, TypeOK
  <2> QED
    BY <1>1, <2>1 DEF OneWrite, NoWrite
<1> QED
  BY <1>3, <1>4

LEMMA MarkProcessingWrites ==
  ASSUME EventWorkerAssumption, IInv, NEW s \in Slot, MarkProcessing(s)
  PROVE  OneWrite
<1> DEFINE k == KeyOf(s)
           matched == ledger[k].status \in LockableStatuses
           acquired == [ledger[k] EXCEPT !.status = "processing", !.attemptCount = @ + 1]
<1>0. run[s].step = "acquire"
  BY DEF MarkProcessing, At
<1>c. TypeOK /\ k \in Key /\ KeyOK(k) /\ ledger[k] \in LedgerRecord
  BY <1>0, SlotContext
<1>1. deadLetters' = deadLetters /\ dlq' = dlq
      /\ \E reply \in WriteReplies : Update(reply, k, IF matched THEN acquired ELSE ledger[k])
  BY DEF MarkProcessing
<1>2. /\ acquired \in LedgerRecord /\ acquired.status = "processing"
      /\ acquired.attemptCount = ledger[k].attemptCount + 1
  BY <1>c, LockedRecord
<1>3. CASE matched
  <2>1. ledger[k].attemptCount < MaxAttempts
    BY <1>c, <1>3 DEF KeyOK, CountOK
  <2>2. ledger' = ledger \/ ledger' = [ledger EXCEPT ![k] = acquired]
    BY <1>1, <1>3 DEF Update
  <2> HIDE DEF acquired
  <2>3. ledger' = ledger \/ RecordWrite(k, acquired)
    BY <1>1, <1>2, <1>3, <2>1, <2>2 DEF RecordWrite
  <2> QED
    BY <1>c, <1>1, <1>2, <2>3 DEF OneWrite, NoWrite
<1>4. CASE ~matched
  <2>1. ledger' = ledger
    BY <1>c, <1>1, <1>4 DEF Update, TypeOK
  <2> QED
    BY <1>1, <2>1 DEF OneWrite, NoWrite
<1> QED
  BY <1>3, <1>4

LEMMA MarkProcessedWrites ==
  ASSUME EventWorkerAssumption, IInv, NEW s \in Slot, MarkProcessed(s)
  PROVE  OneWrite
<1> DEFINE k == KeyOf(s)
           record == [ledger[k] EXCEPT !.status = "processed"]
<1>0. run[s].step = "complete"
  BY DEF MarkProcessed, At
<1>c. TypeOK /\ k \in Key /\ RunOK(s) /\ ledger[k] \in LedgerRecord
  BY <1>0, SlotContext
<1>1. deadLetters' = deadLetters /\ dlq' = dlq
      /\ (ledger' = ledger \/ ledger' = [ledger EXCEPT ![k] = record])
  BY DEF MarkProcessed, Update
<1>2. /\ record \in LedgerRecord /\ record.status = "processed"
      /\ record.attemptCount = ledger[k].attemptCount
  BY <1>c DEF LedgerRecord, ProcessedStatus
<1>3. ledger[k].status = "processing"
  BY <1>0, <1>c DEF RunOK
<1> HIDE DEF record
<1>4. NoWrite \/ RecordWrite(k, record)
  BY <1>1, <1>2, <1>3 DEF RecordWrite, NoWrite
<1> QED
  BY <1>c, <1>2, <1>4 DEF OneWrite

LEMMA MarkFailedWrites ==
  ASSUME EventWorkerAssumption, IInv, NEW s \in Slot, MarkFailed(s)
  PROVE  OneWrite
<1> DEFINE k == KeyOf(s)
           record == [ledger[k] EXCEPT !.status = "failed",
                                       !.attemptHistory = Append(@, ThisAttempt(s))]
<1>0. run[s].step = "fail"
  BY DEF MarkFailed, At
<1>c. /\ TypeOK /\ k \in Key /\ RunOK(s) /\ ledger[k] \in LedgerRecord
      /\ run[s] \in RunRecord
  BY <1>0, SlotContext
<1>1. deadLetters' = deadLetters /\ dlq' = dlq
      /\ (ledger' = ledger \/ ledger' = [ledger EXCEPT ![k] = record])
  BY DEF MarkFailed, Update
<1>2. /\ EndingStatus(ledger[k].status) /\ ledger[k].attemptCount < MaxAttempts
      /\ run[s].code \in ClassifiedCodes
  BY <1>0, <1>c DEF RunOK, Owns, LockedSteps, EndingStatus
<1>3. /\ record \in LedgerRecord /\ record.status = "failed"
      /\ record.attemptCount = ledger[k].attemptCount
  <2>1. ThisAttempt(s) \in AttemptEntry /\ ledger[k].attemptHistory \in Seq(AttemptEntry)
    BY <1>c, <1>2 DEF ThisAttempt, AttemptEntry, RunRecord, LedgerRecord
  <2>2. Append(ledger[k].attemptHistory, ThisAttempt(s)) \in Seq(AttemptEntry)
    BY <2>1
  <2>3. record = [[ledger[k] EXCEPT !.status = "failed"]
                    EXCEPT !.attemptHistory = Append(ledger[k].attemptHistory, ThisAttempt(s))]
    BY <1>c DEF LedgerRecord
  <2> QED
    BY <1>c, <2>2, <2>3 DEF LedgerRecord, ProcessedStatus
<1> HIDE DEF record
<1>4. NoWrite \/ RecordWrite(k, record)
  BY <1>1, <1>2, <1>3 DEF RecordWrite, NoWrite
<1> QED
  BY <1>c, <1>3, <1>4 DEF OneWrite

LEMMA MarkDeadLetteredWrites ==
  ASSUME EventWorkerAssumption, IInv, NEW s \in Slot, MarkDeadLettered(s)
  PROVE  OneWrite
<1> DEFINE k == KeyOf(s)
           record == [ledger[k] EXCEPT !.status = "dead_lettered"]
<1>0. run[s].step = "bury"
  BY DEF MarkDeadLettered, At
<1>c. TypeOK /\ k \in Key /\ RunOK(s) /\ ledger[k] \in LedgerRecord
  BY <1>0, SlotContext
<1>1. deadLetters' = deadLetters /\ dlq' = dlq
      /\ (ledger' = ledger \/ ledger' = [ledger EXCEPT ![k] = record])
  BY DEF MarkDeadLettered, Update
<1>2. EndingStatus(ledger[k].status)
  BY <1>0, <1>c DEF RunOK, EndingStatus
<1>3. /\ record \in LedgerRecord /\ record.status = "dead_lettered"
      /\ record.attemptCount = ledger[k].attemptCount
  BY <1>c DEF LedgerRecord, ProcessedStatus
<1> HIDE DEF record
<1>4. NoWrite \/ RecordWrite(k, record)
  BY <1>1, <1>2, <1>3 DEF RecordWrite, NoWrite
<1> QED
  BY <1>c, <1>3, <1>4 DEF OneWrite

LEMMA LetterWrites ==
  ASSUME EventWorkerAssumption, IInv, NEW s \in Slot,
         PersistDeadLetter(s) \/ AnnounceDeadLetter(s) \/ ResendAnnouncement(s)
  PROVE  OneWrite
<1> DEFINE k == KeyOf(s)
<1>0. run[s].step \in {"persist", "announce"}
  BY DEF PersistDeadLetter, AnnounceDeadLetter, ResendAnnouncement, At
<1>c. TypeOK /\ k \in Key /\ RunOK(s)
  BY <1>0, SlotContext
<1>1. CASE PersistDeadLetter(s)
  <2>1. ledger' = ledger /\ dlq' = dlq
        /\ (deadLetters' = deadLetters
              \/ deadLetters' = [deadLetters EXCEPT ![k] = Append(@, DeadLetterOf(s))])
    BY <1>1 DEF PersistDeadLetter
  <2>2. ledger[k].status = "dead_lettered" /\ deadLetters[k] = <<>>
    BY <1>1, <1>c DEF PersistDeadLetter, At, RunOK, BurialSteps
  <2>3. NoWrite \/ LetterWrite(k)
    BY <2>1, <2>2 DEF LetterWrite, NoWrite
  <2> QED
    BY <1>c, <2>3 DEF OneWrite
<1>2. CASE AnnounceDeadLetter(s) \/ ResendAnnouncement(s)
  <2>1. ledger' = ledger /\ deadLetters' = deadLetters
        /\ (dlq' = dlq \/ dlq' = [dlq EXCEPT ![k] = Append(@, DeadLetterOf(s))])
    BY <1>2 DEF AnnounceDeadLetter, ResendAnnouncement
  <2>2. Len(deadLetters[k]) = 1 /\ Len(dlq[k]) <= MaxResends
    BY <1>2, <1>c DEF AnnounceDeadLetter, ResendAnnouncement, At, RunOK
  <2>3. NoWrite \/ MessageWrite(k)
    BY <2>1, <2>2 DEF MessageWrite, NoWrite
  <2> QED
    BY <1>c, <2>3 DEF OneWrite
<1> QED
  BY <1>1, <1>2

LEMMA StepWrites ==
  ASSUME EventWorkerAssumption, IInv, [Next]_vars
  PROVE  OneWrite
<1>1. CASE UNCHANGED vars
  BY <1>1 DEF vars, OneWrite, NoWrite
<1>2. ASSUME NEW s \in Slot, ProcessEvent(s) PROVE OneWrite
  <2>1. CASE CheckIdempotency(s) \/ UpsertShipment(s) \/ GatherHistory(s)
    BY <2>1 DEF CheckIdempotency, UpsertShipment, GatherHistory, OneWrite, NoWrite
  <2> QED
    BY <1>2, <2>1, MarkReceivedWrites, MarkProcessingWrites, MarkProcessedWrites,
       MarkFailedWrites, MarkDeadLetteredWrites, LetterWrites DEF ProcessEvent
<1>3. ASSUME NEW s \in Slot, ResendAnnouncement(s) PROVE OneWrite
  BY <1>3, LetterWrites
<1>6. ASSUME NEW s \in Slot, Settle(s) \/ \E j \in Job : Fetch(s, j) PROVE OneWrite
  BY <1>6 DEF Settle, Fetch, OneWrite, NoWrite
<1>4. ASSUME NEW j \in Job, JobStep(j) PROVE OneWrite
  BY <1>4 DEF JobStep, Enqueue, LockExpires, StalledCheck, OneWrite, NoWrite
<1>5. ASSUME NEW w \in Worker, WorkerStep(w) PROVE OneWrite
  BY <1>5 DEF WorkerStep, Shutdown, DrainDone, DrainTimeout, Crash, Die, Restart, OneWrite,
     NoWrite
<1> QED
  BY <1>1, <1>2, <1>3, <1>4, <1>5, <1>6 DEF Next, SlotStep

-----------------------------------------------------------------------------
(* The terminal statuses *)

LEMMA WritesAreFinal ==
  ASSUME TypeOK, OneWrite, NEW k \in Key, ledger'[k] # ledger[k]
  PROVE  /\ ledger[k].status # "dead_lettered"
         /\ ledger[k].status = "processed" => "lost" \in Faults
<1>1. PICK key \in Key, record \in LedgerRecord : RecordWrite(key, record)
  BY DEF OneWrite, NoWrite, LetterWrite, MessageWrite
<1>2. key = k
  BY <1>1 DEF RecordWrite, TypeOK
<1> QED
  BY <1>1, <1>2 DEF RecordWrite, EndingStatus, LockableStatuses

\* No redelivery, late writer or restart changes the record of a dead-lettered
\* event.
THEOREM DeadLetterFinality == Spec => DeadLetteredIsFinal
<1>1. IInv /\ [Next]_vars =>
        [\A k \in Key : ledger[k].status = "dead_lettered" => ledger'[k] = ledger[k]]_vars
  BY EventWorkerAssumption, StepWrites, WritesAreFinal DEF IInv
<1> QED
  BY <1>1, Invariance, PTL DEF Spec, DeadLetteredIsFinal

\* As long as no write is applied and then reported as failed, a processed event
\* stays processed. (With such a write it need not: the catch block that follows
\* a lost success takes the event back to failed.)
THEOREM ProcessedFinality == "lost" \notin Faults /\ Spec => ProcessedIsFinal
<1> SUFFICES ASSUME "lost" \notin Faults PROVE Spec => ProcessedIsFinal
  OBVIOUS
<1>1. IInv /\ [Next]_vars =>
        [\A k \in Key : ledger[k].status = "processed" => ledger'[k] = ledger[k]]_vars
  BY EventWorkerAssumption, StepWrites, WritesAreFinal DEF IInv
<1> QED
  BY <1>1, Invariance, PTL DEF Spec, ProcessedIsFinal

-----------------------------------------------------------------------------
(* The refinement *)

\* The refinement mapping, variable by variable.
statusBar == [k \in Key |-> ledger[k].status]
attemptsBar == [k \in Key |-> ledger[k].attemptCount]
lettersBar == [k \in Key |-> Len(deadLetters[k])]
messagesBar == [k \in Key |-> Len(dlq[k])]

LEMMA InitImplements ==
  ASSUME Init
  PROVE  Ledger!Init
  BY DEF Init, Ledger!Init, NoRecord

LEMMA MappedRecordWrite ==
  ASSUME TypeOK, NEW k \in Key, NEW record \in LedgerRecord, RecordWrite(k, record)
  PROVE  /\ statusBar' = [statusBar EXCEPT ![k] = record.status]
         /\ attemptsBar' = [attemptsBar EXCEPT ![k] = record.attemptCount]
         /\ lettersBar' = lettersBar /\ messagesBar' = messagesBar
  BY DEF TypeOK, RecordWrite, statusBar, attemptsBar, lettersBar, messagesBar

LEMMA RecordWriteImplements ==
  ASSUME TypeOK, NEW k \in Key, NEW record \in LedgerRecord, RecordWrite(k, record)
  PROVE  Ledger!Next
<1> DEFINE status == ledger[k].status
           attempts == ledger[k].attemptCount
<1>1. /\ statusBar' = [statusBar EXCEPT ![k] = record.status]
      /\ attemptsBar' = [attemptsBar EXCEPT ![k] = record.attemptCount]
      /\ lettersBar' = lettersBar /\ messagesBar' = messagesBar
  BY MappedRecordWrite
<1>2. statusBar[k] = status /\ attemptsBar[k] = attempts
  BY DEF statusBar, attemptsBar
<1>3. record.attemptCount = attempts => attemptsBar' = attemptsBar
  BY <1>1, <1>2 DEF attemptsBar
<1>4. EndingStatus(status) => status \in Ledger!Ending
  BY DEF EndingStatus, Ledger!Ending
<1>5. CASE status = "none" /\ record.status = "received" /\ record.attemptCount = attempts
  <2>1. Ledger!Receive(k)
    BY <1>1, <1>2, <1>3, <1>5 DEF Ledger!Receive, Ledger!Becomes, statusBar, attemptsBar,
       lettersBar, messagesBar
  <2> QED
    BY <2>1 DEF Ledger!Next
<1>6. CASE /\ status \in LockableStatuses /\ record.status = "processing"
           /\ attempts < MaxAttempts /\ record.attemptCount = attempts + 1
  <2>1. Ledger!Begin(k)
    BY <1>1, <1>2, <1>6 DEF Ledger!Begin, Ledger!Becomes, statusBar, attemptsBar,
       lettersBar, messagesBar, LockableStatuses
  <2> QED
    BY <2>1 DEF Ledger!Next
<1>7. CASE /\ status = "processing" /\ record.status = "processed"
           /\ record.attemptCount = attempts
  <2>1. Ledger!Succeed(k)
    BY <1>1, <1>2, <1>3, <1>7 DEF Ledger!Succeed, Ledger!Becomes, statusBar, attemptsBar,
       lettersBar, messagesBar
  <2> QED
    BY <2>1 DEF Ledger!Next
<1>8. CASE /\ EndingStatus(status) /\ record.status = "failed"
           /\ attempts < MaxAttempts /\ record.attemptCount = attempts
  <2>1. Ledger!Fail(k)
    BY <1>1, <1>2, <1>3, <1>4, <1>8 DEF Ledger!Fail, Ledger!Becomes, statusBar, attemptsBar,
       lettersBar, messagesBar
  <2> QED
    BY <2>1 DEF Ledger!Next
<1>9. CASE /\ EndingStatus(status) /\ record.status = "dead_lettered"
           /\ record.attemptCount = attempts
  <2>1. Ledger!Bury(k)
    BY <1>1, <1>2, <1>3, <1>4, <1>9 DEF Ledger!Bury, Ledger!Becomes, statusBar, attemptsBar,
       lettersBar, messagesBar
  <2> QED
    BY <2>1 DEF Ledger!Next
<1> QED
  BY <1>5, <1>6, <1>7, <1>8, <1>9 DEF RecordWrite

LEMMA LetterWriteImplements ==
  ASSUME TypeOK, NEW k \in Key, LetterWrite(k)
  PROVE  Ledger!Next
<1>1. PICK letter : deadLetters' = [deadLetters EXCEPT ![k] = Append(<<>>, letter)]
  BY DEF LetterWrite
<1> DEFINE list == Append(<<>>, letter)
<1>2. Len(list) = 1 /\ Len(<<>>) = 0
  OBVIOUS
<1>3. deadLetters' = [deadLetters EXCEPT ![k] = list]
  BY <1>1
<1> HIDE DEF list
<1>4. /\ lettersBar' = [lettersBar EXCEPT ![k] = 1]
      /\ statusBar' = statusBar /\ attemptsBar' = attemptsBar /\ messagesBar' = messagesBar
  BY <1>2, <1>3 DEF LetterWrite, TypeOK, statusBar, attemptsBar, lettersBar, messagesBar
<1>5. statusBar[k] = "dead_lettered" /\ lettersBar[k] = 0
  BY <1>2 DEF LetterWrite, statusBar, lettersBar
<1>6. Ledger!Document(k)
  BY <1>4, <1>5 DEF Ledger!Document, statusBar, attemptsBar, lettersBar, messagesBar
<1> QED
  BY <1>6 DEF Ledger!Next

LEMMA MessageWriteImplements ==
  ASSUME EventWorkerAssumption, TypeOK, NEW k \in Key, MessageWrite(k)
  PROVE  Ledger!Next
<1>1. PICK letter : dlq' = [dlq EXCEPT ![k] = Append(dlq[k], letter)]
  BY DEF MessageWrite
<1> DEFINE list == Append(dlq[k], letter)
<1>2. dlq[k] \in Seq(DeadLetterRecord) /\ Len(dlq[k]) \in Nat
  BY DEF TypeOK
<1>3. Len(list) = Len(dlq[k]) + 1
  BY <1>2
<1>4. dlq' = [dlq EXCEPT ![k] = list]
  BY <1>1
<1> HIDE DEF list
<1>5. /\ messagesBar' = [messagesBar EXCEPT ![k] = @ + 1]
      /\ statusBar' = statusBar /\ attemptsBar' = attemptsBar /\ lettersBar' = lettersBar
  BY <1>3, <1>4 DEF MessageWrite, TypeOK, statusBar, attemptsBar, lettersBar, messagesBar
<1>6. lettersBar[k] = 1 /\ messagesBar[k] < 1 + MaxResends
  BY <1>2 DEF MessageWrite, lettersBar, messagesBar, EventWorkerAssumption
<1>7. Ledger!Announce(k)
  BY <1>5, <1>6 DEF Ledger!Announce, statusBar, attemptsBar, lettersBar, messagesBar
<1> QED
  BY <1>7 DEF Ledger!Next

LEMMA StepImplements ==
  ASSUME EventWorkerAssumption, TypeOK, OneWrite
  PROVE  [Ledger!Next]_Ledger!vars
<1>1. CASE NoWrite
  BY <1>1 DEF NoWrite, Ledger!vars
<1> QED
  BY <1>1, RecordWriteImplements, LetterWriteImplements, MessageWriteImplements DEF OneWrite

\* The worker implements EventLedger: the slots, jobs, redeliveries, crashes and
\* lost replies all disappear behind seven lifecycle steps of single events.
THEOREM Refinement == Spec => ImplementsLedger
<1>1. Init => Ledger!Init
  BY InitImplements
<1>2. IInv /\ [Next]_vars => [Ledger!Next]_Ledger!vars
  BY EventWorkerAssumption, StepWrites, StepImplements DEF IInv
<1> QED
  BY <1>1, <1>2, Invariance, PTL DEF Spec, ImplementsLedger, Ledger!Spec

=============================================================================
