-------------------------- MODULE DlqReplay_proofs --------------------------
(***************************************************************************)
(* Proofs about the replay script beside the workers. Every step of the two *)
(* is a step of EventWorker or leaves its variables alone, so all that is   *)
(* proved of the workers holds here; and a dead letter that was found keeps *)
(* its document, since nothing deletes or adds one.                         *)
(***************************************************************************)
EXTENDS DlqReplay, EventWorker_proofs, FiniteSetTheorems

LEMMA FiniteLetters ==
  ASSUME DlqReplayAssumption
  PROVE  IsFiniteSet(Letters) /\ Cardinality(Job) \in Nat
<1>1. IsFiniteSet(Key) /\ Cardinality(Job) \in Nat
  BY FS_CardinalityType DEF DlqReplayAssumption
<1>2. IsFiniteSet(1..Cardinality(Job))
  BY <1>1, FS_Interval
<1> QED
  BY <1>1, <1>2, FS_Product DEF Letters

-----------------------------------------------------------------------------
(* Steps of the script and steps of the workers *)

LEMMA AddReplaySteps ==
  ASSUME DlqReplayAssumption, NEW o \in Operator, AddReplay(o)
  PROVE  [Next]_vars
<1>1. UNCHANGED vars \/ \E j \in Job : Enqueue(j)
  BY DEF AddReplay, DlqReplayAssumption
<1> QED
  BY <1>1 DEF Next, JobStep

LEMMA ReplayStepsAreWorkerSteps ==
  ASSUME DlqReplayAssumption, [ReplayNext]_replayVars
  PROVE  [Next]_vars
BY AddReplaySteps DEF ReplayNext, replayVars, WorkersStep, RunScript, StartScript, FindPending,
   MarkReplayed, ScriptDies

LEMMA Composition == ReplaySpec => Spec
<1>1. ReplayInit => Init
  BY DEF ReplayInit
<1>2. [ReplayNext]_replayVars => [Next]_vars
  BY DlqReplayAssumption, ReplayStepsAreWorkerSteps
<1> QED
  BY <1>1, <1>2, PTL DEF ReplaySpec, Spec

LEMMA AddedStays ==
  ASSUME EventWorkerAssumption, DlqReplayAssumption, TypeOK, [Next]_vars, NEW k \in Key,
         Added(k) # {}
  PROVE  Added(k)' # {}
<1>1. PICK j \in ReplayJob : JobKey[j] = k /\ queue[j].state # "unborn"
  BY DEF Added
<1>2. queue'[j].state # "unborn"
  BY <1>1, BornStays DEF DlqReplayAssumption
<1> QED
  BY <1>1, <1>2 DEF Added

\* A step files at most one document, for an event without one.
LEMMA LettersStay ==
  ASSUME EventWorkerAssumption, IInv, [Next]_vars, NEW k \in Key
  PROVE  \/ deadLetters'[k] = deadLetters[k]
         \/ Len(deadLetters[k]) = 0 /\ Len(deadLetters'[k]) = 1
<1>0. TypeOK /\ OneWrite
  BY StepWrites DEF IInv
<1>1. CASE NoWrite \/ \E i \in Key : MessageWrite(i)
                        \/ \E record \in LedgerRecord : RecordWrite(i, record)
  BY <1>1 DEF NoWrite, MessageWrite, RecordWrite
<1>2. ASSUME NEW i \in Key, LetterWrite(i)
      PROVE  \/ deadLetters'[k] = deadLetters[k]
             \/ Len(deadLetters[k]) = 0 /\ Len(deadLetters'[k]) = 1
  <2>1. PICK letter : deadLetters' = [deadLetters EXCEPT ![i] = Append(<<>>, letter)]
    BY <1>2 DEF LetterWrite
  <2> DEFINE list == Append(<<>>, letter)
  <2>2. Len(list) = 1 /\ Len(<<>>) = 0
    OBVIOUS
  <2>3. deadLetters' = [deadLetters EXCEPT ![i] = list]
    BY <2>1
  <2> HIDE DEF list
  <2> QED
    BY <1>0, <1>2, <2>2, <2>3 DEF LetterWrite, TypeOK
<1> QED
  BY <1>0, <1>1, <1>2 DEF OneWrite

\* An event that has its document keeps it, and its record.
LEMMA BuriedStays ==
  ASSUME EventWorkerAssumption, IInv, [Next]_vars, NEW k \in Key, Len(deadLetters[k]) = 1
  PROVE  deadLetters'[k] = deadLetters[k] /\ ledger'[k] = ledger[k]
<1>1. TypeOK /\ OneWrite /\ ledger[k].status = "dead_lettered"
  BY StepWrites DEF IInv, BuriedOnce
<1> QED
  BY <1>1, LettersStay, WritesAreFinal

-----------------------------------------------------------------------------
(* The invariant of the composition *)

LEMMA InitReplayIInv ==
  ASSUME EventWorkerAssumption, ReplayInit
  PROVE  ReplayIInv
<1>1. IInv
  BY InitIInv DEF ReplayInit
<1>2. /\ review = [k \in Key |-> <<>>] /\ script = [o \in Operator |-> Off]
      /\ deadLetters = [k \in Key |-> <<>>]
      /\ queue = [j \in Job |-> [state |-> "unborn", owner |-> None, stalled |-> 0]]
  BY DEF ReplayInit, Init
<1>3. ReplayTypeOK
  BY <1>2, EmptySeq DEF ReplayTypeOK, Off, ScriptRun
<1>4. \A k \in Key : Added(k) = {}
  BY <1>2, DlqReplayAssumption DEF Added, DlqReplayAssumption
<1>5. \A o \in Operator : ScriptOK(o)
  BY <1>2 DEF ScriptOK, Off
<1>6. MarkedWasQueued
  BY <1>2 DEF MarkedWasQueued, Marked
<1> QED
  BY <1>1, <1>3, <1>4, <1>5, <1>6 DEF ReplayIInv

\* The workers' part of the invariant, and what their next states keep for the
\* script: documents and jobs that are there stay.
LEMMA Kept ==
  ASSUME EventWorkerAssumption, DlqReplayAssumption, ReplayIInv, [Next]_vars
  PROVE  /\ IInv'
         /\ \A k \in Key : Added(k) # {} => Added(k)' # {} /\ Len(deadLetters'[k]) = 1
         /\ \A letter \in Letters : Filed(letter) => Filed(letter)'
<1>1. IInv /\ TypeOK /\ IInv'
  BY NextKeepsIInv DEF ReplayIInv, IInv
<1>2. ASSUME NEW k \in Key, Added(k) # {} PROVE Added(k)' # {} /\ Len(deadLetters'[k]) = 1
  <2>1. Len(deadLetters[k]) = 1
    BY <1>2 DEF ReplayIInv
  <2> QED
    BY <1>1, <1>2, <2>1, AddedStays, BuriedStays
<1>3. ASSUME NEW letter \in Letters, Filed(letter) PROVE Filed(letter)'
  <2>1. letter[1] \in Key /\ letter[2] \in 1..Cardinality(Job) /\ Cardinality(Job) \in Nat
    BY FiniteLetters DEF Letters
  <2>2. deadLetters'[letter[1]] = deadLetters[letter[1]] \/ Len(deadLetters[letter[1]]) = 0
    BY <1>1, <2>1, LettersStay
  <2> QED
    BY <1>3, <2>1, <2>2 DEF Filed
<1> QED
  BY <1>1, <1>2, <1>3

\* What a script that runs must satisfy.
RunFits(r) ==
  /\ r \in ScriptRun
  /\ r.step \in {"add", "mark"} <=> r.batch # <<>>
  /\ \A i \in 1..Len(r.batch) : Filed(r.batch[i])
  /\ r.step = "mark" => Added(Head(r.batch)[1]) # {}

LEMMA RunsFit ==
  ASSUME ReplayIInv, NEW o \in Operator
  PROVE  RunFits(script[o])
BY DEF ReplayIInv, ReplayTypeOK, ScriptOK, RunFits, KeyOfNext

\* A run that fits goes on to fit, whatever the workers and other scripts do.
LEMMA FitKept ==
  ASSUME EventWorkerAssumption, DlqReplayAssumption, ReplayIInv, [Next]_vars,
         NEW r, RunFits(r)
  PROVE  RunFits(r)'
<1>1. r \in ScriptRun /\ (r.step = "mark" => r.batch # <<>>)
  BY DEF RunFits
<1>2. \A i \in 1..Len(r.batch) : r.batch[i] \in Letters
  BY <1>1 DEF ScriptRun
<1>3. \A i \in 1..Len(r.batch) : Filed(r.batch[i])'
  BY <1>2, Kept DEF RunFits
<1>4. r.step = "mark" => Head(r.batch)[1] \in Key
  <2>1. r.batch # <<>> => Head(r.batch) \in Letters
    BY <1>1 DEF ScriptRun
  <2> QED
    BY <1>1, <2>1 DEF Letters
<1>5. r.step = "mark" => Added(Head(r.batch)[1])' # {}
  BY <1>4, Kept DEF RunFits
<1> QED
  BY <1>3, <1>5 DEF RunFits

\* The step of one script: its next run has to fit.
LEMMA ScriptStep ==
  ASSUME EventWorkerAssumption, DlqReplayAssumption, ReplayIInv, [Next]_vars,
         NEW o \in Operator, NEW r, script' = [script EXCEPT ![o] = r], RunFits(r)'
  PROVE  /\ script' \in [Operator -> ScriptRun]
         /\ \A p \in Operator : RunFits(script[p])'
<1>1. script \in [Operator -> ScriptRun] /\ r \in ScriptRun
  BY DEF ReplayIInv, ReplayTypeOK, RunFits
<1>2. script' \in [Operator -> ScriptRun]
  BY <1>1
<1>3. ASSUME NEW p \in Operator, p # o PROVE RunFits(script[p])'
  <2>1. PICK q : q = script[p]
    OBVIOUS
  <2>2. RunFits(q)
    BY <2>1, RunsFit
  <2>3. RunFits(q)'
    BY <2>2, FitKept
  <2>4. script'[p] = q
    BY <1>1, <1>3, <2>1
  <2> QED
    BY <2>3, <2>4 DEF RunFits
<1>4. script'[o] = r
  BY <1>1
<1>5. RunFits(script[o])'
  BY <1>4 DEF RunFits
<1> QED
  BY <1>2, <1>3, <1>5

\* The parts of the invariant, put together again.
LEMMA Together ==
  ASSUME EventWorkerAssumption, DlqReplayAssumption, ReplayIInv, [Next]_vars,
         script' \in [Operator -> ScriptRun],
         \A p \in Operator : RunFits(script[p])',
         review' \in [Key -> Seq(ReviewStatus)],
         \A k \in Key : Len(review'[k]) = Len(deadLetters'[k]),
         \A k \in Key : Added(k) = {} => Added(k)' = {} \/ Len(deadLetters'[k]) = 1,
         \A k \in Key : Marked(k)' # {} => Added(k)' # {}
  PROVE  ReplayIInv'
<1>1. ReplayTypeOK' /\ \A o \in Operator : ScriptOK(o)'
  BY DEF ReplayTypeOK, ScriptOK, RunFits, KeyOfNext
<1>2. \A k \in Key : Added(k)' # {} => Len(deadLetters'[k]) = 1
  BY Kept
<1> QED
  BY <1>1, <1>2, Kept DEF ReplayIInv, MarkedWasQueued

\* A script that has nothing left fits.
LEMMA OffFits ==
  RunFits(Off) /\ RunFits(Off)'
BY EmptySeq DEF RunFits, Off, ScriptRun

LEMMA MarkedFacts ==
  ASSUME ReplayIInv, NEW k \in Key, review'[k] = review[k]
  PROVE  Marked(k)' = Marked(k) /\ (Marked(k) # {} => Added(k) # {})
BY DEF ReplayIInv, MarkedWasQueued, Marked

-----------------------------------------------------------------------------
(* One lemma per action *)

LEMMA WorkersKeep ==
  ASSUME EventWorkerAssumption, DlqReplayAssumption, ReplayIInv, WorkersStep
  PROVE  ReplayIInv'
<1>0. [Next]_vars /\ IInv /\ TypeOK
  BY DEF WorkersStep, ReplayIInv, IInv
<1>1. /\ review \in [Key -> Seq(ReviewStatus)]
      /\ \A k \in Key : Len(review[k]) = Len(deadLetters[k])
      /\ script \in [Operator -> ScriptRun] /\ script' = script
  BY DEF ReplayIInv, ReplayTypeOK, WorkersStep
<1>2. \A p \in Operator : RunFits(script[p])'
  <2> TAKE p \in Operator
  <2>1. PICK q : q = script[p]
    OBVIOUS
  <2>2. RunFits(q)
    BY <2>1, RunsFit
  <2>3. RunFits(q)'
    BY <1>0, <2>2, FitKept
  <2> QED
    BY <1>1, <2>1, <2>3 DEF RunFits
<1>3. \A k \in Key : Added(k) = {} => Added(k)' = {}
  BY DEF WorkersStep, Added
<1>4. ASSUME NEW k \in Key
      PROVE  /\ review'[k] \in Seq(ReviewStatus)
             /\ Len(review'[k]) = Len(deadLetters'[k])
             /\ Marked(k)' # {} => Added(k)' # {}
  <2>1. review'[k] = IF Len(deadLetters'[k]) > Len(review[k])
                     THEN Append(review[k], "pending") ELSE review[k]
    BY DEF WorkersStep
  <2>2. review[k] \in Seq(ReviewStatus) /\ "pending" \in ReviewStatus
    BY <1>1 DEF ReviewStatus
  <2>3. CASE deadLetters'[k] = deadLetters[k]
    <3>1. review'[k] = review[k]
      BY <1>1, <2>1, <2>2, <2>3
    <3> QED
      BY <1>0, <1>1, <2>2, <2>3, <3>1, MarkedFacts, Kept
  <2>4. CASE Len(deadLetters[k]) = 0 /\ Len(deadLetters'[k]) = 1
    <3>1. review'[k] = Append(review[k], "pending") /\ Len(review[k]) = 0
      BY <1>1, <2>1, <2>4
    <3>2. /\ review'[k] \in Seq(ReviewStatus) /\ Len(review'[k]) = 1
          /\ review'[k][1] = "pending"
      BY <2>2, <3>1
    <3>3. Marked(k)' = {}
      BY <3>2 DEF Marked
    <3> QED
      BY <2>4, <3>2, <3>3
  <2> QED
    BY <1>0, <2>3, <2>4, LettersStay
<1>5. review' \in [Key -> Seq(ReviewStatus)]
  <2>1. \A k \in Key : review'[k] \in Seq(ReviewStatus)
    BY <1>4
  <2>2. review' = [k \in Key |-> review'[k]]
    BY DEF WorkersStep
  <2> QED
    BY <2>1, <2>2
<1> QED
  BY <1>0, <1>1, <1>2, <1>3, <1>4, <1>5, Together

\* Steps of a script that leave the workers' variables and the documents alone.
LEMMA QuietKeeps ==
  ASSUME EventWorkerAssumption, DlqReplayAssumption, ReplayIInv, UNCHANGED <<vars, review>>,
         NEW o \in Operator, NEW r, script' = [script EXCEPT ![o] = r], RunFits(r)'
  PROVE  ReplayIInv'
<1>1. [Next]_vars /\ queue' = queue /\ deadLetters' = deadLetters /\ review' = review
  BY DEF vars
<1>2. /\ script' \in [Operator -> ScriptRun]
      /\ \A p \in Operator : RunFits(script[p])'
  BY <1>1, ScriptStep
<1>3. /\ review' \in [Key -> Seq(ReviewStatus)]
      /\ \A k \in Key : Len(review'[k]) = Len(deadLetters'[k])
  BY <1>1 DEF ReplayIInv, ReplayTypeOK
<1>4. \A k \in Key : Added(k)' = Added(k)
  BY <1>1 DEF Added
<1>5. \A k \in Key : Marked(k)' # {} => Added(k)' # {}
  BY <1>1, <1>4, MarkedFacts
<1> QED
  BY <1>1, <1>2, <1>3, <1>4, <1>5, Together

LEMMA StartKeeps ==
  ASSUME EventWorkerAssumption, DlqReplayAssumption, ReplayIInv, NEW o \in Operator,
         StartScript(o) \/ ScriptDies(o)
  PROVE  ReplayIInv'
<1> DEFINE found == [step |-> "find", batch |-> <<>>]
<1>1. RunFits(found)'
  BY EmptySeq DEF RunFits, ScriptRun
<1>2. script \in [Operator -> ScriptRun]
  BY DEF ReplayIInv, ReplayTypeOK
<1>3. CASE StartScript(o)
  <2>1. script[o] = Off /\ script' = [script EXCEPT ![o].step = "find"]
    BY <1>3 DEF StartScript
  <2>2. [Off EXCEPT !.step = "find"] = found
    BY DEF Off
  <2>3. script' = [script EXCEPT ![o] = found]
    BY <1>2, <2>1, <2>2
  <2> HIDE DEF found
  <2> QED
    BY <1>1, <1>3, <2>3, QuietKeeps DEF StartScript
<1>4. CASE ScriptDies(o)
  BY <1>4, OffFits, QuietKeeps DEF ScriptDies
<1> QED
  BY <1>3, <1>4

\* A batch that find returns consists of documents that are filed.
LEMMA BatchFits ==
  ASSUME DlqReplayAssumption, NEW batch \in Batches, batch # <<>>
  PROVE  /\ batch \in Seq(Letters)
         /\ \A i \in 1..Len(batch) : Filed(batch[i])
<1>1. Cardinality(Pending) \in Nat
  <2>1. IsFiniteSet(Pending)
    BY FiniteLetters, FS_Subset DEF Pending
  <2> QED
    BY <2>1, FS_CardinalityType
<1>2. PICK size \in Nat : batch \in [1..size -> Pending]
  BY <1>1 DEF Batches, DlqReplayAssumption
<1>3. batch \in Seq(Pending) /\ Len(batch) = size
  BY <1>2
<1>4. \A i \in 1..size : batch[i] \in Letters /\ Filed(batch[i])
  BY <1>2 DEF Pending
<1> QED
  BY <1>2, <1>3, <1>4

LEMMA FindKeeps ==
  ASSUME EventWorkerAssumption, DlqReplayAssumption, ReplayIInv, NEW o \in Operator,
         FindPending(o)
  PROVE  ReplayIInv'
<1>1. UNCHANGED <<vars, review>>
  BY DEF FindPending
<1>2. CASE script' = [script EXCEPT ![o] = Off]
  BY <1>1, <1>2, OffFits, QuietKeeps
<1>3. CASE script' # [script EXCEPT ![o] = Off]
  <2>1. PICK batch \in Batches :
          /\ batch # <<>>
          /\ script' = [script EXCEPT ![o] = [step |-> "add", batch |-> batch]]
    BY <1>3 DEF FindPending
  <2>2. /\ batch \in Seq(Letters)
        /\ \A i \in 1..Len(batch) : Filed(batch[i])
    BY <2>1, BatchFits
  <2> DEFINE r == [step |-> "add", batch |-> batch]
  <2>3. RunFits(r)'
    BY <1>1, <2>1, <2>2 DEF RunFits, ScriptRun, Filed, vars
  <2> HIDE DEF r
  <2>4. script' = [script EXCEPT ![o] = r]
    BY <2>1 DEF r
  <2> QED
    BY <1>1, <2>3, <2>4, QuietKeeps
<1> QED
  BY <1>2, <1>3

LEMMA AddKeeps ==
  ASSUME EventWorkerAssumption, DlqReplayAssumption, ReplayIInv, NEW o \in Operator,
         AddReplay(o)
  PROVE  ReplayIInv'
<1>0. PICK k : k = KeyOfNext(o)
  OBVIOUS
<1>1. PICK reply \in WriteReplies :
        /\ IF Applied(reply)
           THEN \E j \in ReplayJob : JobKey[j] = k /\ Enqueue(j)
           ELSE UNCHANGED vars
        /\ script' = [script EXCEPT
                        ![o] = IF reply = "ok" THEN [@ EXCEPT !.step = "mark"] ELSE Off]
  BY <1>0 DEF AddReplay
<1>2. /\ [Next]_vars /\ review' = review /\ script[o].step = "add"
      /\ TypeOK /\ BuriedOnce /\ deadLetters' = deadLetters
      /\ script \in [Operator -> ScriptRun]
  BY <1>1, AddReplaySteps DEF AddReplay, Enqueue, vars, ReplayIInv, ReplayTypeOK, IInv
<1>3. PICK old : old = script[o]
  OBVIOUS
<1>4. /\ old \in ScriptRun /\ old.step = "add" /\ old.batch # <<>>
      /\ RunFits(old) /\ RunFits(old)' /\ k = Head(old.batch)[1]
  BY <1>0, <1>2, <1>3, RunsFit, FitKept DEF RunFits, KeyOfNext
<1>5. /\ Head(old.batch) = old.batch[1] /\ 1 \in 1..Len(old.batch)
      /\ old.batch[1] \in Letters
  BY <1>4 DEF ScriptRun
<1>l. PICK letter : letter = Head(old.batch)
  OBVIOUS
<1>k. letter[1] = k /\ letter \in Letters /\ Filed(letter)
  BY <1>4, <1>5, <1>l DEF RunFits
<1>6. k \in Key /\ Len(deadLetters[k]) = 1
  <2>1. letter[1] \in Key /\ letter[2] >= 1 /\ letter[2] \in Nat
    BY <1>k, FiniteLetters DEF Letters
  <2>2. letter[2] <= Len(deadLetters[k])
    BY <1>k DEF Filed
  <2>3. Len(deadLetters[k]) <= 1 /\ Len(deadLetters[k]) \in Nat
    BY <1>2, <1>k, <2>1 DEF BuriedOnce, TypeOK
  <2>4. PICK place, length : place = letter[2] /\ length = Len(deadLetters[k])
    OBVIOUS
  <2>5. place \in Nat /\ length \in Nat /\ place >= 1 /\ place <= length /\ length <= 1
    BY <2>1, <2>2, <2>3, <2>4
  <2>6. length = 1
    BY <2>5
  <2> QED
    BY <1>k, <2>1, <2>4, <2>6
<1>7. \A i \in Key : Added(i) = {} => Added(i)' = {} \/ i = k
  BY <1>1, <1>2 DEF Added, Enqueue, DlqReplayAssumption, TypeOK, vars
<1>8. Applied(reply) => Added(k)' # {}
  <2>1. ASSUME NEW j \in ReplayJob, JobKey[j] = k, Enqueue(j) PROVE Added(k)' # {}
    <3>1. queue'[j].state = "wait"
      BY <1>2, <2>1 DEF Enqueue, DlqReplayAssumption, TypeOK, JobEntry
    <3> QED
      BY <1>k, <2>1, <3>1 DEF Added
  <2> QED
    BY <1>1, <2>1
<1>9. /\ script' \in [Operator -> ScriptRun]
      /\ \A p \in Operator : RunFits(script[p])'
  <2>1. CASE reply = "ok"
    <3> DEFINE r == [old EXCEPT !.step = "mark"]
    <3>1. script' = [script EXCEPT ![o] = r]
      BY <1>1, <1>2, <1>3, <2>1
    <3>2. /\ r \in ScriptRun /\ r.step = "mark" /\ r.batch = old.batch
      BY <1>4 DEF ScriptRun
    <3> HIDE DEF r
    <3>3. Head(r.batch)[1] = letter[1] /\ Added(letter[1])' # {}
      BY <1>8, <1>l, <1>k, <2>1, <3>2 DEF Applied
    <3>4. RunFits(r)'
      BY <1>4, <1>l, <3>2, <3>3 DEF RunFits
    <3> QED
      BY <1>2, <3>1, <3>4, ScriptStep
  <2>2. CASE reply # "ok"
    <3>1. script' = [script EXCEPT ![o] = Off]
      BY <1>1, <2>2
    <3> QED
      BY <1>2, <3>1, OffFits, ScriptStep
  <2> QED
    BY <2>1, <2>2
<1>10. /\ review' \in [Key -> Seq(ReviewStatus)]
       /\ \A i \in Key : Len(review'[i]) = Len(deadLetters'[i])
  BY <1>2 DEF ReplayIInv, ReplayTypeOK
<1>11. \A i \in Key : Marked(i)' # {} => Added(i)' # {}
  BY <1>2, MarkedFacts, Kept
<1> QED
  BY <1>2, <1>6, <1>7, <1>9, <1>10, <1>11, Together

LEMMA MarkKeeps ==
  ASSUME EventWorkerAssumption, DlqReplayAssumption, ReplayIInv, NEW o \in Operator,
         MarkReplayed(o)
  PROVE  ReplayIInv'
<1>0. PICK k, place : k = KeyOfNext(o) /\ place = PlaceOfNext(o)
  OBVIOUS
<1>1. PICK reply \in WriteReplies :
        /\ review' = IF Applied(reply) THEN [review EXCEPT ![k][place] = "replayed"] ELSE review
        /\ script' = [script EXCEPT ![o] = IF reply = "ok" THEN Rest(@.batch) ELSE Off]
  BY <1>0 DEF MarkReplayed
<1>2. /\ [Next]_vars /\ queue' = queue /\ deadLetters' = deadLetters
      /\ script[o].step = "mark"
      /\ review \in [Key -> Seq(ReviewStatus)]
      /\ \A i \in Key : Len(review[i]) = Len(deadLetters[i])
      /\ script \in [Operator -> ScriptRun]
  BY DEF MarkReplayed, vars, ReplayIInv, ReplayTypeOK
<1>3. PICK old : old = script[o]
  OBVIOUS
<1>4. /\ old \in ScriptRun /\ old.step = "mark" /\ old.batch # <<>>
      /\ RunFits(old) /\ RunFits(old)' /\ Added(k) # {}
  BY <1>0, <1>2, <1>3, RunsFit, FitKept DEF RunFits, KeyOfNext
<1>5. old.batch \in Seq(Letters) /\ Len(old.batch) \in Nat \ {0}
  BY <1>4, EmptySeq DEF ScriptRun
<1>6. /\ script' \in [Operator -> ScriptRun]
      /\ \A p \in Operator : RunFits(script[p])'
  <2>1. CASE script' = [script EXCEPT ![o] = Off]
    BY <1>2, <2>1, OffFits, ScriptStep
  <2>2. CASE script' # [script EXCEPT ![o] = Off]
    <3> DEFINE r == [step |-> "add", batch |-> Tail(old.batch)]
    <3>1. script' = [script EXCEPT ![o] = r] /\ Len(old.batch) # 1
      BY <1>1, <1>2, <1>3, <2>2 DEF Rest
    <3>2. /\ Tail(old.batch) \in Seq(Letters) /\ Tail(old.batch) # <<>>
          /\ \A i \in 1..Len(Tail(old.batch)) :
               i + 1 \in 1..Len(old.batch) /\ Tail(old.batch)[i] = old.batch[i + 1]
      <4>1. Len(Tail(old.batch)) = Len(old.batch) - 1 /\ Tail(old.batch) \in Seq(Letters)
        BY <1>5
      <4>2. Tail(old.batch) # <<>>
        <5>1. Len(Tail(old.batch)) # 0
          BY <1>5, <3>1, <4>1
        <5> QED
          BY <5>1, EmptySeq
      <4>3. \A i \in 1..Len(old.batch) - 1 : Tail(old.batch)[i] = old.batch[i + 1]
        BY <1>5
      <4> QED
        BY <1>5, <4>1, <4>2, <4>3
    <3>3. RunFits(r)'
      BY <1>4, <3>2 DEF RunFits, ScriptRun
    <3> HIDE DEF r
    <3> QED
      BY <1>2, <3>1, <3>3, ScriptStep
  <2> QED
    BY <2>1, <2>2
<1>7. ASSUME NEW i \in Key
      PROVE  /\ review'[i] \in Seq(ReviewStatus) /\ Len(review'[i]) = Len(deadLetters'[i])
             /\ review'[i] = review[i] \/ i = k
  <2>1. CASE review'[i] = review[i]
    BY <1>2, <2>1
  <2>2. CASE review'[i] # review[i]
    <3>1. i = k /\ review'[i] = [review[i] EXCEPT ![place] = "replayed"]
      BY <1>1, <1>2, <2>2
    <3>2. review[i] \in Seq(ReviewStatus) /\ "replayed" \in ReviewStatus
      BY <1>2 DEF ReviewStatus
    <3>3. /\ [review[i] EXCEPT ![place] = "replayed"] \in Seq(ReviewStatus)
          /\ Len([review[i] EXCEPT ![place] = "replayed"]) = Len(review[i])
      <4> DEFINE list == review[i]
                 marked == [list EXCEPT ![place] = "replayed"]
      <4>1. PICK n \in Nat : list \in [1..n -> ReviewStatus] /\ Len(list) = n
        BY <3>2
      <4>2. marked \in [1..n -> ReviewStatus]
        BY <3>2, <4>1
      <4> HIDE DEF marked
      <4>3. marked \in Seq(ReviewStatus) /\ Len(marked) = n
        BY <4>2
      <4> QED
        BY <4>1, <4>3 DEF marked
    <3> QED
      BY <1>2, <3>1, <3>3
  <2> QED
    BY <2>1, <2>2
<1>8. review' \in [Key -> Seq(ReviewStatus)]
  <2>1. review' = [i \in Key |-> review'[i]]
    BY <1>1, <1>2
  <2> QED
    BY <1>7, <2>1
<1>9. \A i \in Key : Added(i)' = Added(i)
  BY <1>2 DEF Added
<1>10. \A i \in Key : Marked(i)' # {} => Added(i)' # {}
  BY <1>4, <1>7, <1>9, MarkedFacts
<1> QED
  BY <1>2, <1>6, <1>7, <1>8, <1>9, <1>10, Together

LEMMA ReplayNextKeeps ==
  ASSUME EventWorkerAssumption, DlqReplayAssumption, ReplayIInv, [ReplayNext]_replayVars
  PROVE  ReplayIInv'
<1>1. CASE UNCHANGED replayVars
  <2>1. PICK r : r = script
    OBVIOUS
  <2>2. IInv'
    BY <1>1, NextKeepsIInv DEF ReplayIInv, replayVars
  <2>3. deadLetters' = deadLetters /\ queue' = queue /\ review' = review /\ script' = script
    BY <1>1 DEF replayVars, vars
  <2>4. \A k \in Key : Added(k)' = Added(k) /\ Marked(k)' = Marked(k)
    BY <2>3 DEF Added, Marked
  <2>5. \A o \in Operator : ScriptOK(o)'
    BY <2>3 DEF ReplayIInv, ScriptOK, Added, Filed, KeyOfNext
  <2> QED
    BY <2>2, <2>3, <2>4, <2>5 DEF ReplayIInv, ReplayTypeOK, MarkedWasQueued
<1>2. ASSUME NEW o \in Operator, StartScript(o) \/ RunScript(o) \/ ScriptDies(o)
      PROVE  ReplayIInv'
  BY <1>2, StartKeeps, FindKeeps, AddKeeps, MarkKeeps DEF RunScript
<1> QED
  BY <1>1, <1>2, WorkersKeep DEF ReplayNext

-----------------------------------------------------------------------------
(* Theorems *)

\* The inductive invariant of the workers and the scripts together.
THEOREM ReplayInvariance == ReplaySpec => []ReplayIInv
<1>1. ReplayInit => ReplayIInv
  BY EventWorkerAssumption, InitReplayIInv
<1>2. ReplayIInv /\ [ReplayNext]_replayVars => ReplayIInv'
  BY EventWorkerAssumption, DlqReplayAssumption, ReplayNextKeeps
<1> QED
  BY <1>1, <1>2, PTL DEF ReplaySpec

\* A review status belongs to a document, and a script at a record has one.
THEOREM ReplayTypeCorrectness == ReplaySpec => []ReplayTypeOK
BY ReplayInvariance, PTL DEF ReplayIInv

\* No number of operators, batches, refused calls and interrupted scripts takes
\* a dead letter out of the pending ones without a job for it.
THEOREM ReplayMarking == ReplaySpec => []MarkedWasQueued
BY ReplayInvariance, PTL DEF ReplayIInv

\* A replay leaves the ledger and the dead letters of its event alone for good.
THEOREM ReplayIdempotence == ReplaySpec => ReplayLeavesLedger
<1>1. /\ ReplayIInv /\ [ReplayNext]_replayVars
      => [\A k \in Key :
            Added(k) # {} => ledger'[k] = ledger[k] /\ deadLetters'[k] = deadLetters[k]]_replayVars
  BY EventWorkerAssumption, DlqReplayAssumption, ReplayStepsAreWorkerSteps, BuriedStays
     DEF ReplayIInv
<1> QED
  BY <1>1, ReplayInvariance, PTL DEF ReplaySpec, ReplayLeavesLedger

\* With the script beside them the workers still implement EventLedger.
THEOREM ReplayRefinement == ReplaySpec => ImplementsLedger
BY Composition, Refinement

=============================================================================
