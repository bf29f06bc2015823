----------------------------- MODULE DlqReplay -----------------------------
(***************************************************************************)
(* scripts/dlq/replay-dlq.ts run beside the workers: it reads the pending   *)
(* dead letters, adds a job to courier-events-main for each, and marks each *)
(* as replayed. The workers are those of EventWorker; the script adds its   *)
(* jobs with the same queue.add as the API, and the review status of a dead *)
(* letter is one more field of its document.                                *)
(***************************************************************************)
EXTENDS EventWorker, FiniteSets

CONSTANTS
  Operator,   \* terminals from which the script is run
  ReplayJob,  \* the jobs the script may add (bound: as many as there are)
  Limit       \* the script's --limit

ASSUME DlqReplayAssumption ==
  /\ IsFiniteSet(Key) /\ IsFiniteSet(Job)
  /\ ReplayJob \subseteq Job
  /\ Limit \in Nat \ {0}

VARIABLES
  review,  \* reviewStatus of the documents in deadLetters
  script   \* the await each run of the script is at, and the records it has left

replayVars == <<vars, review, script>>

-----------------------------------------------------------------------------
ReviewStatus == {"pending", "replayed"}

\* A document of dead_letter_events: the event's key, and its place.
Letters == Key \X (1..Cardinality(Job))

Filed(letter) == letter[2] <= Len(deadLetters[letter[1]])

Off == [step |-> "off", batch |-> <<>>]

ScriptRun == [step : {"off", "find", "add", "mark"}, batch : Seq(Letters)]

\* Every document has a status, and a script that is at a record has one.
ReplayTypeOK ==
  /\ review \in [Key -> Seq(ReviewStatus)]
  /\ \A k \in Key : Len(review[k]) = Len(deadLetters[k])
  /\ script \in [Operator -> ScriptRun]
  /\ \A o \in Operator : script[o].step \in {"add", "mark"} <=> script[o].batch # <<>>

ReplayInit ==
  /\ Init
  /\ review = [k \in Key |-> <<>>]
  /\ script = [o \in Operator |-> Off]

\* persistDeadLetter files its documents as pending.
WorkersStep ==
  /\ Next
  /\ \A j \in ReplayJob : queue[j].state = "unborn" => queue'[j].state = "unborn"
  /\ review' = [k \in Key |-> IF Len(deadLetters'[k]) > Len(review[k])
                              THEN Append(review[k], "pending") ELSE review[k]]
  /\ UNCHANGED script

-----------------------------------------------------------------------------
(* The script *)

StartScript(o) ==
  /\ script[o] = Off
  /\ script' = [script EXCEPT ![o].step = "find"]
  /\ UNCHANGED <<vars, review>>

Pending == {letter \in Letters : Filed(letter) /\ review[letter[1]][letter[2]] = "pending"}

\* What find().sort().limit() may return. createdAt is the clock of the worker
\* that filed the document, so the order of the records is left open.
Batches ==
  LET size == IF Cardinality(Pending) < Limit THEN Cardinality(Pending) ELSE Limit
  IN  {batch \in [1..size -> Pending] :
         \A m, n \in 1..size : batch[m] = batch[n] => m = n}

\* await find; nothing to replay ends the script.
FindPending(o) ==
  /\ script[o].step = "find"
  /\ \E reply \in ReadReplies :
       IF reply = "ok"
       THEN \E batch \in Batches :
              script' = [script EXCEPT ![o] =
                           IF batch = <<>> THEN Off ELSE [step |-> "add", batch |-> batch]]
       ELSE script' = [script EXCEPT ![o] = Off]
  /\ UNCHANGED <<vars, review>>

KeyOfNext(o) == Head(script[o].batch)[1]
PlaceOfNext(o) == Head(script[o].batch)[2]

\* Mutant: an add that fails is logged, and the script goes on.
AddReplay_Swallowed(o) ==
  /\ script[o].step = "add"
  /\ \E reply \in WriteReplies :
       /\ IF Applied(reply)
          THEN \E j \in ReplayJob : JobKey[j] = KeyOfNext(o) /\ Enqueue(j)
          ELSE UNCHANGED vars
       /\ script' = [script EXCEPT ![o].step = "mark"]
  /\ UNCHANGED review

\* await mainQueue.add; an error ends the script, with the job added or not.
AddReplay(o) ==
  /\ script[o].step = "add"
  /\ \E reply \in WriteReplies :
       /\ IF Applied(reply)
          THEN \E j \in ReplayJob : JobKey[j] = KeyOfNext(o) /\ Enqueue(j)
          ELSE UNCHANGED vars
       /\ script' = [script EXCEPT ![o] = IF reply = "ok" THEN [@ EXCEPT !.step = "mark"] ELSE Off]
  /\ UNCHANGED review

\* The record after this one, or the end.
Rest(batch) == IF Len(batch) = 1 THEN Off ELSE [step |-> "add", batch |-> Tail(batch)]

\* await updateOne, whatever the status is by now
MarkReplayed(o) ==
  /\ script[o].step = "mark"
  /\ \E reply \in WriteReplies :
       /\ review' = IF Applied(reply)
                    THEN [review EXCEPT ![KeyOfNext(o)][PlaceOfNext(o)] = "replayed"]
                    ELSE review
       /\ script' = [script EXCEPT ![o] = IF reply = "ok" THEN Rest(@.batch) ELSE Off]
  /\ UNCHANGED vars

\* The operator stops the script, or its host dies.
ScriptDies(o) ==
  /\ script[o] # Off
  /\ script' = [script EXCEPT ![o] = Off]
  /\ UNCHANGED <<vars, review>>

RunScript(o) == FindPending(o) \/ AddReplay(o) \/ MarkReplayed(o)

ReplayNext ==
  \/ WorkersStep
  \/ \E o \in Operator : StartScript(o) \/ RunScript(o) \/ ScriptDies(o)

ReplaySpec == ReplayInit /\ [][ReplayNext]_replayVars

\* The workers are as fair as EventWorker says; a script that was started goes
\* on as its calls answer. Nobody has to start one.
FairReplaySpec ==
  /\ ReplaySpec
  /\ Fairness
  /\ \A o \in Operator : WF_replayVars(RunScript(o))

-----------------------------------------------------------------------------
(* Properties *)

Added(k) == {j \in ReplayJob : JobKey[j] = k /\ queue[j].state # "unborn"}

Marked(k) == {i \in 1..Len(review[k]) : review[k][i] = "replayed"}

\* No dead letter leaves the pending ones unless a job for it is in the queue:
\* a script that fails between its two calls repeats a replay, never loses one.
MarkedWasQueued ==
  \A k \in Key : Marked(k) # {} => Added(k) # {}

\* Once an event is being replayed neither the replay nor a delivery that is
\* still at work reopens what the ledger closed, or buries it again.
ReplayLeavesLedger ==
  [][\A k \in Key :
       Added(k) # {} => ledger'[k] = ledger[k] /\ deadLetters'[k] = deadLetters[k]]_replayVars

-----------------------------------------------------------------------------
(* The inductive invariant *)

\* The records a script has left are still filed, and the one whose status it
\* is about to change has its job.
ScriptOK(o) ==
  /\ \A i \in 1..Len(script[o].batch) : Filed(script[o].batch[i])
  /\ script[o].step = "mark" => Added(KeyOfNext(o)) # {}

ReplayIInv ==
  /\ IInv
  /\ ReplayTypeOK
  /\ \A o \in Operator : ScriptOK(o)
  /\ \A k \in Key : Added(k) # {} => Len(deadLetters[k]) = 1
  /\ MarkedWasQueued

-----------------------------------------------------------------------------
(* A claim *)

\* docs/runbook.md:42, "pending -> replayed (and downstream processing
\* updates)": a dead letter that was replayed gets another attempt. Its job
\* finds the record dead_lettered, and the idempotency gate skips it.
ReplayIsProcessed ==
  \A k \in Key :
    Marked(k) # {} ~> \E i \in 1..Len(deadLetters[k]) :
                        ledger[k].attemptCount > deadLetters[k][i].attemptCount

=============================================================================
