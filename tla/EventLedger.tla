---------------------------- MODULE EventLedger ----------------------------
(***************************************************************************)
(* What the worker promises about one event, seen from outside: the status *)
(* and attempt count of its record in processed_events, and how many       *)
(* dead-letter documents and messages there are for it. There are no jobs, *)
(* slots or calls here, and every event changes on its own.                *)
(***************************************************************************)
EXTENDS Naturals

CONSTANTS
  Key,          \* events, by idempotency key
  MaxAttempts,  \* the number of attempts an event gets
  MaxMessages,  \* how often its burial may be announced
  LostReplies   \* whether the store may apply a write and report an error

VARIABLES status, attempts, letters, messages

vars == <<status, attempts, letters, messages>>

Init ==
  /\ status = [k \in Key |-> "none"]
  /\ attempts = [k \in Key |-> 0]
  /\ letters = [k \in Key |-> 0]
  /\ messages = [k \in Key |-> 0]

Becomes(k, from, to) ==
  /\ status[k] \in from
  /\ status' = [status EXCEPT ![k] = to]

\* What an attempt can be in when it ends: its lock is still on the record, or
\* its own success is there already and it does not know.
Ending == {"processing"} \cup IF LostReplies THEN {"processed"} ELSE {}

Receive(k) ==
  Becomes(k, {"none"}, "received") /\ UNCHANGED <<attempts, letters, messages>>

Begin(k) ==
  /\ Becomes(k, {"received", "failed"}, "processing")
  /\ attempts[k] < MaxAttempts
  /\ attempts' = [attempts EXCEPT ![k] = @ + 1]
  /\ UNCHANGED <<letters, messages>>

Succeed(k) ==
  Becomes(k, {"processing"}, "processed") /\ UNCHANGED <<attempts, letters, messages>>

\* The attempt failed and another one is left.
Fail(k) ==
  /\ Becomes(k, Ending, "failed")
  /\ attempts[k] < MaxAttempts
  /\ UNCHANGED <<attempts, letters, messages>>

Bury(k) ==
  Becomes(k, Ending, "dead_lettered") /\ UNCHANGED <<attempts, letters, messages>>

\* A buried event gets one document, and then its message.
Document(k) ==
  /\ status[k] = "dead_lettered"
  /\ letters[k] = 0
  /\ letters' = [letters EXCEPT ![k] = 1]
  /\ UNCHANGED <<status, attempts, messages>>

Announce(k) ==
  /\ letters[k] = 1
  /\ messages[k] < MaxMessages
  /\ messages' = [messages EXCEPT ![k] = @ + 1]
  /\ UNCHANGED <<status, attempts, letters>>

Next ==
  \E k \in Key :
    \/ Receive(k) \/ Begin(k) \/ Succeed(k) \/ Fail(k)
    \/ Bury(k) \/ Document(k) \/ Announce(k)

Spec == Init /\ [][Next]_vars

=============================================================================
