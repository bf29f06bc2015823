---------------------------- MODULE EventPromise ----------------------------
(***************************************************************************)
(* What the gateway promises the couriers, event by event: no event is      *)
(* acknowledged before it is submitted for processing, what is submitted    *)
(* ends processed or announced as a dead letter, and an outcome is final.   *)
(* Requests, records, queues, retries and processes are all hidden.         *)
(***************************************************************************)
CONSTANT Key  \* idempotency keys of the events

VARIABLES
  stage,        \* how far each event is
  acknowledged  \* the events some courier was told are accepted

vars == <<stage, acknowledged>>

Outcomes == {"processed", "dead_lettered"}

Init ==
  /\ stage = [k \in Key |-> "unknown"]
  /\ acknowledged = {}

\* Events are submitted, and the courier of some that are is told so. (Several
\* may be submitted at once: when the connection to the queue is lost under
\* their requests.)
Submit(keys) ==
  /\ \A k \in keys : stage[k] = "unknown"
  /\ stage' = [k \in Key |-> IF k \in keys THEN "submitted" ELSE stage[k]]
  /\ acknowledged' = acknowledged \/ \E k \in keys : acknowledged' = acknowledged \cup {k}

Acknowledge(k) ==
  /\ stage[k] # "unknown"
  /\ acknowledged' = acknowledged \cup {k}
  /\ UNCHANGED stage

Resolve(k) ==
  /\ stage[k] = "submitted"
  /\ \E outcome \in Outcomes : stage' = [stage EXCEPT ![k] = outcome]
  /\ UNCHANGED acknowledged

Next ==
  \/ \E keys \in SUBSET Key : Submit(keys)
  \/ \E k \in Key : Acknowledge(k) \/ Resolve(k)

Safety == Init /\ [][Next]_vars

\* What is submitted is resolved.
Progress == \A k \in Key : stage[k] = "submitted" ~> stage[k] \in Outcomes

Spec == Safety /\ Progress

=============================================================================
