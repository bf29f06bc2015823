-------------------------- MODULE EventCollection --------------------------
(***************************************************************************)
(* The collection processed_events as documents, not as one record per key. *)
(* That an idempotency key has one record is up to an index, which          *)
(* scripts/db/init-indexes.ts creates, or fails to create, whenever an      *)
(* operator runs it. EventWorker takes the index for granted; this module   *)
(* shows what the index is worth, and what goes on without it.              *)
(*                                                                          *)
(* A client is one execution of processEvent, seen as its calls of the      *)
(* repository. The gate before them is left out: it only spares calls.      *)
(***************************************************************************)
EXTENDS Integers, FiniteSets

CONSTANTS
  Key,          \* idempotency keys
  Client,       \* concurrent executions of processEvent
  Id,           \* bound: the documents that may be inserted, by _id
  MaxAttempts,  \* RETRY_MAX_ATTEMPTS
  Retention,    \* the 30 days of expiresAt
  MaxTime,      \* bound: the clock stops there
  None          \* no key

ASSUME CollectionAssumption ==
  /\ None \notin Key
  /\ MaxAttempts \in Nat \ {0}
  /\ {Retention, MaxTime} \subseteq Nat

VARIABLES
  now,      \* MongoDB's clock, in days
  docs,     \* the documents, by _id
  indexes,  \* the indexes of the collection
  script,   \* how many indexes a run of the script has left to create
  client    \* what each execution is at

vars == <<now, docs, indexes, script, client>>

-----------------------------------------------------------------------------
Statuses == {"received", "processing", "processed", "failed", "dead_lettered"}
Closed == {"processed", "dead_lettered"}

NoExpiry == [type |-> "missing", day |-> 0]

Absent == [key |-> None, status |-> "none", attempts |-> 0, expiresAt |-> NoExpiry]

Expiry == [type : {"missing", "string", "date"}, day : 0..MaxTime + Retention]

Document == [key : Key, status : Statuses, attempts : Nat, expiresAt : Expiry]

\* The indexes the script creates on the collection, the last one first.
IndexName == <<"ttl_expiresAt", "ix_status_updatedAt", "ux_idempotency_key">>

IdleClient == [step |-> "idle", key |-> None, attempt |-> 0]

\* An execution that has its lock is inside its try block, or was thrown out of it.
Working == {"work", "catch"}

BusyClient == [step : {"insert", "lock"} \cup Working, key : Key, attempt : Nat]

ClientState == BusyClient \cup {IdleClient}

\* The type of each variable.
TypeOK ==
  /\ now \in 0..MaxTime
  /\ docs \in [Id -> Document \cup {Absent}]
  /\ indexes \subseteq {IndexName[i] : i \in 1..3}
  /\ script \in 0..3
  /\ client \in [Client -> ClientState]

Init ==
  /\ now = 0
  /\ docs = [i \in Id |-> Absent]
  /\ indexes = {}
  /\ script = 0
  /\ client = [c \in Client |-> IdleClient]

DocsOf(k) == {i \in Id : docs[i].key = k}

Unique(k) == \A i, j \in DocsOf(k) : i = j

-----------------------------------------------------------------------------
(* scripts/db/init-indexes.ts *)

StartScript ==
  /\ script = 0 /\ script' = 3
  /\ UNCHANGED <<now, docs, indexes, client>>

\* Mutant: a unique index over documents that are there already.
Creatable_Always(name) == TRUE

\* MongoDB refuses a unique index over documents that violate it.
Creatable(name) == name = "ux_idempotency_key" => \A k \in Key : Unique(k)

\* await createIndex: an error is logged, the script goes on, and exits with 0.
CreateIndex ==
  /\ script > 0 /\ script' = script - 1
  /\ \/ Creatable(IndexName[script]) /\ indexes' = indexes \cup {IndexName[script]}
     \/ UNCHANGED indexes
  /\ UNCHANGED <<now, docs, client>>

-----------------------------------------------------------------------------
(* The repository: its updates look for a document, and write to one *)

GoTo(c, step) == client' = [client EXCEPT ![c].step = step]
Leave(c) == client' = [client EXCEPT ![c] = IdleClient]

\* markReceived, the search of the upsert.
MarkReceived(c, k) ==
  /\ client[c].step = "idle"
  /\ client' = [client EXCEPT ![c] =
       [step |-> IF DocsOf(k) = {} THEN "insert" ELSE "lock", key |-> k, attempt |-> 0]]
  /\ UNCHANGED <<now, docs, indexes, script>>

Refused(k) == "ux_idempotency_key" \in indexes /\ DocsOf(k) # {}

\* And its insert, if nothing was found. When the unique index refuses the
\* document MongoDB searches again, and $setOnInsert has nothing to do.
InsertReceived(c) ==
  LET k == client[c].key
  IN  /\ client[c].step = "insert"
      /\ GoTo(c, "lock")
      /\ \/ Refused(k) /\ UNCHANGED docs
         \/ /\ ~Refused(k)
            /\ \E i \in Id :
                 /\ docs[i] = Absent
                 /\ docs' = [docs EXCEPT ![i] =
                      [key |-> k, status |-> "received", attempts |-> 0, expiresAt |-> NoExpiry]]
      /\ UNCHANGED <<now, indexes, script>>

Lockable == {"received", "failed"}

\* markProcessing: one of the documents that match, or null.
MarkProcessing(c) ==
  LET open == {i \in DocsOf(client[c].key) : docs[i].status \in Lockable}
  IN  /\ client[c].step = "lock"
      /\ \/ open = {} /\ Leave(c) /\ UNCHANGED docs
         \/ \E i \in open :
              /\ docs' = [docs EXCEPT ![i].status = "processing", ![i].attempts = @ + 1]
              /\ client' = [client EXCEPT ![c].step = "work",
                                          ![c].attempt = docs[i].attempts + 1]
      /\ UNCHANGED <<now, indexes, script>>

\* Mutant: a date, as a TTL index needs.
TerminalExpiry_Date == [type |-> "date", day |-> now + Retention]

\* terminalExpiry: toISOString makes a string.
TerminalExpiry == [type |-> "string", day |-> now + Retention]

\* markProcessed, markFailed or markDeadLettered: one of the documents of the
\* key, whichever it is, gets the outcome of the attempt. When markProcessed takes
\* effect and throws all the same, the catch block writes a second outcome.
Finish(c) ==
  /\ client[c].step \in Working
  /\ \E i \in DocsOf(client[c].key) :
       \E status \in Closed \cup {"failed"} :
         /\ status = "processed" => client[c].step = "work"
         /\ status = "failed" => client[c].attempt < MaxAttempts
         /\ docs' = [docs EXCEPT ![i].status = status,
                                 ![i].expiresAt = IF status \in Closed THEN TerminalExpiry ELSE @]
         /\ Leave(c) \/ (status = "processed" /\ GoTo(c, "catch"))
  /\ UNCHANGED <<now, indexes, script>>

\* The worker dies; its calls end where they are.
Crash(c) ==
  /\ client[c].step # "idle"
  /\ Leave(c)
  /\ UNCHANGED <<now, docs, indexes, script>>

-----------------------------------------------------------------------------
(* MongoDB's TTL monitor: it removes a document whose expiresAt is a date that *)
(* has passed, and passes over every other value.                             *)

Expired(doc) ==
  /\ "ttl_expiresAt" \in indexes
  /\ doc.expiresAt.type = "date"
  /\ doc.expiresAt.day < now'

NextDay ==
  /\ now < MaxTime /\ now' = now + 1
  /\ docs' = [i \in Id |-> IF Expired(docs[i]) THEN Absent ELSE docs[i]]
  /\ UNCHANGED <<indexes, script, client>>

-----------------------------------------------------------------------------
Next ==
  \/ StartScript \/ CreateIndex
  \/ \E c \in Client :
       \/ \E k \in Key : MarkReceived(c, k)
       \/ InsertReceived(c) \/ MarkProcessing(c) \/ Finish(c) \/ Crash(c)
  \/ NextDay

Spec == Init /\ [][Next]_vars

-----------------------------------------------------------------------------
(* Properties *)

Indexed == "ux_idempotency_key" \in indexes

Holders(k) == {c \in Client : client[c].step \in Working /\ client[c].key = k}

\* Where the unique index is, whenever the script created it and however many
\* workers were busy then, a key has one document and one execution works on it:
\* an index that came too late is refused, and never covers a double lock.
IndexMeansOneLock ==
  Indexed => \A k \in Key : Unique(k) /\ \A b, c \in Holders(k) : b = c

StatusOf(k) == IF DocsOf(k) = {} THEN "none" ELSE docs[CHOOSE i \in DocsOf(k) : TRUE].status
AttemptsOf(k) == IF DocsOf(k) = {} THEN 0 ELSE docs[CHOOSE i \in DocsOf(k) : TRUE].attempts

Ledger == INSTANCE EventLedger WITH
  LostReplies <- TRUE, MaxMessages <- 1,
  status <- [k \in Key |-> StatusOf(k)], attempts <- [k \in Key |-> AttemptsOf(k)],
  letters <- [k \in Key |-> 0], messages <- [k \in Key |-> 0]

\* With the index every step is one of the lifecycle that EventWorker implements
\* for its one record per key, or none; without it, two documents of a key and
\* writes that take either of them leave the lifecycle. So would a document that
\* expired: its event could be received once more.
IndexedFollowsLedger == [][Indexed => Ledger!Next]_Ledger!vars

-----------------------------------------------------------------------------
(* The inductive invariant *)

\* As long as a key has one document, an attempt is left when it may be locked, and
\* its holder is the only one and finds it as it left it. Nothing is known of a
\* key that has two, and as no document is ever removed it will have two for ever.
KeyOK(k) ==
  Unique(k) =>
    /\ \A i \in DocsOf(k) : docs[i].status \in Lockable => docs[i].attempts < MaxAttempts
    /\ \A b, c \in Holders(k) : b = c
    /\ \A c \in Holders(k) :
         \E i \in DocsOf(k) :
           /\ docs[i].status = IF client[c].step = "work" THEN "processing" ELSE "processed"
           /\ docs[i].attempts = client[c].attempt

IInv ==
  /\ TypeOK
  /\ \A i \in Id : docs[i].expiresAt.type # "date"
  /\ \A k \in Key : KeyOK(k)
  /\ Indexed => \A k \in Key : Unique(k)

=============================================================================
