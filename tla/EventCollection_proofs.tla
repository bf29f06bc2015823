----------------------- MODULE EventCollection_proofs -----------------------
(***************************************************************************)
(* Proofs about the collection, for every set of keys, executions and       *)
(* documents, attempt limit, retention and clock.                           *)
(*                                                                          *)
(* What is known of a key depends on its own documents and holders only:    *)
(* Undisturbed settles the keys that a step does not touch.                 *)
(***************************************************************************)
EXTENDS EventCollection, TLAPS

\* A step that leaves the documents of a key as they are, and gives it no
\* holder, keeps what is known of the key.
LEMMA Undisturbed ==
  ASSUME NEW k \in Key, KeyOK(k),
         \A i \in Id : docs[i].key = k \/ docs'[i].key = k => docs'[i] = docs[i],
         \A c \in Holders(k)' : c \in Holders(k) /\ client'[c] = client[c]
  PROVE  KeyOK(k)' /\ (Unique(k)' <=> Unique(k))
<1>1. DocsOf(k)' = DocsOf(k)
  BY DEF DocsOf
<1>2. \A i \in DocsOf(k) : docs'[i] = docs[i]
  BY DEF DocsOf
<1>3. Unique(k)' <=> Unique(k)
  BY <1>1 DEF Unique
<1> QED
  BY <1>1, <1>2, <1>3 DEF KeyOK

\* A document is of a key or absent, and no key is None.
LEMMA KeyOfDoc ==
  ASSUME CollectionAssumption, TypeOK, NEW i \in Id
  PROVE  /\ docs[i] = Absent \/ docs[i] \in Document
         /\ docs[i].key \in Key <=> docs[i] # Absent
  BY DEF CollectionAssumption, TypeOK, Document, Absent

\* The initial states: no document, no holder, no index.
LEMMA InitEstablishes == ASSUME CollectionAssumption, Init PROVE IInv
<1>1. TypeOK
  BY DEF CollectionAssumption, Init, TypeOK, ClientState, BusyClient, IdleClient
<1>2. \A k \in Key : KeyOK(k) /\ Unique(k)
  BY DEF CollectionAssumption, Init, KeyOK, Unique, DocsOf, Holders, IdleClient, Absent
<1>3. \A i \in Id : docs[i].expiresAt.type # "date"
  BY DEF Init, Absent, NoExpiry
<1> QED
  BY <1>1, <1>2, <1>3 DEF IInv

-----------------------------------------------------------------------------
(* The steps that write no document *)

\* The script, and the calls that leave the documents alone, give no key a holder.
LEMMA NoWriteKeeps ==
  ASSUME IInv, TypeOK', docs' = docs, indexes' = indexes,
         \A c \in Client : client'[c].step \in Working => client'[c] = client[c]
  PROVE  IInv'
<1>1. \A k \in Key : KeyOK(k)' /\ (Unique(k)' <=> Unique(k))
  <2> SUFFICES ASSUME NEW k \in Key PROVE KeyOK(k)' /\ (Unique(k)' <=> Unique(k))
    OBVIOUS
  <2>1. \A c \in Holders(k)' : c \in Holders(k) /\ client'[c] = client[c]
    BY DEF Holders
  <2> QED
    BY <2>1, Undisturbed DEF IInv
<1> QED
  BY <1>1 DEF IInv, Indexed

LEMMA CreateIndexKeeps == ASSUME CollectionAssumption, IInv, CreateIndex PROVE IInv'
<1>1. script - 1 \in 0..3 /\ script \in 1..3
  BY DEF CreateIndex, IInv, TypeOK
<1>2. TypeOK'
  BY <1>1 DEF CreateIndex, IInv, TypeOK
<1>3. \A k \in Key : (KeyOK(k)' <=> KeyOK(k)) /\ (Unique(k)' <=> Unique(k))
  BY DEF CreateIndex, KeyOK, Unique, DocsOf, Holders
<1>4. Indexed' => Indexed \/ (\A k \in Key : Unique(k))
  BY DEF CreateIndex, Indexed, Creatable
<1>5. Indexed' => \A k \in Key : Unique(k)
  BY <1>4 DEF IInv
<1> QED
  BY <1>2, <1>3, <1>5 DEF CreateIndex, IInv

LEMMA MarkReceivedKeeps ==
  ASSUME CollectionAssumption, IInv, NEW c \in Client, NEW k \in Key, MarkReceived(c, k)
  PROVE  IInv'
<1>1. TypeOK'
  BY DEF MarkReceived, IInv, TypeOK, ClientState, BusyClient, Working
<1>2. \A b \in Client : client'[b].step \in Working => client'[b] = client[b]
  BY DEF MarkReceived, IInv, TypeOK, Working
<1> QED
  BY <1>1, <1>2, NoWriteKeeps DEF MarkReceived

LEMMA CrashKeeps ==
  ASSUME CollectionAssumption, IInv, NEW c \in Client, Crash(c)
  PROVE  IInv'
<1>1. TypeOK'
  BY DEF Crash, Leave, IInv, TypeOK, ClientState
<1>2. \A b \in Client : client'[b].step \in Working => client'[b] = client[b]
  BY DEF Crash, Leave, IInv, TypeOK, IdleClient, Working
<1> QED
  BY <1>1, <1>2, NoWriteKeeps DEF Crash

LEMMA StartScriptKeeps == ASSUME CollectionAssumption, IInv, StartScript PROVE IInv'
<1>1. TypeOK'
  BY DEF StartScript, IInv, TypeOK
<1> QED
  BY <1>1, NoWriteKeeps DEF StartScript

\* A day passes, and the TTL monitor finds no date.
LEMMA NextDayWritesNothing == ASSUME IInv, NextDay PROVE docs' = docs
<1>1. \A i \in Id : ~Expired(docs[i])
  BY DEF IInv, Expired
<1>2. docs' = [i \in Id |-> docs[i]]
  BY <1>1 DEF NextDay
<1> QED
  BY <1>2 DEF IInv, TypeOK

LEMMA NextDayKeeps == ASSUME CollectionAssumption, IInv, NextDay PROVE IInv'
<1>1. docs' = docs
  BY NextDayWritesNothing
<1>2. now' \in 0..MaxTime
  BY DEF CollectionAssumption, NextDay, IInv, TypeOK
<1>3. TypeOK'
  BY <1>1, <1>2 DEF NextDay, IInv, TypeOK
<1> QED
  BY <1>1, <1>3, NoWriteKeeps DEF NextDay

-----------------------------------------------------------------------------
(* The steps that write a document *)

\* The first document of a key has no holder yet; a further one is inserted only
\* where the index is missing.
LEMMA InsertKeeps ==
  ASSUME CollectionAssumption, IInv, NEW c \in Client, InsertReceived(c)
  PROVE  IInv'
<1>0. client[c] \in ClientState /\ client[c].step = "insert" /\ client[c].key \in Key
  BY DEF InsertReceived, IInv, TypeOK, ClientState, BusyClient, IdleClient
<1>1. PICK k \in Key : k = client[c].key
  BY <1>0
<1>2. client' = [client EXCEPT ![c].step = "lock"]
  BY DEF InsertReceived, GoTo
<1>3. client'[c].step = "lock" /\ \A b \in Client \ {c} : client'[b] = client[b]
  BY <1>2 DEF IInv, TypeOK
<1>4. client' \in [Client -> ClientState]
  BY <1>0, <1>2 DEF IInv, TypeOK, ClientState, BusyClient, IdleClient, Working
<1>5. \A b \in Client : client'[b].step \in Working => client'[b] = client[b]
  BY <1>3 DEF Working
<1>6. CASE docs' = docs
  <2>1. TypeOK'
    BY <1>4, <1>6 DEF InsertReceived, IInv, TypeOK
  <2> QED
    BY <1>5, <1>6, <2>1, NoWriteKeeps DEF InsertReceived
<1>7. CASE docs' # docs
  <2> DEFINE received == [key |-> k, status |-> "received", attempts |-> 0, expiresAt |-> NoExpiry]
  <2>1. PICK i \in Id : docs[i] = Absent /\ docs' = [docs EXCEPT ![i] = received]
    BY <1>1, <1>7 DEF InsertReceived
  <2>2. ~Refused(k) /\ now' = now /\ indexes' = indexes /\ script' = script
    BY <1>1, <1>7 DEF InsertReceived
  <2>3. received \in Document
    BY <1>1 DEF CollectionAssumption, Document, Expiry, Statuses, NoExpiry, IInv, TypeOK
  <2>4. docs'[i] = received /\ \A j \in Id \ {i} : docs'[j] = docs[j]
    BY <2>1 DEF IInv, TypeOK
  <2>5. TypeOK'
    BY <1>4, <2>1, <2>2, <2>3 DEF IInv, TypeOK
  <2>7. ASSUME NEW key \in Key, key # k PROVE KeyOK(key)' /\ (Unique(key)' <=> Unique(key))
    <3>1. docs[i].key # key /\ docs'[i].key # key
      BY <2>1, <2>4, <2>7 DEF Absent, CollectionAssumption
    <3>2. \A j \in Id : docs[j].key = key \/ docs'[j].key = key => docs'[j] = docs[j]
      BY <3>1, <2>4
    <3>3. \A b \in Holders(key)' : b \in Holders(key) /\ client'[b] = client[b]
      BY <1>3, <1>5 DEF Holders
    <3> QED
      BY <3>2, <3>3, Undisturbed DEF IInv
  <2>8. CASE DocsOf(k) = {}
    <3>1. DocsOf(k)' = {i}
      BY <2>4, <2>8 DEF DocsOf
    <3>2. Holders(k) = {}
      BY <1>1, <2>8 DEF IInv, KeyOK, Unique
    <3>3. Holders(k)' = {}
      BY <1>3, <3>2 DEF Holders, Working
    <3>4. Unique(k)' /\ KeyOK(k)'
      BY <2>4, <3>1, <3>3 DEF Unique, KeyOK, CollectionAssumption
    <3>5. \A key \in Key : KeyOK(key)' /\ (Unique(key) => Unique(key)')
      BY <2>7, <3>4
    <3>6. \A j \in Id : docs'[j].expiresAt.type # "date"
      BY <2>4 DEF IInv, NoExpiry
    <3> QED
      BY <2>2, <2>5, <3>5, <3>6 DEF IInv, Indexed
  <2>9. CASE DocsOf(k) # {}
    <3>1. ~Indexed
      BY <2>2, <2>9 DEF Refused, Indexed
    <3>2. PICK j \in Id : docs[j].key = k
      BY <2>9 DEF DocsOf
    <3>3. j # i
      BY <1>1, <2>1, <3>2 DEF Absent, CollectionAssumption
    <3>4. ~Unique(k)'
      BY <2>4, <3>2, <3>3 DEF Unique, DocsOf
    <3>5. \A key \in Key : KeyOK(key)'
      BY <2>7, <3>4 DEF KeyOK
    <3>6. \A n \in Id : docs'[n].expiresAt.type # "date"
      BY <2>4 DEF IInv, NoExpiry
    <3> QED
      BY <2>2, <2>5, <3>1, <3>5, <3>6 DEF IInv, Indexed
  <2> QED
    BY <2>8, <2>9
<1> QED
  BY <1>6, <1>7

\* The updates of a document and of a client keep their types.
LEMMA LockedDocument ==
  ASSUME NEW i \in Id, docs[i] \in Document,
         docs'[i] = [docs[i] EXCEPT !.status = "processing", !.attempts = @ + 1]
  PROVE  /\ docs'[i] \in Document /\ docs'[i].status = "processing"
         /\ docs'[i].key = docs[i].key /\ docs'[i].expiresAt = docs[i].expiresAt
         /\ docs'[i].attempts = docs[i].attempts + 1
<1>1. docs[i].attempts + 1 \in Nat
  BY DEF Document
<1>2. PICK n \in Nat : n = docs[i].attempts + 1
  BY <1>1
<1>3. docs'[i] = [docs[i] EXCEPT !.status = "processing", !.attempts = n]
  BY <1>2
<1>4. "processing" \in Statuses
  BY DEF Statuses
<1> QED
  BY <1>2, <1>3, <1>4 DEF Document

LEMMA WorkingClient ==
  ASSUME NEW c \in Client, client[c] \in BusyClient, NEW n \in Nat,
         client'[c] = [client[c] EXCEPT !.step = "work", !.attempt = n]
  PROVE  /\ client'[c] \in BusyClient /\ client'[c].key = client[c].key /\ client'[c].attempt = n
         /\ client'[c].step = "work"
  BY DEF BusyClient, Working

\* A step that updates one document, whose key has new holders at most, has to
\* keep what is known of that key only.
LEMMA UpdateKeeps ==
  ASSUME CollectionAssumption, IInv, TypeOK', indexes' = indexes,
         NEW i \in Id, NEW k \in Key, docs[i].key = k, docs'[i].key = k,
         docs'[i].expiresAt.type # "date",
         \A j \in Id \ {i} : docs'[j] = docs[j],
         \A b \in Client : client'[b].step \in Working /\ client'[b].key # k => client'[b] = client[b],
         KeyOK(k)'
  PROVE  IInv'
<1>1. ASSUME NEW key \in Key, key # k PROVE KeyOK(key)' /\ (Unique(key)' <=> Unique(key))
  <2>1. \A j \in Id : docs[j].key = key \/ docs'[j].key = key => docs'[j] = docs[j]
    BY <1>1
  <2>2. \A b \in Holders(key)' : b \in Holders(key) /\ client'[b] = client[b]
    BY <1>1 DEF Holders
  <2> QED
    BY <2>1, <2>2, Undisturbed DEF IInv
<1>2. DocsOf(k)' = DocsOf(k)
  BY DEF DocsOf
<1>3. Unique(k)' <=> Unique(k)
  BY <1>2 DEF Unique
<1>4. \A j \in Id : docs'[j].expiresAt.type # "date"
  BY DEF IInv
<1> QED
  BY <1>1, <1>3, <1>4 DEF IInv, Indexed

\* A document that may be locked has no holder, if it is the only one.
LEMMA MarkProcessingKeeps ==
  ASSUME CollectionAssumption, IInv, NEW c \in Client, MarkProcessing(c)
  PROVE  IInv'
<1>0. client[c] \in ClientState /\ client[c].step = "lock" /\ client[c].key \in Key
  BY DEF MarkProcessing, IInv, TypeOK, ClientState, BusyClient, IdleClient
<1>1. PICK k \in Key : k = client[c].key
  BY <1>0
<1>2. CASE docs' = docs /\ Leave(c)
  <2>1. client' \in [Client -> ClientState]
        /\ \A b \in Client : client'[b].step \in Working => client'[b] = client[b]
    BY <1>2 DEF Leave, IInv, TypeOK, ClientState, BusyClient, IdleClient, Working
  <2>2. TypeOK'
    BY <1>2, <2>1 DEF MarkProcessing, IInv, TypeOK
  <2> QED
    BY <1>2, <2>1, <2>2, NoWriteKeeps DEF MarkProcessing
<1>3. CASE ~(docs' = docs /\ Leave(c))
  <2>1. PICK i \in DocsOf(k) :
          /\ docs[i].status \in Lockable
          /\ docs' = [docs EXCEPT ![i].status = "processing", ![i].attempts = @ + 1]
          /\ client' = [client EXCEPT ![c].step = "work", ![c].attempt = docs[i].attempts + 1]
    BY <1>1, <1>3 DEF MarkProcessing
  <2>2. i \in Id /\ docs[i].key = k /\ docs[i] \in Document
    BY <2>1, KeyOfDoc DEF DocsOf, IInv
  <2>3. /\ docs'[i] = [docs[i] EXCEPT !.status = "processing", !.attempts = @ + 1]
        /\ \A j \in Id \ {i} : docs'[j] = docs[j]
    BY <2>1, <2>2 DEF IInv, TypeOK
  <2>4. docs'[i] \in Document /\ docs'[i].status = "processing" /\ docs'[i].key = k
        /\ docs'[i].attempts = docs[i].attempts + 1 /\ docs'[i].expiresAt = docs[i].expiresAt
    <3>2. docs'[i] = [docs[i] EXCEPT !.status = "processing", !.attempts = @ + 1]
      BY <2>3
    <3>3. docs[i] \in Document
      BY <2>2
    <3>4. /\ docs'[i] \in Document /\ docs'[i].status = "processing" /\ docs'[i].key = docs[i].key
          /\ docs'[i].attempts = docs[i].attempts + 1 /\ docs'[i].expiresAt = docs[i].expiresAt
      BY <2>2, <3>2, <3>3, LockedDocument
    <3> QED
      BY <2>2, <3>4
  <2>5. /\ client'[c] = [client[c] EXCEPT !.step = "work", !.attempt = docs[i].attempts + 1]
        /\ \A b \in Client \ {c} : client'[b] = client[b]
    BY <2>1 DEF IInv, TypeOK
  <2>6. client'[c].key = k /\ client'[c].attempt = docs[i].attempts + 1 /\ client'[c].step = "work"
        /\ client'[c] \in ClientState
    <3>1. client[c] \in BusyClient
      BY <1>0 DEF ClientState, IdleClient
    <3>2. docs[i].attempts + 1 \in Nat
      BY <2>2 DEF Document
    <3>3. client'[c] = [client[c] EXCEPT !.step = "work", !.attempt = docs[i].attempts + 1]
      BY <2>5
    <3>4. /\ client'[c] \in BusyClient /\ client'[c].key = client[c].key
          /\ client'[c].attempt = docs[i].attempts + 1 /\ client'[c].step = "work"
      BY <3>1, <3>2, <3>3, WorkingClient
    <3> QED
      BY <1>1, <3>4 DEF ClientState
  <2>7. docs' \in [Id -> Document \cup {Absent}]
    BY <2>1, <2>2, <2>3, <2>4 DEF IInv, TypeOK
  <2>8. client' \in [Client -> ClientState]
    BY <2>1, <2>5, <2>6 DEF IInv, TypeOK
  <2>9. TypeOK'
    BY <2>7, <2>8 DEF MarkProcessing, IInv, TypeOK
  <2>10. ASSUME Unique(k) PROVE Holders(k) = {}
    <3>1. \A j \in DocsOf(k) : j = i
      BY <2>1, <2>10 DEF Unique
    <3>2. docs[i].status \notin {"processing", "processed"}
      BY <2>1 DEF Lockable
    <3> QED
      BY <2>10, <3>1, <3>2 DEF IInv, KeyOK
  <2>11. DocsOf(k)' = DocsOf(k)
    BY <2>2, <2>3, <2>4 DEF DocsOf
  <2>12. ASSUME Unique(k)'
         PROVE  /\ \A j \in DocsOf(k)' : docs'[j].status \in Lockable => docs'[j].attempts < MaxAttempts
                /\ \A a, b \in Holders(k)' : a = b
                /\ \A b \in Holders(k)' : \E j \in DocsOf(k)' :
                     /\ docs'[j].status = IF client'[b].step = "work" THEN "processing" ELSE "processed"
                     /\ docs'[j].attempts = client'[b].attempt
    <3>1. Unique(k) /\ \A j \in DocsOf(k)' : j = i
      BY <2>1, <2>11, <2>12 DEF Unique
    <3>2. Holders(k)' \subseteq {c}
      BY <2>5, <2>10, <3>1 DEF Holders
    <3> QED
      BY <2>1, <2>4, <2>6, <2>11, <3>1, <3>2 DEF Lockable
  <2>13. KeyOK(k)'
    BY <2>12 DEF KeyOK
  <2>14. \A b \in Client : client'[b].step \in Working /\ client'[b].key # k => client'[b] = client[b]
    BY <2>5, <2>6
  <2>15. docs'[i].expiresAt.type # "date" /\ indexes' = indexes
    BY <2>2, <2>4 DEF MarkProcessing, IInv
  <2> QED
    BY <2>2, <2>3, <2>4, <2>9, <2>13, <2>14, <2>15, UpdateKeeps
<1> QED
  BY <1>2, <1>3

\* An outcome that an attempt writes, and where the execution goes from there.
Writes(c, k, i, status) ==
  /\ status = "processed" => client[c].step = "work"
  /\ status = "failed" => client[c].attempt < MaxAttempts
  /\ docs'[i] = [docs[i] EXCEPT !.status = status,
                                !.expiresAt = IF status \in Closed THEN TerminalExpiry ELSE @]
  /\ \A j \in Id \ {i} : docs'[j] = docs[j]
  /\ \/ client'[c] = IdleClient
     \/ status = "processed" /\ client'[c] = [client[c] EXCEPT !.step = "catch"]
  /\ \A b \in Client \ {c} : client'[b] = client[b]

LEMMA FinishWrites ==
  ASSUME CollectionAssumption, IInv, NEW c \in Client, Finish(c)
  PROVE  /\ client[c] \in BusyClient /\ client[c].step \in Working
         /\ client' \in [Client -> ClientState]
         /\ \E k \in Key, i \in Id, status \in Closed \cup {"failed"} :
              /\ k = client[c].key /\ docs[i].key = k /\ docs[i] \in Document
              /\ docs' \in [Id -> Document \cup {Absent}]
              /\ docs'[i] \in Document /\ docs'[i].status = status /\ docs'[i].key = k
              /\ docs'[i].attempts = docs[i].attempts /\ docs'[i].expiresAt.type # "date"
              /\ Writes(c, k, i, status)
<1>1. client[c] \in BusyClient /\ client[c].step \in Working
  BY DEF Finish, IInv, TypeOK, ClientState, IdleClient, Working
<1>2. PICK k \in Key : k = client[c].key
  BY <1>1 DEF BusyClient
<1>3. PICK i \in DocsOf(k), status \in Closed \cup {"failed"} :
        /\ status = "processed" => client[c].step = "work"
        /\ status = "failed" => client[c].attempt < MaxAttempts
        /\ docs' = [docs EXCEPT ![i].status = status,
                                ![i].expiresAt = IF status \in Closed THEN TerminalExpiry ELSE @]
        /\ Leave(c) \/ (status = "processed" /\ GoTo(c, "catch"))
  BY <1>2 DEF Finish
<1>4. i \in Id /\ docs[i].key = k /\ docs[i] \in Document
  BY <1>3, KeyOfDoc DEF DocsOf, IInv
<1>5. /\ docs'[i] = [docs[i] EXCEPT !.status = status,
                                    !.expiresAt = IF status \in Closed THEN TerminalExpiry ELSE @]
      /\ \A j \in Id \ {i} : docs'[j] = docs[j]
  BY <1>3, <1>4 DEF IInv, TypeOK
<1>6. PICK e : e = IF status \in Closed THEN TerminalExpiry ELSE docs[i].expiresAt
  OBVIOUS
<1>7. e \in Expiry /\ e.type # "date"
  <2>1. now + Retention \in 0..MaxTime + Retention
    BY DEF CollectionAssumption, IInv, TypeOK
  <2>2. TerminalExpiry \in Expiry /\ TerminalExpiry.type # "date"
    BY <2>1 DEF Expiry, TerminalExpiry
  <2>3. docs[i].expiresAt \in Expiry /\ docs[i].expiresAt.type # "date"
    BY <1>4 DEF IInv, Document
  <2> QED
    BY <1>6, <2>2, <2>3
<1>8. /\ docs'[i] \in Document /\ docs'[i].status = status /\ docs'[i].key = k
      /\ docs'[i].attempts = docs[i].attempts /\ docs'[i].expiresAt = e
  <2>1. status \in Statuses
    BY DEF Statuses, Closed
  <2>2. docs'[i] = [docs[i] EXCEPT !.status = status, !.expiresAt = e]
    BY <1>5, <1>6
  <2> QED
    BY <1>4, <1>7, <2>1, <2>2 DEF Document
<1>9. docs' \in [Id -> Document \cup {Absent}]
  BY <1>3, <1>4, <1>5, <1>8 DEF IInv, TypeOK
<1>10. client' = [client EXCEPT ![c] = client'[c]]
  <2>1. CASE Leave(c)
    BY <2>1 DEF Leave, IInv, TypeOK
  <2>2. CASE GoTo(c, "catch")
    BY <2>2 DEF GoTo, IInv, TypeOK
  <2> QED
    BY <1>3, <2>1, <2>2
<1>11. \/ client'[c] = IdleClient
       \/ status = "processed" /\ client'[c] = [client[c] EXCEPT !.step = "catch"]
  BY <1>3 DEF Leave, GoTo, IInv, TypeOK
<1>12. client'[c] \in ClientState
  <2>1. CASE client'[c] = IdleClient
    BY <2>1 DEF ClientState
  <2>2. CASE client'[c] = [client[c] EXCEPT !.step = "catch"]
    BY <1>1, <2>2 DEF ClientState, BusyClient, Working
  <2> QED
    BY <1>11, <2>1, <2>2
<1>13. client' \in [Client -> ClientState] /\ \A b \in Client \ {c} : client'[b] = client[b]
  BY <1>10, <1>12 DEF IInv, TypeOK
<1>14. Writes(c, k, i, status)
  BY <1>3, <1>5, <1>11, <1>13 DEF Writes
<1> QED
  BY <1>1, <1>2, <1>4, <1>7, <1>8, <1>9, <1>13, <1>14

\* The outcome goes to the document of the holder, if it is the only one. The key is
\* left without a holder, or with one that does not know its own success.
LEMMA FinishKeeps ==
  ASSUME CollectionAssumption, IInv, NEW c \in Client, Finish(c)
  PROVE  IInv'
<1>1. PICK k \in Key, i \in Id, status \in Closed \cup {"failed"} :
        /\ k = client[c].key /\ docs[i].key = k /\ docs[i] \in Document
        /\ docs' \in [Id -> Document \cup {Absent}]
        /\ docs'[i] \in Document /\ docs'[i].status = status /\ docs'[i].key = k
        /\ docs'[i].attempts = docs[i].attempts /\ docs'[i].expiresAt.type # "date"
        /\ Writes(c, k, i, status)
  BY FinishWrites
<1>2. /\ client[c] \in BusyClient /\ client[c].step \in Working
      /\ client' \in [Client -> ClientState]
  BY FinishWrites
<1>3. TypeOK'
  BY <1>1, <1>2 DEF Finish, IInv, TypeOK
<1>4. /\ \A j \in Id \ {i} : docs'[j] = docs[j]
      /\ \A b \in Client \ {c} : client'[b] = client[b]
      /\ \/ client'[c] = IdleClient
         \/ status = "processed" /\ client'[c] = [client[c] EXCEPT !.step = "catch"]
      /\ status = "failed" => client[c].attempt < MaxAttempts
  BY <1>1 DEF Writes
<1>5. client'[c].step # "work" /\ (client'[c].step \in Working =>
        /\ status = "processed" /\ client'[c].step = "catch"
        /\ client'[c].key = k /\ client'[c].attempt = client[c].attempt)
  BY <1>1, <1>2, <1>4 DEF IdleClient, BusyClient, Working
<1>6. DocsOf(k)' = DocsOf(k) /\ i \in DocsOf(k)
  BY <1>1, <1>4 DEF DocsOf
<1>7. ASSUME Unique(k)'
      PROVE  /\ \A j \in DocsOf(k)' : docs'[j].status \in Lockable => docs'[j].attempts < MaxAttempts
             /\ \A a, b \in Holders(k)' : a = b
             /\ \A b \in Holders(k)' : \E j \in DocsOf(k)' :
                  /\ docs'[j].status = IF client'[b].step = "work" THEN "processing" ELSE "processed"
                  /\ docs'[j].attempts = client'[b].attempt
  <2>1. Unique(k) /\ \A j \in DocsOf(k)' : j = i
    BY <1>6, <1>7 DEF Unique
  <2>2. c \in Holders(k)
    BY <1>1, <1>2 DEF Holders
  <2>3. docs[i].attempts = client[c].attempt /\ \A b \in Holders(k) : b = c
    BY <1>6, <2>1, <2>2 DEF IInv, KeyOK
  <2>4. Holders(k)' \subseteq {c}
    BY <1>4, <2>3 DEF Holders
  <2>5. ASSUME c \in Holders(k)'
        PROVE  status = "processed" /\ client'[c].step = "catch" /\ client'[c].attempt = client[c].attempt
    BY <1>5, <2>5 DEF Holders
  <2>6. \A j \in DocsOf(k)' : docs'[j].status \in Lockable => docs'[j].attempts < MaxAttempts
    BY <1>1, <1>4, <2>1, <2>3 DEF Lockable, Closed
  <2>7. \A b \in Holders(k)' : \E j \in DocsOf(k)' :
          /\ docs'[j].status = IF client'[b].step = "work" THEN "processing" ELSE "processed"
          /\ docs'[j].attempts = client'[b].attempt
    BY <1>1, <1>6, <2>3, <2>4, <2>5
  <2> QED
    BY <2>4, <2>6, <2>7
<1>8. KeyOK(k)'
  BY <1>7 DEF KeyOK
<1>9. \A b \in Client : client'[b].step \in Working /\ client'[b].key # k => client'[b] = client[b]
  BY <1>4, <1>5
<1> QED
  BY <1>1, <1>3, <1>4, <1>8, <1>9, UpdateKeeps DEF Finish

-----------------------------------------------------------------------------
(* The theorems *)

LEMMA NextKeeps == ASSUME CollectionAssumption, IInv, Next PROVE IInv'
<1>1. CASE StartScript
  BY <1>1, StartScriptKeeps
<1>2. CASE CreateIndex
  BY <1>2, CreateIndexKeeps
<1>3. CASE \E c \in Client : \E k \in Key : MarkReceived(c, k)
  BY <1>3, MarkReceivedKeeps
<1>4. CASE \E c \in Client : InsertReceived(c)
  BY <1>4, InsertKeeps
<1>5. CASE \E c \in Client : MarkProcessing(c)
  BY <1>5, MarkProcessingKeeps
<1>6. CASE \E c \in Client : Finish(c)
  BY <1>6, FinishKeeps
<1>7. CASE \E c \in Client : Crash(c)
  BY <1>7, CrashKeeps
<1>8. CASE NextDay
  BY <1>8, NextDayKeeps
<1> QED
  BY <1>1, <1>2, <1>3, <1>4, <1>5, <1>6, <1>7, <1>8 DEF Next

\* The invariant holds whenever the script runs and whoever dies.
THEOREM Invariance == ASSUME CollectionAssumption PROVE Spec => []IInv
<1>1. Init => IInv
  BY InitEstablishes
<1>2. IInv /\ [Next]_vars => IInv'
  <2>1. ASSUME IInv, UNCHANGED vars PROVE IInv'
    BY <2>1 DEF IInv, TypeOK, Indexed, KeyOK, Unique, DocsOf, Holders, vars
  <2> QED
    BY <2>1, NextKeeps
<1> QED
  BY <1>1, <1>2, PTL DEF Spec

\* A unique index, once it is there, means one document and one lock per key:
\* what EventWorker assumes when it keeps one record per key.
THEOREM IndexSafety == ASSUME CollectionAssumption PROVE Spec => []IndexMeansOneLock
<1>1. IInv => IndexMeansOneLock
  BY DEF IInv, IndexMeansOneLock, KeyOK
<1> QED
  BY <1>1, Invariance, PTL

-----------------------------------------------------------------------------
(* Every step is one of the ledger's *)

\* What CHOOSE takes from a set of one.
LEMMA OnlyMember ==
  ASSUME NEW S, NEW i \in S, \A j \in S : j = i
  PROVE  (CHOOSE j \in S : TRUE) = i
  OBVIOUS

\* The record of a key that has one document, before and after a step.
LEMMA RecordIs ==
  ASSUME NEW k \in Key, NEW i \in DocsOf(k), Unique(k)
  PROVE  StatusOf(k) = docs[i].status /\ AttemptsOf(k) = docs[i].attempts
<1>1. (CHOOSE j \in DocsOf(k) : TRUE) = i
  BY OnlyMember DEF Unique
<1> QED
  BY <1>1 DEF StatusOf, AttemptsOf

LEMMA RecordBecomes ==
  ASSUME NEW k \in Key, NEW i \in DocsOf(k)', Unique(k)'
  PROVE  StatusOf(k)' = docs'[i].status /\ AttemptsOf(k)' = docs'[i].attempts
<1>1. (CHOOSE j \in DocsOf(k)' : TRUE) = i
  BY OnlyMember DEF Unique
<1> QED
  BY <1>1 DEF StatusOf, AttemptsOf

\* A key whose documents a step leaves alone keeps its record.
LEMMA RecordKept ==
  ASSUME NEW k \in Key, Unique(k), Unique(k)',
         \A i \in Id : docs[i].key = k \/ docs'[i].key = k => docs'[i] = docs[i]
  PROVE  StatusOf(k)' = StatusOf(k) /\ AttemptsOf(k)' = AttemptsOf(k)
<1>1. DocsOf(k)' = DocsOf(k)
  BY DEF DocsOf
<1>2. CASE DocsOf(k) = {}
  BY <1>1, <1>2 DEF StatusOf, AttemptsOf
<1>3. CASE DocsOf(k) # {}
  <2>1. PICK i \in DocsOf(k) : i \in DocsOf(k)' /\ docs'[i] = docs[i]
    BY <1>1, <1>3 DEF DocsOf
  <2> QED
    BY <2>1, RecordIs, RecordBecomes
<1> QED
  BY <1>2, <1>3

\* A write to the documents of one key is a change of its record and of no other.
LEMMA OneRecord ==
  ASSUME IInv, IInv', Indexed, Indexed', NEW k \in Key,
         \A i \in Id : docs'[i] # docs[i] => docs'[i].key = k /\ docs[i].key \in {k, None},
         CollectionAssumption
  PROVE  /\ [key \in Key |-> StatusOf(key)'] = [[key \in Key |-> StatusOf(key)] EXCEPT ![k] = StatusOf(k)']
         /\ [key \in Key |-> AttemptsOf(key)'] = [[key \in Key |-> AttemptsOf(key)] EXCEPT ![k] = AttemptsOf(k)']
<1>1. ASSUME NEW key \in Key, key # k
      PROVE  StatusOf(key)' = StatusOf(key) /\ AttemptsOf(key)' = AttemptsOf(key)
  <2>1. Unique(key) /\ Unique(key)'
    BY DEF IInv
  <2>2. \A i \in Id : docs[i].key = key \/ docs'[i].key = key => docs'[i] = docs[i]
    BY <1>1 DEF CollectionAssumption
  <2> QED
    BY <2>1, <2>2, RecordKept
<1> QED
  BY <1>1

\* The script never drops an index.
LEMMA StaysIndexed == ASSUME Next, Indexed PROVE Indexed'
  BY DEF Next, Indexed, StartScript, CreateIndex, MarkReceived, InsertReceived,
         MarkProcessing, Finish, Crash, NextDay

LEMMA InsertIsReceive ==
  ASSUME CollectionAssumption, IInv, IInv', Indexed, Indexed',
         NEW c \in Client, InsertReceived(c), docs' # docs
  PROVE  Ledger!Next
<1>1. PICK k \in Key : k = client[c].key
  BY DEF InsertReceived, IInv, TypeOK, ClientState, BusyClient, IdleClient
<1> DEFINE received == [key |-> k, status |-> "received", attempts |-> 0, expiresAt |-> NoExpiry]
<1>2. PICK i \in Id : docs[i] = Absent /\ docs' = [docs EXCEPT ![i] = received]
  BY <1>1 DEF InsertReceived
<1>3. DocsOf(k) = {}
  BY <1>1 DEF InsertReceived, Refused, Indexed
<1>4. docs'[i] = received /\ \A j \in Id \ {i} : docs'[j] = docs[j]
  BY <1>2 DEF IInv, TypeOK
<1>5. StatusOf(k) = "none" /\ AttemptsOf(k) = 0
  BY <1>3 DEF StatusOf, AttemptsOf
<1>6. StatusOf(k)' = "received" /\ AttemptsOf(k)' = 0
  <2>1. i \in DocsOf(k)' /\ Unique(k)'
    BY <1>4 DEF DocsOf, IInv
  <2> QED
    BY <1>4, <2>1, RecordBecomes
<1>7. \A j \in Id : docs'[j] # docs[j] => docs'[j].key = k /\ docs[j].key \in {k, None}
  BY <1>2, <1>4 DEF Absent
<1>8. Ledger!Receive(k)
  <2>1. [key \in Key |-> StatusOf(key)'] = [[key \in Key |-> StatusOf(key)] EXCEPT ![k] = "received"]
    BY <1>6, <1>7, OneRecord
  <2>2. [key \in Key |-> AttemptsOf(key)'] = [key \in Key |-> AttemptsOf(key)]
    BY <1>5, <1>6, <1>7, OneRecord
  <2> QED
    BY <1>5, <2>1, <2>2 DEF Ledger!Receive, Ledger!Becomes
<1> QED
  BY <1>8 DEF Ledger!Next

LEMMA LockIsBegin ==
  ASSUME CollectionAssumption, IInv, IInv', Indexed, Indexed',
         NEW c \in Client, MarkProcessing(c), docs' # docs
  PROVE  Ledger!Next
<1>1. PICK k \in Key : k = client[c].key
  BY DEF MarkProcessing, IInv, TypeOK, ClientState, BusyClient, IdleClient
<1>2. PICK i \in DocsOf(k) :
        /\ docs[i].status \in Lockable
        /\ docs' = [docs EXCEPT ![i].status = "processing", ![i].attempts = @ + 1]
  BY <1>1 DEF MarkProcessing
<1>3. i \in Id /\ docs[i].key = k /\ docs[i] \in Document
  BY <1>2, KeyOfDoc DEF DocsOf, IInv
<1>4. docs'[i] = [docs[i] EXCEPT !.status = "processing", !.attempts = @ + 1]
      /\ \A j \in Id \ {i} : docs'[j] = docs[j]
  BY <1>2, <1>3 DEF IInv, TypeOK
<1>5. /\ docs'[i].status = "processing" /\ docs'[i].key = k
      /\ docs'[i].attempts = docs[i].attempts + 1
  BY <1>3, <1>4, LockedDocument
<1>6. StatusOf(k) = docs[i].status /\ AttemptsOf(k) = docs[i].attempts
  BY <1>2, RecordIs DEF IInv
<1>7. StatusOf(k)' = "processing" /\ AttemptsOf(k)' = docs[i].attempts + 1
  <2>1. i \in DocsOf(k)' /\ Unique(k)'
    BY <1>3, <1>5 DEF DocsOf, IInv
  <2> QED
    BY <1>5, <2>1, RecordBecomes
<1>8. docs[i].attempts < MaxAttempts
  BY <1>2 DEF IInv, KeyOK
<1>9. \A j \in Id : docs'[j] # docs[j] => docs'[j].key = k /\ docs[j].key \in {k, None}
  BY <1>3, <1>4, <1>5
<1>10. Ledger!Begin(k)
  <2>1. [key \in Key |-> StatusOf(key)'] = [[key \in Key |-> StatusOf(key)] EXCEPT ![k] = "processing"]
    BY <1>7, <1>9, OneRecord
  <2>2. [key \in Key |-> AttemptsOf(key)'] = [[key \in Key |-> AttemptsOf(key)] EXCEPT ![k] = @ + 1]
    BY <1>6, <1>7, <1>9, OneRecord
  <2> QED
    BY <1>2, <1>6, <1>8, <2>1, <2>2 DEF Ledger!Begin, Ledger!Becomes, Lockable
<1> QED
  BY <1>10 DEF Ledger!Next

LEMMA FinishIsOutcome ==
  ASSUME CollectionAssumption, IInv, IInv', Indexed, Indexed', NEW c \in Client, Finish(c)
  PROVE  Ledger!Next
<1>1. PICK k \in Key, i \in Id, status \in Closed \cup {"failed"} :
        /\ k = client[c].key /\ docs[i].key = k /\ docs[i] \in Document
        /\ docs'[i].status = status /\ docs'[i].key = k
        /\ docs'[i].attempts = docs[i].attempts
        /\ Writes(c, k, i, status)
  BY FinishWrites
<1>2. /\ \A j \in Id \ {i} : docs'[j] = docs[j]
      /\ status = "processed" => client[c].step = "work"
      /\ status = "failed" => client[c].attempt < MaxAttempts
  BY <1>1 DEF Writes
<1>3. i \in DocsOf(k) /\ i \in DocsOf(k)'
  BY <1>1 DEF DocsOf
<1>4. /\ docs[i].status = IF client[c].step = "work" THEN "processing" ELSE "processed"
      /\ docs[i].attempts = client[c].attempt
  <2>1. c \in Holders(k) /\ Unique(k)
    BY <1>1 DEF Finish, Holders, IInv
  <2>2. PICK j \in DocsOf(k) :
          /\ docs[j].status = IF client[c].step = "work" THEN "processing" ELSE "processed"
          /\ docs[j].attempts = client[c].attempt
    BY <2>1 DEF IInv, KeyOK
  <2> QED
    BY <1>3, <2>1, <2>2 DEF Unique
<1>5. /\ StatusOf(k) \in {"processing", "processed"}
      /\ status = "processed" => StatusOf(k) = "processing"
      /\ AttemptsOf(k) = client[c].attempt
  BY <1>2, <1>3, <1>4, RecordIs DEF IInv
<1>6. StatusOf(k)' = status /\ AttemptsOf(k)' = AttemptsOf(k)
  <2>1. Unique(k)' /\ Unique(k)
    BY DEF IInv
  <2>2. StatusOf(k)' = docs'[i].status /\ AttemptsOf(k)' = docs'[i].attempts
    BY <1>3, <2>1, RecordBecomes
  <2>3. AttemptsOf(k) = docs[i].attempts
    BY <1>3, <2>1, RecordIs
  <2> QED
    BY <1>1, <2>2, <2>3
<1>7. \A j \in Id : docs'[j] # docs[j] => docs'[j].key = k /\ docs[j].key \in {k, None}
  BY <1>1, <1>2
<1>8. [key \in Key |-> StatusOf(key)'] = [[key \in Key |-> StatusOf(key)] EXCEPT ![k] = status]
  BY <1>6, <1>7, OneRecord
<1>9. [key \in Key |-> AttemptsOf(key)'] = [key \in Key |-> AttemptsOf(key)]
  BY <1>6, <1>7, OneRecord
<1>10. CASE status = "processed"
  <2>1. Ledger!Succeed(k)
    BY <1>5, <1>8, <1>9, <1>10 DEF Ledger!Succeed, Ledger!Becomes
  <2> QED
    BY <2>1 DEF Ledger!Next
<1>11. CASE status = "dead_lettered"
  <2>1. Ledger!Bury(k)
    BY <1>5, <1>8, <1>9, <1>11 DEF Ledger!Bury, Ledger!Becomes, Ledger!Ending
  <2> QED
    BY <2>1 DEF Ledger!Next
<1>12. CASE status = "failed"
  <2>1. Ledger!Fail(k)
    BY <1>2, <1>5, <1>8, <1>9, <1>12 DEF Ledger!Fail, Ledger!Becomes, Ledger!Ending
  <2> QED
    BY <2>1 DEF Ledger!Next
<1> QED
  BY <1>10, <1>11, <1>12 DEF Closed

\* With the unique index the collection keeps to the lifecycle of EventLedger,
\* which EventWorker implements: one record per key is what a key's documents are.
THEOREM IndexedRefinement == ASSUME CollectionAssumption PROVE Spec => IndexedFollowsLedger
<1>1. ASSUME IInv, IInv', Next, Indexed
      PROVE  Ledger!Next \/ UNCHANGED Ledger!vars
  <2>1. Indexed'
    BY <1>1, StaysIndexed
  <2>2. CASE docs' = docs
    <3>1. \A k \in Key : StatusOf(k)' = StatusOf(k) /\ AttemptsOf(k)' = AttemptsOf(k)
      BY <1>1, <2>1, <2>2, RecordKept DEF IInv
    <3> QED
      BY <3>1 DEF Ledger!vars
  <2>3. CASE docs' # docs
    <3>1. \E c \in Client : InsertReceived(c) \/ MarkProcessing(c) \/ Finish(c)
      BY <1>1, <2>3, NextDayWritesNothing
         DEF Next, StartScript, CreateIndex, MarkReceived, Crash
    <3> QED
      BY <1>1, <2>1, <2>3, <3>1, InsertIsReceive, LockIsBegin, FinishIsOutcome
  <2> QED
    BY <2>2, <2>3
<1>2. ASSUME IInv, IInv', UNCHANGED vars, Indexed PROVE UNCHANGED Ledger!vars
  <2>1. docs' = docs /\ Indexed'
    BY <1>2 DEF vars, Indexed
  <2>2. \A k \in Key : StatusOf(k)' = StatusOf(k) /\ AttemptsOf(k)' = AttemptsOf(k)
    BY <1>2, <2>1, RecordKept DEF IInv
  <2> QED
    BY <2>2 DEF Ledger!vars
<1>3. IInv /\ IInv' /\ [Next]_vars => [Indexed => Ledger!Next]_Ledger!vars
  BY <1>1, <1>2
<1> QED
  BY <1>3, Invariance, PTL DEF Spec, IndexedFollowsLedger

=============================================================================
