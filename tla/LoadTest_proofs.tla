--------------------------- MODULE LoadTest_proofs ---------------------------
(***************************************************************************)
(* Proofs about the load test, for every number of requests and consumers,  *)
(* every share of duplicates, and whatever the gateway answers.             *)
(*                                                                          *)
(* The report's percentile is read off a sorted copy. That there is one is  *)
(* proved by counting: a latency goes to the place that is the number of    *)
(* latencies not above it.                                                  *)
(***************************************************************************)
EXTENDS LoadTest, FiniteSetTheorems, TLAPS

-----------------------------------------------------------------------------
(* Percentiles *)

\* The positions whose value is not to come after that of position i, when equal
\* values keep their order.
Upto(values, i) ==
  {j \in DOMAIN values : values[j] < values[i] \/ (values[j] = values[i] /\ j <= i)}

\* The order that Sorted chooses exists.
LEMMA SortedOrder ==
  ASSUME NEW n \in Nat, NEW values \in [1..n -> Nat]
  PROVE  \E p \in Bijection(1..n, 1..n) :
           \A i, j \in 1..n : i < j => values[p[i]] <= values[p[j]]
<1> DEFINE rank == [i \in 1..n |-> Cardinality(Upto(values, i))]
<1>1. IsFiniteSet(1..n) /\ Cardinality(1..n) = n
  BY FS_Interval
<1>2. ASSUME NEW i \in 1..n
      PROVE  Upto(values, i) \in SUBSET (1..n) /\ i \in Upto(values, i)
  BY DEF Upto
<1>3. ASSUME NEW i \in 1..n
      PROVE  IsFiniteSet(Upto(values, i)) /\ Cardinality(Upto(values, i)) \in 1..n
  <2>1. IsFiniteSet(Upto(values, i)) /\ Cardinality(Upto(values, i)) <= n
    BY <1>1, <1>2, FS_Subset
  <2>2. Cardinality(Upto(values, i)) \in Nat /\ Cardinality(Upto(values, i)) # 0
    BY <1>2, <2>1, FS_CardinalityType, FS_EmptySet
  <2> QED
    BY <2>1, <2>2
<1>4. rank \in [1..n -> 1..n] /\ \A i \in 1..n : rank[i] = Cardinality(Upto(values, i))
  BY <1>3
<1> HIDE DEF rank
\* Of two positions, the one that comes first has the smaller rank.
<1>5. ASSUME NEW i \in 1..n, NEW j \in 1..n, i # j, i \in Upto(values, j)
      PROVE  rank[i] < rank[j]
  <2>1. Upto(values, i) \subseteq Upto(values, j)
    BY <1>5 DEF Upto
  <2>2. j \notin Upto(values, i)
    BY <1>5 DEF Upto
  <2>3. Upto(values, i) # Upto(values, j) /\ Upto(values, i) \in SUBSET Upto(values, j)
    BY <1>2, <2>1, <2>2
  <2>4. /\ Cardinality(Upto(values, i)) <= Cardinality(Upto(values, j))
        /\ Cardinality(Upto(values, i)) # Cardinality(Upto(values, j))
    BY <1>3, <2>3, FS_Subset
  <2>5. rank[i] <= rank[j] /\ rank[i] # rank[j] /\ rank[i] \in 1..n /\ rank[j] \in 1..n
    BY <1>4, <2>4
  <2> QED
    BY <2>5
<1>6. \A i, j \in 1..n : i \in Upto(values, j) \/ j \in Upto(values, i)
  BY DEF Upto
<1>7. \A i, j \in 1..n : i # j => rank[i] # rank[j]
  <2> SUFFICES ASSUME NEW i \in 1..n, NEW j \in 1..n, i # j PROVE rank[i] # rank[j]
    OBVIOUS
  <2>1. rank[i] \in 1..n /\ rank[j] \in 1..n
    BY <1>4
  <2>2. rank[i] < rank[j] \/ rank[j] < rank[i]
    BY <1>5, <1>6
  <2> QED
    BY <2>1, <2>2
<1>8. rank \in Injection(1..n, 1..n)
  BY <1>4, <1>7 DEF Injection, IsInjective
<1>9. rank \in Surjection(1..n, 1..n)
  BY <1>1, <1>8, FS_Injection
<1> DEFINE order == [m \in 1..n |-> CHOOSE i \in 1..n : rank[i] = m]
<1>10. \A m \in 1..n : order[m] \in 1..n /\ rank[order[m]] = m
  BY <1>9 DEF Surjection
<1> HIDE DEF order
<1>11. order \in [1..n -> 1..n]
  <2>1. order = [m \in 1..n |-> order[m]]
    BY DEF order
  <2> QED
    BY <1>10, <2>1
<1>12. order \in Bijection(1..n, 1..n)
  <2>1. \A l, m \in 1..n : order[l] = order[m] => l = m
    BY <1>10
  <2>2. \A i \in 1..n : order[rank[i]] = i
    BY <1>4, <1>7, <1>10
  <2>3. order \in Injection(1..n, 1..n)
    BY <1>11, <2>1 DEF Injection, IsInjective
  <2>4. order \in Surjection(1..n, 1..n)
    BY <1>4, <1>11, <2>2 DEF Surjection
  <2> QED
    BY <2>3, <2>4 DEF Bijection
<1>13. ASSUME NEW l \in 1..n, NEW m \in 1..n, l < m
       PROVE  values[order[l]] <= values[order[m]]
  <2>1. order[l] \in 1..n /\ order[m] \in 1..n
    BY <1>10
  <2>2. order[l] # order[m]
    <3>1. rank[order[l]] = l /\ rank[order[m]] = m
      BY <1>10
    <3>2. l # m
      BY <1>13
    <3> QED
      BY <3>1, <3>2
  <2>3. order[m] \notin Upto(values, order[l])
    <3>1. ASSUME order[m] \in Upto(values, order[l]) PROVE FALSE
      <4>1. rank[order[m]] < rank[order[l]]
        BY <1>5, <2>1, <2>2, <3>1
      <4>2. m < l
        BY <1>10, <4>1
      <4> QED
        BY <1>13, <4>2
    <3> QED
      BY <3>1
  <2>4. order[l] \in Upto(values, order[m])
    BY <1>6, <2>1, <2>3
  <2> QED
    BY <2>1, <2>4 DEF Upto
<1> QED
  BY <1>12, <1>13

LEMMA SortedIs ==
  ASSUME NEW n \in Nat, NEW values \in [1..n -> Nat]
  PROVE  \E p \in Bijection(1..n, 1..n) :
           /\ Sorted(values) = [i \in 1..n |-> values[p[i]]]
           /\ \A i, j \in 1..n : i < j => values[p[i]] <= values[p[j]]
<1> DEFINE Ascending(p) == \A i, j \in 1..n : i < j => values[p[i]] <= values[p[j]]
           order == CHOOSE p \in Bijection(1..n, 1..n) : Ascending(p)
<1>1. order \in Bijection(1..n, 1..n) /\ Ascending(order)
  BY SortedOrder
<1>2. DOMAIN values = 1..n
  OBVIOUS
<1>3. Sorted(values) = [i \in 1..n |-> values[order[i]]]
  BY <1>2 DEF Sorted
<1> HIDE DEF order
<1> QED
  BY <1>1, <1>3

\* The rank of p percent is at most c exactly if p percent of n are at most c.
LEMMA RankOf ==
  ASSUME NEW n \in Nat \ {0}, NEW c \in 0..n, NEW p \in Percentages
  PROVE  /\ PercentileIndex(n, p) \in 1..n
         /\ PercentileIndex(n, p) <= c <=> 100 * c >= p * n
<1>1. PICK w : w = p * n
  OBVIOUS
<1>2. w \in Nat /\ 1 <= w /\ w <= 100 * n
  <2>1. p \in Nat /\ p - 1 \in Nat /\ 100 - p \in Nat
    BY DEF Percentages
  <2>2. (p - 1) * n \in Nat /\ (100 - p) * n \in Nat
    BY <2>1
  <2>3. (p - 1) * n = p * n - n /\ (100 - p) * n = 100 * n - p * n /\ p * n \in Int
    BY <2>1
  <2> QED
    BY <1>1, <2>2, <2>3
<1>3. PICK m : m = (w + 99) \div 100
  OBVIOUS
<1>4. m \in Nat /\ 100 * m <= w + 99 /\ w + 99 < 100 * m + 100
  BY <1>2, <1>3
<1>5. 1 <= m /\ m <= n
  BY <1>2, <1>4
<1>6. PercentileIndex(n, p) = m
  BY <1>1, <1>3, <1>4, <1>5 DEF PercentileIndex, AtMost, AtLeast
<1> QED
  BY <1>1, <1>2, <1>4, <1>5, <1>6

\* A percentile is within a limit exactly if that many percent of the values are.
LEMMA PercentileWithin ==
  ASSUME NEW n \in Nat \ {0}, NEW values \in [1..n -> Nat], Len(values) = n, NEW limit \in Nat,
         NEW q \in Percentages
  PROVE  Percentile(values, q) <= limit
           <=> 100 * Cardinality({i \in 1..n : values[i] <= limit}) >= q * n
<1> DEFINE Below == {i \in 1..n : values[i] <= limit}
           Low == {m \in 1..n : Sorted(values)[m] <= limit}
<1>0. n \in Nat
  OBVIOUS
<1>1. PICK p \in Bijection(1..n, 1..n) :
        /\ Sorted(values) = [i \in 1..n |-> values[p[i]]]
        /\ \A i, j \in 1..n : i < j => values[p[i]] <= values[p[j]]
  BY <1>0, SortedIs
<1>2. /\ p \in [1..n -> 1..n]
      /\ \A i, j \in 1..n : p[i] = p[j] => i = j
      /\ \A j \in 1..n : \E i \in 1..n : p[i] = j
  BY <1>1 DEF Bijection, Injection, Surjection, IsInjective
<1>3. \A i \in 1..n : Sorted(values)[i] = values[p[i]] /\ Sorted(values)[i] \in Nat
  <2> SUFFICES ASSUME NEW i \in 1..n
               PROVE  Sorted(values)[i] = values[p[i]] /\ Sorted(values)[i] \in Nat
    OBVIOUS
  <2>1. Sorted(values)[i] = values[p[i]]
    BY <1>1, Zenon
  <2>2. p[i] \in 1..n
    BY <1>2
  <2> QED
    BY <2>1, <2>2
<1>4. \A i, j \in 1..n : i < j => Sorted(values)[i] <= Sorted(values)[j]
  BY <1>1, <1>3
<1>5. IsFiniteSet(1..n) /\ Cardinality(1..n) = n
  BY FS_Interval
<1>6. IsFiniteSet(Low) /\ IsFiniteSet(Below) /\ Cardinality(Below) \in 0..n
  <2>1. Low \in SUBSET (1..n) /\ Below \in SUBSET (1..n)
    OBVIOUS
  <2> HIDE DEF Low, Below
  <2>2. IsFiniteSet(Low) /\ IsFiniteSet(Below) /\ Cardinality(Below) <= Cardinality(1..n)
    BY <1>5, <2>1, FS_Subset, Zenon
  <2>3. Cardinality(Below) \in Nat
    BY <2>2, FS_CardinalityType
  <2> QED
    BY <1>5, <2>2, <2>3
<1>7. Cardinality(Low) = Cardinality(Below)
  <2> DEFINE f == [m \in Low |-> p[m]]
  <2>1. \A m \in Low : m \in 1..n /\ p[m] \in Below
    BY <1>2, <1>3
  <2>2. ASSUME NEW i \in Below PROVE \E m \in Low : p[m] = i
    <3>1. PICK m \in 1..n : p[m] = i
      BY <1>2
    <3>2. m \in Low
      BY <1>3, <3>1
    <3> QED
      BY <3>1, <3>2
  <2> HIDE DEF Low, Below
  <2>3. f \in [Low -> Below] /\ \A m \in Low : f[m] = p[m]
    BY <2>1
  <2>4. \A l, m \in Low : f[l] = f[m] => l = m
    BY <1>2, <2>1, <2>3
  <2>5. \A i \in Below : \E m \in Low : f[m] = i
    BY <2>2, <2>3
  <2> HIDE DEF f
  <2>6. f \in Bijection(Low, Below)
    BY <2>3, <2>4, <2>5 DEF Bijection, Injection, Surjection, IsInjective
  <2>7. ExistsBijection(Low, Below)
    BY <2>6 DEF ExistsBijection
  <2> QED
    BY <1>6, <2>7, FS_Bijection
<1> DEFINE k == PercentileIndex(n, q)
           c == Cardinality(Below)
<1>8. k \in 1..n /\ (k <= c <=> 100 * c >= q * n)
  BY <1>6, RankOf
<1>9. Percentile(values, q) = Sorted(values)[k]
  <2>1. values # <<>>
    OBVIOUS
  <2> QED
    BY <2>1 DEF Percentile
<1>10. c \in Nat /\ c = Cardinality(Low)
  BY <1>6, <1>7
<1> HIDE DEF k, c, Below
<1>11. CASE Sorted(values)[k] <= limit
  <2>1. \A m \in 1..k : Sorted(values)[m] <= Sorted(values)[k] /\ m \in 1..n
    BY <1>3, <1>4, <1>8
  <2>2. \A m \in 1..k : m \in Low
    BY <1>3, <1>8, <1>11, <2>1
  <2>3. 1..k \in SUBSET Low
    BY <2>2
  <2>4. Cardinality(1..k) <= c
    BY <1>6, <1>10, <2>3, FS_Subset
  <2>5. Cardinality(1..k) = k
    BY <1>8, FS_Interval
  <2> QED
    BY <1>8, <1>9, <1>11, <2>4, <2>5 DEF c, Below
<1>12. CASE ~(Sorted(values)[k] <= limit)
  <2>1. ASSUME NEW m \in Low PROVE m \in 1..k - 1
    <3>1. m \in 1..n /\ Sorted(values)[m] <= limit
      OBVIOUS
    <3>2. ~(k < m) /\ k # m
      BY <1>3, <1>4, <1>8, <1>12, <3>1
    <3> QED
      BY <1>8, <3>1, <3>2
  <2>2. Low \in SUBSET (1..k - 1)
    BY <2>1
  <2>3. IsFiniteSet(1..k - 1) /\ Cardinality(1..k - 1) = k - 1
    <3>1. 1 \in Int /\ k - 1 \in Int /\ k - 1 >= 0
      BY <1>8
    <3>2. IsFiniteSet(1..k - 1) /\ Cardinality(1..k - 1) = IF 1 > k - 1 THEN 0 ELSE (k - 1) - 1 + 1
      BY <3>1, FS_Interval
    <3> QED
      BY <3>1, <3>2
  <2>4. c <= k - 1
    <3>1. Cardinality(Low) <= Cardinality(1..k - 1)
      BY <2>2, <2>3, FS_Subset, Zenon
    <3> QED
      BY <1>10, <2>3, <3>1
  <2>5. ~(k <= c)
    BY <1>8, <1>10, <2>4
  <2> QED
    BY <1>8, <1>9, <1>12, <2>5 DEF c, Below
<1> QED
  BY <1>11, <1>12

-----------------------------------------------------------------------------
(* The inductive invariant *)

RecordStatuses == {"none", "received", "processing", "processed", "failed", "dead_lettered"}

\* The type of each variable that matters.
TypeOK ==
  /\ now \in Nat
  /\ keyOf \in Prepared
  /\ cursor \in 0..TotalRequests
  /\ sender \in [Senders -> [event : Events \cup {None}, startedAt : Nat]]
  /\ reply \in [Events -> Answers \cup {None}]
  /\ counts \in [Counters -> Nat]
  /\ latencies \in Seq(Nat)
  /\ took \in [Events -> Nat]
  /\ stage \in {"pool", "totalTracked", "terminalTracked", "duplicateKeys",
                "retryEligible", "recovered", "done"}
  /\ stats \in Seq(Nat)
  /\ queued \subseteq Keys
  /\ status \in [Keys -> RecordStatuses]
  /\ attempts \in [Keys -> Nat]

Answered == {i \in Events : reply[i] # None}
Accepted == {i \in Events : reply[i] = 202}
Quick == {i \in Events : reply[i] # None /\ took[i] <= LatencyLimit}

\* The positions of the latencies that are within the limit.
Within == {n \in 1..Len(latencies) : latencies[n] <= LatencyLimit}

\* Who waits for what: behind the cursor each event has its answer or the one
\* consumer that waits for it, before it neither.
Pooled ==
  /\ \A c \in Senders : sender[c].event # None =>
       /\ sender[c].event < cursor
       /\ reply[sender[c].event] = None
       /\ sender[c].startedAt <= now
  /\ \A b, c \in Senders :
       sender[b].event # None /\ sender[b].event = sender[c].event => b = c
  /\ \A i \in Events : i >= cursor => reply[i] = None
  /\ \A i \in Events : i < cursor /\ reply[i] = None => \E c \in Senders : sender[c].event = i

\* The counters say how many events have which answer, the latencies how many took
\* how long.
Counted ==
  /\ counts["totalSent"] = Cardinality(Answered)
  /\ counts["accepted202"] = Cardinality(Accepted)
  /\ Len(latencies) = counts["totalSent"]
  /\ Cardinality(Within) = Cardinality(Quick)

\* The pool is over when the report is there, and the report is of that pool.
Reported ==
  /\ stage = "pool" => report = None /\ verdict = None
  /\ IF stage \in {"pool", "done"} THEN stats = <<>>
     ELSE Len(stats) \in 0..4 /\ stage = Reads[Len(stats) + 1]
  /\ stage # "pool" =>
       /\ cursor = TotalRequests /\ \A c \in Senders : sender[c].event = None
       /\ report.accepted = counts["accepted202"]
       /\ report.totalSent = counts["totalSent"]
       /\ report.p95 = Percentile(latencies, LatencyPercentile)
       /\ report.sc001 = Acceptable(report.accepted, AtLeast(1, report.totalSent), report.p95)
  /\ verdict # None => verdict.sc001 = Sc001

\* A record of this run is one of a job of this run, which repeats no duplicate.
Recorded ==
  /\ queued \subseteq {keyOf[i] : i \in Events}
  /\ \A k \in Events : status[k] # "none" => k \in queued

IInv == TypeOK /\ Pooled /\ Counted /\ Reported /\ Recorded

-----------------------------------------------------------------------------
(* The prepared events *)

LEMMA EventSets ==
  ASSUME LoadTestAssumption
  PROVE  /\ IsFiniteSet(Events) /\ Cardinality(Events) = TotalRequests
         /\ Sources \subseteq Events /\ Duplicates \subseteq Events
         /\ Sources \cap Duplicates = {}
         /\ None \notin Events /\ None \notin Answers
<1>1. TotalRequests \in Nat \ {0} /\ DuplicatePercent \in Nat
  BY DEF LoadTestAssumption, Percentages
<1>2. IsFiniteSet(Events) /\ Cardinality(Events) = TotalRequests
  <2>1. PICK m : m = TotalRequests - 1
    OBVIOUS
  <2>2. m \in Int /\ 0 \in Int /\ ~(0 > m) /\ m - 0 + 1 = TotalRequests
    BY <1>1, <2>1
  <2>3. /\ IsFiniteSet(0..m)
        /\ Cardinality(0..m) = IF 0 > m THEN 0 ELSE m - 0 + 1
    BY ONLY <2>2, FS_Interval
  <2> QED
    BY <2>1, <2>2, <2>3 DEF Events
<1>3. SourcePoolSize \in 1..TotalRequests
  <2>1. PICK h : h = TotalRequests \div 2
    OBVIOUS
  <2>2. h \in Nat /\ 2 * h <= TotalRequests
    BY <1>1, <2>1
  <2> QED
    BY <1>1, <2>1, <2>2 DEF SourcePoolSize, AtLeast
<1>4. PICK injected : injected = (TotalRequests * DuplicatePercent) \div 100
  OBVIOUS
<1>5. injected \in Nat
  <2>1. TotalRequests * DuplicatePercent \in Nat
    BY <1>1
  <2> QED
    BY <1>4, <2>1
<1>6. Sources \subseteq Events
  BY <1>1, <1>3 DEF Sources, Events
<1>7. Duplicates \subseteq Events /\ Sources \cap Duplicates = {}
  BY <1>1, <1>3, <1>4, <1>5 DEF Sources, Duplicates, Events, AtMost
<1>8. None \notin Events /\ None \notin Answers
  <2>1. None \notin Int
    BY DEF LoadTestAssumption
  <2>2. \A answer \in Answers : answer \in Int
    BY DEF LoadTestAssumption, StatusCodes
  <2>3. \A i \in Events : i \in Int
    BY <1>1 DEF Events
  <2> QED
    BY <2>1, <2>2, <2>3
<1> QED
  BY <1>2, <1>6, <1>7, <1>8

\* No event is prepared with the key of a duplicate.
LEMMA KeysAreNoDuplicates ==
  ASSUME LoadTestAssumption, keyOf \in Prepared
  PROVE  \A i \in Events : keyOf[i] \in Events \ Duplicates
  BY EventSets DEF Prepared

-----------------------------------------------------------------------------
(* Every step keeps the invariant *)

LEMMA InitEstablishes == ASSUME LoadTestAssumption, Init PROVE IInv
<1>1. TypeOK
  <2>1. Free \in [event : Events \cup {None}, startedAt : Nat]
    BY DEF Free
  <2>2. status \in [Keys -> RecordStatuses] /\ attempts \in [Keys -> Nat]
    BY DEF Init, EarlierStatus, RecordStatuses
  <2>3. latencies \in Seq(Nat) /\ 0 \in 0..TotalRequests
    BY DEF Init, LoadTestAssumption
  <2> QED
    BY <2>1, <2>2, <2>3 DEF Init, TypeOK
<1>2. Pooled
  BY DEF Init, Pooled, Free, Events
<1>3. Counted
  <2>1. Answered = {} /\ Accepted = {} /\ Quick = {} /\ Within = {}
    BY DEF Init, Answered, Accepted, Quick, Within, LoadTestAssumption
  <2> QED
    BY <2>1, FS_EmptySet DEF Init, Counted, Counters
<1>4. Reported
  BY DEF Init, Reported
<1>5. Recorded
  BY DEF Init, Recorded, Keys
<1> QED
  BY <1>1, <1>2, <1>3, <1>4, <1>5 DEF IInv

\* The counters change with the answers only.
LEMMA CountedStays ==
  ASSUME Counted, reply' = reply, counts' = counts, latencies' = latencies, took' = took
  PROVE  Counted'
<1>1. Answered' = Answered /\ Accepted' = Accepted /\ Quick' = Quick
  BY DEF Answered, Accepted, Quick
<1>2. Within' = Within
  BY DEF Within
<1> QED
  BY <1>1, <1>2 DEF Counted

LEMMA TickKeeps == ASSUME LoadTestAssumption, IInv, Tick PROVE IInv'
<1>1. now' \in Nat /\ now' = now + 1
  BY DEF Tick, IInv, TypeOK
<1>2. TypeOK'
  BY <1>1 DEF Tick, pool, check, gateway, IInv, TypeOK
<1>3. Pooled'
  BY <1>1 DEF Tick, pool, check, gateway, IInv, TypeOK, Pooled
<1>4. Counted'
  BY CountedStays DEF Tick, pool, IInv
<1>5. Reported'
  BY DEF Tick, pool, check, IInv, Reported, Sc001
<1>6. Recorded'
  BY DEF Tick, pool, gateway, IInv, Recorded
<1> QED
  BY <1>2, <1>3, <1>4, <1>5, <1>6 DEF IInv

\* A worker's step moves one record, and never back to none.
LEMMA WorkersStepMoves ==
  ASSUME TypeOK, NEW k \in Keys, WorkersStep(k)
  PROVE  /\ \E to \in RecordStatuses \ {"none"} : status' = [status EXCEPT ![k] = to]
         /\ attempts' \in [Keys -> Nat]
<1>1. Ledger!Receive(k) \/ Ledger!Begin(k) \/ Ledger!Succeed(k) \/ Ledger!Fail(k) \/ Ledger!Bury(k)
  BY DEF WorkersStep
<1>2. \E to \in RecordStatuses \ {"none"} : status' = [status EXCEPT ![k] = to]
  BY <1>1 DEF Ledger!Receive, Ledger!Begin, Ledger!Succeed, Ledger!Fail, Ledger!Bury,
              Ledger!Becomes, RecordStatuses
<1>3. attempts' = attempts \/ attempts' = [attempts EXCEPT ![k] = @ + 1]
  BY <1>1 DEF Ledger!Receive, Ledger!Begin, Ledger!Succeed, Ledger!Fail, Ledger!Bury
<1>4. attempts' \in [Keys -> Nat]
  <2>1. attempts \in [Keys -> Nat] /\ attempts[k] + 1 \in Nat
    BY DEF TypeOK
  <2> QED
    BY <1>3, <2>1
<1> QED
  BY <1>2, <1>4

LEMMA WorkersStepKeeps ==
  ASSUME LoadTestAssumption, IInv, NEW k \in Keys, WorkersStep(k)
  PROVE  IInv'
<1>1. PICK to \in RecordStatuses \ {"none"} : status' = [status EXCEPT ![k] = to]
  BY WorkersStepMoves DEF IInv
<1>2. status' \in [Keys -> RecordStatuses]
  BY <1>1 DEF IInv, TypeOK
<1>3. TypeOK'
  BY <1>2, WorkersStepMoves DEF WorkersStep, pool, check, IInv, TypeOK
<1>4. Pooled'
  BY DEF WorkersStep, pool, IInv, Pooled
<1>5. Counted'
  BY CountedStays DEF WorkersStep, pool, IInv
<1>6. Reported'
  BY DEF WorkersStep, pool, check, IInv, Reported, Sc001
<1>7. Recorded'
  <2>1. k \in queued /\ queued' = queued /\ keyOf' = keyOf
    BY DEF WorkersStep
  <2>2. \A key \in Keys \ {k} : status'[key] = status[key]
    BY <1>1 DEF IInv, TypeOK
  <2> QED
    BY <2>1, <2>2 DEF IInv, Recorded, Keys
<1> QED
  BY <1>3, <1>4, <1>5, <1>6, <1>7 DEF IInv

\* The event that is taken is the cursor's: no other consumer waits for it.
LEMMA TakeKeeps ==
  ASSUME LoadTestAssumption, IInv, NEW c \in Senders, Take(c)
  PROVE  IInv'
<1>1. /\ stage = "pool" /\ cursor \in Events /\ sender[c] = Free /\ cursor' = cursor + 1
      /\ sender' = [sender EXCEPT ![c] = [event |-> cursor, startedAt |-> now]]
      /\ now' = now /\ reply' = reply /\ counts' = counts /\ latencies' = latencies
      /\ took' = took
      /\ keyOf' = keyOf /\ check' = check /\ gateway' = gateway
  BY DEF Take, NextCursor
<1>2. cursor \in Nat /\ cursor' \in 0..TotalRequests /\ cursor # None /\ now \in Nat
  BY <1>1, EventSets DEF Events, IInv, TypeOK, LoadTestAssumption
<1>3. /\ sender'[c].event = cursor /\ sender'[c].startedAt = now
      /\ \A b \in Senders \ {c} : sender'[b] = sender[b]
  BY <1>1 DEF IInv, TypeOK
<1>4. TypeOK'
  <2>1. sender' \in [Senders -> [event : Events \cup {None}, startedAt : Nat]]
    BY <1>1, <1>2 DEF IInv, TypeOK
  <2>2. /\ keyOf' = keyOf /\ reply' = reply /\ counts' = counts /\ latencies' = latencies
        /\ took' = took /\ stage' = stage /\ stats' = stats
        /\ queued' = queued /\ status' = status /\ attempts' = attempts
    BY <1>1 DEF check, gateway
  <2> QED
    BY <1>1, <1>2, <2>1, <2>2 DEF IInv, TypeOK
<1>5. \A b \in Senders : sender[b].event \in Events \cup {None}
  BY DEF IInv, TypeOK
<1>6. Pooled'
  <2>1. ASSUME NEW b \in Senders, sender'[b].event # None
        PROVE  /\ sender'[b].event < cursor'
               /\ reply'[sender'[b].event] = None
               /\ sender'[b].startedAt <= now'
    <3>1. CASE b = c
      BY <1>1, <1>2, <1>3, <3>1 DEF IInv, Pooled
    <3>2. CASE b # c
      <4>1. sender'[b] = sender[b] /\ sender[b].event \in Nat /\ sender[b].event < cursor
        BY <1>3, <1>5, <2>1, <3>2 DEF IInv, Pooled, Events
      <4> QED
        BY <1>1, <1>2, <2>1, <4>1 DEF IInv, Pooled
    <3> QED
      BY <3>1, <3>2
  <2>2. ASSUME NEW a \in Senders, NEW b \in Senders,
               sender'[a].event # None, sender'[a].event = sender'[b].event
        PROVE  a = b
    <3>1. \A d \in Senders \ {c} : sender[d].event # None => sender[d].event # cursor
      BY <1>2, <1>5 DEF IInv, Pooled, Events
    <3> QED
      BY <1>3, <2>2, <3>1 DEF IInv, Pooled
  <2>3. \A i \in Events : i >= cursor' => reply'[i] = None
    BY <1>1, <1>2 DEF IInv, Pooled, Events
  <2>4. ASSUME NEW i \in Events, i < cursor', reply'[i] = None
        PROVE  \E b \in Senders : sender'[b].event = i
    <3>1. CASE i = cursor
      BY <1>3, <3>1
    <3>2. CASE i # cursor
      <4>1. i < cursor
        BY <1>1, <1>2, <2>4, <3>2 DEF Events
      <4>2. PICK b \in Senders : sender[b].event = i
        BY <1>1, <2>4, <4>1 DEF IInv, Pooled
      <4>3. b # c
        BY <1>1, <4>2, EventSets DEF Free
      <4> QED
        BY <1>3, <4>2, <4>3
    <3> QED
      BY <3>1, <3>2
  <2> QED
    BY <2>1, <2>2, <2>3, <2>4 DEF Pooled
<1>7. Counted'
  BY <1>1, CountedStays DEF IInv
<1>8. Reported'
  BY <1>1 DEF IInv, Reported, Sc001, check
<1>9. Recorded'
  BY <1>1 DEF IInv, Recorded, gateway
<1> QED
  BY <1>4, <1>6, <1>7, <1>8, <1>9 DEF IInv

\* An answer comes while the pool runs, for an event that had none.
LEMMA AnswerIs ==
  ASSUME LoadTestAssumption, IInv, NEW c \in Senders, Answer(c)
  PROVE  \E i \in Events, answer \in Answers :
           /\ sender[c].event = i /\ reply[i] = None /\ stage = "pool" /\ i < cursor
           /\ sender' = [sender EXCEPT ![c] = Free]
           /\ reply' = [reply EXCEPT ![i] = answer]
           /\ counts' = Count(answer)
           /\ latencies' = Append(latencies, now - sender[c].startedAt)
           /\ took' = [took EXCEPT ![i] = now - sender[c].startedAt]
           /\ now - sender[c].startedAt \in Nat
           /\ queued' \in {queued, queued \cup {keyOf[i]}}
           /\ now' = now /\ keyOf' = keyOf /\ cursor' = cursor /\ check' = check
           /\ status' = status /\ attempts' = attempts
<1>1. PICK i : i = sender[c].event
  OBVIOUS
<1>2. i # None
  BY <1>1 DEF Answer
<1>3. i \in Events /\ sender[c].startedAt \in Nat /\ now \in Nat
  BY <1>1, <1>2 DEF IInv, TypeOK
<1>4. reply[i] = None /\ i < cursor /\ sender[c].startedAt <= now
  BY <1>1, <1>2 DEF IInv, Pooled
<1>5. stage = "pool"
  BY <1>1, <1>2 DEF IInv, Reported
<1>6. PICK answer \in Answers :
        /\ \E jobs \in JobsOf(answer, keyOf[i]) : queued' = queued \cup jobs
        /\ reply' = [reply EXCEPT ![i] = answer]
        /\ counts' = Count(answer)
  BY <1>1 DEF Answer
<1>7. queued' \in {queued, queued \cup {keyOf[i]}}
  BY <1>6 DEF JobsOf
<1>8. now - sender[c].startedAt \in Nat
  BY <1>3, <1>4
<1> QED
  BY <1>1, <1>3, <1>4, <1>5, <1>6, <1>7, <1>8 DEF Answer

Replies(i, answer) ==
  reply[i] = None /\ reply' = [reply EXCEPT ![i] = answer] /\ counts' = Count(answer)

\* One event more is answered, and counted.
LEMMA AnswerCounts ==
  ASSUME LoadTestAssumption, IInv, NEW i \in Events, NEW answer \in Answers,
         Replies(i, answer)
  PROVE  /\ counts'["totalSent"] = counts["totalSent"] + 1
         /\ counts'["totalSent"] = Cardinality(Answered')
         /\ counts'["accepted202"] = Cardinality(Accepted')
<1>1. IsFiniteSet(Answered) /\ IsFiniteSet(Accepted)
  BY EventSets, FS_Subset DEF Answered, Accepted
<1>2. \A e \in Events : reply'[e] = IF e = i THEN answer ELSE reply[e]
  BY DEF IInv, TypeOK, Replies
<1>3. answer # None /\ None # 202
  BY EventSets DEF LoadTestAssumption
<1>4. Answered' = Answered \cup {i} /\ i \notin Answered
  BY <1>2, <1>3 DEF Answered, Replies
<1>5. Accepted' = (IF answer = 202 THEN Accepted \cup {i} ELSE Accepted) /\ i \notin Accepted
  BY <1>2, <1>3 DEF Accepted, Replies
<1>6. Cardinality(Answered') = Cardinality(Answered) + 1
  BY <1>1, <1>4, FS_AddElement
<1>7. Cardinality(Accepted') = Cardinality(Accepted) + (IF answer = 202 THEN 1 ELSE 0)
  <2>1. Cardinality(Accepted) \in Nat
    BY <1>1, FS_CardinalityType
  <2>2. CASE answer = 202
    BY <1>1, <1>5, <2>2, FS_AddElement
  <2>3. CASE answer # 202
    BY <1>5, <2>1, <2>3
  <2> QED
    BY <2>2, <2>3
<1>8. counts \in [Counters -> Nat] /\ "totalSent" \in Counters /\ "accepted202" \in Counters
  BY DEF IInv, TypeOK, Counters
<1>9. CounterOf(answer) = "accepted202" <=> answer = 202
  BY DEF CounterOf, NoAnswer
<1>10. /\ counts'["totalSent"] = counts["totalSent"] + 1
       /\ counts'["accepted202"] = counts["accepted202"] + (IF answer = 202 THEN 1 ELSE 0)
  BY <1>8, <1>9 DEF Count, Replies
<1> QED
  BY <1>6, <1>7, <1>10 DEF IInv, Counted

\* And its time is one of the latencies.
LEMMA AnswerTimes ==
  ASSUME LoadTestAssumption, IInv, NEW i \in Events, NEW answer \in Answers, NEW t \in Nat,
         Replies(i, answer), took' = [took EXCEPT ![i] = t], latencies' = Append(latencies, t)
  PROVE  Cardinality(Within') = Cardinality(Quick')
<1>1. PICK n \in Nat : n = Len(latencies)
  BY DEF IInv, TypeOK
<1>2. IsFiniteSet(Quick) /\ IsFiniteSet(Within)
  <2>1. Quick \in SUBSET Events /\ Within \in SUBSET (1..n)
    BY <1>1 DEF Quick, Within
  <2>2. IsFiniteSet(1..n)
    BY FS_Interval
  <2> QED
    BY <2>1, <2>2, EventSets, FS_Subset
<1>3. /\ \A e \in Events : reply'[e] = IF e = i THEN answer ELSE reply[e]
      /\ \A e \in Events : took'[e] = IF e = i THEN t ELSE took[e]
      /\ answer # None /\ reply[i] = None
  BY EventSets DEF IInv, TypeOK, Replies
<1>4. Quick' = (IF t <= LatencyLimit THEN Quick \cup {i} ELSE Quick) /\ i \notin Quick
  BY <1>3 DEF Quick
<1>5. /\ Len(latencies') = n + 1 /\ latencies'[n + 1] = t
      /\ \A m \in 1..n : latencies'[m] = latencies[m]
  BY <1>1 DEF IInv, TypeOK
<1>6. /\ Within' = IF t <= LatencyLimit THEN Within \cup {n + 1} ELSE Within
      /\ n + 1 \notin Within
  BY <1>1, <1>5 DEF Within
<1>7. Cardinality(Within) = Cardinality(Quick)
  BY DEF IInv, Counted
<1>8. CASE t <= LatencyLimit
  <2>1. Cardinality(Quick') = Cardinality(Quick) + 1
    BY <1>2, <1>4, <1>8, FS_AddElement
  <2>2. Cardinality(Within') = Cardinality(Within) + 1
    BY <1>2, <1>6, <1>8, FS_AddElement
  <2> QED
    BY <1>7, <2>1, <2>2
<1>9. CASE ~(t <= LatencyLimit)
  BY <1>4, <1>6, <1>7, <1>9
<1> QED
  BY <1>8, <1>9

LEMMA AnswerKeeps ==
  ASSUME LoadTestAssumption, IInv, NEW c \in Senders, Answer(c)
  PROVE  IInv'
<1>1. PICK i \in Events, answer \in Answers :
        /\ sender[c].event = i /\ reply[i] = None /\ stage = "pool" /\ i < cursor
        /\ sender' = [sender EXCEPT ![c] = Free]
        /\ reply' = [reply EXCEPT ![i] = answer]
        /\ counts' = Count(answer)
        /\ latencies' = Append(latencies, now - sender[c].startedAt)
        /\ took' = [took EXCEPT ![i] = now - sender[c].startedAt]
        /\ now - sender[c].startedAt \in Nat
        /\ queued' \in {queued, queued \cup {keyOf[i]}}
        /\ now' = now /\ keyOf' = keyOf /\ cursor' = cursor /\ check' = check
        /\ status' = status /\ attempts' = attempts
  BY AnswerIs
<1>2. /\ \A b \in Senders : sender'[b] = IF b = c THEN Free ELSE sender[b]
      /\ \A e \in Events : reply'[e] = IF e = i THEN answer ELSE reply[e]
  BY <1>1 DEF IInv, TypeOK
<1>3. i # None /\ answer # None /\ Free.event = None
  BY EventSets DEF Free
<1>4. keyOf[i] \in Events
  BY <1>1, KeysAreNoDuplicates DEF IInv, TypeOK
<1>5. /\ counts' \in [Counters -> Nat]
       /\ counts'["totalSent"] = counts["totalSent"] + 1
       /\ counts'["totalSent"] = Cardinality(Answered')
       /\ counts'["accepted202"] = Cardinality(Accepted')
  <2>1. Replies(i, answer)
    BY <1>1 DEF Replies
  <2>2. counts' \in [Counters -> Nat]
    BY <1>1 DEF Count, IInv, TypeOK
  <2> QED
    BY <2>1, <2>2, AnswerCounts
<1>6. TypeOK'
  <2>1. sender' \in [Senders -> [event : Events \cup {None}, startedAt : Nat]]
    BY <1>1 DEF IInv, TypeOK, Free
  <2>2. reply' \in [Events -> Answers \cup {None}]
    BY <1>1 DEF IInv, TypeOK
  <2>3. latencies' \in Seq(Nat) /\ took' \in [Events -> Nat]
    BY <1>1 DEF IInv, TypeOK
  <2>4. queued' \subseteq Keys
    BY <1>1, <1>4 DEF IInv, TypeOK, Keys
  <2> QED
    <3>1. /\ now' = now /\ keyOf' = keyOf /\ cursor' = cursor /\ stage' = stage /\ stats' = stats
          /\ status' = status /\ attempts' = attempts
      BY <1>1 DEF check
    <3> QED
      BY <1>5, <2>1, <2>2, <2>3, <2>4, <3>1 DEF IInv, TypeOK
<1>7. Pooled'
  <2>1. ASSUME NEW b \in Senders, sender'[b].event # None
        PROVE  /\ b # c /\ sender'[b] = sender[b] /\ sender[b].event \in Events \ {i}
               /\ reply'[sender[b].event] = reply[sender[b].event]
    <3>1. b # c /\ sender'[b] = sender[b]
      BY <1>2, <1>3, <2>1
    <3>2. sender[b].event \in Events
      BY <2>1, <3>1 DEF IInv, TypeOK
    <3>3. sender[b].event # i
      BY <1>1, <1>3, <3>1 DEF IInv, Pooled
    <3> QED
      BY <1>2, <3>1, <3>2, <3>3
  <2>2. ASSUME NEW b \in Senders, sender'[b].event # None
        PROVE  /\ sender'[b].event < cursor'
               /\ reply'[sender'[b].event] = None
               /\ sender'[b].startedAt <= now'
    BY <1>1, <2>1, <2>2 DEF IInv, Pooled
  <2>3. ASSUME NEW a \in Senders, NEW b \in Senders,
               sender'[a].event # None, sender'[a].event = sender'[b].event
        PROVE  a = b
    BY <2>1, <2>3 DEF IInv, Pooled
  <2>4. \A e \in Events : e >= cursor' => reply'[e] = None
    <3>1. cursor \in Nat /\ i \in Nat /\ ~(i >= cursor)
      BY <1>1 DEF IInv, TypeOK, Events
    <3> QED
      BY <1>1, <1>2, <3>1 DEF IInv, Pooled
  <2>5. ASSUME NEW e \in Events, e < cursor', reply'[e] = None
        PROVE  \E b \in Senders : sender'[b].event = e
    <3>1. e # i /\ reply[e] = None
      BY <1>2, <1>3, <2>5
    <3>2. PICK b \in Senders : sender[b].event = e
      BY <1>1, <2>5, <3>1 DEF IInv, Pooled
    <3> QED
      BY <1>1, <1>2, <3>1, <3>2
  <2> QED
    BY <2>2, <2>3, <2>4, <2>5 DEF Pooled
<1>8. Counted'
  <2>1. Len(latencies') = Len(latencies) + 1
    BY <1>1 DEF IInv, TypeOK
  <2>2. Cardinality(Within') = Cardinality(Quick')
    BY <1>1, AnswerTimes DEF Replies
  <2> QED
    BY <1>5, <2>1, <2>2 DEF IInv, Counted
<1>9. Reported'
  BY <1>1 DEF IInv, Reported, check
<1>10. Recorded'
  BY <1>1 DEF IInv, Recorded
<1> QED
  BY <1>6, <1>7, <1>8, <1>9, <1>10 DEF IInv

\* The pool has ended when the cursor is past the last event and no consumer waits.
LEMMA GenerateReportKeeps ==
  ASSUME LoadTestAssumption, IInv, GenerateReport
  PROVE  IInv'
<1>1. /\ stage = "pool" /\ stage' = "totalTracked" /\ cursor \notin Events
      /\ \A c \in Senders : sender[c] = Free
      /\ pool' = pool /\ gateway' = gateway /\ now' = now /\ keyOf' = keyOf
      /\ stats' = stats /\ verdict' = verdict
  BY DEF GenerateReport
<1>2. cursor = TotalRequests
  BY <1>1 DEF IInv, TypeOK, Events, LoadTestAssumption
<1>3. TypeOK'
  BY <1>1 DEF pool, gateway, IInv, TypeOK
<1>4. Pooled'
  BY <1>1 DEF pool, IInv, Pooled
<1>5. Counted'
  BY <1>1, CountedStays DEF pool, IInv
<1>6. Reported'
  <2>1. /\ report'.accepted = counts["accepted202"]
        /\ report'.totalSent = counts["totalSent"]
        /\ report'.p95 = Percentile(latencies, LatencyPercentile)
        /\ report'.sc001 = Acceptable(report'.accepted, AtLeast(1, report'.totalSent), report'.p95)
    BY DEF GenerateReport
  <2>2. verdict' = None /\ stats' = <<>>
    BY <1>1 DEF IInv, Reported
  <2>3. \A c \in Senders : sender[c].event = None
    BY <1>1 DEF Free
  <2>4. Len(<<>>) = 0 /\ Reads[1] = "totalTracked"
    BY DEF Reads
  <2> QED
    BY <1>1, <1>2, <2>1, <2>2, <2>3, <2>4 DEF Reported, pool
<1>7. Recorded'
  BY <1>1 DEF gateway, IInv, Recorded
<1> QED
  BY <1>3, <1>4, <1>5, <1>6, <1>7 DEF IInv

\* What a read returns is a number.
LEMMA ReadResultType ==
  ASSUME LoadTestAssumption, IInv, NEW n \in 1..5
  PROVE  ReadResult(Reads[n]) \in Nat
<1>1. IsFiniteSet(Keys)
  BY EventSets, FS_Union DEF Keys, LoadTestAssumption
<1>2. ASSUME NEW S \in SUBSET Keys PROVE Cardinality(S) \in Nat
  BY <1>1, FS_Subset, FS_CardinalityType
<1>3. /\ Tracked \in SUBSET Keys /\ TerminalTracked \in SUBSET Keys
      /\ RetryEligible \in SUBSET Keys /\ Recovered \in SUBSET Keys
  BY DEF Tracked, TerminalTracked, RetryEligible, Recovered
<1> QED
  BY <1>2, <1>3 DEF Reads, ReadResult

\* A read is one of five, and the last one, or one that fails, ends the check.
LEMMA ReadIs ==
  ASSUME IInv, Read
  PROVE  /\ now' = now /\ keyOf' = keyOf /\ pool' = pool /\ report' = report /\ gateway' = gateway
         /\ \E n \in 1..5 :
              /\ n = Len(stats) + 1 /\ stage = Reads[n]
              /\ \/ /\ n < 5 /\ stage' = Reads[n + 1] /\ verdict' = verdict
                    /\ stats' = Append(stats, ReadResult(stage))
                 \/ /\ stage' = "done" /\ stats' = <<>> /\ verdict'.sc001 = Sc001
                    /\ verdict'.database \in
                         {Skipped, Criteria(stats[1], stats[2], stats[3], stats[4], ReadResult(stage))}
                    /\ verdict'.database # Skipped => n = 5
<1>1. PICK n : n = Len(stats) + 1
  OBVIOUS
<1>2. n \in Nat /\ stage = Reads[n] /\ Len(Reads) = 5
  BY <1>1 DEF IInv, TypeOK, Read, Reads
<1>3. stage \notin {"pool", "done"}
  <2>1. ASSUME stage \in {"pool", "done"} PROVE FALSE
    <3>1. n = 1
      BY <1>1, <2>1 DEF IInv, Reported
    <3> QED
      BY <1>2, <2>1, <3>1 DEF Reads
  <2> QED
    BY <2>1
<1>4. n \in 1..5
  <2>1. PICK l \in 0..4 : l = Len(stats)
    BY <1>3 DEF IInv, Reported
  <2>2. n = l + 1 /\ l \in 0..4
    BY <1>1, <2>1
  <2> QED
    BY <2>2
<1> DEFINE criteria == Criteria(stats[1], stats[2], stats[3], stats[4], ReadResult(stage))
<1>5. CASE n < 5 /\ stats' = Append(stats, ReadResult(stage)) /\ stage' = Reads[n + 1]
           /\ UNCHANGED verdict
  BY <1>1, <1>2, <1>4, <1>5 DEF Read
<1>6. CASE /\ n = 5 /\ stage' = "done" /\ stats' = <<>>
           /\ verdict' = [sc001 |-> Sc001, database |-> criteria]
  BY <1>1, <1>2, <1>4, <1>6 DEF Read
<1>7. CASE /\ stage' = "done" /\ stats' = <<>>
           /\ verdict' = [sc001 |-> Sc001, database |-> Skipped]
  BY <1>1, <1>2, <1>4, <1>7 DEF Read
<1> QED
  BY <1>1, <1>2, <1>5, <1>6, <1>7 DEF Read

LEMMA ReadKeeps == ASSUME LoadTestAssumption, IInv, Read PROVE IInv'
<1>1. /\ now' = now /\ keyOf' = keyOf /\ pool' = pool /\ report' = report /\ gateway' = gateway
  BY ReadIs
<1>2. PICK n \in 1..5 :
        /\ n = Len(stats) + 1 /\ stage = Reads[n]
        /\ \/ /\ n < 5 /\ stage' = Reads[n + 1] /\ verdict' = verdict
              /\ stats' = Append(stats, ReadResult(stage))
           \/ stage' = "done" /\ stats' = <<>> /\ verdict'.sc001 = Sc001
  BY ReadIs
<1>3. stage \notin {"pool", "done"} /\ stage' # "pool"
  BY <1>2 DEF Reads
<1>4. stage' \in {"terminalTracked", "duplicateKeys", "retryEligible", "recovered", "done"}
  BY <1>2 DEF Reads
<1>5. stats' \in Seq(Nat)
  <2>1. ReadResult(stage) \in Nat /\ stats \in Seq(Nat)
    BY <1>2, ReadResultType DEF IInv, TypeOK
  <2>2. CASE stats' = <<>>
    BY <2>2
  <2>3. CASE stats' = Append(stats, ReadResult(stage))
    BY <2>1, <2>3
  <2> QED
    BY <1>2, <2>2, <2>3
<1>6. TypeOK'
  BY <1>1, <1>4, <1>5 DEF pool, gateway, IInv, TypeOK
<1>7. Pooled' /\ Counted'
  <2>1. Pooled'
    BY <1>1 DEF pool, IInv, Pooled
  <2>2. Counted'
    BY <1>1, CountedStays DEF pool, IInv
  <2> QED
    BY <2>1, <2>2
<1>8. IF stage' \in {"pool", "done"} THEN stats' = <<>>
      ELSE Len(stats') \in 0..4 /\ stage' = Reads[Len(stats') + 1]
  <2>1. CASE stage' = "done"
    BY <1>2, <2>1 DEF Reads
  <2>2. CASE stage' # "done"
    <3>1. /\ n < 5 /\ stage' = Reads[n + 1]
          /\ stats' = Append(stats, ReadResult(stage)) /\ n = Len(stats) + 1
      BY <1>2, <2>2
    <3>2. Len(stats') = n
      BY <1>2, <3>1, ReadResultType DEF IInv, TypeOK
    <3> QED
      BY <1>3, <2>2, <3>1, <3>2
  <2> QED
    BY <2>1, <2>2
<1>9. Sc001' = Sc001
  BY <1>1 DEF Sc001
<1>10. verdict' # None => verdict'.sc001 = Sc001
  BY <1>2 DEF IInv, Reported
<1>11. Reported'
  BY <1>1, <1>3, <1>8, <1>9, <1>10 DEF IInv, Reported, pool
<1>12. Recorded'
  BY <1>1 DEF gateway, IInv, Recorded
<1> QED
  BY <1>6, <1>7, <1>11, <1>12 DEF IInv

LEMMA ReassertKeeps == ASSUME LoadTestAssumption, IInv, Reassert PROVE IInv'
<1>1. TypeOK'
  BY DEF Reassert, pool, gateway, IInv, TypeOK
<1>2. Pooled' /\ Counted'
  <2>1. Pooled'
    BY DEF Reassert, pool, IInv, Pooled
  <2>2. Counted'
    BY CountedStays DEF Reassert, pool, IInv
  <2> QED
    BY <2>1, <2>2
<1>3. Reported'
  <2>1. Len(<<>>) = 0 /\ Reads[1] = "totalTracked"
    BY DEF Reads
  <2>2. stats' = <<>>
    BY DEF Reassert, IInv, Reported
  <2> QED
    BY <2>1, <2>2 DEF Reassert, pool, IInv, Reported, Sc001
<1>4. Recorded'
  BY DEF Reassert, gateway, IInv, Recorded
<1> QED
  BY <1>1, <1>2, <1>3, <1>4 DEF IInv

LEMMA LateJobKeeps ==
  ASSUME LoadTestAssumption, IInv, NEW i \in Events, LateJob(i)
  PROVE  IInv'
<1>1. /\ queued' = queued \cup {keyOf[i]} /\ keyOf[i] \in Keys
      /\ now' = now /\ keyOf' = keyOf /\ pool' = pool /\ check' = check
      /\ status' = status /\ attempts' = attempts
  BY KeysAreNoDuplicates DEF LateJob, IInv, TypeOK, Keys
<1>2. TypeOK'
  BY <1>1 DEF pool, check, IInv, TypeOK
<1>3. Pooled' /\ Counted'
  <2>1. Pooled'
    BY <1>1 DEF pool, IInv, Pooled
  <2>2. Counted'
    BY <1>1, CountedStays DEF pool, IInv
  <2> QED
    BY <2>1, <2>2
<1>4. Reported'
  BY <1>1 DEF pool, check, IInv, Reported, Sc001
<1>5. Recorded'
  BY <1>1 DEF IInv, Recorded
<1> QED
  BY <1>2, <1>3, <1>4, <1>5 DEF IInv

LEMMA NextKeeps == ASSUME LoadTestAssumption, IInv, Next PROVE IInv'
<1>1. CASE Tick
  BY <1>1, TickKeeps
<1>2. CASE \E k \in Keys : WorkersStep(k)
  BY <1>2, WorkersStepKeeps
<1>3. CASE \E c \in Senders : Take(c)
  BY <1>3, TakeKeeps
<1>4. CASE \E c \in Senders : Answer(c)
  BY <1>4, AnswerKeeps
<1>5. CASE GenerateReport
  BY <1>5, GenerateReportKeeps
<1>6. CASE Read
  BY <1>6, ReadKeeps
<1>7. CASE Reassert
  BY <1>7, ReassertKeeps
<1>8. CASE \E i \in Events : LateJob(i)
  BY <1>8, LateJobKeeps
<1> QED
  BY <1>1, <1>2, <1>3, <1>4, <1>5, <1>6, <1>7, <1>8 DEF Next

LEMMA StutterKeeps == ASSUME IInv, UNCHANGED vars PROVE IInv'
<1>1. TypeOK'
  BY DEF IInv, TypeOK, vars, pool, check, gateway
<1>2. Pooled' /\ Recorded'
  BY DEF IInv, Pooled, Recorded, vars, pool, gateway
<1>3. Counted'
  BY CountedStays DEF IInv, vars, pool
<1>4. Reported'
  BY DEF IInv, Reported, Sc001, vars, pool, check
<1> QED
  BY <1>1, <1>2, <1>3, <1>4 DEF IInv

\* The invariant holds whatever is answered, and however often the check is run.
THEOREM Invariance == ASSUME LoadTestAssumption PROVE Spec => []IInv
<1>1. Init => IInv
  BY InitEstablishes
<1>2. IInv /\ [Next]_vars => IInv'
  <2> QED
    BY NextKeeps, StutterKeeps
<1> QED
  BY <1>1, <1>2, PTL DEF Spec

-----------------------------------------------------------------------------
(* The pool and its report *)

\* All events have an answer when the report is there.
LEMMA AllAnswered ==
  ASSUME LoadTestAssumption, IInv, stage # "pool"
  PROVE  Answered = Events /\ counts["totalSent"] = TotalRequests /\ Len(latencies) = TotalRequests
<1>1. \A i \in Events : i < cursor /\ i # None
  BY EventSets DEF IInv, Reported, Events, LoadTestAssumption
<1>2. \A i \in Events : reply[i] # None
  BY <1>1 DEF IInv, Reported, Pooled
<1>3. Answered = Events
  BY <1>2 DEF Answered
<1> QED
  BY <1>3, EventSets DEF IInv, Counted

\* runConcurrencyPool shares its cursor without a lock: each event is nevertheless
\* sent by one consumer, and answered when the report is made.
THEOREM PoolSafety == ASSUME LoadTestAssumption PROVE Spec => []PoolSendsEachOnce
<1>1. ASSUME IInv PROVE PoolSendsEachOnce
  <2>1. ASSUME NEW i \in Events, i >= cursor
        PROVE  {c \in Senders : sender[c].event = i} = {} /\ reply[i] = None
    <3>1. i \in Nat /\ cursor \in Nat /\ i # None
      BY <1>1, EventSets DEF IInv, TypeOK, Events
    <3> QED
      BY <1>1, <2>1, <3>1 DEF IInv, Pooled
  <2>2. ASSUME NEW i \in Events, i < cursor
        PROVE  Cardinality({c \in Senders : sender[c].event = i}) = IF reply[i] = None THEN 1 ELSE 0
    <3>1. i # None
      BY EventSets
    <3>2. CASE reply[i] = None
      <4>1. PICK c \in Senders : sender[c].event = i
        BY <1>1, <2>2, <3>2 DEF IInv, Pooled
      <4>2. {b \in Senders : sender[b].event = i} = {c}
        BY <1>1, <3>1, <4>1 DEF IInv, Pooled
      <4>3. Cardinality({c}) = 1
        BY FS_Singleton
      <4> QED
        BY <3>2, <4>2, <4>3
    <3>3. CASE reply[i] # None
      <4>1. {c \in Senders : sender[c].event = i} = {}
        BY <1>1, <3>1, <3>3 DEF IInv, Pooled
      <4>2. Cardinality({}) = 0
        BY FS_EmptySet
      <4> QED
        BY <3>3, <4>1, <4>2
    <3> QED
      BY <3>2, <3>3
  <2>3. counts["totalSent"] = Cardinality({i \in Events : reply[i] # None})
    BY <1>1 DEF IInv, Counted, Answered
  <2>4. stage # "pool" => counts["totalSent"] = TotalRequests
    BY <1>1, AllAnswered
  <2> QED
    BY <2>1, <2>2, <2>3, <2>4 DEF PoolSendsEachOnce
<1> QED
  BY <1>1, Invariance, PTL

\* What is left of a finite set without a part of it.
LEMMA RestOf ==
  ASSUME NEW S, IsFiniteSet(S), NEW T \in SUBSET S
  PROVE  Cardinality(S \ T) = Cardinality(S) - Cardinality(T)
<1>1. S \cap T = T
  OBVIOUS
<1>2. Cardinality(S \ T) = Cardinality(S) - Cardinality(S \cap T)
  BY FS_Difference
<1> QED
  BY <1>1, <1>2

\* buildEvents draws the keys of duplicates from events that are none themselves:
\* they leave no records beyond those of the distinct events.
THEOREM DuplicateSafety == ASSUME LoadTestAssumption PROVE Spec => []DuplicatesMakeNoRecords
<1>1. ASSUME IInv PROVE DuplicatesMakeNoRecords
  <2>1. Tracked \ Earlier \subseteq Events \ Duplicates
    <3>1. queued \subseteq Events \ Duplicates
      <4>1. \A i \in Events : keyOf[i] \in Events \ Duplicates
        BY <1>1, KeysAreNoDuplicates DEF IInv, TypeOK
      <4> QED
        BY <1>1, <4>1 DEF IInv, Recorded
    <3> QED
      BY <1>1, <3>1 DEF IInv, Recorded, Tracked, Keys
  <2>2. IsFiniteSet(Events) /\ Cardinality(Events) = TotalRequests /\ Duplicates \subseteq Events
    BY EventSets
  <2>3. Cardinality(Events \ Duplicates) = TotalRequests - Cardinality(Duplicates)
    <3>1. Duplicates \in SUBSET Events
      BY <2>2
    <3> QED
      BY <2>2, <3>1, RestOf
  <2>4. IsFiniteSet(Events \ Duplicates)
    BY <2>2, FS_Difference
  <2>5. Tracked \ Earlier \in SUBSET (Events \ Duplicates)
    BY <2>1
  <2>6. Cardinality(Tracked \ Earlier) <= Cardinality(Events \ Duplicates)
    BY <2>4, <2>5, FS_Subset
  <2> QED
    BY <2>3, <2>6 DEF DuplicatesMakeNoRecords
<1> QED
  BY <1>1, Invariance, PTL

\* spec.md's SC-001 lies between what the code's criterion implies and what implies it,
\* for every number of requests: 99% acknowledged in time are 99% acknowledged and 95%
\* in time, and those two leave at least 94% that are both.
THEOREM CriterionSafety == ASSUME LoadTestAssumption PROVE Spec => []Sc001BracketsSpec
<1> DEFINE met == /\ 100 * Cardinality(Accepted) >= AcceptPercent * TotalRequests
                  /\ 100 * Cardinality(Quick) >= LatencyPercentile * TotalRequests
           both == {i \in Events : reply[i] = 202 /\ took[i] <= LatencyLimit}
<1>1. ASSUME IInv, stage # "pool"
      PROVE  report.sc001 = met /\ Sc001 = met
  <2>1. counts["totalSent"] = TotalRequests /\ Len(latencies) = TotalRequests
    BY <1>1, AllAnswered
  <2>2. /\ TotalRequests \in Nat \ {0} /\ LatencyLimit \in Nat
        /\ LatencyPercentile \in Percentages
    BY DEF LoadTestAssumption
  <2>3. latencies \in [1..TotalRequests -> Nat]
    BY <1>1, <2>1 DEF IInv, TypeOK
  <2>4. Percentile(latencies, LatencyPercentile) <= LatencyLimit
          <=> 100 * Cardinality(Quick) >= LatencyPercentile * TotalRequests
    <3>1. Percentile(latencies, LatencyPercentile) <= LatencyLimit
            <=> 100 * Cardinality(Within) >= LatencyPercentile * TotalRequests
      BY <2>1, <2>2, <2>3, PercentileWithin DEF Within
    <3> QED
      BY <1>1, <3>1 DEF IInv, Counted
  <2>5. /\ report.accepted = Cardinality(Accepted) /\ report.totalSent = TotalRequests
        /\ report.p95 = Percentile(latencies, LatencyPercentile)
        /\ report.sc001 = Acceptable(report.accepted, AtLeast(1, report.totalSent), report.p95)
    BY <1>1, <2>1 DEF IInv, Reported, Counted
  <2>6. AtLeast(1, TotalRequests) = TotalRequests /\ TotalRequests > 0
    BY <2>2 DEF AtLeast
  <2>7. Acceptable(Cardinality(Accepted), TotalRequests, Percentile(latencies, LatencyPercentile)) = met
    BY <2>4 DEF Acceptable
  <2>8. report.sc001 = met
    <3>1. report.sc001 =
            Acceptable(Cardinality(Accepted), TotalRequests, Percentile(latencies, LatencyPercentile))
      BY <2>5, <2>6, Zenon
    <3> QED
      BY <2>7, <3>1, Zenon
  <2>9. Sc001 = met
    <3>1. /\ report.totalSent > 0
          /\ Acceptable(report.accepted, report.totalSent, report.p95) = met
      BY <2>5, <2>6, <2>7, Zenon
    <3> QED
      BY <3>1, Zenon DEF Sc001
  <2> QED
    BY <2>8, <2>9, Zenon
\* Of all events, those that miss one of the two marks are at most those that miss
\* the one and those that miss the other.
<1>2. ASSUME IInv, stage # "pool"
      PROVE  /\ 100 * Cardinality(both) >= AcceptPercent * TotalRequests => met
             /\ met => 100 * Cardinality(both)
                         >= (AcceptPercent + LatencyPercentile - 100) * TotalRequests
  <2>1. /\ IsFiniteSet(Accepted) /\ IsFiniteSet(Quick)
        /\ Cardinality(Accepted \cup Quick) <= TotalRequests
    <3>1. /\ Accepted \in SUBSET Events /\ Quick \in SUBSET Events
          /\ Accepted \cup Quick \in SUBSET Events
      BY DEF Accepted, Quick
    <3>2. IsFiniteSet(Events) /\ Cardinality(Events) = TotalRequests
      BY EventSets
    <3> QED
      BY <3>1, <3>2, FS_Subset
  <2>2. both = Accepted \cap Quick
    <3>1. None # 202
      BY DEF LoadTestAssumption
    <3> QED
      BY <3>1 DEF Accepted, Quick
  <2> HIDE DEF both
  <2>3. /\ Cardinality(both) <= Cardinality(Accepted) /\ Cardinality(both) <= Cardinality(Quick)
    <3>1. both \in SUBSET Accepted /\ both \in SUBSET Quick
      BY <2>2
    <3> QED
      BY <2>1, <3>1, FS_Subset
  <2>4. Cardinality(Accepted \cup Quick)
          = Cardinality(Accepted) + Cardinality(Quick) - Cardinality(both)
    BY <2>1, <2>2, FS_Union
  <2>5. /\ Cardinality(Accepted) \in Nat /\ Cardinality(Quick) \in Nat
        /\ Cardinality(both) \in Nat
    <3>1. IsFiniteSet(both)
      BY <2>1, <2>2, FS_Intersection
    <3> QED
      BY <2>1, <3>1, FS_CardinalityType
  <2>6. PICK x, y : x = AcceptPercent * TotalRequests /\ y = LatencyPercentile * TotalRequests
    OBVIOUS
  <2>7. /\ x \in Int /\ y \in Int /\ y <= x /\ TotalRequests \in Nat
        /\ (AcceptPercent + LatencyPercentile - 100) * TotalRequests
             = x + y - 100 * TotalRequests
    <3>1. /\ AcceptPercent \in Nat /\ LatencyPercentile \in Nat /\ TotalRequests \in Nat
          /\ AcceptPercent - LatencyPercentile \in Nat
      BY DEF LoadTestAssumption, Percentages
    <3>2. (AcceptPercent - LatencyPercentile) * TotalRequests \in Nat
      BY <3>1
    <3>3. (AcceptPercent - LatencyPercentile) * TotalRequests = x - y
      BY <2>6, <3>1
    <3>4. (AcceptPercent + LatencyPercentile - 100) * TotalRequests
            = x + y - 100 * TotalRequests
      BY <2>6, <3>1
    <3>5. x \in Int /\ y \in Int
      BY <2>6, <3>1
    <3> QED
      BY <3>1, <3>2, <3>3, <3>4, <3>5
  <2>8. met <=> 100 * Cardinality(Accepted) >= x /\ 100 * Cardinality(Quick) >= y
    BY <2>6
  <2> HIDE DEF met
  <2> QED
    BY <2>1, <2>3, <2>4, <2>5, <2>6, <2>7, <2>8
<1>3. ASSUME IInv PROVE Sc001BracketsSpec
  <2>1. CASE stage = "pool"
    BY <1>3, <2>1 DEF IInv, Reported, Sc001BracketsSpec
  <2>2. CASE stage # "pool"
    <3>1. report.sc001 = met /\ (verdict # None => verdict.sc001 = met)
      BY <1>1, <1>3, <2>2 DEF IInv, Reported
    <3>2. /\ 100 * Cardinality(both) >= AcceptPercent * TotalRequests => met
          /\ met => 100 * Cardinality(both)
                      >= (AcceptPercent + LatencyPercentile - 100) * TotalRequests
      BY <1>2, <1>3, <2>2
    <3> HIDE DEF met
    <3> QED
      BY <3>1, <3>2 DEF Sc001BracketsSpec
  <2> QED
    BY <2>1, <2>2
<1> QED
  BY <1>3, Invariance, PTL

-----------------------------------------------------------------------------
(* The threshold check *)

\* What the check has read so far is not more than what there is.
ReadSoFar == \A n \in 1..Len(stats) : stats[n] <= ReadResult(Reads[n])

\* Records are not lost or reopened, and attempts are only added.
LEMMA RecordsGrow ==
  ASSUME IInv, [Next]_vars, NEW k \in Keys
  PROVE  /\ status[k] # "none" => status'[k] # "none"
         /\ status[k] \in {"processed", "dead_lettered"} => status'[k] = status[k]
         /\ attempts[k] <= attempts'[k]
<1>1. attempts[k] \in Nat
  BY DEF IInv, TypeOK
<1>2. ASSUME NEW j \in Keys, WorkersStep(j)
      PROVE  /\ status[k] # "none" => status'[k] # "none"
             /\ status[k] \in {"processed", "dead_lettered"} => status'[k] = status[k]
             /\ attempts[k] <= attempts'[k]
  <2>1. PICK to \in RecordStatuses \ {"none"} : status' = [status EXCEPT ![j] = to]
    BY <1>2, WorkersStepMoves DEF IInv
  <2>2. status[j] \in {"none", "received", "failed", "processing"}
    BY <1>2 DEF WorkersStep, Ledger!Receive, Ledger!Begin, Ledger!Succeed, Ledger!Fail,
                Ledger!Bury, Ledger!Becomes, Ledger!Ending
  <2>3. attempts' = attempts \/ attempts' = [attempts EXCEPT ![j] = @ + 1]
    BY <1>2 DEF WorkersStep, Ledger!Receive, Ledger!Begin, Ledger!Succeed, Ledger!Fail, Ledger!Bury
  <2>4. status'[k] = IF k = j THEN to ELSE status[k]
    BY <2>1 DEF IInv, TypeOK
  <2>5. attempts[k] <= attempts'[k]
    <3>1. attempts'[k] \in {attempts[k], attempts[k] + 1}
      BY <2>3 DEF IInv, TypeOK
    <3> QED
      BY <1>1, <3>1
  <2> QED
    BY <2>2, <2>4, <2>5
<1>3. CASE status' = status /\ attempts' = attempts
  BY <1>1, <1>3
<1>4. (\E j \in Keys : WorkersStep(j)) \/ (status' = status /\ attempts' = attempts)
  <2>1. CASE Tick \/ GenerateReport \/ Read \/ Reassert
    BY <2>1 DEF Tick, GenerateReport, Read, Reassert, gateway
  <2>2. CASE \E c \in Senders : Take(c) \/ Answer(c)
    BY <2>2 DEF Take, Answer, gateway
  <2>3. CASE \E i \in Events : LateJob(i)
    BY <2>3 DEF LateJob
  <2>4. CASE UNCHANGED vars
    BY <2>4 DEF vars, gateway
  <2> QED
    BY <2>1, <2>2, <2>3, <2>4 DEF Next
<1> QED
  BY <1>2, <1>3, <1>4

\* So that a count that is taken later is not smaller.
LEMMA ReadsGrow ==
  ASSUME LoadTestAssumption, IInv, [Next]_vars, NEW n \in 1..5
  PROVE  ReadResult(Reads[n]) \in Nat /\ ReadResult(Reads[n])' \in Nat
           /\ ReadResult(Reads[n]) <= ReadResult(Reads[n])'
<1>1. IsFiniteSet(Keys)
  BY EventSets, FS_Union DEF Keys, LoadTestAssumption
<1>2. ASSUME NEW T \in SUBSET Keys, NEW S \in SUBSET T
      PROVE  Cardinality(S) \in Nat /\ Cardinality(T) \in Nat /\ Cardinality(S) <= Cardinality(T)
  BY <1>1, FS_Subset, FS_CardinalityType
<1>3. \A k \in Keys : attempts[k] \in Nat
  BY DEF IInv, TypeOK
<1>4. \A k \in Keys : attempts[k] > 1 => attempts'[k] > 1
  <2> SUFFICES ASSUME NEW k \in Keys, attempts[k] > 1 PROVE attempts'[k] > 1
    OBVIOUS
  <2>1. attempts[k] <= attempts'[k] /\ attempts[k] \in Nat
    BY <1>3, RecordsGrow
  <2>2. attempts'[k] \in Int
    <3>1. IInv'
      BY NextKeeps, StutterKeeps
    <3> QED
      BY <3>1 DEF IInv, TypeOK
  <2> QED
    BY <2>1, <2>2
<1>5. /\ Tracked' \in SUBSET Keys /\ Tracked \in SUBSET Tracked'
      /\ TerminalTracked' \in SUBSET Keys /\ TerminalTracked \in SUBSET TerminalTracked'
      /\ RetryEligible' \in SUBSET Keys /\ RetryEligible \in SUBSET RetryEligible'
      /\ Recovered' \in SUBSET Keys /\ Recovered \in SUBSET Recovered'
  BY <1>4, RecordsGrow DEF Tracked, TerminalTracked, RetryEligible, Recovered
<1>6. /\ Cardinality(Tracked) <= Cardinality(Tracked')
      /\ Cardinality(TerminalTracked) <= Cardinality(TerminalTracked')
      /\ Cardinality(RetryEligible) <= Cardinality(RetryEligible')
      /\ Cardinality(Recovered) <= Cardinality(Recovered')
      /\ {Cardinality(Tracked), Cardinality(Tracked'), Cardinality(TerminalTracked),
          Cardinality(TerminalTracked'), Cardinality(RetryEligible), Cardinality(RetryEligible'),
          Cardinality(Recovered), Cardinality(Recovered')} \subseteq Nat
  BY <1>2, <1>5
<1>7. Reads[n] \in {"totalTracked", "terminalTracked", "duplicateKeys", "retryEligible", "recovered"}
  BY DEF Reads
<1> QED
  BY <1>6, <1>7 DEF ReadResult

LEMMA NextKeepsReadSoFar ==
  ASSUME LoadTestAssumption, IInv, ReadSoFar, [Next]_vars
  PROVE  ReadSoFar'
<1>1. CASE stats' = stats
  <2> SUFFICES ASSUME NEW n \in 1..Len(stats)
               PROVE  stats[n] <= ReadResult(Reads[n])'
    BY <1>1 DEF ReadSoFar
  <2>1. stats[n] \in Nat /\ stats[n] <= ReadResult(Reads[n])
    BY DEF ReadSoFar, IInv, TypeOK
  <2>2. n \in 1..5
    <3>1. PICK l \in 0..4 : l = Len(stats)
      <4>1. stage \in {"pool", "done"} => Len(stats) = 0
        BY DEF IInv, Reported
      <4> QED
        BY <4>1 DEF IInv, Reported
    <3> QED
      BY <3>1
  <2>3. /\ ReadResult(Reads[n]) \in Nat /\ ReadResult(Reads[n])' \in Nat
        /\ ReadResult(Reads[n]) <= ReadResult(Reads[n])'
    BY <2>2, ReadsGrow
  <2> QED
    BY <2>1, <2>3
<1>2. CASE Read
  <2>1. gateway' = gateway
    BY <1>2, ReadIs
  <2>2. PICK n \in 1..5 :
          /\ n = Len(stats) + 1 /\ stage = Reads[n]
          /\ stats' = Append(stats, ReadResult(stage)) \/ stats' = <<>>
    BY <1>2, ReadIs
  <2>3. \A read : ReadResult(read)' = ReadResult(read)
    BY <2>1 DEF gateway, ReadResult, Tracked, TerminalTracked, RetryEligible, Recovered
  <2>4. CASE stats' = <<>>
    BY <2>4 DEF ReadSoFar
  <2>5. CASE stats' = Append(stats, ReadResult(stage))
    <3>1. stats \in Seq(Nat) /\ ReadResult(stage) \in Nat
      BY <2>2, ReadResultType DEF IInv, TypeOK
    <3>2. ASSUME NEW m \in 1..Len(stats') PROVE stats'[m] <= ReadResult(Reads[m])
      <4>1. CASE m = n
        <5>1. stats'[m] = ReadResult(Reads[m])
          BY <2>2, <2>5, <3>1, <4>1
        <5> QED
          BY <2>2, <3>1, <4>1, <5>1
      <4>2. CASE m # n
        BY <2>2, <2>5, <3>1, <4>2 DEF ReadSoFar
      <4> QED
        BY <4>1, <4>2
    <3> QED
      BY <2>3, <3>2 DEF ReadSoFar
  <2> QED
    BY <2>2, <2>4, <2>5
<1>3. stats' = stats \/ Read
  <2>1. CASE Tick \/ GenerateReport \/ Reassert
    BY <2>1 DEF Tick, GenerateReport, Reassert, check
  <2>2. CASE \E c \in Senders : Take(c) \/ Answer(c)
    BY <2>2 DEF Take, Answer, check
  <2>3. CASE (\E i \in Events : LateJob(i)) \/ \E k \in Keys : WorkersStep(k)
    BY <2>3 DEF LateJob, WorkersStep, check
  <2>4. CASE UNCHANGED vars
    BY <2>4 DEF vars, check
  <2> QED
    BY <2>1, <2>2, <2>3, <2>4 DEF Next
<1> QED
  BY <1>1, <1>2, <1>3

\* tryReadMongoStats reads five counts one after the other, beside the workers: for any
\* number of events, a check passes SC-002 only if all records have ended or one was
\* added meanwhile, never fails SC-004 when enough have recovered, and passes it only
\* if enough have or one became eligible meanwhile.
THEOREM CheckSafety == ASSUME LoadTestAssumption PROVE Spec => CheckBesideWorkers
<1> DEFINE ends == stage # "done" /\ stage' = "done" /\ verdict'.database # Skipped
           enough == 100 * Cardinality(Recovered) >= 95 * Cardinality(RetryEligible)
           sound == /\ verdict'.database.sc002 /\ stats[1] = Cardinality(Tracked) =>
                         \A k \in Tracked : status[k] \in {"processed", "dead_lettered"}
                    /\ ~verdict'.database.sc004 => ~enough
                    /\ verdict'.database.sc004 /\ stats[4] = Cardinality(RetryEligible) => enough
<1>1. ASSUME IInv, ReadSoFar, Next, ends PROVE sound
  <2>1. Read
    <3>1. ~Tick /\ ~GenerateReport /\ ~Reassert
      BY <1>1 DEF Tick, GenerateReport, Reassert, check
    <3>2. \A c \in Senders : ~Take(c) /\ ~Answer(c)
      BY <1>1 DEF Take, Answer, check
    <3>3. (\A i \in Events : ~LateJob(i)) /\ \A k \in Keys : ~WorkersStep(k)
      BY <1>1 DEF LateJob, WorkersStep, check
    <3> QED
      BY <1>1, <3>1, <3>2, <3>3 DEF Next
  <2>2. PICK n \in 1..5 :
          /\ n = Len(stats) + 1 /\ stage = Reads[n]
          /\ \/ /\ n < 5 /\ stage' = Reads[n + 1] /\ verdict' = verdict
                /\ stats' = Append(stats, ReadResult(stage))
             \/ /\ stage' = "done" /\ stats' = <<>> /\ verdict'.sc001 = Sc001
                /\ verdict'.database \in
                     {Skipped, Criteria(stats[1], stats[2], stats[3], stats[4], ReadResult(stage))}
                /\ verdict'.database # Skipped => n = 5
    BY <1>1, <2>1, ReadIs
  <2>3. /\ n = 5
        /\ verdict'.database =
             Criteria(stats[1], stats[2], stats[3], stats[4], ReadResult(stage))
    <3>1. n < 5 => Reads[n + 1] # "done"
      BY DEF Reads
    <3> QED
      BY <1>1, <2>2, <3>1
  <2>4. Len(stats) = 4 /\ stage = "recovered"
    <3>1. PICK l \in Nat : l = Len(stats)
      BY <1>1 DEF IInv, TypeOK
    <3>2. l = 4
      BY <2>2, <2>3, <3>1
    <3> QED
      BY <2>2, <2>3, <3>1, <3>2 DEF Reads
  <2>5. PICK total, terminal, eligible :
          total = stats[1] /\ terminal = stats[2] /\ eligible = stats[4]
    OBVIOUS
  <2>6. /\ total \in Nat /\ terminal \in Nat /\ eligible \in Nat
        /\ terminal <= Cardinality(TerminalTracked)
        /\ eligible <= Cardinality(RetryEligible)
    <3>1. \A m \in 1..4 : stats[m] \in Nat /\ stats[m] <= ReadResult(Reads[m])
      <4>1. \A m \in 1..Len(stats) : stats[m] \in Nat
        BY <1>1 DEF IInv, TypeOK
      <4>2. \A m \in 1..Len(stats) : stats[m] <= ReadResult(Reads[m])
        BY <1>1 DEF ReadSoFar
      <4>3. 1..Len(stats) = 1..4
        BY <2>4, Zenon
      <4> QED
        BY <4>1, <4>2, <4>3, Zenon
    <3>2. /\ ReadResult(Reads[2]) = Cardinality(TerminalTracked)
          /\ ReadResult(Reads[4]) = Cardinality(RetryEligible)
      BY DEF Reads, ReadResult
    <3>3. /\ stats[1] \in Nat /\ stats[2] \in Nat /\ stats[4] \in Nat
          /\ stats[2] <= ReadResult(Reads[2]) /\ stats[4] <= ReadResult(Reads[4])
      BY <3>1
    <3> QED
      BY <2>5, <3>2, <3>3
  <2>7. /\ verdict'.database.sc002 <=> total > 0 /\ terminal = total
        /\ verdict'.database.sc004 <=>
             eligible = 0 \/ 100 * Cardinality(Recovered) >= 95 * eligible
    <3>1. verdict'.database = Criteria(total, terminal, stats[3], eligible, Cardinality(Recovered))
      BY <2>3, <2>4, <2>5 DEF ReadResult
    <3> DEFINE criteria == Criteria(total, terminal, stats[3], eligible, Cardinality(Recovered))
    <3>2. /\ criteria.sc002 <=> total > 0 /\ terminal = total
          /\ criteria.sc004 <=> eligible = 0 \/ 100 * Cardinality(Recovered) >= 95 * eligible
      BY DEF Criteria
    <3>3. verdict'.database.sc002 = criteria.sc002 /\ verdict'.database.sc004 = criteria.sc004
      BY <3>1
    <3> HIDE DEF criteria
    <3> QED
      BY <3>2, <3>3
  <2>8. /\ IsFiniteSet(Tracked) /\ TerminalTracked \in SUBSET Tracked
        /\ Cardinality(Tracked) \in Nat /\ Cardinality(TerminalTracked) \in Nat
        /\ Cardinality(TerminalTracked) <= Cardinality(Tracked)
        /\ Cardinality(TerminalTracked) = Cardinality(Tracked) => TerminalTracked = Tracked
        /\ Cardinality(RetryEligible) \in Nat /\ Cardinality(Recovered) \in Nat
    <3>1. IsFiniteSet(Keys)
      BY EventSets, FS_Union DEF Keys, LoadTestAssumption
    <3>2. /\ Tracked \in SUBSET Keys /\ TerminalTracked \in SUBSET Tracked
          /\ RetryEligible \in SUBSET Keys /\ Recovered \in SUBSET Keys
      BY DEF Tracked, TerminalTracked, RetryEligible, Recovered
    <3>3. IsFiniteSet(Tracked) /\ IsFiniteSet(RetryEligible) /\ IsFiniteSet(Recovered)
      BY <3>1, <3>2, FS_Subset
    <3> QED
      BY <3>2, <3>3, FS_Subset, FS_CardinalityType
  <2>9. ASSUME verdict'.database.sc002, total = Cardinality(Tracked)
        PROVE  \A k \in Tracked : status[k] \in {"processed", "dead_lettered"}
    <3>1. Cardinality(TerminalTracked) = Cardinality(Tracked)
      BY <2>6, <2>7, <2>8, <2>9
    <3>2. Tracked = TerminalTracked
      BY <2>8, <3>1
    <3> QED
      BY <3>2 DEF TerminalTracked
  <2>10. ~verdict'.database.sc004 => ~enough
    BY <2>6, <2>7, <2>8
  <2>11. verdict'.database.sc004 /\ eligible = Cardinality(RetryEligible) => enough
    BY <2>6, <2>7, <2>8
  <2> QED
    BY <2>5, <2>9, <2>10, <2>11
<1>2. IInv /\ ReadSoFar /\ [Next]_vars => [ends => sound]_vars
  <2> HIDE DEF ends, sound
  <2> QED
    BY <1>1
<1>3. Init => ReadSoFar
  BY DEF Init, ReadSoFar
<1>4. IInv /\ ReadSoFar /\ [Next]_vars => ReadSoFar'
  BY NextKeepsReadSoFar
<1>5. CheckBesideWorkers <=> [][ends => sound]_vars
  BY DEF CheckBesideWorkers, Tracked, RetryEligible, Recovered
<1> HIDE DEF ends, sound
<1> QED
  BY <1>2, <1>3, <1>4, <1>5, Invariance, PTL DEF Spec

=============================================================================
