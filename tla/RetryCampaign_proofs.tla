------------------------ MODULE RetryCampaign_proofs ------------------------
(***************************************************************************)
(* Proofs about the retry decisions, for every set of legal configurations, *)
(* of errors and of random factors.                                         *)
(*                                                                          *)
(* The delays rest on the powers of the multiplier. Power is a recursive    *)
(* function, of which the provers know its definition only: that there is   *)
(* such a function is proved first, by the least number up to which there   *)
(* were none.                                                               *)
(***************************************************************************)
EXTENDS RetryCampaign, TLAPS, WellFoundedInduction

-----------------------------------------------------------------------------
(* Powers *)

LessThan == {pair \in Nat \X Nat : pair[1] < pair[2]}

\* A set of naturals has a least element.
LEMMA LeastElement ==
  ASSUME NEW S \in SUBSET Nat, S # {}
  PROVE  \E n \in S : \A m \in S : n <= m
<1>1. IsWellFoundedOn(LessThan, Nat)
  BY NatLessThanWellFounded, Zenon DEF OpToRel, LessThan
<1>2. PICK n \in S : \A m \in S : <<m, n>> \notin LessThan
  BY <1>1, WFMin, Zenon
<1>3. \A m \in S : n \in Nat /\ m \in Nat /\ (m < n => <<m, n>> \in LessThan)
  BY DEF LessThan
<1>4. ASSUME NEW m \in S PROVE n <= m
  <2>1. ~(m < n) /\ m \in Nat /\ n \in Nat
    BY <1>2, <1>3
  <2> QED
    BY <2>1
<1> QED
  BY <1>4

\* The powers of b, up to the n-th.
IsPowers(p, b, n) == p[0] = 1 /\ \A i \in 1..n : p[i] = b * p[i - 1]

LEMMA PowersUpTo ==
  ASSUME NEW b \in Nat, NEW n \in Nat
  PROVE  \E p \in [Nat -> Nat] : IsPowers(p, b, n)
<1> DEFINE Missing == {m \in Nat : ~ \E p \in [Nat -> Nat] : IsPowers(p, b, m)}
<1> SUFFICES ASSUME Missing # {} PROVE FALSE
  OBVIOUS
<1>1. PICK m \in Missing : \A k \in Missing : m <= k
  BY LeastElement
<1>2. m # 0
  <2>1. [i \in Nat |-> 1] \in [Nat -> Nat] /\ IsPowers([i \in Nat |-> 1], b, 0)
    BY DEF IsPowers
  <2> QED
    BY <2>1
<1>3. m - 1 \in Nat /\ m - 1 \notin Missing
  <2>1. m \in Nat /\ m - 1 \in Nat /\ ~(m <= m - 1)
    BY <1>1, <1>2
  <2> QED
    BY <1>1, <2>1
<1>4. PICK p \in [Nat -> Nat] : IsPowers(p, b, m - 1)
  BY <1>3
<1> DEFINE q == [p EXCEPT ![m] = b * p[m - 1]]
<1>5. q \in [Nat -> Nat]
  <2>1. b * p[m - 1] \in Nat
    BY <1>3
  <2> QED
    BY <2>1
<1>6. IsPowers(q, b, m)
  <2>1. q[0] = 1
    BY <1>2, <1>4 DEF IsPowers
  <2>2. ASSUME NEW i \in 1..m PROVE q[i] = b * q[i - 1]
    <3>1. m \in Nat /\ i - 1 \in Nat /\ i - 1 # m
      BY <1>1
    <3>2. CASE i = m
      BY <3>1, <3>2
    <3>3. CASE i # m
      <4>1. i \in 1..m - 1 /\ i \in Nat
        BY <3>1, <3>3
      <4>2. p[i] = b * p[i - 1]
        BY <1>4, <4>1 DEF IsPowers
      <4>3. q[i] = p[i] /\ q[i - 1] = p[i - 1]
        BY <3>1, <3>3, <4>1
      <4> QED
        BY <4>2, <4>3
    <3> QED
      BY <3>2, <3>3
  <2> QED
    BY <2>1, <2>2 DEF IsPowers
<1> HIDE DEF q
<1> QED
  BY <1>1, <1>5, <1>6

\* Two of them agree as far as both go.
LEMMA PowersAgree ==
  ASSUME NEW b \in Nat, NEW n \in Nat,
         NEW p \in [Nat -> Nat], NEW q \in [Nat -> Nat],
         IsPowers(p, b, n), IsPowers(q, b, n)
  PROVE  \A i \in 0..n : p[i] = q[i]
<1> DEFINE Differ == {i \in 0..n : p[i] # q[i]}
<1> SUFFICES ASSUME Differ # {} PROVE FALSE
  OBVIOUS
<1>1. PICK i \in Differ : \A j \in Differ : i <= j
  <2>1. Differ \in SUBSET Nat
    OBVIOUS
  <2> HIDE DEF Differ
  <2> QED
    BY <2>1, LeastElement
<1>2. i \in 1..n /\ i - 1 \in 0..n
  <2>1. i # 0
    BY DEF IsPowers
  <2> QED
    BY <2>1
<1>3. p[i - 1] = q[i - 1]
  BY <1>1, <1>2
<1>4. p[i] = b * p[i - 1] /\ q[i] = b * q[i - 1]
  BY <1>2 DEF IsPowers
<1> QED
  BY <1>3, <1>4

\* Power(b) is what its definition says: b to the n.
LEMMA PowerIs ==
  ASSUME NEW b \in Nat
  PROVE  /\ Power(b) \in [Nat -> Nat]
         /\ Power(b)[0] = 1
         /\ \A n \in Nat : Power(b)[n + 1] = b * Power(b)[n]
<1> DEFINE Upto(n) == CHOOSE p \in [Nat -> Nat] : IsPowers(p, b, n)
           Def(p) == [n \in Nat |-> IF n = 0 THEN 1 ELSE b * p[n - 1]]
<1>1. \A n \in Nat : Upto(n) \in [Nat -> Nat] /\ IsPowers(Upto(n), b, n)
  BY PowersUpTo
<1> HIDE DEF Upto
<1> DEFINE all == [n \in Nat |-> Upto(n)[n]]
<1>2. \A n \in Nat : all[n] = Upto(n)[n] /\ all[n] \in Nat
  BY <1>1
<1>3. ASSUME NEW n \in Nat, n # 0 PROVE all[n] = b * all[n - 1]
  <2>1. n - 1 \in Nat /\ n \in 1..n /\ n - 1 \in 0..n - 1
    BY <1>3
  <2>2. Upto(n)[n] = b * Upto(n)[n - 1]
    BY <1>1, <2>1 DEF IsPowers
  <2>3. Upto(n)[n - 1] = Upto(n - 1)[n - 1]
    <3>1. PICK m \in Nat, p \in [Nat -> Nat], q \in [Nat -> Nat] :
            m = n - 1 /\ p = Upto(n) /\ q = Upto(m)
      BY <1>1, <2>1
    <3>2. IsPowers(p, b, n) /\ IsPowers(q, b, m)
      BY <1>1, <3>1
    <3>3. IsPowers(p, b, m)
      BY <3>1, <3>2 DEF IsPowers
    <3>4. \A i \in 0..m : p[i] = q[i]
      BY <3>2, <3>3, PowersAgree
    <3> QED
      BY <3>1, <3>4
  <2> QED
    BY <1>2, <2>1, <2>2, <2>3
<1>4. all[0] = 1
  BY <1>1, <1>2 DEF IsPowers
<1>5. all = Def(all)
  <2>1. \A n \in Nat : all[n] = Def(all)[n]
    BY <1>3, <1>4
  <2> QED
    BY <2>1
<1> HIDE DEF all
<1>6. Power(b) = Def(Power(b))
  <2>1. Power(b) = CHOOSE p : p = Def(p)
    BY DEF Power
  <2> QED
    BY <1>5, <2>1
<1>7. \A n \in Nat : Power(b)[n] = IF n = 0 THEN 1 ELSE b * Power(b)[n - 1]
  BY <1>6
<1>8. DOMAIN Power(b) = Nat
  BY <1>6
<1> HIDE DEF Def
<1>9. \A n \in Nat : Power(b)[n] \in Nat
  <2> DEFINE Odd == {n \in Nat : Power(b)[n] \notin Nat}
  <2> SUFFICES ASSUME Odd # {} PROVE FALSE
    OBVIOUS
  <2>1. PICK n \in Odd : \A m \in Odd : n <= m
    BY LeastElement
  <2>2. n # 0 /\ n - 1 \in Nat /\ n - 1 \notin Odd
    BY <1>7, <2>1
  <2> QED
    BY <1>7, <2>2
<1>10. Power(b)[0] = 1
  BY <1>7
<1>11. ASSUME NEW n \in Nat PROVE Power(b)[n + 1] = b * Power(b)[n]
  <2>1. n + 1 \in Nat /\ n + 1 # 0 /\ (n + 1) - 1 = n
    OBVIOUS
  <2> QED
    BY <1>7, <2>1
<1>12. Power(b) = [n \in Nat |-> Power(b)[n]]
  BY <1>6 DEF Def
<1> QED
  BY <1>9, <1>10, <1>11, <1>12

-----------------------------------------------------------------------------
(* Attempts *)

\* What the campaign knows of its attempts, whatever the delays are.
Counted ==
  /\ config \in Configs
  /\ attempt \in 1..config.maxAttempts
  /\ OutageUsesEveryAttempt

\* The attempts of a campaign stay within the limit.
THEOREM Counting == ASSUME RetryCampaignAssumption PROVE Spec => []Counted
<1>1. Init => Counted
  BY DEF RetryCampaignAssumption, LegalConfig, Init, Counted, OutageUsesEveryAttempt
<1>2. Counted /\ [Next]_vars => Counted'
  <2> SUFFICES ASSUME Counted, [Next]_vars PROVE Counted'
    OBVIOUS
  <2>1. config.maxAttempts \in Nat \ {0}
    BY DEF RetryCampaignAssumption, LegalConfig, Counted
  <2>2. CASE UNCHANGED vars
    BY <2>2 DEF vars, Counted, OutageUsesEveryAttempt, IsDependencyFailure
  <2>3. CASE Next /\ Retry
    <3>1. attempt < config.maxAttempts /\ attempt' = attempt + 1 /\ outcome' = "trying"
      BY <2>3 DEF Next, Retry, ShouldRetry
    <3> QED
      BY <2>1, <2>3, <3>1 DEF Next, Counted, OutageUsesEveryAttempt
  <2>4. CASE Next /\ GiveUp
    <3>1. attempt' = attempt /\ config' = config /\ outcome' = "dead_lettered"
      BY <2>4 DEF Next, GiveUp
    <3>2. ASSUME IsDependencyFailure(error') PROVE attempt = config.maxAttempts
      <4>1. Classified.classification = "transient"
        BY <3>2 DEF Classified, ClassifyError
      <4>2. ~(attempt < config.maxAttempts)
        BY <2>4, <4>1 DEF GiveUp, ShouldRetry
      <4> QED
        BY <2>1, <4>2 DEF Counted
    <3>3. IsDependencyFailure(error)' <=> IsDependencyFailure(error')
      BY DEF IsDependencyFailure
    <3> QED
      BY <3>1, <3>2, <3>3 DEF Counted, OutageUsesEveryAttempt
  <2> QED
    BY <2>2, <2>3, <2>4 DEF Next
<1> QED
  BY <1>1, <1>2, PTL DEF Spec

\* error-classifier.ts:38 looks for a dependency failure first: an outage is
\* never mistaken for bad data, and buries an event after its last attempt only.
THEOREM OutagePriority == ASSUME RetryCampaignAssumption PROVE Spec => []OutageUsesEveryAttempt
<1>1. Counted => OutageUsesEveryAttempt
  BY DEF Counted
<1> QED
  BY <1>1, Counting, PTL

\* calculateBackoffDelay returns null beyond the maximum only (retry-policy.ts:15).
LEMMA DelayKnown ==
  ASSUME NEW n, NEW c, NEW r, ~BeyondMaximum(n, c)
  PROVE  CalculateBackoffDelay(n, c, r) # NoDelay
<1>1. ASSUME NEW x PROVE Greatest(0, x) # NoDelay
  <2>1. CASE x = -1
    BY <2>1 DEF Greatest, NoDelay
  <2>2. CASE x # -1
    BY <2>2 DEF Greatest, NoDelay
  <2> QED
    BY <2>1, <2>2
<1> QED
  BY <1>1 DEF CalculateBackoffDelay

\* Wherever shouldRetry allows an attempt there is a delay for it: the fallback
\* of process-event.ts:160 is dead code.
THEOREM FallbackIsDead == ASSUME RetryCampaignAssumption PROVE Spec => []FallbackNeverTaken
<1>1. Counted => FallbackNeverTaken
  <2> SUFFICES ASSUME Counted, NEW r \in Randoms, attempt < config.maxAttempts
               PROVE  CalculateBackoffDelay(attempt, config, r) # NoDelay
    BY DEF FallbackNeverTaken
  <2>1. config.maxAttempts \in Nat /\ attempt \in Nat
    BY DEF RetryCampaignAssumption, LegalConfig, Counted
  <2>2. ~BeyondMaximum(attempt, config)
    BY <2>1 DEF BeyondMaximum
  <2> QED
    BY <2>2, DelayKnown
<1> QED
  BY <1>1, Counting, PTL

-----------------------------------------------------------------------------
(* Delays *)

LEMMA PowerPositive ==
  ASSUME NEW b \in Nat \ {0}, NEW n \in Nat
  PROVE  Power(b)[n] \in Nat \ {0}
<1> DEFINE Zero == {m \in Nat : Power(b)[m] = 0}
<1>1. ASSUME Zero # {} PROVE FALSE
  <2>1. PICK m \in Zero : \A k \in Zero : m <= k
    BY <1>1, LeastElement
  <2>2. m # 0
    BY PowerIs, <2>1
  <2>3. m - 1 \in Nat /\ (m - 1) + 1 = m /\ m - 1 \notin Zero
    <3>1. m \in Nat /\ m - 1 \in Nat /\ ~(m <= m - 1)
      BY <2>1, <2>2
    <3> QED
      BY <2>1, <3>1
  <2>4. Power(b)[m] = b * Power(b)[m - 1] /\ Power(b)[m - 1] \in Nat \ {0}
    BY <2>3, PowerIs
  <2> DEFINE x == Power(b)[m - 1]
  <2>5. b * x # 0
    <3>1. x \in Nat \ {0}
      BY <2>4
    <3> HIDE DEF x
    <3> QED
      BY <3>1
  <2> QED
    BY <2>1, <2>4, <2>5
<1> QED
  BY <1>1, PowerIs

\* Math.round: the nearest whole number, the next one at a half.
LEMMA Rounding ==
  ASSUME NEW a \in Nat, NEW b \in Nat \ {0}
  PROVE  /\ RoundHalfUp(a, b) \in Nat
         /\ 2 * (b * RoundHalfUp(a, b)) <= 2 * a + b
         /\ 2 * a < 2 * (b * RoundHalfUp(a, b)) + b
<1>1. ASSUME NEW x \in Nat, NEW y \in Nat \ {0}, NEW d, d = x \div y
      PROVE  d \in Nat /\ y * d <= x /\ x < y * d + y
  BY <1>1, SMT
<1>2. 2 * a + b \in Nat /\ 2 * b \in Nat \ {0}
  OBVIOUS
<1>3. PICK d : d = RoundHalfUp(a, b)
  OBVIOUS
<1>4. d \in Nat /\ (2 * b) * d <= 2 * a + b /\ 2 * a + b < (2 * b) * d + 2 * b
  BY <1>1, <1>2, <1>3 DEF RoundHalfUp
<1>5. PICK e : e = b * d
  OBVIOUS
<1>6. (2 * b) * d = 2 * e /\ e \in Nat
  BY <1>4, <1>5
<1>7. 2 * e <= 2 * a + b /\ 2 * a < 2 * e + b
  BY <1>4, <1>6
<1> QED
  BY <1>3, <1>4, <1>5, <1>7

\* Numerator and denominator of the delay after the n-th attempt, unrounded.
Numerator(c, n, r) ==
  c.baseMs * Power(c.multiplier.num)[n - 1] * (10000 + c.jitterPercent * r)
Denominator(c, n) == 10000 * Power(c.multiplier.den)[n - 1]

LEMMA FractionType ==
  ASSUME NEW c, LegalConfig(c), NEW n \in Nat \ {0}, NEW r \in 0..100
  PROVE  Numerator(c, n, r) \in Nat /\ Denominator(c, n) \in Nat \ {0}
<1>1. n - 1 \in Nat
  OBVIOUS
<1>2. PICK p : p = Power(c.multiplier.num)[n - 1]
  OBVIOUS
<1>3. PICK q : q = Power(c.multiplier.den)[n - 1]
  OBVIOUS
<1>4. p \in Nat /\ q \in Nat \ {0}
  BY <1>1, <1>2, <1>3, PowerPositive DEF LegalConfig
<1>5. c.baseMs \in Nat /\ c.jitterPercent \in Nat
  BY DEF LegalConfig
<1>6. c.jitterPercent * r \in Nat
  BY <1>5
<1>7. 10000 + c.jitterPercent * r \in Nat
  BY <1>6
<1>8. c.baseMs * p \in Nat
  BY <1>4, <1>5
<1> QED
  BY <1>2, <1>3, <1>4, <1>7, <1>8 DEF Numerator, Denominator

\* What the catch block computes while an attempt is left: that fraction, rounded.
LEMMA DelayIs ==
  ASSUME NEW c, LegalConfig(c), NEW n \in 1..c.maxAttempts, NEW r \in 0..99
  PROVE  RetryDelay(n, c, r) = RoundHalfUp(Numerator(c, n, r), Denominator(c, n))
<1>1. c.maxAttempts \in Nat /\ n \in Nat \ {0}
  BY DEF LegalConfig
<1>2. ~BeyondMaximum(n, c)
  BY <1>1 DEF BeyondMaximum
<1>3. Exponent(n) = n - 1
  BY <1>1 DEF Exponent, Greatest
<1>4. Least(100, Greatest(0, r)) = r
  BY DEF Least, Greatest
<1>5. Power(c.multiplier.den)[n - 1] * 10000 = Denominator(c, n)
  <2>1. PICK q : q = Power(c.multiplier.den)[n - 1]
    OBVIOUS
  <2>2. q \in Nat
    BY <1>1, <2>1, PowerPositive DEF LegalConfig
  <2> QED
    BY <2>1, <2>2 DEF Denominator
<1>6. CalculateBackoffDelay(n, c, r)
        = Greatest(0, RoundHalfUp(Numerator(c, n, r), Denominator(c, n)))
  BY <1>2, <1>3, <1>4, <1>5 DEF CalculateBackoffDelay, JitterFactor, Numerator
<1>7. RoundHalfUp(Numerator(c, n, r), Denominator(c, n)) \in Nat
  <2>1. r \in 0..100
    OBVIOUS
  <2>2. Numerator(c, n, r) \in Nat /\ Denominator(c, n) \in Nat \ {0}
    BY <1>1, <2>1, FractionType
  <2> QED
    BY <2>2, Rounding
<1>8. CalculateBackoffDelay(n, c, r) = RoundHalfUp(Numerator(c, n, r), Denominator(c, n))
  BY <1>6, <1>7 DEF Greatest
<1>9. CalculateBackoffDelay(n, c, r) # NoDelay
  BY <1>7, <1>8 DEF NoDelay
<1> QED
  BY <1>8, <1>9 DEF RetryDelay

\* More jitter, more delay.
LEMMA MoreJitter ==
  ASSUME NEW c, LegalConfig(c), NEW n \in Nat \ {0},
         NEW r \in 0..100, NEW s \in 0..100, r <= s
  PROVE  Numerator(c, n, r) <= Numerator(c, n, s)
<1>1. ASSUME NEW k \in Nat, NEW x \in Nat, NEW y \in Nat, x <= y PROVE k * x <= k * y
  BY <1>1, SMT
<1>2. PICK p : p = c.baseMs * Power(c.multiplier.num)[n - 1]
  OBVIOUS
<1>3. p \in Nat
  <2>1. Power(c.multiplier.num)[n - 1] \in Nat /\ c.baseMs \in Nat
    BY PowerPositive DEF LegalConfig
  <2> QED
    BY <1>2, <2>1
<1>4. c.jitterPercent \in Nat /\ r \in Nat /\ s \in Nat
  BY DEF LegalConfig
<1>5. PICK x : x = c.jitterPercent * r
  OBVIOUS
<1>6. PICK y : y = c.jitterPercent * s
  OBVIOUS
<1>7. x \in Nat /\ y \in Nat /\ x <= y
  BY <1>1, <1>4, <1>5, <1>6
<1>8. p * (10000 + x) <= p * (10000 + y)
  BY <1>1, <1>3, <1>7
<1> QED
  BY <1>2, <1>5, <1>6, <1>8 DEF Numerator

\* A multiplier of at least 1 + jitterPercent/100 outgrows the jitter.
Outgrows(c) == 100 * c.multiplier.num >= (100 + c.jitterPercent) * c.multiplier.den

LEMMA Growth ==
  ASSUME NEW c, LegalConfig(c), Outgrows(c), NEW n \in Nat \ {0}
  PROVE  /\ Numerator(c, n, 100) * c.multiplier.den <= Numerator(c, n + 1, 0)
         /\ Denominator(c, n + 1) = c.multiplier.den * Denominator(c, n)
<1>1. PICK p : p = Power(c.multiplier.num)[n - 1]
  OBVIOUS
<1>2. PICK q : q = Power(c.multiplier.den)[n - 1]
  OBVIOUS
<1>3. PICK m : m = c.multiplier.num
  OBVIOUS
<1>4. PICK d : d = c.multiplier.den
  OBVIOUS
<1>5. PICK j : j = c.jitterPercent
  OBVIOUS
<1>6. PICK b : b = c.baseMs
  OBVIOUS
<1>7. b \in Nat /\ j \in Nat /\ m \in Nat \ {0} /\ d \in Nat \ {0}
  BY <1>3, <1>4, <1>5, <1>6 DEF LegalConfig
<1>8. n - 1 \in Nat /\ (n - 1) + 1 = n /\ (n + 1) - 1 = n
  OBVIOUS
<1>9. p \in Nat /\ q \in Nat
  BY <1>1, <1>2, <1>3, <1>4, <1>7, <1>8, PowerPositive
<1>10. Power(m)[n] = m * p /\ Power(d)[n] = d * q
  <2>1. Power(m)[(n - 1) + 1] = m * Power(m)[n - 1]
    BY <1>7, <1>8, PowerIs
  <2>2. Power(d)[(n - 1) + 1] = d * Power(d)[n - 1]
    BY <1>7, <1>8, PowerIs
  <2> QED
    BY <1>1, <1>2, <1>3, <1>4, <1>8, <2>1, <2>2
<1>11. Numerator(c, n, 100) = (b * p) * (10000 + j * 100)
  BY <1>1, <1>5, <1>6 DEF Numerator
<1>12. Numerator(c, n + 1, 0) = (b * (m * p)) * 10000
  <2>1. j * 0 = 0
    BY <1>7
  <2>2. Numerator(c, n + 1, 0) = (b * (m * p)) * (10000 + j * 0)
    BY <1>3, <1>5, <1>6, <1>8, <1>10 DEF Numerator
  <2> QED
    BY <2>1, <2>2
<1>13. (b * p) * (10000 + j * 100) * d <= (b * (m * p)) * 10000
  <2>1. PICK x : x = (10000 + j * 100) * d
    OBVIOUS
  <2>2. PICK y : y = 10000 * m
    OBVIOUS
  <2>3. x \in Nat /\ y \in Nat /\ x <= y
    <3>1. PICK e : e = (100 + j) * d
      OBVIOUS
    <3>2. e \in Nat /\ e <= 100 * m
      BY <1>3, <1>4, <1>5, <1>7, <3>1 DEF Outgrows
    <3>3. x = 100 * e
      BY <1>7, <2>1, <3>1
    <3> QED
      BY <1>7, <2>2, <3>2, <3>3
  <2>4. PICK k : k = b * p
    OBVIOUS
  <2>5. k \in Nat
    BY <1>7, <1>9, <2>4
  <2>6. k * x <= k * y
    BY <2>3, <2>5, SMT
  <2>7. (b * p) * (10000 + j * 100) * d = k * x
    BY <1>7, <1>9, <2>1, <2>4, SMT
  <2>8. (b * (m * p)) * 10000 = k * y
    BY <1>7, <1>9, <2>2, <2>4, SMT
  <2> QED
    BY <2>6, <2>7, <2>8
<1>14. Denominator(c, n + 1) = 10000 * (d * q) /\ Denominator(c, n) = 10000 * q
  BY <1>2, <1>4, <1>8, <1>10 DEF Denominator
<1>15. 10000 * (d * q) = d * (10000 * q)
  BY <1>7, <1>9, SMT
<1> QED
  BY <1>4, <1>11, <1>12, <1>13, <1>14, <1>15

\* The delay d is within half a millisecond of what lies between the backoff of
\* the n-th attempt and that plus all of its jitter.
InBand(c, n, d) ==
  /\ 2 * Numerator(c, n, 0) <= 2 * (Denominator(c, n) * d) + Denominator(c, n)
  /\ 2 * (Denominator(c, n) * d) <= 2 * Numerator(c, n, 100) + Denominator(c, n)

LEMMA DelayInBand ==
  ASSUME NEW c, LegalConfig(c), NEW n \in 1..c.maxAttempts, NEW r \in 0..99
  PROVE  RetryDelay(n, c, r) \in Nat /\ InBand(c, n, RetryDelay(n, c, r))
<1>1. n \in Nat \ {0} /\ r \in 0..100 /\ 0 \in 0..100 /\ 100 \in 0..100 /\ 0 <= r /\ r <= 100
  BY DEF LegalConfig
<1>2. /\ Numerator(c, n, r) \in Nat /\ Denominator(c, n) \in Nat \ {0}
      /\ Numerator(c, n, 0) \in Nat /\ Numerator(c, n, 100) \in Nat
  BY <1>1, FractionType
<1>3. Numerator(c, n, 0) <= Numerator(c, n, r) /\ Numerator(c, n, r) <= Numerator(c, n, 100)
  BY <1>1, MoreJitter
<1>4. PICK d : d = RetryDelay(n, c, r)
  OBVIOUS
<1>5. /\ d \in Nat
      /\ 2 * (Denominator(c, n) * d) <= 2 * Numerator(c, n, r) + Denominator(c, n)
      /\ 2 * Numerator(c, n, r) < 2 * (Denominator(c, n) * d) + Denominator(c, n)
  BY <1>2, <1>4, DelayIs, Rounding
<1>6. Denominator(c, n) * d \in Nat
  BY <1>2, <1>5
<1>7. InBand(c, n, d)
  BY <1>2, <1>3, <1>5, <1>6 DEF InBand
<1> QED
  BY <1>4, <1>5, <1>7

\* A delay of the next attempt is not below one of this attempt.
LEMMA BandsAscend ==
  ASSUME NEW c, LegalConfig(c), Outgrows(c), NEW n \in Nat \ {0},
         NEW d \in Nat, InBand(c, n, d), NEW r \in 0..99, n + 1 <= c.maxAttempts
  PROVE  d <= RetryDelay(n + 1, c, r)
<1>1. /\ n + 1 \in 1..c.maxAttempts /\ n + 1 \in Nat \ {0}
      /\ r \in 0..100 /\ 0 \in 0..100 /\ 100 \in 0..100 /\ 0 <= r
  BY DEF LegalConfig
<1>2. PICK high : high = Numerator(c, n, 100)
  OBVIOUS
<1>3. PICK next : next = Numerator(c, n + 1, r)
  OBVIOUS
<1>4. PICK D : D = Denominator(c, n)
  OBVIOUS
<1>5. PICK k : k = c.multiplier.den
  OBVIOUS
<1>6. PICK e : e = RetryDelay(n + 1, c, r)
  OBVIOUS
<1>7. high \in Nat /\ next \in Nat /\ D \in Nat \ {0} /\ k \in Nat \ {0} /\ e \in Nat
  BY <1>1, <1>2, <1>3, <1>4, <1>5, <1>6, FractionType, DelayInBand DEF LegalConfig
<1>8. high * k <= next
  <2>1. high * k <= Numerator(c, n + 1, 0)
    BY <1>2, <1>5, Growth
  <2>2. Numerator(c, n + 1, 0) <= next
    BY <1>1, <1>3, MoreJitter
  <2>3. Numerator(c, n + 1, 0) \in Nat /\ high * k \in Nat
    BY <1>1, <1>7, FractionType
  <2> QED
    BY <1>7, <2>1, <2>2, <2>3
<1>9. 2 * next < 2 * ((k * D) * e) + k * D
  <2>1. Denominator(c, n + 1) = k * D /\ k * D \in Nat \ {0}
    BY <1>1, <1>4, <1>5, FractionType, Growth
  <2>2. e = RoundHalfUp(next, k * D)
    BY <1>1, <1>3, <1>6, <2>1, DelayIs
  <2> QED
    BY <1>7, <2>1, <2>2, Rounding
<1>10. 2 * (D * d) <= 2 * high + D
  BY <1>2, <1>4 DEF InBand
<1>11. ASSUME e < d PROVE FALSE
  <2>1. PICK m : m = D * d
    OBVIOUS
  <2>2. PICK l : l = D * e
    OBVIOUS
  <2>3. m \in Nat /\ l \in Nat /\ l + D <= m
    <3>1. D * (e + 1) <= D * d
      BY <1>7, <1>11, SMT
    <3>2. D * (e + 1) = l + D
      BY <1>7, <2>2
    <3> QED
      BY <1>7, <2>1, <2>2, <3>1, <3>2
  <2>4. 2 * l + D <= 2 * high
    BY <1>7, <1>10, <2>1, <2>3
  <2>5. k * (2 * l + D) <= k * (2 * high)
    BY <1>7, <2>3, <2>4, SMT
  <2>6. k * (2 * l + D) = 2 * ((k * D) * e) + k * D
    BY <1>7, <2>2, SMT
  <2>7. k * (2 * high) = 2 * (high * k)
    BY <1>7, SMT
  <2>8. high * k \in Nat /\ (k * D) * e \in Nat /\ k * D \in Nat
    BY <1>7
  <2> QED
    BY <1>7, <1>8, <1>9, <2>5, <2>6, <2>7, <2>8
<1> QED
  BY <1>6, <1>7, <1>11

\* There is a delay from the second attempt on, and it is in its band.
Delayed ==
  /\ Counted
  /\ attempt = 1 => delay = NoDelay
  /\ attempt # 1 => delay \in Nat /\ InBand(config, attempt - 1, delay)

\* A failed attempt leaves a delay that lies in its band, whatever was there before.
LEMMA RetryDelays ==
  ASSUME RetryCampaignAssumption, Counted, Next, Retry
  PROVE  /\ LegalConfig(config) /\ attempt \in Nat \ {0} /\ attempt < config.maxAttempts
         /\ attempt' = attempt + 1 /\ config' = config
         /\ \E r \in 0..99 : delay' = RetryDelay(attempt, config, r)
<1>1. LegalConfig(config) /\ attempt \in 1..config.maxAttempts
  BY DEF RetryCampaignAssumption, Counted
<1>2. attempt < config.maxAttempts /\ attempt' = attempt + 1 /\ config' = config
  BY DEF Next, Retry, ShouldRetry
<1>3. \E r \in 0..99 : delay' = RetryDelay(attempt, config, r)
  BY DEF RetryCampaignAssumption, Retry
<1> QED
  BY <1>1, <1>2, <1>3 DEF LegalConfig

LEMMA DelayedInvariance == ASSUME RetryCampaignAssumption PROVE Spec => []Delayed
<1>1. Init => Delayed
  BY DEF RetryCampaignAssumption, LegalConfig, Init, Delayed, Counted, OutageUsesEveryAttempt
<1>2. Delayed /\ Counted' /\ [Next]_vars => Delayed'
  <2> SUFFICES ASSUME Delayed, Counted', [Next]_vars PROVE Delayed'
    OBVIOUS
  <2>1. CASE UNCHANGED vars \/ (Next /\ GiveUp)
    <3>1. attempt' = attempt /\ config' = config /\ delay' = delay
      BY <2>1 DEF Next, GiveUp, vars
    <3> QED
      BY <3>1 DEF Delayed
  <2>2. CASE Next /\ Retry
    <3>1. PICK r \in 0..99 : delay' = RetryDelay(attempt, config, r)
      BY <2>2, RetryDelays DEF Delayed
    <3>2. /\ LegalConfig(config) /\ attempt \in 1..config.maxAttempts
          /\ attempt' = attempt + 1 /\ attempt' - 1 = attempt /\ attempt' # 1 /\ config' = config
      <4>1. /\ LegalConfig(config) /\ attempt \in Nat \ {0}
            /\ attempt' = attempt + 1 /\ config' = config
        BY <2>2, RetryDelays DEF Delayed
      <4>2. attempt \in 1..config.maxAttempts
        BY DEF Delayed, Counted
      <4> QED
        BY <4>1, <4>2
    <3>3. delay' \in Nat /\ InBand(config, attempt, delay')
      BY <3>1, <3>2, DelayInBand
    <3> QED
      BY <3>2, <3>3 DEF Delayed
  <2> QED
    BY <2>1, <2>2 DEF Next
<1> QED
  BY <1>1, <1>2, Counting, PTL DEF Spec

\* docs/queues.md:76: whatever the configuration and the draw, the delay after an
\* attempt is the backoff of that attempt plus at most jitterPercent of it.
THEOREM DelaysInBand == ASSUME RetryCampaignAssumption PROVE Spec => []DelayInJitterBand
<1>1. Delayed => DelayInJitterBand
  <2> SUFFICES ASSUME Delayed, attempt >= 2 PROVE DelayInJitterBand
    BY DEF DelayInJitterBand
  <2>1. LegalConfig(config) /\ attempt \in Nat
    BY DEF RetryCampaignAssumption, LegalConfig, Delayed, Counted
  <2>2. attempt - 1 \in Nat \ {0} /\ (attempt - 1) - 1 = attempt - 2 /\ attempt # 1
    BY <2>1
  <2>3. \A r : Expected(r).num = Numerator(config, attempt - 1, r)
    BY <2>2 DEF Expected, Numerator
  <2>4. \A r : Expected(r).den = Denominator(config, attempt - 1)
    BY <2>2 DEF Expected, Denominator
  <2>5. PICK D : D = Denominator(config, attempt - 1)
    OBVIOUS
  <2>6. /\ D \in Nat \ {0} /\ delay \in Nat
        /\ Numerator(config, attempt - 1, 0) \in Nat
        /\ Numerator(config, attempt - 1, 100) \in Nat
    BY <2>1, <2>2, <2>5, FractionType DEF Delayed
  <2>7. /\ 2 * Numerator(config, attempt - 1, 0) <= 2 * (D * delay) + D
        /\ 2 * (D * delay) <= 2 * Numerator(config, attempt - 1, 100) + D
    BY <2>2, <2>5 DEF Delayed, InBand
  <2>8. 2 * delay * D = 2 * (D * delay) /\ D * delay \in Nat
    BY <2>6, SMT
  <2> QED
    BY <2>3, <2>4, <2>5, <2>6, <2>7, <2>8 DEF DelayInJitterBand
<1> QED
  BY <1>1, DelayedInvariance, PTL

\* With the defaults, and with every multiplier that outgrows the jitter, the
\* delays of a campaign never get shorter, whatever is drawn.
THEOREM JitterBounded == ASSUME RetryCampaignAssumption PROVE Spec => JitterNeverUndoesBackoff
<1> DEFINE Ascends ==
      /\ 100 * config.multiplier.num >= (100 + config.jitterPercent) * config.multiplier.den
      /\ delay # NoDelay
      => delay' >= delay
<1>1. Delayed /\ [Next]_vars => [Ascends]_vars
  <2> SUFFICES ASSUME Delayed, Next, Outgrows(config), delay # NoDelay PROVE delay' >= delay
    BY DEF Outgrows
  <2>1. attempt # 1 /\ delay \in Nat /\ InBand(config, attempt - 1, delay)
    BY DEF Delayed
  <2>2. CASE GiveUp
    BY <2>1, <2>2 DEF GiveUp
  <2>3. CASE Retry
    <3>1. PICK r \in 0..99 : delay' = RetryDelay(attempt, config, r)
      BY <2>3, RetryDelays DEF Delayed
    <3>2. LegalConfig(config) /\ attempt \in Nat \ {0} /\ attempt < config.maxAttempts
      BY <2>3, RetryDelays DEF Delayed
    <3>3. /\ attempt - 1 \in Nat \ {0} /\ (attempt - 1) + 1 = attempt
          /\ (attempt - 1) + 1 <= config.maxAttempts /\ attempt \in 1..config.maxAttempts
      BY <2>1, <3>2 DEF LegalConfig
    <3>4. delay <= RetryDelay((attempt - 1) + 1, config, r)
      BY <2>1, <3>2, <3>3, BandsAscend
    <3>5. delay' \in Nat
      BY <3>1, <3>2, <3>3, DelayInBand
    <3> QED
      BY <2>1, <3>1, <3>3, <3>4, <3>5
  <2> QED
    BY <2>2, <2>3 DEF Next
<1> QED
  BY <1>1, DelayedInvariance, PTL DEF Spec, JitterNeverUndoesBackoff

=============================================================================
