-------------------------- MODULE RateLimiterProofs --------------------------
(***************************************************************************)
(* Theorems about RateLimiter, for every set of subjects and all limits    *)
(* that LimitsAssumption allows.                                           *)
(***************************************************************************)
EXTENDS RateLimiter, FiniteSetTheorems, TLAPS

(***************************************************************************)
(* Arithmetic of whole tokens.                                             *)
(***************************************************************************)
\* Time earns whole tokens only: what is left over is less than Rate.
LEMMA WholeTokens ==
  ASSUME NEW e \in Nat
  PROVE  /\ e \div Rate \in Nat
         /\ Rate * (e \div Rate) <= e
         /\ e < Rate * (e \div Rate) + Rate
  BY LimitsAssumption DEF LimitsAssumption

\* A product with a difference of whole numbers.
LEMMA Distribute ==
  ASSUME NEW a \in Int, NEW b \in Int
  PROVE  (a + b) * Rate = a * Rate + b * Rate
  BY LimitsAssumption DEF LimitsAssumption

\* More tokens cover more time.
LEMMA Monotone ==
  ASSUME NEW a \in Int, NEW b \in Int, a <= b
  PROVE  a * Rate <= b * Rate
  BY LimitsAssumption DEF LimitsAssumption

(***************************************************************************)
(* The buckets that are left for a request.                                *)
(***************************************************************************)
\* A sweep drops only buckets that have been idle for the TTL.
LEMMA SweptLive ==
  ASSUME TypeOK
  PROVE  /\ Swept \subseteq tracked
         /\ \A t \in tracked \ Swept : BucketTTL <= clock - last[t]
  BY LimitsAssumption DEF LimitsAssumption, TypeOK, Swept, Live

\* allow never sees more buckets than were tracked, never evicts the bucket it is
\* called for, and leaves room for it.
LEMMA LeftFits ==
  ASSUME TypeOK, BucketsCapped, NEW s \in Subjects, NEW B \in Left(s)
  PROVE  /\ B \subseteq Swept
         /\ s \in Swept => B = Swept
         /\ IsFiniteSet(B \cup {s})
         /\ Cardinality(B \cup {s}) <= MaxBuckets
<1> USE LimitsAssumption DEF LimitsAssumption, BucketsCapped
<1>1. /\ IsFiniteSet(Swept)
      /\ Cardinality(Swept) <= MaxBuckets
      /\ Cardinality(Swept) \in Nat
  BY SweptLive, FS_Subset, FS_CardinalityType
<1>2. CASE s \in Swept
  <2>1. B = Swept /\ B \cup {s} = Swept
    BY <1>2 DEF Left
  <2> QED BY <1>1, <1>2, <2>1
<1>3. CASE s \notin Swept /\ Full(Swept)
  <2>1. PICK t \in Swept : B = Swept \ {t}
    BY <1>3 DEF Left, Oldest
  <2>2. IsFiniteSet(B) /\ Cardinality(B) = Cardinality(Swept) - 1
    BY <1>1, <2>1, FS_RemoveElement
  <2>3. IsFiniteSet(B \cup {s}) /\ Cardinality(B \cup {s}) = Cardinality(B) + 1
    BY <1>3, <2>1, <2>2, FS_AddElement
  <2> QED BY <1>1, <1>3, <2>1, <2>2, <2>3
<1>4. CASE s \notin Swept /\ ~Full(Swept)
  <2>1. B = Swept
    BY <1>4 DEF Left
  <2>2. IsFiniteSet(B \cup {s}) /\ Cardinality(B \cup {s}) = Cardinality(Swept) + 1
    BY <1>1, <1>4, <2>1, FS_AddElement
  <2> QED BY <1>1, <1>4, <2>1, <2>2 DEF Full
<1> QED BY <1>2, <1>3, <1>4

\* The refill: at most a burst, at most what time earned, and at least one token
\* for a new bucket or one that Rate has passed by.
LEMMA RefillBounds ==
  ASSUME TypeOK, TimesInv, NEW s \in Subjects, NEW B
  PROVE  /\ Refilled(s, B) \in 0..Burst
         /\ s \in B => Refilled(s, B) * Rate <= tokens[s] * Rate + (clock - last[s])
         /\ s \notin B \/ Rate <= clock - last[s] => Refilled(s, B) > 0
<1> USE LimitsAssumption DEF LimitsAssumption, TypeOK, TimesInv
<1>1. CASE s \in B
  <2> DEFINE e == clock - last[s]
  <2>1. e \in Nat /\ tokens[s] \in 0..Burst
    OBVIOUS
  <2>2. /\ e \div Rate \in Nat
        /\ Rate * (e \div Rate) <= e
        /\ e < Rate * (e \div Rate) + Rate
    BY <2>1, WholeTokens
  <2>3. Refilled(s, B) = Lesser(Burst, tokens[s] + e \div Rate)
    BY <1>1 DEF Refilled
  <2> HIDE DEF e
  <2>4. Refilled(s, B) \in 0..Burst /\ Refilled(s, B) <= tokens[s] + e \div Rate
    BY <2>1, <2>2, <2>3 DEF Lesser
  <2>5. Refilled(s, B) * Rate <= tokens[s] * Rate + e
    <3> DEFINE q == e \div Rate
    <3>1. q \in Int /\ tokens[s] \in Int /\ q * Rate <= e
      BY <2>1, <2>2
    <3>2. Refilled(s, B) <= tokens[s] + q
      BY <2>4
    <3> HIDE DEF q
    <3>3. Refilled(s, B) * Rate <= (tokens[s] + q) * Rate
      BY <2>4, <3>1, <3>2, Monotone
    <3>4. (tokens[s] + q) * Rate = tokens[s] * Rate + q * Rate
      BY <3>1, Distribute
    <3> DEFINE spent == Refilled(s, B) * Rate
               had   == tokens[s] * Rate
               got   == q * Rate
    <3>5. spent \in Int /\ had \in Int /\ got \in Int /\ e \in Int
      BY <2>1, <2>4, <3>1
    <3>6. spent <= had + got /\ got <= e
      BY <3>1, <3>3, <3>4
    <3> HIDE DEF spent, had, got
    <3>7. spent <= had + e
      BY <3>5, <3>6
    <3> QED BY <3>7 DEF spent, had
  <2>6. Rate <= e => Refilled(s, B) > 0
    <3> SUFFICES ASSUME Rate <= e PROVE Refilled(s, B) > 0
      OBVIOUS
    <3>1. e \div Rate # 0
      BY <2>2, <2>1
    <3> QED BY <2>1, <2>2, <2>3, <3>1 DEF Lesser
  <2> QED BY <1>1, <2>4, <2>5, <2>6 DEF e
<1>2. CASE s \notin B
  <2>1. clock - Never \in Nat
    BY DEF Never
  <2>2. (clock - Never) \div Rate \in Nat
    BY <2>1, WholeTokens
  <2>3. Refilled(s, B) = Lesser(Burst, Burst + (clock - Never) \div Rate)
    BY <1>2 DEF Refilled
  <2> QED BY <1>2, <2>2, <2>3 DEF Lesser
<1> QED BY <1>1, <1>2

(***************************************************************************)
(* The credit of a window, in exact arithmetic.                            *)
(***************************************************************************)
\* Credit is a whole number.
LEMMA CreditType ==
  ASSUME TypeOK
  PROVE  /\ Burst * Rate \in Nat
         /\ Burst * Rate * (1 + evictions) \in Nat
         /\ granted * Rate \in Nat
         /\ Credit \in Int
<1> USE LimitsAssumption DEF LimitsAssumption, TypeOK
<1>1. Burst * Rate \in Nat /\ granted * Rate \in Nat
  OBVIOUS
<1>2. Burst * Rate * (1 + evictions) \in Nat
  BY <1>1
<1> QED BY <1>1, <1>2 DEF Credit

\* A grant spends Rate, an eviction gives a burst back.
LEMMA CreditSteps ==
  ASSUME TypeOK, NEW g \in {0, 1}
  PROVE  /\ (granted + g) * Rate = granted * Rate + g * Rate
         /\ g * Rate \in Nat
         /\ Burst * Rate * (1 + (evictions + 1)) = Burst * Rate * (1 + evictions) + Burst * Rate
<1> USE LimitsAssumption DEF LimitsAssumption, TypeOK
<1>1. (granted + g) * Rate = granted * Rate + g * Rate
  BY Distribute
<1>2. g * Rate \in Nat
  OBVIOUS
<1>3. \A x \in Nat, k \in Nat : x * (1 + (k + 1)) = x * (1 + k) + x
  OBVIOUS
<1> QED BY <1>1, <1>2, <1>3, CreditType

\* A bucket's tokens are worth a whole, nonnegative time.
LEMMA TokensWorth ==
  ASSUME TypeOK, NEW s \in Subjects
  PROVE  tokens[s] * Rate \in Nat
<1>1. tokens[s] \in Nat /\ Rate \in Nat
  BY LimitsAssumption DEF LimitsAssumption, TypeOK
<1> QED BY <1>1

(***************************************************************************)
(* The inductive invariant.                                                *)
(***************************************************************************)
\* The process starts without buckets.
LEMMA InvInit == Init => Inv
<1> SUFFICES ASSUME Init PROVE Inv
  OBVIOUS
<1> USE LimitsAssumption DEF LimitsAssumption, Init, Never
<1>1. TypeOK
  BY DEF TypeOK
<1>2. TimesInv /\ SweepInv /\ CreditInv
  BY DEF TimesInv, SweepInv, CreditInv
<1>3. BucketsCapped
  BY FS_EmptySet DEF BucketsCapped
<1> QED BY <1>1, <1>2, <1>3 DEF Inv

\* Waiting keeps the invariant: credit does not depend on the clock.
LEMMA TickStep == Inv /\ Tick => Inv'
<1> SUFFICES ASSUME Inv, Tick PROVE Inv'
  OBVIOUS
<1> USE LimitsAssumption DEF LimitsAssumption, Inv, Tick, bucketVars, histVars
<1>1. TypeOK' /\ TimesInv' /\ SweepInv'
  BY DEF TypeOK, TimesInv, SweepInv
<1>2. BucketsCapped'
  BY DEF BucketsCapped
<1>3. Credit' = Credit /\ clock' = clock + 1 /\ clock \in Nat /\ latest \in Nat
  BY DEF Credit, TypeOK
<1>4. CreditInv'
  BY <1>3 DEF CreditInv, TypeOK
<1> QED BY <1>1, <1>2, <1>4

\* A call of allow(s) that finds the buckets B and reports true (grants = 1) or
\* false (grants = 0) keeps the invariant.
LEMMA AllowStep ==
  ASSUME Inv, NEW s \in Subjects, NEW B \in Left(s), NEW grants \in {0, 1},
         grants <= Refilled(s, B), Store(s, B, Refilled(s, B) - grants), Record(s, B, grants)
  PROVE  Inv'
<1> USE LimitsAssumption DEF LimitsAssumption, Inv
<1> DEFINE n == Refilled(s, B) - grants
<1>1. /\ B \subseteq Swept /\ Swept \subseteq tracked /\ tracked \subseteq Subjects
      /\ \A t \in tracked \ Swept : BucketTTL <= clock - last[t]
      /\ s \in Swept => B = Swept
  BY SweptLive, LeftFits DEF TypeOK
<1>2. /\ Refilled(s, B) \in 0..Burst
      /\ s \in B => Refilled(s, B) * Rate <= tokens[s] * Rate + (clock - last[s])
  BY RefillBounds
<1>3. n \in 0..Burst
  BY <1>2
<1>4. TypeOK'
  <2>1. /\ clock' \in Nat /\ tracked' \in SUBSET Subjects /\ lastCleanup' \in Nat
        /\ last' \in [Subjects -> Nat]
    BY <1>1 DEF TypeOK, Store, Never
  <2>2. tokens' \in [Subjects -> 0..Burst]
    BY <1>1, <1>3 DEF TypeOK, Store
  <2>3. since' \in Nat /\ latest' \in Nat /\ granted' \in Nat /\ evictions' \in Nat
    BY DEF TypeOK, Record, histVars
  <2> QED BY <2>1, <2>2, <2>3 DEF TypeOK
<1>5. TimesInv'
  <2>1. Epoch <= clock' /\ lastCleanup' <= clock' /\ \A t \in Subjects : last'[t] <= clock'
    BY <1>1 DEF TypeOK, TimesInv, Store, Never
  <2>2. since' <= latest' /\ latest' <= clock'
    BY DEF TypeOK, TimesInv, Store, Record, histVars
  <2> QED BY <2>1, <2>2 DEF TimesInv
<1>6. BucketsCapped'
  BY LeftFits DEF BucketsCapped, Store
<1>7. SweepInv'
  <2>1. CASE CleanupDue
    BY <1>1, <2>1 DEF TypeOK, TimesInv, SweepInv, Store, Swept, Live
  <2>2. CASE ~CleanupDue
    BY <1>1, <2>2 DEF TypeOK, TimesInv, SweepInv, Store, Swept
  <2> QED BY <2>1, <2>2
<1>8. CreditInv'
  <2> USE DEF TypeOK, TimesInv
  <2>1. /\ tracked' = B \cup {s} /\ clock' = clock
        /\ tokens'[s] = n /\ last'[s] = clock
        /\ \A t \in B \ {s} : tokens'[t] = tokens[t] /\ last'[t] = last[t]
    BY <1>1 DEF Store
  <2>2. /\ Credit \in Int /\ Burst * Rate \in Nat /\ grants * Rate \in Nat
        /\ Burst * Rate * (1 + evictions) \in Nat /\ granted * Rate \in Nat
    BY CreditType, CreditSteps
  <2>3. n * Rate = Refilled(s, B) * Rate - grants * Rate /\ Refilled(s, B) * Rate \in Nat
    <3>1. Refilled(s, B) = n + grants /\ n \in Int /\ grants \in Int
      BY <1>2, <1>3
    <3>2. Refilled(s, B) * Rate = n * Rate + grants * Rate
      BY <3>1, Distribute
    <3> QED BY <3>1, <3>2, <2>2, <1>2
  <2>4. CASE s = Watched /\ since # Never /\ latest' = clock /\ granted' = granted + grants
             /\ UNCHANGED <<since, evictions>>
    <3>1. Credit' = Credit + (clock - latest) - grants * Rate
      BY <2>2, <2>4, CreditSteps DEF Credit
    <3>2. Refilled(s, B) * Rate <= Credit + (clock - latest)
      <4>1. CASE s \in B
        <5>1. s \in tracked /\ last[s] = latest /\ tokens[s] * Rate <= Credit
          BY <1>1, <2>4, <4>1 DEF CreditInv
        <5>2. tokens[s] * Rate \in Int
          OBVIOUS
        <5> QED BY <1>2, <2>2, <2>3, <4>1, <5>1, <5>2
      <4>2. CASE s \notin B
        <5>1. Refilled(s, B) * Rate <= Burst * Rate
          BY <1>2, Monotone
        <5>2. 0 <= Credit /\ (Burst * Rate <= Credit \/ BucketTTL <= clock - latest)
          <6>1. s \notin Swept
            BY <1>1, <4>2
          <6>2. CASE s \in tracked
            BY <1>1, <2>2, <2>4, <6>1, <6>2, TokensWorth DEF CreditInv
          <6>3. CASE s \notin tracked
            BY <2>4, <6>3 DEF CreditInv
          <6> QED BY <6>2, <6>3
        <5> QED BY <2>2, <2>3, <5>1, <5>2
      <4> QED BY <4>1, <4>2
    <3>3. tokens'[Watched] * Rate <= Credit'
      BY <2>1, <2>2, <2>3, <2>4, <3>1, <3>2
    <3> QED BY <2>1, <2>4, <3>3 DEF CreditInv
  <2>5. CASE s = Watched /\ latest' = clock /\ since' = clock /\ granted' = grants
             /\ evictions' = 0
    <3>1. Credit' = Burst * Rate - grants * Rate
      BY <2>2, <2>5 DEF Credit
    <3>2. Refilled(s, B) * Rate <= Burst * Rate
      BY <1>2, Monotone
    <3>3. tokens'[Watched] * Rate <= Credit'
      BY <2>1, <2>2, <2>3, <2>5, <3>1, <3>2
    <3> QED BY <2>1, <2>5, <3>3 DEF CreditInv, Never
  <2>6. CASE s # Watched /\ Watched \notin Swept \ B /\ UNCHANGED histVars
    <3>1. Credit' = Credit
      BY <2>6 DEF Credit, histVars
    <3>2. CASE Watched \in B
      BY <1>1, <2>1, <2>6, <3>1, <3>2 DEF CreditInv, histVars
    <3>3. CASE Watched \in tracked \ B
      <4>1. BucketTTL <= clock - last[Watched] /\ Watched \notin tracked'
        BY <1>1, <2>1, <2>6, <3>3
      <4>2. last[Watched] = latest /\ 0 <= Credit
        BY <2>2, <3>3, TokensWorth DEF CreditInv
      <4> QED BY <2>1, <2>6, <3>1, <4>1, <4>2 DEF CreditInv, histVars
    <3>4. CASE Watched \notin tracked
      <4>1. Watched \notin tracked'
        BY <1>1, <2>1, <2>6, <3>4
      <4> QED BY <2>1, <2>6, <3>1, <3>4, <4>1 DEF CreditInv, histVars
    <3> QED BY <3>2, <3>3, <3>4
  <2>7. CASE s # Watched /\ Watched \in Swept \ B /\ evictions' = evictions + 1
             /\ UNCHANGED <<since, latest, granted>>
    <3>1. Credit' = Credit + Burst * Rate
      BY <2>2, <2>7, CreditSteps DEF Credit
    <3>2. 0 <= Credit /\ Watched \notin tracked'
      BY <1>1, <2>1, <2>2, <2>7, TokensWorth DEF CreditInv
    <3> QED BY <2>1, <2>2, <2>7, <3>1, <3>2 DEF CreditInv
  <2> QED BY <2>4, <2>5, <2>6, <2>7 DEF Record
<1> QED BY <1>4, <1>5, <1>6, <1>7, <1>8

\* Every step keeps the invariant.
LEMMA InvStep == Inv /\ [Next]_vars => Inv'
<1> SUFFICES ASSUME Inv, [Next]_vars PROVE Inv'
  OBVIOUS
<1>1. CASE Tick
  BY <1>1, TickStep
<1>2. ASSUME NEW s \in Subjects, Grant(s) PROVE Inv'
  <2>1. PICK B \in Left(s) : Refilled(s, B) > 0 /\ Store(s, B, Refilled(s, B) - 1)
                            /\ Record(s, B, 1)
    BY <1>2 DEF Grant
  <2>2. Refilled(s, B) \in 0..Burst
    BY RefillBounds DEF Inv
  <2>3. 1 <= Refilled(s, B)
    BY <2>1, <2>2
  <2> QED BY <2>1, <2>3, AllowStep
<1>3. ASSUME NEW s \in Subjects, Deny(s) PROVE Inv'
  <2>1. PICK B \in Left(s) : Refilled(s, B) = 0 /\ Store(s, B, 0) /\ Record(s, B, 0)
    BY <1>3 DEF Deny
  <2>2. 0 <= Refilled(s, B) /\ Refilled(s, B) - 0 = 0
    BY <2>1
  <2> QED BY <2>1, <2>2, AllowStep
<1>4. CASE UNCHANGED vars
  BY <1>4 DEF vars, bucketVars, histVars, Inv, TypeOK, TimesInv, BucketsCapped, SweepInv,
              CreditInv, Credit
<1> QED BY <1>1, <1>2, <1>3, <1>4 DEF Next, Allow

\* The invariant holds in every reachable state.
THEOREM Invariance == Spec => []Inv
<1>1. Init => Inv
  BY InvInit
<1>2. Inv /\ [Next]_vars => Inv'
  BY InvStep
<1> QED BY <1>1, <1>2, PTL DEF Spec

(***************************************************************************)
(* The properties.                                                         *)
(***************************************************************************)
\* Every variable keeps its type; no bucket ever holds more than a burst.
THEOREM TypeCorrect == Spec => []TypeOK
<1>1. Inv => TypeOK
  BY DEF Inv
<1> QED BY <1>1, Invariance, PTL

\* The map stays within rateLimitMaxBuckets.
THEOREM BucketsCappedHolds == Spec => []BucketsCapped
<1>1. Inv => BucketsCapped
  BY DEF Inv
<1> QED BY <1>1, Invariance, PTL

\* No window of a subject's requests exceeds its budget.
THEOREM BudgetKeptHolds == Spec => []BudgetKept
<1>1. Inv => BudgetKept
  <2> SUFFICES ASSUME Inv, since # Never PROVE BudgetKept
    BY DEF BudgetKept
  <2>1. 0 <= Credit
    BY CreditType, TokensWorth, LimitsAssumption DEF Inv, CreditInv, LimitsAssumption
  <2>2. /\ Burst * Rate * (1 + evictions) \in Nat /\ granted * Rate \in Nat
        /\ latest \in Nat /\ since \in Nat
    BY CreditType DEF Inv, TypeOK
  <2> QED BY <2>1, <2>2 DEF Credit, BudgetKept
<1> QED BY <1>1, Invariance, PTL

\* Requests spaced by Rate are never denied.
THEOREM PatientSubjectServedHolds == Spec => PatientSubjectServed
<1>1. Inv => [Deny(Watched) => clock - latest < Rate]_vars
  <2> SUFFICES ASSUME Inv, Deny(Watched) PROVE clock - latest < Rate
    OBVIOUS
  <2> USE LimitsAssumption DEF LimitsAssumption, Inv
  <2>1. PICK B \in Left(Watched) : Refilled(Watched, B) = 0
    BY DEF Deny
  <2>2. Watched \in B /\ ~(Rate <= clock - last[Watched])
    BY <2>1, RefillBounds
  <2>3. last[Watched] = latest
    BY <2>2, LeftFits, SweptLive DEF CreditInv
  <2> QED BY <2>2, <2>3 DEF TypeOK
<1> QED BY <1>1, Invariance, PTL DEF PatientSubjectServed

\* After a call every bucket left has been used within the TTL and one cleanup
\* interval.
THEOREM IdleBucketsDroppedHolds == Spec => IdleBucketsDropped
<1>1. Inv => [(\E s \in Subjects : Allow(s)) =>
                 \A t \in tracked' : clock - last'[t] < BucketTTL + CleanupInterval]_vars
  <2> SUFFICES ASSUME Inv, NEW s \in Subjects, Allow(s), NEW t \in tracked'
               PROVE  clock - last'[t] < BucketTTL + CleanupInterval
    OBVIOUS
  <2> USE LimitsAssumption DEF LimitsAssumption, Inv, TypeOK, TimesInv
  <2>1. PICK B \in Left(s) : \E n : Store(s, B, n)
    BY DEF Allow, Grant, Deny
  <2>2. B \subseteq Swept /\ Swept \subseteq tracked
    BY LeftFits, SweptLive
  <2>3. CASE t = s
    BY <2>1, <2>2, <2>3 DEF Store
  <2>4. CASE t # s
    <3>1. t \in B /\ last'[t] = last[t]
      BY <2>1, <2>2, <2>4 DEF Store
    <3>2. CASE CleanupDue
      BY <2>2, <3>1, <3>2 DEF Swept, Live
    <3>3. CASE ~CleanupDue
      BY <2>2, <3>1, <3>3 DEF CleanupDue, SweepInv
    <3> QED BY <3>2, <3>3
  <2> QED BY <2>3, <2>4
<1> QED BY <1>1, Invariance, PTL DEF IdleBucketsDropped

=============================================================================
