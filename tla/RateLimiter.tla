---------------------------- MODULE RateLimiter ----------------------------
(***************************************************************************)
(* The per-subject token bucket of internal/api/ratelimit.go.  allow() runs *)
(* wholly under rl.mu and reads the clock there, so a call is one action:   *)
(* the periodic sweep, the eviction at the cap, the refill and the verdict. *)
(*                                                                         *)
(* Time is an integer clock with time.Time{} as 0; the clock starts at     *)
(* Epoch, further from 0 than every interval.  One subject, Watched, has   *)
(* its requests recorded in history variables; it is any subject.          *)
(***************************************************************************)
EXTENDS Integers, FiniteSets

CONSTANTS
  Subjects,         \* authenticated subjects
  Watched,          \* the one whose requests are recorded
  Rate,             \* rateLimitRate: time in which one token is earned
  Burst,            \* rateLimitBurst
  MaxBuckets,       \* rateLimitMaxBuckets
  BucketTTL,        \* rateLimitBucketTTL
  CleanupInterval,  \* rateLimitCleanupInterval
  Epoch,            \* the clock when the process starts
  MaxClock,         \* bound: where the clock stops
  MaxEvictions      \* bound: evictions of Watched in one window

\* A bucket is kept at least as long as it takes to fill (5 s against 1 h).
ASSUME LimitsAssumption ==
  /\ Watched \in Subjects
  /\ Rate \in Nat \ {0} /\ Burst \in Nat \ {0} /\ MaxBuckets \in Nat \ {0}
  /\ BucketTTL \in Nat \ {0} /\ CleanupInterval \in Nat /\ Epoch \in Nat /\ MaxClock \in Nat
  /\ MaxEvictions \in Nat
  /\ Burst * Rate <= BucketTTL
  /\ BucketTTL <= Epoch /\ CleanupInterval <= Epoch

VARIABLES
  clock,        \* rl.clock.Now()
  tracked,      \* the keys of rl.buckets
  tokens,       \* their tokens (0 where there is no bucket)
  last,         \* their last (Never where there is no bucket)
  lastCleanup,  \* rl.lastCleanup
  \* history of Watched over a window of its requests:
  since,        \* when the window's first request was made, or Never
  latest,       \* when its last request was made
  granted,      \* how many requests were granted in the window
  evictions     \* how often its bucket was evicted in the window

bucketVars == <<tracked, tokens, last, lastCleanup>>
histVars   == <<since, latest, granted, evictions>>
vars       == <<clock, bucketVars, histVars>>

Never == 0

Init ==
  /\ clock = Epoch
  /\ tracked = {}
  /\ tokens = [s \in Subjects |-> 0]
  /\ last = [s \in Subjects |-> Never]
  /\ lastCleanup = Never
  /\ since = Never /\ latest = Never
  /\ granted = 0 /\ evictions = 0

Tick ==
  /\ clock < MaxClock
  /\ clock' = clock + 1
  /\ UNCHANGED <<bucketVars, histVars>>

\* Mutants: the sweep drops nothing; the sweep drops whatever has been idle for
\* long enough to earn a token.
LiveForever(S) == S
LiveBriefly(S) == {s \in S : clock - last[s] < Rate}
\* cleanupLocked: what a sweep at the present time leaves.
Live(S) == {s \in S : clock - last[s] < BucketTTL}

CleanupDue == clock - lastCleanup >= CleanupInterval
Swept == IF CleanupDue THEN Live(tracked) ELSE tracked

\* evictOldestLocked drops one of these: map order decides between equally old buckets.
Oldest(S) == {s \in S : \A t \in S : last[s] <= last[t]}

\* Mutant: the cap is tested with > instead of >=.
FullOffByOne(S) == Cardinality(S) > MaxBuckets
Full(S) == Cardinality(S) >= MaxBuckets

\* The buckets that may be left for a request of s to find.
Left(s) ==
  IF s \notin Swept /\ Full(Swept)
    THEN {Swept \ {t} : t \in Oldest(Swept)}
    ELSE {Swept}

Lesser(m, n) == IF m <= n THEN m ELSE n

\* Mutant: a bucket is not refilled by the time that passed.
NoRefill(s, B) == IF s \in B THEN tokens[s] ELSE Burst
\* Mutant: the refill is not capped at the burst.
UncappedRefill(s, B) ==
  IF s \in B THEN tokens[s] + (clock - last[s]) \div Rate ELSE Burst
\* The tokens of s after the refill, given the buckets B that are left; a new
\* bucket starts full.
Refilled(s, B) ==
  LET had     == IF s \in B THEN tokens[s] ELSE Burst
      elapsed == clock - (IF s \in B THEN last[s] ELSE Never)
  IN  Lesser(Burst, had + elapsed \div Rate)

\* What allow(s) leaves in the map: s has n tokens.
Store(s, B, n) ==
  /\ tracked' = B \cup {s}
  /\ tokens' = [t \in Subjects |-> IF t = s THEN n ELSE IF t \in B THEN tokens[t] ELSE 0]
  /\ last' = [t \in Subjects |-> IF t = s THEN clock ELSE IF t \in B THEN last[t] ELSE Never]
  /\ lastCleanup' = IF CleanupDue THEN clock ELSE lastCleanup
  /\ UNCHANGED clock

\* The history of Watched: a window starts with its first request, and may be
\* restarted with any later one, so that every window is looked at.
Record(s, B, grants) ==
  \/ /\ s = Watched /\ since # Never
     /\ latest' = clock
     /\ granted' = granted + grants
     /\ UNCHANGED <<since, evictions>>
  \/ /\ s = Watched
     /\ latest' = clock
     /\ since' = clock
     /\ granted' = grants
     /\ evictions' = 0
  \/ /\ s # Watched /\ Watched \notin Swept \ B
     /\ UNCHANGED histVars
  \/ /\ s # Watched /\ Watched \in Swept \ B
     /\ evictions < MaxEvictions
     /\ evictions' = evictions + 1
     /\ UNCHANGED <<since, latest, granted>>

\* allow(s) reports true ...
Grant(s) ==
  \E B \in Left(s) :
    /\ Refilled(s, B) > 0
    /\ Store(s, B, Refilled(s, B) - 1)
    /\ Record(s, B, 1)

\* ... or false.
Deny(s) ==
  \E B \in Left(s) :
    /\ Refilled(s, B) = 0
    /\ Store(s, B, 0)
    /\ Record(s, B, 0)

Allow(s) == Grant(s) \/ Deny(s)

Next == Tick \/ \E s \in Subjects : Allow(s)

Spec == Init /\ [][Next]_vars

----------------------------------------------------------------------------
(* Properties.                                                             *)

TypeOK ==
  /\ clock \in Nat
  /\ tracked \in SUBSET Subjects
  /\ tokens \in [Subjects -> 0..Burst]
  /\ last \in [Subjects -> Nat]
  /\ lastCleanup \in Nat
  /\ since \in Nat /\ latest \in Nat
  /\ granted \in Nat /\ evictions \in Nat

\* The map never holds more than rateLimitMaxBuckets buckets.
BucketsCapped == IsFiniteSet(tracked) /\ Cardinality(tracked) <= MaxBuckets

\* The strengthening that makes the safety properties inductive: recorded times
\* lie in the past, ...
TimesInv ==
  /\ Epoch <= clock
  /\ lastCleanup <= clock
  /\ since <= latest /\ latest <= clock
  /\ \A s \in Subjects : last[s] <= clock

\* ... what the last sweep left was not idle then, ...
SweepInv == \A s \in tracked : lastCleanup - last[s] < BucketTTL

\* ... and what Watched may still be granted is covered by its window: by the
\* tokens of its bucket, or, without a bucket, by a whole burst that an eviction
\* gave back or the idle time since has earned.
Credit == Burst * Rate * (1 + evictions) + (latest - since) - granted * Rate

CreditInv ==
  /\ Watched \in tracked => since # Never /\ last[Watched] = latest
  /\ since # Never /\ Watched \in tracked => tokens[Watched] * Rate <= Credit
  /\ since # Never /\ Watched \notin tracked =>
       /\ 0 <= Credit
       /\ Burst * Rate <= Credit \/ BucketTTL <= clock - latest

Inv == TypeOK /\ TimesInv /\ BucketsCapped /\ SweepInv /\ CreditInv

\* In any window of requests a subject is granted at most a burst and one more
\* per Rate elapsed, however often idle buckets are swept away and recreated;
\* only an eviction at the cap gives it one more burst.
BudgetKept ==
  since # Never => granted * Rate <= Burst * Rate * (1 + evictions) + (latest - since)

\* A subject that lets Rate pass between two requests is never denied the second,
\* whether its bucket was kept, swept or evicted meanwhile.
PatientSubjectServed ==
  [][Deny(Watched) => clock - latest < Rate]_vars

\* After any call no bucket is left that has been idle for the TTL and a cleanup
\* interval: the lazy sweep does run.
IdleBucketsDropped ==
  [][(\E s \in Subjects : Allow(s)) =>
       \A t \in tracked' : clock - last'[t] < BucketTTL + CleanupInterval]_vars

\* ratelimit.go:13-14, "the sustained request rate per authenticated subject ...
\* 2 requests per second": a subject that asks often enough to be denied has been
\* granted one request per Rate since any earlier request of its.
SustainedRate ==
  [][Deny(Watched) /\ since # Never => granted >= (clock - since) \div Rate]_vars
=============================================================================
