-------------------------- MODULE JwksClientProofs --------------------------
(***************************************************************************)
(* Theorems about JwksClient, for every number of requests, every set of   *)
(* key ids and all intervals IntervalsAssumption allows.                   *)
(***************************************************************************)
EXTENDS JwksClient, TLAPS

(***************************************************************************)
(* Type correctness.                                                       *)
(***************************************************************************)
\* Every variable keeps its type, whatever the requests do.
THEOREM TypeCorrect == Spec => []TypeOK
<1>1. Init => TypeOK 
  <2> USE IntervalsAssumption DEF IntervalsAssumption, Init, Never
  <2>1. Init => CacheTypeOK
    BY DEF CacheTypeOK
  <2>2. Init => CallTypeOK
    BY DEF CallTypeOK
  <2>3. Init => HistTypeOK
    BY DEF HistTypeOK
  <2> QED BY <2>1, <2>2, <2>3 DEF TypeOK
<1>2. TypeOK /\ [Next]_vars => TypeOK'
  <2> SUFFICES ASSUME TypeOK, [Next]_vars PROVE TypeOK'
    OBVIOUS
  <2> USE IntervalsAssumption DEF IntervalsAssumption, TypeOK, CacheTypeOK, CallTypeOK, HistTypeOK,
                             cacheVars, callVars, histVars, Never
  <2>1. CASE Publish
    BY <2>1 DEF Publish
  <2>2. CASE Tick
    BY <2>2 DEF Tick
  <2>3. ASSUME NEW r \in Requests, Start(r) PROVE TypeOK'
    BY <2>3 DEF Start
  <2>4. ASSUME NEW r \in Requests, Lookup(r) PROVE TypeOK'
    <3>1. CASE FreshHit(r)
      BY <3>1 DEF FreshHit, Return
    <3>2. CASE ThrottledHit(r)
      BY <3>2 DEF ThrottledHit, Return
    <3>3. CASE ThrottledMiss(r)
      BY <3>3 DEF ThrottledMiss, Return
    <3>4. CASE Wait(r)
      BY <3>4 DEF Wait
    <3>5. CASE Claim(r)
      BY <3>5 DEF Claim
    <3> QED BY <2>4, <3>1, <3>2, <3>3, <3>4, <3>5 DEF Lookup
  <2>5. ASSUME NEW r \in Requests, Fetch(r) PROVE TypeOK'
    <3>1. CASE Receive(r)
      BY <3>1 DEF Receive
    <3>2. CASE FetchFails(r)
      BY <3>2 DEF FetchFails
    <3>3. CASE Swap(r)
      BY <3>3 DEF Swap, FetchedKeys
    <3>4. CASE Release(r)
      <4>1. CASE fetching = None
        <5>1. Return(r, "panic") /\ mu' = "lost" /\ lastDone' = now[r]
          BY <3>4, <4>1 DEF Release
        <5>2. CallTypeOK'
          BY <5>1 DEF Return
        <5> QED BY <3>4, <4>1, <5>1, <5>2 DEF Release
      <4>2. CASE fetching # None
        BY <3>4, <4>2 DEF Release, Closes
      <4> QED BY <4>1, <4>2
    <3> QED BY <2>5, <3>1, <3>2, <3>3, <3>4 DEF Fetch
  <2>6. ASSUME NEW r \in Requests, Wake(r) PROVE TypeOK'
    BY <2>6 DEF Wake, Return, AnswerFromCache
  <2>7. ASSUME NEW r \in Requests, Reread(r) PROVE TypeOK'
    BY <2>7 DEF Reread, Return, AnswerFromCache
  <2>8. ASSUME NEW r \in Requests, GiveUp(r) PROVE TypeOK'
    BY <2>8 DEF GiveUp, Return
  <2>9. CASE UNCHANGED vars
    BY <2>9 DEF vars
  <2> QED BY <2>1, <2>2, <2>3, <2>4, <2>5, <2>6, <2>7, <2>8, <2>9 DEF Next, Proceed
<1> QED BY <1>1, <1>2, PTL DEF Spec

(***************************************************************************)
(* The inductive invariant.                                                *)
(***************************************************************************)
\* Nothing has happened yet when the process starts.
LEMMA InvInit == Init => Inv
  BY IntervalsAssumption, NoneAssumption
     DEF IntervalsAssumption, NoneAssumption, Init, Inv, SingleFlight, TimesInv, EndedInv,
         WaitersInv, InFlight, Never

\* Every step of the environment and of every request keeps the invariant.
LEMMA InvStep == TypeOK /\ TypeOK' /\ Inv /\ [Next]_vars => Inv'
<1> SUFFICES ASSUME TypeOK, TypeOK', Inv, [Next]_vars PROVE Inv'
  OBVIOUS
<1> USE IntervalsAssumption, NoneAssumption
    DEF IntervalsAssumption, NoneAssumption, TypeOK, CacheTypeOK, CallTypeOK, HistTypeOK,
        cacheVars, callVars, histVars, Never, InFlight,
        Inv, SingleFlight, TimesInv, EndedInv, WaitersInv
<1>1. CASE Publish
  BY <1>1 DEF Publish
<1>2. CASE Tick
  BY <1>2 DEF Tick, Timed
<1>3. ASSUME NEW r \in Requests, FreshHit(r) PROVE Inv'
  BY <1>3 DEF FreshHit, Looking, Return
<1>4. ASSUME NEW r \in Requests, ThrottledHit(r) PROVE Inv'
  BY <1>4 DEF ThrottledHit, Looking, Return
<1>5. ASSUME NEW r \in Requests, ThrottledMiss(r) PROVE Inv'
  BY <1>5 DEF ThrottledMiss, Looking, Return
<1>6. ASSUME NEW r \in Requests, Wait(r) PROVE Inv'
  <2>1. SingleFlight'
    BY <1>6 DEF Wait, Looking, Throttled, FetchInFlight
  <2>2. TimesInv'
    BY <1>6 DEF Wait, Looking, Throttled, FetchInFlight
  <2>3. EndedInv'
    BY <1>6 DEF Wait, Looking, Throttled, FetchInFlight
  <2>4. WaitersInv'
    BY <1>6 DEF Wait, Looking, Throttled, FetchInFlight
  <2> QED BY <2>1, <2>2, <2>3, <2>4
<1>7. ASSUME NEW r \in Requests, Claim(r) PROVE Inv'
  <2>1. SingleFlight'
    BY <1>7 DEF Claim, Looking, Throttled
  <2>2. TimesInv'
    BY <1>7 DEF Claim, Looking, Throttled
  <2>3. EndedInv'
    BY <1>7 DEF Claim, Looking, Throttled
  <2>4. WaitersInv'
    BY <1>7 DEF Claim, Looking, Throttled
  <2> QED BY <2>1, <2>2, <2>3, <2>4
<1>8. ASSUME NEW r \in Requests, Receive(r) PROVE Inv'
  BY <1>8 DEF Receive
<1>9. ASSUME NEW r \in Requests, FetchFails(r) PROVE Inv'
  BY <1>9 DEF FetchFails
<1>10. ASSUME NEW r \in Requests, Swap(r) PROVE Inv'
  <2>1. SingleFlight'
    BY <1>10 DEF Swap
  <2>2. TimesInv'
    BY <1>10 DEF Swap
  <2>3. EndedInv'
    BY <1>10 DEF Swap
  <2>4. WaitersInv'
    BY <1>10 DEF Swap
  <2> QED BY <2>1, <2>2, <2>3, <2>4
<1>11. ASSUME NEW r \in Requests, Release(r) PROVE Inv'
  <2>1. SingleFlight'
    BY <1>11 DEF Release, Return, Closes
  <2>2. TimesInv'
    BY <1>11 DEF Release, Return, Closes
  <2>3. EndedInv'
    BY <1>11 DEF Release, Return, Closes
  <2>4. WaitersInv'
    BY <1>11 DEF Release, Return, Closes
  <2> QED BY <2>1, <2>2, <2>3, <2>4
<1>12. ASSUME NEW r \in Requests, Wake(r) PROVE Inv'
  BY <1>12 DEF Wake, Return
<1>13. ASSUME NEW r \in Requests, Reread(r) PROVE Inv'
  BY <1>13 DEF Reread, Return
<1>14. ASSUME NEW r \in Requests, GiveUp(r) PROVE Inv'
  BY <1>14 DEF GiveUp, Return
<1>15. ASSUME NEW r \in Requests, Start(r) PROVE Inv'
  BY <1>15 DEF Start
<1>16. CASE UNCHANGED vars
  BY <1>16 DEF vars
<1> QED
  BY <1>1, <1>2, <1>3, <1>4, <1>5, <1>6, <1>7, <1>8, <1>9, <1>10, <1>11, <1>12, <1>13, <1>14, <1>15, <1>16
     DEF Next, Proceed, Lookup, Fetch

\* The invariant holds in every reachable state.
THEOREM Invariance == Spec => []Inv
<1>1. Init => Inv
  BY InvInit
<1>2. TypeOK /\ TypeOK' /\ Inv /\ [Next]_vars => Inv'
  BY InvStep
<1> QED BY <1>1, <1>2, TypeCorrect, PTL DEF Spec

(***************************************************************************)
(* The safety properties.                                                  *)
(***************************************************************************)
\* At most one fetch is in flight, it owns c.fetching, and c.mu is never lost to
\* a panic.
THEOREM SingleFlightHolds == Spec => []SingleFlight
<1>1. Inv => SingleFlight
  BY DEF Inv
<1> QED BY <1>1, Invariance, PTL

\* What one step may not do, in the words of the two action properties below.
LEMMA StepRejectedAfterRefresh ==
  ASSUME TypeOK, Inv, [Next]_vars, NEW r \in Requests,
         result[r] = "none", result'[r] = "unknown"
  PROVE  lastDone # Never /\ now[r] - lastDone < MinRefresh
<1> USE IntervalsAssumption
    DEF IntervalsAssumption, TypeOK, CacheTypeOK, CallTypeOK, HistTypeOK, Never, InFlight,
        Inv, TimesInv, EndedInv, WaitersInv, SingleFlight
<1>1. PICK q \in Requests : ThrottledMiss(q) \/ Wake(q) \/ Reread(q)
  BY DEF Next, Proceed, Lookup, Fetch, vars, cacheVars, callVars, histVars, Publish, Tick, Start,
         FreshHit, ThrottledHit, Wait, Claim, GiveUp, Receive, FetchFails, Swap, Release, Return
<1>2. q = r
  BY <1>1 DEF ThrottledMiss, Wake, Reread, Return
<1>3. CASE ThrottledMiss(r)
  BY <1>3 DEF ThrottledMiss, Looking, Throttled, FetchInFlight
<1>4. CASE Wake(r)
  BY <1>4 DEF Wake
<1>5. CASE Reread(r)
  BY <1>5 DEF Reread
<1> QED BY <1>1, <1>2, <1>3, <1>4, <1>5

\* No kid is called unknown before a recent refresh has ended.
THEOREM RejectedAfterRefreshHolds == Spec => RejectedAfterRefresh
<1>1. TypeOK /\ Inv /\ [Next]_vars =>
        [\A r \in Requests :
           result[r] = "none" /\ result'[r] = "unknown"
           => lastDone # Never /\ now[r] - lastDone < MinRefresh]_vars
  BY StepRejectedAfterRefresh
<1> QED BY <1>1, TypeCorrect, Invariance, PTL DEF Spec, RejectedAfterRefresh

\* Two outbound fetches are at least MinRefresh - Lag apart.
THEOREM FetchesSpacedHolds == Spec => FetchesSpaced
<1>1. TypeOK /\ Inv /\ [Next]_vars =>
        [lastSend' # lastSend =>
           lastSend = Never \/ lastSend' - lastSend >= MinRefresh - Lag]_vars
  <2> SUFFICES ASSUME TypeOK, Inv, [Next]_vars, lastSend' # lastSend
               PROVE  lastSend' - lastSend >= MinRefresh - Lag
    OBVIOUS
  <2>1. PICK r \in Requests : Claim(r)
    BY DEF Next, Proceed, Lookup, Fetch, vars, cacheVars, callVars, histVars, Publish, Tick,
           Start, FreshHit, ThrottledHit, ThrottledMiss, Wait, GiveUp, Receive, FetchFails,
           Swap, Release, Wake, Reread
  <2> QED
    BY <2>1, IntervalsAssumption
       DEF IntervalsAssumption, TypeOK, CacheTypeOK, CallTypeOK, HistTypeOK, Inv, TimesInv,
           Claim, Looking, Throttled
<1> QED BY <1>1, TypeCorrect, Invariance, PTL DEF Spec, FetchesSpaced

\* A key from a set older than jwksTTL is answered only while its replacement is
\* being fetched or has just failed to be.
THEOREM StaleOnlyIfRefreshingHolds == Spec => StaleOnlyIfRefreshing
<1>1. TypeOK /\ Inv /\ [Next]_vars =>
        [\A r \in Requests :
           /\ pc[r] = "lookup" /\ result[r] = "none" /\ result'[r] = "key"
           /\ now[r] - fetchedAt >= TTL
           => /\ now[r] - lastFetchAttempt < MinRefresh
              /\ fetching # None \/ lastOutcome # "swapped"]_vars
  <2> SUFFICES ASSUME TypeOK, Inv, Next, NEW r \in Requests,
                      pc[r] = "lookup", result[r] = "none", result'[r] = "key",
                      now[r] - fetchedAt >= TTL
               PROVE  /\ now[r] - lastFetchAttempt < MinRefresh
                      /\ fetching # None \/ lastOutcome # "swapped"
    BY DEF vars, callVars
  <2> USE IntervalsAssumption
      DEF IntervalsAssumption, TypeOK, CacheTypeOK, CallTypeOK, HistTypeOK, InFlight,
          Inv, TimesInv, EndedInv, SingleFlight
  <2>1. PICK q \in Requests : FreshHit(q) \/ ThrottledHit(q) \/ Wake(q) \/ Reread(q)
    BY DEF Next, Proceed, Lookup, Fetch, vars, cacheVars, callVars, histVars, Publish, Tick,
           Start, ThrottledMiss, Wait, Claim, GiveUp, Receive, FetchFails, Swap, Release, Return
  <2>2. q = r
    BY <2>1 DEF FreshHit, ThrottledHit, Wake, Reread, Return
  <2>3. ThrottledHit(r)
    BY <2>1, <2>2 DEF FreshHit, Fresh, Wake, Reread
  <2> QED
    BY <2>3 DEF ThrottledHit, Throttled, Fresh
<1> QED BY <1>1, TypeCorrect, Invariance, PTL DEF Spec, StaleOnlyIfRefreshing

(***************************************************************************)
(* The client implements the abstract key cache.                           *)
(***************************************************************************)
\* What the refinement needs of a request beyond Inv: only a request in "swap"
\* holds a received key set, and who asks has a kid and no result.
AsksInv ==
  \A r \in Requests :
    /\ pc[r] # "swap" => received[r] = {}
    /\ pc[r] \notin {"start", "done"} => kid[r] \in Kids /\ result[r] = "none"
    /\ pc[r] = "start" => kid[r] = None /\ result[r] = "none"

\* AsksInv holds in every reachable state.
LEMMA AsksInvariance == Spec => []AsksInv
<1> USE DEF AsksInv
<1>1. Init => AsksInv
  BY DEF Init
<1>2. TypeOK /\ Inv /\ AsksInv /\ [Next]_vars => AsksInv'
  <2> SUFFICES ASSUME TypeOK, Inv, AsksInv, [Next]_vars PROVE AsksInv'
    OBVIOUS
  <2> USE DEF TypeOK, CacheTypeOK, CallTypeOK, cacheVars, callVars
  <2>1. CASE Publish \/ Tick \/ UNCHANGED vars
    BY <2>1 DEF Publish, Tick, vars
  <2>2. ASSUME NEW r \in Requests, Start(r) PROVE AsksInv'
    BY <2>2 DEF Start
  <2>3. ASSUME NEW r \in Requests, Lookup(r) PROVE AsksInv'
    BY <2>3 DEF Lookup, FreshHit, ThrottledHit, ThrottledMiss, Wait, Claim, Looking, Return
  <2>4. ASSUME NEW r \in Requests, Fetch(r) PROVE AsksInv'
    BY <2>4 DEF Fetch, Receive, FetchFails, Swap, Release, Inv, SingleFlight, InFlight, Return
  <2>5. ASSUME NEW r \in Requests, Wake(r) \/ Reread(r) \/ GiveUp(r) PROVE AsksInv'
    BY <2>5 DEF Wake, Reread, GiveUp, Return
  <2> QED BY <2>1, <2>2, <2>3, <2>4, <2>5 DEF Next, Proceed
<1> QED BY <1>1, <1>2, TypeCorrect, Invariance, PTL DEF Spec

\* The initial states are those of the key cache.
LEMMA CacheInit == Init => Cache!Init
  BY DEF Init, Cache!Init, Refresh, Received, Never

\* Every step is a step of the key cache or changes nothing it shows.
LEMMA CacheStep ==
  ASSUME TypeOK, TypeOK', Inv, AsksInv, [Next]_vars
  PROVE  [Cache!Next]_Cache!abstractVars
<1> USE IntervalsAssumption, NoneAssumption
    DEF IntervalsAssumption, NoneAssumption, TypeOK, CacheTypeOK, CallTypeOK, HistTypeOK,
        cacheVars, callVars, histVars, Never, InFlight, Refresh, Received,
        Inv, SingleFlight, AsksInv, Cache!abstractVars
<1>1. CASE Publish
  BY <1>1 DEF Publish, Cache!Next, Cache!Publish
<1>2. CASE Tick \/ UNCHANGED vars
  BY <1>2 DEF Tick, vars
<1>3. ASSUME NEW r \in Requests, Start(r) PROVE Cache!Ask(r)
  BY <1>3 DEF Start, Cache!Ask
<1>4. ASSUME NEW r \in Requests, FreshHit(r) \/ ThrottledHit(r) PROVE Cache!Hit(r)
  BY <1>4 DEF FreshHit, ThrottledHit, Looking, Cached, Return, Cache!Hit, Cache!Answer
<1>5. ASSUME NEW r \in Requests, ThrottledMiss(r) PROVE Cache!Unknown(r)
  BY <1>5, StepRejectedAfterRefresh
     DEF ThrottledMiss, Looking, Cached, Return, Cache!Unknown, Cache!Answer
<1>6. ASSUME NEW r \in Requests, Wait(r) PROVE UNCHANGED Cache!abstractVars
  BY <1>6 DEF Wait, Looking
<1>7. ASSUME NEW r \in Requests, Claim(r) PROVE Cache!BeginRefresh
  <2>1. fetching = None
    BY <1>7 DEF Claim, Looking, Throttled, TimesInv
  <2> QED BY <1>7, <2>1 DEF Claim, Looking, Cache!BeginRefresh
<1>8. ASSUME NEW r \in Requests, Receive(r) PROVE Cache!Receive
  BY <1>8 DEF Receive, Cache!Receive
<1>9. ASSUME NEW r \in Requests, FetchFails(r) PROVE Cache!Fail
  BY <1>9 DEF FetchFails, Cache!Fail
<1>10. ASSUME NEW r \in Requests, Swap(r) PROVE Cache!Install
  BY <1>10 DEF Swap, FetchedKeys, Cache!Install
<1>11. ASSUME NEW r \in Requests, Release(r) PROVE Cache!EndRefresh
  <2>1. fetching = r /\ fetching' = None /\ pc[r] = "release"
    BY <1>11 DEF Release
  <2>2. Epoch > 0 /\ Epoch <= now[r]
    BY <2>1 DEF TimesInv
  <2>3. lastDone' # Never
    BY <1>11, <2>2 DEF Release
  <2>4. Refresh = "over" /\ Refresh' = "idle" /\ Received = {} /\ Received' = {}
    BY <2>1
  <2>5. UNCHANGED <<idpKeys, keys, kid, result>>
    BY <1>11, <2>1 DEF Release
  <2> QED BY <2>3, <2>4, <2>5, Zenon DEF Cache!EndRefresh
<1>12. ASSUME NEW r \in Requests, Wake(r) \/ Reread(r)
       PROVE  Cache!Hit(r) \/ Cache!Unknown(r) \/ Cache!Error(r)
  BY <1>12, StepRejectedAfterRefresh
     DEF Wake, Reread, AnswerFromCache, Cached, Return,
         Cache!Hit, Cache!Unknown, Cache!Error, Cache!Answer
<1>13. ASSUME NEW r \in Requests, GiveUp(r) PROVE Cache!Error(r)
  BY <1>13 DEF GiveUp, Return, Cache!Error, Cache!Answer
<1> QED
  BY <1>1, <1>2, <1>3, <1>4, <1>5, <1>6, <1>7, <1>8, <1>9, <1>10, <1>11, <1>12, <1>13
     DEF Next, Proceed, Lookup, Fetch, Cache!Next

\* The detailed client implements the abstract cache.
THEOREM ImplementsKeyCacheHolds == Spec => ImplementsKeyCache
<1>1. Init => Cache!Init
  BY CacheInit
<1>2. TypeOK /\ TypeOK' /\ Inv /\ AsksInv /\ [Next]_vars => [Cache!Next]_Cache!abstractVars
  BY CacheStep
<1> QED
  BY <1>1, <1>2, TypeCorrect, Invariance, AsksInvariance, PTL
     DEF Spec, ImplementsKeyCache, Cache!Spec

=============================================================================
