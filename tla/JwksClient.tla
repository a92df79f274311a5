----------------------------- MODULE JwksClient -----------------------------
(***************************************************************************)
(* The JWKS client of internal/auth/jwt.go: key() as it is run by many     *)
(* HTTP requests at once, fetch(), and the Identity Provider it asks.      *)
(*                                                                         *)
(* Every critical section of c.mu is one action.  A request is one call of *)
(* key(); it claims at most one fetch, so the channel a claim makes        *)
(* (c.fetching = make(chan struct{})) is named by the request that made it.*)
(* Time is an integer clock; time.Time{} is 0 and the clock starts at Epoch*)
(* so that now.Sub(time.Time{}) exceeds every interval, as in Go.          *)
(***************************************************************************)
EXTENDS Integers

CONSTANTS
  Requests,      \* calls of key(), one per authenticated HTTP request
  Kids,          \* key ids that tokens name
  None,          \* nil / not yet set
  TTL,           \* jwksTTL
  MinRefresh,    \* jwksMinRefreshInterval
  FetchTimeout,  \* longest time from claiming a fetch to releasing it: the
                 \* bounded http.Client of NewJWTProvider and local steps
  Lag,           \* longest time from reading the clock to holding c.mu
  Epoch,         \* the clock when the process starts
  MaxClock       \* bound: where the clock stops

\* The intervals are ordered as the code's constants are: 10 s < 30 s < 15 min,
\* with room left for the scheduling lag.
ASSUME IntervalsAssumption ==
  /\ TTL \in Nat /\ MinRefresh \in Nat /\ FetchTimeout \in Nat
  /\ Lag \in Nat /\ Epoch \in Nat /\ MaxClock \in Nat
  /\ Lag + FetchTimeout < MinRefresh
  /\ MinRefresh <= TTL
  /\ TTL <= Epoch

ASSUME NoneAssumption == None \notin Requests /\ None \notin Kids

VARIABLES
  clock,             \* what nowFn returns
  idpKeys,           \* usable key ids in the document the IdP serves now
  keys,              \* c.keys (its key ids)
  fetchedAt,         \* c.fetchedAt
  lastFetchAttempt,  \* c.lastFetchAttempt
  fetching,          \* c.fetching: a channel or None
  closed,            \* channels that have been closed
  mu,                \* c.mu: "usable", or "lost" once its holder panicked
  pc,                \* where each request is in key()
  kid,               \* its argument
  now,               \* its local "now"
  due,               \* clock at which its present timed step must be over
  channel,           \* the channel a waiter waits on
  received,          \* the key set its fetch decoded
  fetchErr,          \* the error its fetch returned is not nil
  result,            \* what key() returned to it
  \* history, read by properties only:
  lastSend,          \* clock at the last outbound fetch
  lastDone,          \* recorded attempt time of the last fetch that ended
  lastOutcome        \* how that fetch ended

cacheVars == <<keys, fetchedAt, lastFetchAttempt, fetching, closed, mu>>
callVars  == <<pc, kid, now, due, channel, received, fetchErr, result>>
histVars  == <<lastSend, lastDone, lastOutcome>>
vars      == <<clock, idpKeys, cacheVars, callVars, histVars>>

Never == 0

Init ==
  /\ clock = Epoch
  /\ idpKeys \in SUBSET Kids
  /\ keys = {}
  /\ fetchedAt = Never
  /\ lastFetchAttempt = Never
  /\ fetching = None
  /\ closed = {}
  /\ mu = "usable"
  /\ pc = [r \in Requests |-> "start"]
  /\ kid = [r \in Requests |-> None]
  /\ now = [r \in Requests |-> Never]
  /\ due = [r \in Requests |-> Never]
  /\ channel = [r \in Requests |-> None]
  /\ received = [r \in Requests |-> {}]
  /\ fetchErr = [r \in Requests |-> FALSE]
  /\ result = [r \in Requests |-> "none"]
  /\ lastSend = Never
  /\ lastDone = Never
  /\ lastOutcome = "none"

----------------------------------------------------------------------------
(* The environment.                                                        *)

\* The Identity Provider rotates its keys.
Publish ==
  /\ \E S \in SUBSET Kids : idpKeys' = S
  /\ UNCHANGED <<clock, cacheVars, callVars, histVars>>

InFlight(r) == pc[r] \in {"fetching", "swap", "release"}
Timed(r) == pc[r] = "lookup" \/ InFlight(r)

\* Time passes, but not past the moment a timed step must be over.
Tick ==
  /\ clock < MaxClock
  /\ \A r \in Requests : Timed(r) => clock < due[r]
  /\ clock' = clock + 1
  /\ UNCHANGED <<idpKeys, cacheVars, callVars, histVars>>

----------------------------------------------------------------------------
(* key()                                                                   *)

\* now := c.nowFn(), read before c.mu is taken.
Start(r) ==
  /\ pc[r] = "start"
  /\ pc' = [pc EXCEPT ![r] = "lookup"]
  /\ \E k \in Kids : kid' = [kid EXCEPT ![r] = k]
  /\ now' = [now EXCEPT ![r] = clock]
  /\ due' = [due EXCEPT ![r] = clock + Lag]
  /\ UNCHANGED <<clock, idpKeys, cacheVars, channel, received, fetchErr, result, histVars>>

Cached(r) == kid[r] \in keys

\* Mutant: cached keys never expire.
FreshForever(r) == TRUE
Fresh(r) == now[r] - fetchedAt < TTL

\* Mutant: only successful fetches are throttled.
ThrottledBySuccess(r) == now[r] - fetchedAt < MinRefresh
Throttled(r) == now[r] - lastFetchAttempt < MinRefresh

\* Mutant: nobody waits for a fetch in flight.
NeverWait == FALSE
FetchInFlight == fetching # None

\* Mutant: the second result of the map read is dropped.
AnswerUnchecked(r) == IF Cached(r) THEN "key" ELSE "nil"
AnswerFromCache(r) == IF Cached(r) THEN "key" ELSE "unknown"

\* key() returns res to r, and its locals are gone.
Return(r, res) ==
  /\ pc' = [pc EXCEPT ![r] = "done"]
  /\ result' = [result EXCEPT ![r] = res]
  /\ kid' = [kid EXCEPT ![r] = None]
  /\ now' = [now EXCEPT ![r] = Never]
  /\ due' = [due EXCEPT ![r] = Never]
  /\ channel' = [channel EXCEPT ![r] = None]
  /\ fetchErr' = [fetchErr EXCEPT ![r] = FALSE]
  /\ UNCHANGED received

\* r holds c.mu for its first critical section, which never blocks inside.
Looking(r) == pc[r] = "lookup" /\ mu = "usable"

FreshHit(r) ==
  /\ Looking(r) /\ Cached(r) /\ Fresh(r)
  /\ Return(r, "key")
  /\ UNCHANGED <<clock, idpKeys, cacheVars, histVars>>

\* Answered from the cache as it is, stale entries included.
ThrottledHit(r) ==
  /\ Looking(r) /\ Cached(r) /\ ~Fresh(r) /\ Throttled(r)
  /\ Return(r, "key")
  /\ UNCHANGED <<clock, idpKeys, cacheVars, histVars>>

ThrottledMiss(r) ==
  /\ Looking(r) /\ ~Cached(r) /\ Throttled(r)
  /\ ~FetchInFlight
  /\ Return(r, "unknown")
  /\ UNCHANGED <<clock, idpKeys, cacheVars, histVars>>

Wait(r) ==
  /\ Looking(r) /\ ~Cached(r) /\ Throttled(r)
  /\ FetchInFlight
  /\ pc' = [pc EXCEPT ![r] = "waiting"]
  /\ channel' = [channel EXCEPT ![r] = fetching]
  /\ due' = [due EXCEPT ![r] = Never]
  /\ UNCHANGED <<clock, idpKeys, cacheVars, kid, now, received, fetchErr, result, histVars>>

\* The fetch slot is claimed under the lock; the request then goes out.
Claim(r) ==
  /\ Looking(r) /\ ~(Cached(r) /\ Fresh(r)) /\ ~Throttled(r)
  /\ lastFetchAttempt' = now[r]
  /\ fetching' = r
  /\ pc' = [pc EXCEPT ![r] = "fetching"]
  /\ due' = [due EXCEPT ![r] = clock + FetchTimeout]
  /\ lastSend' = clock
  /\ UNCHANGED <<clock, idpKeys, keys, fetchedAt, closed, mu, kid, now, channel,
                 received, fetchErr, result, lastDone, lastOutcome>>

\* select: the channel is closed, and the cache is read again.
Wake(r) ==
  /\ pc[r] = "waiting" /\ mu = "usable"
  /\ channel[r] \in closed
  /\ Return(r, AnswerFromCache(r))
  /\ UNCHANGED <<clock, idpKeys, cacheVars, histVars>>

\* select: the waiter's own context ends first.
GiveUp(r) ==
  /\ pc[r] = "waiting"
  /\ Return(r, "error")
  /\ UNCHANGED <<clock, idpKeys, cacheVars, histVars>>

----------------------------------------------------------------------------
(* fetch(), run by the request that claimed it, without c.mu.              *)

\* The whole response arrives and decodes: its usable keys are the ones the
\* Identity Provider published when it answered.
Receive(r) ==
  /\ pc[r] = "fetching"
  /\ pc' = [pc EXCEPT ![r] = "swap"]
  /\ received' = [received EXCEPT ![r] = idpKeys]
  /\ UNCHANGED <<clock, idpKeys, cacheVars, kid, now, due, channel, fetchErr, result, histVars>>

\* fetch returns an error before the swap, for a reason in {"idp", "context"}:
\* transport error, timeout, status, undecodable body ("idp"), or the end of
\* the claiming request's own context, which the fetch runs under.
FetchFails(r) ==
  /\ pc[r] = "fetching"
  /\ pc' = [pc EXCEPT ![r] = "release"]
  /\ fetchErr' = [fetchErr EXCEPT ![r] = TRUE]
  /\ lastOutcome' \in {"idp", "context"}
  /\ UNCHANGED <<clock, idpKeys, cacheVars, kid, now, due, channel, received, result,
                 lastSend, lastDone>>

\* Mutant: the fetched keys are added to the old ones.
MergedKeys(r) == keys \cup received[r]
FetchedKeys(r) == received[r]

\* The final swap, under c.mu.  The deferred Body.Close may still turn the
\* finished fetch into an error.
Swap(r) ==
  /\ pc[r] = "swap" /\ mu = "usable"
  /\ pc' = [pc EXCEPT ![r] = "release"]
  /\ keys' = FetchedKeys(r)
  /\ fetchedAt' = clock
  /\ received' = [received EXCEPT ![r] = {}]
  /\ \E closeErr \in BOOLEAN : fetchErr' = [fetchErr EXCEPT ![r] = closeErr]
  /\ lastOutcome' = "swapped"
  /\ UNCHANGED <<clock, idpKeys, lastFetchAttempt, fetching, closed, mu, kid, now,
                 due, channel, result, lastSend, lastDone>>

\* Mutant: a failed fetch does not close its channel.
ClosesOnSuccess(r) == IF fetchErr[r] THEN {} ELSE {fetching}
Closes(r) == {fetching}

\* close(c.fetching); c.fetching = nil.  close(nil) panics, and nothing then
\* unlocks c.mu.
Release(r) ==
  /\ pc[r] = "release" /\ mu = "usable"
  /\ IF fetching = None
       THEN /\ mu' = "lost"
            /\ Return(r, "panic")
            /\ UNCHANGED <<fetching, closed>>
       ELSE /\ closed' = closed \cup Closes(r)
            /\ fetching' = None
            /\ pc' = [pc EXCEPT ![r] = "reread"]
            /\ due' = [due EXCEPT ![r] = Never]
            /\ UNCHANGED <<mu, kid, now, channel, received, fetchErr, result>>
  /\ lastDone' = now[r]
  /\ UNCHANGED <<clock, idpKeys, keys, fetchedAt, lastFetchAttempt, lastSend, lastOutcome>>

\* The claimer's last critical section: the cached key if there is one, stale
\* or not, else the fetch error or "unknown key id".
Reread(r) ==
  /\ pc[r] = "reread" /\ mu = "usable"
  /\ Return(r, IF fetchErr[r] /\ ~Cached(r) THEN "error" ELSE AnswerFromCache(r))
  /\ UNCHANGED <<clock, idpKeys, cacheVars, histVars>>

----------------------------------------------------------------------------
Lookup(r) == FreshHit(r) \/ ThrottledHit(r) \/ ThrottledMiss(r) \/ Wait(r) \/ Claim(r)
Fetch(r)  == Receive(r) \/ FetchFails(r) \/ Swap(r) \/ Release(r)

\* What the goroutine of r does by itself once started.
Proceed(r) == Lookup(r) \/ Fetch(r) \/ Wake(r) \/ Reread(r)

Next ==
  \/ Publish
  \/ Tick
  \/ \E r \in Requests : Start(r) \/ Proceed(r) \/ GiveUp(r)

Spec == Init /\ [][Next]_vars

\* A goroutine that can run is scheduled, sync.Mutex is starvation-free, and
\* the bounded http.Client ends every fetch one way or the other.
FairSpec == Spec /\ \A r \in Requests : WF_vars(Proceed(r))

----------------------------------------------------------------------------
(* Properties.                                                             *)

CacheTypeOK ==
  /\ keys \in SUBSET Kids
  /\ fetchedAt \in Nat
  /\ lastFetchAttempt \in Nat
  /\ fetching \in Requests \cup {None}
  /\ closed \in SUBSET Requests
  /\ mu \in {"usable", "lost"}

CallTypeOK ==
  /\ pc \in [Requests -> {"start", "lookup", "waiting", "fetching", "swap", "release",
                          "reread", "done"}]
  /\ kid \in [Requests -> Kids \cup {None}]
  /\ now \in [Requests -> Nat]
  /\ due \in [Requests -> Nat]
  /\ channel \in [Requests -> Requests \cup {None}]
  /\ received \in [Requests -> SUBSET Kids]
  /\ fetchErr \in [Requests -> BOOLEAN]
  /\ result \in [Requests -> {"none", "key", "unknown", "error", "panic"}]

HistTypeOK ==
  /\ lastSend \in Nat
  /\ lastDone \in Nat
  /\ lastOutcome \in {"none", "idp", "context", "swapped"}

\* Every variable keeps its type; in particular key() returns a key or an
\* error, never neither.
TypeOK ==
  /\ clock \in Nat
  /\ idpKeys \in SUBSET Kids
  /\ CacheTypeOK
  /\ CallTypeOK
  /\ HistTypeOK

\* The request that is in flight owns c.fetching: no two fetches overlap, so no
\* claim overwrites another's channel, no channel is closed twice or never, and
\* close(nil) never panics with c.mu held (which would stop every later
\* authentication).
SingleFlight ==
  /\ mu = "usable"
  /\ \A r \in Requests : InFlight(r) <=> fetching = r

\* The strengthening that makes the safety properties inductive: how far the
\* clock can be from the times key() recorded, ...
TimesInv ==
  /\ Epoch <= clock
  /\ lastFetchAttempt <= clock
  /\ lastSend <= lastFetchAttempt + Lag
  /\ \A r \in Requests :
       /\ pc[r] \notin {"start", "done"} => Epoch <= now[r]
       /\ pc[r] = "lookup" => now[r] <= clock /\ clock <= due[r] /\ due[r] <= now[r] + Lag
       /\ InFlight(r) => /\ now[r] = lastFetchAttempt
                         /\ clock <= due[r]
                         /\ due[r] <= lastFetchAttempt + Lag + FetchTimeout

\* ... what is known of the last fetch once it has ended, ...
EndedInv ==
  /\ lastDone <= lastFetchAttempt
  /\ fetching = None => lastDone = lastFetchAttempt
  /\ \A r \in Requests : pc[r] = "reread" => now[r] <= lastDone
  /\ fetching = None /\ lastOutcome = "swapped" => lastFetchAttempt <= fetchedAt
  /\ \A r \in Requests :
       pc[r] = "release" /\ lastOutcome = "swapped" => lastFetchAttempt <= fetchedAt

\* ... and that a waiter's channel is either that of the fetch in flight or
\* closed by a fetch the waiter may rely on.
WaitersInv ==
  /\ \A r \in closed : pc[r] \in {"reread", "done"}
  /\ \A r \in Requests : pc[r] = "waiting" =>
       \/ channel[r] \in closed /\ now[r] - lastDone < MinRefresh
       \/ channel[r] = fetching /\ fetching # None /\ now[r] - lastFetchAttempt < MinRefresh

Inv == SingleFlight /\ TimesInv /\ EndedInv /\ WaitersInv

\* A kid is called unknown only after a refresh attempted less than
\* jwksMinRefreshInterval before the request's own time has ended: nothing is
\* rejected against a cache that no recent refresh had a chance to fill.
RejectedAfterRefresh ==
  [][\A r \in Requests :
       result[r] = "none" /\ result'[r] = "unknown"
       => lastDone # Never /\ now[r] - lastDone < MinRefresh]_vars

\* Outbound fetches leave at least MinRefresh - Lag apart in real time, whatever
\* kids the requests name: the throttle reads times taken before the lock.
FetchesSpaced ==
  [][lastSend' # lastSend =>
       lastSend = Never \/ lastSend' - lastSend >= MinRefresh - Lag]_vars

\* A key from a set older than jwksTTL is used only while a refresh attempted
\* within jwksMinRefreshInterval is in flight or has failed to replace the set.
StaleOnlyIfRefreshing ==
  [][\A r \in Requests :
       /\ pc[r] = "lookup" /\ result[r] = "none" /\ result'[r] = "key"
       /\ now[r] - fetchedAt >= TTL
       => /\ now[r] - lastFetchAttempt < MinRefresh
          /\ fetching # None \/ lastOutcome # "swapped"]_vars

\* Every call of key() returns.
EveryCallReturns == \A r \in Requests : pc[r] = "lookup" ~> pc[r] = "done"

\* jwt.go:338-340 and the test beside it: a waiter is not rejected for a kid the
\* Identity Provider serves merely because another request's client hung up.
WaiterNotRejectedByHangup ==
  [][\A r \in Requests :
       /\ pc[r] = "waiting" /\ result'[r] = "unknown" /\ kid[r] \in idpKeys
       => lastOutcome # "context"]_vars

\* The client as its callers see it: the refresh in flight, if any, ...
Refresh ==
  IF fetching = None THEN "idle"
  ELSE CASE pc[fetching] = "fetching" -> "asked"
         [] pc[fetching] = "swap"     -> "received"
         [] OTHER                     -> "over"

\* ... and the key set it has received and not yet installed.
Received == IF fetching = None THEN {} ELSE received[fetching]

Cache == INSTANCE KeyCache WITH
  refresh <- Refresh, received <- Received, refreshed <- lastDone # Never

\* However its critical sections interleave, the client implements the abstract
\* key cache: whole key sets, one refresh at a time, no kid unknown too early.
ImplementsKeyCache == Cache!Spec
=============================================================================
