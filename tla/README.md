# Verification of go-webapp-template

TLA+ modules for the parts of this web application that are concurrent, that
survive crashes, or that decide who may do what; TLC configurations that check
them on small instances; and TLAPS proofs for every value of the constants.

Run in this directory: `tlc -config X.cfg MCmodule.tla`, `tlapm XProofs.tla`.
`PROJECT.json` lists the components, runs, mutants, the source lines behind every
definition, findings, hazards and theorems.

## 1. The system

One process, one SQLite file, one Identity Provider (IdP) whose tokens arrive in a
header of every request.

| Component | State | Operations | Hard behaviour |
|---|---|---|---|
| JWKS client (`internal/auth/jwt.go`) | cached key set, time of the last success and attempt, channel of the fetch in flight, a mutex | `key` (every authenticated request), `fetch` | goroutines interleave between four critical sections; the network call runs without the lock; waiters; timeouts; IdP key rotation |
| JWT verification (`jwt.go`) | none of its own | `Authenticate`, `verify`, `verificationKey`, `mapJWTError`, `claimsFromMap` | a token may expire, and its key go, while its request waits for the key cache; order of the checks; several errors mapped to one reason |
| Providers and roles (`internal/auth/*.go`) | registry filled by `init` | `NewProvider`, claim mappings, `HasRole` | settings of three providers side by side; roles from different claims |
| Rate limiter (`internal/api/ratelimit.go`) | a capped map of token buckets, time of the last sweep | `allow`, `adminMiddleware` | lazy sweep, eviction at the cap, integer refill |
| Store (`internal/store`) | SQLite file: `schema_migrations`, `config`; one connection | `Open`/`migrate`, `ListConfig`, `SetConfig`, `Ping` | crash anywhere in an upgrade, downgrade, one connection for everything |
| HTTP chain, handlers (`internal/api`, `auth/middleware.go`) | per request: copies of `*http.Request`, status recorders | middlewares, muxes, handlers | which copy is read, several writers of one response, order of the guards |
| UI (`internal/ui`) | parsed templates | page, mutation and fragment | a write followed by a render that can fail |
| Metrics registry (`internal/metrics`) | families with a mutex and a map of series each | `Inc`, `Dec`, `Observe`, `Render` | first use of a series by two requests; fields of a series updated one by one; scrape while requests run |
| Lifecycle (`cmd/app/main.go`) | server, signal and error channels | `run` | shutdown timeout against running handlers |
| Configuration | none after start | `Load` | which variables are required, and by whom |
| Logger, version | none after start | `New`, `Info` | none |

How they interact: `run` loads the configuration, opens the store, builds the provider
and the routes and serves. A request passes requestID, logging, securityHeaders and the
root mux; unless it is for a probe, the metrics or a static file, it goes on through
metrics, maxBody, csrf, `auth.Middleware` (which calls the provider, which calls
`jwksClient.key`), the authed mux and the UI mux; mutations then pass
`adminMiddleware` (which calls `allow`), the role check and `SetConfig`.

What makes each correct: the JWKS client never runs two fetches, never rejects a good
key without having tried to fetch it, spaces its fetches, and serves old keys only when
it cannot do better. The limiter keeps its map and each subject within bounds and never
denies a subject that waits. The store runs each migration exactly once and in order,
refuses a newer schema, keeps what it reported and never waits for its own connection.
The chain lets only admins write, on one budget, and its answers, log lines and metrics
agree. The verifier accepts only genuine tokens, good at the moment it decides, under the
settings of the selected provider, and refuses for the reason it gives. The registry
loses no update and shows each family as it was at one moment. The process lets its
handlers finish, closes the store last, and its exit status says whether it managed to.

## 2. Modules

| Module | What it is |
|---|---|
| `KeyCache` | abstract specification of the JWKS client: no clocks, locks or goroutines |
| `JwksClient` | `key` and `fetch`, one action per critical section; implements `KeyCache` |
| `RateLimiter` | `allow` as one action (it holds `rl.mu` throughout) |
| `Store` | opening and migrating over crashes and releases, then requests on the connection |
| `GuardedWrites` | abstract specification of the request tree: who stores what, how often, and what each request is told |
| `RequestChain` | the request tree from server to store and back; implements `GuardedWrites` |
| `Providers` | from the environment to a provider: `Load`, the `Settings` of `main`, the constructors; operators only |
| `JWTVerify` | start-up with `Providers`, then requests that are authenticated; composed with `KeyCache` |
| `Metrics` | the registry: updates step by step under the families' mutexes, and the scrape |
| `Lifecycle` | `run`, the listener's goroutine, signals, shutdown and exit status |
| `NatLemmas` | the least element of a set of numbers, from which the proofs do induction |
| `MC*` | symmetry sets and constant values for TLC |
| `*Proofs` | theorems and proofs about the module they are named for |

Definitions headed "Mutant:" are plausible bugs in the operator that follows them. They
are never used by a specification; each property is known to fail when its operator is
replaced by such a form.

### JwksClient

`clock` is `nowFn`; `keys`, `fetchedAt`, `lastFetchAttempt`, `fetching` and `mu` are the
fields of `jwksClient`; `closed` is the set of closed channels. A request runs
`Start` (read the clock), then, with the lock, one of `FreshHit`, `ThrottledHit`,
`ThrottledMiss`, `Wait`, `Claim`. The claimer goes on with `Receive` or `FetchFails`,
`Swap`, `Release`, `Reread`; a waiter with `Wake` or `GiveUp` (its own context ended).
`Release` models `close(nil)`, which panics with the lock held: `mu` becomes "lost".
`Publish` is key rotation at the IdP. The kids of a received set are the keys that
`fetch` keeps: a set, because how one key is parsed is no concern of the cache.

Assumed, as `IntervalsAssumption`: a fetch and the delay between reading the clock and
holding the lock together take less than `jwksMinRefreshInterval` (10 s and 30 s in the
code), and `jwksMinRefreshInterval <= jwksTTL`. This is what keeps fetches apart: the
code has no other check that a fetch is already under way. The 10 s hold for the client
that `NewJWTProvider` makes; an `HTTPClient` supplied by a caller is outside.

The refinement: a refresh is "asked" while the owner of `fetching` waits for the answer,
"received" between answer and swap, "over" after the swap or failure, and "idle" when
`fetching` is nil.

### RateLimiter

`tracked`, `tokens` and `last` are the map of buckets, `lastCleanup` the time of the last
sweep. `Grant` and `Deny` are the two results of `allow`: sweep if due, find or make the
bucket (evicting one of the oldest at the cap; map order decides), refill, take a token.
`since`, `latest`, `granted` and `evictions` record the requests of one subject,
`Watched`, over a window that may start at any request of its; any subject can be
`Watched`. Assumed, as `LimitsAssumption`: the TTL is at least the time a bucket takes to
fill (1 h against 5 s).

### Store

The file is `recorded`, `bodies` (how often each body was committed) and `config`
(which write each key shows). `Start` starts some release; `QueryApplied`, `ReadApplied`
or `RefuseNewer`, then `BeginTx`, `ExecBody`, `InsertVersion`, `Commit` per migration, and
`Serve`. `Crash` may happen between any two steps and stands for failing steps too. A
request asks (`Ask`), gets the connection (`Acquire`), and writes and/or lists; the page's
mutation does both, one after the other. SQLite and `database/sql` are external: what a
transaction wrote is there after its commit and only then.

### RequestChain

One action per middleware or handler that reads or writes shared state. `outer` is the
copy of the request that `requestID` made, `inner` the copy that `auth.Middleware` makes;
muxes write the matched pattern into the copy they get. `status` is what the client was
sent (the first `WriteHeader`), `recorded` what the `statusRecorder`s hold (the last).
Endpoints are pairs of a method and a path; HEAD behaves as GET in every middleware and
mux of the chain and is not listed. The token verifier, the limiter's buckets and the
store are their answers here; `Refill` is any way in which the limiter gives a token back.
The API's `Put` stores and answers in one action, for nothing it shares is read in between.
`Nobody` stands for a missing principal. In `GuardedWrites` a request has a setting stored
by an admin within the budget, or not, and is answered once: refused or as a read only if
nothing was stored, done only if it was, failed in either case (`Told`, `StoredBy`). Each request is served once; the last disjunct of
`Next` is the end of the workload.

### Providers and JWTVerify

An environment is a function from the names of the variables, without their prefix, to
strings. It passes `LoadedAuth` and `Problems` (`config.Load`), `Settings` (`main`), and
`NewProvider`, each with the field names of its own; the result is a verifier's
configuration or an error. `Load` and `Build` are these steps of `run`; in between `run`
opens the store, which `Lifecycle` and `Store` model. Requests come in once a provider is built.

A request goes through `Present` (header, the parser's checks of form and algorithm, the
key id), waits for the cache (`KC!Ask`, answered by `KC!Hit`, `KC!Unknown` or `KC!Error` in
`Resolve`, which also checks the key's type and the signature), and `Judge` (the claims, by the
clock of that moment, then `exp`, `sub` and the roles). The cache is the abstract `KeyCache`, not
`JwksClient`: the verifier relies on what is promised, and `JwksClientProofs` shows that
the promise is kept. Since `KeyCache` does by itself whatever other requests could make it
do (refresh, fail, rotate), one request is enough for every interleaving a request can meet.

golang-jwt is external. It is modelled by the order of its checks and by the sentinels that
its errors wrap; the validator joins the errors of all claims. A token is a record of the
parts that decide something. `published`, `arrived` and `judged` are not in the code: they
record which keys ever were published and when a request came and was decided.

The team domains that `isValidTeamDomain` lets pass are a constant, `Teams`, given without
the suffix that `NewCloudflare` trims and puts back. A role is the sequence of its parts,
so that a stripped prefix is a stripped first part; group names and prefixes whose parts
meet in other ways are not told apart.

The second check of the algorithm in `verificationKey` cannot fail after the parser's
and is left out. The parser decodes header and claims (`Readable`), finds the method of the
algorithm, checks that it is the pinned one, and decodes the signature only then
(`ParseErrors`). An algorithm that golang-jwt has no method for, such as a lower-case one, is
reported before the pinned method is looked at, so that the reason is "no usable verification
key" whatever the key: see finding 5. `ReasonIsTrue` therefore speaks of the reasons given
to tokens whose algorithm the library knows.

A prefix is stripped from a group and nothing else changes: under "/" the group "/admins"
is the role "admins" (`RolesAsClaimed`), where the documents want "admin" (finding 4).

### Metrics

A family is its mutex (`mu`) and its map from labels to series (`series`), held by
reference: places in `heap`. A request makes the four calls of the middleware (`Calls`); each
call takes the mutex, looks the series up, makes it on first use, writes its fields
one at a time and unlocks. `StartScrape` is the copy of the list of families; then for each
family `LockFamily`, `WriteSeries` per series in any order (sorting is layout), `UnlockFamily`.
`moments` is not in the code: for each family, what it would have shown after each of its
calls, had every call taken effect in one step when it returned (`WithCall`: add to the
value, or count an observation at every bound that it does not exceed). The buckets of the
code are disjoint and summed up on output (`Cumulative`); that both agree is part of what is
checked. `Bounds` is the list of bounds as `HistogramVec` has sorted it; durations and
bounds are numbers of some unit, so that their sum is exact, which that of floats need not be.

### Lifecycle

`main` is the step of `run`, `err` its named result; `errCh` and `sigCh` are its channels,
each of capacity 1. Every step of `run` may fail. The listener's goroutine looks at
`inShutdown`, binds, registers its listener and accepts; each way out sends one result.
`Signal` before `Notify` kills the process, later it fills `sigCh` or is dropped. `Poll` and
`Expire` are the inside of `Server.Shutdown`: it waits for the accept loop, closes idle
connections and new ones that stay silent, and ends when nothing is open or at its
deadline, which may be so short that it comes at once. The deadline of `Shutdown` does not
cover the wait for the accept loop, which ends by itself. `failed` records every failure.
A handler that returns after `Close` may have been refused by the store (`refused`).
Left to `net/http`: a request that has been sent on an idle connection while `Shutdown`
closes it counts as never begun. Closing the listener may fail; `Shutdown` returns that
error (`"unlisten"`) once everything else is closed.

## 3. What the runs check

| Run | Bounds | What it shows |
|---|---|---|
| `jwks_safety` | 3 requests, 2 kids, clock 4..9, TTL 4, throttle 3, fetch 1, lag 1 | `TypeOK`, `SingleFlight`, `RejectedAfterRefresh`, `FetchesSpaced`, `StaleOnlyIfRefreshing`, `ImplementsKeyCache` |
| `jwks_liveness` | 2 requests, clock 4..8 | `EveryCallReturns` |
| `jwks_hangup` | 3 requests, clock 4..6 | finding 1 |
| `ratelimit` | 3 subjects, 2 buckets, burst 2, rate 2, TTL 4, sweep every 2, clock 4..12, 2 evictions | `TypeOK`, `BucketsCapped`, `BudgetKept`, `PatientSubjectServed`, `IdleBucketsDropped` |
| `ratelimit_sustained` | the same, clock 4..11, 1 eviction | finding 2 |
| `store` | 3 migrations, 2 keys, 2 requests, 5 starts, 2 writes, no symmetry | `TypeOK`, `BodyOncePerRecord`, `ServesOwnSchema`, `NoMigrationSkipped`, `ReportedSettingsSurvive`, `OpenEnds`, `RequestsAnswered` |
| `chain` | 2 requests to any of 11 endpoints, an admin and a guest, burst 1, one refill | `TypeOK`, `WrittenOnlyByAdmins`, `WritesWithinBudget`, `AnswerTellsOutcome`, `AccountedAsAnswered`, `MetricsAddUp`, `ImplementsGuardedWrites` |
| `auth` | 1 request, an RSA and an EC key, 111 environments (one team, its domain with and without the suffix, and an invalid one) of which 4 are sent requests, 33 ways for a token to differ from a good one, leeway 1, clock 0..3 | `TypeOK`, `MissingFoundByLoad`, `OwnSettingsReachVerifier`, `AcceptedIsGenuine`, `RolesAsClaimed`, `RefusedForCause`, `ReasonIsTrue` |
| `metrics` | 2 requests, 2 methods, durations 1, 2 and 4 against bounds 1 and 3, one scrape | `TypeOK`, `NoUpdateLost`, `ScrapedAtOneMoment` |
| `lifecycle` | 2 connections, 3 requests, 2 signals | `TypeOK`, `ZeroMeansServed`, `StatusTellsFailure`, `ShutdownEnds` |
| `chain_route` | 2 requests, 6 endpoints | finding 3 |
| `auth_documented` | 2 requests under Pomerium with the prefix "/", 4 tokens | findings 4 and 5 |

Why the bounds are enough: three requests are one that fetches, one that waits for it and
one that arrives before, between or after; the clock runs past a throttle interval and a
TTL, so a second and a stale fetch happen. Two buckets for three subjects force
evictions; the clock runs over four sweeps and two TTLs. Three migrations and five starts
allow an upgrade of two steps, each interrupted, and a refused downgrade; two writers
and two keys let writes overtake each other. In the chain every property relates at
most two requests through one bucket, the counters or the store, and one token makes the
second one wait for the first's. In `auth` a token expires at 1, with leeway at 2, so that
it can be good on arrival and not when it is judged; every variable of a provider is
left out in every combination with its other ones; a token has any one flaw, and the pairs of
flaws that meet in one check. In `metrics` a duration lies on, between and above the buckets,
two requests race for the first use of a series, and one scrape meets every step of both.
In the lifecycle one connection can hang while the other
becomes idle or closes, and the second signal meets a full or a drained channel.

`store` does not check for deadlock: a process that has crashed
need not be started again, and the bound on starts ends the behaviour. All other runs do.

Fairness. `jwks_liveness`: weak fairness of each request's own steps once it is in
`key`: the scheduler runs goroutines, `sync.Mutex` does not starve, the HTTP client is
bounded. Nothing forces a client to hang up, the clock to advance or the IdP to answer
well. `store`: weak fairness of `migrate` and of a request that holds the
connection, strong fairness of getting the connection, which `database/sql` hands to a
waiting request whenever it is returned. No crash is fair. `lifecycle`: weak fairness of
`run`, with the deadline of `Shutdown` among its steps, and of the listener's goroutine up to
the accept loop and out of it once `Shutdown` has closed the listener. Handlers may hang,
clients owe nothing, no signal need come.

## 4. What is proved

For every value of the constants that satisfies the named assumptions:

* `JwksClientProofs`: type correctness, `SingleFlight`, `RejectedAfterRefresh`,
  `FetchesSpaced`, `StaleOnlyIfRefreshing`, and that `JwksClient` implements `KeyCache`.
  The inductive invariant adds to `SingleFlight` how far the clock is from the recorded
  times (`TimesInv`), what is known once a fetch has ended (`EndedInv`) and that a
  waiter's channel is the one in flight or closed by a recent fetch (`WaitersInv`).
  Single flight is a matter of time: a second claim needs the throttle interval to pass,
  and a fetch is over by then. The code does not say so; the invariant does.
* `RateLimiterProofs`: type correctness, `BucketsCapped`, `BudgetKept`,
  `PatientSubjectServed`, `IdleBucketsDropped`. The key part, `CreditInv`, says that the
  tokens in the watched bucket, or the full burst of the bucket it would get, are
  covered by what its window may still be granted.
* `StoreProofs`: type correctness, `BodyOncePerRecord`, `ServesOwnSchema`,
  `NoMigrationSkipped`, `ReportedSettingsSurvive`. `MigrationInv`: what is still to do is
  exactly what the binary embeds and the file lacks, and the open transaction is about
  the first of it. `SettingsInv`: a request about to report wrote no later than what its
  key shows, and nothing is reported while the first migration, which seeds the table,
  is missing.
* `RequestChainProofs`: everything that the run `chain` checks. `PathInv`: who a request is
  and what it has passed, by its step; `AnswerInv`: what it has been answered, and that a
  200 to a mutation comes after the write; `BookInv`: where it has been booked. `MetricsInv`:
  gauge, counters and histogram are the sizes of sets of requests. `BudgetInv`: tokens left
  and requests granted add up to at most the burst and the refills. A step moves one
  request, so each set changes by that request at most (`CountOne`, `OthersSame`). For the
  refinement each step of a request is nothing, an answer or a store in the terms of
  `GuardedWrites` (`FrameRefines`): an answer and a stored setting stay as they are.
* `JWTVerifyProofs`: everything that the run `auth` checks, for any environments, team
  domains, tokens and keys. The invariant says what a token has been found to be by the
  step of its request, that no request comes in before the provider is built, that the
  provider stays what its environment leads to, and that a reason, once given, is true.
  `ClaimsMean` shows that the validator with `claimsFromMap` objects to nothing exactly when the
  claims are good. `CloudflareReached`, `LocalReached`, `PomeriumReached` and `NoOtherReached`
  follow an environment through `Load`, `Settings` and the constructor that it selects;
  `MappedHere` and `ReasonIsFirst` show that `mapJWTError` picks the first line of its table that fits, whatever
  errors are joined; `TrimmedTo` says which group names a prefix turns into
  a given role. What is proved of reasons has the bound of `ReasonIsTrue`: the algorithm is one that
  golang-jwt knows; that a reason about a claim means a genuine token is proved without it.
  Assumed: the time claims of a token are numbers or absent and its roles sequences
  (`VerifyAssumption`), as the parser's types ensure; `None` is no provider
  (`NoneAssumption`); joined strings are not empty (`TeamsAssumption`, which the
  provers, who know nothing of the letters of a string, cannot find out).
* `MetricsProofs`: everything that the run `metrics` checks, for any requests, methods,
  durations and bounds. `HeldInCall` and `InCall`: a mutex is held by the one request that
  is in a call to the family, and what that looked up is still so. `Apart` and `Made`: no two labels share a
  series, and a series stands for a label that has been counted or is just being. `Valued`
  is the heart: a series stands as far from what its family last showed as the step of
  the call in progress says (`Progress`); only its holder writes to it, one
  field at a time, and at `Unlock` the distance is gone (`Through`). `Gauged`: between calls
  the gauge is the number of requests in flight. `Scraped`: of the family it has locked, a scrape
  has written the last moment but for the series still to come. `Searched` and `Cumulated`
  are the two facts about buckets: the search finds the first bound that the observation does not
  exceed, and the running sum of the differences is what was counted at each bound. Assumed: the
  bounds are sorted, durations are not negative, and requests are finitely many
  (`MetricsAssumption`).
* `LifecycleProofs`: type correctness, `ZeroMeansServed`, `StatusTellsFailure`. `ChannelInv`
  and `ResultInv`: until it is read, the channel holds the one failure the result lacks.
  `DrainInv`: from the clean end of `Shutdown` on nothing is open, nothing can be accepted,
  and the store is closed only later.

The theorems state every invariant, every action property and the refinements that the
passing runs check.

Induction. The library's induction theorems take an operator as a parameter, which the
installed provers cannot instantiate. Where a proof needs induction over numbers it takes the
least number at which the claim would fail instead (`NatLemmas`): `Cumulated` compares the
recursive running sum with the function it should be, `Searched` finds the bucket.

Only model-checked: `EveryCallReturns`, `OpenEnds`, `RequestsAnswered` and `ShutdownEnds`.
They are liveness under fairness, which is out of the prover's reach.

## 5. Findings

1. `jwks_hangup`: the fetch runs under the claiming request's context (`jwt.go:362`). If
   its client hangs up, those that wait for it are told "unknown key id" although the IdP
   serves the key, and for the rest of the throttle interval so is everyone else.
2. `ratelimit_sustained`: `allow` forgets fractions of a token (`ratelimit.go:86-89`), so a
   subject that retries faster than the rate is denied as long as it goes on, instead of
   being held to the sustained rate.
3. `chain_route`: the route label is always "/" (`api/metrics.go:44`): the pattern is
   written into a copy of the request that the middleware does not hold. For the same
   reason `logging` never sees the principal (`middleware.go:75`).
4. `auth_documented`: with `APP_AUTH_POMERIUM_ROLE_PREFIX=/` the group `/admins` gives the
   role `admins` (`pomerium.go:99`), not the `admin` that `src/README.md:212-214` and the
   comment at `pomerium.go:33` promise and `RequireRole` asks for.
5. `auth_documented`: a lower-case algorithm is refused with "no usable verification key"
   (`jwt.go:226`), though no key was asked for; the comment at `jwt.go:217-219` counts it
   among the rejections of a pinned method, "unexpected signing algorithm".

Findings 4 and 5 share a run. Its property, `OneStatementHolds`, is the disjunction of the two
statements (`PrefixedAdminsAreAdmin`, `PinnedMethodReason`), so that its counterexample breaks
both, each by a request of its own.

Seen on the way and without a run: the page's mutation answers 400 to a form above the
limit (`ui.go:155`, `PageRefusal`), the API 413, where `middleware.go:107-108` speaks of 413
for any. Either way nothing is stored (`AnswerTellsOutcome`).

## 6. Not modelled, and what is left

Left out: parsing of single JWKs, header values, request ids (and `requestID`'s path for a failed `rand.Read`, which cannot fail), templates and wording;
HTTP itself, the muxes' matching beyond the registered patterns, SQLite's and golang-jwt's
internals; panics in handlers; the text format of the metrics, its escaping and the Go
runtime gauges, `Gauge.Set` and `CounterVec.Add` (no caller); the values of durations, the log
level, `DISABLE_HSTS`; an email or a name in a claim; the frontend, scripts, container
and end-to-end files; more than one running instance, which the repository excludes
(`src/README.md`, "Scaling limits").

A series is kept for every method that a client sends. The repository promises bounded
cardinality of the route label only, so no property is stated about it.

What could follow: `RequestChain` composed with `RateLimiter`'s `BudgetKept` as the promise
behind `Refill` and with `JWTVerify` behind `Authenticate`.
