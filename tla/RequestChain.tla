---------------------------- MODULE RequestChain ----------------------------
(***************************************************************************)
(* internal/api, internal/ui and internal/auth/middleware.go: what happens *)
(* to requests between the server and the store.  Requests run             *)
(* concurrently; each passes                                               *)
(*   requestID, logging, securityHeaders, root mux                         *)
(*   metrics, maxBody, csrf, auth, authed mux, UI mux                      *)
(*   rate limiter, role, handler                                           *)
(* and then back out through metrics and logging.                          *)
(*                                                                         *)
(* r.WithContext makes a copy of the request.  The middlewares outside     *)
(* auth.Middleware keep the copy that requestID made (outer); the ones     *)
(* inside it see the copy with the principal (inner).  A mux writes the    *)
(* pattern it matched into the copy it is given.                           *)
(*                                                                         *)
(* A part of a request (its headers, its token, its body) is chosen in the *)
(* step that reads it.  The token verifier, the buckets of the limiter and *)
(* the store are seen only by their answers here: JwksClient, RateLimiter  *)
(* and Store model them.                                                   *)
(***************************************************************************)
EXTENDS Integers, FiniteSets

CONSTANTS
  Requests,    \* requests, each served once
  Subjects,    \* subjects of valid tokens
  Admins,      \* the ones whose token carries the role "admin"
  Nobody,      \* stands for no principal, no writer
  Endpoints,   \* what is asked for: pairs of a method and a path
  Burst,       \* rateLimitBurst
  MaxRefills   \* bound: tokens refilled per subject

ASSUME ChainAssumption ==
  /\ IsFiniteSet(Requests)
  /\ Admins \subseteq Subjects
  /\ Nobody \notin Subjects /\ Nobody \notin Requests
  /\ Endpoints \subseteq {"GET", "PUT", "POST"} \X STRING
  /\ Burst \in Nat /\ MaxRefills \in Nat

VARIABLES
  \* a request
  pc,        \* the step it is at
  asked,     \* its method and path
  marker,    \* its X-Requested-With, HX-Request and Sec-Fetch-Site headers
  flaw,      \* what is wrong with the body or the key of its mutation
  outer,     \* the copy that metrics and logging hold: pattern and principal
  inner,     \* the copy that the handlers hold
  status,    \* what its client has been answered, 0 before
  recorded,  \* what its statusRecorders hold
  label,     \* the route it was counted under, Nobody before
  logged,    \* the status in its access log line, 0 before
  \* shared by all of them
  left,      \* tokens each subject has left
  refills,   \* tokens each subject has been given back
  written,   \* requests whose setting the store has accepted
  active,    \* http_active_requests
  counted,   \* http_requests_total, per status
  timed      \* http_request_duration_seconds_count

inputVars  == <<asked, marker, flaw>>
copyVars   == <<outer, inner>>
answerVars == <<pc, status, recorded>>
bookVars   == <<label, logged>>
limitVars  == <<left, refills>>
metricVars == <<active, counted, timed>>
vars == <<inputVars, copyVars, answerVars, bookVars, limitVars, written, metricVars>>

Statuses == {200, 400, 401, 403, 404, 405, 413, 415, 429, 500, 503}
NoPattern == <<"", "">>
NoCopy == [pattern |-> NoPattern, principal |-> Nobody]

Init ==
  /\ pc = [i \in Requests |-> "idle"]
  /\ asked \in [Requests -> Endpoints]
  /\ marker = [i \in Requests |-> "none"] /\ flaw = [i \in Requests |-> "none"]
  /\ outer = [i \in Requests |-> NoCopy] /\ inner = [i \in Requests |-> NoCopy]
  /\ status = [i \in Requests |-> 0] /\ recorded = [i \in Requests |-> 200]
  /\ label = [i \in Requests |-> Nobody] /\ logged = [i \in Requests |-> 0]
  /\ left = [s \in Subjects |-> Burst] /\ refills = [s \in Subjects |-> 0]
  /\ written = {}
  /\ active = 0 /\ counted = [n \in Statuses |-> 0] /\ timed = 0

Method(i)    == asked[i][1]
Path(i)      == asked[i][2]
Principal(i) == inner[i].principal

----------------------------------------------------------------------------
(* The muxes: a method or "any", and a path; "/" stands for every path.    *)

RootPatterns ==
  {<<"GET", "/healthz">>, <<"GET", "/readyz">>, <<"GET", "/metrics">>,
   <<"any", "/static/">>, <<"any", "/">>}
AuthedPatterns ==
  {<<"GET", "/api/me">>, <<"GET", "/api/version">>, <<"GET", "/api/config">>,
   <<"PUT", "/api/config/{key}">>, <<"any", "/">>}
UIPatterns == {<<"GET", "/">>, <<"PUT", "/ui/config/{key}">>}
Patterns == RootPatterns \cup AuthedPatterns \cup UIPatterns \cup {NoPattern}

ASSUME NobodyAssumption == Nobody \notin Patterns

Covering(patterns, i) == {p \in patterns : p[1] \in {Method(i), "any"} /\ p[2] \in {Path(i), "/"}}

\* The pattern of the mux that i is for, the most specific one; NoPattern when
\* the mux itself answers 404 or 405.
Match(patterns, i) ==
  LET own == {p \in Covering(patterns, i) : p[2] = Path(i)}
      all == Covering(patterns, i)
  IN CASE own # {} -> CHOOSE p \in own : TRUE
       [] own = {} /\ all # {} -> CHOOSE p \in all : TRUE
       [] OTHER -> NoPattern

\* i is at step p and goes on to step q.
Step(i, p, q) == pc[i] = p /\ pc' = [pc EXCEPT ![i] = q]

\* The client sees the first status that is written, the recorders the last.
Write(i, n) ==
  /\ status' = [status EXCEPT ![i] = IF @ = 0 THEN n ELSE @]
  /\ recorded' = [recorded EXCEPT ![i] = n]

\* A body without WriteHeader: net/http answers 200, and the recorders keep the
\* 200 they start with.
WriteBody(i) ==
  /\ status' = [status EXCEPT ![i] = IF @ = 0 THEN 200 ELSE @]
  /\ UNCHANGED recorded

Silent == UNCHANGED <<status, recorded>>

----------------------------------------------------------------------------
(* The way in.                                                             *)

\* The database answers the ping or not; a file is there or not.
ReadyzAnswers == {200, 503}
StaticAnswers == {200, 404}

\* requestID copies the request; the root mux writes its pattern into the copy.
\* Probes, metrics and static files are answered outside the rest of the chain.
Arrive(i) ==
  /\ pc[i] = "idle"
  /\ outer' = [outer EXCEPT ![i].pattern = Match(RootPatterns, i)]
  /\ LET path == Match(RootPatterns, i)[2] IN
       \/ path = "/" /\ Step(i, "idle", "enter") /\ Silent
       \/ path \in {"/healthz", "/metrics"} /\ Step(i, "idle", "log") /\ Write(i, 200)
       \/ path = "/readyz" /\ Step(i, "idle", "log") /\ \E n \in ReadyzAnswers : Write(i, n)
       \/ path = "/static/" /\ Step(i, "idle", "log") /\ \E n \in StaticAnswers : Write(i, n)
  /\ UNCHANGED <<inputVars, inner, bookVars, limitVars, written, metricVars>>

\* metrics: active.Inc.  maxBody bounds what is read of the body.  csrf passes GET
\* and HEAD, and else wants the marker and no foreign site.
Enter(i) ==
  /\ active' = active + 1
  /\ \/ /\ Method(i) = "GET"
        /\ Step(i, "enter", "auth") /\ Silent
        /\ UNCHANGED marker
     \/ /\ Method(i) # "GET"
        /\ marker' = [marker EXCEPT ![i] = "own"]
        /\ Step(i, "enter", "auth") /\ Silent
     \/ /\ Method(i) # "GET"
        /\ \E m \in {"none", "foreign"} : marker' = [marker EXCEPT ![i] = m]
        /\ Step(i, "enter", "count") /\ Write(i, 403)
  /\ UNCHANGED <<asked, flaw, copyVars, bookVars, limitVars, written, counted, timed>>

\* auth.Middleware: 401, or a copy of the request that carries the principal.
Authenticate(i) ==
  /\ \/ Step(i, "auth", "count") /\ Write(i, 401) /\ UNCHANGED inner
     \/ /\ Step(i, "auth", "route") /\ Silent
        /\ \E s \in Subjects : inner' = [inner EXCEPT ![i] = [outer[i] EXCEPT !.principal = s]]
  /\ UNCHANGED <<inputVars, outer, bookVars, limitVars, written, metricVars>>

\* The authed mux, and behind its "/" the UI mux, write the pattern they match into
\* the handlers' copy.
Routed(i) == LET p == Match(AuthedPatterns, i)
             IN IF p[2] = "/" THEN Match(UIPatterns, i) ELSE p

Mutations == {<<"PUT", "/api/config/{key}">>, <<"PUT", "/ui/config/{key}">>}

Route(i) ==
  /\ inner' = [inner EXCEPT ![i].pattern = Routed(i)]
  /\ \/ Routed(i) = NoPattern /\ Step(i, "route", "count") /\ Write(i, 405)
     \/ Routed(i) \in Mutations /\ Step(i, "route", "limit") /\ Silent
     \/ Routed(i) \notin Mutations \cup {NoPattern} /\ Step(i, "route", "read") /\ Silent
  /\ UNCHANGED <<inputVars, outer, bookVars, limitVars, written, metricVars>>

----------------------------------------------------------------------------
(* The handlers.                                                           *)

\* me and version answer at once; the list and the page need the store.
Read(i) ==
  /\ Step(i, "read", "count")
  /\ \/ inner[i].pattern # <<"GET", "/">> /\ Write(i, 200)
     \/ inner[i].pattern = <<"GET", "/">> /\ WriteBody(i)
     \/ inner[i].pattern \in {<<"GET", "/api/config">>, <<"GET", "/">>} /\ Write(i, 500)
  /\ UNCHANGED <<inputVars, copyVars, bookVars, limitVars, written, metricVars>>

\* Mutant: the UI's mutation is not wrapped in the limiter.
CostOfAPIOnly(i) == IF Path(i) = "/api/config/{key}" THEN 1 ELSE 0
\* Routes wraps both mutations in the one limiter it makes.
Cost(i) == 1

\* Mutant: off by one, the bucket goes below zero.
AllowsOneMore(i) == left[Principal(i)] >= 0
Allows(i) == left[Principal(i)] >= Cost(i)

\* adminMiddleware: it is inside auth.Middleware, so there is a principal.
Limit(i) ==
  /\ \/ /\ Step(i, "limit", "role") /\ Silent
        /\ Allows(i)
        /\ left' = [left EXCEPT ![Principal(i)] = @ - Cost(i)]
     \/ /\ Step(i, "limit", "count") /\ Write(i, 429)
        /\ ~Allows(i)
        /\ UNCHANGED left
  /\ UNCHANGED <<inputVars, copyVars, bookVars, refills, written, metricVars>>

\* The limiter gives s a token back: the clock, or a new bucket after an eviction.
Refill(s) ==
  /\ left[s] < Burst /\ refills[s] < MaxRefills
  /\ left' = [left EXCEPT ![s] = @ + 1]
  /\ refills' = [refills EXCEPT ![s] = @ + 1]
  /\ UNCHANGED <<inputVars, copyVars, answerVars, bookVars, written, metricVars>>

\* Mutant: the 403 is written and the handler called all the same.
NoReturn == "put"
AfterRefusal == "count"

\* RequireRole("admin").
CheckRole(i) ==
  /\ \/ Principal(i) \in Admins /\ Step(i, "role", "put") /\ Silent
     \/ Principal(i) \notin Admins /\ Step(i, "role", AfterRefusal) /\ Write(i, 403)
  /\ UNCHANGED <<inputVars, copyVars, bookVars, limitVars, written, metricVars>>

\* What is wrong with a mutation: its key, its content type, a body that does not
\* parse, or one above the limit of maxBody.
Flaws == {"none", "key", "type", "malformed", "large"}

\* The status with which a handler refuses a flaw, 0 if it does not.  The page reads a
\* body of another type as an empty form.
APIRefusal(f) ==
  CASE f = "none" -> 0
    [] f \in {"key", "malformed"} -> 400
    [] f = "type" -> 415
    [] f = "large" -> 413
PageRefusal(f) == IF f \in {"key", "malformed", "large"} THEN 400 ELSE 0

Refusal(i, f) == IF Path(i) = "/api/config/{key}" THEN APIRefusal(f) ELSE PageRefusal(f)

\* Mutant: the value is stored before the request is checked.
StoredUnchecked(i, f) == written \cup {i}
Stored(i, f) == IF Refusal(i, f) = 0 THEN written \cup {i} ELSE written

\* putConfig, of the API and of the page: refuse, or call SetConfig, whose error (the
\* write may have taken effect) is answered 500; the page then renders.
Put(i) ==
  /\ pc[i] = "put"
  /\ \E f \in Flaws :
       /\ flaw' = [flaw EXCEPT ![i] = f]
       /\ \/ /\ Refusal(i, f) # 0
             /\ written' = Stored(i, f)
             /\ Step(i, "put", "count") /\ Write(i, Refusal(i, f))
          \/ /\ Refusal(i, f) = 0
             /\ Step(i, "put", "count") /\ Write(i, 500)
             /\ written' \in {written, Stored(i, f)}
          \/ /\ Refusal(i, f) = 0
             /\ written' = Stored(i, f)
             /\ \/ Path(i) = "/api/config/{key}" /\ Step(i, "put", "count") /\ Write(i, 200)
                \/ Path(i) = "/ui/config/{key}" /\ Step(i, "put", "render") /\ Silent
  /\ UNCHANGED <<asked, marker, copyVars, bookVars, limitVars, metricVars>>

\* The fragment after a mutation: 500 if its data cannot be loaded.
Render(i) ==
  /\ Step(i, "render", "count")
  /\ WriteBody(i) \/ Write(i, 500)
  /\ UNCHANGED <<inputVars, copyVars, bookVars, limitVars, written, metricVars>>

----------------------------------------------------------------------------
(* The way out.                                                            *)

\* metrics: requests.Inc under the pattern of its own copy ...
Count(i) ==
  /\ Step(i, "count", "time") /\ Silent
  /\ label' = [label EXCEPT ![i] = outer[i].pattern]
  /\ counted' = [counted EXCEPT ![recorded[i]] = @ + 1]
  /\ UNCHANGED <<inputVars, copyVars, logged, limitVars, written, active, timed>>

\* ... then duration.Observe ...
Time(i) ==
  /\ Step(i, "time", "leave") /\ Silent
  /\ timed' = timed + 1
  /\ UNCHANGED <<inputVars, copyVars, bookVars, limitVars, written, active, counted>>

\* Mutant: no deferred Dec.
ActiveKept == active
ActiveAfter == active - 1

\* ... and the deferred active.Dec.
Leave(i) ==
  /\ Step(i, "leave", "log") /\ Silent
  /\ active' = ActiveAfter
  /\ UNCHANGED <<inputVars, copyVars, bookVars, limitVars, written, counted, timed>>

\* logging.
Log(i) ==
  /\ Step(i, "log", "done") /\ Silent
  /\ logged' = [logged EXCEPT ![i] = recorded[i]]
  /\ UNCHANGED <<inputVars, copyVars, label, limitVars, written, metricVars>>

Next ==
  \/ \E i \in Requests :
       \/ Arrive(i) \/ Enter(i) \/ Authenticate(i) \/ Route(i)
       \/ Read(i) \/ Limit(i) \/ CheckRole(i) \/ Put(i) \/ Render(i)
       \/ Count(i) \/ Time(i) \/ Leave(i) \/ Log(i)
  \/ \E s \in Subjects : Refill(s)
  \/ (\A i \in Requests : pc[i] = "done") /\ UNCHANGED vars

Spec == Init /\ [][Next]_vars

----------------------------------------------------------------------------
(* Properties.                                                             *)

Steps == {"idle", "enter", "auth", "route", "read", "limit", "role", "put", "render",
          "count", "time", "leave", "log", "done"}
Copies == [pattern : Patterns, principal : Subjects \cup {Nobody}]

\* Every variable keeps its type; in particular no bucket goes below zero or above
\* the burst.
TypeOK ==
  /\ pc \in [Requests -> Steps]
  /\ asked \in [Requests -> Endpoints]
  /\ marker \in [Requests -> {"none", "own", "foreign"}]
  /\ flaw \in [Requests -> Flaws]
  /\ outer \in [Requests -> Copies] /\ inner \in [Requests -> Copies]
  /\ status \in [Requests -> Statuses \cup {0}]
  /\ recorded \in [Requests -> Statuses]
  /\ label \in [Requests -> Patterns \cup {Nobody}]
  /\ logged \in [Requests -> Statuses \cup {0}]
  /\ left \in [Subjects -> 0..Burst] /\ refills \in [Subjects -> 0..MaxRefills]
  /\ written \subseteq Requests
  /\ active \in Nat /\ counted \in [Statuses -> Nat] /\ timed \in Nat

\* Whatever path a setting took to the store, its request was a PUT that carried the
\* marker from no foreign site, and the verified principal is an admin.
WrittenOnlyByAdmins ==
  \A i \in written : Method(i) = "PUT" /\ marker[i] = "own" /\ Principal(i) \in Admins

\* The API and the page draw on one budget: however requests interleave, a subject
\* writes no more settings than its burst and the tokens it was given back.
WritesWithinBudget ==
  \A s \in Subjects : Cardinality({i \in written : Principal(i) = s}) <= Burst + refills[s]

\* A client that is told its mutation is refused has changed nothing, and one that
\* is told of success has; only a 500 leaves it open.
AnswerTellsOutcome ==
  \A i \in Requests :
    /\ status[i] \in 400..499 => i \notin written
    /\ status[i] = 200 /\ asked[i] \in Mutations => i \in written

\* What i was told, in the terms of GuardedWrites.
Told(i) ==
  CASE status[i] = 0 -> "open"
    [] status[i] = 200 /\ asked[i] \in Mutations -> "done"
    [] status[i] = 200 /\ asked[i] \notin Mutations -> "served"
    [] status[i] \in 400..499 -> "refused"
    [] OTHER -> "failed"
StoredBy(i) == IF i \in written THEN Principal(i) ELSE Nobody

GW == INSTANCE GuardedWrites WITH
        by <- [i \in Requests |-> StoredBy(i)],
        told <- [i \in Requests |-> Told(i)],
        given <- refills

\* The chain implements GuardedWrites: nothing is stored after the answer, by a read, twice
\* or beyond the budget, and each answer is given once and tells the outcome.
ImplementsGuardedWrites == GW!Spec

\* The log line and the counters show the statuses that the clients were sent.
AccountedAsAnswered ==
  /\ \A i \in Requests : logged[i] # 0 => logged[i] = status[i]
  /\ \A n \in Statuses :
       counted[n] = Cardinality({i \in Requests : label[i] # Nobody /\ status[i] = n})

\* The gauge is the number of requests inside the chain, and the histogram lags the
\* counter by the requests between the two, in every interleaving and on every way out.
MetricsAddUp ==
  /\ active = Cardinality({i \in Requests : pc[i] \notin {"idle", "enter", "log", "done"}})
  /\ timed = Cardinality({i \in Requests : label[i] # Nobody /\ pc[i] # "time"})

\* api/metrics.go: the route label is the matched pattern, and "-" (NoPattern) for
\* requests rejected before routing.
RouteLabelled == \A i \in Requests : label[i] # Nobody => label[i] = inner[i].pattern
=============================================================================
