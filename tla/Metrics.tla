------------------------------- MODULE Metrics -------------------------------
(***************************************************************************)
(* internal/metrics and the calls that the middleware of api/metrics.go    *)
(* makes: requests update three families of series while /metrics renders  *)
(* them.  A family has a mutex; a call takes it, finds or makes its series *)
(* and updates the fields of the series one by one, and a scrape takes the *)
(* mutexes of the families one after the other.                            *)
(*                                                                         *)
(* A series is held by reference (series *series): "series" maps a label   *)
(* to a place in "heap".  The moments are not in the code: they are what   *)
(* a family would show if every call took effect in one step, when it      *)
(* returns.                                                                *)
(***************************************************************************)
EXTENDS Integers, Sequences, FiniteSets

CONSTANTS
  Requests,    \* requests on the authenticated chain
  Methods,     \* their methods, the one label whose values vary
  NoLabels,    \* the label of the gauge, which has none
  Durations,   \* how long a request may take
  Bounds,      \* durationBuckets, as HistogramVec sorts them
  Nobody,      \* holds no mutex
  Scraper,     \* the one who asks for /metrics
  MaxScrapes   \* bound: how often

ASSUME MetricsAssumption ==
  /\ Bounds \in Seq(Nat) /\ Bounds # <<>>
  /\ \A b, c \in DOMAIN Bounds : b <= c => Bounds[b] <= Bounds[c]
  /\ Durations \subseteq Nat
  /\ MaxScrapes \in Nat
  /\ IsFiniteSet(Requests)
  /\ Nobody \notin Requests /\ Scraper \notin Requests /\ Nobody # Scraper

VARIABLES
  mu,        \* who holds each family's mutex
  series,    \* each family's series: a place in the heap by label, 0 for none
  heap,      \* the series ever made
  method,    \* the method of each request
  call,      \* which of its calls each request is at
  at,        \* where it is in it
  amount,    \* the amount it adds or observes
  held,      \* the series it has looked up, 0 for none
  moments,   \* per family, what it has shown, from the start to its last call
  todo,      \* the families that the scrape has not rendered yet
  lines,     \* the series of the family being rendered that are not yet written
  page,      \* what the scrape has written, per family
  known,     \* the moment that each family had reached when the scrape began
  scrapes    \* scrapes begun

requestVars == <<method, call, at, amount, held>>
scrapeVars  == <<todo, lines, page, known, scrapes>>
vars == <<mu, series, heap, requestVars, moments, scrapeVars>>

\* newHTTPMetrics registers these three, in this order; Registry.Render goes
\* through its own copy of the list.
Registered == <<"requests", "duration", "active">>
Families == {"requests", "duration", "active"}
Labels == Methods \cup {NoLabels}

NewSeries == [value |-> 0, count |-> 0, sum |-> 0, buckets |-> [b \in DOMAIN Bounds |-> 0]]
NoSeries == [l \in {} |-> 0]

\* Mutant: the deferred Dec runs at once, and the Inc at the end.
DecBeforeInc == << [family |-> "active",   amounts |-> {-1}],
                   [family |-> "requests", amounts |-> {1}],
                   [family |-> "duration", amounts |-> Durations],
                   [family |-> "active",   amounts |-> {1}] >>
\* The calls that the middleware makes for a request.
Calls == << [family |-> "active",   amounts |-> {1}],
            [family |-> "requests", amounts |-> {1}],
            [family |-> "duration", amounts |-> Durations],
            [family |-> "active",   amounts |-> {-1}] >>

Init ==
  /\ mu = [f \in Families |-> Nobody]
  /\ series = [f \in Families |-> [l \in Labels |-> 0]]
  /\ heap = <<>>
  /\ method \in [Requests -> Methods]
  /\ call = [i \in Requests |-> 1] /\ at = [i \in Requests |-> "out"]
  /\ amount = [i \in Requests |-> 0] /\ held = [i \in Requests |-> 0]
  /\ moments = [f \in Families |-> <<NoSeries>>]
  /\ todo = <<>> /\ lines = {} /\ page = [f \in Families |-> NoSeries]
  /\ known = [f \in Families |-> 1] /\ scrapes = 0

Family(i) == Calls[call[i]].family
Label(i)  == IF Family(i) = "active" THEN NoLabels ELSE method[i]

\* i is at p in its call and goes on to q.
Step(i, p, q) == at[i] = p /\ at' = [at EXCEPT ![i] = q]

----------------------------------------------------------------------------
(* add and observe.                                                        *)

\* Mutant: the mutex is left out.
NoMutex(f) == TRUE
Free(f) == mu[f] = Nobody

Lock(i) ==
  /\ call[i] \in DOMAIN Calls
  /\ Step(i, "out", "locked")
  /\ Free(Family(i))
  /\ mu' = [mu EXCEPT ![Family(i)] = i]
  /\ \E a \in Calls[call[i]].amounts : amount' = [amount EXCEPT ![i] = a]
  /\ UNCHANGED <<series, heap, method, call, held, moments, scrapeVars>>

\* seriesFor: look the label up ...
Lookup(i) ==
  /\ Step(i, "locked", "found")
  /\ held' = [held EXCEPT ![i] = series[Family(i)][Label(i)]]
  /\ UNCHANGED <<mu, series, heap, method, call, amount, moments, scrapeVars>>

\* ... and make its series on first use.
Make(i) ==
  /\ at[i] = "found" /\ held[i] = 0
  /\ heap' = Append(heap, NewSeries)
  /\ held' = [held EXCEPT ![i] = Len(heap')]
  /\ series' = [series EXCEPT ![Family(i)][Label(i)] = Len(heap')]
  /\ UNCHANGED <<mu, method, call, at, amount, moments, scrapeVars>>

\* A write to the series that i holds.
Update(i, s) ==
  /\ heap' = [heap EXCEPT ![held[i]] = s]
  /\ UNCHANGED <<mu, series, method, call, amount, held, moments, scrapeVars>>
Held(i) == heap[held[i]]

\* add, for the counter and the gauge.
Add(i) ==
  /\ held[i] # 0 /\ Family(i) # "duration"
  /\ Step(i, "found", "updated")
  /\ Update(i, [Held(i) EXCEPT !.value = @ + amount[i]])

\* observe, for the histogram: count, sum and bucket.
ObserveCount(i) ==
  /\ held[i] # 0 /\ Family(i) = "duration"
  /\ Step(i, "found", "counted")
  /\ Update(i, [Held(i) EXCEPT !.count = @ + 1])

ObserveSum(i) ==
  /\ Step(i, "counted", "summed")
  /\ Update(i, [Held(i) EXCEPT !.sum = @ + amount[i]])

\* The index of the first bound >= v, or one past the last bound.
SearchFloat64s(v) ==
  CHOOSE b \in 1..Len(Bounds) + 1 :
    /\ b \in DOMAIN Bounds => Bounds[b] >= v
    /\ \A c \in 1..b - 1 : Bounds[c] < v

ObserveBucket(i) ==
  /\ Step(i, "summed", "updated")
  /\ LET b == SearchFloat64s(amount[i])
     IN Update(i, IF b \in DOMAIN Bounds THEN [Held(i) EXCEPT !.buckets[b] = @ + 1] ELSE Held(i))

\* What a series shows before its first call, and after one more call, in the terms of
\* the exposition format: the value, or the number of observations at or below each
\* bound, their number and their sum.
Nothing(f) ==
  IF f = "duration" THEN [le |-> [b \in DOMAIN Bounds |-> 0], inf |-> 0, sum |-> 0] ELSE 0
WithCall(f, was, a) ==
  IF f = "duration"
  THEN [le |-> [b \in DOMAIN Bounds |-> was.le[b] + (IF a <= Bounds[b] THEN 1 ELSE 0)],
        inf |-> was.inf + 1, sum |-> was.sum + a]
  ELSE was + a

\* The moment that f has reached, what it shows of a series, and the moment that a call
\* takes it to.
Last(f) == moments[f][Len(moments[f])]
Was(f, l) == IF l \in DOMAIN Last(f) THEN Last(f)[l] ELSE Nothing(f)
NextMoment(f, l, a) ==
  [k \in DOMAIN Last(f) \cup {l} |-> IF k = l THEN WithCall(f, Was(f, k), a) ELSE Last(f)[k]]

\* The deferred Unlock; the call returns.
Unlock(i) ==
  /\ Step(i, "updated", "out")
  /\ mu' = [mu EXCEPT ![Family(i)] = Nobody]
  /\ moments' = [moments EXCEPT ![Family(i)] =
                   Append(@, NextMoment(Family(i), Label(i), amount[i]))]
  /\ call' = [call EXCEPT ![i] = @ + 1]
  /\ held' = [held EXCEPT ![i] = 0] /\ amount' = [amount EXCEPT ![i] = 0]
  /\ UNCHANGED <<series, heap, method, scrapeVars>>

Request(i) ==
  \/ Lock(i) \/ Lookup(i) \/ Make(i) \/ Add(i)
  \/ ObserveCount(i) \/ ObserveSum(i) \/ ObserveBucket(i) \/ Unlock(i)

----------------------------------------------------------------------------
(* Registry.Render.                                                        *)

Rendering(f) == todo # <<>> /\ Head(todo) = f /\ mu[f] = Scraper

StartScrape ==
  /\ todo = <<>> /\ scrapes < MaxScrapes
  /\ todo' = Registered
  /\ page' = [f \in Families |-> NoSeries]
  /\ known' = [f \in Families |-> Len(moments[f])]
  /\ scrapes' = scrapes + 1
  /\ UNCHANGED <<mu, series, heap, requestVars, moments, lines>>

\* Mutant: render does not wait for the mutex.
RenderAtOnce(f) == TRUE
MayRender(f) == mu[f] = Nobody

LockFamily ==
  /\ todo # <<>>
  /\ LET f == Head(todo) IN
       /\ ~Rendering(f) /\ MayRender(f)
       /\ mu' = [mu EXCEPT ![f] = Scraper]
       /\ lines' = {l \in DOMAIN series[f] : series[f][l] # 0}
  /\ UNCHANGED <<series, heap, requestVars, moments, todo, page, known, scrapes>>

\* Buckets are stored apart and written cumulative.
Cumulative(s) ==
  LET c[b \in 0..Len(Bounds)] == IF b = 0 THEN 0 ELSE c[b - 1] + s.buckets[b] IN c

\* The lines of one series: its value, or its cumulative buckets, +Inf, and sum.
Written(f, s) ==
  IF f = "duration"
  THEN [le |-> [b \in DOMAIN Bounds |-> Cumulative(s)[b]], inf |-> s.count, sum |-> s.sum]
  ELSE s.value

WriteSeries ==
  /\ \E f \in Families, l \in lines :
       /\ Rendering(f)
       /\ lines' = lines \ {l}
       /\ page' = [page EXCEPT ![f] = [k \in DOMAIN @ \cup {l} |->
                     IF k = l THEN Written(f, heap[series[f][l]]) ELSE @[k]]]
  /\ UNCHANGED <<mu, series, heap, requestVars, moments, todo, known, scrapes>>

UnlockFamily ==
  /\ \E f \in Families :
       /\ Rendering(f) /\ lines = {}
       /\ mu' = [mu EXCEPT ![f] = Nobody]
       /\ todo' = Tail(todo)
  /\ UNCHANGED <<series, heap, requestVars, moments, lines, page, known, scrapes>>

Over == todo = <<>> /\ scrapes = MaxScrapes /\ \A i \in Requests : call[i] = Len(Calls) + 1

Next ==
  \/ \E i \in Requests : Request(i)
  \/ StartScrape \/ LockFamily \/ WriteSeries \/ UnlockFamily
  \/ Over /\ UNCHANGED vars

Spec == Init /\ [][Next]_vars

----------------------------------------------------------------------------
(* Properties.                                                             *)

\* Every variable keeps its type; the in-flight gauge is never below zero nor above
\* the number of requests.
TypeOK ==
  /\ mu \in [Families -> Requests \cup {Scraper, Nobody}]
  /\ series \in [Families -> [Labels -> 0..Len(heap)]]
  /\ \A n \in DOMAIN heap : heap[n].count \in Nat /\ heap[n].sum \in Nat
  /\ call \in [Requests -> 1..Len(Calls) + 1]
  /\ at \in [Requests -> {"out", "locked", "found", "counted", "summed", "updated"}]
  /\ held \in [Requests -> 0..Len(heap)]
  /\ series["active"][NoLabels] # 0 =>
       heap[series["active"][NoLabels]].value \in 0..Cardinality(Requests)

\* family.seriesFor, add and observe: whenever a family's mutex is free, its series are
\* written as if every call that has returned had taken effect in one step; no update is
\* lost to another that made the same series at the same time.
NoUpdateLost ==
  \A f \in Families : mu[f] = Nobody =>
    [l \in {k \in Labels : series[f][k] # 0} |-> Written(f, heap[series[f][l]])] = Last(f)

\* Registry.Render: a family that has been scraped is as it was at one moment: after
\* some number of calls, and no fewer than had returned before the scrape began.
ScrapedAtOneMoment ==
  \A f \in Families :
    scrapes > 0 /\ f \notin {todo[n] : n \in DOMAIN todo} =>
      \E n \in known[f]..Len(moments[f]) : page[f] = moments[f][n]
=============================================================================
