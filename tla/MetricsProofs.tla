---------------------------- MODULE MetricsProofs ----------------------------
(* Proofs about Metrics: whatever the requests, the labels and the buckets,  *)
(* no update is lost, and a scrape shows every family at one moment.         *)
EXTENDS Metrics, NatLemmas, FiniteSetTheorems

----------------------------------------------------------------------------
(* The inductive invariant.                                                *)

\* A series, and what one can show.
Series == [value : Int, count : Nat, sum : Nat, buckets : [DOMAIN Bounds -> Nat]]
Shown(f) == IF f = "duration" THEN [le : [DOMAIN Bounds -> Nat], inf : Nat, sum : Nat] ELSE Int
MomentsOf(f) == UNION {[D -> Shown(f)] : D \in SUBSET Labels}

Types ==
  /\ mu \in [Families -> Requests \cup {Scraper, Nobody}]
  /\ series \in [Families -> [Labels -> 0..Len(heap)]]
  /\ heap \in Seq(Series)
  /\ method \in [Requests -> Methods]
  /\ call \in [Requests -> 1..5]
  /\ at \in [Requests -> {"out", "locked", "found", "counted", "summed", "updated"}]
  /\ amount \in [Requests -> Int]
  /\ held \in [Requests -> 0..Len(heap)]

\* The moments are a sequence that has begun.
MomentsInv ==
  /\ DOMAIN moments = Families
  /\ \A f \in Families : moments[f] \in Seq(MomentsOf(f)) /\ moments[f] # <<>>

\* A request that is in a call holds its family's mutex; what it looked up is still so.
InCall(i) ==
  /\ at[i] # "out" =>
       /\ call[i] \in 1..4 /\ mu[Family(i)] = i
       /\ amount[i] \in Calls[call[i]].amounts
  /\ at[i] \in {"out", "locked"} => held[i] = 0
  /\ at[i] \notin {"out", "locked"} => held[i] = series[Family(i)][Label(i)]
  /\ at[i] \notin {"out", "locked", "found"} => held[i] # 0
  /\ at[i] \in {"counted", "summed"} => Family(i) = "duration"

\* A request that holds a mutex is in a call to that family.
HeldInCall ==
  \A f \in Families, i \in Requests : mu[f] = i => at[i] # "out" /\ Family(i) = f

\* No two labels share a series.
Apart ==
  \A f, g \in Families, k, l \in Labels :
    series[f][k] # 0 /\ series[f][k] = series[g][l] => f = g /\ k = l

\* The series that there are: those with a call that has returned, and the one that the
\* call in progress has made.
Making(f, l) == \E i \in Requests : mu[f] = i /\ held[i] # 0 /\ Label(i) = l
Made ==
  \A f \in Families, l \in Labels :
    /\ l \in DOMAIN Last(f) => series[f][l] # 0
    /\ series[f][l] # 0 => l \in DOMAIN Last(f) \/ Making(f, l)

\* How far the series s has come that showed "was" when a call for a, now at p, began.
Progress(f, s, was, p, a) ==
  IF f = "duration"
  THEN /\ s.count = was.inf + (IF p \in {"counted", "summed", "updated"} THEN 1 ELSE 0)
       /\ s.sum = was.sum + (IF p \in {"summed", "updated"} THEN a ELSE 0)
       /\ LET le == IF p = "updated" THEN WithCall(f, was, a).le ELSE was.le
          IN \A b \in DOMAIN Bounds : s.buckets[b] = le[b] - (IF b = 1 THEN 0 ELSE le[b - 1])
  ELSE s.value = was + (IF p = "updated" THEN a ELSE 0)
Valued ==
  \A f \in Families, l \in Labels :
    series[f][l] # 0 =>
      /\ \A i \in Requests :
           mu[f] = i /\ Label(i) = l => Progress(f, heap[series[f][l]], Was(f, l), at[i], amount[i])
      /\ (\A i \in Requests : mu[f] = i => Label(i) # l) =>
           Progress(f, heap[series[f][l]], Was(f, l), "out", 0)

\* The gauge, whenever no call to it is in progress, counts the requests in flight.
InFlight == {i \in Requests : call[i] \in 2..4}
Gauged == Was("active", NoLabels) = Cardinality(InFlight)

CallInv ==
  /\ Types /\ MomentsInv /\ (\A i \in Requests : InCall(i))
  /\ HeldInCall /\ Apart /\ Made /\ Valued /\ Gauged

\* The scrape goes through the families in order; what it has written of the one it has
\* locked is what that shows, and every family before that it wrote at one moment.
AtOneMoment(f) == \E n \in known[f]..Len(moments[f]) : page[f] = moments[f][n]
Pending == {<<>>, <<"active">>, <<"duration", "active">>, Registered}
FamiliesIn(t) == {t[n] : n \in DOMAIN t}
Scraped(f) ==
  /\ known[f] \in 1..Len(moments[f])
  /\ mu[f] = Scraper =>
       /\ todo # <<>> /\ Head(todo) = f
       /\ lines \subseteq DOMAIN Last(f)
       /\ page[f] = [l \in DOMAIN Last(f) \ lines |-> Last(f)[l]]
  /\ mu[f] # Scraper /\ f \in FamiliesIn(todo) => page[f] = NoSeries
  /\ scrapes > 0 /\ f \notin FamiliesIn(todo) => AtOneMoment(f)
ScrapeInv ==
  /\ todo \in Pending
  /\ scrapes \in Nat /\ (scrapes = 0 => todo = <<>>)
  /\ DOMAIN page = Families /\ DOMAIN known = Families
  /\ \A f \in Families : Scraped(f)

Inv == CallInv /\ ScrapeInv

----------------------------------------------------------------------------
(* The operators that the model is built from.                             *)

\* The four calls of a request: their families, and what they add or observe.
LEMMA CallsAre ==
  /\ Len(Calls) = 4 /\ DOMAIN Calls = 1..4
  /\ \A n \in 1..4 :
       /\ Calls[n].family \in Families
       /\ Calls[n].amounts \subseteq Int
       /\ Calls[n].family = "duration" => Calls[n].amounts \subseteq Nat
       /\ Calls[n].family = "active" <=> n \in {1, 4}
  /\ Calls[1].amounts = {1} /\ Calls[4].amounts = {-1}
<1>1. Len(Calls) = 4 /\ DOMAIN Calls = 1..4
  BY DEF Calls
<1>2. \A n \in 1..4 : n = 1 \/ n = 2 \/ n = 3 \/ n = 4
  OBVIOUS
<1>3. /\ Calls[1] = [family |-> "active", amounts |-> {1}]
      /\ Calls[2] = [family |-> "requests", amounts |-> {1}]
      /\ Calls[3] = [family |-> "duration", amounts |-> Durations]
      /\ Calls[4] = [family |-> "active", amounts |-> {-1}]
  BY DEF Calls
<1>4. Durations \subseteq Nat
  BY MetricsAssumption
<1>5. ASSUME NEW n \in 1..4
      PROVE  /\ Calls[n].family \in Families
             /\ Calls[n].amounts \subseteq Int
             /\ Calls[n].family = "duration" => Calls[n].amounts \subseteq Nat
             /\ Calls[n].family = "active" <=> n \in {1, 4}
  <2>1. CASE n = 1
    BY <1>3, <2>1 DEF Families
  <2>2. CASE n = 2
    BY <1>3, <2>2 DEF Families
  <2>3. CASE n = 3
    <3>1. Calls[n].family = "duration" /\ Calls[n].amounts = Durations
      BY <1>3, <2>3
    <3> QED BY <1>4, <2>3, <3>1 DEF Families
  <2>4. CASE n = 4
    BY <1>3, <2>4 DEF Families
  <2> QED BY <1>2, <2>1, <2>2, <2>3, <2>4
<1>6. Calls[1].amounts = {1} /\ Calls[4].amounts = {-1}
  BY <1>3
<1> QED BY <1>1, <1>5, <1>6

\* Written cumulatively, buckets that hold the differences of le show le.
LEMMA Cumulated ==
  ASSUME NEW s, NEW le \in [DOMAIN Bounds -> Nat],
         \A b \in DOMAIN Bounds : s.buckets[b] = le[b] - (IF b = 1 THEN 0 ELSE le[b - 1])
  PROVE  \A b \in DOMAIN Bounds : Cumulative(s)[b] = le[b]
<1>. DEFINE N == Len(Bounds)
            g == [b \in 0..N |-> IF b = 0 THEN 0 ELSE le[b]]
            c == Cumulative(s)
<1>1. N \in Nat /\ DOMAIN Bounds = 1..N
  BY MetricsAssumption
<1>. HIDE DEF N
<1>2. g = [b \in 0..N |-> IF b = 0 THEN 0 ELSE g[b - 1] + s.buckets[b]]
  BY <1>1
<1>3. c = [b \in 0..N |-> IF b = 0 THEN 0 ELSE c[b - 1] + s.buckets[b]]
  BY <1>2, Zenon DEF Cumulative, N
<1>. HIDE DEF c
<1>4. \A b \in 0..N : c[b] = g[b]
  <2>. DEFINE S == {b \in 0..N : c[b] # g[b]}
  <2>. SUFFICES ASSUME S # {} PROVE FALSE
    OBVIOUS
  <2>1. S \in SUBSET Nat /\ S # {}
    <3>1. 0..N \subseteq Nat
      BY <1>1
    <3> QED BY <3>1, Zenon
  <2>2. PICK n \in S : \A m \in S : n <= m
    BY <2>1, LeastNumber
  <2>3. n # 0
    BY <1>1, <1>3
  <2>4. n - 1 \in 0..N /\ n - 1 \notin S
    BY <1>1, <2>2, <2>3
  <2>5. c[n] = c[n - 1] + s.buckets[n] /\ g[n] = g[n - 1] + s.buckets[n]
    BY <1>2, <1>3, <2>3
  <2> QED BY <2>4, <2>5
<1> QED BY <1>1, <1>4 DEF c

\* The bucket of an observation is the first of those whose bound it does not exceed.
LEMMA Searched ==
  ASSUME NEW v \in Nat
  PROVE  /\ SearchFloat64s(v) \in 1..Len(Bounds) + 1
         /\ \A b \in DOMAIN Bounds : v <= Bounds[b] <=> SearchFloat64s(v) <= b
<1>. DEFINE N == Len(Bounds)
            S == {b \in 1..N + 1 : b \in DOMAIN Bounds => Bounds[b] >= v}
<1>1. /\ N \in Nat /\ DOMAIN Bounds = 1..N
      /\ \A b \in 1..N : Bounds[b] \in Nat
      /\ \A b, c \in 1..N : b <= c => Bounds[b] <= Bounds[c]
  BY MetricsAssumption
<1>. HIDE DEF N
<1>2. S \in SUBSET Nat /\ S # {}
  <2>1. N + 1 \in S
    BY <1>1
  <2> QED BY <1>1, <2>1
<1>3. PICK n \in S : \A m \in S : n <= m
  BY <1>2, LeastNumber
<1>4. \E b \in 1..N + 1 :
        (b \in DOMAIN Bounds => Bounds[b] >= v) /\ \A c \in 1..b - 1 : Bounds[c] < v
  <2>1. n \in 1..N + 1 /\ (n \in DOMAIN Bounds => Bounds[n] >= v)
    OBVIOUS
  <2>2. ASSUME NEW c \in 1..n - 1 PROVE Bounds[c] < v
    <3>1. c \in 1..N /\ c \notin S
      BY <1>1, <1>3, <2>1
    <3>2. ~(Bounds[c] >= v)
      BY <1>1, <3>1
    <3> QED BY <1>1, <3>1, <3>2
  <2> QED BY <2>1, <2>2
<1>. DEFINE i == SearchFloat64s(v)
<1>5. /\ i \in 1..N + 1 /\ (i \in DOMAIN Bounds => Bounds[i] >= v)
      /\ \A c \in 1..i - 1 : Bounds[c] < v
  BY <1>4, Zenon DEF SearchFloat64s, N
<1>. HIDE DEF i
<1>6. ASSUME NEW b \in 1..N PROVE v <= Bounds[b] <=> i <= b
  BY <1>1, <1>5
<1> QED BY <1>1, <1>5, <1>6 DEF i, N

\* What a series shows stays of its kind.
LEMMA ShownKept ==
  ASSUME NEW f \in Families
  PROVE  /\ Nothing(f) \in Shown(f)
         /\ \A was \in Shown(f), a \in Int :
              (f = "duration" => a \in Nat) => WithCall(f, was, a) \in Shown(f)
<1>1. CASE f # "duration"
  BY <1>1 DEF Nothing, WithCall, Shown
<1>2. CASE f = "duration"
  <2>1. Nothing(f) \in Shown(f)
    BY <1>2 DEF Nothing, Shown
  <2>2. ASSUME NEW was \in Shown(f), NEW a \in Nat PROVE WithCall(f, was, a) \in Shown(f)
    <3>1. was.le \in [DOMAIN Bounds -> Nat] /\ was.inf \in Nat /\ was.sum \in Nat
      BY <1>2 DEF Shown
    <3>2. [b \in DOMAIN Bounds |-> was.le[b] + (IF a <= Bounds[b] THEN 1 ELSE 0)]
            \in [DOMAIN Bounds -> Nat]
      BY <3>1
    <3> QED BY <1>2, <3>1, <3>2 DEF WithCall, Shown
  <2> QED BY <1>2, <2>1, <2>2
<1> QED BY <1>1, <1>2

\* Before a call has written, how far it has come makes no difference.
LEMMA NotYet ==
  ASSUME NEW f, NEW s, NEW was, NEW p, NEW q, NEW a, NEW b,
         p \in {"out", "locked", "found"}, q \in {"out", "locked", "found"},
         Progress(f, s, was, p, a)
  PROVE  Progress(f, s, was, q, b)
BY DEF Progress

\* A series shows nothing before its first call.
LEMMA NewShowsNothing ==
  ASSUME NEW f \in Families, NEW p \in {"out", "locked", "found"}, NEW a
  PROVE  NewSeries \in Series /\ Progress(f, NewSeries, Nothing(f), p, a)
<1>1. NewSeries \in Series
  BY DEF NewSeries, Series
<1>2. Progress(f, NewSeries, Nothing(f), "out", a)
  <2>1. CASE f = "duration"
    <3>1. \A b \in DOMAIN Bounds : b = 1 \/ b - 1 \in DOMAIN Bounds
      BY MetricsAssumption
    <3> QED BY <2>1, <3>1 DEF Progress, NewSeries, Nothing
  <2>2. CASE f # "duration"
    BY <2>2 DEF Progress, NewSeries, Nothing
  <2> QED BY <2>1, <2>2
<1> QED BY <1>1, <1>2, NotYet

\* What a series shows once a call is through is what it shows before the next.
LEMMA Through ==
  ASSUME NEW f \in Families, NEW s, NEW was \in Shown(f), NEW a \in Int, NEW b,
         Progress(f, s, was, "updated", a)
  PROVE  Progress(f, s, WithCall(f, was, a), "out", b)
<1>1. CASE f = "duration"
  <2>1. was.inf \in Nat /\ was.sum \in Nat
    BY <1>1 DEF Shown
  <2>2. PICK next : next = WithCall(f, was, a)
    OBVIOUS
  <2>3. next.inf = was.inf + 1 /\ next.sum = was.sum + a
    BY <1>1, <2>2 DEF WithCall
  <2>4. /\ s.count = next.inf /\ s.sum = next.sum
        /\ \A n \in DOMAIN Bounds : s.buckets[n] = next.le[n] - (IF n = 1 THEN 0 ELSE next.le[n - 1])
    BY <1>1, <2>2, <2>3 DEF Progress
  <2>5. next.inf + 0 = next.inf /\ next.sum + 0 = next.sum
    BY <2>1, <2>3
  <2> QED BY <1>1, <2>2, <2>4, <2>5 DEF Progress
<1>2. CASE f # "duration"
  BY <1>2 DEF Progress, WithCall, Shown
<1> QED BY <1>1, <1>2

\* A series on which no call is in progress is written as what it shows.
LEMMA WrittenAsShown ==
  ASSUME NEW f \in Families, NEW s \in Series, NEW was \in Shown(f), NEW a,
         Progress(f, s, was, "out", a)
  PROVE  Written(f, s) = was
<1>1. CASE f = "duration"
  <2>1. was.le \in [DOMAIN Bounds -> Nat]
    BY <1>1 DEF Shown
  <2>2. \A b \in DOMAIN Bounds :
          s.buckets[b] = was.le[b] - (IF b = 1 THEN 0 ELSE was.le[b - 1])
    BY <1>1 DEF Progress
  <2>3. \A b \in DOMAIN Bounds : Cumulative(s)[b] = was.le[b]
    BY <2>1, <2>2, Cumulated
  <2>4. [b \in DOMAIN Bounds |-> Cumulative(s)[b]] = was.le
    BY <2>1, <2>3
  <2>5. s.count = was.inf /\ s.sum = was.sum
    BY <1>1 DEF Progress, Shown
  <2>6. was = [le |-> was.le, inf |-> was.inf, sum |-> was.sum]
    BY <1>1 DEF Shown
  <2> QED BY <1>1, <2>4, <2>5, <2>6 DEF Written
<1>2. CASE f # "duration"
  BY <1>2 DEF Progress, Written, Shown
<1> QED BY <1>1, <1>2

\* Each write of a call takes the series one step on.
LEMMA Added ==
  ASSUME NEW f \in Families, f # "duration", NEW s \in Series, NEW was \in Shown(f),
         NEW a \in Int, Progress(f, s, was, "found", a)
  PROVE  LET t == [s EXCEPT !.value = @ + a]
         IN t \in Series /\ Progress(f, t, was, "updated", a)
BY DEF Progress, Series, Shown

\* The first write of an observation: the count.
LEMMA Counted ==
  ASSUME NEW s \in Series, NEW was \in Shown("duration"),
         NEW a \in Nat, Progress("duration", s, was, "found", a)
  PROVE  LET t == [s EXCEPT !.count = @ + 1]
         IN t \in Series /\ Progress("duration", t, was, "counted", a)
BY DEF Progress, Series, Shown

\* The second: the sum.
LEMMA Summed ==
  ASSUME NEW s \in Series, NEW was \in Shown("duration"),
         NEW a \in Nat, Progress("duration", s, was, "counted", a)
  PROVE  LET t == [s EXCEPT !.sum = @ + a]
         IN t \in Series /\ Progress("duration", t, was, "summed", a)
BY DEF Progress, Series, Shown

\* The third: the bucket that the search finds, which is counted at every bound from there on.
LEMMA Bucketed ==
  ASSUME NEW s \in Series, NEW was \in Shown("duration"),
         NEW a \in Nat, Progress("duration", s, was, "summed", a)
  PROVE  LET i == SearchFloat64s(a)
             t == IF i \in DOMAIN Bounds THEN [s EXCEPT !.buckets[i] = @ + 1] ELSE s
         IN t \in Series /\ Progress("duration", t, was, "updated", a)
<1>. DEFINE i == SearchFloat64s(a)
            t == IF i \in DOMAIN Bounds THEN [s EXCEPT !.buckets[i] = @ + 1] ELSE s
            le == WithCall("duration", was, a).le
<1>1. /\ s.value \in Int /\ s.count \in Nat /\ s.sum \in Nat
      /\ s.buckets \in [DOMAIN Bounds -> Nat]
  BY DEF Series
<1>2. was.le \in [DOMAIN Bounds -> Nat] /\ was.inf \in Nat /\ was.sum \in Nat
  BY DEF Shown
<1>3. /\ i \in 1..Len(Bounds) + 1
      /\ \A b \in DOMAIN Bounds : a <= Bounds[b] <=> i <= b
  BY Searched
<1>4. DOMAIN Bounds = 1..Len(Bounds) /\ Len(Bounds) \in Nat
  BY MetricsAssumption
<1>5. \A b \in DOMAIN Bounds : le[b] = was.le[b] + (IF i <= b THEN 1 ELSE 0)
  BY <1>3 DEF WithCall
<1>6. /\ s.count = was.inf + 1 /\ s.sum = was.sum + a
      /\ \A b \in DOMAIN Bounds :
           s.buckets[b] = was.le[b] - (IF b = 1 THEN 0 ELSE was.le[b - 1])
  BY DEF Progress
<1>. HIDE DEF i, le
<1>7. /\ t \in Series /\ t.count = s.count /\ t.sum = s.sum
      /\ \A b \in DOMAIN Bounds : t.buckets[b] = s.buckets[b] + (IF b = i THEN 1 ELSE 0)
  <2>1. CASE i \in DOMAIN Bounds
    BY <1>1, <2>1 DEF Series
  <2>2. CASE i \notin DOMAIN Bounds
    BY <1>1, <2>2 DEF Series
  <2> QED BY <2>1, <2>2
<1>. HIDE DEF t
<1>8. ASSUME NEW b \in DOMAIN Bounds
      PROVE  t.buckets[b] = le[b] - (IF b = 1 THEN 0 ELSE le[b - 1])
  <2>1. CASE b = 1
    BY <1>1, <1>2, <1>3, <1>4, <1>5, <1>6, <1>7, <2>1
  <2>2. CASE b # 1
    <3>1. b - 1 \in DOMAIN Bounds /\ b \in Nat /\ i \in Nat
      BY <1>3, <1>4, <2>2
    <3>2. /\ le[b - 1] = was.le[b - 1] + (IF i <= b - 1 THEN 1 ELSE 0)
          /\ le[b] = was.le[b] + (IF i <= b THEN 1 ELSE 0)
          /\ t.buckets[b] = was.le[b] - was.le[b - 1] + (IF b = i THEN 1 ELSE 0)
          /\ was.le[b] \in Nat /\ was.le[b - 1] \in Nat
      BY <1>2, <1>5, <1>6, <1>7, <2>2, <3>1
    <3> QED BY <2>2, <3>1, <3>2
  <2> QED BY <2>1, <2>2
<1> QED BY <1>2, <1>6, <1>7, <1>8 DEF Progress, t, le, i

----------------------------------------------------------------------------
(* The calls.                                                              *)

\* A moment shows something of some of the labels.
LEMMA AMoment ==
  ASSUME NEW f, NEW m
  PROVE  m \in MomentsOf(f) <=> DOMAIN m \subseteq Labels /\ m \in [DOMAIN m -> Shown(f)]
BY DEF MomentsOf

\* What a family shows is of its kind, and so is what a call brings.
LEMMA WasShown ==
  ASSUME MomentsInv, NEW f \in Families, NEW l
  PROVE  /\ Last(f) \in [DOMAIN Last(f) -> Shown(f)] /\ DOMAIN Last(f) \subseteq Labels
         /\ Was(f, l) \in Shown(f)
<1>1. Last(f) \in MomentsOf(f)
  <2>1. moments[f] \in Seq(MomentsOf(f)) /\ moments[f] # <<>>
    BY DEF MomentsInv
  <2> QED BY <2>1 DEF Last
<1>2. Last(f) \in [DOMAIN Last(f) -> Shown(f)] /\ DOMAIN Last(f) \subseteq Labels
  BY <1>1, AMoment
<1> QED BY <1>2, ShownKept DEF Was

\* What a request in a call has to do with: its family, its label and its amount.
LEMMA OfItsKind ==
  ASSUME Types, NEW i \in Requests, InCall(i), at[i] # "out"
  PROVE  /\ call[i] \in 1..4 /\ Family(i) \in Families /\ Label(i) \in Labels
         /\ amount[i] \in Int /\ (Family(i) = "duration" => amount[i] \in Nat)
<1>1. call[i] \in 1..4 /\ amount[i] \in Calls[call[i]].amounts
  BY DEF InCall
<1>2. Label(i) \in Labels
  BY DEF Types, Label, Labels
<1> QED BY <1>1, <1>2, CallsAre DEF Family

\* At the start nobody is in a call and nothing has been counted.
LEMMA InitCalls ==
  ASSUME Init PROVE CallInv
<1>1. Types
  BY CallsAre DEF Init, Types
<1>2. MomentsInv
  <2>1. PICK none : none = NoSeries
    OBVIOUS
  <2>2. \A f \in Families : none \in MomentsOf(f)
    BY <2>1, AMoment DEF NoSeries
  <2>3. /\ DOMAIN moments = Families
        /\ \A f \in Families : moments[f] = <<none>>
    BY <2>1 DEF Init
  <2>4. ASSUME NEW f \in Families PROVE moments[f] \in Seq(MomentsOf(f)) /\ moments[f] # <<>>
    <3>1. none \in MomentsOf(f) /\ moments[f] = <<none>>
      BY <2>2, <2>3
    <3> QED BY <3>1
  <2> QED BY <2>3, <2>4 DEF MomentsInv
<1>3. ASSUME NEW i \in Requests PROVE InCall(i)
  BY DEF Init, InCall
<1>4. HeldInCall
  BY MetricsAssumption DEF Init, HeldInCall
<1>5. Apart /\ Valued
  BY DEF Init, Apart, Valued
<1>6. Made
  BY DEF Init, Made, Last, NoSeries
<1>7. Gauged
  <2>1. InFlight = {}
    BY DEF Init, InFlight
  <2>2. Was("active", NoLabels) = 0
    BY DEF Init, Was, Last, NoSeries, Nothing, Families
  <2> QED BY <2>1, <2>2, FS_EmptySet DEF Gauged
<1> QED BY <1>1, <1>2, <1>3, <1>4, <1>5, <1>6, <1>7 DEF CallInv

\* A scrape only takes and releases mutexes that no request holds.
LEMMA ScrapeKeepsCalls ==
  ASSUME CallInv, UNCHANGED <<series, heap, requestVars, moments>>,
         mu' \in [Families -> Requests \cup {Scraper, Nobody}],
         \A f \in Families : mu'[f] = mu[f] \/ {mu[f], mu'[f]} \subseteq {Nobody, Scraper}
  PROVE  CallInv'
<1>0. UNCHANGED <<series, heap, method, call, at, amount, held, moments>>
  BY DEF requestVars
<1>1. \A f \in Families, i \in Requests : mu'[f] = i <=> mu[f] = i
  BY MetricsAssumption DEF CallInv, Types
<1>2. Types' /\ MomentsInv'
  BY <1>0 DEF CallInv, Types, MomentsInv
<1>3. ASSUME NEW i \in Requests PROVE InCall(i)'
  <2>1. call[i] \in 1..4 => Calls[call[i]].family \in Families
    BY CallsAre
  <2> QED BY <1>0, <1>1, <2>1 DEF CallInv, InCall, Family, Label
<1>4. HeldInCall'
  BY <1>0, <1>1 DEF CallInv, HeldInCall, Family
<1>5. Apart'
  BY <1>0 DEF CallInv, Apart
<1>6. Made'
  BY <1>0, <1>1 DEF CallInv, Made, Making, Last, Label, Family
<1>7. Valued'
  BY <1>0, <1>1 DEF CallInv, Valued, Was, Last, Label, Family
<1>8. Gauged'
  BY <1>0 DEF CallInv, Gauged, Was, Last, InFlight
<1> QED BY <1>2, <1>3, <1>4, <1>5, <1>6, <1>7, <1>8 DEF CallInv

\* A write to the series that a request holds takes that series on, and no other.
LEMMA WriteKeepsCalls ==
  ASSUME CallInv, NEW i \in Requests, at[i] \notin {"out", "locked"}, held[i] # 0,
         NEW q \in {"counted", "summed", "updated"}, q # "updated" => Family(i) = "duration",
         at' = [at EXCEPT ![i] = q],
         NEW s \in Series, Update(i, s),
         Progress(Family(i), s, Was(Family(i), Label(i)), q, amount[i])
  PROVE  CallInv'
<1>0. /\ heap' = [heap EXCEPT ![held[i]] = s]
      /\ UNCHANGED <<mu, series, method, call, amount, held, moments>>
  BY DEF Update
<1>1. PICK fi, li, h, w, a :
        fi = Family(i) /\ li = Label(i) /\ h = held[i] /\ w = Was(fi, li) /\ a = amount[i]
  OBVIOUS
<1>2. /\ Types /\ MomentsInv /\ InCall(i) /\ HeldInCall /\ Apart /\ Made /\ Valued /\ Gauged
      /\ \A j \in Requests : InCall(j)
  BY DEF CallInv
<1>3. /\ fi \in Families /\ li \in Labels /\ mu[fi] = i
      /\ h = series[fi][li] /\ h # 0
  BY <1>1, <1>2, OfItsKind DEF InCall
<1>4. /\ Len(heap') = Len(heap) /\ heap' \in Seq(Series) /\ heap'[h] = s
      /\ \A n \in 1..Len(heap) : n # h => heap'[n] = heap[n]
  <2>1. h \in 1..Len(heap)
    BY <1>1, <1>2, <1>3 DEF Types
  <2> QED BY <1>0, <1>1, <1>2, <2>1 DEF Types
<1>5. at' \in [Requests -> {"out", "locked", "found", "counted", "summed", "updated"}]
  BY <1>2 DEF Types
<1>6. at'[i] = q /\ \A j \in Requests : j # i => at'[j] = at[j]
  BY <1>2 DEF Types
<1>7. Types' /\ MomentsInv'
  BY <1>0, <1>2, <1>4, <1>5 DEF Types, MomentsInv
<1>8. ASSUME NEW j \in Requests PROVE InCall(j)'
  <2>1. CASE j = i
    BY <1>0, <1>1, <1>2, <1>6, <2>1 DEF InCall, Family, Label
  <2>2. CASE j # i
    BY <1>0, <1>2, <1>6, <2>2 DEF InCall, Family, Label
  <2> QED BY <2>1, <2>2
<1>9. HeldInCall'
  BY <1>0, <1>2, <1>6 DEF HeldInCall, Family
<1>10. Apart' /\ Made'
  BY <1>0, <1>2 DEF Apart, Made, Making, Last, Label, Family
<1>11. ASSUME NEW f \in Families, NEW l \in Labels, series'[f][l] # 0
       PROVE  /\ \A j \in Requests : mu'[f] = j /\ Label(j)' = l =>
                    Progress(f, heap'[series'[f][l]], Was(f, l)', at'[j], amount'[j])
              /\ (\A j \in Requests : mu'[f] = j => Label(j)' # l) =>
                    Progress(f, heap'[series'[f][l]], Was(f, l)', "out", 0)
  <2>1. PICK wfl : wfl = Was(f, l)
    OBVIOUS
  <2>2. Was(f, l)' = wfl
    BY <1>0, <2>1 DEF Was, Last
  <2>3. CASE f = fi /\ l = li
    <3>1. wfl = w /\ heap'[series'[f][l]] = s
      BY <1>0, <1>1, <1>3, <1>4, <2>1, <2>3
    <3>2. Progress(f, s, wfl, q, a)
      BY <1>1, <2>3, <3>1
    <3>3. \A j \in Requests : mu'[f] = j => j = i
      BY <1>0, <1>3, <2>3
    <3>4. mu'[f] = i /\ Label(i)' = l /\ amount'[i] = a
      BY <1>0, <1>1, <1>3, <2>3 DEF Label, Family
    <3> QED BY <1>6, <2>2, <3>1, <3>2, <3>3, <3>4
  <2>4. CASE ~(f = fi /\ l = li)
    <3>1. series[f][l] # h /\ series[f][l] \in 1..Len(heap)
      BY <1>0, <1>2, <1>3, <1>11, <2>4 DEF Apart, Types
    <3>2. heap'[series'[f][l]] = heap[series[f][l]]
      BY <1>0, <1>4, <3>1
    <3>3. ASSUME NEW j \in Requests, mu'[f] = j, Label(j)' = l
          PROVE  Progress(f, heap[series[f][l]], wfl, at'[j], amount'[j])
      <4>1. mu[f] = j /\ Label(j) = l
        BY <1>0, <3>3 DEF Label, Family
      <4>2. j # i
        BY <1>1, <1>2, <2>4, <4>1 DEF HeldInCall
      <4> QED BY <1>0, <1>2, <1>6, <1>11, <2>1, <4>1, <4>2 DEF Valued
    <3>4. ASSUME \A j \in Requests : mu'[f] = j => Label(j)' # l
          PROVE  Progress(f, heap[series[f][l]], wfl, "out", 0)
      <4>1. \A j \in Requests : mu[f] = j => Label(j) # l
        BY <1>0, <3>4 DEF Label, Family
      <4> QED BY <1>0, <1>2, <1>11, <2>1, <4>1 DEF Valued
    <3> QED BY <2>2, <3>2, <3>3, <3>4
  <2> QED BY <2>3, <2>4
<1>12. Valued'
  BY <1>11 DEF Valued
<1>13. Gauged'
  BY <1>0, <1>2 DEF Gauged, Was, Last, InFlight
<1> QED BY <1>7, <1>8, <1>9, <1>10, <1>12, <1>13 DEF CallInv

\* Lock: the mutex is free, so that nobody is in a call to the family.
LEMMA LockKeepsCalls ==
  ASSUME CallInv, NEW i \in Requests, Lock(i)
  PROVE  CallInv'
<1>0. /\ call[i] \in 1..4 /\ at[i] = "out" /\ at' = [at EXCEPT ![i] = "locked"]
      /\ mu[Family(i)] = Nobody /\ mu' = [mu EXCEPT ![Family(i)] = i]
      /\ UNCHANGED <<series, heap, method, call, held, moments>>
  BY CallsAre DEF Lock, Step, Free
<1>1. PICK a \in Calls[call[i]].amounts : amount' = [amount EXCEPT ![i] = a]
  BY DEF Lock
<1>2. /\ Types /\ MomentsInv /\ InCall(i) /\ HeldInCall /\ Apart /\ Made /\ Valued /\ Gauged
      /\ \A j \in Requests : InCall(j)
  BY DEF CallInv
<1>3. PICK fi, li : fi = Family(i) /\ li = Label(i)
  OBVIOUS
<1>4. fi \in Families /\ a \in Int
  BY <1>0, <1>1, <1>3, CallsAre DEF Family
<1>5. /\ mu'[fi] = i /\ at'[i] = "locked" /\ amount'[i] = a
      /\ \A f \in Families : f # fi => mu'[f] = mu[f]
      /\ \A j \in Requests : j # i => at'[j] = at[j] /\ amount'[j] = amount[j]
  BY <1>0, <1>1, <1>2, <1>3, <1>4 DEF Types
<1>6. Types' /\ MomentsInv'
  BY <1>0, <1>1, <1>2, <1>3, <1>4 DEF Types, MomentsInv
<1>7. \A j \in Requests : mu[fi] # j
  BY <1>0, <1>3, MetricsAssumption
<1>8. ASSUME NEW j \in Requests PROVE InCall(j)'
  <2>1. CASE j = i
    BY <1>0, <1>1, <1>2, <1>3, <1>5, <2>1 DEF InCall, Family, Label
  <2>2. CASE j # i
    <3>1. at[j] # "out" => Family(j) \in Families /\ Family(j) # fi
      BY <1>2, <1>7, OfItsKind DEF InCall
    <3> QED BY <1>0, <1>2, <1>5, <2>2, <3>1 DEF InCall, Family, Label
  <2> QED BY <2>1, <2>2
<1>9. HeldInCall'
  BY <1>0, <1>2, <1>3, <1>5 DEF HeldInCall, Family
<1>10. Apart'
  BY <1>0, <1>2 DEF Apart
<1>11. Made'
  BY <1>0, <1>2, <1>5, <1>7 DEF Made, Making, Last, Label, Family
<1>12. ASSUME NEW f \in Families, NEW l \in Labels, series'[f][l] # 0
       PROVE  /\ \A j \in Requests : mu'[f] = j /\ Label(j)' = l =>
                    Progress(f, heap'[series'[f][l]], Was(f, l)', at'[j], amount'[j])
              /\ (\A j \in Requests : mu'[f] = j => Label(j)' # l) =>
                    Progress(f, heap'[series'[f][l]], Was(f, l)', "out", 0)
  <2>1. PICK s, was : s = heap[series[f][l]] /\ was = Was(f, l)
    OBVIOUS
  <2>2. heap'[series'[f][l]] = s /\ Was(f, l)' = was
    BY <1>0, <2>1 DEF Was, Last
  <2>3. CASE f = fi
    <3>1. Progress(f, s, was, "out", 0)
      BY <1>0, <1>2, <1>7, <1>12, <2>1, <2>3 DEF Valued
    <3>2. Progress(f, s, was, "locked", a)
      BY <3>1, NotYet
    <3>3. \A j \in Requests : mu'[f] = j => j = i
      BY <1>5, <2>3
    <3> QED BY <1>5, <2>2, <3>1, <3>2, <3>3
  <2>4. CASE f # fi
    <3>1. mu'[f] = mu[f] /\ \A j \in Requests : mu[f] = j => j # i
      BY <1>0, <1>2, <1>5, <2>4 DEF HeldInCall
    <3>2. ASSUME NEW j \in Requests, mu'[f] = j, Label(j)' = l
          PROVE  Progress(f, s, was, at'[j], amount'[j])
      <4>1. mu[f] = j /\ Label(j) = l /\ j # i
        BY <1>0, <3>1, <3>2 DEF Label, Family
      <4> QED BY <1>0, <1>2, <1>5, <1>12, <2>1, <4>1 DEF Valued
    <3>3. ASSUME \A j \in Requests : mu'[f] = j => Label(j)' # l
          PROVE  Progress(f, s, was, "out", 0)
      <4>1. \A j \in Requests : mu[f] = j => Label(j) # l
        BY <1>0, <3>1, <3>3 DEF Label, Family
      <4> QED BY <1>0, <1>2, <1>12, <2>1, <4>1 DEF Valued
    <3> QED BY <2>2, <3>2, <3>3
  <2> QED BY <2>3, <2>4
<1>13. Valued'
  BY <1>12 DEF Valued
<1>14. Gauged'
  BY <1>0, <1>2 DEF Gauged, Was, Last, InFlight
<1> QED BY <1>6, <1>8, <1>9, <1>10, <1>11, <1>13, <1>14 DEF CallInv

\* seriesFor, the look-up: what it finds stays so while the mutex is held.
LEMMA LookupKeepsCalls ==
  ASSUME CallInv, NEW i \in Requests, Lookup(i)
  PROVE  CallInv'
<1>0. /\ at[i] = "locked" /\ at' = [at EXCEPT ![i] = "found"]
      /\ held' = [held EXCEPT ![i] = series[Family(i)][Label(i)]]
      /\ UNCHANGED <<mu, series, heap, method, call, amount, moments>>
  BY DEF Lookup, Step
<1>1. /\ Types /\ MomentsInv /\ InCall(i) /\ HeldInCall /\ Apart /\ Made /\ Valued /\ Gauged
      /\ \A j \in Requests : InCall(j)
  BY DEF CallInv
<1>2. PICK fi, li : fi = Family(i) /\ li = Label(i)
  OBVIOUS
<1>3. fi \in Families /\ li \in Labels /\ mu[fi] = i /\ held[i] = 0
  BY <1>0, <1>1, <1>2, OfItsKind DEF InCall
<1>4. series[fi][li] \in 0..Len(heap)
  BY <1>1, <1>3 DEF Types
<1>5. /\ at'[i] = "found" /\ held'[i] = series[fi][li]
      /\ \A j \in Requests : j # i => at'[j] = at[j] /\ held'[j] = held[j]
  BY <1>0, <1>1, <1>2 DEF Types
<1>6. Types' /\ MomentsInv'
  BY <1>0, <1>1, <1>2, <1>4 DEF Types, MomentsInv
<1>7. ASSUME NEW j \in Requests PROVE InCall(j)'
  <2>1. CASE j = i
    BY <1>0, <1>1, <1>2, <1>5, <2>1 DEF InCall, Family, Label
  <2>2. CASE j # i
    BY <1>0, <1>1, <1>5, <2>2 DEF InCall, Family, Label
  <2> QED BY <2>1, <2>2
<1>8. HeldInCall'
  BY <1>0, <1>1, <1>5 DEF HeldInCall, Family
<1>9. Apart'
  BY <1>0, <1>1 DEF Apart
<1>10. Made'
  BY <1>0, <1>1, <1>3, <1>5 DEF Made, Making, Last, Label, Family
<1>11. ASSUME NEW f \in Families, NEW l \in Labels, series'[f][l] # 0
       PROVE  /\ \A j \in Requests : mu'[f] = j /\ Label(j)' = l =>
                    Progress(f, heap'[series'[f][l]], Was(f, l)', at'[j], amount'[j])
              /\ (\A j \in Requests : mu'[f] = j => Label(j)' # l) =>
                    Progress(f, heap'[series'[f][l]], Was(f, l)', "out", 0)
  <2>1. PICK s, was : s = heap[series[f][l]] /\ was = Was(f, l)
    OBVIOUS
  <2>2. heap'[series'[f][l]] = s /\ Was(f, l)' = was
    BY <1>0, <2>1 DEF Was, Last
  <2>3. ASSUME NEW j \in Requests, mu'[f] = j, Label(j)' = l
        PROVE  Progress(f, s, was, at'[j], amount'[j])
    <3>1. mu[f] = j /\ Label(j) = l
      BY <1>0, <2>3 DEF Label, Family
    <3>2. Progress(f, s, was, at[j], amount[j])
      BY <1>0, <1>1, <1>11, <2>1, <3>1 DEF Valued
    <3>3. CASE j = i
      BY <1>0, <1>5, <3>2, <3>3, NotYet
    <3>4. CASE j # i
      BY <1>0, <1>5, <3>2, <3>4
    <3> QED BY <3>3, <3>4
  <2>4. ASSUME \A j \in Requests : mu'[f] = j => Label(j)' # l
        PROVE  Progress(f, s, was, "out", 0)
    <3>1. \A j \in Requests : mu[f] = j => Label(j) # l
      BY <1>0, <2>4 DEF Label, Family
    <3> QED BY <1>0, <1>1, <1>11, <2>1, <3>1 DEF Valued
  <2> QED BY <2>2, <2>3, <2>4
<1>12. Valued'
  BY <1>11 DEF Valued
<1>13. Gauged'
  BY <1>0, <1>1 DEF Gauged, Was, Last, InFlight
<1> QED BY <1>6, <1>7, <1>8, <1>9, <1>10, <1>12, <1>13 DEF CallInv

\* seriesFor, the making: the new series is nobody else's and shows nothing yet.
LEMMA MakeKeepsCalls ==
  ASSUME CallInv, NEW i \in Requests, Make(i)
  PROVE  CallInv'
<1>0. /\ at[i] = "found" /\ held[i] = 0
      /\ heap' = Append(heap, NewSeries)
      /\ held' = [held EXCEPT ![i] = Len(heap')]
      /\ series' = [series EXCEPT ![Family(i)][Label(i)] = Len(heap')]
      /\ UNCHANGED <<mu, method, call, at, amount, moments>>
  BY DEF Make
<1>1. /\ Types /\ MomentsInv /\ InCall(i) /\ HeldInCall /\ Apart /\ Made /\ Valued /\ Gauged
      /\ \A j \in Requests : InCall(j)
  BY DEF CallInv
<1>2. PICK fi, li, n : fi = Family(i) /\ li = Label(i) /\ n = Len(heap')
  OBVIOUS
<1>3. /\ fi \in Families /\ li \in Labels /\ mu[fi] = i /\ series[fi][li] = 0
  BY <1>0, <1>1, <1>2, OfItsKind DEF InCall
<1>4. /\ heap' \in Seq(Series) /\ n = Len(heap) + 1 /\ heap'[n] = NewSeries
      /\ \A m \in 1..Len(heap) : heap'[m] = heap[m]
  <2>1. NewSeries \in Series /\ heap \in Seq(Series)
    BY <1>1, <1>3, NewShowsNothing DEF Types
  <2> QED BY <1>0, <1>2, <2>1
<1>5. /\ held'[i] = n /\ series'[fi][li] = n
      /\ \A j \in Requests : j # i => held'[j] = held[j]
      /\ \A f \in Families, l \in Labels :
           ~(f = fi /\ l = li) => series'[f][l] = series[f][l]
  BY <1>0, <1>1, <1>2, <1>3 DEF Types
<1>6. Types' /\ MomentsInv'
  BY <1>0, <1>1, <1>2, <1>3, <1>4 DEF Types, MomentsInv
<1>7. ASSUME NEW j \in Requests PROVE InCall(j)'
  <2>1. CASE j = i
    BY <1>0, <1>1, <1>2, <1>4, <1>5, <2>1 DEF InCall, Family, Label
  <2>2. CASE j # i
    <3>1. at[j] # "out" => Family(j) \in Families /\ Label(j) \in Labels /\ Family(j) # fi
      BY <1>1, <1>3, <2>2, OfItsKind DEF InCall
    <3> QED BY <1>0, <1>1, <1>5, <2>2, <3>1 DEF InCall, Family, Label
  <2> QED BY <2>1, <2>2
<1>8. HeldInCall'
  BY <1>0, <1>1 DEF HeldInCall, Family
<1>9. Apart'
  <2>1. \A f \in Families, l \in Labels : series[f][l] \in Nat /\ series[f][l] < n
    <3>1. Len(heap) \in Nat
      BY <1>1 DEF Types
    <3> QED BY <1>1, <1>4, <3>1 DEF Types
  <2>2. ASSUME NEW f \in Families, NEW g \in Families, NEW k \in Labels, NEW l \in Labels,
               series'[f][k] # 0, series'[f][k] = series'[g][l]
        PROVE  f = g /\ k = l
    <3>1. CASE f = fi /\ k = li
      BY <1>5, <2>1, <2>2, <3>1
    <3>2. CASE ~(f = fi /\ k = li)
      BY <1>1, <1>5, <2>1, <2>2, <3>2 DEF Apart
    <3> QED BY <3>1, <3>2
  <2> QED BY <2>2 DEF Apart
<1>10. Made'
  BY <1>0, <1>1, <1>2, <1>3, <1>4, <1>5 DEF Made, Making, Last, Label, Family, Types
<1>11. ASSUME NEW f \in Families, NEW l \in Labels, series'[f][l] # 0
       PROVE  /\ \A j \in Requests : mu'[f] = j /\ Label(j)' = l =>
                    Progress(f, heap'[series'[f][l]], Was(f, l)', at'[j], amount'[j])
              /\ (\A j \in Requests : mu'[f] = j => Label(j)' # l) =>
                    Progress(f, heap'[series'[f][l]], Was(f, l)', "out", 0)
  <2>1. PICK s, was : s = heap[series[f][l]] /\ was = Was(f, l)
    OBVIOUS
  <2>2. Was(f, l)' = was
    BY <1>0, <2>1 DEF Was, Last
  <2>3. CASE f = fi /\ l = li
    <3>1. was = Nothing(f)
      BY <1>1, <1>3, <2>1, <2>3 DEF Made, Was
    <3>2. \A j \in Requests : mu'[f] = j => j = i
      BY <1>0, <1>3, <2>3
    <3>3. mu'[f] = i /\ Label(i)' = l /\ at'[i] = "found"
      BY <1>0, <1>2, <1>3, <2>3 DEF Label, Family
    <3>4. heap'[series'[f][l]] = NewSeries
      BY <1>4, <1>5, <2>3
    <3>5. \A a : Progress(f, NewSeries, was, "found", a)
      BY <3>1, NewShowsNothing
    <3> QED BY <2>2, <3>2, <3>3, <3>4, <3>5
  <2>4. CASE ~(f = fi /\ l = li)
    <3>1. series'[f][l] = series[f][l] /\ series[f][l] \in 1..Len(heap)
      BY <1>1, <1>5, <1>11, <2>4 DEF Types
    <3>2. heap'[series'[f][l]] = s
      BY <1>4, <2>1, <3>1
    <3>3. \A j \in Requests : (mu'[f] = j <=> mu[f] = j) /\ (Label(j)' = l <=> Label(j) = l)
      BY <1>0 DEF Label, Family
    <3> QED BY <1>0, <1>1, <1>11, <2>1, <2>2, <3>1, <3>2, <3>3 DEF Valued
  <2> QED BY <2>3, <2>4
<1>12. Valued'
  BY <1>11 DEF Valued
<1>13. Gauged'
  BY <1>0, <1>1 DEF Gauged, Was, Last, InFlight
<1> QED BY <1>6, <1>7, <1>8, <1>9, <1>10, <1>12, <1>13 DEF CallInv

\* The requests in flight: one that is not is a place left, one that is counts.
LEMMA InFlightBounded ==
  ASSUME NEW i \in Requests
  PROVE  /\ IsFiniteSet(InFlight) /\ Cardinality(InFlight) \in 0..Cardinality(Requests)
         /\ call[i] = 1 => Cardinality(InFlight) < Cardinality(Requests)
         /\ call[i] = 4 => Cardinality(InFlight) > 0
<1>1. PICK F : F = InFlight
  OBVIOUS
<1>2. IsFiniteSet(Requests) /\ F \subseteq Requests
  BY <1>1, MetricsAssumption DEF InFlight
<1>3. /\ IsFiniteSet(F) /\ Cardinality(F) \in Nat /\ Cardinality(Requests) \in Nat
      /\ Cardinality(F) <= Cardinality(Requests)
      /\ Cardinality(F) = Cardinality(Requests) => F = Requests
  BY <1>2, FS_Subset, FS_CardinalityType
<1>4. call[i] = 1 => i \notin F
  BY <1>1 DEF InFlight
<1>5. call[i] = 4 => i \in F
  BY <1>1 DEF InFlight
<1>6. i \in F => Cardinality(F) > 0
  BY <1>3, FS_EmptySet
<1> QED BY <1>1, <1>3, <1>4, <1>5, <1>6

\* They change as one comes and goes.
LEMMA InFlightCounted ==
  ASSUME NEW i \in Requests, Types, call[i] \in 1..4, call' = [call EXCEPT ![i] = @ + 1]
  PROVE  /\ call[i] = 1 => Cardinality(InFlight)' = Cardinality(InFlight) + 1
         /\ call[i] \in {2, 3} => Cardinality(InFlight)' = Cardinality(InFlight)
         /\ call[i] = 4 => Cardinality(InFlight)' = Cardinality(InFlight) - 1
<1>. PICK F, G : F = InFlight /\ G = InFlight'
  OBVIOUS
<1>1. F \subseteq Requests /\ G \subseteq Requests
  BY DEF InFlight
<1>2. IsFiniteSet(F) /\ Cardinality(F) \in Nat
  BY InFlightBounded, FS_CardinalityType
<1>3. \A j \in Requests : j # i => (j \in F <=> j \in G)
  BY DEF InFlight, Types
<1>4. ASSUME call[i] = 1 PROVE Cardinality(G) = Cardinality(F) + 1
  <2>1. i \notin F /\ i \in G
    BY <1>4 DEF InFlight, Types
  <2>2. G = F \cup {i}
    BY <1>1, <1>3, <2>1
  <2> QED BY <1>2, <2>1, <2>2, FS_AddElement
<1>5. ASSUME call[i] \in {2, 3} PROVE G = F
  <2>1. i \in F /\ i \in G
    BY <1>5 DEF InFlight, Types
  <2> QED BY <1>1, <1>3, <2>1
<1>6. ASSUME call[i] = 4 PROVE Cardinality(G) = Cardinality(F) - 1
  <2>1. i \in F /\ i \notin G
    BY <1>6 DEF InFlight, Types
  <2>2. G = F \ {i}
    BY <1>1, <1>3, <2>1
  <2> QED BY <1>2, <2>1, <2>2, FS_RemoveElement
<1> QED BY <1>4, <1>5, <1>6

\* Unlock: the call takes its family to the next moment.
LEMMA UnlockKeepsCalls ==
  ASSUME CallInv, NEW i \in Requests, Unlock(i)
  PROVE  CallInv'
<1>0. /\ at[i] = "updated" /\ at' = [at EXCEPT ![i] = "out"]
      /\ mu' = [mu EXCEPT ![Family(i)] = Nobody]
      /\ moments' = [moments EXCEPT ![Family(i)] =
                       Append(@, NextMoment(Family(i), Label(i), amount[i]))]
      /\ call' = [call EXCEPT ![i] = @ + 1]
      /\ held' = [held EXCEPT ![i] = 0] /\ amount' = [amount EXCEPT ![i] = 0]
      /\ UNCHANGED <<series, heap, method>>
  BY DEF Unlock, Step
<1>1. /\ Types /\ MomentsInv /\ InCall(i) /\ HeldInCall /\ Apart /\ Made /\ Valued /\ Gauged
      /\ \A j \in Requests : InCall(j)
  BY DEF CallInv
<1>2. PICK fi, li, a, was, next :
        /\ fi = Family(i) /\ li = Label(i) /\ a = amount[i]
        /\ was = Was(fi, li) /\ next = NextMoment(fi, li, a)
  OBVIOUS
<1>3. /\ fi \in Families /\ li \in Labels /\ mu[fi] = i /\ call[i] \in 1..4
      /\ held[i] # 0 /\ series[fi][li] # 0
      /\ a \in Int /\ (fi = "duration" => a \in Nat)
  BY <1>0, <1>1, <1>2, OfItsKind DEF InCall
<1>4. was \in Shown(fi) /\ WithCall(fi, was, a) \in Shown(fi)
  BY <1>1, <1>2, <1>3, WasShown, ShownKept
<1>5. /\ next \in MomentsOf(fi) /\ DOMAIN next = DOMAIN Last(fi) \cup {li}
      /\ next[li] = WithCall(fi, was, a)
      /\ \A l \in DOMAIN Last(fi) : l # li => next[l] = Last(fi)[l]
  <2>1. Last(fi) \in [DOMAIN Last(fi) -> Shown(fi)] /\ DOMAIN Last(fi) \subseteq Labels
    BY <1>1, <1>3, WasShown
  <2>2. PICK m : m = Last(fi)
    OBVIOUS
  <2>3. next = [k \in DOMAIN m \cup {li} |-> IF k = li THEN WithCall(fi, was, a) ELSE m[k]]
    BY <1>2, <2>2 DEF NextMoment
  <2>4. DOMAIN next \subseteq Labels /\ next \in [DOMAIN next -> Shown(fi)]
    BY <1>3, <1>4, <2>1, <2>2, <2>3
  <2> QED BY <2>2, <2>3, <2>4, AMoment
<1>6. /\ moments'[fi] \in Seq(MomentsOf(fi)) /\ moments'[fi] # <<>>
      /\ Last(fi)' = next /\ DOMAIN moments' = Families
      /\ \A f \in Families : f # fi => moments'[f] = moments[f]
  <2>1. moments[fi] \in Seq(MomentsOf(fi)) /\ DOMAIN moments = Families
    BY <1>1, <1>3 DEF MomentsInv
  <2>2. moments'[fi] = Append(moments[fi], next)
    BY <1>0, <1>2, <1>3, <2>1
  <2>3. /\ moments'[fi] \in Seq(MomentsOf(fi)) /\ moments'[fi] # <<>>
        /\ moments'[fi][Len(moments'[fi])] = next
    BY <1>5, <2>1, <2>2
  <2> QED BY <1>0, <1>2, <2>1, <2>3 DEF Last
<1>7. /\ mu'[fi] = Nobody /\ at'[i] = "out" /\ held'[i] = 0 /\ call'[i] = call[i] + 1
      /\ \A f \in Families : f # fi => mu'[f] = mu[f]
      /\ \A j \in Requests : j # i =>
           at'[j] = at[j] /\ amount'[j] = amount[j] /\ held'[j] = held[j] /\ call'[j] = call[j]
  BY <1>0, <1>1, <1>2, <1>3 DEF Types
<1>8. call' \in [Requests -> 1..5]
  BY <1>0, <1>1, <1>3 DEF Types
<1>9. Types' /\ MomentsInv'
  <2>1. Types'
    BY <1>0, <1>1, <1>2, <1>3, <1>8 DEF Types
  <2>2. MomentsInv'
    BY <1>1, <1>6 DEF MomentsInv
  <2> QED BY <2>1, <2>2
<1>10. ASSUME NEW j \in Requests PROVE InCall(j)'
  <2>1. CASE j = i
    BY <1>7, <2>1 DEF InCall
  <2>2. CASE j # i
    <3>1. at[j] # "out" => Family(j) \in Families /\ Family(j) # fi
      BY <1>1, <1>3, <2>2, OfItsKind DEF InCall
    <3> QED BY <1>0, <1>1, <1>7, <2>2, <3>1 DEF InCall, Family, Label
  <2> QED BY <2>1, <2>2
<1>11. ASSUME NEW f \in Families, NEW j \in Requests, mu'[f] = j
       PROVE  f # fi /\ j # i /\ mu[f] = j
  <2>1. f # fi
    BY <1>7, <1>11, MetricsAssumption
  <2> QED BY <1>1, <1>2, <1>7, <1>11, <2>1 DEF HeldInCall
<1>12. HeldInCall'
  BY <1>0, <1>1, <1>7, <1>11 DEF HeldInCall, Family
<1>13. Apart'
  BY <1>0, <1>1 DEF Apart
<1>14. ASSUME NEW f \in Families, NEW l \in Labels
       PROVE  /\ l \in DOMAIN Last(f)' => series'[f][l] # 0
              /\ series'[f][l] # 0 => l \in DOMAIN Last(f)' \/ Making(f, l)'
  <2>1. CASE f = fi
    <3>1. \A j \in Requests : mu[fi] = j => j = i
      BY <1>3
    <3> QED BY <1>0, <1>1, <1>2, <1>3, <1>5, <1>6, <2>1, <3>1 DEF Made, Making
  <2>2. CASE f # fi
    <3>1. \A j \in Requests : mu[f] = j => j # i
      BY <1>1, <1>2, <2>2 DEF HeldInCall
    <3> QED BY <1>0, <1>1, <1>6, <1>7, <2>2, <3>1 DEF Made, Making, Last, Label, Family
  <2> QED BY <2>1, <2>2
<1>15. Made'
  BY <1>14 DEF Made
<1>16. ASSUME NEW f \in Families, NEW l \in Labels, series'[f][l] # 0
       PROVE  /\ \A j \in Requests : mu'[f] = j /\ Label(j)' = l =>
                    Progress(f, heap'[series'[f][l]], Was(f, l)', at'[j], amount'[j])
              /\ (\A j \in Requests : mu'[f] = j => Label(j)' # l) =>
                    Progress(f, heap'[series'[f][l]], Was(f, l)', "out", 0)
  <2>1. PICK s : s = heap[series[f][l]]
    OBVIOUS
  <2>2. heap'[series'[f][l]] = s /\ series[f][l] # 0
    BY <1>0, <1>16, <2>1
  <2>3. CASE f = fi
    <3>1. Progress(f, s, Was(f, l)', "out", 0)
      <4>1. CASE l = li
        <5>1. Progress(fi, s, was, "updated", a)
          BY <1>0, <1>1, <1>2, <1>3, <2>1, <2>2, <2>3, <4>1 DEF Valued
        <5>2. Progress(fi, s, WithCall(fi, was, a), "out", 0)
          BY <1>3, <1>4, <5>1, Through
        <5>3. Was(f, l)' = WithCall(fi, was, a)
          BY <1>5, <1>6, <2>3, <4>1 DEF Was
        <5> QED BY <2>3, <5>2, <5>3
      <4>2. CASE l # li
        <5>1. \A j \in Requests : mu[f] = j => Label(j) # l
          BY <1>2, <1>3, <2>3, <4>2
        <5>2. Progress(f, s, Was(f, l), "out", 0)
          BY <1>1, <2>1, <2>2, <5>1 DEF Valued
        <5>3. Was(f, l)' = Was(f, l)
          BY <1>5, <1>6, <2>3, <4>2 DEF Was
        <5> QED BY <5>2, <5>3
      <4> QED BY <4>1, <4>2
    <3> QED BY <1>11, <2>2, <2>3, <3>1
  <2>4. CASE f # fi
    <3>1. Was(f, l)' = Was(f, l)
      BY <1>6, <2>4 DEF Was, Last
    <3>2. \A j \in Requests : (mu'[f] = j <=> mu[f] = j) /\ (mu[f] = j => j # i)
      BY <1>1, <1>2, <1>7, <2>4 DEF HeldInCall
    <3>3. PICK w : w = Was(f, l)
      OBVIOUS
    <3> QED BY <1>0, <1>1, <1>7, <2>1, <2>2, <3>1, <3>2, <3>3 DEF Valued, Label, Family
  <2> QED BY <2>3, <2>4
<1>17. Valued'
  BY <1>16 DEF Valued
<1>18. Gauged'
  <2>1. CASE fi = "active"
    <3>1. (call[i] = 1 /\ a = 1) \/ (call[i] = 4 /\ a = -1)
      <4>1. call[i] \in {1, 4}
        BY <1>2, <1>3, <2>1, CallsAre DEF Family
      <4>2. a \in Calls[call[i]].amounts
        BY <1>0, <1>1, <1>2 DEF InCall
      <4> QED BY <4>1, <4>2, CallsAre
    <3>2. li = NoLabels
      BY <1>2, <2>1 DEF Label
    <3>3. was = Cardinality(InFlight)
      BY <1>1, <1>2, <2>1, <3>2 DEF Gauged
    <3>4. Was("active", NoLabels)' = was + a
      BY <1>5, <1>6, <2>1, <3>2 DEF Was, WithCall
    <3>5. Cardinality(InFlight)' = was + a
      <4>1. Cardinality(InFlight) \in Int
        BY InFlightBounded
      <4> QED BY <1>0, <1>1, <1>3, <3>1, <3>3, <4>1, InFlightCounted
    <3> QED BY <3>4, <3>5 DEF Gauged
  <2>2. CASE fi # "active"
    <3>1. call[i] \in {2, 3}
      BY <1>2, <1>3, <2>2, CallsAre DEF Family
    <3>2. Cardinality(InFlight)' = Cardinality(InFlight)
      BY <1>0, <1>1, <1>3, <3>1, InFlightCounted
    <3>3. Was("active", NoLabels)' = Was("active", NoLabels)
      BY <1>6, <2>2 DEF Was, Last, Families
    <3> QED BY <1>1, <3>2, <3>3 DEF Gauged
  <2> QED BY <2>1, <2>2
<1> QED BY <1>9, <1>10, <1>12, <1>13, <1>15, <1>17, <1>18 DEF CallInv

\* A call, step by step.
LEMMA RequestKeepsCalls ==
  ASSUME CallInv, NEW i \in Requests, Request(i)
  PROVE  CallInv'
<1>1. /\ Types /\ MomentsInv /\ InCall(i) /\ Valued
  BY DEF CallInv
<1>2. ASSUME at[i] \in {"found", "counted", "summed"}, held[i] # 0
      PROVE  /\ Held(i) \in Series /\ Family(i) \in Families
             /\ Was(Family(i), Label(i)) \in Shown(Family(i)) /\ amount[i] \in Int
             /\ Family(i) = "duration" => amount[i] \in Nat
             /\ Progress(Family(i), Held(i), Was(Family(i), Label(i)), at[i], amount[i])
  <2>1. PICK f, l : f = Family(i) /\ l = Label(i)
    OBVIOUS
  <2>2. /\ f \in Families /\ l \in Labels /\ amount[i] \in Int
        /\ f = "duration" => amount[i] \in Nat
        /\ mu[f] = i /\ held[i] = series[f][l]
    BY <1>1, <1>2, <2>1, OfItsKind DEF InCall
  <2>3. Held(i) \in Series
    BY <1>1, <1>2 DEF Held, Types
  <2>4. Was(f, l) \in Shown(f)
    BY <1>1, <2>2, WasShown
  <2>5. Progress(f, Held(i), Was(f, l), at[i], amount[i])
    BY <1>1, <1>2, <2>1, <2>2 DEF Valued, Held
  <2> QED BY <2>1, <2>2, <2>3, <2>4, <2>5
<1>3. CASE Add(i)
  <2>1. /\ at[i] = "found" /\ held[i] # 0 /\ Family(i) # "duration"
        /\ at' = [at EXCEPT ![i] = "updated"]
    BY <1>3 DEF Add, Step
  <2>2. PICK s, f, was, a :
          /\ s = Held(i) /\ f = Family(i) /\ was = Was(Family(i), Label(i)) /\ a = amount[i]
    OBVIOUS
  <2>3. PICK t : t = [s EXCEPT !.value = @ + a]
    OBVIOUS
  <2>4. t \in Series /\ Progress(f, t, was, "updated", a)
    BY <1>2, <2>1, <2>2, <2>3, Added
  <2>5. Update(i, t)
    BY <1>3, <2>2, <2>3 DEF Add
  <2> QED BY <2>1, <2>2, <2>4, <2>5, WriteKeepsCalls
<1>4. CASE ObserveCount(i)
  <2>1. /\ at[i] = "found" /\ held[i] # 0 /\ Family(i) = "duration"
        /\ at' = [at EXCEPT ![i] = "counted"]
    BY <1>4 DEF ObserveCount, Step
  <2>2. PICK s, was, a : s = Held(i) /\ was = Was(Family(i), Label(i)) /\ a = amount[i]
    OBVIOUS
  <2>3. PICK t : t = [s EXCEPT !.count = @ + 1]
    OBVIOUS
  <2>4. t \in Series /\ Progress("duration", t, was, "counted", a)
    BY <1>2, <2>1, <2>2, <2>3, Counted
  <2>5. Update(i, t)
    BY <1>4, <2>2, <2>3 DEF ObserveCount
  <2> QED BY <2>1, <2>2, <2>4, <2>5, WriteKeepsCalls
<1>5. CASE ObserveSum(i)
  <2>1. /\ at[i] = "counted" /\ held[i] # 0 /\ Family(i) = "duration"
        /\ at' = [at EXCEPT ![i] = "summed"]
    BY <1>1, <1>5 DEF ObserveSum, Step, InCall
  <2>2. PICK s, was, a : s = Held(i) /\ was = Was(Family(i), Label(i)) /\ a = amount[i]
    OBVIOUS
  <2>3. PICK t : t = [s EXCEPT !.sum = @ + a]
    OBVIOUS
  <2>4. t \in Series /\ Progress("duration", t, was, "summed", a)
    BY <1>2, <2>1, <2>2, <2>3, Summed
  <2>5. Update(i, t)
    BY <1>5, <2>2, <2>3 DEF ObserveSum
  <2> QED BY <2>1, <2>2, <2>4, <2>5, WriteKeepsCalls
<1>6. CASE ObserveBucket(i)
  <2>1. /\ at[i] = "summed" /\ held[i] # 0 /\ Family(i) = "duration"
        /\ at' = [at EXCEPT ![i] = "updated"]
    BY <1>1, <1>6 DEF ObserveBucket, Step, InCall
  <2>2. PICK s, was, a : s = Held(i) /\ was = Was(Family(i), Label(i)) /\ a = amount[i]
    OBVIOUS
  <2>3. PICK b : b = SearchFloat64s(a)
    OBVIOUS
  <2>4. PICK t : t = IF b \in DOMAIN Bounds THEN [s EXCEPT !.buckets[b] = @ + 1] ELSE s
    OBVIOUS
  <2>5. t \in Series /\ Progress("duration", t, was, "updated", a)
    BY <1>2, <2>1, <2>2, <2>3, <2>4, Bucketed
  <2>6. Update(i, t)
    BY <1>6, <2>2, <2>3, <2>4 DEF ObserveBucket
  <2> QED BY <2>1, <2>2, <2>5, <2>6, WriteKeepsCalls
<1> QED BY <1>3, <1>4, <1>5, <1>6, LockKeepsCalls, LookupKeepsCalls, MakeKeepsCalls,
            UnlockKeepsCalls DEF Request

----------------------------------------------------------------------------
(* The scrapes.                                                            *)

\* Once no request holds the mutex, every series is written as the last moment shows it.
LEMMA WrittenAsLast ==
  ASSUME CallInv, NEW f \in Families, mu[f] \notin Requests
  PROVE  /\ {l \in Labels : series[f][l] # 0} = DOMAIN Last(f)
         /\ \A l \in DOMAIN Last(f) : Written(f, heap[series[f][l]]) = Last(f)[l]
<1>1. Types /\ MomentsInv /\ Made /\ Valued
  BY DEF CallInv
<1>2. /\ Last(f) \in [DOMAIN Last(f) -> Shown(f)] /\ DOMAIN Last(f) \subseteq Labels
  BY <1>1, WasShown
<1>3. {l \in Labels : series[f][l] # 0} = DOMAIN Last(f)
  BY <1>1, <1>2 DEF Made, Making
<1>4. ASSUME NEW l \in DOMAIN Last(f)
      PROVE  Written(f, heap[series[f][l]]) = Last(f)[l]
  <2>1. PICK s, was : s = heap[series[f][l]] /\ was = Last(f)[l]
    OBVIOUS
  <2>2. l \in Labels /\ series[f][l] # 0 /\ was = Was(f, l) /\ was \in Shown(f)
    BY <1>2, <1>3, <1>4, <2>1 DEF Was
  <2>3. s \in Series
    BY <1>1, <2>1, <2>2 DEF Types
  <2>4. Progress(f, s, was, "out", 0)
    BY <1>1, <2>1, <2>2 DEF Valued
  <2> QED BY <2>1, <2>2, <2>3, <2>4, WrittenAsShown
<1> QED BY <1>3, <1>4

\* The families that a scrape has not rendered yet.
LEMMA PendingAre ==
  /\ FamiliesIn(<<>>) = {} /\ FamiliesIn(<<"active">>) = {"active"}
  /\ FamiliesIn(<<"duration", "active">>) = {"duration", "active"}
  /\ FamiliesIn(Registered) = Families
<1>1. DOMAIN <<>> = {} /\ DOMAIN <<"active">> = {1} /\ DOMAIN <<"duration", "active">> = {1, 2}
      /\ DOMAIN Registered = {1, 2, 3}
  BY DEF Registered
<1>2. Registered[1] = "requests" /\ Registered[2] = "duration" /\ Registered[3] = "active"
  BY DEF Registered
<1>3. FamiliesIn(Registered) = Families
  BY <1>1, <1>2 DEF FamiliesIn, Families
<1> QED BY <1>1, <1>3 DEF FamiliesIn

\* Rendering goes from each of them to the next.
LEMMA NextPending ==
  ASSUME NEW t \in Pending, t # <<>>
  PROVE  /\ Head(t) \in Families /\ Head(t) \in FamiliesIn(t) /\ Tail(t) \in Pending
         /\ FamiliesIn(Tail(t)) = FamiliesIn(t) \ {Head(t)}
<1>1. CASE t = <<"active">>
  <2>1. Head(t) = "active" /\ Tail(t) = <<>>
    BY <1>1
  <2> QED BY <1>1, <2>1, PendingAre DEF Pending, Families
<1>2. CASE t = <<"duration", "active">>
  <2>1. Head(t) = "duration" /\ Tail(t) = <<"active">>
    BY <1>2
  <2> QED BY <1>2, <2>1, PendingAre DEF Pending, Families
<1>3. CASE t = Registered
  <2>1. Head(t) = "requests" /\ Tail(t) = <<"duration", "active">>
    BY <1>3 DEF Registered
  <2> QED BY <1>3, <2>1, PendingAre DEF Pending, Families
<1> QED BY <1>1, <1>2, <1>3 DEF Pending

\* Before the first scrape no mutex is the scrape's.
LEMMA InitScrape ==
  ASSUME Init PROVE ScrapeInv
<1>1. /\ todo = <<>> /\ scrapes = 0 /\ \A f \in Families : mu[f] # Scraper
      /\ DOMAIN page = Families /\ DOMAIN known = Families
      /\ \A f \in Families : known[f] = 1
  BY MetricsAssumption DEF Init
<1>2. ASSUME NEW f \in Families PROVE Scraped(f)
  <2>1. MomentsInv
    BY InitCalls DEF CallInv
  <2>2. 1 \in 1..Len(moments[f])
    BY <2>1 DEF MomentsInv
  <2> QED BY <1>1, <2>2, PendingAre DEF Scraped
<1> QED BY <1>1, <1>2 DEF ScrapeInv, Pending

\* A call leaves a family alone whose mutex the scrape holds, and takes nothing back.
LEMMA RequestKeepsScrape ==
  ASSUME CallInv, ScrapeInv, NEW i \in Requests, Request(i)
  PROVE  ScrapeInv'
<1>0. UNCHANGED <<todo, lines, page, known, scrapes>>
  BY DEF Request, Lock, Lookup, Make, Add, ObserveCount, ObserveSum, ObserveBucket, Unlock,
         Update, scrapeVars
<1>1. Types /\ MomentsInv /\ InCall(i) /\ CallInv'
  BY RequestKeepsCalls DEF CallInv
<1>2. PICK fi : fi = Family(i)
  OBVIOUS
<1>3. ASSUME NEW f \in Families
      PROVE  /\ mu'[f] = Scraper <=> mu[f] = Scraper
             /\ mu[f] = Scraper => moments'[f] = moments[f]
             /\ Len(moments[f]) \in Nat /\ Len(moments'[f]) \in Nat
             /\ Len(moments[f]) <= Len(moments'[f])
             /\ \A n \in 1..Len(moments[f]) : moments'[f][n] = moments[f][n]
  <2>1. moments[f] \in Seq(MomentsOf(f))
    BY <1>1 DEF MomentsInv
  <2>2. CASE Lock(i)
    BY <1>1, <1>2, <2>1, <2>2, MetricsAssumption DEF Lock, Free, Types
  <2>3. CASE Unlock(i)
    <3>1. /\ mu' = [mu EXCEPT ![fi] = Nobody] /\ mu[fi] = i
      BY <1>1, <1>2, <2>3 DEF Unlock, Step, InCall
    <3>2. PICK m : moments' = [moments EXCEPT ![fi] = Append(@, m)]
      BY <1>2, <2>3 DEF Unlock
    <3>3. mu'[f] = Scraper <=> mu[f] = Scraper
      BY <1>1, <3>1, MetricsAssumption DEF Types
    <3>4. DOMAIN moments = Families
      BY <1>1 DEF MomentsInv
    <3>5. CASE f = fi
      <4>1. moments'[f] = Append(moments[f], m)
        BY <3>2, <3>4, <3>5
      <4> QED BY <2>1, <3>1, <3>3, <3>5, <4>1, MetricsAssumption
    <3>6. CASE f # fi
      BY <2>1, <3>2, <3>3, <3>4, <3>6
    <3> QED BY <3>5, <3>6
  <2>4. CASE Lookup(i) \/ Make(i) \/ Add(i) \/ ObserveCount(i) \/ ObserveSum(i) \/ ObserveBucket(i)
    <3>1. UNCHANGED <<mu, moments>>
      BY <2>4 DEF Lookup, Make, Add, ObserveCount, ObserveSum, ObserveBucket, Update
    <3> QED BY <2>1, <3>1
  <2> QED BY <2>2, <2>3, <2>4 DEF Request
<1>4. ASSUME NEW f \in Families PROVE Scraped(f)'
  <2>1. Scraped(f)
    BY DEF ScrapeInv
  <2>2. known'[f] \in 1..Len(moments'[f])
    BY <1>0, <1>3, <2>1 DEF Scraped
  <2>3. ASSUME mu'[f] = Scraper
        PROVE  /\ todo' # <<>> /\ Head(todo') = f
               /\ lines' \subseteq DOMAIN Last(f)'
               /\ page'[f] = [l \in DOMAIN Last(f)' \ lines' |-> Last(f)'[l]]
    <3>1. mu[f] = Scraper /\ Last(f)' = Last(f)
      BY <1>3, <2>3 DEF Last
    <3> QED BY <1>0, <2>1, <3>1 DEF Scraped
  <2>4. mu'[f] # Scraper /\ f \in FamiliesIn(todo') => page'[f] = NoSeries
    BY <1>0, <1>3, <2>1 DEF Scraped
  <2>5. scrapes' > 0 /\ f \notin FamiliesIn(todo') => AtOneMoment(f)'
    BY <1>0, <1>3, <2>1 DEF Scraped, AtOneMoment
  <2> QED BY <2>2, <2>3, <2>4, <2>5 DEF Scraped
<1> QED BY <1>0, <1>4 DEF ScrapeInv

\* A scrape begins: nothing is written yet, and the calls so far are known.
LEMMA StartKeepsScrape ==
  ASSUME CallInv, ScrapeInv, StartScrape
  PROVE  ScrapeInv'
<1>0. /\ todo = <<>> /\ todo' = Registered /\ page' = [f \in Families |-> NoSeries]
      /\ known' = [f \in Families |-> Len(moments[f])] /\ scrapes' = scrapes + 1
      /\ UNCHANGED <<mu, moments, lines>>
  BY DEF StartScrape
<1>1. ASSUME NEW f \in Families PROVE Scraped(f)'
  <2>1. mu[f] # Scraper
    BY <1>0 DEF ScrapeInv, Scraped
  <2>2. known'[f] \in 1..Len(moments'[f])
    <3>1. moments[f] \in Seq(MomentsOf(f)) /\ moments[f] # <<>>
      BY DEF CallInv, MomentsInv
    <3> QED BY <1>0, <3>1
  <2>3. f \in FamiliesIn(todo') /\ page'[f] = NoSeries
    BY <1>0, PendingAre
  <2> QED BY <1>0, <2>1, <2>2, <2>3 DEF Scraped
<1> QED BY <1>0, <1>1 DEF ScrapeInv, Pending

\* The scrape takes the mutex of the next family; its series are those of the last moment.
LEMMA LockFamilyKeepsScrape ==
  ASSUME CallInv, ScrapeInv, LockFamily
  PROVE  ScrapeInv'
<1>0. UNCHANGED <<moments, todo, page, known, scrapes>> /\ todo # <<>>
  BY DEF LockFamily
<1>1. PICK g : g = Head(todo)
  OBVIOUS
<1>2. /\ g \in Families /\ g \in FamiliesIn(todo)
  BY <1>0, <1>1, NextPending DEF ScrapeInv
<1>3. /\ mu[g] = Nobody /\ mu' = [mu EXCEPT ![g] = Scraper]
      /\ lines' = {l \in DOMAIN series[g] : series[g][l] # 0}
  BY <1>1 DEF LockFamily, MayRender
<1>4. lines' = DOMAIN Last(g)
  <2>1. DOMAIN series[g] = Labels
    BY <1>2 DEF CallInv, Types
  <2>2. {l \in Labels : series[g][l] # 0} = DOMAIN Last(g)
    BY <1>2, <1>3, MetricsAssumption, WrittenAsLast
  <2> QED BY <1>3, <2>1, <2>2
<1>5. mu'[g] = Scraper /\ \A f \in Families : f # g => mu'[f] = mu[f]
  BY <1>2, <1>3 DEF CallInv, Types
<1>6. ASSUME NEW f \in Families PROVE Scraped(f)'
  <2>1. Scraped(f)
    BY DEF ScrapeInv
  <2>2. Last(f)' = Last(f) /\ (AtOneMoment(f) => AtOneMoment(f)')
    BY <1>0 DEF Last, AtOneMoment
  <2>3. CASE f = g
    <3>1. page'[f] = NoSeries
      BY <1>0, <1>2, <1>3, <2>1, <2>3, MetricsAssumption DEF Scraped
    <3>2. page'[f] = [l \in DOMAIN Last(f)' \ lines' |-> Last(f)'[l]]
      <4>1. PICK m : m = Last(f)
        OBVIOUS
      <4>2. NoSeries = [l \in DOMAIN m \ lines' |-> m[l]]
        BY <1>4, <2>3, <4>1 DEF NoSeries
      <4> QED BY <2>2, <3>1, <4>1, <4>2
    <3> QED BY <1>0, <1>1, <1>2, <1>4, <1>5, <2>1, <2>2, <2>3, <3>2 DEF Scraped
  <2>4. CASE f # g
    <3>1. mu[f] # Scraper
      BY <1>1, <2>1, <2>4 DEF Scraped
    <3> QED BY <1>0, <1>5, <2>1, <2>2, <2>4, <3>1 DEF Scraped
  <2> QED BY <2>3, <2>4
<1> QED BY <1>0, <1>6 DEF ScrapeInv

\* It writes one more series as the last moment shows it.
LEMMA WriteKeepsScrape ==
  ASSUME CallInv, ScrapeInv, WriteSeries
  PROVE  ScrapeInv'
<1>0. UNCHANGED <<mu, moments, todo, known, scrapes>>
  BY DEF WriteSeries
<1>1. PICK g \in Families, k \in lines :
        /\ Rendering(g) /\ lines' = lines \ {k}
        /\ page' = [page EXCEPT ![g] = [l \in DOMAIN @ \cup {k} |->
                      IF l = k THEN Written(g, heap[series[g][k]]) ELSE @[l]]]
  BY DEF WriteSeries
<1>2. todo # <<>> /\ Head(todo) = g /\ mu[g] = Scraper
  BY <1>1 DEF Rendering
<1>3. PICK m, w : m = Last(g) /\ w = Written(g, heap[series[g][k]])
  OBVIOUS
<1>4. lines \subseteq DOMAIN m /\ page[g] = [l \in DOMAIN m \ lines |-> m[l]]
  BY <1>2, <1>3 DEF ScrapeInv, Scraped
<1>5. w = m[k]
  <2>1. mu[g] \notin Requests /\ k \in DOMAIN Last(g)
    BY <1>2, <1>3, <1>4, MetricsAssumption
  <2> QED BY <1>3, <2>1, WrittenAsLast
<1>6. page'[g] = [l \in DOMAIN m \ lines' |-> m[l]]
  <2>1. page'[g] = [l \in DOMAIN page[g] \cup {k} |-> IF l = k THEN w ELSE page[g][l]]
    BY <1>1, <1>3 DEF ScrapeInv
  <2>2. DOMAIN page[g] \cup {k} = DOMAIN m \ lines'
    BY <1>1, <1>4
  <2>3. \A l \in DOMAIN m \ lines' : (IF l = k THEN w ELSE page[g][l]) = m[l]
    BY <1>1, <1>4, <1>5
  <2> QED BY <2>1, <2>2, <2>3
<1>7. DOMAIN page' = Families /\ \A f \in Families : f # g => page'[f] = page[f]
  BY <1>1 DEF ScrapeInv
<1>8. ASSUME NEW f \in Families PROVE Scraped(f)'
  <2>1. Scraped(f)
    BY DEF ScrapeInv
  <2>2. Last(f)' = Last(f)
    BY <1>0 DEF Last
  <2>3. CASE f = g
    <3>1. f \in FamiliesIn(todo)
      BY <1>2, <2>3, NextPending DEF ScrapeInv
    <3>2. Last(f)' = m
      BY <1>3, <2>2, <2>3
    <3> QED BY <1>0, <1>1, <1>2, <1>4, <1>6, <2>1, <2>3, <3>1, <3>2 DEF Scraped
  <2>4. CASE f # g
    <3>1. mu'[f] # Scraper
      BY <1>0, <1>2, <2>1, <2>4 DEF Scraped
    <3>2. AtOneMoment(f) => AtOneMoment(f)'
      BY <1>0, <1>7, <2>4 DEF AtOneMoment
    <3> QED BY <1>0, <1>7, <2>1, <2>4, <3>1, <3>2 DEF Scraped
  <2> QED BY <2>3, <2>4
<1> QED BY <1>0, <1>7, <1>8 DEF ScrapeInv

\* It releases the mutex: what it has written of the family is the last moment.
LEMMA UnlockFamilyKeepsScrape ==
  ASSUME CallInv, ScrapeInv, UnlockFamily
  PROVE  ScrapeInv'
<1>0. UNCHANGED <<moments, lines, page, known, scrapes>>
  BY DEF UnlockFamily
<1>1. PICK g \in Families :
        /\ Rendering(g) /\ lines = {}
        /\ mu' = [mu EXCEPT ![g] = Nobody] /\ todo' = Tail(todo)
  BY DEF UnlockFamily
<1>2. todo # <<>> /\ Head(todo) = g /\ mu[g] = Scraper
  BY <1>1 DEF Rendering
<1>3. todo' \in Pending /\ FamiliesIn(todo') = FamiliesIn(todo) \ {g}
  BY <1>1, <1>2, NextPending DEF ScrapeInv
<1>4. page[g] = Last(g)
  <2>1. PICK m : m = Last(g)
    OBVIOUS
  <2>2. page[g] = [l \in DOMAIN m \ {} |-> m[l]]
    BY <1>1, <1>2, <2>1 DEF ScrapeInv, Scraped
  <2>3. m \in [DOMAIN m -> Shown(g)]
    BY <2>1, WasShown DEF CallInv
  <2> QED BY <2>1, <2>2, <2>3
<1>5. mu'[g] = Nobody /\ \A f \in Families : f # g => mu'[f] = mu[f]
  BY <1>1 DEF CallInv, Types
<1>6. ASSUME NEW f \in Families PROVE Scraped(f)'
  <2>1. Scraped(f)
    BY DEF ScrapeInv
  <2>2. CASE f = g
    <3>1. Len(moments[f]) \in known[f]..Len(moments[f])
      <4>1. moments[f] \in Seq(MomentsOf(f))
        BY DEF CallInv, MomentsInv
      <4> QED BY <2>1, <4>1 DEF Scraped
    <3>2. AtOneMoment(f)'
      BY <1>0, <1>4, <2>2, <3>1 DEF AtOneMoment, Last
    <3> QED BY <1>0, <1>3, <1>5, <2>1, <2>2, <3>2, MetricsAssumption DEF Scraped
  <2>3. CASE f # g
    <3>1. mu'[f] # Scraper
      BY <1>2, <1>5, <2>1, <2>3 DEF Scraped
    <3>2. AtOneMoment(f) => AtOneMoment(f)'
      BY <1>0 DEF AtOneMoment
    <3> QED BY <1>0, <1>3, <1>5, <2>1, <2>3, <3>1, <3>2 DEF Scraped
  <2> QED BY <2>2, <2>3
<1>7. scrapes' # 0
  BY <1>0, <1>2 DEF ScrapeInv
<1> QED BY <1>0, <1>3, <1>6, <1>7 DEF ScrapeInv

----------------------------------------------------------------------------
(* The theorems.                                                           *)

\* Every step keeps the invariant.
THEOREM Invariant == Spec => []Inv
<1>1. Init => Inv
  BY InitCalls, InitScrape DEF Inv
<1>2. Inv /\ [Next]_vars => Inv'
  <2>. SUFFICES ASSUME Inv, [Next]_vars PROVE Inv'
    OBVIOUS
  <2>1. CASE \E i \in Requests : Request(i)
    BY <2>1, RequestKeepsCalls, RequestKeepsScrape DEF Inv
  <2>2. CASE StartScrape
    <3>1. UNCHANGED <<mu, series, heap, requestVars, moments>>
      BY <2>2 DEF StartScrape
    <3>2. CallInv'
      BY <3>1, ScrapeKeepsCalls DEF Inv, CallInv, Types
    <3> QED BY <2>2, <3>2, StartKeepsScrape DEF Inv
  <2>3. CASE LockFamily
    <3>1. PICK f : f = Head(todo)
      OBVIOUS
    <3>2. /\ f \in Families /\ mu[f] = Nobody /\ mu' = [mu EXCEPT ![f] = Scraper]
          /\ UNCHANGED <<series, heap, requestVars, moments>>
      BY <2>3, <3>1, NextPending DEF LockFamily, MayRender, Inv, ScrapeInv
    <3>3. mu \in [Families -> Requests \cup {Scraper, Nobody}]
      BY DEF Inv, CallInv, Types
    <3>4. CallInv'
      BY <3>2, <3>3, ScrapeKeepsCalls DEF Inv
    <3> QED BY <2>3, <3>4, LockFamilyKeepsScrape DEF Inv
  <2>4. CASE WriteSeries
    <3>1. UNCHANGED <<mu, series, heap, requestVars, moments>>
      BY <2>4 DEF WriteSeries
    <3>2. CallInv'
      BY <3>1, ScrapeKeepsCalls DEF Inv, CallInv, Types
    <3> QED BY <2>4, <3>2, WriteKeepsScrape DEF Inv
  <2>5. CASE UnlockFamily
    <3>1. PICK f \in Families :
            /\ mu[f] = Scraper /\ mu' = [mu EXCEPT ![f] = Nobody]
            /\ UNCHANGED <<series, heap, requestVars, moments>>
      BY <2>5 DEF UnlockFamily, Rendering
    <3>2. mu \in [Families -> Requests \cup {Scraper, Nobody}]
      BY DEF Inv, CallInv, Types
    <3>3. CallInv'
      BY <3>1, <3>2, ScrapeKeepsCalls DEF Inv
    <3> QED BY <2>5, <3>3, UnlockFamilyKeepsScrape DEF Inv
  <2>6. CASE UNCHANGED vars
    <3>1. UNCHANGED <<mu, series, heap, requestVars, moments>>
      BY <2>6 DEF vars
    <3>2. UNCHANGED <<mu, moments, todo, lines, page, known, scrapes>>
      BY <2>6 DEF vars, scrapeVars
    <3>3. CallInv'
      BY <3>1, ScrapeKeepsCalls DEF Inv, CallInv, Types
    <3>4. ASSUME NEW f \in Families PROVE Scraped(f)'
      BY <3>2 DEF Inv, ScrapeInv, Scraped, AtOneMoment, Last
    <3> QED BY <3>2, <3>3, <3>4 DEF Inv, ScrapeInv
  <2> QED BY <2>1, <2>2, <2>3, <2>4, <2>5, <2>6 DEF Next
<1> QED BY <1>1, <1>2, PTL DEF Spec

\* Every variable keeps its type, and the gauge stays between zero and the number of
\* requests, in the middle of a call to it too.
THEOREM TypeCorrect == Spec => []TypeOK
<1>1. Inv => TypeOK
  <2>. SUFFICES ASSUME Inv PROVE TypeOK
    OBVIOUS
  <2>1. /\ Types /\ MomentsInv /\ Valued /\ Gauged /\ HeldInCall
        /\ \A i \in Requests : InCall(i)
    BY DEF Inv, CallInv
  <2>2. \A n \in DOMAIN heap : heap[n].count \in Nat /\ heap[n].sum \in Nat
    <3>1. \A n \in DOMAIN heap : heap[n] \in Series
      BY <2>1 DEF Types
    <3> QED BY <3>1 DEF Series
  <2>3. ASSUME series["active"][NoLabels] # 0
        PROVE  heap[series["active"][NoLabels]].value \in 0..Cardinality(Requests)
    <3>1. PICK s, was : s = heap[series["active"][NoLabels]] /\ was = Was("active", NoLabels)
      OBVIOUS
    <3>2. was = Cardinality(InFlight)
      BY <2>1, <3>1 DEF Gauged
    <3>3. "active" \in Families /\ NoLabels \in Labels
      BY DEF Families, Labels
    <3>4. CASE \E i \in Requests : mu["active"] = i
      <4>1. PICK i \in Requests : mu["active"] = i
        BY <3>4
      <4>2. at[i] # "out" /\ Family(i) = "active" /\ Label(i) = NoLabels
        BY <2>1, <3>3, <4>1 DEF HeldInCall, Label
      <4>3. call[i] \in {1, 4} /\ amount[i] \in Calls[call[i]].amounts
        BY <2>1, <4>2, CallsAre DEF InCall, Family
      <4>4. (call[i] = 1 /\ amount[i] = 1) \/ (call[i] = 4 /\ amount[i] = -1)
        BY <4>3, CallsAre
      <4>5. s.value = was + (IF at[i] = "updated" THEN amount[i] ELSE 0)
        <5>1. Progress("active", s, was, at[i], amount[i])
          BY <2>1, <2>3, <3>1, <3>3, <4>1, <4>2 DEF Valued
        <5> QED BY <5>1 DEF Progress
      <4>6. Cardinality(Requests) \in Nat
        BY MetricsAssumption, FS_CardinalityType
      <4> QED BY <3>1, <3>2, <4>4, <4>5, <4>6, InFlightBounded
    <3>5. CASE ~\E i \in Requests : mu["active"] = i
      <4>1. Progress("active", s, was, "out", 0)
        BY <2>1, <2>3, <3>1, <3>3, <3>5 DEF Valued
      <4>2. was \in 0..Cardinality(Requests)
        <5>1. IsFiniteSet(Requests) /\ InFlight \subseteq Requests
          BY MetricsAssumption DEF InFlight
        <5> QED BY <3>2, <5>1, FS_Subset, FS_CardinalityType
      <4> QED BY <3>1, <4>1, <4>2 DEF Progress
    <3> QED BY <3>4, <3>5
  <2> QED BY <2>1, <2>2, <2>3, CallsAre DEF TypeOK, Types
<1> QED BY Invariant, <1>1, PTL

\* Whatever the requests and their interleaving: while nobody is in a family, it is
\* written as if every call that has returned had taken effect in one step.
THEOREM NoUpdateLostHolds == Spec => []NoUpdateLost
<1>1. Inv => NoUpdateLost
  <2>. SUFFICES ASSUME Inv, NEW f \in Families, mu[f] = Nobody
                PROVE  [l \in {k \in Labels : series[f][k] # 0} |->
                          Written(f, heap[series[f][l]])] = Last(f)
    BY DEF NoUpdateLost
  <2>1. PICK m : m = Last(f)
    OBVIOUS
  <2>2. /\ {k \in Labels : series[f][k] # 0} = DOMAIN m
        /\ \A l \in DOMAIN m : Written(f, heap[series[f][l]]) = m[l]
    BY <2>1, MetricsAssumption, WrittenAsLast DEF Inv
  <2>3. m \in [DOMAIN m -> Shown(f)]
    BY <2>1, WasShown DEF Inv, CallInv
  <2>4. [l \in DOMAIN m |-> Written(f, heap[series[f][l]])] = m
    BY <2>2, <2>3
  <2> QED BY <2>1, <2>2, <2>4
<1> QED BY Invariant, <1>1, PTL

\* Whatever the calls that go on meanwhile, each family of a finished scrape is as it was
\* at one moment, and no earlier than when the scrape began.
THEOREM ScrapedAtOneMomentHolds == Spec => []ScrapedAtOneMoment
<1>1. Inv => ScrapedAtOneMoment
  BY DEF Inv, ScrapeInv, Scraped, FamiliesIn, AtOneMoment, ScrapedAtOneMoment
<1> QED BY Invariant, <1>1, PTL
=============================================================================
