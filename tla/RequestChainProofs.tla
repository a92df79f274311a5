------------------------- MODULE RequestChainProofs -------------------------
(***************************************************************************)
(* Theorems about RequestChain: its type invariant and every invariant     *)
(* that the run "chain" checks, and that it implements GuardedWrites, for  *)
(* any requests, subjects, endpoints, burst and refills.                   *)
(*                                                                         *)
(* The inductive invariant has a part per request: who it is and what it   *)
(* has passed by the step it is at (PathInv), what it has been answered    *)
(* (AnswerInv) and where it has been booked (BookInv); and two parts about *)
(* all of them: the metrics count sets of requests (MetricsInv), and a     *)
(* subject's tokens and the requests it was granted them for do not exceed *)
(* what the limiter has given it (BudgetInv).                              *)
(***************************************************************************)
EXTENDS RequestChain, FiniteSetTheorems, TLAPS

Unanswered == {"idle", "enter", "auth", "route", "read", "limit", "role", "put", "render"}
Answered == {"count", "time", "leave", "log", "done"}
Authed == {"route", "read", "limit", "role", "put", "render"}

TypeInv ==
  /\ pc \in [Requests -> Steps]
  /\ asked \in [Requests -> Endpoints]
  /\ marker \in [Requests -> {"none", "own", "foreign"}]
  /\ flaw \in [Requests -> Flaws]
  /\ outer \in [Requests -> Copies] /\ inner \in [Requests -> Copies]
  /\ status \in [Requests -> Statuses \cup {0}]
  /\ recorded \in [Requests -> Statuses]
  /\ label \in [Requests -> Patterns \cup {Nobody}]
  /\ logged \in [Requests -> Statuses \cup {0}]
  /\ left \in [Subjects -> 0..Burst] /\ refills \in [Subjects -> 0..MaxRefills]
  /\ written \subseteq Requests
  /\ active \in Int /\ counted \in [Statuses -> Nat] /\ timed \in Nat

PathInv(i) ==
  /\ pc[i] \in Authed => Principal(i) \in Subjects
  /\ pc[i] \in Authed \cup {"auth"} /\ Method(i) # "GET" => marker[i] = "own"
  /\ pc[i] = "read" => asked[i] \notin Mutations
  /\ pc[i] \in {"limit", "role", "put", "render"} => Method(i) = "PUT" /\ asked[i] \in Mutations
  /\ pc[i] \in {"put", "render"} => Principal(i) \in Admins
  /\ pc[i] = "render" => i \in written
  /\ i \in written =>
       /\ pc[i] \in {"render"} \cup Answered
       /\ Method(i) = "PUT" /\ marker[i] = "own" /\ Principal(i) \in Admins
       /\ asked[i] \in Mutations

AnswerInv(i) ==
  /\ pc[i] \in Unanswered => status[i] = 0 /\ recorded[i] = 200
  /\ pc[i] \in Answered => status[i] = recorded[i]
  /\ status[i] \in 400..499 => i \notin written
  /\ status[i] = 200 /\ asked[i] \in Mutations => i \in written

BookInv(i) ==
  /\ pc[i] \in Unanswered \cup {"count"} => label[i] = Nobody
  /\ pc[i] \in {"time", "leave"} => label[i] # Nobody
  /\ logged[i] # 0 => pc[i] = "done" /\ logged[i] = status[i]

\* The requests that the gauge, the counter of status n and the histogram count.
Inside    == {i \in Requests : pc[i] \notin {"idle", "enter", "log", "done"}}
Booked(n) == {i \in Requests : label[i] # Nobody /\ status[i] = n}
Timed     == {i \in Requests : label[i] # Nobody /\ pc[i] # "time"}

MetricsInv ==
  /\ active = Cardinality(Inside)
  /\ timed = Cardinality(Timed)
  /\ \A n \in Statuses : counted[n] = Cardinality(Booked(n))

\* The requests of s for which the limiter has given up a token.
Granted(s) == {i \in Requests : Principal(i) = s /\ (pc[i] \in {"role", "put", "render"} \/ i \in written)}
BudgetInv == \A s \in Subjects : left[s] + Cardinality(Granted(s)) <= Burst + refills[s]

Inv ==
  /\ TypeInv
  /\ \A i \in Requests : PathInv(i) /\ AnswerInv(i) /\ BookInv(i)
  /\ MetricsInv
  /\ BudgetInv

----------------------------------------------------------------------------
(* The muxes and the handlers' refusals.                                   *)

\* A mux answers with a pattern that covers the request, or with none.
LEMMA MatchCovers ==
  ASSUME NEW patterns, NEW i
  PROVE  Match(patterns, i) \in Covering(patterns, i) \cup {NoPattern}
<1>1. CASE {p \in Covering(patterns, i) : p[2] = Path(i)} # {}
  BY <1>1 DEF Match
<1>2. CASE {p \in Covering(patterns, i) : p[2] = Path(i)} = {} /\ Covering(patterns, i) # {}
  BY <1>2 DEF Match
<1>3. CASE {p \in Covering(patterns, i) : p[2] = Path(i)} = {} /\ Covering(patterns, i) = {}
  BY <1>3 DEF Match
<1> QED BY <1>1, <1>2, <1>3

\* A mutation is a PUT on one of two paths.
LEMMA MutationPaths ==
  ASSUME NEW p \in Mutations
  PROVE  p[1] = "PUT" /\ p[2] \in {"/api/config/{key}", "/ui/config/{key}"}
<1>1. CASE p = <<"PUT", "/api/config/{key}">>
  BY <1>1
<1>2. CASE p = <<"PUT", "/ui/config/{key}">>
  BY <1>2
<1> QED BY <1>1, <1>2 DEF Mutations

\* The paths that the root mux knows.
LEMMA RootPaths ==
  ASSUME NEW p \in RootPatterns
  PROVE  p[2] \in {"/healthz", "/readyz", "/metrics", "/static/", "/"}
<1>1. CASE p = <<"GET", "/healthz">>
  BY <1>1
<1>2. CASE p = <<"GET", "/readyz">>
  BY <1>2
<1>3. CASE p = <<"GET", "/metrics">>
  BY <1>3
<1>4. CASE p = <<"any", "/static/">>
  BY <1>4
<1>5. CASE p = <<"any", "/">>
  BY <1>5
<1> QED BY <1>1, <1>2, <1>3, <1>4, <1>5 DEF RootPatterns

\* A pattern with a handler is a mutation's, and then of PUT, or is of GET; only the
\* patterns that pass on to another mux take any method.
LEMMA HandlerPatterns ==
  ASSUME NEW p, p \in UIPatterns \/ (p \in AuthedPatterns /\ p[2] # "/")
  PROVE  p \in Patterns /\ p[1] = IF p \in Mutations THEN "PUT" ELSE "GET"
<1>1. CASE p = <<"GET", "/">>
  BY <1>1 DEF Patterns, UIPatterns, Mutations
<1>2. CASE p = <<"PUT", "/ui/config/{key}">>
  BY <1>2 DEF Patterns, UIPatterns, Mutations
<1>3. CASE p = <<"GET", "/api/me">>
  BY <1>3 DEF Patterns, AuthedPatterns, Mutations
<1>4. CASE p = <<"GET", "/api/version">>
  BY <1>4 DEF Patterns, AuthedPatterns, Mutations
<1>5. CASE p = <<"GET", "/api/config">>
  BY <1>5 DEF Patterns, AuthedPatterns, Mutations
<1>6. CASE p = <<"PUT", "/api/config/{key}">>
  BY <1>6 DEF Patterns, AuthedPatterns, Mutations
<1>7. p # <<"any", "/">> \/ p \in UIPatterns
  OBVIOUS
<1>8. CASE p = <<"any", "/">> /\ p \in UIPatterns
  BY <1>8 DEF UIPatterns
<1> QED BY <1>1, <1>2, <1>3, <1>4, <1>5, <1>6, <1>7, <1>8 DEF AuthedPatterns, UIPatterns

\* What the authed mux and the UI mux route a request to.
LEMMA RoutedTypes ==
  ASSUME NEW i \in Requests
  PROVE  /\ Routed(i) \in Patterns
         /\ Routed(i) \in Mutations => Method(i) = "PUT"
         /\ Routed(i) \notin Mutations \cup {NoPattern} => Method(i) = "GET"
<1>1. Match(AuthedPatterns, i) \in Covering(AuthedPatterns, i) \cup {NoPattern}
  BY MatchCovers
<1>2. Match(UIPatterns, i) \in Covering(UIPatterns, i) \cup {NoPattern}
  BY MatchCovers
<1>3. \/ Routed(i) = NoPattern
      \/ Routed(i) \in Covering(UIPatterns, i)
      \/ Routed(i) \in Covering(AuthedPatterns, i) /\ Routed(i)[2] # "/"
  BY <1>1, <1>2 DEF Routed
<1>4. CASE Routed(i) = NoPattern
  <2>1. NoPattern[1] = ""
    BY DEF NoPattern
  <2>2. NoPattern \notin Mutations
    BY <2>1, MutationPaths
  <2> QED BY <1>4, <2>2 DEF Patterns
<1>5. CASE Routed(i) # NoPattern
  <2>1. Routed(i) \in UIPatterns \/ (Routed(i) \in AuthedPatterns /\ Routed(i)[2] # "/")
    BY <1>3, <1>5 DEF Covering
  <2>2. Routed(i)[1] \in {Method(i), "any"}
    BY <1>3, <1>5 DEF Covering
  <2>3. /\ Routed(i) \in Patterns
        /\ Routed(i)[1] = IF Routed(i) \in Mutations THEN "PUT" ELSE "GET"
    BY <2>1, HandlerPatterns
  <2> QED BY <2>2, <2>3
<1> QED BY <1>4, <1>5

\* What is routed as a mutation was asked for as one.
LEMMA RoutedMutation ==
  ASSUME asked \in [Requests -> Endpoints], NEW i \in Requests, Routed(i) \in Mutations
  PROVE  asked[i] \in Mutations
<1>1. Match(AuthedPatterns, i) \in Covering(AuthedPatterns, i) \cup {NoPattern}
  BY MatchCovers
<1>2. Match(UIPatterns, i) \in Covering(UIPatterns, i) \cup {NoPattern}
  BY MatchCovers
<1>3. NoPattern \notin Mutations
  <2>1. NoPattern[1] = ""
    BY DEF NoPattern
  <2> QED BY <2>1, MutationPaths
<1>4. \E patterns : Routed(i) \in Covering(patterns, i)
  BY <1>1, <1>2, <1>3 DEF Routed
<1>5. Routed(i)[1] \in {asked[i][1], "any"} /\ Routed(i)[2] \in {asked[i][2], "/"}
  BY <1>4 DEF Covering, Method, Path
<1>6. asked[i] \in {"GET", "PUT", "POST"} \X STRING
  BY ChainAssumption
<1>7. asked[i] = <<asked[i][1], asked[i][2]>>
  BY <1>6
<1>8. Routed(i)[1] = "PUT" /\ Routed(i)[2] \in {"/api/config/{key}", "/ui/config/{key}"}
  BY MutationPaths
<1>9. asked[i][1] = "PUT" /\ asked[i][2] \in {"/api/config/{key}", "/ui/config/{key}"}
  BY <1>5, <1>8
<1> QED BY <1>7, <1>9 DEF Mutations

\* The root mux sends every mutation into the chain: no pattern of its own has the
\* mutation's path.
LEMMA RootMatch ==
  ASSUME NEW i \in Requests
  PROVE  /\ Match(RootPatterns, i) \in Patterns
         /\ asked[i] \in Mutations => Match(RootPatterns, i)[2] \in {"/", ""}
<1>1. Match(RootPatterns, i) \in Covering(RootPatterns, i) \cup {NoPattern}
  BY MatchCovers
<1>2. Match(RootPatterns, i) \in Patterns
  BY <1>1 DEF Covering, Patterns
<1>3. ASSUME asked[i] \in Mutations
      PROVE  Match(RootPatterns, i)[2] \in {"/", ""}
  <2>1. CASE Match(RootPatterns, i) = NoPattern
    <3>1. NoPattern[2] = ""
      BY DEF NoPattern
    <3> QED BY <2>1, <3>1
  <2>2. CASE Match(RootPatterns, i) \in Covering(RootPatterns, i)
    <3>1. Match(RootPatterns, i) \in RootPatterns /\ Match(RootPatterns, i)[2] \in {Path(i), "/"}
      BY <2>2 DEF Covering
    <3>2. Path(i) \in {"/api/config/{key}", "/ui/config/{key}"}
      BY <1>3, MutationPaths DEF Path
    <3>3. Match(RootPatterns, i)[2] \in {"/healthz", "/readyz", "/metrics", "/static/", "/"}
      BY <3>1, RootPaths
    <3> QED BY <3>1, <3>2, <3>3
  <2> QED BY <1>1, <2>1, <2>2
<1> QED BY <1>2, <1>3

\* A flaw is refused with a status of the 400s, or not at all.
LEMMA RefusalTypes ==
  ASSUME NEW i \in Requests, NEW f \in Flaws
  PROVE  Refusal(i, f) \in {0, 400, 413, 415}
<1>1. APIRefusal(f) \in {0, 400, 413, 415}
  BY DEF APIRefusal, Flaws
<1>2. PageRefusal(f) \in {0, 400}
  BY DEF PageRefusal
<1> QED BY <1>1, <1>2 DEF Refusal

----------------------------------------------------------------------------
(* One step of one request.                                                *)

Act(i) ==
  \/ Arrive(i) \/ Enter(i) \/ Authenticate(i) \/ Route(i)
  \/ Read(i) \/ Limit(i) \/ CheckRole(i) \/ Put(i) \/ Render(i)
  \/ Count(i) \/ Time(i) \/ Leave(i) \/ Log(i)

\* Put(i) when f is what is wrong with the mutation.
PutWith(i, f) ==
  /\ pc[i] = "put"
  /\ flaw' = [flaw EXCEPT ![i] = f]
  /\ \/ /\ Refusal(i, f) # 0 /\ written' = written
        /\ Step(i, "put", "count") /\ Write(i, Refusal(i, f))
     \/ /\ written' \in {written, written \cup {i}}
        /\ Step(i, "put", "count") /\ Write(i, 500)
     \/ /\ written' = written \cup {i}
        /\ \/ Step(i, "put", "count") /\ Write(i, 200)
           \/ Step(i, "put", "render") /\ Silent
  /\ UNCHANGED <<asked, marker, copyVars, bookVars, limitVars, metricVars>>

Same(j) ==
  /\ pc'[j] = pc[j] /\ asked'[j] = asked[j] /\ marker'[j] = marker[j]
  /\ inner'[j] = inner[j]
  /\ status'[j] = status[j] /\ recorded'[j] = recorded[j]
  /\ label'[j] = label[j] /\ logged'[j] = logged[j]
  /\ j \in written' <=> j \in written

\* A mutation is stored only when nothing is wrong with it.
LEMMA PutCases ==
  ASSUME NEW i, Put(i)
  PROVE  \E f \in Flaws : PutWith(i, f)
BY DEF Put, PutWith, Stored

\* A step of one request leaves the others where they are.
LEMMA OthersSame ==
  ASSUME TypeInv, NEW i \in Requests, NEW j \in Requests, i # j, Act(i)
  PROVE  Same(j)
<1>1. CASE Arrive(i)
  BY <1>1 DEF TypeInv, Arrive, Step, Write, Silent, Same, inputVars, bookVars
<1>2. CASE Enter(i)
  BY <1>2 DEF TypeInv, Enter, Step, Write, Silent, Same, copyVars, bookVars
<1>3. CASE Authenticate(i)
  BY <1>3 DEF TypeInv, Authenticate, Step, Write, Silent, Same, inputVars, bookVars
<1>4. CASE Route(i)
  BY <1>4 DEF TypeInv, Route, Step, Write, Silent, Same, inputVars, bookVars
<1>5. CASE Read(i)
  BY <1>5 DEF TypeInv, Read, Step, Write, WriteBody, Same, inputVars, copyVars, bookVars
<1>6. CASE Limit(i)
  BY <1>6 DEF TypeInv, Limit, Step, Write, Silent, Same, inputVars, copyVars, bookVars
<1>7. CASE CheckRole(i)
  BY <1>7 DEF TypeInv, CheckRole, Step, Write, Silent, Same, inputVars, copyVars, bookVars
<1>8. CASE Put(i)
  <2>1. PICK f \in Flaws : PutWith(i, f)
    BY <1>8, PutCases
  <2>2. j \in written' <=> j \in written
    BY <2>1 DEF PutWith, Stored
  <2> QED BY <2>1, <2>2 DEF TypeInv, PutWith, Step, Write, Silent, Same, copyVars, bookVars
<1>9. CASE Render(i)
  BY <1>9 DEF TypeInv, Render, Step, Write, WriteBody, Same, inputVars, copyVars, bookVars
<1>10. CASE Count(i)
  BY <1>10 DEF TypeInv, Count, Step, Silent, Same, inputVars, copyVars
<1>11. CASE Time(i)
  BY <1>11 DEF TypeInv, Time, Step, Silent, Same, inputVars, copyVars, bookVars
<1>12. CASE Leave(i)
  BY <1>12 DEF TypeInv, Leave, Step, Silent, Same, inputVars, copyVars, bookVars
<1>13. CASE Log(i)
  BY <1>13 DEF TypeInv, Log, Step, Silent, Same, inputVars, copyVars
<1> QED BY <1>1, <1>2, <1>3, <1>4, <1>5, <1>6, <1>7, <1>8, <1>9, <1>10, <1>11, <1>12, <1>13
    DEF Act

\* What holds of a request that did not move still holds.
LEMMA SameKeeps ==
  ASSUME NEW j, PathInv(j), AnswerInv(j), BookInv(j), Same(j)
  PROVE  PathInv(j)' /\ AnswerInv(j)' /\ BookInv(j)'
<1>1. PathInv(j)'
  BY DEF PathInv, Same, Method, Principal
<1>2. AnswerInv(j)'
  BY DEF AnswerInv, Same
<1>3. BookInv(j)'
  BY DEF BookInv, Same
<1> QED BY <1>1, <1>2, <1>3

\* A truth value as a number.
One(b) == IF b THEN 1 ELSE 0

\* The size of a set of requests changes by the one request that enters or leaves it.
LEMMA CountOne ==
  ASSUME NEW S \in SUBSET Requests, NEW T \in SUBSET Requests, NEW i \in Requests,
         \A j \in Requests \ {i} : j \in S <=> j \in T
  PROVE  /\ Cardinality(S) \in Nat /\ Cardinality(T) \in Nat
         /\ Cardinality(T) + One(i \in S) = Cardinality(S) + One(i \in T)
<1>1. IsFiniteSet(S) /\ IsFiniteSet(T)
  BY ChainAssumption, FS_Subset
<1>2. Cardinality(S) \in Nat /\ Cardinality(T) \in Nat
  BY <1>1, FS_CardinalityType
<1>3. CASE i \in S <=> i \in T
  <2>1. S = T
    BY <1>3
  <2> QED BY <1>2, <2>1
<1>4. CASE i \in S /\ i \notin T
  <2>1. T = S \ {i}
    BY <1>4
  <2>2. Cardinality(T) = Cardinality(S) - 1
    BY <1>1, <1>4, <2>1, FS_RemoveElement
  <2> QED BY <1>2, <1>4, <2>2 DEF One
<1>5. CASE i \notin S /\ i \in T
  <2>1. T = S \cup {i}
    BY <1>5
  <2>2. Cardinality(T) = Cardinality(S) + 1
    BY <1>1, <1>5, <2>1, FS_AddElement
  <2> QED BY <1>2, <1>5, <2>2 DEF One
<1> QED BY <1>3, <1>4, <1>5

\* A copy of a request stays one when a pattern or a principal is put into it.
LEMMA CopyTypes ==
  ASSUME NEW c \in Copies
  PROVE  /\ \A p \in Patterns : [c EXCEPT !.pattern = p] \in Copies
         /\ \A s \in Subjects : [c EXCEPT !.principal = s] \in Copies
BY DEF Copies

\* Every step of a request keeps the types.
LEMMA TypeStep ==
  ASSUME TypeInv, NEW i \in Requests, PathInv(i), Act(i)
  PROVE  TypeInv'
<1>0. Match(RootPatterns, i) \in Patterns
  BY RootMatch
<1>. USE DEF TypeInv, Step, Write, WriteBody, Silent, Statuses, Steps
<1>1. CASE Arrive(i)
  <2>1. outer' \in [Requests -> Copies]
    <3>1. [outer[i] EXCEPT !.pattern = Match(RootPatterns, i)] \in Copies
      <4>1. outer[i] \in Copies
        OBVIOUS
      <4> QED BY <1>0, <4>1, CopyTypes
    <3> QED BY <1>1, <3>1 DEF Arrive
  <2> QED BY <1>1, <2>1 DEF Arrive, ReadyzAnswers, StaticAnswers, inputVars, bookVars, limitVars, metricVars
<1>2. CASE Enter(i)
  BY <1>2 DEF Enter, copyVars, bookVars, limitVars
<1>3. CASE Authenticate(i)
  <2>1. inner' \in [Requests -> Copies]
    <3>1. \A s \in Subjects : [outer[i] EXCEPT !.principal = s] \in Copies
      BY CopyTypes
    <3> QED BY <1>3, <3>1 DEF Authenticate
  <2> QED BY <1>3, <2>1 DEF Authenticate, inputVars, bookVars, limitVars, metricVars
<1>4. CASE Route(i)
  <2>1. inner' \in [Requests -> Copies]
    <3>1. [inner[i] EXCEPT !.pattern = Routed(i)] \in Copies
      BY CopyTypes, RoutedTypes
    <3> QED BY <1>4, <3>1 DEF Route
  <2> QED BY <1>4, <2>1 DEF Route, inputVars, bookVars, limitVars, metricVars
<1>5. CASE Read(i)
  BY <1>5 DEF Read, inputVars, copyVars, bookVars, limitVars, metricVars
<1>6. CASE Limit(i)
  <2>1. left' \in [Subjects -> 0..Burst]
    <3>1. Principal(i) \in Subjects
      BY <1>6 DEF Limit, PathInv, Authed
    <3> QED BY <1>6, <3>1, ChainAssumption DEF Limit, Allows, Cost
  <2> QED BY <1>6, <2>1 DEF Limit, inputVars, copyVars, bookVars, metricVars
<1>7. CASE CheckRole(i)
  BY <1>7 DEF CheckRole, AfterRefusal, inputVars, copyVars, bookVars, limitVars, metricVars
<1>8. CASE Put(i)
  <2>1. PICK f \in Flaws : PutWith(i, f)
    BY <1>8, PutCases
  <2>2. Refusal(i, f) # 0 => Refusal(i, f) \in Statuses
    BY RefusalTypes
  <2> QED BY <2>1, <2>2 DEF PutWith, copyVars, bookVars, limitVars, metricVars
<1>9. CASE Render(i)
  BY <1>9 DEF Render, inputVars, copyVars, bookVars, limitVars, metricVars
<1>10. CASE Count(i)
  <2>1. outer[i].pattern \in Patterns
    BY DEF Copies
  <2> QED BY <1>10, <2>1 DEF Count, inputVars, copyVars, limitVars
<1>11. CASE Time(i)
  BY <1>11 DEF Time, inputVars, copyVars, bookVars, limitVars
<1>12. CASE Leave(i)
  BY <1>12 DEF Leave, ActiveAfter, inputVars, copyVars, bookVars, limitVars
<1>13. CASE Log(i)
  BY <1>13 DEF Log, inputVars, copyVars, limitVars, metricVars
<1> QED BY <1>1, <1>2, <1>3, <1>4, <1>5, <1>6, <1>7, <1>8, <1>9, <1>10, <1>11, <1>12, <1>13
    DEF Act

\* What a step of i does to the books and to the budget.
Accounts(i) ==
  /\ active' + One(i \in Inside) = active + One(i \in Inside')
  /\ timed' + One(i \in Timed) = timed + One(i \in Timed')
  /\ \A n \in Statuses :
       counted'[n] + One(i \in Booked(n)) = counted[n] + One(i \in Booked(n)')
  /\ refills' = refills
  /\ \A s \in Subjects :
       left'[s] + One(i \in Granted(s)') <= left[s] + One(i \in Granted(s))

Own(i) == PathInv(i)' /\ AnswerInv(i)' /\ BookInv(i)' /\ Accounts(i)

\* What Arrive does to its request: no mutation is answered outside the chain.
LEMMA ArriveOwn ==
  ASSUME TypeInv, TypeInv', NEW i \in Requests, PathInv(i), AnswerInv(i), BookInv(i), Arrive(i)
  PROVE  Own(i)
<1>. USE DEF TypeInv, Arrive, Step, Write, Silent, ReadyzAnswers, StaticAnswers,
       inputVars, bookVars, limitVars, metricVars
<1>1. PathInv(i)'
  BY DEF PathInv, Method, Principal, Authed, Answered
<1>2. AnswerInv(i)'
  <2>1. CASE asked[i] \in Mutations
    <3>1. Match(RootPatterns, i)[2] \in {"/", ""}
      BY <2>1, RootMatch
    <3>2. pc'[i] = "enter" /\ status'[i] = status[i] /\ recorded'[i] = recorded[i]
      BY <3>1
    <3> QED BY <3>2 DEF AnswerInv, Unanswered, Answered
  <2>2. CASE asked[i] \notin Mutations
    BY <2>2 DEF AnswerInv, Unanswered, Answered, PathInv
  <2> QED BY <2>1, <2>2
<1>3. BookInv(i)'
  BY DEF BookInv, Unanswered
<1>4. Accounts(i)
  BY DEF Accounts, One, Inside, Timed, Booked, Granted, BookInv, Unanswered, Principal
<1> QED BY <1>1, <1>2, <1>3, <1>4 DEF Own

\* What Enter does to its request: only a marked one goes on.
LEMMA EnterOwn ==
  ASSUME TypeInv, TypeInv', NEW i \in Requests, PathInv(i), AnswerInv(i), BookInv(i), Enter(i)
  PROVE  Own(i)
<1>. USE DEF TypeInv, Enter, Step, Write, Silent, copyVars, bookVars, limitVars
<1>1. PathInv(i)'
  BY DEF PathInv, Method, Principal, Authed, Answered
<1>2. AnswerInv(i)'
  BY DEF AnswerInv, Unanswered, Answered, PathInv
<1>3. BookInv(i)'
  BY DEF BookInv, Unanswered, AnswerInv
<1>4. Accounts(i)
  BY DEF Accounts, One, Inside, Timed, Booked, Granted, BookInv, AnswerInv, PathInv, Unanswered, Answered, Authed, Principal
<1> QED BY <1>1, <1>2, <1>3, <1>4 DEF Own

\* What Authenticate does to its request: it goes on with a principal.
LEMMA AuthenticateOwn ==
  ASSUME TypeInv, TypeInv', NEW i \in Requests, PathInv(i), AnswerInv(i), BookInv(i), Authenticate(i)
  PROVE  Own(i)
<1>. USE DEF TypeInv, Authenticate, Step, Write, Silent, inputVars, bookVars, limitVars, metricVars
<1>1. PathInv(i)'
  <2>1. ASSUME NEW s \in Subjects, inner' = [inner EXCEPT ![i] = [outer[i] EXCEPT !.principal = s]]
        PROVE  inner'[i].principal = s
    <3>1. outer[i] \in Copies
      OBVIOUS
    <3>2. [outer[i] EXCEPT !.principal = s].principal = s
      BY <3>1 DEF Copies
    <3> QED BY <2>1, <3>2
  <2> QED BY <2>1 DEF PathInv, Method, Principal, Authed, Answered
<1>2. AnswerInv(i)'
  BY DEF AnswerInv, Unanswered, Answered, PathInv
<1>3. BookInv(i)'
  BY DEF BookInv, Unanswered, AnswerInv
<1>4. Accounts(i)
  BY DEF Accounts, One, Inside, Timed, Booked, Granted, BookInv, AnswerInv, PathInv, Unanswered, Answered, Authed, Principal
<1> QED BY <1>1, <1>2, <1>3, <1>4 DEF Own

\* What Route does to its request: mutations go to the limiter, reads do not.
LEMMA RouteOwn ==
  ASSUME TypeInv, TypeInv', NEW i \in Requests, PathInv(i), AnswerInv(i), BookInv(i), Route(i)
  PROVE  Own(i)
<1>. USE DEF TypeInv, Route, Step, Write, Silent, inputVars, bookVars, limitVars, metricVars
<1>1. PathInv(i)'
  <2>1. inner'[i].principal = inner[i].principal
    BY DEF Copies
  <2>2. CASE Routed(i) \in Mutations
    <3>1. Method(i) = "PUT"
      BY <2>2, RoutedTypes
    <3>2. asked[i] \in Mutations
      BY <2>2, RoutedMutation
    <3> QED BY <2>1, <2>2, <3>1, <3>2 DEF PathInv, Method, Principal, Authed, Answered
  <2>3. CASE Routed(i) \notin Mutations \cup {NoPattern}
    <3>1. Method(i) = "GET"
      BY <2>3, RoutedTypes
    <3>2. asked[i] \notin Mutations
      BY <3>1, MutationPaths DEF Method
    <3> QED BY <2>1, <2>3, <3>1, <3>2 DEF PathInv, Method, Principal, Authed, Answered
  <2>4. CASE Routed(i) = NoPattern /\ Routed(i) \notin Mutations
    BY <2>1, <2>4 DEF PathInv, Method, Principal, Authed, Answered
  <2> QED BY <2>2, <2>3, <2>4
<1>2. AnswerInv(i)'
  BY DEF AnswerInv, Unanswered, Answered, PathInv
<1>3. BookInv(i)'
  BY DEF BookInv, Unanswered, AnswerInv
<1>4. Accounts(i)
  BY DEF Accounts, One, Inside, Timed, Booked, Granted, BookInv, AnswerInv, PathInv, Unanswered, Answered, Authed, Principal
<1> QED BY <1>1, <1>2, <1>3, <1>4 DEF Own

\* What Read does to its request: it is answered, and is no mutation.
LEMMA ReadOwn ==
  ASSUME TypeInv, TypeInv', NEW i \in Requests, PathInv(i), AnswerInv(i), BookInv(i), Read(i)
  PROVE  Own(i)
<1>. USE DEF TypeInv, Read, Step, Write, WriteBody, inputVars, copyVars, bookVars, limitVars, metricVars
<1>1. PathInv(i)'
  BY DEF PathInv, Method, Principal, Authed, Answered
<1>2. AnswerInv(i)'
  BY DEF AnswerInv, Unanswered, Answered, PathInv
<1>3. BookInv(i)'
  BY DEF BookInv, Unanswered, AnswerInv
<1>4. Accounts(i)
  BY DEF Accounts, One, Inside, Timed, Booked, Granted, BookInv, AnswerInv, PathInv, Unanswered, Answered, Authed, Principal
<1> QED BY <1>1, <1>2, <1>3, <1>4 DEF Own

\* What Limit does to its request: a token is given up for what is granted.
LEMMA LimitOwn ==
  ASSUME TypeInv, TypeInv', NEW i \in Requests, PathInv(i), AnswerInv(i), BookInv(i), Limit(i)
  PROVE  Own(i)
<1>. USE DEF TypeInv, Limit, Step, Write, Silent, inputVars, copyVars, bookVars, metricVars
<1>1. PathInv(i)'
  BY DEF PathInv, Method, Principal, Authed, Answered
<1>2. AnswerInv(i)'
  BY DEF AnswerInv, Unanswered, Answered, PathInv
<1>3. BookInv(i)'
  BY DEF BookInv, Unanswered, AnswerInv
<1>4. Accounts(i)
  <2>1. i \notin written
    BY DEF PathInv, Answered
  <2>2. ASSUME NEW s \in Subjects
        PROVE  left'[s] + One(i \in Granted(s)') <= left[s] + One(i \in Granted(s))
    <3>1. CASE s = Principal(i)
      <4>1. left[s] \in Int
        BY ChainAssumption
      <4>2. i \notin Granted(s)
        BY <2>1 DEF Granted
      <4>3. CASE pc' = [pc EXCEPT ![i] = "role"] /\ left'[s] = left[s] - 1
        BY <4>1, <4>2, <4>3 DEF One
      <4>4. CASE pc' = [pc EXCEPT ![i] = "count"] /\ left' = left
        <5>1. ~(i \in Granted(s)')
          BY <2>1, <4>4 DEF Granted
        <5> QED BY <4>1, <4>2, <4>4, <5>1 DEF One
      <4> QED BY <3>1, <4>3, <4>4 DEF Cost
    <3>2. CASE s # Principal(i)
      <4>1. left'[s] = left[s] /\ left[s] \in Int
        BY <3>2, ChainAssumption
      <4>2. ~(i \in Granted(s)')
        BY <3>2 DEF Granted, Principal
      <4> QED BY <4>1, <4>2 DEF One
    <3> QED BY <3>1, <3>2
  <2> QED BY <2>2 DEF Accounts, One, Inside, Timed, Booked, BookInv, Unanswered
<1> QED BY <1>1, <1>2, <1>3, <1>4 DEF Own

\* What CheckRole does to its request: an admin goes on.
LEMMA CheckRoleOwn ==
  ASSUME TypeInv, TypeInv', NEW i \in Requests, PathInv(i), AnswerInv(i), BookInv(i), CheckRole(i)
  PROVE  Own(i)
<1>. USE DEF TypeInv, CheckRole, AfterRefusal, Step, Write, Silent, inputVars, copyVars, bookVars, limitVars, metricVars
<1>1. PathInv(i)'
  BY DEF PathInv, Method, Principal, Authed, Answered
<1>2. AnswerInv(i)'
  BY DEF AnswerInv, Unanswered, Answered, PathInv
<1>3. BookInv(i)'
  BY DEF BookInv, Unanswered, AnswerInv
<1>4. Accounts(i)
  BY DEF Accounts, One, Inside, Timed, Booked, Granted, BookInv, AnswerInv, PathInv, Unanswered, Answered, Authed, Principal
<1> QED BY <1>1, <1>2, <1>3, <1>4 DEF Own

\* What Render does to its request: it is answered after it has stored.
LEMMA RenderOwn ==
  ASSUME TypeInv, TypeInv', NEW i \in Requests, PathInv(i), AnswerInv(i), BookInv(i), Render(i)
  PROVE  Own(i)
<1>. USE DEF TypeInv, Render, Step, Write, WriteBody, inputVars, copyVars, bookVars, limitVars, metricVars
<1>1. PathInv(i)'
  BY DEF PathInv, Method, Principal, Authed, Answered
<1>2. AnswerInv(i)'
  BY DEF AnswerInv, Unanswered, Answered, PathInv
<1>3. BookInv(i)'
  BY DEF BookInv, Unanswered, AnswerInv
<1>4. Accounts(i)
  BY DEF Accounts, One, Inside, Timed, Booked, Granted, BookInv, AnswerInv, PathInv, Unanswered, Answered, Authed, Principal
<1> QED BY <1>1, <1>2, <1>3, <1>4 DEF Own

\* What Count does to its request: it is booked under the status it was sent.
LEMMA CountOwn ==
  ASSUME TypeInv, TypeInv', NEW i \in Requests, PathInv(i), AnswerInv(i), BookInv(i), Count(i)
  PROVE  Own(i)
<1>. USE DEF TypeInv, Count, Step, Silent, inputVars, copyVars, limitVars
<1>1. PathInv(i)'
  BY DEF PathInv, Method, Principal, Authed, Answered
<1>2. AnswerInv(i)'
  BY DEF AnswerInv, Unanswered, Answered, PathInv
<1>3. BookInv(i)'
  <2>1. outer[i].pattern \in Patterns /\ label'[i] = outer[i].pattern
    BY DEF Copies
  <2>2. label'[i] # Nobody
    BY <2>1, NobodyAssumption
  <2> QED BY <2>2 DEF BookInv, Unanswered, AnswerInv
<1>4. Accounts(i)
  <2>1. label[i] = Nobody /\ label'[i] # Nobody
    BY <1>3 DEF BookInv
  <2>2. recorded[i] = status[i] /\ status'[i] = status[i] /\ recorded[i] \in Statuses
    BY DEF AnswerInv, Answered
  <2>3. \A n \in Statuses :
          counted'[n] + One(i \in Booked(n)) = counted[n] + One(i \in Booked(n)')
    BY <2>1, <2>2 DEF Booked, One
  <2> QED BY <2>1, <2>3 DEF Accounts, One, Inside, Timed, Granted, Principal
<1> QED BY <1>1, <1>2, <1>3, <1>4 DEF Own

\* What Time does to its request: it is timed.
LEMMA TimeOwn ==
  ASSUME TypeInv, TypeInv', NEW i \in Requests, PathInv(i), AnswerInv(i), BookInv(i), Time(i)
  PROVE  Own(i)
<1>. USE DEF TypeInv, Time, Step, Silent, inputVars, copyVars, bookVars, limitVars
<1>1. PathInv(i)'
  BY DEF PathInv, Method, Principal, Authed, Answered
<1>2. AnswerInv(i)'
  BY DEF AnswerInv, Unanswered, Answered, PathInv
<1>3. BookInv(i)'
  BY DEF BookInv, Unanswered, AnswerInv
<1>4. Accounts(i)
  BY DEF Accounts, One, Inside, Timed, Booked, Granted, BookInv, AnswerInv, PathInv, Unanswered, Answered, Authed, Principal
<1> QED BY <1>1, <1>2, <1>3, <1>4 DEF Own

\* What Leave does to its request: it is no longer inside.
LEMMA LeaveOwn ==
  ASSUME TypeInv, TypeInv', NEW i \in Requests, PathInv(i), AnswerInv(i), BookInv(i), Leave(i)
  PROVE  Own(i)
<1>. USE DEF TypeInv, Leave, ActiveAfter, Step, Silent, inputVars, copyVars, bookVars, limitVars
<1>1. PathInv(i)'
  BY DEF PathInv, Method, Principal, Authed, Answered
<1>2. AnswerInv(i)'
  BY DEF AnswerInv, Unanswered, Answered, PathInv
<1>3. BookInv(i)'
  BY DEF BookInv, Unanswered, AnswerInv
<1>4. Accounts(i)
  BY DEF Accounts, One, Inside, Timed, Booked, Granted, BookInv, AnswerInv, PathInv, Unanswered, Answered, Authed, Principal
<1> QED BY <1>1, <1>2, <1>3, <1>4 DEF Own

\* What Log does to its request: the line has the status it was sent.
LEMMA LogOwn ==
  ASSUME TypeInv, TypeInv', NEW i \in Requests, PathInv(i), AnswerInv(i), BookInv(i), Log(i)
  PROVE  Own(i)
<1>. USE DEF TypeInv, Log, Step, Silent, inputVars, copyVars, limitVars, metricVars
<1>1. PathInv(i)'
  BY DEF PathInv, Method, Principal, Authed, Answered
<1>2. AnswerInv(i)'
  BY DEF AnswerInv, Unanswered, Answered, PathInv
<1>3. BookInv(i)'
  <2>1. logged'[i] = status'[i]
    BY DEF AnswerInv, Answered
  <2> QED BY <2>1 DEF BookInv, Unanswered
<1>4. Accounts(i)
  BY DEF Accounts, One, Inside, Timed, Booked, Granted, BookInv, AnswerInv, PathInv, Unanswered, Answered, Authed, Principal
<1> QED BY <1>1, <1>2, <1>3, <1>4 DEF Own

\* What Put does to its request: it is stored, or refused, or the answer is 500.
LEMMA PutOwn ==
  ASSUME TypeInv, TypeInv', NEW i \in Requests, PathInv(i), AnswerInv(i), BookInv(i), Put(i)
  PROVE  Own(i)
<1>1. PICK f \in Flaws : PutWith(i, f)
  BY PutCases
<1>2. Refusal(i, f) \in {0, 400, 413, 415}
  BY RefusalTypes
<1>3. i \notin written
  BY <1>1 DEF PutWith, PathInv, Answered
<1>. USE <1>1 DEF TypeInv, PutWith, Step, Write, Silent, copyVars, bookVars, limitVars, metricVars
<1>4. PathInv(i)'
  BY DEF PathInv, Method, Principal, Authed, Answered
<1>5. AnswerInv(i)'
  BY <1>2, <1>3 DEF AnswerInv, Unanswered, Answered
<1>6. BookInv(i)'
  BY DEF BookInv, Unanswered, AnswerInv
<1>7. Accounts(i)
  <2>1. \A s \in Subjects : i \in Granted(s)' => i \in Granted(s)
    BY DEF Granted, Principal
  <2>2. \A s \in Subjects : left'[s] = left[s] /\ left[s] \in Int
    BY ChainAssumption
  <2>3. label[i] = Nobody /\ label'[i] = Nobody
    BY DEF BookInv, Unanswered
  <2> QED BY <2>1, <2>2, <2>3 DEF Accounts, One, Inside, Timed, Booked
<1> QED BY <1>4, <1>5, <1>6, <1>7 DEF Own

\* What any of the steps does to its request.
LEMMA ActOwn ==
  ASSUME TypeInv, TypeInv', NEW i \in Requests, PathInv(i), AnswerInv(i), BookInv(i), Act(i)
  PROVE  Own(i)
BY ArriveOwn, EnterOwn, AuthenticateOwn, RouteOwn, ReadOwn, LimitOwn, CheckRoleOwn, PutOwn,
   RenderOwn, CountOwn, TimeOwn, LeaveOwn, LogOwn DEF Act

----------------------------------------------------------------------------
(* The invariant.                                                          *)

\* No request has begun, nothing is counted, every bucket is full.
LEMMA InitInv == Init => Inv
<1>. SUFFICES ASSUME Init PROVE Inv
  OBVIOUS
<1>1. TypeInv
  BY ChainAssumption DEF Init, TypeInv, Steps, Flaws, Statuses, Copies, NoCopy, Patterns
<1>2. ASSUME NEW i \in Requests
      PROVE  PathInv(i) /\ AnswerInv(i) /\ BookInv(i)
  BY DEF Init, PathInv, AnswerInv, BookInv, Authed, Answered, Unanswered
<1>3. MetricsInv
  <2>1. Inside = {} /\ Timed = {} /\ \A n \in Statuses : Booked(n) = {}
    BY DEF Init, Inside, Timed, Booked
  <2> QED BY <2>1, FS_EmptySet DEF MetricsInv, Init
<1>4. BudgetInv
  <2>1. ASSUME NEW s \in Subjects
        PROVE  left[s] + Cardinality(Granted(s)) <= Burst + refills[s]
    <3>1. Granted(s) = {}
      BY DEF Init, Granted
    <3>2. Cardinality(Granted(s)) = 0
      BY <3>1, FS_EmptySet
    <3> QED BY <3>2, ChainAssumption DEF Init
  <2> QED BY <2>1 DEF BudgetInv
<1> QED BY <1>1, <1>2, <1>3, <1>4 DEF Inv

\* Every step of a request keeps the invariant: the others have not moved, and the
\* sets that are counted differ by this request at most.
LEMMA ActInv ==
  ASSUME Inv, NEW i \in Requests, Act(i)
  PROVE  Inv'
<1>1. TypeInv /\ TypeInv'
  BY TypeStep DEF Inv
<1>2. Own(i)
  BY <1>1, ActOwn DEF Inv
<1>3. ASSUME NEW j \in Requests, j # i
      PROVE  Same(j)
  BY <1>1, <1>3, OthersSame
<1>4. ASSUME NEW j \in Requests
      PROVE  PathInv(j)' /\ AnswerInv(j)' /\ BookInv(j)'
  <2>1. CASE j = i
    BY <1>2, <2>1 DEF Own
  <2>2. CASE j # i
    BY <1>3, <2>2, SameKeeps DEF Inv
  <2> QED BY <2>1, <2>2
<1>5. MetricsInv'
  <2>1. active' = Cardinality(Inside')
    <3>1. \A j \in Requests \ {i} : j \in Inside <=> j \in Inside'
      BY <1>3 DEF Inside, Same
    <3>2. /\ Cardinality(Inside) \in Nat /\ Cardinality(Inside') \in Nat
          /\ Cardinality(Inside') + One(i \in Inside) = Cardinality(Inside) + One(i \in Inside')
      <4>1. Inside \in SUBSET Requests /\ Inside' \in SUBSET Requests
        BY DEF Inside
      <4> QED BY <3>1, <4>1, CountOne
    <3>3. active' + One(i \in Inside) = active + One(i \in Inside') /\ active = Cardinality(Inside)
      BY <1>2 DEF Own, Accounts, Inv, MetricsInv
    <3>4. active' \in Int /\ One(i \in Inside) \in Int /\ One(i \in Inside') \in Int
      BY <1>1 DEF TypeInv, One
    <3> QED BY <3>2, <3>3, <3>4
  <2>2. timed' = Cardinality(Timed')
    <3>1. \A j \in Requests \ {i} : j \in Timed <=> j \in Timed'
      BY <1>3 DEF Timed, Same
    <3>2. /\ Cardinality(Timed) \in Nat /\ Cardinality(Timed') \in Nat
          /\ Cardinality(Timed') + One(i \in Timed) = Cardinality(Timed) + One(i \in Timed')
      <4>1. Timed \in SUBSET Requests /\ Timed' \in SUBSET Requests
        BY DEF Timed
      <4> QED BY <3>1, <4>1, CountOne
    <3>3. timed' + One(i \in Timed) = timed + One(i \in Timed') /\ timed = Cardinality(Timed)
      BY <1>2 DEF Own, Accounts, Inv, MetricsInv
    <3>4. timed' \in Int /\ One(i \in Timed) \in Int /\ One(i \in Timed') \in Int
      BY <1>1 DEF TypeInv, One
    <3> QED BY <3>2, <3>3, <3>4
  <2>3. ASSUME NEW n \in Statuses
        PROVE  counted'[n] = Cardinality(Booked(n)')
    <3>1. \A j \in Requests \ {i} : j \in Booked(n) <=> j \in Booked(n)'
      BY <1>3 DEF Booked, Same
    <3>2. /\ Cardinality(Booked(n)) \in Nat /\ Cardinality(Booked(n)') \in Nat
          /\ Cardinality(Booked(n)') + One(i \in Booked(n))
               = Cardinality(Booked(n)) + One(i \in Booked(n)')
      <4>1. Booked(n) \in SUBSET Requests /\ Booked(n)' \in SUBSET Requests
        BY DEF Booked
      <4> QED BY <3>1, <4>1, CountOne
    <3>3. /\ counted'[n] + One(i \in Booked(n)) = counted[n] + One(i \in Booked(n)')
          /\ counted[n] = Cardinality(Booked(n))
      BY <1>2 DEF Own, Accounts, Inv, MetricsInv
    <3>4. counted'[n] \in Int /\ One(i \in Booked(n)) \in Int /\ One(i \in Booked(n)') \in Int
      BY <1>1 DEF TypeInv, One
    <3> QED BY <3>2, <3>3, <3>4
  <2> QED BY <2>1, <2>2, <2>3 DEF MetricsInv
<1>6. ASSUME NEW s \in Subjects
      PROVE  left'[s] + Cardinality(Granted(s)') <= Burst + refills'[s]
  <2>1. \A j \in Requests \ {i} : j \in Granted(s) <=> j \in Granted(s)'
    BY <1>3 DEF Granted, Same, Principal
  <2>2. /\ Cardinality(Granted(s)) \in Nat /\ Cardinality(Granted(s)') \in Nat
        /\ Cardinality(Granted(s)') + One(i \in Granted(s))
             = Cardinality(Granted(s)) + One(i \in Granted(s)')
    <3>1. Granted(s) \in SUBSET Requests /\ Granted(s)' \in SUBSET Requests
      BY DEF Granted
    <3> QED BY <2>1, <3>1, CountOne
  <2>3. /\ left'[s] + One(i \in Granted(s)') <= left[s] + One(i \in Granted(s))
        /\ refills'[s] = refills[s]
        /\ left[s] + Cardinality(Granted(s)) <= Burst + refills[s]
    BY <1>2 DEF Own, Accounts, Inv, BudgetInv
  <2>4. /\ left'[s] \in Int /\ left[s] \in Int /\ Burst \in Int /\ refills[s] \in Int
        /\ One(i \in Granted(s)) \in Int /\ One(i \in Granted(s)') \in Int
    BY <1>1, ChainAssumption DEF TypeInv, One
  <2> QED BY <2>2, <2>3, <2>4
<1> QED BY <1>1, <1>4, <1>5, <1>6 DEF Inv, BudgetInv

\* A refill moves no request, and gives as much as it books.
LEMMA RefillInv ==
  ASSUME Inv, NEW s \in Subjects, Refill(s)
  PROVE  Inv'
<1>. USE DEF Inv, Refill, inputVars, copyVars, answerVars, bookVars, metricVars
<1>1. TypeInv'
  BY ChainAssumption DEF TypeInv
<1>2. ASSUME NEW j \in Requests
      PROVE  PathInv(j)' /\ AnswerInv(j)' /\ BookInv(j)'
  <2>1. Same(j)
    BY DEF Same
  <2> QED BY <2>1, SameKeeps
<1>3. MetricsInv'
  BY DEF MetricsInv, Inside, Timed, Booked
<1>4. ASSUME NEW t \in Subjects
      PROVE  left'[t] + Cardinality(Granted(t)') <= Burst + refills'[t]
  <2>1. Granted(t)' = Granted(t)
    BY DEF Granted, Principal
  <2>2. Cardinality(Granted(t)) \in Nat
    <3>1. IsFiniteSet(Granted(t))
      <4>1. Granted(t) \in SUBSET Requests
        BY DEF Granted
      <4> QED BY <4>1, ChainAssumption, FS_Subset
    <3> QED BY <3>1, FS_CardinalityType
  <2>3. left[t] + Cardinality(Granted(t)) <= Burst + refills[t]
    BY DEF BudgetInv
  <2>4. left[t] \in Int /\ refills[t] \in Int /\ Burst \in Int
    BY ChainAssumption DEF TypeInv
  <2>5. \/ left'[t] = left[t] /\ refills'[t] = refills[t]
        \/ left'[t] = left[t] + 1 /\ refills'[t] = refills[t] + 1
    BY DEF TypeInv
  <2> QED BY <2>1, <2>2, <2>3, <2>4, <2>5
<1> QED BY <1>1, <1>2, <1>3, <1>4 DEF BudgetInv

\* Nothing changes in a stutter.
LEMMA StutterInv ==
  ASSUME Inv, UNCHANGED vars
  PROVE  Inv'
BY DEF Inv, TypeInv, PathInv, AnswerInv, BookInv, MetricsInv, BudgetInv, Inside, Timed, Booked,
       Granted, Method, Principal, vars, inputVars, copyVars, answerVars, bookVars, limitVars,
       metricVars

\* Inv is an invariant of every behaviour.
THEOREM Invariant == Spec => []Inv
<1>1. Inv /\ [Next]_vars => Inv'
  <2>. SUFFICES ASSUME Inv, [Next]_vars PROVE Inv'
    OBVIOUS
  <2>1. CASE \E i \in Requests : Act(i)
    BY <2>1, ActInv
  <2>2. CASE \E s \in Subjects : Refill(s)
    BY <2>2, RefillInv
  <2>3. CASE UNCHANGED vars
    BY <2>3, StutterInv
  <2> QED BY <2>1, <2>2, <2>3 DEF Next, Act
<1> QED BY InitInv, <1>1, PTL DEF Spec

----------------------------------------------------------------------------
(* What the run "chain" checks.                                            *)

\* Every variable keeps its type; the gauge is a number of requests, never negative.
THEOREM TypeCorrect == Spec => []TypeOK
<1>1. Inv => TypeOK
  <2>. SUFFICES ASSUME Inv PROVE TypeOK
    OBVIOUS
  <2>1. active \in Nat
    <3>1. IsFiniteSet(Inside)
      <4>1. Inside \in SUBSET Requests
        BY DEF Inside
      <4> QED BY <4>1, ChainAssumption, FS_Subset
    <3> QED BY <3>1, FS_CardinalityType DEF Inv, MetricsInv
  <2> QED BY <2>1 DEF Inv, TypeInv, TypeOK
<1> QED BY Invariant, <1>1, PTL

\* Whatever path a setting took to the store, it was a marked PUT of a verified admin.
THEOREM WrittenOnlyByAdminsHolds == Spec => []WrittenOnlyByAdmins
<1>1. Inv => WrittenOnlyByAdmins
  BY DEF Inv, TypeInv, PathInv, WrittenOnlyByAdmins
<1> QED BY Invariant, <1>1, PTL

\* What a subject has stored is part of what it was granted, and that is what the
\* limiter has given it.
LEMMA InvWithinBudget == Inv => WritesWithinBudget
<1>1. ASSUME Inv, NEW s \in Subjects
      PROVE  Cardinality({i \in written : Principal(i) = s}) <= Burst + refills[s]
  <2>1. /\ Granted(s) \in SUBSET Requests
        /\ {i \in written : Principal(i) = s} \in SUBSET Granted(s)
    BY <1>1 DEF Inv, TypeInv, Granted
  <2>2. IsFiniteSet(Granted(s))
    BY <2>1, ChainAssumption, FS_Subset
  <2>3. /\ IsFiniteSet({i \in written : Principal(i) = s})
        /\ Cardinality({i \in written : Principal(i) = s}) <= Cardinality(Granted(s))
    BY <2>1, <2>2, FS_Subset
  <2>4. /\ Cardinality({i \in written : Principal(i) = s}) \in Nat
        /\ Cardinality(Granted(s)) \in Nat
    BY <2>2, <2>3, FS_CardinalityType
  <2>5. /\ left[s] + Cardinality(Granted(s)) <= Burst + refills[s]
        /\ left[s] \in Nat /\ refills[s] \in Nat /\ Burst \in Nat
    BY <1>1, ChainAssumption DEF Inv, TypeInv, BudgetInv
  <2> QED BY <2>3, <2>4, <2>5
<1> QED BY <1>1 DEF WritesWithinBudget

\* No subject stores more settings than its burst and the tokens it was given back.
THEOREM WritesWithinBudgetHolds == Spec => []WritesWithinBudget
BY Invariant, InvWithinBudget, PTL

\* A refused mutation has changed nothing, a successful one has been stored.
THEOREM AnswerTellsOutcomeHolds == Spec => []AnswerTellsOutcome
<1>1. Inv => AnswerTellsOutcome
  BY DEF Inv, AnswerInv, AnswerTellsOutcome
<1> QED BY Invariant, <1>1, PTL

\* The log line and the counters show the statuses that the clients were sent.
THEOREM AccountedAsAnsweredHolds == Spec => []AccountedAsAnswered
<1>1. Inv => AccountedAsAnswered
  BY DEF Inv, BookInv, MetricsInv, Booked, AccountedAsAnswered
<1> QED BY Invariant, <1>1, PTL

\* The gauge and the histogram count the requests that they stand for, in every
\* interleaving.
THEOREM MetricsAddUpHolds == Spec => []MetricsAddUp
<1>1. Inv => MetricsAddUp
  BY DEF Inv, MetricsInv, Inside, Timed, MetricsAddUp
<1> QED BY Invariant, <1>1, PTL

----------------------------------------------------------------------------
(* The chain implements GuardedWrites.                                     *)

\* What a step of i leaves as it was: what was asked, an answer, a stored setting and
\* who stored it.
Frame(i) ==
  /\ asked' = asked /\ refills' = refills
  /\ status[i] # 0 => status'[i] = status[i]
  /\ i \in written => i \in written'
  /\ i \in written' => Principal(i)' = Principal(i)
  /\ i \in written' /\ i \notin written => status[i] = 0

\* Every step of a request stays within this frame.
LEMMA ActFrame ==
  ASSUME TypeInv, NEW i \in Requests, PathInv(i), PathInv(i)', AnswerInv(i), Act(i)
  PROVE  Frame(i)
<1>. USE DEF TypeInv, Frame, Step, Write, WriteBody, Silent, Principal, inputVars, copyVars, limitVars
<1>1. CASE Arrive(i)
  BY <1>1 DEF Arrive, AnswerInv, Unanswered
<1>2. CASE Enter(i)
  BY <1>2 DEF Enter
<1>3. CASE Authenticate(i)
  <2>1. i \notin written'
    BY <1>3 DEF Authenticate, PathInv, Answered
  <2> QED BY <1>3, <2>1 DEF Authenticate
<1>4. CASE Route(i)
  <2>1. inner'[i].principal = inner[i].principal
    BY <1>4 DEF Route, Copies
  <2> QED BY <1>4, <2>1 DEF Route
<1>5. CASE Read(i)
  BY <1>5 DEF Read
<1>6. CASE Limit(i)
  BY <1>6 DEF Limit
<1>7. CASE CheckRole(i)
  BY <1>7 DEF CheckRole
<1>8. CASE Put(i)
  <2>1. PICK f \in Flaws : PutWith(i, f)
    BY <1>8, PutCases
  <2>2. status[i] = 0
    BY <2>1 DEF PutWith, AnswerInv, Unanswered
  <2> QED BY <2>1, <2>2 DEF PutWith
<1>9. CASE Render(i)
  BY <1>9 DEF Render
<1>10. CASE Count(i)
  BY <1>10 DEF Count
<1>11. CASE Time(i)
  BY <1>11 DEF Time
<1>12. CASE Leave(i)
  BY <1>12 DEF Leave
<1>13. CASE Log(i)
  BY <1>13 DEF Log
<1> QED BY <1>1, <1>2, <1>3, <1>4, <1>5, <1>6, <1>7, <1>8, <1>9, <1>10, <1>11, <1>12, <1>13
    DEF Act

\* A step of i is, in the terms of GuardedWrites, nothing, an answer or a store.
Kept(i) == StoredBy(i)' = StoredBy(i) /\ Told(i)' = Told(i)
Answers(i) ==
  /\ StoredBy(i)' = StoredBy(i) /\ Told(i) = "open"
  /\ \/ StoredBy(i) # Nobody /\ Told(i)' = "done"
     \/ StoredBy(i) = Nobody /\ Told(i)' \in {"refused", "served"}
     \/ Told(i)' = "failed"
Stores(i) ==
  /\ StoredBy(i) = Nobody /\ StoredBy(i)' \in Admins
  /\ Told(i) = "open" /\ Told(i)' \in {"open", "done", "failed"}

\* Within the frame, a step is nothing, an answer or a store of GuardedWrites.
LEMMA FrameRefines ==
  ASSUME TypeInv, TypeInv', NEW i \in Requests, PathInv(i), AnswerInv(i), PathInv(i)', AnswerInv(i)',
         Frame(i)
  PROVE  Kept(i) \/ Answers(i) \/ Stores(i)
<1>1. status[i] \in Statuses \cup {0} /\ status'[i] \in Statuses \cup {0}
  BY DEF TypeInv
<1>2. asked'[i] = asked[i]
  BY DEF Frame
<1>3. i \in written => Principal(i) \in Admins /\ asked[i] \in Mutations
  BY DEF PathInv
<1>4. i \in written' => Principal(i)' \in Admins /\ asked[i] \in Mutations
  BY <1>2 DEF PathInv
<1>5. Nobody \notin Admins
  BY ChainAssumption
<1>6. /\ StoredBy(i) = IF i \in written THEN Principal(i) ELSE Nobody
      /\ StoredBy(i)' = IF i \in written' THEN Principal(i)' ELSE Nobody
  BY DEF StoredBy
<1>7. status[i] = 0 => Told(i) = "open"
  BY DEF Told
<1>8. status'[i] = status[i] => Told(i)' = Told(i)
  BY <1>2 DEF Told
<1>9. /\ status'[i] = 200 => Told(i)' = IF asked[i] \in Mutations THEN "done" ELSE "served"
      /\ status'[i] \in 400..499 => Told(i)' = "refused"
      /\ status'[i] \in {500, 503} => Told(i)' = "failed"
  BY <1>2 DEF Told
<1>10. /\ status'[i] \in 400..499 => i \notin written'
       /\ status'[i] = 200 /\ asked[i] \in Mutations => i \in written'
  BY <1>2 DEF AnswerInv
<1>11. status'[i] \in {0, 200, 500, 503} \/ status'[i] \in 400..499
  BY <1>1 DEF Statuses
<1>12. CASE i \in written' /\ i \notin written
  <2>1. StoredBy(i) = Nobody /\ StoredBy(i)' \in Admins
    BY <1>4, <1>6, <1>12
  <2>2. status[i] = 0 /\ Told(i) = "open"
    BY <1>7, <1>12 DEF Frame
  <2>3. Told(i)' \in {"open", "done", "failed"}
    BY <1>4, <1>8, <1>9, <1>10, <1>11, <1>12, <2>2
  <2> QED BY <2>1, <2>2, <2>3 DEF Stores
<1>13. CASE i \in written' <=> i \in written
  <2>1. StoredBy(i)' = StoredBy(i)
    BY <1>6, <1>13 DEF Frame
  <2>2. CASE status'[i] = status[i]
    BY <1>8, <2>1, <2>2 DEF Kept
  <2>3. CASE status'[i] # status[i]
    <3>1. Told(i) = "open" /\ status'[i] # 0
      BY <1>7, <2>3 DEF Frame
    <3>2. StoredBy(i) # Nobody <=> i \in written
      BY <1>3, <1>5, <1>6
    <3>3. \/ StoredBy(i) # Nobody /\ Told(i)' = "done"
          \/ StoredBy(i) = Nobody /\ Told(i)' \in {"refused", "served"}
          \/ Told(i)' = "failed"
      BY <1>3, <1>9, <1>10, <1>11, <1>13, <3>1, <3>2
    <3> QED BY <2>1, <3>1, <3>3 DEF Answers
  <2> QED BY <2>2, <2>3
<1> QED BY <1>12, <1>13 DEF Frame

\* The budget, in the terms of GuardedWrites.
StoredBudget ==
  \A s \in Subjects : Cardinality({j \in Requests : StoredBy(j) = s}) <= Burst + refills[s]

\* It follows from the tokens left and the requests granted.
LEMMA InvStoredBudget == Inv => StoredBudget
<1>. SUFFICES ASSUME Inv, NEW s \in Subjects
              PROVE  Cardinality({j \in Requests : StoredBy(j) = s}) <= Burst + refills[s]
  BY DEF StoredBudget
<1>1. {j \in Requests : StoredBy(j) = s} = {j \in written : Principal(j) = s}
  <2>1. s # Nobody
    BY ChainAssumption
  <2>2. written \subseteq Requests
    BY DEF Inv, TypeInv
  <2> QED BY <2>1, <2>2 DEF StoredBy
<1>2. WritesWithinBudget
  BY InvWithinBudget
<1> QED BY <1>1, <1>2 DEF WritesWithinBudget

\* The initial states are those of GuardedWrites.
LEMMA GuardedInit == Init => GW!Init
BY DEF Init, GW!Init, StoredBy, Told

\* A step of a request is one of GuardedWrites, or one that GuardedWrites does not see.
LEMMA GuardedAct ==
  ASSUME Inv, Inv', StoredBudget', NEW i \in Requests, Act(i)
  PROVE  [GW!Next]_GW!abstractVars
<1>. DEFINE by == [j \in Requests |-> StoredBy(j)]
            told == [j \in Requests |-> Told(j)]
<1>1. Frame(i) /\ (Kept(i) \/ Answers(i) \/ Stores(i))
  BY ActFrame, FrameRefines DEF Inv
<1>2. ASSUME NEW j \in Requests, j # i
      PROVE  StoredBy(j)' = StoredBy(j) /\ Told(j)' = Told(j)
  <2>1. Same(j)
    BY <1>2, OthersSame DEF Inv
  <2> QED BY <2>1 DEF Same, StoredBy, Told, Principal
<1>3. refills' = refills
  BY <1>1 DEF Frame
<1>4. by' = [by EXCEPT ![i] = StoredBy(i)'] /\ told' = [told EXCEPT ![i] = Told(i)']
  BY <1>2
<1>5. CASE Kept(i)
  <2>1. by' = by /\ told' = told
    BY <1>4, <1>5 DEF Kept
  <2> QED BY <1>3, <2>1 DEF GW!abstractVars
<1>6. CASE Answers(i)
  <2>1. by' = by
    BY <1>4, <1>6 DEF Answers
  <2>2. GW!Answer(i)
    BY <1>3, <1>4, <1>6, <2>1 DEF Answers, GW!Answer, GW!Tell
  <2> QED BY <2>2 DEF GW!Next
<1>7. CASE Stores(i)
  <2>1. PICK s \in Admins : StoredBy(i)' = s
    BY <1>7 DEF Stores
  <2>2. s \in Subjects
    BY ChainAssumption
  <2>3. Cardinality({j \in Requests : by'[j] = s}) <= Burst + refills[s]
    <3>1. {j \in Requests : by'[j] = s} = {j \in Requests : StoredBy(j)' = s}
      OBVIOUS
    <3>2. Cardinality({j \in Requests : StoredBy(j)' = s}) <= Burst + refills'[s]
      BY <2>2 DEF StoredBudget
    <3> QED BY <1>3, <3>1, <3>2
  <2>4. GW!Store(i, s)
    <3>1. by[i] = Nobody /\ by' = [by EXCEPT ![i] = s]
      BY <1>4, <1>7, <2>1 DEF Stores
    <3>2. \E answer \in {"open", "done", "failed"} :
            told[i] = "open" /\ told' = [told EXCEPT ![i] = answer]
      BY <1>4, <1>7 DEF Stores
    <3>3. GW!Cardinality({j \in Requests : by'[j] = s}) = Cardinality({j \in Requests : by'[j] = s})
      BY DEF GW!Cardinality, Cardinality
    <3> QED BY <1>3, <2>1, <2>3, <3>1, <3>2, <3>3 DEF GW!Store, GW!Tell
  <2> QED BY <2>2, <2>4 DEF GW!Next
<1> QED BY <1>1, <1>5, <1>6, <1>7

\* A refill is one of GuardedWrites.
LEMMA GuardedRefill ==
  ASSUME TypeInv, NEW s \in Subjects, Refill(s)
  PROVE  GW!Next
<1>1. GW!Give(s)
  BY DEF TypeInv, Refill, GW!Give, StoredBy, Told, Principal, inputVars, copyVars, answerVars
<1> QED BY <1>1 DEF GW!Next

\* The chain implements GuardedWrites: what is stored, by whom, how often, and what each
\* request is told.
THEOREM ImplementsGuardedWritesHolds == Spec => ImplementsGuardedWrites
<1>1. Inv /\ Inv' /\ StoredBudget' /\ [Next]_vars => [GW!Next]_GW!abstractVars
  <2>. SUFFICES ASSUME Inv, Inv', StoredBudget', [Next]_vars
                PROVE  [GW!Next]_GW!abstractVars
    OBVIOUS
  <2>1. CASE \E i \in Requests : Act(i)
    BY <2>1, GuardedAct
  <2>2. CASE \E s \in Subjects : Refill(s)
    BY <2>2, GuardedRefill DEF Inv
  <2>3. CASE UNCHANGED vars
    BY <2>3 DEF vars, inputVars, copyVars, answerVars, limitVars, GW!abstractVars, StoredBy,
         Told, Principal
  <2> QED BY <2>1, <2>2, <2>3 DEF Next, Act
<1> QED BY Invariant, InvStoredBudget, GuardedInit, <1>1, PTL DEF Spec, ImplementsGuardedWrites, GW!Spec
=============================================================================
