---------------------------- MODULE GuardedWrites ----------------------------
(***************************************************************************)
(* What the request tree of internal/api and internal/ui promises about    *)
(* settings, without middlewares, muxes and handlers: an admin stores a    *)
(* setting at most once per request, within a budget, before its request   *)
(* is answered, and the answer tells whether it was stored.  RequestChain  *)
(* implements this specification.                                          *)
(***************************************************************************)
EXTENDS Naturals, FiniteSets

CONSTANTS Requests,   \* requests
          Subjects,   \* those who make them
          Admins,     \* the ones who may store
          Nobody,     \* has stored nothing
          Burst       \* settings a subject may store without being given more

VARIABLES by,      \* who stored the setting of each request, or Nobody
          told,    \* what each request was told
          given    \* what each subject may store beyond the burst

abstractVars == <<by, told, given>>

Init ==
  /\ by = [i \in Requests |-> Nobody]
  /\ told = [i \in Requests |-> "open"]
  /\ given = [s \in Subjects |-> 0]

Tell(i, answer) == told[i] = "open" /\ told' = [told EXCEPT ![i] = answer]

\* The setting of i is stored, and i may be answered at once: not that it is refused,
\* and not as if it had only read.
Store(i, s) ==
  /\ s \in Admins /\ by[i] = Nobody
  /\ by' = [by EXCEPT ![i] = s]
  /\ Cardinality({j \in Requests : by'[j] = s}) <= Burst + given[s]
  /\ \E answer \in {"open", "done", "failed"} : Tell(i, answer)
  /\ UNCHANGED given

\* i has stored its setting, or has not.
Answer(i) ==
  /\ \/ by[i] # Nobody /\ Tell(i, "done")
     \/ by[i] = Nobody /\ \E answer \in {"refused", "served"} : Tell(i, answer)
     \/ Tell(i, "failed")
  /\ UNCHANGED <<by, given>>

Give(s) ==
  /\ given' = [given EXCEPT ![s] = @ + 1]
  /\ UNCHANGED <<by, told>>

Next ==
  \/ \E i \in Requests : Answer(i) \/ \E s \in Subjects : Store(i, s)
  \/ \E s \in Subjects : Give(s)

Spec == Init /\ [][Next]_abstractVars
=============================================================================
