------------------------------ MODULE KeyCache ------------------------------
(***************************************************************************)
(* What the JWKS client of internal/auth/jwt.go promises its callers,      *)
(* without clocks, channels, locks or goroutines: a cache of verification  *)
(* keys in front of an Identity Provider, refreshed by one refresh at a    *)
(* time, whose content is always a whole key set the Identity Provider     *)
(* published.  JwksClient implements this specification.                   *)
(***************************************************************************)
CONSTANTS Requests,   \* calls of key()
          Kids,       \* key ids
          None        \* "has not asked yet"

VARIABLES
  idpKeys,      \* the key set the Identity Provider publishes now
  keys,         \* the cached key set
  refresh,      \* the one refresh: "idle", "asked", "received" or "over"
  received,     \* the key set it received and has not installed yet
  refreshed,    \* at least one refresh has ended
  kid,          \* the key id each request is asking for, or None
  result        \* what each request was told

abstractVars == <<idpKeys, keys, refresh, received, refreshed, kid, result>>

Init ==
  /\ idpKeys \in SUBSET Kids
  /\ keys = {}
  /\ refresh = "idle"
  /\ received = {}
  /\ refreshed = FALSE
  /\ kid = [r \in Requests |-> None]
  /\ result = [r \in Requests |-> "none"]

Publish ==
  /\ \E S \in SUBSET Kids : idpKeys' = S
  /\ UNCHANGED <<keys, refresh, received, refreshed, kid, result>>

Ask(r) ==
  /\ kid[r] = None
  /\ result[r] = "none"
  /\ \E k \in Kids : kid' = [kid EXCEPT ![r] = k]
  /\ UNCHANGED <<idpKeys, keys, refresh, received, refreshed, result>>

BeginRefresh ==
  /\ refresh = "idle"
  /\ refresh' = "asked"
  /\ UNCHANGED <<idpKeys, keys, received, refreshed, kid, result>>

\* What a refresh receives is what the Identity Provider publishes at that
\* moment.
Receive ==
  /\ refresh = "asked"
  /\ refresh' = "received"
  /\ received' = idpKeys
  /\ UNCHANGED <<idpKeys, keys, refreshed, kid, result>>

\* A refresh may fail instead.
Fail ==
  /\ refresh = "asked"
  /\ refresh' = "over"
  /\ UNCHANGED <<idpKeys, keys, received, refreshed, kid, result>>

\* The cache changes only here: whole, and from the refresh in flight.
Install ==
  /\ refresh = "received"
  /\ refresh' = "over"
  /\ keys' = received
  /\ received' = {}
  /\ UNCHANGED <<idpKeys, refreshed, kid, result>>

EndRefresh ==
  /\ refresh = "over"
  /\ refresh' = "idle"
  /\ refreshed' = TRUE
  /\ UNCHANGED <<idpKeys, keys, received, kid, result>>

Answer(r, res) ==
  /\ kid[r] # None
  /\ kid' = [kid EXCEPT ![r] = None]
  /\ result' = [result EXCEPT ![r] = res]
  /\ UNCHANGED <<idpKeys, keys, refresh, received, refreshed>>

\* A key is given out only from the cache ...
Hit(r) == kid[r] \in keys /\ Answer(r, "key")

\* ... a key id is called unknown only when the cache lacks it after some
\* refresh has ended ...
Unknown(r) == kid[r] \notin keys /\ refreshed /\ Answer(r, "unknown")

\* ... and a request may fail with an error: its client went away, or the
\* Identity Provider did not answer it.
Error(r) == Answer(r, "error")

Next ==
  \/ Publish \/ BeginRefresh \/ Receive \/ Fail \/ Install \/ EndRefresh
  \/ \E r \in Requests : Ask(r) \/ Hit(r) \/ Unknown(r) \/ Error(r)

Spec == Init /\ [][Next]_abstractVars
=============================================================================
