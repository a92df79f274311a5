------------------------------ MODULE JWTVerify ------------------------------
(***************************************************************************)
(* The token verifier of internal/auth/jwt.go: built at start-up from the  *)
(* environment (Providers), then asked by every request.  A request checks *)
(* what it can without a key, asks the key cache, which may make it wait   *)
(* while the Identity Provider rotates its keys and the clock advances,    *)
(* checks the signature, reads the clock, and judges the claims.           *)
(*                                                                         *)
(* Of the key cache this module knows what KeyCache promises, and nothing  *)
(* of how JwksClient keeps it.  golang-jwt is external: it is modelled by  *)
(* the order of its checks and the errors it wraps.                        *)
(***************************************************************************)
EXTENDS Integers, FiniteSets, Providers

CONSTANTS
  Requests,      \* requests, each authenticated once
  Kids,          \* key ids
  KeyType,       \* the type of each key: "RSA" or "EC"
  None,          \* no key id, no claim, no provider
  Forger,        \* signs with none of the keys
  Environments,  \* what the process may be started with
  Served,        \* bound: the ones under which it is sent requests
  Flaws,         \* how the tokens presented differ from a good one
  Leeway,        \* expiryLeeway
  MaxClock       \* bound: the clock stops here

ASSUME VerifyAssumption ==
  /\ None \notin Kids /\ Forger \notin Kids
  /\ KeyType \in [Kids -> {"RSA", "EC"}]
  /\ Leeway \in Nat /\ MaxClock \in Nat
  /\ \A f \in Flaws, x \in {"exp", "nbf", "iat"} :
       x \in DOMAIN f => f[x] \in Int \cup {None}
  /\ \A f \in Flaws, x \in {"roles", "groups"} :
       x \in DOMAIN f => f[x] \subseteq Seq(STRING)

VARIABLES
  env,        \* the environment
  problems,   \* what Load has reported, None before
  provider,   \* the verifier, or the error that ended the start
  serving,    \* requests come in
  now,        \* time.Now
  published,  \* every key id that the Identity Provider has ever published
  pc,         \* the step each request is at
  token,      \* the token it carries, None for no header
  arrived,    \* when it arrived
  judged,     \* when its claims were judged, None before
  verdict,    \* the principal, or the reason of the refusal
  idpKeys, keys, refresh, received, refreshed, kid, result   \* see KeyCache

KC == INSTANCE KeyCache

startVars   == <<env, problems, provider, serving>>
requestVars == <<pc, token, arrived, judged, verdict>>
cacheVars   == <<idpKeys, keys, refresh, received, refreshed, kid, result>>
vars == <<startVars, now, published, requestVars, cacheVars>>

Init ==
  /\ env \in Environments
  /\ problems = None /\ provider = None /\ serving = FALSE
  /\ now = 0
  /\ pc = [r \in Requests |-> "idle"] /\ token = [r \in Requests |-> None]
  /\ arrived = [r \in Requests |-> None] /\ judged = [r \in Requests |-> None]
  /\ verdict = [r \in Requests |-> None]
  /\ KC!Init
  /\ published = idpKeys

----------------------------------------------------------------------------
(* Start-up.                                                               *)

Load ==
  /\ problems = None
  /\ problems' = Problems(env)
  /\ UNCHANGED <<env, provider, serving, now, published, requestVars, cacheVars>>

\* main: the verifier that an environment leads to.
ProviderFor(e) == NewProvider(LoadedAuth(e).Provider, Settings(LoadedAuth(e)))

ASSUME NoneAssumption == None # {} /\ \A e \in Environments : None # ProviderFor(e)

Build ==
  /\ problems = {} /\ provider = None
  /\ provider' = ProviderFor(env)
  /\ serving' = ("error" \notin DOMAIN provider' /\ env \in Served)
  /\ UNCHANGED <<env, problems, now, published, requestVars, cacheVars>>

Built == provider # None /\ "error" \notin DOMAIN provider

----------------------------------------------------------------------------
(* The world: time, and key rotation and refreshes of the cache.           *)

Tick ==
  /\ serving /\ now < MaxClock
  /\ now' = now + 1
  /\ UNCHANGED <<startVars, published, requestVars, cacheVars>>

Cache ==
  /\ serving
  /\ \/ KC!Publish \/ KC!BeginRefresh \/ KC!Receive
     \/ KC!Fail \/ KC!Install \/ KC!EndRefresh
  /\ published' = published \cup idpKeys'
  /\ UNCHANGED <<startVars, now, requestVars>>

----------------------------------------------------------------------------
(* The tokens.                                                             *)

\* A token that c accepts, issued at time 0; its first key id of the right type signs it.
TypeFor(alg) == IF alg = "RS256" THEN "RSA" ELSE "EC"
Good(c) ==
  LET k == CHOOSE k \in Kids : KeyType[k] = TypeFor(c.Algorithm)
  IN [form |-> "jwt", alg |-> c.Algorithm, kid |-> k, signer |-> k,
      iss |-> c.Issuer, aud |-> {c.Audience}, sub |-> "subject", typed |-> TRUE,
      exp |-> 1, nbf |-> 0, iat |-> 0, roles |-> {<<"admin">>}, groups |-> {<<"/", "admin">>}]
Changed(t, flaw) == [x \in DOMAIN t |-> IF x \in DOMAIN flaw THEN flaw[x] ELSE t[x]]
Tokens == {Changed(Good(provider), f) : f \in Flaws}

\* The algorithms that golang-jwt knows; the name is compared letter by letter.
Registered == {"RS256", "ES256", "HS256", "none"}

----------------------------------------------------------------------------
(* verify.  An error of the parser is the set of the sentinels it wraps.   *)

\* Errors that need no key, the parser's first and then verificationKey's.  Header and
\* claims are decoded before the algorithm is looked at, the signature after it.
Readable(t) == t.form \in {"jwt", "bad signature"}
ParseErrors(t) ==
  CASE ~Readable(t) -> {"ErrTokenMalformed"}
    [] Readable(t) /\ t.alg \notin Registered -> {"ErrTokenUnverifiable"}
    [] Readable(t) /\ t.alg \in Registered \ {provider.Algorithm} -> {"ErrTokenSignatureInvalid"}
    [] t.form = "bad signature" /\ t.alg \in Registered \cap {provider.Algorithm} -> {"ErrTokenMalformed"}
    [] OTHER -> {}
KeyFuncErrors(t) == IF t.kid = None THEN {"ErrTokenUnverifiable", "errMissingKeyID"} ELSE {}

\* Errors that need the key of t.kid.
SignatureErrors(t) ==
  CASE KeyType[t.kid] # TypeFor(provider.Algorithm) -> {"ErrTokenUnverifiable", "errKeyTypeMismatch"}
    [] KeyType[t.kid] = TypeFor(provider.Algorithm) /\ t.signer # t.kid -> {"ErrTokenSignatureInvalid"}
    [] OTHER -> {}

After(time, claim) == claim = None \/ time >= claim - Leeway
\* Mutant: no leeway.
BeforeStrictly(time, claim) == claim = None \/ time < claim
Before(time, claim) == claim = None \/ time < claim + Leeway

\* The validator joins the errors of all claims.  exp, nbf and iat are optional to it, and
\* it does not look at sub, where another type is as good as none.
ClaimsErrors(t, time) ==
  (IF t.typed THEN {} ELSE {"ErrInvalidType"})
  \cup (IF Before(time, t.exp) THEN {} ELSE {"ErrTokenExpired"})
  \cup (IF After(time, t.nbf) THEN {} ELSE {"ErrTokenNotValidYet"})
  \cup (IF After(time, t.iat) THEN {} ELSE {"ErrTokenUsedBeforeIssued"})
  \cup (IF provider.Audience \in t.aud THEN {}
        ELSE IF t.aud = {} THEN {"ErrTokenRequiredClaimMissing"} ELSE {"ErrTokenInvalidAudience"})
  \cup (IF t.iss = provider.Issuer THEN {}
        ELSE IF t.iss = None THEN {"ErrTokenRequiredClaimMissing"} ELSE {"ErrTokenInvalidIssuer"})

\* mapJWTError: the first of these that the error wraps, and the reason it is given.
Mapped ==
  << <<"errMissingKeyID", "missing key id">>,
     <<"errNoUsableKey", "no usable verification key">>,
     <<"errKeyTypeMismatch", "verification key type does not match pinned algorithm">>,
     <<"ErrTokenMalformed", "malformed token">>,
     <<"ErrInvalidType", "malformed token">>,
     <<"ErrTokenExpired", "token expired">>,
     <<"ErrTokenUsedBeforeIssued", "token issued in the future">>,
     <<"ErrTokenNotValidYet", "token not yet valid">>,
     <<"ErrTokenInvalidIssuer", "unexpected issuer">>,
     <<"ErrTokenInvalidAudience", "unexpected audience">>,
     <<"ErrTokenRequiredClaimMissing", "missing required claim">>,
     <<"ErrTokenSignatureInvalid", "invalid signature">>,
     <<"ErrTokenUnverifiable", "no usable verification key">> >>

\* Mutant: keyfuncRan is not looked at.
ReasonWithoutRan(errors, keyfuncRan) ==
  LET n == CHOOSE n \in DOMAIN Mapped :
             Mapped[n][1] \in errors /\ \A m \in 1..n-1 : Mapped[m][1] \notin errors
  IN Mapped[n][2]
Reason(errors, keyfuncRan) ==
  LET n == CHOOSE n \in DOMAIN Mapped :
             Mapped[n][1] \in errors /\ \A m \in 1..n-1 : Mapped[m][1] \notin errors
  IN IF Mapped[n][1] = "ErrTokenSignatureInvalid" /\ ~keyfuncRan
     THEN "unexpected signing algorithm" ELSE Mapped[n][2]

\* MapClaims of the provider, for the claims that decide anything.  Empty roles are dropped.
Principal(t) ==
  LET m == provider.MapClaims
      claimed == IF m.claim = "groups" THEN t.groups ELSE t.roles
  IN [subject |-> t.sub, roles |-> {TrimRolePrefix(m.prefix, g) : g \in claimed \ {<<>>}}]
HasRole(p, role) == role \in p.roles

Refuse(r, reason) ==
  /\ pc' = [pc EXCEPT ![r] = "done"]
  /\ verdict' = [verdict EXCEPT ![r] = reason]

\* Authenticate, up to the call of the key cache.
Present(r) ==
  /\ serving /\ pc[r] = "idle"
  /\ arrived' = [arrived EXCEPT ![r] = now]
  /\ \/ Refuse(r, "no token in header") /\ UNCHANGED <<token, cacheVars>>
     \/ \E t \in Tokens :
          /\ token' = [token EXCEPT ![r] = t]
          /\ \/ /\ ParseErrors(t) # {}
                /\ Refuse(r, Reason(ParseErrors(t), FALSE))
                /\ UNCHANGED cacheVars
             \/ /\ ParseErrors(t) = {} /\ KeyFuncErrors(t) # {}
                /\ Refuse(r, Reason(KeyFuncErrors(t), TRUE))
                /\ UNCHANGED cacheVars
             \/ /\ ParseErrors(t) = {} /\ KeyFuncErrors(t) = {}
                /\ KC!Ask(r) /\ kid'[r] = t.kid
                /\ pc' = [pc EXCEPT ![r] = "asked"]
                /\ UNCHANGED verdict
  /\ UNCHANGED <<startVars, now, published, judged>>

\* The key cache answers: verificationKey goes on, and the parser checks the signature.
Resolve(r) ==
  /\ pc[r] = "asked"
  /\ LET errors == SignatureErrors(token[r]) IN
       \/ /\ KC!Unknown(r) \/ KC!Error(r)
          /\ Refuse(r, Reason({"ErrTokenUnverifiable", "errNoUsableKey"}, TRUE))
       \/ /\ KC!Hit(r)
          /\ errors # {} /\ Refuse(r, Reason(errors, TRUE))
       \/ /\ KC!Hit(r) /\ errors = {}
          /\ pc' = [pc EXCEPT ![r] = "signed"]
          /\ UNCHANGED verdict
  /\ UNCHANGED <<startVars, now, published, token, arrived, judged>>

\* Mutant: the time is taken when the request arrives.
ArrivalTime(r) == arrived[r]
Time(r) == now

\* The parser validates the claims, claimsFromMap wants exp and sub, MapClaims maps.
Judge(r) ==
  /\ pc[r] = "signed"
  /\ judged' = [judged EXCEPT ![r] = now]
  /\ LET t == token[r]
         errors == ClaimsErrors(t, Time(r)) IN
       \/ errors # {} /\ Refuse(r, Reason(errors, TRUE))
       \/ errors = {} /\ t.exp = None /\ Refuse(r, "missing expiry")
       \/ errors = {} /\ t.exp # None /\ t.sub = "" /\ Refuse(r, "missing subject")
       \/ /\ errors = {} /\ t.exp # None /\ t.sub # ""
          /\ pc' = [pc EXCEPT ![r] = "accepted"]
          /\ verdict' = [verdict EXCEPT ![r] = Principal(t)]
  /\ UNCHANGED <<startVars, now, published, token, arrived, cacheVars>>

Over ==
  \/ problems \notin {None, {}}
  \/ provider # None /\ ~serving
  \/ now = MaxClock /\ \A r \in Requests : pc[r] \in {"done", "accepted"}

Next ==
  \/ Load \/ Build \/ Tick \/ Cache
  \/ \E r \in Requests : Present(r) \/ Resolve(r) \/ Judge(r)
  \/ Over /\ UNCHANGED vars

Spec == Init /\ [][Next]_vars

----------------------------------------------------------------------------
(* Properties.                                                             *)

\* Every variable keeps its type; in particular a provider that was built pins one of the
\* two algorithms, and the requests that wait for the key cache are those it is asked by.
TypeOK ==
  /\ Built => provider.Algorithm \in {"RS256", "ES256"}
  /\ now \in 0..MaxClock
  /\ keys \cup idpKeys \subseteq published /\ published \subseteq Kids
  /\ pc \in [Requests -> {"idle", "asked", "signed", "accepted", "done"}]
  /\ arrived \in [Requests -> 0..MaxClock \cup {None}]
  /\ judged \in [Requests -> 0..MaxClock \cup {None}]
  /\ \A r \in Requests : pc[r] = "asked" <=> kid[r] # None

\* internal/config: "missing required values fail fast at startup".  Once Load accepts an
\* environment, no constructor misses a value; what it can still object to is a name, a
\* team domain or an algorithm that Load does not look at.
MissingFoundByLoad ==
  provider # None /\ ~Built =>
    provider.error \in {"unknown provider", "invalid team domain", "unsupported algorithm"}

\* The variables that the constructors document as their own.
Own(name) ==
  IF name = "local"
  THEN [Issuer |-> "AUTH_LOCAL_ISSUER", Audience |-> "AUTH_LOCAL_AUDIENCE",
        JWKSURL |-> "AUTH_LOCAL_JWKS_URL",
        Header |-> "AUTH_LOCAL_HEADER", Algorithm |-> "AUTH_LOCAL_ALGORITHM"]
  ELSE [Issuer |-> "AUTH_POMERIUM_ISSUER", Audience |-> "AUTH_POMERIUM_AUDIENCE",
        JWKSURL |-> "AUTH_POMERIUM_JWKS_URL",
        Header |-> "AUTH_POMERIUM_HEADER", Algorithm |-> "AUTH_POMERIUM_ALGORITHM"]

\* Through Load, Settings and the constructor, a verifier gets the values of the selected
\* provider's own variables, whatever else the environment sets.
OwnSettingsReachVerifier ==
  Built =>
    LET name == env["AUTH_PROVIDER"] IN
      \/ /\ name \in {"", "cloudflare-access"}
         /\ \E t \in Teams :
              /\ env["AUTH_CLOUDFLARE_TEAM_DOMAIN"] \in {t, t \o ".cloudflareaccess.com"}
              /\ provider.Issuer = "https://" \o t \o ".cloudflareaccess.com"
              /\ provider.JWKSURL =
                   "https://" \o t \o ".cloudflareaccess.com" \o "/cdn-cgi/access/certs"
         /\ provider.Audience = env["AUTH_CLOUDFLARE_AUDIENCE"]
         /\ provider.Algorithm = "RS256"
      \/ /\ name \in {"local", "pomerium"}
         /\ \A f \in {"Issuer", "Audience", "JWKSURL"} : provider[f] = env[Own(name)[f]]
         /\ \A f \in {"Header", "Algorithm"} :
              env[Own(name)[f]] # "" => provider[f] = env[Own(name)[f]]

\* What makes a token genuine, and its claims good at a time.
Genuine(t) ==
  /\ t.form = "jwt" /\ t.alg = provider.Algorithm
  /\ t.kid # None /\ t.signer = t.kid /\ KeyType[t.kid] = TypeFor(t.alg)
GoodClaims(t, time) ==
  /\ t.typed /\ t.iss = provider.Issuer /\ provider.Audience \in t.aud /\ t.sub # ""
  /\ t.exp # None /\ time < t.exp + Leeway
  /\ t.nbf # None => t.nbf <= time + Leeway
  /\ t.iat # None => t.iat <= time + Leeway
Claimed(t, name) ==
  LET prefix == env["AUTH_POMERIUM_ROLE_PREFIX"] IN
  IF env["AUTH_PROVIDER"] = "pomerium"
  THEN \/ prefix # name /\ <<name>> \in t.groups
       \/ prefix # "" /\ <<prefix, name>> \in t.groups
  ELSE <<name>> \in t.roles

\* Authenticate: an accepted token is genuine, signed by a key that the Identity Provider
\* has published, and good at the moment of the decision however long the key took.
AcceptedIsGenuine ==
  \A r \in Requests : pc[r] = "accepted" =>
    /\ Genuine(token[r]) /\ token[r].kid \in published
    /\ GoodClaims(token[r], judged[r])
    /\ verdict[r].subject = token[r].sub

\* MapClaims: the principal has a role exactly if the token names it in the claim, and
\* under the prefix, of the provider that the environment selects.  The name stays as it
\* is: with the prefix "/" the group "/admins" gives the role "admins" and never "admin"
\* (pomerium_test.go:101); the README says otherwise, see PrefixedAdminsAreAdmin.
RolesAsClaimed ==
  \A r \in Requests, name \in {"admin", "admins"} : pc[r] = "accepted" =>
    (HasRole(verdict[r], <<name>>) <=> Claimed(token[r], name))

\* README.md:212-214: with the role prefix "/" the group "/admins" maps to the role
\* "admin" that RequireRole asks for.  The code strips the prefix only.
PrefixedAdminsAreAdmin ==
  \A r \in Requests :
    /\ pc[r] = "accepted" /\ env["AUTH_PROVIDER"] = "pomerium"
    /\ env["AUTH_POMERIUM_ROLE_PREFIX"] = "/" /\ <<"/", "admins">> \in token[r].groups
    => HasRole(verdict[r], <<"admin">>)

\* A genuine token with good claims is refused only if the key cache does not give its
\* key.
RefusedForCause ==
  \A r \in Requests : pc[r] = "done" /\ token[r] # None =>
    \/ ~Genuine(token[r])
    \/ result[r] \in {"unknown", "error"}
    \/ ~GoodClaims(token[r], judged[r])

\* The reasons that are about a claim, and what each reason says.
ClaimReasons == {"token expired", "token issued in the future", "token not yet valid",
                 "unexpected issuer", "unexpected audience", "missing required claim",
                 "missing expiry", "missing subject"}
Cause(t, why, res, time) ==
  \/ why = "malformed token" /\ (t.form # "jwt" \/ (Genuine(t) /\ ~t.typed))
  \/ why = "unexpected signing algorithm" /\ t.alg # provider.Algorithm
  \/ why = "missing key id" /\ t.kid = None
  \/ why = "no usable verification key" /\ res \in {"unknown", "error"}
  \/ /\ why = "verification key type does not match pinned algorithm"
     /\ KeyType[t.kid] # TypeFor(provider.Algorithm)
  \/ why = "invalid signature" /\ t.alg = provider.Algorithm /\ t.signer # t.kid
  \/ why = "token expired" /\ time >= t.exp + Leeway
  \/ why = "token issued in the future" /\ time < t.iat - Leeway
  \/ why = "token not yet valid" /\ time < t.nbf - Leeway
  \/ why = "unexpected issuer" /\ t.iss \notin {None, provider.Issuer}
  \/ why = "unexpected audience" /\ t.aud # {} /\ provider.Audience \notin t.aud
  \/ why = "missing required claim" /\ (t.iss = None \/ t.aud = {})
  \/ why = "missing expiry" /\ t.exp = None
  \/ why = "missing subject" /\ t.sub = ""

\* mapJWTError: what the reason of a refusal says is so, for every token whose algorithm
\* golang-jwt knows (for the others see PinnedMethodReason), and a reason about a claim is
\* given only for a token that is genuine.
ReasonIsTrue ==
  \A r \in Requests : pc[r] = "done" /\ token[r] # None =>
    /\ token[r].alg \in Registered => Cause(token[r], verdict[r], result[r], judged[r])
    /\ verdict[r] \in ClaimReasons => Genuine(token[r])

\* jwt.go:217-219: none, HS256 and a lower-case algorithm are all rejections of a pinned
\* method, reported as an algorithm problem.  A lower-case one is not: golang-jwt finds no
\* such method, and the reason is "no usable verification key", though none was asked for.
PinnedMethodReason ==
  \A r \in Requests :
    /\ pc[r] = "done" /\ token[r] # None
    /\ token[r].form = "jwt" /\ token[r].alg \in {"none", "HS256", "rs256", "es256"}
    => verdict[r] = "unexpected signing algorithm"

\* At least one of the two statements is so: a behaviour that violates this one has a token
\* for each of them that is treated otherwise.
OneStatementHolds == PrefixedAdminsAreAdmin \/ PinnedMethodReason
=============================================================================
