-------------------------- MODULE JWTVerifyProofs --------------------------
(***************************************************************************)
(* Theorems about JWTVerify: its type invariant, and that a token is       *)
(* accepted only if it is genuine and good (AcceptedIsGenuine) and refused *)
(* only for a cause (RefusedForCause), for any requests, key ids,          *)
(* environments, tokens, leeway and bound on the clock.                    *)
(*                                                                         *)
(* The inductive invariant says of each request what its token has been    *)
(* found to be by the step it is at (ReqInv), of the start that requests   *)
(* come in only once a provider is built, which then never changes         *)
(* (StartInv), and of the key cache that it holds published keys and waits *)
(* for the key id of the token (CacheInv).                                 *)
(***************************************************************************)
EXTENDS JWTVerify, NatLemmas, SequenceTheorems

StartInv ==
  /\ env \in Environments
  /\ problems \in {None, Problems(env)}
  /\ provider \in {None, ProviderFor(env)}
  /\ provider # None => problems = {}
  /\ serving => Built
  /\ Built => provider.Algorithm \in {"RS256", "ES256"}
  /\ now \in 0..MaxClock
  /\ \A r \in Requests : pc[r] # "idle" => serving

CacheInv ==
  /\ idpKeys \cup keys \cup received \subseteq published /\ published \subseteq Kids
  /\ DOMAIN kid = Requests /\ DOMAIN result = Requests
  /\ \A r \in Requests : pc[r] = "asked" <=> kid[r] # None

ReqTypes ==
  /\ pc \in [Requests -> {"idle", "asked", "signed", "accepted", "done"}]
  /\ arrived \in [Requests -> 0..MaxClock \cup {None}]
  /\ judged \in [Requests -> 0..MaxClock \cup {None}]
  /\ DOMAIN token = Requests /\ DOMAIN verdict = Requests

\* What RefusedForCause asks of a request that was refused.
HasCause(r) ==
  \/ ~Genuine(token[r])
  \/ result[r] \in {"unknown", "error"}
  \/ ~GoodClaims(token[r], judged[r])

\* What ReasonIsTrue asks of it.
TrueReason(r) ==
  /\ token[r].alg \in Registered => Cause(token[r], verdict[r], result[r], judged[r])
  /\ verdict[r] \in ClaimReasons => Genuine(token[r])

ReqInv(r) ==
  /\ pc[r] = "idle" => token[r] = None
  /\ pc[r] \in {"asked", "signed", "accepted"} => token[r] \in Tokens
  /\ pc[r] = "asked" =>
       /\ ParseErrors(token[r]) = {} /\ KeyFuncErrors(token[r]) = {}
       /\ kid[r] = token[r].kid
  /\ pc[r] \in {"signed", "accepted"} => Genuine(token[r]) /\ token[r].kid \in published
  /\ pc[r] = "accepted" =>
       GoodClaims(token[r], judged[r]) /\ verdict[r] = Principal(token[r])
  /\ pc[r] = "done" /\ token[r] # None => HasCause(r) /\ TrueReason(r)

Inv == StartInv /\ CacheInv /\ ReqTypes /\ \A r \in Requests : ReqInv(r)

----------------------------------------------------------------------------
(* What the provider and the parser find.                                  *)

\* Whatever provider is built pins one of the two algorithms.
LEMMA AlgorithmPinned ==
  ASSUME NEW name, NEW s, "error" \notin DOMAIN NewProvider(name, s)
  PROVE  NewProvider(name, s).Algorithm \in {"RS256", "ES256"}
<1>1. ASSUME NEW why PROVE "error" \in DOMAIN Failed(why)
  BY DEF Failed
<1>2. ASSUME NEW cfg, "error" \notin DOMAIN NewJWTProvider(cfg)
      PROVE  NewJWTProvider(cfg).Algorithm \in {"RS256", "ES256"}
  BY <1>1, <1>2 DEF NewJWTProvider
<1>3. CASE name = "cloudflare-access"
  BY <1>1, <1>2, <1>3 DEF NewProvider, NewCloudflare
<1>4. CASE name = "local"
  BY <1>1, <1>2, <1>4 DEF NewProvider, NewLocal
<1>5. CASE name = "pomerium"
  BY <1>1, <1>2, <1>5 DEF NewProvider, NewPomerium
<1>6. CASE name \notin {"cloudflare-access", "local", "pomerium"}
  BY <1>1, <1>6 DEF NewProvider
<1> QED BY <1>3, <1>4, <1>5, <1>6

\* A team domain that is well formed names a team, with its suffix or without.
LEMMA TeamNamed ==
  ASSUME NEW d, ValidTeamDomain(d)
  PROVE  Team(d) \in Teams /\ d \in {Team(d), Team(d) \o Suffix}
<1>1. CASE \E t \in Teams : d = t \o Suffix
  <2>. DEFINE t0 == CHOOSE t \in Teams : d = t \o Suffix
  <2>1. t0 \in Teams /\ d = t0 \o Suffix
    BY <1>1, Zenon
  <2>2. Team(d) = t0
    BY <1>1, Zenon DEF Team
  <2> QED BY <2>1, <2>2, Zenon
<1>2. CASE ~\E t \in Teams : d = t \o Suffix
  <2>1. Team(d) = d /\ d \in Teams
    BY <1>2, Zenon DEF Team, ValidTeamDomain
  <2> QED BY <2>1
<1> QED BY <1>1, <1>2

\* A constructor that fails returns its error.
LEMMA FailedIs ==
  ASSUME NEW why
  PROVE  "error" \in DOMAIN Failed(why) /\ Failed(why).error = why
BY DEF Failed

\* What the last constructor objects to, and that it keeps what it is given.
LEMMA PinnedOrFailed ==
  ASSUME NEW cfg
  PROVE  LET p == NewJWTProvider(cfg) IN
         \/ "error" \in DOMAIN p /\ p.error = "missing"
              /\ "" \in {cfg.Header, cfg.Issuer, cfg.Audience, cfg.JWKSURL}
         \/ "error" \in DOMAIN p /\ p.error = "unsupported algorithm"
         \/ p = cfg /\ cfg.Algorithm \in {"RS256", "ES256"}
BY DEF NewJWTProvider, Failed

\* What becomes of an environment that selects Cloudflare Access: a value that Load asks
\* for is missing, Load does not look at what is wrong, or its settings arrive.
CloudflareOutcome(e, p) ==
  \/ /\ "error" \in DOMAIN p /\ p.error = "missing"
     /\ "" \in {e["AUTH_CLOUDFLARE_TEAM_DOMAIN"], e["AUTH_CLOUDFLARE_AUDIENCE"]}
  \/ "error" \in DOMAIN p /\ p.error \in {"invalid team domain", "unsupported algorithm"}
  \/ /\ "error" \notin DOMAIN p
     /\ \E t \in Teams :
          /\ e["AUTH_CLOUDFLARE_TEAM_DOMAIN"] \in {t, t \o Suffix}
          /\ p.Issuer = "https://" \o t \o Suffix
          /\ p.JWKSURL = "https://" \o t \o Suffix \o "/cdn-cgi/access/certs"
     /\ p.Audience = e["AUTH_CLOUDFLARE_AUDIENCE"] /\ p.Algorithm = "RS256"
     /\ p.MapClaims = CloudflareMapping

\* It is so of Cloudflare Access, by its name or as the default.
LEMMA CloudflareReached ==
  ASSUME NEW e, e["AUTH_PROVIDER"] = "" \/ e["AUTH_PROVIDER"] = "cloudflare-access"
  PROVE  CloudflareOutcome(e, ProviderFor(e))
<1>. DEFINE s == Settings(LoadedAuth(e))
            d == e["AUTH_CLOUDFLARE_TEAM_DOMAIN"]
            issuer == "https://" \o Team(d) \o Suffix
            url == issuer \o "/cdn-cgi/access/certs"
            cfg == [Header |-> "Cf-Access-Jwt-Assertion", Issuer |-> issuer,
                    Audience |-> s.Audience, Algorithm |-> "RS256", JWKSURL |-> url,
                    MapClaims |-> CloudflareMapping]
<1>1. s.TeamDomain = d /\ s.Audience = e["AUTH_CLOUDFLARE_AUDIENCE"]
  BY DEF Settings, LoadedAuth
<1>2. ProviderFor(e) = NewCloudflare(s)
  BY DEF ProviderFor, NewProvider, LoadedAuth, EnvString
<1>. HIDE DEF s
<1>3. CASE d = "" \/ s.Audience = ""
  <2>1. NewCloudflare(s) = Failed("missing")
    BY <1>1, <1>3 DEF NewCloudflare
  <2> QED BY <1>1, <1>2, <1>3, <2>1, FailedIs DEF CloudflareOutcome
<1>4. CASE ~(d = "" \/ s.Audience = "") /\ ~ValidTeamDomain(d)
  <2>1. NewCloudflare(s) = Failed("invalid team domain")
    BY <1>1, <1>4 DEF NewCloudflare
  <2> QED BY <1>2, <2>1, FailedIs DEF CloudflareOutcome
<1>5. CASE ~(d = "" \/ s.Audience = "") /\ ValidTeamDomain(d)
  <2>1. NewCloudflare(s) = NewJWTProvider(cfg)
    BY <1>1, <1>5 DEF NewCloudflare
  <2>2. Team(d) \in Teams /\ d \in {Team(d), Team(d) \o Suffix}
    BY <1>5, TeamNamed
  <2>3. issuer # "" /\ url # ""
    BY <2>2, TeamsAssumption
  <2>. HIDE DEF issuer, url
  <2>4. cfg.Header # "" /\ cfg.Issuer # "" /\ cfg.Audience # "" /\ cfg.JWKSURL # ""
    BY <1>5, <2>3
  <2>5. /\ "error" \notin DOMAIN cfg /\ cfg.Issuer = issuer /\ cfg.JWKSURL = url
        /\ cfg.Audience = s.Audience /\ cfg.Algorithm = "RS256"
        /\ cfg.MapClaims = CloudflareMapping
    OBVIOUS
  <2>. HIDE DEF cfg
  <2>6. \/ "error" \in DOMAIN ProviderFor(e) /\ ProviderFor(e).error = "unsupported algorithm"
        \/ ProviderFor(e) = cfg
    BY <1>2, <2>1, <2>4, PinnedOrFailed
  <2> QED BY <1>1, <2>2, <2>5, <2>6 DEF CloudflareOutcome, issuer, url
<1> QED BY <1>3, <1>4, <1>5

\* The same of the two providers whose settings are given one by one.
OwnOutcome(e, p, own, mapping) ==
  \/ /\ "error" \in DOMAIN p /\ p.error = "missing"
     /\ "" \in {e[own.Issuer], e[own.Audience], e[own.JWKSURL]}
  \/ "error" \in DOMAIN p /\ p.error = "unsupported algorithm"
  \/ /\ "error" \notin DOMAIN p
     /\ p.Issuer = e[own.Issuer] /\ p.Audience = e[own.Audience]
     /\ p.JWKSURL = e[own.JWKSURL]
     /\ e[own.Header] # "" => p.Header = e[own.Header]
     /\ e[own.Algorithm] # "" => p.Algorithm = e[own.Algorithm]
     /\ p.MapClaims = mapping

\* It is so of the local provider.
LEMMA LocalReached ==
  ASSUME NEW e, e["AUTH_PROVIDER"] = "local"
  PROVE  OwnOutcome(e, ProviderFor(e), Own("local"), LocalMapping)
<1>. DEFINE s == Settings(LoadedAuth(e))
            own == Own("local")
            cfg == [Header |-> EnvString(s.LocalHeader, "Cf-Access-Jwt-Assertion"),
                    Issuer |-> s.LocalIssuer, Audience |-> s.LocalAudience,
                    Algorithm |-> EnvString(s.LocalAlgorithm, "RS256"),
                    JWKSURL |-> s.JWKSURL, MapClaims |-> LocalMapping]
<1>1. /\ s.LocalIssuer = e[own.Issuer] /\ s.LocalAudience = e[own.Audience]
      /\ s.JWKSURL = e[own.JWKSURL]
      /\ s.LocalHeader = EnvString(e[own.Header], "Cf-Access-Jwt-Assertion")
      /\ s.LocalAlgorithm = EnvString(e[own.Algorithm], "RS256")
  BY DEF Settings, LoadedAuth, Own
<1>2. ProviderFor(e) = NewLocal(s)
  BY DEF ProviderFor, NewProvider, LoadedAuth, EnvString
<1>. HIDE DEF s, own
<1>3. CASE s.LocalIssuer = "" \/ s.LocalAudience = "" \/ s.JWKSURL = ""
  <2>1. NewLocal(s) = Failed("missing")
    BY <1>3 DEF NewLocal
  <2>2. "" \in {e[own.Issuer], e[own.Audience], e[own.JWKSURL]}
    BY <1>1, <1>3
  <2> QED BY <1>2, <2>1, <2>2, FailedIs DEF OwnOutcome, own
<1>4. CASE ~(s.LocalIssuer = "" \/ s.LocalAudience = "" \/ s.JWKSURL = "")
  <2>1. ProviderFor(e) = NewJWTProvider(cfg)
    BY <1>2, <1>4 DEF NewLocal
  <2>2. /\ e[own.Header] # "" => cfg.Header = e[own.Header]
        /\ e[own.Algorithm] # "" => cfg.Algorithm = e[own.Algorithm]
        /\ cfg.Header # ""
    BY <1>1 DEF EnvString
  <2>3. /\ cfg.Issuer = e[own.Issuer] /\ cfg.Audience = e[own.Audience]
        /\ cfg.JWKSURL = e[own.JWKSURL] /\ cfg.MapClaims = LocalMapping
        /\ "error" \notin DOMAIN cfg
    BY <1>1
  <2>4. cfg.Issuer # "" /\ cfg.Audience # "" /\ cfg.JWKSURL # ""
    BY <1>4
  <2>. HIDE DEF cfg
  <2>5. \/ "error" \in DOMAIN ProviderFor(e) /\ ProviderFor(e).error = "unsupported algorithm"
        \/ ProviderFor(e) = cfg
    BY <2>1, <2>2, <2>4, PinnedOrFailed
  <2> QED BY <2>2, <2>3, <2>5 DEF OwnOutcome, own
<1> QED BY <1>3, <1>4

\* It is so of Pomerium.
LEMMA PomeriumReached ==
  ASSUME NEW e, e["AUTH_PROVIDER"] = "pomerium"
  PROVE  OwnOutcome(e, ProviderFor(e), Own("pomerium"),
                    PomeriumMapping(e["AUTH_POMERIUM_ROLE_PREFIX"]))
<1>. DEFINE s == Settings(LoadedAuth(e))
            own == Own("pomerium")
            mapping == PomeriumMapping(s.PomeriumRolePrefix)
            cfg == [Header |-> EnvString(s.PomeriumHeader, "X-Pomerium-Jwt-Assertion"),
                    Issuer |-> s.PomeriumIssuer, Audience |-> s.PomeriumAudience,
                    Algorithm |-> EnvString(s.PomeriumAlgorithm, "ES256"),
                    JWKSURL |-> s.PomeriumJWKSURL, MapClaims |-> mapping]
<1>1. /\ s.PomeriumIssuer = e[own.Issuer] /\ s.PomeriumAudience = e[own.Audience]
      /\ s.PomeriumJWKSURL = e[own.JWKSURL]
      /\ s.PomeriumHeader = EnvString(e[own.Header], "X-Pomerium-Jwt-Assertion")
      /\ s.PomeriumAlgorithm = EnvString(e[own.Algorithm], "ES256")
      /\ s.PomeriumRolePrefix = e["AUTH_POMERIUM_ROLE_PREFIX"]
  BY DEF Settings, LoadedAuth, Own
<1>2. ProviderFor(e) = NewPomerium(s)
  BY DEF ProviderFor, NewProvider, LoadedAuth, EnvString
<1>. HIDE DEF s, own, mapping
<1>3. CASE "" \in {s.PomeriumJWKSURL, s.PomeriumIssuer, s.PomeriumAudience}
  <2>1. NewPomerium(s) = Failed("missing")
    BY <1>3 DEF NewPomerium
  <2>2. "" \in {e[own.Issuer], e[own.Audience], e[own.JWKSURL]}
    BY <1>1, <1>3
  <2> QED BY <1>2, <2>1, <2>2, FailedIs DEF OwnOutcome, own
<1>4. CASE "" \notin {s.PomeriumJWKSURL, s.PomeriumIssuer, s.PomeriumAudience}
  <2>1. ProviderFor(e) = NewJWTProvider(cfg)
    BY <1>2, <1>4 DEF NewPomerium, mapping
  <2>2. /\ e[own.Header] # "" => cfg.Header = e[own.Header]
        /\ e[own.Algorithm] # "" => cfg.Algorithm = e[own.Algorithm]
        /\ cfg.Header # ""
    BY <1>1 DEF EnvString
  <2>3. /\ cfg.Issuer = e[own.Issuer] /\ cfg.Audience = e[own.Audience]
        /\ cfg.JWKSURL = e[own.JWKSURL] /\ cfg.MapClaims = mapping
        /\ "error" \notin DOMAIN cfg
    BY <1>1
  <2>4. cfg.Issuer # "" /\ cfg.Audience # "" /\ cfg.JWKSURL # ""
    BY <1>4
  <2>. HIDE DEF cfg
  <2>5. \/ "error" \in DOMAIN ProviderFor(e) /\ ProviderFor(e).error = "unsupported algorithm"
        \/ ProviderFor(e) = cfg
    BY <2>1, <2>2, <2>4, PinnedOrFailed
  <2> QED BY <1>1, <2>2, <2>3, <2>5 DEF OwnOutcome, own, mapping
<1> QED BY <1>3, <1>4

\* No other name selects a provider.
LEMMA NoOtherReached ==
  ASSUME NEW e, e["AUTH_PROVIDER"] \notin {"", "cloudflare-access", "local", "pomerium"}
  PROVE  "error" \in DOMAIN ProviderFor(e) /\ ProviderFor(e).error = "unknown provider"
BY DEF ProviderFor, NewProvider, LoadedAuth, EnvString, Failed

\* The time claims of a token are times, or absent.
LEMMA TokenTimes ==
  ASSUME NEW t \in Tokens
  PROVE  {t.exp, t.nbf, t.iat} \subseteq Int \cup {None}
<1>1. PICK f \in Flaws : t = Changed(Good(provider), f)
  BY DEF Tokens
<1>2. /\ {"exp", "nbf", "iat"} \subseteq DOMAIN Good(provider)
      /\ Good(provider).exp = 1 /\ Good(provider).nbf = 0 /\ Good(provider).iat = 0
  BY DEF Good
<1>3. /\ t.exp = IF "exp" \in DOMAIN f THEN f["exp"] ELSE 1
      /\ t.nbf = IF "nbf" \in DOMAIN f THEN f["nbf"] ELSE 0
      /\ t.iat = IF "iat" \in DOMAIN f THEN f["iat"] ELSE 0
  BY <1>1, <1>2 DEF Changed
<1> QED BY <1>3, VerifyAssumption

\* What roles are made of.
Parts == STRING \cup {"admin", "admins", "/"}

\* The roles and groups of a token are sequences of parts.
LEMMA TokenRoles ==
  ASSUME NEW t \in Tokens
  PROVE  t.roles \subseteq Seq(Parts) /\ t.groups \subseteq Seq(Parts)
<1>1. PICK f \in Flaws : t = Changed(Good(provider), f)
  BY DEF Tokens
<1>2. /\ {"roles", "groups"} \subseteq DOMAIN Good(provider)
      /\ Good(provider).roles = {<<"admin">>} /\ Good(provider).groups = {<<"/", "admin">>}
  BY DEF Good
<1>3. /\ t.roles = IF "roles" \in DOMAIN f THEN f["roles"] ELSE {<<"admin">>}
      /\ t.groups = IF "groups" \in DOMAIN f THEN f["groups"] ELSE {<<"/", "admin">>}
  BY <1>1, <1>2 DEF Changed
<1>4. <<"admin">> \in Seq(Parts) /\ <<"/", "admin">> \in Seq(Parts)
  BY DEF Parts
<1>5. Seq(STRING) \subseteq Seq(Parts)
  <2>1. STRING \subseteq Parts
    BY DEF Parts
  <2>2. ASSUME NEW q \in Seq(STRING) PROVE q \in Seq(Parts)
    BY <2>1, SeqMonotonic, Zenon
  <2> QED BY <2>2
<1>6. \A x \in {"roles", "groups"} : x \in DOMAIN f => f[x] \subseteq Seq(STRING)
  BY VerifyAssumption
<1> QED BY <1>3, <1>4, <1>5, <1>6

\* What is left of a sequence without its head.
LEMMA TailOf ==
  ASSUME NEW S, NEW s \in Seq(S), s # <<>>
  PROVE  /\ Head(s) = s[1] /\ Len(s) \in Nat \ {0}
         /\ Tail(s) \in Seq(S) /\ Len(Tail(s)) = Len(s) - 1
         /\ \A i \in 1..Len(s) - 1 : Tail(s)[i] = s[i + 1]
BY SMT

\* No prefix; a name by itself, and behind a prefix.
NoPrefix == ""
Bare(name) == <<name>>
Behind(prefix, name) == <<prefix, name>>

\* A role is a name without its prefix if it is just that name and not itself the prefix, or
\* if the prefix comes before it.
LEMMA TrimmedTo ==
  ASSUME NEW role \in Seq(Parts), NEW name \in Parts, NEW prefix, prefix # NoPrefix \/ prefix # name
  PROVE  TrimRolePrefix(prefix, role) = Bare(name) <=>
           \/ prefix # name /\ role = Bare(name)
           \/ prefix # NoPrefix /\ role = Behind(prefix, name)
<1>. DEFINE w == <<name>>
<1>0. w \in Seq(Parts) /\ Len(w) = 1 /\ w[1] = name /\ w # <<>> /\ Head(w) = name
  OBVIOUS
<1>1. ASSUME role # <<>>, Head(role) = prefix, Tail(role) = w
      PROVE  role = <<prefix, name>>
  <2>. HIDE DEF w
  <2>1. Len(Tail(role)) = 1 /\ Tail(role)[1] = name
    BY <1>0, <1>1
  <2>4. Len(role) = 2 /\ role[1] = prefix
    BY <1>1, <2>1, TailOf
  <2>5. role[2] = name
    <3>1. \A i \in 1..1 : Tail(role)[i] = role[i + 1]
      <4>1. \A i \in 1..Len(role) - 1 : Tail(role)[i] = role[i + 1]
        BY <1>1, TailOf
      <4>2. Len(role) - 1 = 1
        BY <2>4
      <4> QED BY <4>1, <4>2
    <3>2. 1 \in 1..1 /\ 1 + 1 = 2
      OBVIOUS
    <3> QED BY <2>1, <3>1, <3>2
  <2>2. Len(role) = 2 /\ role[1] = prefix /\ role[2] = name
    BY <2>4, <2>5
  <2>3. role = [i \in 1..2 |-> role[i]]
    BY <2>2, LenProperties
  <2> QED BY <2>2, <2>3
<1>2. ASSUME role = <<prefix, name>>
      PROVE  role # <<>> /\ Head(role) = prefix /\ Tail(role) = w
  <2>1. role # <<>> /\ Len(role) = 2 /\ role[1] = prefix /\ role[2] = name
    BY <1>2
  <2>. HIDE DEF w
  <2>6. Tail(role) \in Seq(Parts) /\ Len(Tail(role)) = 1
    BY <2>1, TailOf
  <2>7. Tail(role)[1] = name
    <3>1. \A i \in 1..1 : Tail(role)[i] = role[i + 1]
      <4>1. \A i \in 1..Len(role) - 1 : Tail(role)[i] = role[i + 1]
        BY <2>1, TailOf
      <4> QED BY <2>1, <4>1
    <3>2. 1 \in 1..1 /\ 1 + 1 = 2
      OBVIOUS
    <3> QED BY <2>1, <3>1, <3>2
  <2>2. Tail(role) \in Seq(Parts) /\ Len(Tail(role)) = 1 /\ Tail(role)[1] = name
    BY <2>6, <2>7
  <2>3. \A i \in 1..1 : i = 1
    OBVIOUS
  <2>4. \A i \in 1..1 : Tail(role)[i] = w[i]
    BY <1>0, <2>2, <2>3
  <2>5. Tail(role) = w
    BY <1>0, <2>2, <2>4, SeqEqual
  <2> QED BY <2>1, <2>5, TailOf
<1>3. ASSUME role = w, Head(role) = prefix PROVE prefix = name
  BY <1>3
<1>. HIDE DEF w
<1>4. w # <<prefix, name>>
  BY DEF w
<1> QED
  <2>. USE DEF Bare, Behind, NoPrefix
  <2>1. CASE prefix = NoPrefix
    BY <1>4, <2>1 DEF TrimRolePrefix, w
  <2>2. CASE prefix # NoPrefix /\ role # <<>> /\ Head(role) = prefix
    <3>1. TrimRolePrefix(prefix, role) = Tail(role)
      BY <2>2 DEF TrimRolePrefix
    <3>2. Tail(role) = w <=> role = <<prefix, name>>
      BY <1>1, <1>2, <2>2
    <3>3. ~(prefix # name /\ role = w)
      BY <1>3, <2>2
    <3> QED BY <2>2, <3>1, <3>2, <3>3 DEF w
  <2>3. CASE prefix # NoPrefix /\ ~(role # <<>> /\ Head(role) = prefix)
    <3>1. TrimRolePrefix(prefix, role) = role
      BY <2>3 DEF TrimRolePrefix
    <3>2. role # <<prefix, name>>
      BY <1>2, <2>3
    <3>3. role = w => prefix # name
      BY <1>0, <2>3
    <3> QED BY <3>1, <3>2, <3>3 DEF w
  <2> QED BY <2>1, <2>2, <2>3

\* The parser goes on with the pinned algorithm, and with no other.
LEMMA ParseMeans ==
  ASSUME NEW t, provider.Algorithm \in {"RS256", "ES256"}
  PROVE  ParseErrors(t) = {} <=> t.form = "jwt" /\ t.alg = provider.Algorithm
BY DEF ParseErrors, Registered, Readable

\* A key id must be given.
LEMMA KeyFuncMeans ==
  ASSUME NEW t
  PROVE  KeyFuncErrors(t) = {} <=> t.kid # None
BY DEF KeyFuncErrors

\* The signature is of the key that the token names, which is of the pinned type.
LEMMA SignatureMeans ==
  ASSUME NEW t
  PROVE  SignatureErrors(t) = {} <=>
           KeyType[t.kid] = TypeFor(provider.Algorithm) /\ t.signer = t.kid
BY DEF SignatureErrors

\* The validator and claimsFromMap object to nothing exactly if the claims are good.
LEMMA ClaimsMean ==
  ASSUME NEW t \in Tokens, NEW time \in Int
  PROVE  GoodClaims(t, time) <=> ClaimsErrors(t, time) = {} /\ t.exp # None /\ t.sub # ""
<1>1. ClaimsErrors(t, time) = {} <=>
        /\ t.typed
        /\ Before(time, t.exp) /\ After(time, t.nbf) /\ After(time, t.iat)
        /\ provider.Audience \in t.aud /\ t.iss = provider.Issuer
  BY DEF ClaimsErrors
<1>2. ASSUME NEW c \in Int \cup {None}
      PROVE  After(time, c) <=> (c # None => c <= time + Leeway)
  BY VerifyAssumption DEF After
<1>3. /\ After(time, t.nbf) <=> (t.nbf # None => t.nbf <= time + Leeway)
      /\ After(time, t.iat) <=> (t.iat # None => t.iat <= time + Leeway)
  BY <1>2, TokenTimes
<1> QED BY <1>1, <1>3 DEF GoodClaims, Before

----------------------------------------------------------------------------
(* The reason of a refusal.                                                *)

\* mapJWTError looks for thirteen sentinels.
LEMMA MappedLength == DOMAIN Mapped = 1..13
BY DEF Mapped

\* They are these, in this order, each with its reason.
LEMMA MappedPairs ==
  \A n \in 1..13 :
    \/ n = 1 /\ Mapped[n][1] = "errMissingKeyID"
         /\ Mapped[n][2] = "missing key id"
    \/ n = 2 /\ Mapped[n][1] = "errNoUsableKey"
         /\ Mapped[n][2] = "no usable verification key"
    \/ n = 3 /\ Mapped[n][1] = "errKeyTypeMismatch"
         /\ Mapped[n][2] = "verification key type does not match pinned algorithm"
    \/ n = 4 /\ Mapped[n][1] = "ErrTokenMalformed"
         /\ Mapped[n][2] = "malformed token"
    \/ n = 5 /\ Mapped[n][1] = "ErrInvalidType"
         /\ Mapped[n][2] = "malformed token"
    \/ n = 6 /\ Mapped[n][1] = "ErrTokenExpired"
         /\ Mapped[n][2] = "token expired"
    \/ n = 7 /\ Mapped[n][1] = "ErrTokenUsedBeforeIssued"
         /\ Mapped[n][2] = "token issued in the future"
    \/ n = 8 /\ Mapped[n][1] = "ErrTokenNotValidYet"
         /\ Mapped[n][2] = "token not yet valid"
    \/ n = 9 /\ Mapped[n][1] = "ErrTokenInvalidIssuer"
         /\ Mapped[n][2] = "unexpected issuer"
    \/ n = 10 /\ Mapped[n][1] = "ErrTokenInvalidAudience"
         /\ Mapped[n][2] = "unexpected audience"
    \/ n = 11 /\ Mapped[n][1] = "ErrTokenRequiredClaimMissing"
         /\ Mapped[n][2] = "missing required claim"
    \/ n = 12 /\ Mapped[n][1] = "ErrTokenSignatureInvalid"
         /\ Mapped[n][2] = "invalid signature"
    \/ n = 13 /\ Mapped[n][1] = "ErrTokenUnverifiable"
         /\ Mapped[n][2] = "no usable verification key"
<1>. TAKE n \in 1..13
<1>0. n \in {1, 2, 3, 4, 5, 6, 7, 8, 9, 10, 11, 12, 13}
  OBVIOUS
<1>1. CASE n = 1
  BY <1>1 DEF Mapped
<1>2. CASE n = 2
  BY <1>2 DEF Mapped
<1>3. CASE n = 3
  BY <1>3 DEF Mapped
<1>4. CASE n = 4
  BY <1>4 DEF Mapped
<1>5. CASE n = 5
  BY <1>5 DEF Mapped
<1>6. CASE n = 6
  BY <1>6 DEF Mapped
<1>7. CASE n = 7
  BY <1>7 DEF Mapped
<1>8. CASE n = 8
  BY <1>8 DEF Mapped
<1>9. CASE n = 9
  BY <1>9 DEF Mapped
<1>10. CASE n = 10
  BY <1>10 DEF Mapped
<1>11. CASE n = 11
  BY <1>11 DEF Mapped
<1>12. CASE n = 12
  BY <1>12 DEF Mapped
<1>13. CASE n = 13
  BY <1>13 DEF Mapped
<1> QED BY <1>0, <1>1, <1>2, <1>3, <1>4, <1>5, <1>6, <1>7, <1>8, <1>9, <1>10, <1>11, <1>12, <1>13

\* mapJWTError finds the first sentinel that an error wraps, if it wraps any.
LEMMA ReasonIsFirst ==
  ASSUME NEW errors, NEW ran, \E n \in DOMAIN Mapped : Mapped[n][1] \in errors
  PROVE  \E n \in 1..13 :
           /\ Mapped[n][1] \in errors
           /\ \A m \in 1..n-1 : Mapped[m][1] \notin errors
           /\ Reason(errors, ran) =
                IF Mapped[n][1] = "ErrTokenSignatureInvalid" /\ ~ran
                THEN "unexpected signing algorithm" ELSE Mapped[n][2]
<1>. DEFINE First(n) == Mapped[n][1] \in errors /\ \A m \in 1..n-1 : Mapped[m][1] \notin errors
            n0 == CHOOSE n \in DOMAIN Mapped : First(n)
<1>1. DOMAIN Mapped = 1..13
  BY MappedLength
<1>2. \E n \in DOMAIN Mapped : First(n)
  <2>. DEFINE S == {n \in 1..13 : Mapped[n][1] \in errors}
  <2>1. S \in SUBSET Nat /\ S # {}
    BY <1>1
  <2>2. PICK n \in S : \A m \in S : n <= m
    BY <2>1, LeastNumber
  <2>3. ASSUME NEW m \in 1..n-1 PROVE Mapped[m][1] \notin errors
    BY <2>2
  <2> QED BY <1>1, <2>3
<1>3. n0 \in DOMAIN Mapped /\ First(n0)
  BY <1>2
<1>4. Reason(errors, ran) =
        IF Mapped[n0][1] = "ErrTokenSignatureInvalid" /\ ~ran
        THEN "unexpected signing algorithm" ELSE Mapped[n0][2]
  BY DEF Reason
<1> QED BY <1>1, <1>3, <1>4

\* No sentinel is looked for twice.
LEMMA SentinelsDiffer ==
  ASSUME NEW m \in 1..13, NEW n \in 1..13, Mapped[m][1] = Mapped[n][1]
  PROVE  m = n
BY MappedPairs

\* Of two sentinels the earlier one gives the reason.
LEMMA EarlierReason ==
  ASSUME NEW k \in 1..13, NEW j \in k..13, NEW ran
  PROVE  Reason({Mapped[k][1], Mapped[j][1]}, ran) =
           IF Mapped[k][1] = "ErrTokenSignatureInvalid" /\ ~ran
           THEN "unexpected signing algorithm" ELSE Mapped[k][2]
<1>. DEFINE errors == {Mapped[k][1], Mapped[j][1]}
<1>0. /\ \E n \in DOMAIN Mapped : Mapped[n][1] \in errors
      /\ Mapped[k][1] \in errors
      /\ \A e \in errors : e = Mapped[k][1] \/ e = Mapped[j][1]
  BY MappedLength
<1>. HIDE DEF errors
<1>1. PICK n \in 1..13 :
        /\ Mapped[n][1] \in errors
        /\ \A m \in 1..n-1 : Mapped[m][1] \notin errors
        /\ Reason(errors, ran) =
             IF Mapped[n][1] = "ErrTokenSignatureInvalid" /\ ~ran
             THEN "unexpected signing algorithm" ELSE Mapped[n][2]
  BY <1>0, ReasonIsFirst
<1>2. n = k
  <2>1. n = k \/ n = j
    <3>1. j \in 1..13
      OBVIOUS
    <3>2. Mapped[n][1] = Mapped[k][1] \/ Mapped[n][1] = Mapped[j][1]
      BY <1>0, <1>1
    <3> QED BY <3>1, <3>2, SentinelsDiffer
  <2>2. ~(k < n)
    <3>. SUFFICES ASSUME k < n PROVE FALSE
      OBVIOUS
    <3>1. k \in 1..n-1
      OBVIOUS
    <3> QED BY <1>0, <1>1, <3>1
  <2> QED BY <2>1, <2>2
<1> QED BY <1>1, <1>2 DEF errors

\* The sentinels that are told apart here.
LEMMA MappedHere ==
  /\ Mapped[1][1] = "errMissingKeyID" /\ Mapped[1][2] = "missing key id"
  /\ Mapped[2][1] = "errNoUsableKey" /\ Mapped[2][2] = "no usable verification key"
  /\ Mapped[3][1] = "errKeyTypeMismatch"
  /\ Mapped[3][2] = "verification key type does not match pinned algorithm"
  /\ Mapped[4][1] = "ErrTokenMalformed" /\ Mapped[4][2] = "malformed token"
  /\ Mapped[12][1] = "ErrTokenSignatureInvalid" /\ Mapped[12][2] = "invalid signature"
  /\ Mapped[13][1] = "ErrTokenUnverifiable"
  /\ Mapped[13][2] = "no usable verification key"
<1>1. /\ Mapped[1][1] = "errMissingKeyID" /\ Mapped[1][2] = "missing key id"
      /\ Mapped[2][1] = "errNoUsableKey" /\ Mapped[2][2] = "no usable verification key"
  BY DEF Mapped
<1>2. /\ Mapped[3][1] = "errKeyTypeMismatch"
      /\ Mapped[3][2] = "verification key type does not match pinned algorithm"
  BY DEF Mapped
<1>3. Mapped[4][1] = "ErrTokenMalformed" /\ Mapped[4][2] = "malformed token"
  BY DEF Mapped
<1>4. Mapped[12][1] = "ErrTokenSignatureInvalid" /\ Mapped[12][2] = "invalid signature"
  BY DEF Mapped
<1>5. /\ Mapped[13][1] = "ErrTokenUnverifiable"
      /\ Mapped[13][2] = "no usable verification key"
  BY DEF Mapped
<1> QED BY <1>1, <1>2, <1>3, <1>4, <1>5

\* The reason for which the parser stops before a key is asked for is about no claim, and
\* so if it knows the algorithm.
LEMMA ParseReasons ==
  ASSUME NEW t, NEW res, NEW time, NEW why,
         ParseErrors(t) # {}, why = Reason(ParseErrors(t), FALSE)
  PROVE  (t.alg \in Registered => Cause(t, why, res, time)) /\ why \notin ClaimReasons
<1>1. Reason({"ErrTokenMalformed"}, FALSE) = "malformed token"
  <2>1. {"ErrTokenMalformed"} = {Mapped[4][1], Mapped[4][1]}
    BY MappedHere
  <2>2. 4 \in 1..13 /\ 4 \in 4..13
    OBVIOUS
  <2> QED BY <2>1, <2>2, EarlierReason, MappedHere
<1>2. Reason({"ErrTokenUnverifiable"}, FALSE) = "no usable verification key"
  <2>1. {"ErrTokenUnverifiable"} = {Mapped[13][1], Mapped[13][1]}
    BY MappedHere
  <2>2. 13 \in 1..13 /\ 13 \in 13..13
    OBVIOUS
  <2> QED BY <2>1, <2>2, EarlierReason, MappedHere
<1>3. Reason({"ErrTokenSignatureInvalid"}, FALSE) = "unexpected signing algorithm"
  <2>1. {"ErrTokenSignatureInvalid"} = {Mapped[12][1], Mapped[12][1]}
    BY MappedHere
  <2>2. 12 \in 1..13 /\ 12 \in 12..13
    OBVIOUS
  <2> QED BY <2>1, <2>2, EarlierReason, MappedHere
<1>4. CASE ~Readable(t)
  <2>1. why = "malformed token"
    BY <1>1, <1>4 DEF ParseErrors
  <2> QED BY <1>4, <2>1 DEF Cause, ClaimReasons, Readable
<1>5. CASE Readable(t) /\ t.alg \notin Registered
  <2>1. why = "no usable verification key"
    BY <1>2, <1>5 DEF ParseErrors
  <2> QED BY <1>5, <2>1 DEF ClaimReasons
<1>6. CASE Readable(t) /\ t.alg \in Registered \ {provider.Algorithm}
  <2>1. why = "unexpected signing algorithm"
    BY <1>3, <1>6 DEF ParseErrors
  <2> QED BY <1>6, <2>1 DEF Cause, ClaimReasons
<1>7. CASE t.form = "bad signature" /\ t.alg \in Registered /\ t.alg = provider.Algorithm
  <2>1. why = "malformed token"
    BY <1>1, <1>7 DEF ParseErrors, Readable
  <2> QED BY <1>7, <2>1 DEF Cause, ClaimReasons
<1>8. CASE t.form = "jwt" /\ t.alg \in Registered /\ t.alg = provider.Algorithm
  BY <1>8 DEF ParseErrors, Readable
<1> QED BY <1>4, <1>5, <1>6, <1>7, <1>8 DEF Readable

\* So is that for which verificationKey does.
LEMMA KeyFuncReasons ==
  ASSUME NEW t, NEW res, NEW time, NEW why,
         KeyFuncErrors(t) # {}, why = Reason(KeyFuncErrors(t), TRUE)
  PROVE  Cause(t, why, res, time) /\ why \notin ClaimReasons
<1>1. Reason({"ErrTokenUnverifiable", "errMissingKeyID"}, TRUE) = "missing key id"
  <2>1. {"ErrTokenUnverifiable", "errMissingKeyID"} = {Mapped[1][1], Mapped[13][1]}
    BY MappedHere
  <2>2. 1 \in 1..13 /\ 13 \in 1..13
    OBVIOUS
  <2> QED BY <2>1, <2>2, EarlierReason, MappedHere
<1>2. t.kid = None /\ why = "missing key id"
  BY <1>1 DEF KeyFuncErrors
<1> QED BY <1>2 DEF Cause, ClaimReasons

\* So are those for which it stops once the key cache has answered.
LEMMA KeyReasons ==
  ASSUME NEW t, NEW res, NEW time, NEW why, t.alg = provider.Algorithm,
         \/ /\ res \in {"unknown", "error"}
            /\ why = Reason({"ErrTokenUnverifiable", "errNoUsableKey"}, TRUE)
         \/ SignatureErrors(t) # {} /\ why = Reason(SignatureErrors(t), TRUE)
  PROVE  Cause(t, why, res, time) /\ why \notin ClaimReasons
<1>1. Reason({"ErrTokenUnverifiable", "errNoUsableKey"}, TRUE) = "no usable verification key"
  <2>1. {"ErrTokenUnverifiable", "errNoUsableKey"} = {Mapped[2][1], Mapped[13][1]}
    BY MappedHere
  <2>2. 2 \in 1..13 /\ 13 \in 2..13
    OBVIOUS
  <2> QED BY <2>1, <2>2, EarlierReason, MappedHere
<1>2. Reason({"ErrTokenUnverifiable", "errKeyTypeMismatch"}, TRUE)
        = "verification key type does not match pinned algorithm"
  <2>1. {"ErrTokenUnverifiable", "errKeyTypeMismatch"} = {Mapped[3][1], Mapped[13][1]}
    BY MappedHere
  <2>2. 3 \in 1..13 /\ 13 \in 3..13
    OBVIOUS
  <2> QED BY <2>1, <2>2, EarlierReason, MappedHere
<1>3. Reason({"ErrTokenSignatureInvalid"}, TRUE) = "invalid signature"
  <2>1. {"ErrTokenSignatureInvalid"} = {Mapped[12][1], Mapped[12][1]}
    BY MappedHere
  <2>2. 12 \in 1..13 /\ 12 \in 12..13
    OBVIOUS
  <2> QED BY <2>1, <2>2, EarlierReason, MappedHere
<1>4. CASE /\ res \in {"unknown", "error"}
           /\ why = Reason({"ErrTokenUnverifiable", "errNoUsableKey"}, TRUE)
  BY <1>1, <1>4 DEF Cause, ClaimReasons
<1>5. CASE SignatureErrors(t) # {} /\ why = Reason(SignatureErrors(t), TRUE)
  <2>1. CASE KeyType[t.kid] # TypeFor(provider.Algorithm)
    <3>1. why = "verification key type does not match pinned algorithm"
      BY <1>2, <1>5, <2>1 DEF SignatureErrors
    <3> QED BY <2>1, <3>1 DEF Cause, ClaimReasons
  <2>2. CASE KeyType[t.kid] = TypeFor(provider.Algorithm) /\ t.signer # t.kid
    <3>1. why = "invalid signature"
      BY <1>3, <1>5, <2>2 DEF SignatureErrors
    <3> QED BY <2>2, <3>1 DEF Cause, ClaimReasons
  <2> QED BY <1>5, <2>1, <2>2 DEF SignatureErrors
<1> QED BY <1>4, <1>5

\* Each sentinel of the validator is about a claim that is as the reason says.
LEMMA ClaimSentinels ==
  ASSUME NEW t \in Tokens, NEW time \in Int, NEW e \in ClaimsErrors(t, time)
  PROVE  \/ e = "ErrInvalidType" /\ ~t.typed
         \/ e = "ErrTokenExpired" /\ time >= t.exp + Leeway
         \/ e = "ErrTokenUsedBeforeIssued" /\ time < t.iat - Leeway
         \/ e = "ErrTokenNotValidYet" /\ time < t.nbf - Leeway
         \/ e = "ErrTokenInvalidIssuer" /\ t.iss \notin {None, provider.Issuer}
         \/ e = "ErrTokenInvalidAudience" /\ t.aud # {} /\ provider.Audience \notin t.aud
         \/ e = "ErrTokenRequiredClaimMissing" /\ (t.iss = None \/ t.aud = {})
<1>1. \/ e = "ErrInvalidType" /\ ~t.typed
      \/ e = "ErrTokenExpired" /\ ~Before(time, t.exp)
      \/ e = "ErrTokenUsedBeforeIssued" /\ ~After(time, t.iat)
      \/ e = "ErrTokenNotValidYet" /\ ~After(time, t.nbf)
      \/ e = "ErrTokenInvalidIssuer" /\ t.iss \notin {None, provider.Issuer}
      \/ e = "ErrTokenInvalidAudience" /\ t.aud # {} /\ provider.Audience \notin t.aud
      \/ e = "ErrTokenRequiredClaimMissing" /\ (t.iss = None \/ t.aud = {})
  BY DEF ClaimsErrors
<1>2. ASSUME NEW c \in Int \cup {None}
      PROVE  /\ ~After(time, c) => time < c - Leeway
             /\ ~Before(time, c) => time >= c + Leeway
  BY VerifyAssumption DEF After, Before
<1>3. /\ ~Before(time, t.exp) => time >= t.exp + Leeway
      /\ ~After(time, t.iat) => time < t.iat - Leeway
      /\ ~After(time, t.nbf) => time < t.nbf - Leeway
  BY <1>2, TokenTimes
<1> QED BY <1>1, <1>3

\* Each of its sentinels is looked for.
LEMMA ClaimSentinelsMapped ==
  ASSUME NEW e, e \in {"ErrInvalidType", "ErrTokenExpired", "ErrTokenUsedBeforeIssued",
                       "ErrTokenNotValidYet", "ErrTokenInvalidIssuer",
                       "ErrTokenInvalidAudience", "ErrTokenRequiredClaimMissing"}
  PROVE  \E n \in DOMAIN Mapped : Mapped[n][1] = e
<1>1. Mapped[5][1] = "ErrInvalidType" /\ Mapped[6][1] = "ErrTokenExpired"
  BY DEF Mapped
<1>2. Mapped[7][1] = "ErrTokenUsedBeforeIssued" /\ Mapped[8][1] = "ErrTokenNotValidYet"
  BY DEF Mapped
<1>3. Mapped[9][1] = "ErrTokenInvalidIssuer" /\ Mapped[10][1] = "ErrTokenInvalidAudience"
  BY DEF Mapped
<1>4. Mapped[11][1] = "ErrTokenRequiredClaimMissing"
  BY DEF Mapped
<1>5. \A n \in 5..11 : n \in DOMAIN Mapped
  BY MappedLength
<1>6. /\ 5 \in 5..11 /\ 6 \in 5..11 /\ 7 \in 5..11 /\ 8 \in 5..11
      /\ 9 \in 5..11 /\ 10 \in 5..11 /\ 11 \in 5..11
  OBVIOUS
<1> QED BY <1>1, <1>2, <1>3, <1>4, <1>5, <1>6

\* What the validator says of the claims of a genuine token is so.
LEMMA ClaimsReason ==
  ASSUME NEW t \in Tokens, NEW time \in Int, NEW res, NEW why, Genuine(t),
         ClaimsErrors(t, time) # {}, why = Reason(ClaimsErrors(t, time), TRUE)
  PROVE  Cause(t, why, res, time)
<1>. DEFINE errors == ClaimsErrors(t, time)
            Says(e, reason) ==
              \/ e = "ErrInvalidType" /\ reason = "malformed token"
              \/ e = "ErrTokenExpired" /\ reason = "token expired"
              \/ e = "ErrTokenUsedBeforeIssued" /\ reason = "token issued in the future"
              \/ e = "ErrTokenNotValidYet" /\ reason = "token not yet valid"
              \/ e = "ErrTokenInvalidIssuer" /\ reason = "unexpected issuer"
              \/ e = "ErrTokenInvalidAudience" /\ reason = "unexpected audience"
              \/ e = "ErrTokenRequiredClaimMissing" /\ reason = "missing required claim"
<1>1. \E n \in DOMAIN Mapped : Mapped[n][1] \in errors
  <2>1. PICK e \in errors : TRUE
    OBVIOUS
  <2>2. e \in {"ErrInvalidType", "ErrTokenExpired", "ErrTokenUsedBeforeIssued",
               "ErrTokenNotValidYet", "ErrTokenInvalidIssuer",
               "ErrTokenInvalidAudience", "ErrTokenRequiredClaimMissing"}
    BY <2>1, ClaimSentinels
  <2> QED BY <2>1, <2>2, ClaimSentinelsMapped
<1>2. PICK n \in 1..13 :
        /\ Mapped[n][1] \in errors
        /\ Mapped[n][1] # "ErrTokenSignatureInvalid" => Reason(errors, TRUE) = Mapped[n][2]
  <2>. HIDE DEF errors
  <2> QED BY <1>1, ReasonIsFirst
<1>3. PICK e \in errors : Says(e, why)
  <2>1. PICK e : e = Mapped[n][1]
    OBVIOUS
  <2>2. e \in {"ErrInvalidType", "ErrTokenExpired", "ErrTokenUsedBeforeIssued",
               "ErrTokenNotValidYet", "ErrTokenInvalidIssuer",
               "ErrTokenInvalidAudience", "ErrTokenRequiredClaimMissing"}
    BY <1>2, <2>1, ClaimSentinels
  <2>3. why = Mapped[n][2]
    BY <1>2, <2>1, <2>2
  <2>. HIDE DEF errors
  <2> QED BY <1>2, <2>1, <2>2, <2>3, MappedPairs
<1>4. \/ why = "malformed token" /\ ~t.typed
      \/ why = "token expired" /\ time >= t.exp + Leeway
      \/ why = "token issued in the future" /\ time < t.iat - Leeway
      \/ why = "token not yet valid" /\ time < t.nbf - Leeway
      \/ why = "unexpected issuer" /\ t.iss \notin {None, provider.Issuer}
      \/ why = "unexpected audience" /\ t.aud # {} /\ provider.Audience \notin t.aud
      \/ why = "missing required claim" /\ (t.iss = None \/ t.aud = {})
  BY <1>3, ClaimSentinels
<1> QED BY <1>4 DEF Cause

\* So is what claimsFromMap misses.
LEMMA MissingReasons ==
  ASSUME NEW t, NEW time, NEW res
  PROVE  /\ t.exp = None => Cause(t, "missing expiry", res, time)
         /\ t.sub = "" => Cause(t, "missing subject", res, time)
BY DEF Cause

----------------------------------------------------------------------------
(* The steps.                                                              *)

\* Nothing has been presented and no provider is built.
LEMMA InitInv == Init => Inv
<1>. SUFFICES ASSUME Init PROVE Inv
  OBVIOUS
<1>1. StartInv
  BY VerifyAssumption DEF Init, StartInv, Built
<1>2. CacheInv
  BY VerifyAssumption DEF Init, KC!Init, CacheInv
<1>3. ReqTypes
  BY DEF Init, ReqTypes
<1>4. \A r \in Requests : ReqInv(r)
  BY DEF Init, ReqInv
<1> QED BY <1>1, <1>2, <1>3, <1>4 DEF Inv

\* Before a provider is built no request has come in, so that what is known of the
\* requests does not depend on it.
LEMMA StartStep ==
  ASSUME Inv, Load \/ Build
  PROVE  Inv'
<1>1. ~Built /\ ~serving
  BY NoneAssumption DEF Load, Build, Inv, StartInv, Built
<1>2. \A r \in Requests : pc[r] = "idle"
  BY <1>1 DEF Inv, StartInv
<1>3. UNCHANGED <<now, published, requestVars, cacheVars>>
  BY DEF Load, Build
<1>4. StartInv'
  <2>1. CASE Load
    <3>1. provider = None
      BY <2>1, NoneAssumption DEF Load, Inv, StartInv
    <3> QED BY <1>1, <1>2, <1>3, <2>1, <3>1 DEF Load, Inv, StartInv, Built, requestVars
  <2>2. CASE Build
    <3>1. Built' => provider'.Algorithm \in {"RS256", "ES256"}
      BY <2>2, AlgorithmPinned DEF Build, Built, ProviderFor
    <3>2. serving' => Built'
      BY <2>2, NoneAssumption DEF Build, Built, Inv, StartInv
    <3> QED BY <1>2, <1>3, <2>2, <3>1, <3>2 DEF Build, Inv, StartInv, requestVars
  <2> QED BY <2>1, <2>2
<1>5. CacheInv'
  BY <1>3 DEF Inv, CacheInv, requestVars, cacheVars
<1>6. ReqTypes'
  BY <1>3 DEF Inv, ReqTypes, requestVars
<1>7. ASSUME NEW r \in Requests PROVE ReqInv(r)'
  BY <1>2, <1>3 DEF Inv, ReqInv, requestVars
<1> QED BY <1>4, <1>5, <1>6, <1>7 DEF Inv

\* What a token is depends on the provider alone, which stays.
LEMMA ProviderKept ==
  ASSUME UNCHANGED provider
  PROVE  /\ Tokens' = Tokens
         /\ \A t : ParseErrors(t)' = ParseErrors(t) /\ KeyFuncErrors(t)' = KeyFuncErrors(t)
<1>1. Tokens' = Tokens
  BY DEF Tokens, Changed, Good
<1>2. \A t : ParseErrors(t)' = ParseErrors(t) /\ KeyFuncErrors(t)' = KeyFuncErrors(t)
  BY DEF ParseErrors, KeyFuncErrors
<1> QED BY <1>1, <1>2

\* A reason that is given at a step is true after it.
LEMMA ReasonGiven ==
  ASSUME UNCHANGED provider, NEW r, NEW t, NEW why, NEW res, NEW time,
         token'[r] = t, verdict'[r] = why, result'[r] = res, judged'[r] = time,
         t.alg \in Registered => Cause(t, why, res, time), why \in ClaimReasons => Genuine(t)
  PROVE  TrueReason(r)'
<1>1. token'[r].alg \in Registered => Cause(token'[r], verdict'[r], result'[r], judged'[r])
  OBVIOUS
<1>2. (token[r].alg \in Registered => Cause(token[r], verdict[r], result[r], judged[r]))'
  BY <1>1 DEF Cause, Genuine
<1>3. (verdict[r] \in ClaimReasons => Genuine(token[r]))'
  BY DEF Genuine, ClaimReasons
<1> QED BY <1>2, <1>3 DEF TrueReason

\* What has been found of a token stays so when only the clock and the cache move.
LEMMA ReqKept ==
  ASSUME NEW r, ReqInv(r), UNCHANGED <<provider, env>>, published \subseteq published',
         pc'[r] = pc[r], token'[r] = token[r], judged'[r] = judged[r],
         verdict'[r] = verdict[r], kid'[r] = kid[r], result'[r] = result[r]
  PROVE  ReqInv(r)'
<1>1. /\ Tokens' = Tokens
      /\ ParseErrors(token[r])' = ParseErrors(token[r])
      /\ KeyFuncErrors(token[r])' = KeyFuncErrors(token[r])
  BY ProviderKept DEF ParseErrors, KeyFuncErrors
<1>2. /\ Genuine(token[r])' <=> Genuine(token[r])
      /\ GoodClaims(token[r], judged[r])' <=> GoodClaims(token[r], judged[r])
  BY DEF Genuine, GoodClaims
<1>3. HasCause(r)' <=> HasCause(r)
  BY <1>2 DEF HasCause
<1>4. TrueReason(r)' <=> TrueReason(r)
  <2>1. Cause(token[r], verdict[r], result[r], judged[r])'
          <=> Cause(token[r], verdict[r], result[r], judged[r])
    BY DEF Cause, Genuine
  <2> QED BY <1>2, <2>1 DEF TrueReason
<1>5. Principal(token[r])' = Principal(token[r])
  BY DEF Principal
<1> QED BY <1>1, <1>2, <1>3, <1>4, <1>5 DEF ReqInv

\* Time passes.
LEMMA TickStep ==
  ASSUME Inv, Tick
  PROVE  Inv'
<1>. USE DEF Tick, startVars, requestVars, cacheVars
<1>1. StartInv'
  BY VerifyAssumption DEF Inv, StartInv, Built
<1>2. CacheInv'
  BY DEF Inv, CacheInv
<1>3. ReqTypes'
  BY DEF Inv, ReqTypes
<1>4. ASSUME NEW r \in Requests PROVE ReqInv(r)'
  BY ReqKept DEF Inv
<1> QED BY <1>1, <1>2, <1>3, <1>4 DEF Inv

\* Keys are rotated and the cache is refreshed: it never holds a key that was not
\* published.
LEMMA CacheStep ==
  ASSUME Inv, Cache
  PROVE  Inv'
<1>1. UNCHANGED <<startVars, now, requestVars, kid, result>>
  BY DEF Cache, KC!Publish, KC!BeginRefresh, KC!Receive, KC!Fail, KC!Install, KC!EndRefresh
<1>2. /\ idpKeys' \cup keys' \cup received' \subseteq published'
      /\ published \subseteq published' /\ published' \subseteq Kids
  BY DEF Cache, KC!Publish, KC!BeginRefresh, KC!Receive, KC!Fail, KC!Install, KC!EndRefresh,
         Inv, CacheInv
<1>. USE DEF startVars, requestVars
<1>3. StartInv'
  BY <1>1 DEF Inv, StartInv, Built
<1>4. CacheInv'
  BY <1>1, <1>2 DEF Inv, CacheInv
<1>5. ReqTypes'
  BY <1>1 DEF Inv, ReqTypes
<1>6. ASSUME NEW r \in Requests PROVE ReqInv(r)'
  BY <1>1, <1>2, ReqKept DEF Inv
<1> QED BY <1>3, <1>4, <1>5, <1>6 DEF Inv

\* Only r moves.
Others(r) ==
  \A q \in Requests \ {r} :
    /\ pc'[q] = pc[q] /\ token'[q] = token[q] /\ judged'[q] = judged[q]
    /\ verdict'[q] = verdict[q] /\ kid'[q] = kid[q] /\ result'[q] = result[q]

\* A step of one request leaves what is known of the others.
LEMMA OneMoves ==
  ASSUME Inv, NEW r \in Requests, serving, UNCHANGED <<startVars, now, published>>,
         CacheInv', ReqTypes', Others(r), ReqInv(r)'
  PROVE  Inv'
<1>1. StartInv'
  BY DEF Inv, StartInv, Built, startVars
<1>2. ASSUME NEW q \in Requests PROVE ReqInv(q)'
  <2>1. CASE q = r
    BY <2>1
  <2>2. CASE q # r
    BY <2>2, ReqKept DEF Inv, Others, startVars
  <2> QED BY <2>1, <2>2
<1> QED BY <1>1, <1>2 DEF Inv

\* A request is refused at once for what its token lacks, or waits for the key it names.
LEMMA PresentStep ==
  ASSUME Inv, NEW r \in Requests, Present(r)
  PROVE  Inv'
<1>1. /\ serving /\ pc[r] = "idle" /\ token[r] = None /\ kid[r] = None
      /\ provider.Algorithm \in {"RS256", "ES256"}
  BY DEF Present, Inv, StartInv, CacheInv, ReqInv
<1>2. /\ UNCHANGED <<startVars, now, published, judged>>
      /\ arrived' = [arrived EXCEPT ![r] = now]
  BY DEF Present
<1>3. Tokens' = Tokens
  BY <1>2, ProviderKept DEF startVars
<1>4. \A t : ParseErrors(t)' = ParseErrors(t) /\ KeyFuncErrors(t)' = KeyFuncErrors(t)
  BY <1>2, ProviderKept DEF startVars
<1>5. CASE Refuse(r, "no token in header") /\ UNCHANGED <<token, cacheVars>>
  <2>. USE <1>1, <1>2, <1>5 DEF Refuse, cacheVars
  <2>1. CacheInv'
    BY DEF Inv, CacheInv, ReqTypes
  <2>2. ReqTypes'
    BY DEF Inv, ReqTypes, StartInv
  <2>3. Others(r)
    BY DEF Others, Inv, ReqTypes
  <2>4. ReqInv(r)'
    BY DEF ReqInv, Inv, ReqTypes
  <2> QED BY <2>1, <2>2, <2>3, <2>4, OneMoves
<1>6. ASSUME NEW t \in Tokens, token' = [token EXCEPT ![r] = t],
             NEW why, Refuse(r, why), UNCHANGED cacheVars, ~Genuine(t),
             t.alg \in Registered => \A res, time : Cause(t, why, res, time),
             why \notin ClaimReasons
      PROVE  Inv'
  <2>. USE <1>1, <1>2, <1>6 DEF Refuse, cacheVars
  <2>1. CacheInv'
    BY DEF Inv, CacheInv, ReqTypes
  <2>2. ReqTypes'
    BY DEF Inv, ReqTypes, StartInv
  <2>3. Others(r)
    BY DEF Others, Inv, ReqTypes
  <2>4. ReqInv(r)'
    <3>1. token'[r] = t /\ pc'[r] = "done"
      BY DEF Inv, ReqTypes
    <3>2. ~Genuine(token[r])'
      BY <3>1 DEF Genuine, startVars
    <3>3. TrueReason(r)'
      <4>1. verdict'[r] = why /\ result'[r] = result[r] /\ judged'[r] = judged[r]
        BY DEF Inv, ReqTypes
      <4> QED BY <3>1, <4>1, ReasonGiven DEF startVars
    <3> QED BY <3>1, <3>2, <3>3 DEF ReqInv, HasCause
  <2> QED BY <2>1, <2>2, <2>3, <2>4, OneMoves
<1>7. ASSUME NEW t \in Tokens, token' = [token EXCEPT ![r] = t],
             ParseErrors(t) = {}, KeyFuncErrors(t) = {},
             KC!Ask(r), kid'[r] = t.kid, pc' = [pc EXCEPT ![r] = "asked"], UNCHANGED verdict
      PROVE  Inv'
  <2>. USE <1>1, <1>2, <1>7 DEF KC!Ask
  <2>1. CacheInv'
    BY KeyFuncMeans DEF Inv, CacheInv, ReqTypes
  <2>2. ReqTypes'
    BY DEF Inv, ReqTypes, StartInv
  <2>3. Others(r)
    BY DEF Others, Inv, ReqTypes, CacheInv
  <2>4. ReqInv(r)'
    <3>1. token'[r] = t /\ pc'[r] = "asked"
      BY DEF Inv, ReqTypes
    <3>2. ParseErrors(t)' = {} /\ KeyFuncErrors(t)' = {}
      BY <1>4
    <3>3. ParseErrors(token[r])' = {} /\ KeyFuncErrors(token[r])' = {}
      BY <3>1, <3>2 DEF ParseErrors, KeyFuncErrors
    <3>4. kid'[r] = t.kid
      OBVIOUS
    <3> QED BY <1>3, <3>1, <3>3, <3>4 DEF ReqInv
  <2> QED BY <2>1, <2>2, <2>3, <2>4, OneMoves
<1>8. ASSUME NEW t \in Tokens, ParseErrors(t) # {}, NEW why, why = Reason(ParseErrors(t), FALSE)
      PROVE  /\ ~Genuine(t)
             /\ t.alg \in Registered => \A res, time : Cause(t, why, res, time)
             /\ why \notin ClaimReasons
  <2>1. ~Genuine(t)
    BY <1>1, <1>8, ParseMeans DEF Genuine
  <2>2. ASSUME NEW res, NEW time
        PROVE  (t.alg \in Registered => Cause(t, why, res, time)) /\ why \notin ClaimReasons
    BY <1>8, ParseReasons
  <2> QED BY <2>1, <2>2
<1>9. ASSUME NEW t \in Tokens, KeyFuncErrors(t) # {}, NEW why, why = Reason(KeyFuncErrors(t), TRUE)
      PROVE  /\ ~Genuine(t)
             /\ t.alg \in Registered => \A res, time : Cause(t, why, res, time)
             /\ why \notin ClaimReasons
  <2>1. ~Genuine(t)
    BY <1>9, KeyFuncMeans DEF Genuine
  <2>2. ASSUME NEW res, NEW time PROVE Cause(t, why, res, time) /\ why \notin ClaimReasons
    BY <1>9, KeyFuncReasons
  <2> QED BY <2>1, <2>2
<1> QED BY <1>5, <1>6, <1>7, <1>8, <1>9 DEF Present

\* The key cache answers: the request goes on if the key is the one that signed.
LEMMA ResolveStep ==
  ASSUME Inv, NEW r \in Requests, Resolve(r)
  PROVE  Inv'
<1>1. /\ serving /\ pc[r] = "asked" /\ token[r] \in Tokens /\ kid[r] = token[r].kid
      /\ ParseErrors(token[r]) = {} /\ KeyFuncErrors(token[r]) = {}
      /\ provider.Algorithm \in {"RS256", "ES256"}
  BY DEF Resolve, Inv, StartInv, ReqInv
<1>2. UNCHANGED <<startVars, now, published, token, arrived, judged>>
  BY DEF Resolve
<1>3. PICK res \in {"key", "unknown", "error"} :
        /\ KC!Answer(r, res)
        /\ \/ /\ res \in {"unknown", "error"} /\ pc' = [pc EXCEPT ![r] = "done"]
              /\ verdict'[r] = Reason({"ErrTokenUnverifiable", "errNoUsableKey"}, TRUE)
           \/ /\ res = "key" /\ kid[r] \in keys
              /\ \/ /\ SignatureErrors(token[r]) # {} /\ pc' = [pc EXCEPT ![r] = "done"]
                    /\ verdict'[r] = Reason(SignatureErrors(token[r]), TRUE)
                 \/ SignatureErrors(token[r]) = {} /\ pc' = [pc EXCEPT ![r] = "signed"]
        /\ DOMAIN verdict' = Requests
        /\ \A q \in Requests \ {r} : verdict'[q] = verdict[q]
  BY DEF Resolve, Refuse, KC!Unknown, KC!Error, KC!Hit, Inv, ReqTypes
<1>. USE <1>1, <1>2, <1>3 DEF KC!Answer
<1>4. CacheInv'
  BY DEF Inv, CacheInv, ReqTypes
<1>5. ReqTypes'
  BY DEF Inv, ReqTypes
<1>6. Others(r)
  BY DEF Others, Inv, ReqTypes, CacheInv
<1>7. /\ Genuine(token[r])' <=> Genuine(token[r])
      /\ Tokens' = Tokens
  BY ProviderKept DEF Genuine, startVars
<1>9. ASSUME \/ /\ res \in {"unknown", "error"}
                /\ verdict'[r] = Reason({"ErrTokenUnverifiable", "errNoUsableKey"}, TRUE)
             \/ /\ SignatureErrors(token[r]) # {}
                /\ verdict'[r] = Reason(SignatureErrors(token[r]), TRUE)
      PROVE  TrueReason(r)'
  <2>1. PICK t, why, time : t = token[r] /\ why = verdict'[r] /\ time = judged[r]
    OBVIOUS
  <2>2. t.alg = provider.Algorithm
    BY <2>1, ParseMeans
  <2>3. \/ /\ res \in {"unknown", "error"}
           /\ why = Reason({"ErrTokenUnverifiable", "errNoUsableKey"}, TRUE)
        \/ SignatureErrors(t) # {} /\ why = Reason(SignatureErrors(t), TRUE)
    BY <1>9, <2>1 DEF SignatureErrors
  <2>4. Cause(t, why, res, time) /\ why \notin ClaimReasons
    BY <2>2, <2>3, KeyReasons
  <2>5. token'[r] = t /\ verdict'[r] = why /\ judged'[r] = time /\ result'[r] = res
    BY <2>1 DEF Inv, CacheInv
  <2> QED BY <2>4, <2>5, ReasonGiven DEF startVars
<1>8. ReqInv(r)'
  <2>1. result'[r] = res
    BY DEF Inv, CacheInv
  <2>2. CASE res \in {"unknown", "error"}
    <3>1. TrueReason(r)'
      <4>1. verdict'[r] = Reason({"ErrTokenUnverifiable", "errNoUsableKey"}, TRUE)
        BY <2>2
      <4> QED BY <1>9, <2>1, <2>2, <4>1
    <3> QED BY <2>1, <2>2, <3>1 DEF Inv, ReqTypes, ReqInv, HasCause
  <2>3. CASE /\ SignatureErrors(token[r]) # {} /\ pc' = [pc EXCEPT ![r] = "done"]
             /\ verdict'[r] = Reason(SignatureErrors(token[r]), TRUE)
    <3>1. ~Genuine(token[r])
      <4>1. \/ KeyType[token[r].kid] # TypeFor(provider.Algorithm)
            \/ token[r].signer # token[r].kid
        BY <2>3, SignatureMeans
      <4>2. token[r].alg = provider.Algorithm
        BY ParseMeans
      <4> QED BY <4>1, <4>2 DEF Genuine
    <3>2. TrueReason(r)'
      BY <1>9, <2>1, <2>3
    <3> QED BY <1>7, <2>3, <3>1, <3>2 DEF Inv, ReqTypes, ReqInv, HasCause
  <2>4. CASE res = "key" /\ kid[r] \in keys /\ SignatureErrors(token[r]) = {}
             /\ pc' = [pc EXCEPT ![r] = "signed"]
    <3>1. Genuine(token[r])
      <4>1. KeyType[token[r].kid] = TypeFor(provider.Algorithm) /\ token[r].signer = token[r].kid
        BY <2>4, SignatureMeans
      <4>2. token[r].form = "jwt" /\ token[r].alg = provider.Algorithm
        BY ParseMeans
      <4>3. token[r].kid # None
        BY KeyFuncMeans
      <4> QED BY <4>1, <4>2, <4>3 DEF Genuine
    <3>2. token[r].kid \in published
      BY <2>4 DEF Inv, CacheInv
    <3> QED BY <1>7, <2>4, <3>1, <3>2 DEF Inv, ReqTypes, ReqInv
  <2> QED BY <2>2, <2>3, <2>4
<1> QED BY <1>4, <1>5, <1>6, <1>8, OneMoves

\* The claims are judged by the clock of this moment.
LEMMA JudgeStep ==
  ASSUME Inv, NEW r \in Requests, Judge(r)
  PROVE  Inv'
<1>1. /\ serving /\ pc[r] = "signed" /\ token[r] \in Tokens
      /\ Genuine(token[r]) /\ token[r].kid \in published
  BY DEF Judge, Inv, StartInv, ReqInv
<1>2. UNCHANGED <<startVars, now, published, token, arrived, cacheVars>>
      /\ judged' = [judged EXCEPT ![r] = now]
  BY DEF Judge
<1>3. now \in 0..MaxClock /\ now \in Int
  BY VerifyAssumption DEF Inv, StartInv
<1>4. GoodClaims(token[r], now) <=>
        ClaimsErrors(token[r], now) = {} /\ token[r].exp # None /\ token[r].sub # ""
  BY <1>1, <1>3, ClaimsMean
<1>5. \/ /\ ~GoodClaims(token[r], now)
         /\ \E why : Refuse(r, why) /\ Cause(token[r], why, result[r], now)
      \/ /\ GoodClaims(token[r], now)
         /\ pc' = [pc EXCEPT ![r] = "accepted"]
         /\ verdict' = [verdict EXCEPT ![r] = Principal(token[r])]
  <2>1. PICK t, time, res : t = token[r] /\ time = now /\ res = result[r]
    OBVIOUS
  <2>2. t \in Tokens /\ time \in Int /\ Genuine(t)
    BY <1>1, <1>3, <2>1
  <2>3. CASE GoodClaims(t, time)
    BY <1>4, <2>1, <2>3 DEF Judge, Time
  <2>4. CASE ~GoodClaims(t, time)
    <3>1. PICK why : /\ Refuse(r, why)
                     /\ \/ ClaimsErrors(t, time) # {} /\ why = Reason(ClaimsErrors(t, time), TRUE)
                        \/ t.exp = None /\ why = "missing expiry"
                        \/ t.sub = "" /\ why = "missing subject"
      BY <1>4, <2>1, <2>4 DEF Judge, Time
    <3>2. Cause(t, why, res, time)
      BY <2>2, <3>1, ClaimsReason, MissingReasons
    <3>3. Cause(token[r], why, result[r], now)
      BY <2>1, <3>2
    <3> QED BY <2>1, <2>4, <3>1, <3>3
  <2> QED BY <2>3, <2>4
<1>. USE <1>1, <1>2, <1>3, <1>5 DEF Refuse, cacheVars
<1>6. CacheInv'
  BY DEF Inv, CacheInv, ReqTypes
<1>7. ReqTypes'
  BY DEF Inv, ReqTypes
<1>8. Others(r)
  BY DEF Others, Inv, ReqTypes
<1>9. /\ Genuine(token[r])' <=> Genuine(token[r])
      /\ Tokens' = Tokens
      /\ GoodClaims(token[r], judged[r])' <=> GoodClaims(token[r], now)
  <2>1. judged'[r] = now
    BY DEF Inv, ReqTypes
  <2>2. Tokens' = Tokens
    BY ProviderKept DEF startVars
  <2>3. Genuine(token[r])' <=> Genuine(token[r])
    BY DEF Genuine, startVars
  <2>4. GoodClaims(token[r], judged[r])' <=> GoodClaims(token[r], now)
    BY <2>1 DEF GoodClaims, startVars
  <2> QED BY <2>2, <2>3, <2>4
<1>10. ReqInv(r)'
  <2>1. CASE /\ ~GoodClaims(token[r], now)
             /\ \E why : Refuse(r, why) /\ Cause(token[r], why, result[r], now)
    <3>1. PICK why : Refuse(r, why) /\ Cause(token[r], why, result[r], now)
      BY <2>1
    <3>2. PICK t, res, time : t = token[r] /\ res = result[r] /\ time = now
      OBVIOUS
    <3>3. Cause(t, why, res, time) /\ Genuine(t)
      BY <3>1, <3>2
    <3>4. token'[r] = t /\ verdict'[r] = why /\ result'[r] = res /\ judged'[r] = time
      BY <3>1, <3>2 DEF Inv, ReqTypes
    <3>5. TrueReason(r)'
      BY <3>3, <3>4, ReasonGiven DEF startVars
    <3> QED BY <1>9, <2>1, <3>1, <3>5 DEF Inv, ReqTypes, ReqInv, HasCause
  <2>2. CASE /\ GoodClaims(token[r], now)
             /\ pc' = [pc EXCEPT ![r] = "accepted"]
             /\ verdict' = [verdict EXCEPT ![r] = Principal(token[r])]
    <3>1. verdict'[r] = Principal(token[r])
      BY <2>2 DEF Inv, ReqTypes
    <3>2. Principal(token[r])' = Principal(token[r])
      BY DEF Principal, startVars
    <3> QED BY <1>9, <2>2, <3>1, <3>2 DEF Inv, ReqTypes, ReqInv
  <2> QED BY <2>1, <2>2
<1> QED BY <1>6, <1>7, <1>8, <1>10, OneMoves

----------------------------------------------------------------------------
(* What the run "auth" checks.                                             *)

\* Inv is an invariant of every behaviour.
THEOREM Invariant == Spec => []Inv
<1>1. Inv /\ [Next]_vars => Inv'
  <2>. SUFFICES ASSUME Inv, [Next]_vars PROVE Inv'
    OBVIOUS
  <2>1. CASE Load \/ Build
    BY <2>1, StartStep
  <2>2. CASE Tick
    BY <2>2, TickStep
  <2>3. CASE Cache
    BY <2>3, CacheStep
  <2>4. CASE \E r \in Requests : Present(r) \/ Resolve(r) \/ Judge(r)
    BY <2>4, PresentStep, ResolveStep, JudgeStep
  <2>5. CASE UNCHANGED vars
    <3>. USE <2>5 DEF vars, startVars, requestVars, cacheVars
    <3>1. StartInv'
      BY DEF Inv, StartInv, Built
    <3>2. CacheInv' /\ ReqTypes'
      BY DEF Inv, CacheInv, ReqTypes
    <3>3. ASSUME NEW r \in Requests PROVE ReqInv(r)'
      BY ReqKept DEF Inv
    <3> QED BY <3>1, <3>2, <3>3 DEF Inv
  <2> QED BY <2>1, <2>2, <2>3, <2>4, <2>5 DEF Next
<1> QED BY InitInv, <1>1, PTL DEF Spec

\* Every variable keeps its type; a provider that is built pins one of the two algorithms.
THEOREM TypeCorrect == Spec => []TypeOK
<1>1. Inv => TypeOK
  BY DEF Inv, StartInv, CacheInv, ReqTypes, TypeOK
<1> QED BY Invariant, <1>1, PTL

\* Whatever the environment, the tokens and the rotations of the keys: an accepted token
\* is genuine, its key was published, and its claims are good when they are judged.
THEOREM AcceptedIsGenuineHolds == Spec => []AcceptedIsGenuine
<1>1. Inv => AcceptedIsGenuine
  <2>. SUFFICES ASSUME Inv, NEW r \in Requests, pc[r] = "accepted"
                PROVE  /\ Genuine(token[r]) /\ token[r].kid \in published
                       /\ GoodClaims(token[r], judged[r])
                       /\ verdict[r].subject = token[r].sub
    BY DEF AcceptedIsGenuine
  <2>1. verdict[r] = Principal(token[r])
    BY DEF Inv, ReqInv
  <2>2. verdict[r].subject = token[r].sub
    BY <2>1 DEF Principal
  <2> QED BY <2>2 DEF Inv, ReqInv
<1> QED BY Invariant, <1>1, PTL

\* A genuine token with good claims is refused only for want of its key.
THEOREM RefusedForCauseHolds == Spec => []RefusedForCause
<1>1. Inv => RefusedForCause
  BY DEF Inv, ReqInv, HasCause, RefusedForCause
<1> QED BY Invariant, <1>1, PTL

\* Once Load accepts an environment, no constructor misses a value: what one can still
\* object to is a name, a team domain or an algorithm.
THEOREM MissingFoundByLoadHolds == Spec => []MissingFoundByLoad
<1>1. Inv => MissingFoundByLoad
  <2>. SUFFICES ASSUME Inv, provider # None, ~Built PROVE
         provider.error \in {"unknown provider", "invalid team domain", "unsupported algorithm"}
    BY DEF MissingFoundByLoad
  <2>1. PICK e : e = env
    OBVIOUS
  <2>2. provider = ProviderFor(e) /\ "error" \in DOMAIN ProviderFor(e)
    BY <2>1 DEF Inv, StartInv, Built
  <2>3. \A v \in Required(LoadedAuth(e).Provider) : e[v] # ""
    BY <2>1, NoneAssumption DEF Inv, StartInv, Problems
  <2>4. CASE e["AUTH_PROVIDER"] = "" \/ e["AUTH_PROVIDER"] = "cloudflare-access"
    <3>1. LoadedAuth(e).Provider = "cloudflare-access"
      BY <2>4 DEF LoadedAuth, EnvString
    <3>2. e["AUTH_CLOUDFLARE_TEAM_DOMAIN"] # "" /\ e["AUTH_CLOUDFLARE_AUDIENCE"] # ""
      BY <2>3, <3>1 DEF Required
    <3>3. CloudflareOutcome(e, ProviderFor(e))
      BY <2>4, CloudflareReached
    <3> QED BY <2>2, <3>2, <3>3 DEF CloudflareOutcome
  <2>5. CASE e["AUTH_PROVIDER"] = "local"
    <3>1. LoadedAuth(e).Provider = "local"
      BY <2>5 DEF LoadedAuth, EnvString
    <3>2. /\ e["AUTH_LOCAL_ISSUER"] # "" /\ e["AUTH_LOCAL_AUDIENCE"] # ""
          /\ e["AUTH_LOCAL_JWKS_URL"] # ""
      BY <2>3, <3>1 DEF Required
    <3>3. LET own == Own("local")
          IN e[own.Issuer] # "" /\ e[own.Audience] # "" /\ e[own.JWKSURL] # ""
      BY <3>2 DEF Own
    <3> QED BY <2>2, <2>5, <3>3, LocalReached DEF OwnOutcome
  <2>6. CASE e["AUTH_PROVIDER"] = "pomerium"
    <3>1. LoadedAuth(e).Provider = "pomerium"
      BY <2>6 DEF LoadedAuth, EnvString
    <3>2. /\ e["AUTH_POMERIUM_ISSUER"] # "" /\ e["AUTH_POMERIUM_AUDIENCE"] # ""
          /\ e["AUTH_POMERIUM_JWKS_URL"] # ""
      BY <2>3, <3>1 DEF Required
    <3>3. LET own == Own("pomerium")
          IN e[own.Issuer] # "" /\ e[own.Audience] # "" /\ e[own.JWKSURL] # ""
      BY <3>2 DEF Own
    <3> QED BY <2>2, <2>6, <3>3, PomeriumReached DEF OwnOutcome
  <2>7. CASE e["AUTH_PROVIDER"] \notin {"", "cloudflare-access", "local", "pomerium"}
    BY <2>2, <2>7, NoOtherReached
  <2> QED BY <2>4, <2>5, <2>6, <2>7
<1> QED BY Invariant, <1>1, PTL

\* Through Load, Settings and the constructor, whatever else the environment sets, a
\* verifier gets the values of the selected provider's own variables.
THEOREM OwnSettingsReachVerifierHolds == Spec => []OwnSettingsReachVerifier
<1>1. Inv => OwnSettingsReachVerifier
  <2>. SUFFICES ASSUME Inv, Built PROVE OwnSettingsReachVerifier
    BY DEF OwnSettingsReachVerifier
  <2>1. PICK e : e = env
    OBVIOUS
  <2>2. provider = ProviderFor(e) /\ "error" \notin DOMAIN ProviderFor(e)
    BY <2>1 DEF Inv, StartInv, Built
  <2>3. CASE e["AUTH_PROVIDER"] = "" \/ e["AUTH_PROVIDER"] = "cloudflare-access"
    <3>1. CloudflareOutcome(e, ProviderFor(e))
      BY <2>3, CloudflareReached
    <3> QED BY <2>1, <2>2, <2>3, <3>1 DEF CloudflareOutcome, OwnSettingsReachVerifier, Suffix
  <2>4. CASE e["AUTH_PROVIDER"] = "local"
    <3>1. OwnOutcome(e, provider, Own("local"), LocalMapping)
      BY <2>2, <2>4, LocalReached
    <3> QED BY <2>1, <2>2, <2>4, <3>1 DEF OwnOutcome, OwnSettingsReachVerifier, Own
  <2>5. CASE e["AUTH_PROVIDER"] = "pomerium"
    <3>1. OwnOutcome(e, provider, Own("pomerium"),
                     PomeriumMapping(e["AUTH_POMERIUM_ROLE_PREFIX"]))
      BY <2>2, <2>5, PomeriumReached
    <3> QED BY <2>1, <2>2, <2>5, <3>1 DEF OwnOutcome, OwnSettingsReachVerifier, Own
  <2> QED BY <2>2, <2>3, <2>4, <2>5, NoOtherReached
<1> QED BY Invariant, <1>1, PTL

\* A principal has a role exactly if the token names it in the claim, and under the
\* prefix, of the provider that the environment selects; the name itself stays as it is.
THEOREM RolesAsClaimedHolds == Spec => []RolesAsClaimed
<1>1. Inv => RolesAsClaimed
  <2>. SUFFICES ASSUME Inv, NEW r \in Requests, NEW name \in {"admin", "admins"},
                       pc[r] = "accepted"
                PROVE  HasRole(verdict[r], <<name>>) <=> Claimed(token[r], name)
    BY DEF RolesAsClaimed
  <2>1. PICK e, t, m : e = env /\ t = token[r] /\ m = provider.MapClaims
    OBVIOUS
  <2>2. /\ provider = ProviderFor(e) /\ "error" \notin DOMAIN ProviderFor(e)
        /\ t \in Tokens /\ verdict[r] = Principal(t)
    BY <2>1 DEF Inv, StartInv, ReqInv, Built
  <2>3. HasRole(verdict[r], <<name>>) <=>
          \E g \in (IF m.claim = "groups" THEN t.groups ELSE t.roles) \ {<<>>} :
             TrimRolePrefix(m.prefix, g) = <<name>>
    BY <2>1, <2>2 DEF Principal, HasRole
  <2>4. t.roles \subseteq Seq(Parts) /\ t.groups \subseteq Seq(Parts)
    BY <2>2, TokenRoles
  <2>7. /\ name \in Parts /\ <<name>> # <<>> /\ \A p : <<p, name>> # <<>>
        /\ m.prefix # NoPrefix \/ m.prefix # name
    BY DEF Parts, NoPrefix
  <2>5. CASE e["AUTH_PROVIDER"] = "pomerium"
    <3>1. m = PomeriumMapping(e["AUTH_POMERIUM_ROLE_PREFIX"])
      BY <2>1, <2>2, <2>5, PomeriumReached DEF OwnOutcome
    <3>2. m.claim = "groups" /\ m.prefix = e["AUTH_POMERIUM_ROLE_PREFIX"]
      BY <3>1 DEF PomeriumMapping
    <3>3. PICK p : p = m.prefix
      OBVIOUS
    <3>5. \A g \in t.groups : TrimRolePrefix(p, g) = Bare(name) <=>
            \/ p # name /\ g = Bare(name)
            \/ p # NoPrefix /\ g = Behind(p, name)
      BY <2>4, <2>7, <3>3, TrimmedTo
    <3>4. HasRole(verdict[r], <<name>>) <=>
            \/ m.prefix # name /\ <<name>> \in t.groups
            \/ m.prefix # "" /\ <<m.prefix, name>> \in t.groups
      BY <2>3, <2>7, <3>2, <3>3, <3>5 DEF Bare, Behind, NoPrefix
    <3> QED BY <2>1, <2>5, <3>2, <3>4 DEF Claimed
  <2>6. CASE e["AUTH_PROVIDER"] # "pomerium"
    <3>1. m.claim = "roles" /\ m.prefix = ""
      <4>1. CASE e["AUTH_PROVIDER"] = "" \/ e["AUTH_PROVIDER"] = "cloudflare-access"
        <5>1. CloudflareOutcome(e, ProviderFor(e))
          BY <4>1, CloudflareReached
        <5>2. m = CloudflareMapping
          BY <2>1, <2>2, <5>1 DEF CloudflareOutcome
        <5> QED BY <5>2 DEF CloudflareMapping
      <4>2. CASE e["AUTH_PROVIDER"] = "local"
        <5>1. m = LocalMapping
          BY <2>1, <2>2, <4>2, LocalReached DEF OwnOutcome
        <5> QED BY <5>1 DEF LocalMapping
      <4> QED BY <2>2, <2>6, <4>1, <4>2, NoOtherReached
    <3>2. \A g : TrimRolePrefix(m.prefix, g) = g
      BY <3>1 DEF TrimRolePrefix
    <3>3. HasRole(verdict[r], <<name>>) <=> <<name>> \in t.roles
      BY <2>3, <2>7, <3>1, <3>2
    <3> QED BY <2>1, <2>6, <3>3 DEF Claimed
  <2> QED BY <2>5, <2>6
<1> QED BY Invariant, <1>1, PTL

\* What the reason of a refusal says is so if golang-jwt knows the algorithm of the token,
\* and a reason about a claim is given only for a token that is genuine, whatever its
\* algorithm.
THEOREM ReasonIsTrueHolds == Spec => []ReasonIsTrue
<1>1. Inv => ReasonIsTrue
  BY DEF Inv, ReqInv, TrueReason, ReasonIsTrue
<1> QED BY Invariant, <1>1, PTL
=============================================================================
