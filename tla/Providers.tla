------------------------------ MODULE Providers ------------------------------
(***************************************************************************)
(* From the environment to a token verifier, in four steps that each have  *)
(* names of their own for the same settings: config.Load, the auth.Settings*)
(* that cmd/app/main.go fills, the constructors of internal/auth, and      *)
(* NewJWTProvider.                                                         *)
(*                                                                         *)
(* An environment maps the names of variables, without their prefix, to    *)
(* strings; "" is an unset variable.  Whether a listen address, a path or  *)
(* a duration is well formed is given: a malformed one is "bad".           *)
(***************************************************************************)
EXTENDS Naturals, Sequences

CONSTANT Teams      \* team names that are well-formed domains, without the suffix

\* What Cloudflare appends to the name of a team.
Suffix == ".cloudflareaccess.com"

\* Joined strings are not empty.
ASSUME TeamsAssumption ==
  \A t \in Teams : /\ "https://" \o t \o Suffix # ""
                   /\ "https://" \o t \o Suffix \o "/cdn-cgi/access/certs" # ""

DurationVars == {"HTTP_READ_HEADER_TIMEOUT", "HTTP_READ_TIMEOUT", "HTTP_WRITE_TIMEOUT",
                 "HTTP_IDLE_TIMEOUT", "HTTP_SHUTDOWN_TIMEOUT"}

----------------------------------------------------------------------------
(* internal/config.                                                        *)

EnvString(v, fallback) == IF v = "" THEN fallback ELSE v

LoadedAuth(env) ==
  [Provider   |-> EnvString(env["AUTH_PROVIDER"], "cloudflare-access"),
   Cloudflare |-> [TeamDomain |-> env["AUTH_CLOUDFLARE_TEAM_DOMAIN"],
                   Audience   |-> env["AUTH_CLOUDFLARE_AUDIENCE"]],
   Local      |-> [Issuer     |-> env["AUTH_LOCAL_ISSUER"],
                   Audience   |-> env["AUTH_LOCAL_AUDIENCE"],
                   JWKSURL    |-> env["AUTH_LOCAL_JWKS_URL"],
                   Header     |-> EnvString(env["AUTH_LOCAL_HEADER"], "Cf-Access-Jwt-Assertion"),
                   Algorithm  |-> EnvString(env["AUTH_LOCAL_ALGORITHM"], "RS256")],
   Pomerium   |-> [JWKSURL    |-> env["AUTH_POMERIUM_JWKS_URL"],
                   Issuer     |-> env["AUTH_POMERIUM_ISSUER"],
                   Audience   |-> env["AUTH_POMERIUM_AUDIENCE"],
                   Header     |-> EnvString(env["AUTH_POMERIUM_HEADER"], "X-Pomerium-Jwt-Assertion"),
                   Algorithm  |-> EnvString(env["AUTH_POMERIUM_ALGORITHM"], "ES256"),
                   RolePrefix |-> env["AUTH_POMERIUM_ROLE_PREFIX"]]]

InvalidDurations(env) == {v \in DurationVars : env[v] = "bad"}
InvalidPlaces(env) == {v \in {"HTTP_ADDR", "DATABASE_PATH"} : env[v] = "bad"}

\* Mutant: the key set's location is not asked for.
RequiredNoURL(provider) ==
  CASE provider = "cloudflare-access" -> {"AUTH_CLOUDFLARE_TEAM_DOMAIN", "AUTH_CLOUDFLARE_AUDIENCE"}
    [] provider = "local" -> {"AUTH_LOCAL_ISSUER", "AUTH_LOCAL_AUDIENCE"}
    [] provider = "pomerium" -> {"AUTH_POMERIUM_ISSUER", "AUTH_POMERIUM_AUDIENCE"}
    [] OTHER -> {}
Required(provider) ==
  CASE provider = "cloudflare-access" -> {"AUTH_CLOUDFLARE_TEAM_DOMAIN", "AUTH_CLOUDFLARE_AUDIENCE"}
    [] provider = "local" -> {"AUTH_LOCAL_ISSUER", "AUTH_LOCAL_AUDIENCE", "AUTH_LOCAL_JWKS_URL"}
    [] provider = "pomerium" ->
         {"AUTH_POMERIUM_JWKS_URL", "AUTH_POMERIUM_ISSUER", "AUTH_POMERIUM_AUDIENCE"}
    [] OTHER -> {}

\* The variables in the list of problems that Load returns.
Problems(env) ==
  InvalidDurations(env) \cup InvalidPlaces(env)
  \cup {v \in Required(LoadedAuth(env).Provider) : env[v] = ""}

----------------------------------------------------------------------------
(* cmd/app: the settings of all providers side by side.                    *)

\* Mutant: Pomerium is given the local provider's audience.
SettingsMixedUp(auth) ==
  [TeamDomain |-> auth.Cloudflare.TeamDomain, Audience |-> auth.Cloudflare.Audience,
   LocalIssuer |-> auth.Local.Issuer, LocalAudience |-> auth.Local.Audience,
   JWKSURL |-> auth.Local.JWKSURL, LocalHeader |-> auth.Local.Header,
   LocalAlgorithm |-> auth.Local.Algorithm,
   PomeriumJWKSURL |-> auth.Pomerium.JWKSURL, PomeriumIssuer |-> auth.Pomerium.Issuer,
   PomeriumAudience |-> auth.Local.Audience, PomeriumHeader |-> auth.Pomerium.Header,
   PomeriumAlgorithm |-> auth.Pomerium.Algorithm,
   PomeriumRolePrefix |-> auth.Pomerium.RolePrefix]
Settings(auth) ==
  [TeamDomain |-> auth.Cloudflare.TeamDomain, Audience |-> auth.Cloudflare.Audience,
   LocalIssuer |-> auth.Local.Issuer, LocalAudience |-> auth.Local.Audience,
   JWKSURL |-> auth.Local.JWKSURL, LocalHeader |-> auth.Local.Header,
   LocalAlgorithm |-> auth.Local.Algorithm,
   PomeriumJWKSURL |-> auth.Pomerium.JWKSURL, PomeriumIssuer |-> auth.Pomerium.Issuer,
   PomeriumAudience |-> auth.Pomerium.Audience, PomeriumHeader |-> auth.Pomerium.Header,
   PomeriumAlgorithm |-> auth.Pomerium.Algorithm,
   PomeriumRolePrefix |-> auth.Pomerium.RolePrefix]

----------------------------------------------------------------------------
(* internal/auth: a provider, or the error of its constructor.             *)

Failed(why) == [error |-> why]

\* MapClaims: the claim that carries the roles, and the prefix that is stripped from them.
CloudflareMapping == [claim |-> "roles", prefix |-> ""]
LocalMapping == [claim |-> "roles", prefix |-> ""]
PomeriumMapping(prefix) == [claim |-> "groups", prefix |-> prefix]

\* Mutant: whatever comes first is taken for the prefix.
TrimAnyPrefix(prefix, role) == IF Len(role) > 1 THEN Tail(role) ELSE role
\* A role is the sequence of its parts.  A prefix is stripped if it is the first of them,
\* and no prefix is the identity.
TrimRolePrefix(prefix, role) ==
  IF prefix # "" /\ role # <<>> /\ Head(role) = prefix THEN Tail(role) ELSE role

\* Mutant: any algorithm will do.
NewUnpinnedProvider(cfg) ==
  IF "" \in {cfg.Header, cfg.Issuer, cfg.Audience, cfg.JWKSURL} THEN Failed("missing") ELSE cfg
NewJWTProvider(cfg) ==
  IF "" \in {cfg.Header, cfg.Issuer, cfg.Audience, cfg.JWKSURL} THEN Failed("missing")
  ELSE IF cfg.Algorithm \notin {"RS256", "ES256"} THEN Failed("unsupported algorithm")
  ELSE cfg

\* A team domain that is well formed may be given with its suffix, which is trimmed once.
ValidTeamDomain(d) == \E t \in Teams : d \in {t, t \o Suffix}
Team(d) == IF \E t \in Teams : d = t \o Suffix THEN CHOOSE t \in Teams : d = t \o Suffix ELSE d

NewCloudflare(s) ==
  LET issuer == "https://" \o Team(s.TeamDomain) \o Suffix
  IN IF s.TeamDomain = "" \/ s.Audience = "" THEN Failed("missing")
     ELSE IF ~ValidTeamDomain(s.TeamDomain) THEN Failed("invalid team domain")
     ELSE NewJWTProvider(
            [Header |-> "Cf-Access-Jwt-Assertion", Issuer |-> issuer, Audience |-> s.Audience,
             Algorithm |-> "RS256", JWKSURL |-> issuer \o "/cdn-cgi/access/certs",
             MapClaims |-> CloudflareMapping])

NewLocal(s) ==
  IF s.LocalIssuer = "" \/ s.LocalAudience = "" \/ s.JWKSURL = "" THEN Failed("missing")
  ELSE NewJWTProvider(
         [Header |-> EnvString(s.LocalHeader, "Cf-Access-Jwt-Assertion"),
          Issuer |-> s.LocalIssuer, Audience |-> s.LocalAudience,
          Algorithm |-> EnvString(s.LocalAlgorithm, "RS256"), JWKSURL |-> s.JWKSURL,
          MapClaims |-> LocalMapping])

NewPomerium(s) ==
  IF "" \in {s.PomeriumJWKSURL, s.PomeriumIssuer, s.PomeriumAudience} THEN Failed("missing")
  ELSE NewJWTProvider(
         [Header |-> EnvString(s.PomeriumHeader, "X-Pomerium-Jwt-Assertion"),
          Issuer |-> s.PomeriumIssuer, Audience |-> s.PomeriumAudience,
          Algorithm |-> EnvString(s.PomeriumAlgorithm, "ES256"), JWKSURL |-> s.PomeriumJWKSURL,
          MapClaims |-> PomeriumMapping(s.PomeriumRolePrefix)])

NewProvider(name, s) ==
  CASE name = "cloudflare-access" -> NewCloudflare(s)
    [] name = "local" -> NewLocal(s)
    [] name = "pomerium" -> NewPomerium(s)
    [] OTHER -> Failed("unknown provider")
=============================================================================
