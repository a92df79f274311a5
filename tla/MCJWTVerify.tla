----------------------------- MODULE MCJWTVerify -----------------------------
(* Small instances of JWTVerify for TLC.                                     *)
EXTENDS JWTVerify, TLC

CONSTANTS rsa1, ec1

MCKids == {rsa1, ec1}
MCKeyType == (rsa1 :> "RSA") @@ (ec1 :> "EC")

\* The variables that must be set for some provider; each is unset or names itself.
Naming == {"AUTH_CLOUDFLARE_AUDIENCE", "AUTH_LOCAL_ISSUER", "AUTH_LOCAL_AUDIENCE",
           "AUTH_LOCAL_JWKS_URL", "AUTH_POMERIUM_JWKS_URL", "AUTH_POMERIUM_ISSUER",
           "AUTH_POMERIUM_AUDIENCE"}
Optional == {"AUTH_LOCAL_HEADER", "AUTH_POMERIUM_HEADER"}
Algorithms == {"AUTH_LOCAL_ALGORITHM", "AUTH_POMERIUM_ALGORITHM"}
Formed == DurationVars \cup {"HTTP_ADDR", "DATABASE_PATH"}

\* An environment for a provider, in which the given variables are unset.
Env(name, unset, team, alg, prefix, bad) ==
  [v \in Naming \cup Optional |-> IF v \in unset THEN "" ELSE v]
  @@ [v \in Algorithms |-> alg]
  @@ [v \in Formed |-> IF v = bad THEN "bad" ELSE ""]
  @@ [AUTH_PROVIDER |-> name, AUTH_CLOUDFLARE_TEAM_DOMAIN |-> team,
      AUTH_POMERIUM_ROLE_PREFIX |-> prefix]

Names == {"", "cloudflare-access", "local", "pomerium", "unknown"}
MCTeams == {"acme"}
Domains == {"", "acme", "acme.cloudflareaccess.com", "-acme"}

\* The ones that requests are sent under: one for each provider, and one algorithm that is
\* not the provider's default.
MCServed ==
  {Env("", {}, "acme.cloudflareaccess.com", "", "", ""), Env("local", {}, "", "ES256", "", ""),
   Env("pomerium", Optional, "acme", "", "/", ""), Env("pomerium", {}, "acme", "RS256", "", "")}

\* Of the variables of one provider any may be unset, of the others all or none.
OwnNaming(name) == Naming \cap Required(IF name = "" THEN "cloudflare-access" ELSE name)
Unset(name) == {u \cup o : u \in SUBSET OwnNaming(name), o \in {{}, Naming \ OwnNaming(name)}}

MCEnvironments ==
  MCServed
  \cup UNION {{Env(n, u, "acme", a, "/", "") : u \in Unset(n), a \in {"", "HS256"}} : n \in Names}
  \cup {Env("", u, t, "", "", b) : u \in {{}, Naming}, t \in Domains,
                                  b \in {"", "DATABASE_PATH", "HTTP_IDLE_TIMEOUT"}}

Another == "another"
MCFlaws ==
  {<<>>,
   [form |-> "garbled"], [form |-> "bad signature"],
   [alg |-> "none"], [alg |-> "HS256"], [alg |-> "rs256"], [alg |-> "RS256"],
   [kid |-> None], [kid |-> rsa1], [kid |-> rsa1, signer |-> rsa1], [kid |-> ec1, signer |-> ec1],
   [signer |-> Forger],
   [iss |-> Another], [iss |-> None], [aud |-> {Another}], [aud |-> {}], [sub |-> ""],
   [typed |-> FALSE], [exp |-> None], [exp |-> 0], [nbf |-> 2], [iat |-> 3],
   [roles |-> {}, groups |-> {<<"admin">>}],
   [roles |-> {<<"/", "admin">>}, groups |-> {<<"users">>}],
   [roles |-> {<<"admins">>}, groups |-> {<<"/", "admins">>, <<"/">>, <<>>}],
   \* two at once
   [signer |-> Forger, exp |-> 0], [signer |-> Forger, iss |-> Another],
   [form |-> "bad signature", alg |-> "HS256"], [alg |-> "HS256", kid |-> None],
   [exp |-> 0, iss |-> Another], [nbf |-> 3, iat |-> 3],
   [exp |-> None, sub |-> ""], [typed |-> FALSE, aud |-> {}]}

\* Pomerium with groups that are paths, and tokens that the documents speak of.
MCPaths == {Env("pomerium", Optional, "acme", "", "/", "")}
MCDocumented == {<<>>, [groups |-> {<<"/", "admins">>}], [alg |-> "none"], [alg |-> "es256"]}
=============================================================================
