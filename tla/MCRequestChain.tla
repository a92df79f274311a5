--------------------------- MODULE MCRequestChain ---------------------------
(* Small instances of RequestChain for TLC.                                  *)
EXTENDS RequestChain, TLC

\* Both mutations, the page, reads that use the store and that do not, methods and
\* paths that no pattern takes.
AuthedEndpoints ==
  {<<"PUT", "/api/config/{key}">>, <<"PUT", "/ui/config/{key}">>, <<"GET", "/">>,
   <<"GET", "/api/config">>, <<"GET", "/api/me">>, <<"POST", "/api/me">>}

\* The routes outside the chain, and a probe that falls into it.
OpenEndpoints ==
  {<<"GET", "/healthz">>, <<"GET", "/readyz">>, <<"GET", "/metrics">>, <<"GET", "/static/">>,
   <<"POST", "/healthz">>}

AllEndpoints == AuthedEndpoints \cup OpenEndpoints

ChainSymmetry == Permutations(Requests)
=============================================================================
