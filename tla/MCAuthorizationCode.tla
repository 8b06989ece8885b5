------------------------- MODULE MCAuthorizationCode -------------------------
(* Model checking of AuthorizationCode: codes, workers, clients, URIs and    *)
(* verifiers are interchangeable, clients only if none of them is trusted.   *)
EXTENDS AuthorizationCode, TLC

InterchangeableButClients ==
  Permutations(Codes) \union Permutations(Requests) \union Permutations(Uris)
    \union Permutations(Verifiers)
Interchangeable == InterchangeableButClients \union Permutations(Clients)
=============================================================================
