SPECIFICATION Spec
CONSTANTS
  Codes = {c1, c2}
  Requests = {r1}
  Clients = {app1, app2}
  Uris = {u1}
  Verifiers = {v1}
  Scopes = {read, write}
  Trusted = {app2}
  CodeLife = 1
  TokenLife = 1
  PkceRequired = TRUE
  MaxTime = 1
  MaxPairs = 2
  Null = Null
SYMMETRY InterchangeableButClients
INVARIANTS
  ConsentBehindEveryCode
CHECK_DEADLOCK FALSE
