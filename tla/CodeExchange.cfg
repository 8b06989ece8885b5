SPECIFICATION Spec
CONSTANTS
  Codes = {c1}
  Requests = {r1, r2}
  Clients = {app1, app2}
  Uris = {u1, u2}
  Verifiers = {v1, v2}
  Scopes = {}
  Trusted = {}
  CodeLife = 1
  TokenLife = 2
  PkceRequired = FALSE
  MaxTime = 2
  MaxPairs = 3
  Null = Null
SYMMETRY Interchangeable
INVARIANTS
  TypeOK
  AnsweredOnce
  PairMatchesGrant
PROPERTIES
  SpentStaysSpent
  ImplementsLifecycle
CHECK_DEADLOCK FALSE
