SPECIFICATION Spec
CONSTANTS
  Requests = {r1, r2}
  MaxPk = 3
  MaxWrites = 1
  MaxTime = 1
  Scopes = {read}
  Grace = 0
  ReuseProtection = TRUE
  Rotate = TRUE
  Null = Null
SYMMETRY Workers
INVARIANTS
  SessionEnded
