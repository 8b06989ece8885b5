SPECIFICATION Spec
CONSTANTS
  Requests = {r1, r2}
  MaxPk = 3
  MaxWrites = 1
  MaxTime = 2
  Scopes = {read}
  Grace = 0
  ReuseProtection = FALSE
  Rotate = FALSE
  Null = Null
SYMMETRY Workers
INVARIANTS
  ReplyIsUsable
