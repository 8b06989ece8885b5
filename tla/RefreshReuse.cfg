SPECIFICATION Spec
CONSTANTS
  Requests = {r1, r2}
  MaxPk = 3
  MaxWrites = 1
  MaxTime = 2
  Scopes = {read, write}
  Grace = 1
  ReuseProtection = FALSE
  Rotate = FALSE
  Null = Null
SYMMETRY Workers
INVARIANTS
  NoOrphanAccess
  ScopeNeverWidens
PROPERTIES
  ImplementsLifecycle
