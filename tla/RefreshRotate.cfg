SPECIFICATION FairSpec
CONSTANTS
  Requests = {r1, r2}
  MaxPk = 3
  MaxWrites = 1
  MaxTime = 1
  Scopes = {read}
  Grace = 1
  ReuseProtection = TRUE
  Rotate = TRUE
  Null = Null
INVARIANTS
  TypeOK
  NoOrphanAccess
  SingleSuccessor
  SourceSpent
  SweepRevokesWhatItSaw
  ReplyIsUsable
PROPERTIES
  RevocationFinal
  DeadFamilyStaysDead
  ImplementsLifecycle
  EveryRequestEnds
