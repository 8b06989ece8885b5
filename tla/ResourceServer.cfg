\* Every kind of protected view in front of a cache filled by introspection.
SPECIFICATION Spec
CONSTANTS
  r1 = r1
  r2 = r2
  None = None
  Tokens = {t1}
  Requests = {r1, r2}
  Grants <- MCGrants
  Views <- MCViews
  Sites <- MCSites
  Introspects = TRUE
  CachingSeconds = 1
  MaxTime = 3
SYMMETRY ThreadSymmetry
INVARIANTS TypeOK NeverUnderProtected
PROPERTIES VouchedFor RevokedStaysOut ImplementsLeases
CHECK_DEADLOCK FALSE
