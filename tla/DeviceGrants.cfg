SPECIFICATION FairSpec
CONSTANTS
  Devices = {d1, d2}
  UserCodes = {code1}
  Users = {alice, bob}
  Browsers = {b1, b2}
  Pollers = {p1}
  Lifetime = 1
  MaxTime = 1
  Null = Null
INVARIANTS
  TypeOK
  TokenUserEnteredCode
PROPERTIES
  ClosedStaysClosed
  DecisionStands
  ApprovedIsServed
CHECK_DEADLOCK FALSE
