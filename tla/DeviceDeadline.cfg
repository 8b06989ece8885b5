SPECIFICATION Spec
CONSTANTS
  Devices = {d1}
  UserCodes = {code1}
  Users = {alice, bob}
  Browsers = {b1, b2}
  Pollers = {p1}
  Lifetime = 1
  MaxTime = 1
  Null = Null
SYMMETRY Interchangeable
INVARIANTS
  NoTokensAfterDeadline
