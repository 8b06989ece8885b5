\* Token endpoint, clean-up and logout on the same tables.
SPECIFICATION Spec
CONSTANTS
  NULL = NULL
  Unused = Unused
  Gone = Gone
  Keys = {1, 2}
  Accounts <- MCAccounts
  AccessLife = 1
  IdLife = 1
  Leeway = 1
  MaxTime = 3
  RefreshExpiry = 1
  Batch = 1
  Users = {"alice"}
  Tabs = {b1}
  Deletable = {"web"}
  AlwaysPrompt = FALSE
  AcceptExpired = TRUE
INVARIANTS TypeOK NoOrphanBearer StagesComplete LogoutRevokesWhatItSaw
PROPERTIES CleanerSparesSessions CleaningProgresses CleaningEnds
CHECK_DEADLOCK FALSE
