\* Both endpoints while applications are edited and deleted.
SPECIFICATION Spec
CONSTANTS
  None = None
  AllowWildcards = TRUE
  RedirectSchemes = {"http", "https"}
  OriginSchemes = {"https"}
  Ids = {"a", "b"}
  Apps <- MCApps
  TokenRequests <- MCTokenRequests
  AuthRequests <- MCAuthRequests
  Available = {"read"}
  PkceRequired = TRUE
  MaxEdits = 2
INVARIANTS TypeOK AuthenticatedClient RedirectsWereRegistered StaysInDomain
CHECK_DEADLOCK FALSE
