\* The scopes a decorated read-write view asks for, request after request.
SPECIFICATION Spec
CONSTANTS
  r1 = r1
  r2 = r2
  None = None
  Tokens = {t1}
  Requests = {r1, r2}
  Grants <- MCGrants
  Views <- MCDecorated
  Sites <- MCDecoratedSite
  Introspects = TRUE
  CachingSeconds = 1
  MaxTime = 3
INVARIANT MethodScopeSuffices
CHECK_DEADLOCK FALSE
