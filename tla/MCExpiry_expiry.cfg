\* Two handlers, deletes and the worker over two ids.
SPECIFICATION Spec
CONSTANTS
  s1 = s1
  s2 = s2
  h1 = h1
  h2 = h2
  None = None
  Ids <- MCIds
  Handlers <- MCHandlers
  ttl_seconds = 2
  MaxSessions = 2
  MaxScan = 1
INVARIANTS
  ExpiryTypeOK
  InUseKept
  NoSessionLost
PROPERTIES
  AbandonedExpires
