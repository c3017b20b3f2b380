\* A session accessed between the look and the removal.
SPECIFICATION Spec
CONSTANTS
  s1 = s1
  s2 = s2
  h1 = h1
  h2 = h2
  None = None
  Ids <- MCIds
  Handlers <- OneHandler
  ttl_seconds = 2
  MaxSessions = 2
  MaxScan = 1
PROPERTIES
  RemovesOnlyIdle
