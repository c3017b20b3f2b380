\* Tool turns, one recent turn kept.
SPECIFICATION Spec
CONSTANTS
  c1 = c1
  c2 = c2
  p1 = p1
  p2 = p2
  None = None
  CallIds <- MCCallIds
  Prompts <- OnePrompt
  Requests <- ToolTurnRequests
  every_n_turns = 1
  KeepRecent = 1
  max_retries = 1
  MaxU32 = 1000
  MaxTraceEvents = 20
  MaxLog = 11
  MaxRevision = 14
INVARIANTS
  SingleFlight
  SnapshotCompressible
  TurnAccounting
  ToolCallsPaired
  CompressionTransparent
  NothingLost
  RecentTurnsKept
  DueCompressionStarted
  CanGoOn
PROPERTIES
  FinishTraced
  KeepsPromise
