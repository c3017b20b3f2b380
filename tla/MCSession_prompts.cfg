\* Plain turns, no turn kept, prompts changed while compressing, a short trace window, stray tool fields.
SPECIFICATION Spec
CONSTANTS
  c1 = c1
  c2 = c2
  p1 = p1
  p2 = p2
  None = None
  CallIds <- OneCallId
  Prompts <- MCPrompts
  Requests <- WithStrayRequests
  every_n_turns = 0
  KeepRecent = 0
  max_retries = 1
  MaxU32 = 1000
  MaxTraceEvents = 4
  MaxLog = 8
  MaxRevision = 5
INVARIANTS
  TypeOK
  SnapshotFresh
  TracesAlternate
  CompressionTransparent
  SummaryReported
PROPERTIES
  RevisionMoves
  KeepsPromise
  CompressionEnds
