\* max_retries = u32::MAX: no attempt is made.
SPECIFICATION Spec
CONSTANTS
  c1 = c1
  c2 = c2
  p1 = p1
  p2 = p2
  None = None
  CallIds <- NoCallIds
  Prompts <- OnePrompt
  Requests <- PlainRequests
  every_n_turns = 1
  KeepRecent = 0
  max_retries = 3
  MaxU32 = 3
  MaxTraceEvents = 20
  MaxLog = 4
  MaxRevision = 6
PROPERTIES
  FinishTraced
