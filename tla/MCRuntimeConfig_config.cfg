\* Updates and reads of three requests; when all are answered nothing is left
\* to do.
SPECIFICATION Spec
CONSTANTS
  r1 = r1
  r2 = r2
  r3 = r3
  Absent = Absent
  Blank = Blank
  Requests <- MCRequests
  Settings <- MCSettings
  Updates <- MCUpdates
  StartUp <- MCStartUp
CHECK_DEADLOCK FALSE
INVARIANTS
  ConfigTypeOK
  NoUpdateLost
  CopyWholeAndCurrent
PROPERTIES
  RequestsEnd
