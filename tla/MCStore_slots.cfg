\* Operations of three workers on two ids, room for two sessions.
SPECIFICATION Spec
CONSTANTS
  s1 = s1
  s2 = s2
  s3 = s3
  w1 = w1
  w2 = w2
  w3 = w3
  Ids <- TwoIds
  UuidIds <- TwoIds
  Workers <- MCWorkers
  max_sessions = 2
INVARIANTS
  StoreTypeOK
  SlotAccounting
  CapacityRespected
PROPERTIES
  LockFree
  ActsAtomically
