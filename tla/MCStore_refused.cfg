\* An append refused although its session exists.
SPECIFICATION Spec
CONSTANTS
  s1 = s1
  s2 = s2
  s3 = s3
  w1 = w1
  w2 = w2
  w3 = w3
  Ids <- MCIds
  UuidIds <- NoIds
  Workers <- MCWorkers
  max_sessions = 1
PROPERTIES
  RefusedOnlyWhenNew
