\* Short turns, summaries about the limits of their size.
SPECIFICATION Spec
CONSTANTS
  None = None
  Turns <- MCTurns
  Answers <- MCAnswers
  every_n_turns = 2
  KeepRecent = 1
  PreservedHead = 20
  MaxTurns = 12
  MaxWaiting = 1
INVARIANTS
  SizeTypeOK
  SummaryShorter
  BacklogBounded
CHECK_DEADLOCK FALSE
