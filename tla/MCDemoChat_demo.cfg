\* Every endpoint once.
SPECIFICATION Spec
CONSTANTS
  c1 = c1
  c2 = c2
  p1 = p1
  chat1 = chat1
  tool1 = tool1
  done1 = done1
  None = None
  CallIds <- TwoCallIds
  Prompts <- OnePrompt
  Chats <- OneChat
  ToolChats <- OneToolChat
  Completes <- OneComplete
  ReplyCalls <- MCReplyCalls
  Requests <- AnyResults
  MaxMessages = 5
  MaxEvents = 3
INVARIANTS
  DemoTypeOK
  ReportsTrue
PROPERTIES
  AnswersOwnQuestion
  RecreatesOnlyRemoved
  DemoEnds
CHECK_DEADLOCK FALSE
