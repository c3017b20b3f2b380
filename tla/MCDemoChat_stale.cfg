\* A completion races a tool result.
SPECIFICATION Spec
CONSTANTS
  c1 = c1
  c2 = c2
  p1 = p1
  chat1 = chat1
  tool1 = tool1
  done1 = done1
  None = None
  CallIds <- OneCallId
  Prompts <- OnePrompt
  Chats <- OneChat
  ToolChats <- OneToolChat
  Completes <- OneComplete
  ReplyCalls <- OneReplyCall
  Requests <- ToolResults
  MaxMessages = 8
  MaxEvents = 3
PROPERTIES
  ContinuesAfterResults
CHECK_DEADLOCK FALSE
