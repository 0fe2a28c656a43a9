SPECIFICATION Spec
CONSTANTS
  MaxTokens = 4
  PayloadLen = 2
  MaxFailures = 1
  Misread = {"QUERY", "GET", "invalid"}
  CallsAfterCut = 1
  Groups <- MCGroups
INVARIANTS
  AnswersMatch
PROPERTIES
  CallsReturn
  StopReturns
CHECK_DEADLOCK FALSE
