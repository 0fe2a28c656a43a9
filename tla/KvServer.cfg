SPECIFICATION Spec
CONSTANTS
  k1 = k1
  a = a
  Keys = {k1}
  Chunks = {a}
  Requests <- PutGetRequests
  NWorkers = 2
  Clients = {c1, c2}
  ReqPerConn = 1
  ConnectEarly = TRUE
  AcceptErrors = TRUE
INVARIANTS
  StopLeavesOnlyTheLost
  OneAnswerPerRequest
PROPERTIES
  RequestsAreAnswered
  StopReturns
