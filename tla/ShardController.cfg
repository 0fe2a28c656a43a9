SPECIFICATION ControllerSpec
CONSTANTS
  Clients = {c1, c2}
  ReqPerConn = 1
  AcceptErrors = TRUE
INVARIANTS
  EraseFindsItsConnection
  NoThreadOutlivesStop
PROPERTIES
  StopReturns
