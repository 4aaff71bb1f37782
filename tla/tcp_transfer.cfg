SPECIFICATION Spec
CONSTANTS
  ConnSendBufCnt = 4
  ConnRecvBufSize = 4
  MaxRecvSegs = 2
  SMSS = 2
  RMSS = 2
  SynRetries = 1
  TcpRetries = 2
  ISN <- MCISN
  Scenario <- MCScenario
  Beats = 1
  Scenarios = {"transfer", "window", "reopen", "buffered", "callbacks"}
INVARIANTS StreamIntegrity ReassemblyCorrect UnackedIntact ClosingIsTrue FramesAllowed NoStall TimersSound
CHECK_DEADLOCK FALSE
