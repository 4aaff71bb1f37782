SPECIFICATION FairSpec
CONSTANTS
  ConnSendBufCnt = 8
  ConnRecvBufSize = 4
  MaxRecvSegs = 2
  SMSS = 1
  RMSS = 2
  SynRetries = 1
  TcpRetries = 2
  ISN <- MCISN
  Scenario <- MCScenario
  Beats = 2
  Scenarios = {"recovery", "finish"}
INVARIANTS ResendTimerArmed
PROPERTIES FinCompletes
CHECK_DEADLOCK FALSE
