SPECIFICATION FairSpec
CONSTANTS
  ConnSendBufCnt = 4
  ConnRecvBufSize = 4
  MaxRecvSegs = 2
  SMSS = 2
  RMSS = 2
  SynRetries = 1
  TcpRetries = 2
  ISN <- MCISN
  Scenario <- MCScenario
  Beats = 2
  Scenarios = {"blocked_fin"}
PROPERTIES FinCompletes
CHECK_DEADLOCK FALSE
