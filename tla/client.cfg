SPECIFICATION FairSpec
CONSTANTS
  RecvBufSize = 2
  RecvTimeoutSec = 1
  SendTimeoutSec = 1
  MaxLag = 0
  StreamLen = 2
  MsgSize = 2
  SndBuf = 2
  Remains = {0, 1, 2}
  SysCallsFail = TRUE
  ConnRetrySec = {0, 1}
  ConnTimeoutSec = 1
INVARIANTS Intact ReportsTrue NoFdLeak
PROPERTIES ImplementsApi ClosedIsReported KeepsTrying
