SPECIFICATION FairSpec
CONSTANTS
  RecvBufSize = 2
  RecvTimeoutSec = 0
  SendTimeoutSec = 1
  MaxLag = 1
  StreamLen = 0
  MsgSize = 1
  SndBuf = 1
  Remains = {0}
  SysCallsFail = TRUE
  MaxConns = 2
  Backlog = 1
INVARIANTS TableExact PolledOnce
PROPERTIES ClosedIsReported BacklogServed
