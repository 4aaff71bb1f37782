SPECIFICATION Spec
CONSTANTS
  RecvBufSize = 4
  RecvTimeoutSec = 1
  SendTimeoutSec = 1
  MaxLag = 0
  StreamLen = 4
  ServerStreamLen = 1
  MsgSize = 2
  PacketSizes = {1, 2}
  Remains = {0, 1, 2}
  Roles = {"client", "server"}
  ConnRetrySec = {0, 1}
  MaxConns = 2
  Backlog = 1
INVARIANTS Intact 
PROPERTIES ImplementsApi EndIsReported
