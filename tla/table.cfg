SPECIFICATION Spec
CONSTANTS
  Key = {1, 2, 5, 7, 9, 15}
  EmptyKey = 64
  MaxConnCnt = 2
  MaxTimeWaitConnCnt = 1
  InitTableSize = 4
  Roles = {"client", "server"}
  ReconnectsInTW = FALSE
  ClosesInAllow = FALSE
INVARIANTS OwnersAgree PoolsExact
PROPERTIES IsRegistry
