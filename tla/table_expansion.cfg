SPECIFICATION Spec
CONSTANTS
  Key = {2, 7, 23, 24}
  EmptyKey = 64
  MaxConnCnt = 4
  MaxTimeWaitConnCnt = 1
  InitTableSize = 8
  Roles = {"server"}
  ReconnectsInTW = FALSE
  ClosesInAllow = FALSE
INVARIANTS OpenIsFound
