SPECIFICATION Spec
CHECK_DEADLOCK FALSE
CONSTANTS
  Byte = 16
  TxBufs = 3
  RxBufs = 2
  HeaderSums = {70, 510, 511}
  Sizes = {1, 227}
  MaxWrites = 5
  Chunks <- MCChunks
  MaxData = 12
  TcpSums = {70, 511, 4000}
  FieldValues = {0, 1, 254, 255}
INVARIANTS TxIntact RxExact InOrder ChecksumsTrue
