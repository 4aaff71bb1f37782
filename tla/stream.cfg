SPECIFICATION Spec
CONSTANTS
  WaitForResend = {TRUE, FALSE}
  BUFSIZE = 6
  MAX_SEG = 3
  Wrap = 32
  StreamLen = 8
  ISN = {29}
  MaxPayload = 3
  Remains = {0, 1, 3}
  LateSyn = FALSE
INVARIANTS Intact BufferCorrect NewDataFed
