SPECIFICATION FairSpec
CONSTANTS
  Timer = {t1, t2}
  TimerSlots = 3
  Wrap = 18
  MaxDuration = 13
INVARIANT LongPlaced
PROPERTIES OnTime EventuallyFires
