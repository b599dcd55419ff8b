SPECIFICATION FairSpec
CONSTANTS
  Threads = {t1, t2}
  Nobody = Nobody
  MaxDown = 2
  MaxUp = 2
CHECK_DEADLOCK FALSE
INVARIANTS LastWordIsOff ActiveIsKept
PROPERTIES LossIsTold StopsEnd
