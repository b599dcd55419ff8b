SPECIFICATION Spec
CONSTANTS
  Threads = {t1}
  Nobody = Nobody
  MaxDown = 2
  MaxUp = 2
CHECK_DEADLOCK FALSE
INVARIANT NoTerminate
