SPECIFICATION Spec
CONSTANTS
  Threads = {t1, t2}
  Commands = {c1}
  StatusCmd = StatusCmd
  NoThread = NoThread
  QueueMax = 1
  MaxDown = 1
  MaxUp = 1
  MaxErrors = 1
INVARIANTS NoLostWakeup OwnAnswer NothingStolen CleanClose
SYMMETRY Symmetry
