SPECIFICATION FairSpec
CONSTANTS
  Threads = {t1}
  Commands = {c1}
  StatusCmd = StatusCmd
  NoThread = NoThread
  QueueMax = 1
  MaxDown = 1
  MaxUp = 1
  MaxErrors = 1
PROPERTIES CallsReturn CloseReturns
