SPECIFICATION FairSpec
CONSTANTS
  Requests = {r1, r2}
  Clearers = {c1}
  NoRequest = NoRequest
  ClearCmd = ClearCmd
  UnclaimedMax = 1
  AckTimeout = 1
  MoveTimeout = 1
  AbsorbFloor = 1
  AckDelay = 0
  PlanDelay = 0
  MaxBacklog = 2
  MaxDown = 1
PROPERTIES EveryCallReturns Recovers
