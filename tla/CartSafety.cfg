SPECIFICATION Spec
CONSTANTS
  Requests = {r1, r2}
  Clearers = {c1}
  NoRequest = NoRequest
  ClearCmd = ClearCmd
  UnclaimedMax = 1
  AckTimeout = 1
  MoveTimeout = 2
  AbsorbFloor = 1
  AckDelay = 0
  PlanDelay = 1
  MaxBacklog = 3
  MaxDown = 2
INVARIANTS TypeOK NoFalseSuccess NoDesync
PROPERTY KeepsPromise
SYMMETRY Symmetry
