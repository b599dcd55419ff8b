SPECIFICATION Spec
CONSTANTS
  Requests = {r1, r2}
  Clearers = {c1}
  NoRequest = NoRequest
  ClearCmd = ClearCmd
  UnclaimedMax = 1
  AckTimeout = 1
  MoveTimeout = 1
  AbsorbFloor = 0
  AckDelay = 1
  PlanDelay = 1
  MaxBacklog = 2
  MaxDown = 1
INVARIANTS TokenLife DeadStaysDead
SYMMETRY Symmetry
