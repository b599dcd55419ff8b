\* One call of each kind; lost frames, faults, another process's motion, a dead link.
SPECIFICATION Spec
CONSTANTS
  Kinds <- MCKinds
  Budget <- MCBudget
  CapFactor = 2
  ArriveFrames = 3
  Slice = 2
  PoseWindow = 2
  Nap = 1
  BusyDelay = 1
  SeqWheel = 22
  FirstSeq = 20
  MaxPoints = 1
  MaxLead = 1
  MaxTicks = 10
  AirMax = 1
INVARIANTS NoFalseArrival WholeMotion FaultIsNews NotCutShort EndsInTime
