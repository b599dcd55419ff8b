\* Every call, a lost answer and two late ones.
SPECIFICATION Spec
CONSTANTS
  nan = nan
  NaN = nan
  N = 2
  Limits <- MCLimits
  Targets <- MCTargets
  Bodies = {0, 1}
  SampleSize = 2
  ChunkMax = 3
  LogMax = 3
  Captures = {1, 3, 4}
  Retries = 1
  Attempts = 2
  Apis <- MCApis
  MaxCalls = 3
  MaxLate = 2
  MaxLost = 1
INVARIANTS TargetsAreInside LimitsAreTheArms ActivationIsTrue CaptureIsWhole
