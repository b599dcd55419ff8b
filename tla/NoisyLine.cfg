\* Three frames, every burst of up to eight bits at every place of them.
SPECIFICATION Spec
CONSTANTS
  Samples <- MCSamples
  MinVersion <- MCMinVersion
  BurstMax = 8
INVARIANTS BurstsAreSeen StateFrameIsRead
