\* Frames behind noise, false and torn headers, in any chunks; two writers; close; unplugging.
SPECIFICATION FairSpec
CONSTANTS
  w1 = w1
  w2 = w2
  Streams <- MCStreams
  SOF = 165
  Intact <- MCIntact
  PartialMax = 1
  ChunkMax = 3
  Writers <- MCWriters
  FrameSize = 2
  MinVersion <- MCMinVersion
INVARIANTS AsIfInOnePass WritesAreWhole NobodyInside NoFrameIsLost
PROPERTY NoLockup
\* The reader thread ends with the link.
CHECK_DEADLOCK FALSE
