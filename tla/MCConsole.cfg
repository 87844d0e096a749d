SPECIFICATION FairSpec
CONSTANTS
  BufLen = 3
  Depth = 1
  Threshold = 0
  IntMax = 4
  Timeouts = {2, 4}
  Counts = {1, 3}
  ALT_MAX_FD = 6
  Names <- MCNames
CONSTRAINT Usage
INVARIANTS ConsoleTypeOK StreamsInOrder NothingStranded StandardStreams LockAlmostExclusive
PROPERTIES LockHonoured CallsReturn
