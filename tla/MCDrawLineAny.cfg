SPECIFICATION FairSpec
CONSTANTS
  Half = 8
  Lines <- HardLines
PROPERTY EveryLineEnds
