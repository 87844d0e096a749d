SPECIFICATION FairSpec
CONSTANTS
  Half = 8
  Lines <- MCLines
INVARIANTS StaysInBox NearLine
PROPERTIES ComesCloser DrawableLineEnds
