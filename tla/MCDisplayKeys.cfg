SPECIFICATION FairSpec
CONSTANTS
  HalfWord = 16
  TwoPi = 4
  angle_v_max = 2
  angle_a = 2
  angle_friction = 1
  Positions = 2
  ZStart = 1
  Keys <- MCKeys
INVARIANT InRange
PROPERTIES TurnsByVelocity FrictionBrakes ComesToRest
