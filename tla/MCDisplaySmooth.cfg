SPECIFICATION Spec
CONSTANTS
  HalfWord = 2048
  TwoPi = 1608
  angle_v_max = 32
  angle_a = 2
  angle_friction = 1
  Positions = 2048
  ZStart = 1984
  Keys <- MCKeys
PROPERTY SmoothRotation
