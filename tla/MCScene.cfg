SPECIFICATION SceneSpec
CONSTANTS
  HalfWord = 2048
  TwoPi = 1608
  angle_v_max = 1
  angle_a = 1
  angle_friction = 1
  Positions = 256
  ZStart = 248
  Keys <- MCKeys
CONSTRAINT Journey
INVARIANTS RotationIsRigid PlacedExactly
PROPERTIES NothingJumps SideWrapHidden
