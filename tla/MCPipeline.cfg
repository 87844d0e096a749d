SPECIFICATION Spec
CONSTANTS
  t1 = t1
  t2 = t2
  t3 = t3
  p = p
  q = q
  NoTriangle = NoTriangle
  Unwritten = Unwritten
  H_TOTAL = 6
  V_TOTAL = 3
  size = 3
  Object <- MCObject
  Pose <- MCPose
  Home = p
  Projected <- MCProjected
  Clip <- MCClip
  Triangle <- MCTriangle
  Origin <- MCOrigin
INVARIANTS NeverBoth NothingDropped FramesDoNotMix ReadyForFrame
PROPERTY FifoIsQueue
