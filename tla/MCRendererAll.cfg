SPECIFICATION RendererSpec
CONSTANTS
  t1 = t1
  t2 = t2
  t3 = t3
  t4 = t4
  p = p
  q = q
  NoPicture = NoPicture
  Unwritten = Unwritten
  NoTriangle <- Nowhere
  H_TOTAL = 9
  V_TOTAL = 3
  VGA_H_TOTAL = 10
  VGA_V_TOTAL = 6
  HSync <- MCHSync
  VSync <- MCVSync
  Half = 16
  MaxResets = 0
  size = 4
  Object <- MCObject
  Pose <- MCPose
  Home = p
  Projected <- MCProjected
  Clip <- MCClip
  Triangle <- MCTriangle
  Origin <- MCOrigin
INVARIANT AllTrianglesDrawn
