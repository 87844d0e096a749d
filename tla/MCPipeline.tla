----------------------------- MODULE MCPipeline -----------------------------
(* Three triangles, two poses, a screen just large enough for the clear to *)
(* outlast the projection.  One triangle is clipped in one of the poses.   *)
EXTENDS Pipeline

CONSTANTS t1, t2, t3, p, q

MCObject == <<t1, t2, t3>>
MCPose == {p, q}
MCProjected(po, t) == <<po, t>>
MCClip(po, t) == <<po, t>> = <<q, t1>>
MCTriangle == MCPose \X OrigWord
MCOrigin == <<0, 0>>
=============================================================================
