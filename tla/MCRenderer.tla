----------------------------- MODULE MCRenderer -----------------------------
(* Four triangles and a screen of nine columns and three rows.  In the pose *)
(* p the triangles are small and one is clipped, in q they are so large     *)
(* that drawing them takes longer than a scan of the monitor.               *)
EXTENDS Renderer, TLC

CONSTANTS t1, t2, t3, t4, p, q

MCObject == <<t1, t2, t3, t4>>
MCPose == {p, q}
Nowhere == <<<<0, 0>>, <<0, 0>>, <<0, 0>>>>
MCScreen == ((p :> ((t1 :> <<<<1, 0>>, <<3, 0>>, <<2, 2>>>>) @@
                    (t2 :> <<<<4, 1>>, <<4, 1>>, <<6, 2>>>>) @@
                    (t3 :> <<<<8, 2>>, <<6, 2>>, <<8, 0>>>>) @@
                    (t4 :> <<<<3, 1>>, <<5, 1>>, <<3, 1>>>>)))
         @@  (q :> ((t1 :> <<<<0, 0>>, <<8, 0>>, <<8, 2>>>>) @@
                    (t2 :> <<<<0, 2>>, <<8, 2>>, <<1, 0>>>>) @@
                    (t3 :> <<<<7, 0>>, <<0, 1>>, <<8, 2>>>>) @@
                    (t4 :> <<<<3, 1>>, <<5, 1>>, <<3, 1>>>>))))
MCProjected(po, t) == IF t \in OrigTriangle THEN MCScreen[po][t] ELSE Nowhere
MCClip(po, t) == po = p /\ t = t2
MCTriangle == {MCProjected(po, t) : po \in MCPose, t \in OrigWord}
MCOrigin == <<0, 0>>
MCHSync == {9}
MCVSync == {3, 4}

ASSUME InstanceIsDrawable == DrawableObject
-----------------------------------------------------------------------------
(* What keeps the instance small.  The object rests in q, moves on to p at  *)
(* any frame and stays there; a reset, in any cycle of q or of p, brings it *)
(* to q for good.                                                           *)
OneMove == pose = p => pose' = p \/ resets' # resets
HomeAfterReset == resets > 0 => pose = Home
=============================================================================
