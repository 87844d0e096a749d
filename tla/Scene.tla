------------------------------- MODULE Scene -------------------------------
(***************************************************************************)
(* Display and projection together (renderer_top.sv): the pose that the    *)
(* keys have led to, and where it puts the vertices of the object on the   *)
(* screen.  A frame edge moves the pose; the frame that starts with it is  *)
(* projected with the new one (see Renderer!OnePosePerFrame).              *)
(***************************************************************************)
EXTENDS Display, Projection

VARIABLE view   \* of each vertex: x, y, w before the division, and its pixel

sceneVars == <<vars, view>>

\* The vertices P1 to P8 of list_writer.sv, and its triangles.
P(k) == LET Side(bit) == IF ((k - 1) \div bit) % 2 = 0 THEN -One ELSE One
        IN  <<Side(1), Side(2), Side(4)>>

Vertices == {P(k) : k \in 1 .. 8}

Triangles == { <<P(1), P(2), P(3)>>, <<P(2), P(3), P(4)>>, <<P(1), P(2), P(5)>>,
               <<P(2), P(5), P(6)>>, <<P(1), P(3), P(5)>>, <<P(3), P(5), P(7)>>,
               <<P(2), P(4), P(8)>>, <<P(2), P(8), P(6)>>, <<P(3), P(4), P(7)>>,
               <<P(4), P(7), P(8)>>, <<P(5), P(6), P(7)>>, <<P(6), P(7), P(8)>> }

\* A coordinate as the signed number the projection takes it for.
Translate(p) ==
  LET Length(i) == LET u == p[i] * (65536 \div Positions)
                   IN  IF u > Fixed.most THEN u - 65536 ELSE u
  IN  [i \in Axis |-> Length(i)]

Seen(c) == [x |-> c.x, y |-> c.y, w |-> c.w, pixel |-> PixelOf(c)]

SeenBy(mvp) == [v \in Vertices |-> Seen(Projected4(mvp, v))]

View(al, p) == SeenBy(mvp_matrix(al, Translate(p)))

\* The triangles that the projection writes into the fifo.
Shown(vw) == {t \in Triangles : ~clip(vw[t[1]].pixel, vw[t[2]].pixel, vw[t[3]].pixel)}

StartView == View([i \in Axis |-> 0], [i \in Axis |-> IF i = "z" THEN ZStart ELSE 0])

SceneInit == Init /\ view = StartView

SceneNext == \/ FrameEdge /\ view' = View(angle', pos')
             \/ PressReset /\ view' = StartView
             \/ (\E k \in Keys : KeyReport(k)) /\ UNCHANGED view

SceneSpec == SceneInit /\ [][SceneNext]_sceneVars
-----------------------------------------------------------------------------
\* The rows of a matrix are of length 1 and at right angles, within 1/25.
Square == Trig.one * Trig.one

Rigid(R) ==
  LET Dot(i, j) == R[3*i - 2] * R[3*j - 2] + R[3*i - 1] * R[3*j - 1] + R[3*i] * R[3*j]
  IN  \A i, j \in 1 .. 3 :
        25 * (Magnitude(Dot(i, j) - IF i = j THEN Square ELSE 0) \div 64) <= Square \div 64

(* How round the table of sines and cosines is: sine and cosine of an      *)
(* angle lie on a circle, on an ellipse when one of them is shrunk or      *)
(* stretched like that circle, and again when the other is like that       *)
(* ellipse.  The angles of a rotation do so to each other.                 *)
Round(p, q) ==
  /\ p + q \in Square - Square \div 68 .. Square + Square \div 77
  /\ p + q - p \div 68 >= Square - Square \div 39
  /\ p + q + p \div 77 <= Square + Square \div 51
  /\ p + q - p \div 68 - q \div 39 >= Square - Square \div 27
  /\ p + q + p \div 77 + q \div 51 <= Square + Square \div 33

SinesAreRound ==
  \A a \in 0 .. TwoPi :
    LET s == cal_sin(a)
        c == cal_cos(a)
    IN  /\ {s, c} \subseteq -Trig.one .. Trig.one
        /\ Round(s * s, c * c) /\ Round(c * c, s * s)

(* For all angles, the 8 digits of the angle, the rotations of the sine    *)
(* and their patches near 0 and a right angle, the folding of the          *)
(* quadrants and the rounding of the products leave a rotation.            *)
RotationIsRigid == Rigid(euler_angle_matrix(angle["x"], angle["y"], angle["z"]))

(* "Smoothly" (renderer_top.sv:3): for each unit that an axis turns a      *)
(* vertex moves by two pixels at most, in whatever quadrant and however    *)
(* the angle is rounded, folded and wrapped.  An object at rest, whose     *)
(* angle changes between 0 and a full turn, stands still.                  *)
Turning == Magnitude(angle_v["x"]) + Magnitude(angle_v["y"]) + Magnitude(angle_v["z"])

NothingJumps ==
  [][FrameEdge /\ pos' = pos /\ (\A v \in Vertices : view[v].w \in -100 * One .. -12 * One)
       => \A v \in Vertices, i \in {1, 2} :
            Magnitude(view'[v].pixel[i] - view[v].pixel[i]) <= 2 * Turning]_sceneVars

(* Where an unturned object must appear, by geometry: a vertex at X from   *)
(* the axis of view and at W along it belongs at extent / 2 * (1 + f X / W) *)
(* of the screen (project_triangle.sv:133).  It is never shown elsewhere,  *)
(* and shown if it is there, although every sum and product on the way is  *)
(* saturated.  Not so for vertices close to the camera, where the digits   *)
(* are too few, and for distant ones (see Distant).                        *)
Still == \A i \in Axis : angle[i] \in {0, TwoPi}

Off(v, k) == (scale * v[k]) \div One + Translate(pos)[<<"x", "y", "z">>[k]]
Along(v)  == Off(v, 3) - z_pos

\* The place is Numerator / Denominator.
Denominator(v) == 2 * Magnitude(Along(v))
Numerator(v, k, factor, extent) ==
  LET shift == (factor * Off(v, k)) \div One
  IN  extent * (Magnitude(Along(v)) + IF Along(v) < 0 THEN -shift ELSE shift)

Tolerance == 2

At(px, num, den) == Magnitude(px * den - num) <= Tolerance * den

Within(num, den, extent) == num \in Tolerance * den .. (extent - Tolerance) * den

Distant(v) == Along(v) < -112 * One
Close(v)   == Magnitude(Along(v)) < 2 * One

PlacedExactly ==
  Still => \A v \in Vertices : ~Distant(v) /\ ~Close(v) =>
    LET V   == view[v].pixel
        den == Denominator(v)
        nx  == Numerator(v, 1, 464, width)
        ny  == Numerator(v, 2, 618, height)
    IN  /\ ~Beyond(V) => At(V[1], nx, den) /\ At(V[2], ny, den)
        /\ Within(nx, den, width) /\ Within(ny, den, height) => ~Beyond(V)

(* A coordinate that wraps (display.sv:162) would bring the object to the  *)
(* other side in one frame: nothing of it is shown at that moment.         *)
SideWrapHidden ==
  [][\A i \in {"x", "y"} :
       /\ FrameEdge /\ Magnitude(Translate(pos')[i] - Translate(pos)[i]) > Fixed.most
       /\ \A v \in Vertices : ~Distant(v) /\ Along(v) < 0
       => Shown(view) = {} /\ Shown(view') = {}]_sceneVars
=============================================================================
