----------------------------- MODULE Projection -----------------------------
(***************************************************************************)
(* The combinational projection, project_cal.sv and what it is made of:    *)
(* sine and cosine, the matrices, the division by w, the viewport and the  *)
(* clip test, with the widths of the source.  A matrix is a sequence of    *)
(* four rows.                                                              *)
(***************************************************************************)
EXTENDS FixedPoint

Angle == Format(4, 8)     \* radians
Trig  == Format(2, 12)    \* sines and cosines
Fixed == Format(8, 8)     \* lengths
Pixel == Format(12, 0)    \* positions on the screen

One == 256

-----------------------------------------------------------------------------
(* fxp_sin: the CORDIC rotations by atan(1), atan(1/2), ...; its registers *)
(* are unsigned words of format 4.12, its constants written with 28 digits. *)
Cordic  == Format(4, 12)
Word16(v) == v % 65536

Precise(v) == fxp_zoom(v, Format(4, 28), Cordic)
halfpi == Precise(421657428)
xinit  == Precise(163009877)
atan_table == [i \in 1 .. 8 |->
  Precise(<<210828714, 124459457, 65760959, 33381289,
            16755421, 8385878, 4193962, 2097109>>[i])]

Rotate(r, i, target) ==
  LET dx == r.y \div 2^(i - 1)
      dy == r.x \div 2^(i - 1)
  IN  IF target > r.z
      THEN [x |-> Word16(r.x - dx), y |-> Word16(r.y + dy), z |-> Word16(r.z + atan_table[i])]
      ELSE [x |-> Word16(r.x + dx), y |-> Word16(r.y - dy), z |-> Word16(r.z - atan_table[i])]

fxp_sin(a) ==
  LET target == fxp_zoom(a, Angle, Cordic)
      r[i \in 0 .. 8] == IF i = 0 THEN [x |-> xinit, y |-> 0, z |-> 0]
                         ELSE Rotate(r[i - 1], i, target)
      y == IF target < 0 THEN 0
           ELSE IF target > halfpi THEN Cordic.one ELSE r[8].y
  IN  fxp_zoom(IF y > Cordic.most THEN y - 65536 ELSE y, Cordic, Trig)

\* Near 0 and near a right angle the rotations go wrong.
fix_sin(a) == CASE a < 20  -> fxp_zoom(a, Angle, Trig)
                [] a > 382 -> Trig.one
                [] OTHER   -> fxp_sin(a)

(* Angles of 0 to 2 pi are folded into the first quadrant.                 *)
Pi == 804
HalfPi == 402
ThreeHalvesPi == 1206

Turn(a, b)  == fxp_sub(a, b, Angle)

\* Mutant: the operands swapped.
NegativeSwapped(v) == fxp_sub(v, 0, Trig)

Negative(v) == fxp_sub(0, v, Trig)

SineAngle(a) == CASE a >= ThreeHalvesPi -> Turn(2 * Pi, a)
                  [] a >= Pi /\ a < ThreeHalvesPi -> Turn(a, Pi)
                  [] a >= HalfPi /\ a < Pi -> Turn(Pi, a)
                  [] a < HalfPi -> a

CosineAngle(a) == CASE a >= ThreeHalvesPi -> Turn(a, ThreeHalvesPi)
                    [] a >= Pi /\ a < ThreeHalvesPi -> Turn(ThreeHalvesPi, a)
                    [] a >= HalfPi /\ a < Pi -> Turn(a, HalfPi)
                    [] a < HalfPi -> Turn(HalfPi, a)

WithSign(negative, v) == IF negative THEN Negative(v) ELSE v

cal_sin(a) == WithSign(a >= Pi, fix_sin(SineAngle(a)))

\* Mutant: one quadrant too few is negative.
cal_cos_half(a) == WithSign(a >= HalfPi /\ a < Pi, fix_sin(CosineAngle(a)))

cal_cos(a) == WithSign(a >= HalfPi /\ a < ThreeHalvesPi, fix_sin(CosineAngle(a)))

-----------------------------------------------------------------------------
(* The rotation by the three angles: rows and columns 0 to 2 of the matrix *)
(* of euler_angle.sv.                                                      *)
Rotation(sa, ca, sb, cb, sg, cg) ==
  LET a \otimes b == fxp_mul(a, Trig, b, Trig, Trig)
      a \oplus b  == fxp_add(a, b, Trig)
      a \ominus b == fxp_sub(a, b, Trig)
  IN  << (ca \otimes cg) \ominus ((cb \otimes sa) \otimes sg),
         (sa \otimes cg) \oplus ((cb \otimes ca) \otimes sg),
         sb \otimes sg,
         Negative(ca \otimes sg) \ominus ((cb \otimes sa) \otimes cg),
         ((cb \otimes ca) \otimes cg) \ominus (sa \otimes sg),
         sb \otimes cg,
         sb \otimes sa,
         Negative(sb \otimes ca),
         cb >>

euler_angle_matrix(alpha, beta, gamma) ==
  Rotation(cal_sin(alpha), cal_cos(alpha), cal_sin(beta), cal_cos(beta),
           cal_sin(gamma), cal_cos(gamma))

-----------------------------------------------------------------------------
(* Matrices: the sums of a dot product are saturated one by one.           *)
a ** b == fxp_mul(a, Fixed, b, Fixed, Fixed)

dot_product(a, b) ==
  LET a1 \oplus b1 == fxp_add(a1, b1, Fixed)
  IN  (((a[1] ** b[1]) \oplus (a[2] ** b[2])) \oplus (a[3] ** b[3])) \oplus (a[4] ** b[4])

Column(m, j) == <<m[1][j], m[2][j], m[3][j], m[4][j]>>

matrix_multiplier(matA, matB) ==
  LET Row(i) == << dot_product(matA[i], Column(matB, 1)), dot_product(matA[i], Column(matB, 2)),
                   dot_product(matA[i], Column(matB, 3)), dot_product(matA[i], Column(matB, 4)) >>
  IN  << Row(1), Row(2), Row(3), Row(4) >>

scale == 384    \* 1.5

Placed(R, translate) ==
  LET S(k) == fxp_mul(scale, Fixed, R[k], Trig, Fixed)
  IN  << <<S(1), S(2), S(3), translate.x>>,
         <<S(4), S(5), S(6), translate.y>>,
         <<S(7), S(8), S(9), translate.z>>,
         <<0,    0,    0,    One>> >>

model_matrix(angle, translate) ==
  Placed(euler_angle_matrix(angle.x, angle.y, angle.z), translate)

(* The camera stands at z = 10 and looks towards smaller z.                *)
z_pos == 2560

view_matrix == << <<One, 0, 0, 0>>,
                  <<0, One, 0, 0>>,
                  <<0, 0, One, fxp_sub(0, z_pos, Fixed)>>,
                  <<0, 0, 0, One>> >>

inv_tan      == 618      \* 2.414
aspect_ratio == 341      \* 1.333
z_near       == 26       \* 0.1
z_far        == 12800    \* 50

projection_matrix ==
  LET near == fxp_sub(0, z_near, Fixed)
      far  == fxp_sub(0, z_far, Fixed)
      a \oslash b == fxp_div(a, Fixed, b, Fixed, Fixed)
      k    == One \oslash fxp_sub(near, far, Fixed)
  IN  << <<inv_tan \oslash aspect_ratio, 0, 0, 0>>,
         <<0, inv_tan, 0, 0>>,
         <<0, 0, fxp_add(near, far, Fixed) ** k, ((far ** near) ** k) ** (2 * One)>>,
         <<0, 0, One, 0>> >>

camera == matrix_multiplier(projection_matrix, view_matrix)

mvp_matrix(angle, translate) == matrix_multiplier(camera, model_matrix(angle, translate))

-----------------------------------------------------------------------------
(* project_triangle.sv: a vertex before the division, and its pixel.  The  *)
(* pixel is an unsigned word of 12 bits for whoever reads it.              *)
width  == 640
height == 480

Projected4(mvp, vertex) ==
  LET v == <<vertex[1], vertex[2], vertex[3], One>>
  IN  [x |-> dot_product(mvp[1], v), y |-> dot_product(mvp[2], v),
       w |-> dot_product(mvp[4], v)]

Viewport(c, w, extent) ==
  LET normalized == fxp_div(c, Fixed, w, Fixed, Fixed)
      scaled     == fxp_mul(extent, Pixel, fxp_add(normalized, One, Fixed), Fixed,
                            Format(12, 8))
  IN  fxp_div(scaled, Format(12, 8), 2 * One, Fixed, Pixel) % 4096

PixelOf(p) == <<Viewport(p.x, p.w, width), Viewport(p.y, p.w, height)>>

\* Mutant: only the column is looked at.
BeyondSides(V) == V[1] > width

Beyond(V) == V[1] > width \/ V[2] > height

clip(V1, V2, V3) == Beyond(V1) \/ Beyond(V2) \/ Beyond(V3)
=============================================================================
