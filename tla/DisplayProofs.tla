--------------------------- MODULE DisplayProofs ---------------------------
(***************************************************************************)
(* For registers of any width that hold a full turn and one more frame:    *)
(* angles and velocities stay in their ranges, so every sum and comparison *)
(* of display.sv means what it says, with the one exception of SpedUp.     *)
(* The projection takes its sines of angles they are right for, rotates    *)
(* rigidly, divides, and puts an object at rest where it belongs.          *)
(***************************************************************************)
EXTENDS Scene, TLAPS

AngleRange == 0 .. TwoPi
VelocityRange == -angle_v_max .. angle_v_max

LEMMA TurnStays ==
  ASSUME NEW al \in AngleRange, NEW v \in VelocityRange
  PROVE  /\ Turned(al, v) \in AngleRange
         /\ Turned(al, v) - al - v \in FullTurns
BY DisplayAssumption DEF AngleRange, VelocityRange, Turned, Signed, FullTurns

LEMMA KeysStay ==
  ASSUME NEW v \in VelocityRange
  PROVE  /\ SpedUp(v) \in VelocityRange
         /\ SlowedY(v) \in VelocityRange
         /\ SlowedXZ(v) \in VelocityRange
<1>1. SpedUp(v) \in VelocityRange
  BY DisplayAssumption DEF VelocityRange, SpedUp, Signed, Unsigned
<1>2. SlowedY(v) \in VelocityRange
  BY DisplayAssumption DEF VelocityRange, SlowedY, Signed
<1>3. SlowedXZ(v) \in VelocityRange
  BY DisplayAssumption DEF VelocityRange, SlowedXZ, Signed
<1> QED BY <1>1, <1>2, <1>3

LEMMA BrakeStays ==
  ASSUME NEW v \in VelocityRange
  PROVE  Braked(v) \in VelocityRange
BY DisplayAssumption DEF VelocityRange, Braked, Signed, Unsigned

\* A friction of one unit leads to zero and not past it.
LEMMA BrakeBrakes ==
  ASSUME angle_friction = 1, NEW v \in VelocityRange
  PROVE  /\ v # 0 => Abs(Braked(v)) < Abs(v)
         /\ v >= 0 => Braked(v) >= 0
         /\ v <= 0 => Braked(v) <= 0
BY DisplayAssumption DEF VelocityRange, Braked, Signed, Unsigned, Abs

Types == /\ angle \in [Axis -> AngleRange]
         /\ angle_v \in [Axis -> VelocityRange]
         /\ pos \in [Axis -> 0 .. Positions - 1]
         /\ keycode \in AllKeys

LEMMA NextVelocityRange ==
  ASSUME Types
  PROVE  NextVelocity \in [Axis -> VelocityRange]
BY KeysStay, BrakeStays DEF Types, NextVelocity, Axis

LEMMA NextPositionRange ==
  ASSUME Types
  PROVE  NextPosition \in [Axis -> 0 .. Positions - 1]
<1>1. ASSUME NEW i \in Axis, NEW step \in {-1, 1}
      PROVE  Moved(i, step) \in [Axis -> 0 .. Positions - 1]
  <2>1. \A p \in 0 .. Positions - 1 : (p + step) % Positions \in 0 .. Positions - 1
    BY DisplayAssumption
  <2> QED BY <2>1 DEF Moved, Types
<1> QED BY <1>1 DEF NextPosition, Axis, Types

LEMMA TypesPreserved ==
  ASSUME Types, [Next]_vars
  PROVE  Types'
<1>1. ASSUME NEW al, NEW v, NEW p, AtStart(al, v, p)
      PROVE  /\ al \in [Axis -> AngleRange]
             /\ v \in [Axis -> VelocityRange]
             /\ p \in [Axis -> 0 .. Positions - 1]
  BY <1>1, DisplayAssumption DEF AtStart, AngleRange, VelocityRange
<1>2. CASE FrameEdge
  <2>1. angle' \in [Axis -> AngleRange]
    BY <1>2, TurnStays DEF FrameEdge, Types
  <2> QED BY <1>2, <2>1, NextVelocityRange, NextPositionRange DEF FrameEdge, Types
<1>3. CASE PressReset
  BY <1>1, <1>3 DEF PressReset, Types
<1>4. CASE \E k \in Keys : KeyReport(k)
  BY <1>4, DisplayAssumption DEF KeyReport, Types
<1>5. CASE UNCHANGED vars
  BY <1>5 DEF vars, Types
<1> QED BY <1>2, <1>3, <1>4, <1>5 DEF Next

\* Angles, velocities, coordinates and the key stay in their ranges.
THEOREM DisplayTypes == Spec => []Types
<1>1. Init => Types
  BY DisplayAssumption DEF Init, AtStart, Types, AngleRange, VelocityRange, AllKeys
<1> QED BY <1>1, TypesPreserved, PTL DEF Spec

\* The registers stay words, and what they hold a number of the right range.
THEOREM AnglesStayInRange == Spec => [](TypeOK /\ InRange)
<1>1. Types => TypeOK /\ InRange
  BY DisplayAssumption DEF Types, TypeOK, InRange, AngleRange, VelocityRange, Word
<1> QED BY <1>1, DisplayTypes, PTL

\* A frame turns every axis by its velocity, up to a full turn.
THEOREM FramesTurnByVelocity == Spec => TurnsByVelocity
<1>1. Types => [FrameEdge => \A i \in Axis : angle'[i] - angle[i] - angle_v[i] \in FullTurns]_vars
  <2> SUFFICES ASSUME Types, FrameEdge, NEW i \in Axis
               PROVE  angle'[i] - angle[i] - angle_v[i] \in FullTurns
    OBVIOUS
  <2>1. angle'[i] = Turned(angle[i], angle_v[i])
    BY DEF FrameEdge
  <2> QED BY <2>1, TurnStays DEF Types
<1> QED BY <1>1, DisplayTypes, PTL DEF TurnsByVelocity

\* With the friction of display.sv every axis slows down and none reverses.
THEOREM FrictionOnlyBrakes ==
  ASSUME angle_friction = 1
  PROVE  Spec => FrictionBrakes
<1>1. Types => [FrameEdge /\ keycode = "none" =>
                  \A i \in Axis : /\ angle_v[i] # 0 => Abs(angle_v'[i]) < Abs(angle_v[i])
                                  /\ angle_v[i] >= 0 => angle_v'[i] >= 0
                                  /\ angle_v[i] <= 0 => angle_v'[i] <= 0]_vars
  <2> SUFFICES ASSUME Types, FrameEdge, keycode = "none", NEW i \in Axis
               PROVE  /\ angle_v[i] # 0 => Abs(angle_v'[i]) < Abs(angle_v[i])
                      /\ angle_v[i] >= 0 => angle_v'[i] >= 0
                      /\ angle_v[i] <= 0 => angle_v'[i] <= 0
    OBVIOUS
  <2>1. angle_v'[i] = Braked(angle_v[i])
    BY DEF FrameEdge, NextVelocity
  <2> QED BY <2>1, BrakeBrakes DEF Types
<1> QED BY <1>1, DisplayTypes, PTL DEF FrictionBrakes

-----------------------------------------------------------------------------
\* The sine is taken of an angle of the first quadrant: no fold saturates.
LEMMA TurnIsExact ==
  ASSUME NEW a \in Int, NEW b \in Int, a - b \in -2048 .. 2047
  PROVE  Turn(a, b) = a - b
<1>1. Angle.most = 2047
  BY DEF Angle, Format
<1> QED BY <1>1 DEF Turn, fxp_sub, Saturated

LEMMA AnglesFold ==
  ASSUME NEW a \in 0 .. 2 * Pi
  PROVE  SineAngle(a) \in 0 .. HalfPi /\ CosineAngle(a) \in 0 .. HalfPi
<1>0. a \in Int /\ 0 <= a /\ a <= 1608
  BY DEF Pi
<1>1. HalfPi = 402 /\ Pi = 804 /\ ThreeHalvesPi = 1206 /\ 2 * Pi = 1608
  BY DEF Pi, HalfPi, ThreeHalvesPi
<1>2. \A x \in Int : 0 <= x /\ x <= 402 => x \in 0 .. HalfPi
  BY <1>1
<1>3. CASE a < HalfPi
  <2>1. SineAngle(a) = a /\ CosineAngle(a) = Turn(HalfPi, a)
    BY <1>3 DEF SineAngle, CosineAngle
  <2>2. Turn(HalfPi, a) = HalfPi - a
    BY <1>0, <1>1, <1>3, TurnIsExact
  <2>3. a <= 402 /\ HalfPi - a \in Int /\ 0 <= HalfPi - a /\ HalfPi - a <= 402
    BY <1>0, <1>1, <1>3
  <2> QED BY <1>0, <1>2, <2>1, <2>2, <2>3
<1>4. CASE a >= HalfPi /\ a < Pi
  <2>1. SineAngle(a) = Turn(Pi, a) /\ CosineAngle(a) = Turn(a, HalfPi)
    BY <1>0, <1>1, <1>4 DEF SineAngle, CosineAngle
  <2>2. Turn(Pi, a) = Pi - a /\ Turn(a, HalfPi) = a - HalfPi
    BY <1>0, <1>1, <1>4, TurnIsExact
  <2>3. /\ Pi - a \in Int /\ 0 <= Pi - a /\ Pi - a <= 402
        /\ a - HalfPi \in Int /\ 0 <= a - HalfPi /\ a - HalfPi <= 402
    BY <1>0, <1>1, <1>4
  <2> QED BY <1>2, <2>1, <2>2, <2>3
<1>5. CASE a >= Pi /\ a < ThreeHalvesPi
  <2>1. SineAngle(a) = Turn(a, Pi) /\ CosineAngle(a) = Turn(ThreeHalvesPi, a)
    BY <1>0, <1>1, <1>5 DEF SineAngle, CosineAngle
  <2>2. Turn(a, Pi) = a - Pi /\ Turn(ThreeHalvesPi, a) = ThreeHalvesPi - a
    BY <1>0, <1>1, <1>5, TurnIsExact
  <2>3. /\ a - Pi \in Int /\ 0 <= a - Pi /\ a - Pi <= 402
        /\ ThreeHalvesPi - a \in Int /\ 0 <= ThreeHalvesPi - a /\ ThreeHalvesPi - a <= 402
    BY <1>0, <1>1, <1>5
  <2> QED BY <1>2, <2>1, <2>2, <2>3
<1>6. CASE a >= ThreeHalvesPi
  <2>1. SineAngle(a) = Turn(2 * Pi, a) /\ CosineAngle(a) = Turn(a, ThreeHalvesPi)
    BY <1>0, <1>1, <1>6 DEF SineAngle, CosineAngle
  <2>2. Turn(2 * Pi, a) = 2 * Pi - a /\ Turn(a, ThreeHalvesPi) = a - ThreeHalvesPi
    BY <1>0, <1>1, <1>6, TurnIsExact
  <2>3. /\ 2 * Pi - a \in Int /\ 0 <= 2 * Pi - a /\ 2 * Pi - a <= 402
        /\ a - ThreeHalvesPi \in Int /\ 0 <= a - ThreeHalvesPi /\ a - ThreeHalvesPi <= 402
    BY <1>0, <1>1, <1>6
  <2> QED BY <1>2, <2>1, <2>2, <2>3
<1> QED BY <1>0, <1>1, <1>3, <1>4, <1>5, <1>6

(* The scene moves as display.sv does: what is proved of the pose holds of *)
(* the pose that is projected.                                             *)
LEMMA SceneIsDisplay == SceneSpec => Spec
<1>1. SceneInit => Init
  BY DEF SceneInit
<1>2. [SceneNext]_sceneVars => [Next]_vars
  BY DEF SceneNext, sceneVars, Next
<1> QED BY <1>1, <1>2, PTL DEF SceneSpec, Spec

(* "The transformed angle, must be in range of [0, pi/2]"                  *)
(* (trigonometric_lib.sv:64): every angle that display.sv can hold, the    *)
(* full turn included, is folded into the first quadrant, and no           *)
(* difference saturates on the way.                                        *)
THEOREM SinesOfAcuteAngles ==
  ASSUME TwoPi = 2 * Pi
  PROVE  SceneSpec => [](\A i \in Axis : /\ SineAngle(angle[i]) \in 0 .. HalfPi
                                         /\ CosineAngle(angle[i]) \in 0 .. HalfPi)
<1>1. InRange => \A i \in Axis : /\ SineAngle(angle[i]) \in 0 .. HalfPi
                                 /\ CosineAngle(angle[i]) \in 0 .. HalfPi
  BY AnglesFold DEF InRange
<1> QED BY <1>1, SceneIsDisplay, AnglesStayInRange, PTL
-----------------------------------------------------------------------------
(* The rotation.  Its entries are off by one unit and a half from the      *)
(* entries E without rounding.  Of these, with the circle A of alpha and   *)
(* the ellipse Q that it is at the slant of beta, the inner products are   *)
(* known exactly (UnroundedProducts), and are those of a rotation as far   *)
(* as the table of sines is round.                                         *)

\* Numbers of at most b, and numbers at most d apart.
Upto(x, b) == x \in Int /\ -b <= x /\ x <= b
Near(x, y, d) == -d <= x - y /\ x - y <= d

\* Products keep the order, and the bounds, of their factors.
LEMMA MulLe ==
  ASSUME NEW x \in Int, NEW y \in Int, NEW k \in Nat, x <= y
  PROVE  x * k <= y * k
<1>1. (y - x) * k >= 0
  <2>1. \A p, q \in Nat : p * q >= 0
    OBVIOUS
  <2> QED BY <2>1
<1>2. (y - x) * k = y * k - x * k
  OBVIOUS
<1> DEFINE p == x * k
           q == y * k
<1>3. p \in Int /\ q \in Int
  OBVIOUS
<1> HIDE DEF p, q
<1>4. p <= q
  <2>1. q - p >= 0
    BY <1>1, <1>2 DEF p, q
  <2> QED BY <1>3, <2>1
<1> QED BY <1>4 DEF p, q

LEMMA MulUpto ==
  ASSUME NEW a \in Nat, NEW b \in Nat, NEW x, NEW y, Upto(x, a), Upto(y, b)
  PROVE  Upto(x * y, a * b)
<1>0. x \in Int /\ y \in Int /\ -a <= x /\ x <= a /\ -b <= y /\ y <= b
  BY DEF Upto
<1>1. /\ (a - x) * (b + y) >= 0 /\ (a + x) * (b - y) >= 0
      /\ (a - x) * (b - y) >= 0 /\ (a + x) * (b + y) >= 0
  <2>1. \A p, q \in Nat : p * q >= 0
    OBVIOUS
  <2>2. a - x \in Nat /\ a + x \in Nat /\ b - y \in Nat /\ b + y \in Nat
    BY <1>0
  <2> QED BY <2>1, <2>2
<1>2. /\ (a - x) * (b + y) + (a + x) * (b - y) = 2 * (a * b) - 2 * (x * y)
      /\ (a - x) * (b - y) + (a + x) * (b + y) = 2 * (a * b) + 2 * (x * y)
  BY <1>0
<1> DEFINE p == (a - x) * (b + y)
           q == (a + x) * (b - y)
           r == (a - x) * (b - y)
           s == (a + x) * (b + y)
           v == x * y
           w == a * b
<1>3. p \in Int /\ q \in Int /\ r \in Int /\ s \in Int /\ v \in Int /\ w \in Int
  BY <1>0
<1>4. p >= 0 /\ q >= 0 /\ r >= 0 /\ s >= 0 /\ p + q = 2 * w - 2 * v /\ r + s = 2 * w + 2 * v
  BY <1>1, <1>2
<1> HIDE DEF p, q, r, s, v, w
<1>5. Upto(v, w)
  BY <1>3, <1>4 DEF Upto
<1> QED BY <1>5 DEF v, w

\* Twice a product is at most the sum of the squares.
LEMMA TwiceProduct ==
  ASSUME NEW a \in Int, NEW b \in Int
  PROVE  -(a * a + b * b) <= 2 * (a * b) /\ 2 * (a * b) <= a * a + b * b
<1>1. \A x \in Int : x * x >= 0
  OBVIOUS
<1>2. (a + b) * (a + b) = a * a + b * b + 2 * (a * b) /\ (a - b) * (a - b) = a * a + b * b - 2 * (a * b)
  OBVIOUS
<1>3. (a + b) * (a + b) >= 0 /\ (a - b) * (a - b) >= 0
  BY <1>1
<1> DEFINE x == a * a + b * b
           y == a * b
           p == (a + b) * (a + b)
           q == (a - b) * (a - b)
<1>4. x \in Int /\ y \in Int /\ p = x + 2 * y /\ q = x - 2 * y /\ p >= 0 /\ q >= 0
  BY <1>2, <1>3
<1> HIDE DEF x, y, p, q
<1>5. -x <= 2 * y /\ 2 * y <= x
  BY <1>4
<1> QED BY <1>5 DEF x, y

\* The formats in figures.
LEMMA TrigFormat ==
  /\ Trig.one = 4096 /\ Trig.most = 8191
  /\ Product(Trig, Trig).one = 16777216
  /\ Product(Trig, Trig).most = 134217727
  /\ Square = 16777216
<1>1. Trig.one = 4096 /\ Trig.most = 8191
  BY SMT DEF Trig, Format
<1>2. Product(Trig, Trig).one = 16777216
  BY <1>1, SMT DEF Product
<1>3. Product(Trig, Trig).most = 134217727
  BY <1>1, SMT DEF Product
<1>4. Square = 16777216
  BY <1>1, SMT DEF Square
<1> QED BY <1>1, <1>2, <1>3, <1>4, SMT

\* A product of two numbers of at most 4200 units is rounded, never saturated.
LEMMA ProductRounds ==
  ASSUME NEW a, NEW b, Upto(a, 4200), Upto(b, 4200)
  PROVE  /\ fxp_mul(a, Trig, b, Trig, Trig) \in Int
         /\ Near(4096 * fxp_mul(a, Trig, b, Trig, Trig), a * b, 2048)
<1> DEFINE v == a * b
           cut == v \div 4096
           low == v % 4096
<1>1. Upto(v, 4200 * 4200)
  BY 4200 \in Nat, MulUpto
<1>2. v \in Int /\ -17640000 <= v /\ v <= 17640000
  BY <1>1, SMT DEF Upto
<1> HIDE DEF v
<1>3. v % 4096 = v - 4096 * (v \div 4096) /\ v \div 4096 \in Int
  BY <1>2, SMT
<1>4. v % 4096 \in Int /\ 0 <= v % 4096 /\ v % 4096 <= 4095
  BY <1>2, SMT
<1>5. cut \in Int /\ low \in Int /\ 0 <= low /\ low <= 4095 /\ v = 4096 * cut + low
  <2>1. cut \in Int /\ low \in Int /\ low = v - 4096 * cut
    BY <1>3, <1>4, SMT
  <2>2. 0 <= low /\ low <= 4095
    BY <1>4, SMT
  <2> HIDE DEF cut, low
  <2> QED BY <1>2, <2>1, <2>2, SMT
<1> HIDE DEF cut, low
<1>6. -4307 <= cut /\ cut <= 4306
  BY <1>2, <1>5, SMT
<1>7. 134217727 \div 4096 = 32767 /\ 16777216 \div 4096 = 4096 /\ 4096 < 16777216
  BY SMT
<1>8. fxp_zoom(v, Product(Trig, Trig), Trig) =
        Saturated(IF 2 * low >= 4096 /\ cut # 32767 THEN cut + 1 ELSE cut, Trig)
  BY TrigFormat, <1>7, SMT DEF fxp_zoom, cut, low
<1> DEFINE m == IF 2 * low >= 4096 THEN cut + 1 ELSE cut
<1>9. m \in Int /\ -4307 <= m /\ m <= 4307 /\ Near(4096 * m, v, 2048)
  BY <1>2, <1>5, <1>6, SMT DEF Near
<1>10. Saturated(m, Trig) = m
  <2> HIDE DEF m
  <2> QED BY <1>9, TrigFormat, SMT DEF Saturated
<1>11. (IF 2 * low >= 4096 /\ cut # 32767 THEN cut + 1 ELSE cut) = m
  BY <1>5, <1>6, SMT
<1>12. fxp_mul(a, Trig, b, Trig, Trig) = fxp_zoom(v, Product(Trig, Trig), Trig)
  BY DEF fxp_mul, v
<1> HIDE DEF m
<1>13. fxp_mul(a, Trig, b, Trig, Trig) = m
  BY <1>8, <1>10, <1>11, <1>12
<1> QED BY <1>9, <1>13 DEF v

\* Sums in the range of the format are exact.
LEMMA SumsAreExact ==
  ASSUME NEW a \in Int, NEW b \in Int
  PROVE  /\ Upto(a + b, 8191) => fxp_add(a, b, Trig) = a + b
         /\ Upto(a - b, 8191) => fxp_sub(a, b, Trig) = a - b
<1>1. ASSUME NEW v, Upto(v, 8191)
      PROVE  Saturated(v, Trig) = v
  BY <1>1, TrigFormat, SMT DEF Saturated, Upto
<1> QED BY <1>1 DEF fxp_add, fxp_sub

\* Sines and cosines lie between -1 and 1.
Sine(x) == Upto(x, 4096)

Times(a, b) == fxp_mul(a, Trig, b, Trig, Trig)

LEMMA SineTimes ==
  ASSUME NEW k \in Nat, NEW y, Upto(y, k), NEW c, Sine(c)
  PROVE  Upto(c * y, 4096 * k)
BY 4096 \in Nat, MulUpto DEF Sine

\* Nor does their product leave that range: one half unit is cut off or added.
LEMMA Term ==
  ASSUME NEW a, NEW b, Sine(a), Sine(b)
  PROVE  /\ Sine(Times(a, b))
         /\ Near(4096 * Times(a, b), a * b, 2048)
         /\ Upto(a * b, 16777216)
<1>1. Upto(a * b, 16777216)
  <2>1. Upto(a * b, 4096 * 4096)
    BY 4096 \in Nat, SineTimes DEF Sine
  <2> QED BY <2>1, SMT DEF Upto
<1>2. Upto(a, 4200) /\ Upto(b, 4200)
  BY SMT DEF Sine, Upto
<1>3. Times(a, b) \in Int /\ Near(4096 * Times(a, b), a * b, 2048)
  BY <1>2, ProductRounds DEF Times
<1>4. Sine(Times(a, b))
  <2> DEFINE m == Times(a, b)
             v == a * b
  <2>1. m \in Int /\ v \in Int /\ -16777216 <= v /\ v <= 16777216
    BY <1>1, <1>3, SMT DEF Upto
  <2>2. -2048 <= 4096 * m - v /\ 4096 * m - v <= 2048
    BY <1>3 DEF Near
  <2> HIDE DEF m, v
  <2>3. -4096 <= m /\ m <= 4096
    BY <2>1, <2>2, SMT
  <2>4. Sine(m)
    BY <2>1, <2>3, SMT DEF Sine, Upto
  <2> QED BY <2>4 DEF m
<1> QED BY <1>1, <1>3, <1>4, SMT

\* A product of three factors is off by one unit at most.
LEMMA Term3 ==
  ASSUME NEW c, NEW d, NEW f, Sine(c), Sine(d), Sine(f)
  PROVE  /\ Sine(Times(Times(c, d), f))
         /\ Near(16777216 * Times(Times(c, d), f), c * d * f, 16777216)
<1> DEFINE p == Times(c, d)
           w == Times(p, f)
<1>1. Sine(p) /\ Near(4096 * p, c * d, 2048)
  BY Term, SMT
<1> HIDE DEF p
<1>2. Sine(w) /\ Near(4096 * w, p * f, 2048)
  BY <1>1, Term, SMT
<1> HIDE DEF w
<1>3. c \in Int /\ d \in Int /\ f \in Int /\ p \in Int /\ w \in Int
  BY <1>1, <1>2, SMT DEF Sine, Upto
<1> DEFINE e == 4096 * p - c * d
<1>4. Upto(f * e, 4096 * 2048)
  <2>1. Upto(e, 2048)
    BY <1>1, <1>3, SMT DEF Near, Upto
  <2> HIDE DEF e
  <2> QED BY <2>1, 2048 \in Nat, SineTimes
<1>5. f * e = 4096 * (p * f) - c * d * f
  BY <1>3, SMT
<1> DEFINE x == p * f
           y == c * d * f
           z == f * e
<1>6. x \in Int /\ y \in Int /\ z \in Int
  BY <1>3, SMT
<1>7. /\ -2048 <= 4096 * w - x /\ 4096 * w - x <= 2048
      /\ -8388608 <= z /\ z <= 8388608 /\ z = 4096 * x - y
  BY <1>2, <1>4, <1>5, SMT DEF Near, Upto
<1> HIDE DEF x, y, z, e
<1>8. -16777216 <= 16777216 * w - y /\ 16777216 * w - y <= 16777216
  BY <1>3, <1>6, <1>7, SMT
<1>9. Near(16777216 * w, y, 16777216)
  BY <1>8, SMT DEF Near
<1> QED BY <1>2, <1>9, SMT DEF w, p, y
\* Entry r of the rotation stands for e / (4096 * 4096): it is off by one unit
\* and a half at most.  CircleMost is what sine and cosine have in squares.
CircleMost == 16995102

Entry(r, e) == /\ r \in Int /\ Upto(e, 69611937792)
               /\ Near(16777216 * r, e, 25165824)

\* What the entries of two products stand for is 4096 * CircleMost at most.
LEMMA MixedBound ==
  ASSUME NEW a, NEW b, NEW c, NEW d, NEW f, Sine(a), Sine(b), Sine(c), Sine(d), Sine(f),
         a * a + d * d <= CircleMost, b * b + f * f <= CircleMost
  PROVE  /\ a * b \in Int /\ c * d * f \in Int
         /\ Upto(4096 * (a * b) + c * d * f, 69611937792)
         /\ Upto(4096 * (a * b) - c * d * f, 69611937792)
         /\ Upto(-(4096 * (a * b)) - c * d * f, 69611937792)
         /\ Upto(c * d * f - 4096 * (a * b), 69611937792)
<1>1. a \in Int /\ b \in Int /\ c \in Int /\ d \in Int /\ f \in Int
  BY SMT DEF Sine, Upto
<1> DEFINE m == d * f
           k == IF m < 0 THEN -m ELSE m
<1>2. m \in Int /\ c * d * f = c * m
  BY <1>1, SMT
<1>3. -(d * d + f * f) <= 2 * m /\ 2 * m <= d * d + f * f
  BY <1>1, TwiceProduct
<1>4. -(a * a + b * b) <= 2 * (a * b) /\ 2 * (a * b) <= a * a + b * b
  BY <1>1, TwiceProduct
<1> DEFINE aa == a * a
           bb == b * b
           dd == d * d
           ff == f * f
           n == a * b
<1>5. aa \in Int /\ bb \in Int /\ dd \in Int /\ ff \in Int /\ n \in Int
  BY <1>1, SMT
<1> HIDE DEF m
<1>6. k \in Nat /\ Upto(m, k)
  BY <1>2, SMT DEF Upto
<1>7. 2 * k <= dd + ff
  BY <1>2, <1>3, <1>5, SMT
<1> HIDE DEF k
<1> DEFINE z == c * m
<1>8. Upto(z, 4096 * k)
  BY <1>6, SineTimes
<1>9. /\ -(aa + bb) <= 2 * n /\ 2 * n <= aa + bb
      /\ aa + dd <= 16995102 /\ bb + ff <= 16995102
  BY <1>4, SMT DEF CircleMost
<1> HIDE DEF z, aa, bb, dd, ff, n
<1>10. /\ Upto(4096 * n + z, 69611937792)
       /\ Upto(4096 * n - z, 69611937792)
       /\ Upto(-(4096 * n) - z, 69611937792)
       /\ Upto(z - 4096 * n, 69611937792)
  BY <1>5, <1>6, <1>7, <1>8, <1>9, SMT DEF Upto
<1>11. n \in Int /\ z \in Int
  BY <1>5, <1>6, <1>8, SMT DEF Upto
<1> QED BY <1>2, <1>10, <1>11, SMT DEF n, z

\* An entry that is the sum of a product of two and a product of three.
LEMMA MixedEntry ==
  ASSUME NEW a, NEW b, NEW c, NEW d, NEW f, Sine(a), Sine(b), Sine(c), Sine(d), Sine(f),
         a * a + d * d <= CircleMost, b * b + f * f <= CircleMost
  PROVE  LET t == Times(a, b)
             w == Times(Times(c, d), f)
         IN  /\ Entry(fxp_sub(t, w, Trig), 4096 * (a * b) - c * d * f)
             /\ Entry(fxp_add(t, w, Trig), 4096 * (a * b) + c * d * f)
             /\ Entry(fxp_sub(Negative(t), w, Trig), -(4096 * (a * b)) - c * d * f)
             /\ Entry(fxp_sub(w, t, Trig), c * d * f - 4096 * (a * b))
<1> DEFINE t == Times(a, b)
           w == Times(Times(c, d), f)
           x == a * b
           y == c * d * f
<1>1. /\ Sine(t) /\ Near(4096 * t, x, 2048)
      /\ Sine(w) /\ Near(16777216 * w, y, 16777216)
  BY Term, Term3, SMT
<1>2. /\ x \in Int /\ y \in Int
      /\ Upto(4096 * x + y, 69611937792)
      /\ Upto(4096 * x - y, 69611937792)
      /\ Upto(-(4096 * x) - y, 69611937792)
      /\ Upto(y - 4096 * x, 69611937792)
  BY MixedBound, SMT
<1> HIDE DEF t, w, x, y
<1>3. /\ t \in Int /\ -4096 <= t /\ t <= 4096 /\ w \in Int /\ -4096 <= w /\ w <= 4096
      /\ -2048 <= 4096 * t - x /\ 4096 * t - x <= 2048
      /\ -16777216 <= 16777216 * w - y /\ 16777216 * w - y <= 16777216
  BY <1>1, SMT DEF Sine, Upto, Near
<1>4. /\ Upto(t - w, 8191) /\ Entry(t - w, 4096 * x - y)
      /\ Upto(t + w, 8191) /\ Entry(t + w, 4096 * x + y)
      /\ Upto(-t - w, 8191) /\ Entry(-t - w, -(4096 * x) - y)
      /\ Upto(w - t, 8191) /\ Entry(w - t, y - 4096 * x)
  <2>1. Upto(t - w, 8191) /\ Entry(t - w, 4096 * x - y)
    BY <1>2, <1>3, SMT DEF Entry, Near, Upto
  <2>2. Upto(t + w, 8191) /\ Entry(t + w, 4096 * x + y)
    BY <1>2, <1>3, SMT DEF Entry, Near, Upto
  <2>3. Upto(-t - w, 8191) /\ Entry(-t - w, -(4096 * x) - y)
    BY <1>2, <1>3, SMT DEF Entry, Near, Upto
  <2>4. Upto(w - t, 8191) /\ Entry(w - t, y - 4096 * x)
    BY <1>2, <1>3, SMT DEF Entry, Near, Upto
  <2> QED BY <2>1, <2>2, <2>3, <2>4
<1>5. /\ fxp_sub(t, w, Trig) = t - w /\ fxp_add(t, w, Trig) = t + w
      /\ fxp_sub(w, t, Trig) = w - t
  BY <1>3, <1>4, SumsAreExact
<1>6. Negative(t) = -t
  <2>1. Upto(0 - t, 8191)
    BY <1>3, SMT DEF Upto
  <2>2. fxp_sub(0, t, Trig) = 0 - t
    BY <1>3, <2>1, SumsAreExact
  <2> QED BY <1>3, <2>2, SMT DEF Negative
<1>7. fxp_sub(-t, w, Trig) = -t - w
  <2>1. -t \in Int
    BY <1>3
  <2> QED BY <1>3, <1>4, <2>1, SumsAreExact
<1> QED BY <1>4, <1>5, <1>6, <1>7 DEF t, w, x, y

\* An entry that is one product, or a cosine.
LEMMA PlainEntry ==
  ASSUME NEW a, NEW b, Sine(a), Sine(b)
  PROVE  /\ Entry(Times(a, b), 4096 * (a * b))
         /\ Entry(Negative(Times(a, b)), -(4096 * (a * b)))
         /\ Entry(a, 16777216 * a)
<1> DEFINE t == Times(a, b)
           x == a * b
<1>1. Sine(t) /\ Near(4096 * t, x, 2048) /\ Upto(x, 16777216)
  BY Term, SMT
<1> HIDE DEF t, x
<1>2. /\ t \in Int /\ -4096 <= t /\ t <= 4096 /\ a \in Int /\ -4096 <= a /\ a <= 4096
      /\ -2048 <= 4096 * t - x /\ 4096 * t - x <= 2048
      /\ x \in Int /\ -16777216 <= x /\ x <= 16777216
  BY <1>1, SMT DEF Sine, Upto, Near
<1>3. Negative(t) = -t
  <2>1. Upto(0 - t, 8191)
    BY <1>2, SMT DEF Upto
  <2>2. fxp_sub(0, t, Trig) = 0 - t
    BY <1>2, <2>1, SumsAreExact
  <2> QED BY <1>2, <2>2, SMT DEF Negative
<1>4. Entry(t, 4096 * x) /\ Entry(-t, -(4096 * x)) /\ Entry(a, 16777216 * a)
  BY <1>2, SMT DEF Entry, Near, Upto
<1> QED BY <1>3, <1>4, SMT DEF t, x

\* The rotation without rounding, in units of 1 / (4096 * 4096 * 4096).
Unrounded(sa, ca, sb, cb, sg, cg) ==
  << 4096 * (ca * cg) - cb * sa * sg,
     4096 * (sa * cg) + cb * ca * sg,
     4096 * (sb * sg),
     -(4096 * (ca * sg)) - cb * sa * cg,
     cb * ca * cg - 4096 * (sa * sg),
     4096 * (sb * cg),
     4096 * (sb * sa),
     -(4096 * (sb * ca)),
     16777216 * cb >>

LEMMA EntriesAreNear ==
  ASSUME NEW sa, NEW ca, NEW sb, NEW cb, NEW sg, NEW cg,
         Sine(sa), Sine(ca), Sine(sb), Sine(cb), Sine(sg), Sine(cg),
         sa * sa + ca * ca <= CircleMost, sg * sg + cg * cg <= CircleMost
  PROVE  \A k \in 1 .. 9 : Entry(Rotation(sa, ca, sb, cb, sg, cg)[k],
                                 Unrounded(sa, ca, sb, cb, sg, cg)[k])
<1> DEFINE R == Rotation(sa, ca, sb, cb, sg, cg)
           E == Unrounded(sa, ca, sb, cb, sg, cg)
<1>1. ca * ca + sa * sa <= CircleMost /\ cg * cg + sg * sg <= CircleMost
  BY SMT DEF Sine, Upto
<1>2. /\ R[1] = fxp_sub(Times(ca, cg), Times(Times(cb, sa), sg), Trig)
      /\ R[2] = fxp_add(Times(sa, cg), Times(Times(cb, ca), sg), Trig)
      /\ R[3] = Times(sb, sg)
      /\ R[4] = fxp_sub(Negative(Times(ca, sg)), Times(Times(cb, sa), cg), Trig)
      /\ R[5] = fxp_sub(Times(Times(cb, ca), cg), Times(sa, sg), Trig)
      /\ R[6] = Times(sb, cg)
      /\ R[7] = Times(sb, sa)
      /\ R[8] = Negative(Times(sb, ca))
      /\ R[9] = cb
  BY DEF Rotation, Times
<1>3. /\ E[1] = 4096 * (ca * cg) - cb * sa * sg
      /\ E[2] = 4096 * (sa * cg) + cb * ca * sg
      /\ E[3] = 4096 * (sb * sg)
      /\ E[4] = -(4096 * (ca * sg)) - cb * sa * cg
      /\ E[5] = cb * ca * cg - 4096 * (sa * sg)
      /\ E[6] = 4096 * (sb * cg)
      /\ E[7] = 4096 * (sb * sa)
      /\ E[8] = -(4096 * (sb * ca))
      /\ E[9] = 16777216 * cb
  BY DEF Unrounded
<1> HIDE DEF R, E
<1>4. Entry(R[1], E[1])
  BY <1>1, <1>2, <1>3, MixedEntry, SMT
<1>5. Entry(R[2], E[2])
  BY <1>1, <1>2, <1>3, MixedEntry, SMT
<1>6. Entry(R[4], E[4])
  BY <1>1, <1>2, <1>3, MixedEntry, SMT
<1>7. Entry(R[5], E[5])
  BY <1>1, <1>2, <1>3, MixedEntry, SMT
<1>8. Entry(R[3], E[3]) /\ Entry(R[6], E[6]) /\ Entry(R[7], E[7])
  BY <1>2, <1>3, PlainEntry, SMT
<1>9. Entry(R[8], E[8]) /\ Entry(R[9], E[9])
  BY <1>2, <1>3, PlainEntry, SMT
<1>10. \A k \in 1 .. 9 : Entry(R[k], E[k])
  BY <1>4, <1>5, <1>6, <1>7, <1>8, <1>9
<1> QED BY <1>10 DEF R, E

LEMMA SquareNat == Square \in Nat
BY TrigFormat, SMT

Slack == 25165824
Reach == 69611937792
ProductSlack == Slack * Slack + 2 * (Slack * Reach)

\* The product of two entries is near the product of what they stand for.
LEMMA ProductNear ==
  ASSUME NEW r, NEW e, NEW q, NEW f, Entry(r, e), Entry(q, f)
  PROVE  /\ r * q \in Int /\ e * f \in Int
         /\ Near(Square * Square * (r * q), e * f, ProductSlack)
<1> DEFINE D == Square * r - e
           G == Square * q - f
<1>0. Square \in Int /\ Slack \in Nat /\ Reach \in Nat
  BY SquareNat, SMT DEF Slack, Reach
<1>1. /\ r \in Int /\ q \in Int /\ e \in Int /\ f \in Int
      /\ Upto(D, Slack) /\ Upto(G, Slack) /\ Upto(e, Reach) /\ Upto(f, Reach)
  <2>1. Square = 16777216
    BY TrigFormat, SMT
  <2>2. /\ r \in Int /\ q \in Int /\ Upto(e, Reach) /\ Upto(f, Reach)
        /\ Near(Square * r, e, Slack) /\ Near(Square * q, f, Slack)
    BY <2>1, SMT DEF Entry, Reach, Slack
  <2>3. e \in Int /\ f \in Int
    BY <2>2 DEF Upto
  <2> QED BY <1>0, <2>2, <2>3, SMT DEF Near, Upto
<1>2. (Square * r) * (Square * q) = D * G + D * f + e * G + e * f
  BY <1>0, <1>1, SMT
<1>3. (Square * r) * (Square * q) = Square * Square * (r * q)
  BY <1>0, <1>1, SMT
<1>4. D \in Int /\ G \in Int
  BY <1>1 DEF Upto
<1> HIDE DEF D, G
<1>5. Upto(D * G, Slack * Slack) /\ Upto(D * f, Slack * Reach) /\ Upto(G * e, Slack * Reach)
  BY <1>0, <1>1, MulUpto
<1> DEFINE p == D * G
           s == D * f
           t == G * e
           x == r * q
           y == e * f
           z == Square * Square * x
           a == Slack * Slack
           b == Slack * Reach
<1>6. /\ p \in Int /\ s \in Int /\ t \in Int /\ x \in Int /\ y \in Int /\ z \in Int
      /\ a \in Int /\ b \in Int
  BY <1>0, <1>1, <1>4
<1>7. Upto(p, a) /\ Upto(s, b) /\ Upto(t, b) /\ ProductSlack = a + 2 * b
  BY <1>5 DEF ProductSlack
<1>8. z = p + s + t + y
  <2>1. e * G = G * e
    BY <1>1, <1>4, SMT
  <2> QED BY <1>2, <1>3, <2>1
<1> HIDE DEF p, s, t, x, y, z, a, b
<1>9. Near(z, y, ProductSlack)
  BY <1>6, <1>7, <1>8, SMT DEF Near, Upto
<1> QED BY <1>6, <1>9 DEF x, y, z

\* So are the inner products of two rows.
LEMMA DotNear ==
  ASSUME NEW r1, NEW r2, NEW r3, NEW q1, NEW q2, NEW q3,
         NEW e1, NEW e2, NEW e3, NEW f1, NEW f2, NEW f3,
         Entry(r1, e1), Entry(r2, e2), Entry(r3, e3),
         Entry(q1, f1), Entry(q2, f2), Entry(q3, f3)
  PROVE  /\ r1 * q1 + r2 * q2 + r3 * q3 \in Int
         /\ e1 * f1 + e2 * f2 + e3 * f3 \in Int
         /\ Near(Square * Square * (r1 * q1 + r2 * q2 + r3 * q3),
                 e1 * f1 + e2 * f2 + e3 * f3, 3 * ProductSlack)
<1> DEFINE x1 == r1 * q1
           x2 == r2 * q2
           x3 == r3 * q3
           y1 == e1 * f1
           y2 == e2 * f2
           y3 == e3 * f3
<1>1. /\ x1 \in Int /\ y1 \in Int /\ Near(Square * Square * x1, y1, ProductSlack)
      /\ x2 \in Int /\ y2 \in Int /\ Near(Square * Square * x2, y2, ProductSlack)
      /\ x3 \in Int /\ y3 \in Int /\ Near(Square * Square * x3, y3, ProductSlack)
  BY ProductNear
<1> HIDE DEF x1, x2, x3, y1, y2, y3
<1> DEFINE u == Square * Square
           v == ProductSlack
<1>2. u \in Int /\ v \in Int
  BY SquareNat, SMT DEF ProductSlack, Slack, Reach
<1>3. /\ x1 \in Int /\ y1 \in Int /\ Near(u * x1, y1, v)
      /\ x2 \in Int /\ y2 \in Int /\ Near(u * x2, y2, v)
      /\ x3 \in Int /\ y3 \in Int /\ Near(u * x3, y3, v)
  BY <1>1
<1> HIDE DEF u, v
<1>4. u * (x1 + x2 + x3) = u * x1 + u * x2 + u * x3
  BY <1>2, <1>3, SMT
<1> DEFINE z1 == u * x1
           z2 == u * x2
           z3 == u * x3
<1>5. z1 \in Int /\ z2 \in Int /\ z3 \in Int
  BY <1>2, <1>3
<1> HIDE DEF z1, z2, z3
<1>6. Near(z1 + z2 + z3, y1 + y2 + y3, 3 * v)
  <2>1. Near(z1, y1, v) /\ Near(z2, y2, v) /\ Near(z3, y3, v)
    BY <1>3 DEF z1, z2, z3
  <2> QED BY <1>2, <1>3, <1>5, <2>1, SMT DEF Near
<1>7. /\ x1 + x2 + x3 \in Int /\ y1 + y2 + y3 \in Int
      /\ Near(u * (x1 + x2 + x3), y1 + y2 + y3, 3 * v)
  BY <1>3, <1>4, <1>6 DEF z1, z2, z3
<1> QED BY <1>7 DEF u, v, x1, x2, x3, y1, y2, y3

\* The inner products of the rows of the unrounded matrix.
LEMMA UnroundedDots ==
  ASSUME NEW u \in Int, NEW S \in Int, S = u * u,
         NEW sa \in Int, NEW ca \in Int, NEW sb \in Int,
         NEW cb \in Int, NEW sg \in Int, NEW cg \in Int
  PROVE  LET A  == ca * ca + sa * sa
             Q  == cb * cb * A + S * (sb * sb)
             x1 == u * (ca * cg) - cb * sa * sg
             x2 == u * (sa * cg) + cb * ca * sg
             x3 == u * (sb * sg)
             y1 == -(u * (ca * sg)) - cb * sa * cg
             y2 == cb * ca * cg - u * (sa * sg)
             y3 == u * (sb * cg)
             z1 == u * (sb * sa)
             z2 == -(u * (sb * ca))
             z3 == S * cb
         IN  /\ x1 * x1 + x2 * x2 + x3 * x3 = S * A * (cg * cg) + Q * (sg * sg)
             /\ y1 * y1 + y2 * y2 + y3 * y3 = S * A * (sg * sg) + Q * (cg * cg)
             /\ z1 * z1 + z2 * z2 + z3 * z3 = S * (A * (sb * sb) + S * (cb * cb))
             /\ x1 * y1 + x2 * y2 + x3 * y3 = (sg * cg) * (Q - S * A)
             /\ x1 * z1 + x2 * z2 + x3 * z3 = (sb * cb) * (u * (sg * (S - A)))
             /\ y1 * z1 + y2 * z2 + y3 * z3 = (sb * cb) * (u * (cg * (S - A)))
<1> DEFINE A  == ca * ca + sa * sa
           Q  == cb * cb * A + S * (sb * sb)
           x1 == u * (ca * cg) - cb * sa * sg
           x2 == u * (sa * cg) + cb * ca * sg
           x3 == u * (sb * sg)
           y1 == -(u * (ca * sg)) - cb * sa * cg
           y2 == cb * ca * cg - u * (sa * sg)
           y3 == u * (sb * cg)
           z1 == u * (sb * sa)
           z2 == -(u * (sb * ca))
           z3 == S * cb
<1>1. x1 * x1 + x2 * x2 + x3 * x3 = S * A * (cg * cg) + Q * (sg * sg)
  BY SMT
<1>2. y1 * y1 + y2 * y2 + y3 * y3 = S * A * (sg * sg) + Q * (cg * cg)
  BY SMT
<1>3. z1 * z1 + z2 * z2 + z3 * z3 = S * (A * (sb * sb) + S * (cb * cb))
  BY SMT
<1>4. x1 * y1 + x2 * y2 + x3 * y3 = (sg * cg) * (Q - S * A)
  BY SMT
<1>5. x1 * z1 + x2 * z2 + x3 * z3 = (sb * cb) * (u * (sg * (S - A)))
  BY SMT
<1>6. y1 * z1 + y2 * z2 + y3 * z3 = (sb * cb) * (u * (cg * (S - A)))
  BY SMT
<1> QED BY <1>1, <1>2, <1>3, <1>4, <1>5, <1>6

\* The n-th part of S, taken p times, is the n-th part of p, taken S times.
LEMMA Parts ==
  ASSUME NEW p \in Nat, NEW S \in Nat, NEW n \in Nat, n > 0
  PROVE  /\ p \div n \in Nat /\ S \div n \in Nat
         /\ p * (S \div n) <= S * (p \div n + 1)
<1> DEFINE k == p \div n
           l == S \div n
<1>1. k \in Nat /\ l \in Nat /\ n * l <= S
  BY SMT
<1>2. p <= n * (k + 1)
  BY SMT
<1> HIDE DEF k, l
<1>3. p * l <= n * (k + 1) * l
  BY <1>1, <1>2, MulLe
<1>4. (n * l) * (k + 1) <= S * (k + 1)
  BY <1>1, MulLe
<1>5. n * (k + 1) * l = (n * l) * (k + 1)
  BY <1>1, SMT
<1>6. p * l <= S * (k + 1)
  <2> DEFINE x == p * l
             y == n * (k + 1) * l
             z == S * (k + 1)
  <2>1. x \in Int /\ y \in Int /\ z \in Int
    BY <1>1
  <2>2. x <= y /\ y <= z
    BY <1>3, <1>4, <1>5
  <2> HIDE DEF x, y, z
  <2>3. x <= z
    BY <2>1, <2>2
  <2> QED BY <2>3 DEF x, z
<1> QED BY <1>1, <1>6 DEF k, l

\* Squares p and q of a sum near S, multiplied by numbers near S.
LEMMA NearSquares ==
  ASSUME NEW S \in Nat, NEW p \in Nat, NEW q \in Nat, q <= S,
         NEW n \in Nat, n > 0, NEW m \in Nat, m > 0
  PROVE  /\ p * (S - S \div n) + q * S >= S * (p + q - p \div n - 1)
         /\ p * (S + S \div n) + q * S <= S * (p + q + p \div n + 1)
         /\ p * (S - S \div n) + q * (S - S \div m - 1) >= S * (p + q - p \div n - q \div m - 3)
         /\ p * (S + S \div n) + q * (S + S \div m + 1) <= S * (p + q + p \div n + q \div m + 3)
<1> DEFINE pn == p \div n
           qm == q \div m
           sn == S \div n
           sm == S \div m
<1>1. /\ pn \in Nat /\ sn \in Nat /\ p * sn <= S * (pn + 1)
      /\ qm \in Nat /\ sm \in Nat /\ q * sm <= S * (qm + 1)
  BY Parts
<1> HIDE DEF pn, qm, sn, sm
<1> DEFINE a == p * S
           b == q * S
           c == p * sn
           d == q * sm
           e == S * pn
           f == S * qm
<1>2. a \in Int /\ b \in Int /\ c \in Int /\ d \in Int /\ e \in Int /\ f \in Int
  BY <1>1
<1>3. c <= e + S /\ d <= f + S
  <2>1. S * (pn + 1) = S * pn + S /\ S * (qm + 1) = S * qm + S
    BY <1>1, SMT
  <2> QED BY <1>1, <2>1
<1>4. /\ p * (S - sn) = a - c /\ p * (S + sn) = a + c
      /\ q * (S - sm - 1) = b - d - q /\ q * (S + sm + 1) = b + d + q
      /\ S * (p + q - pn - 1) = a + b - e - S
      /\ S * (p + q + pn + 1) = a + b + e + S
      /\ S * (p + q - pn - qm - 3) = a + b - e - f - 3 * S
      /\ S * (p + q + pn + qm + 3) = a + b + e + f + 3 * S
  BY <1>1, SMT
<1> HIDE DEF a, b, c, d, e, f
<1>5. /\ a - c + b >= a + b - e - S
      /\ a + c + b <= a + b + e + S
      /\ a - c + (b - d - q) >= a + b - e - f - 3 * S
      /\ a + c + (b + d + q) <= a + b + e + f + 3 * S
  BY <1>2, <1>3, SMT
<1>6. /\ p * (S - sn) + b >= S * (p + q - pn - 1)
      /\ p * (S + sn) + b <= S * (p + q + pn + 1)
      /\ p * (S - sn) + q * (S - sm - 1) >= S * (p + q - pn - qm - 3)
      /\ p * (S + sn) + q * (S + sm + 1) <= S * (p + q + pn + qm + 3)
  BY <1>4, <1>5
<1> QED BY <1>6 DEF pn, qm, sn, sm, b

\* What is round stays round when it is shrunk or stretched.
LEMMA StaysRound ==
  ASSUME NEW p \in Nat, NEW q \in Nat, Round(p, q), q <= Square
  PROVE  LET S == Square IN
         /\ p * (S - S \div 68) + q * S >= S * (S - S \div 39 - 1)
         /\ p * (S + S \div 77) + q * S <= S * (S + S \div 51 + 1)
         /\ p * (S - S \div 68) + q * (S - S \div 39 - 1) >= S * (S - S \div 27 - 3)
         /\ p * (S + S \div 77) + q * (S + S \div 51 + 1) <= S * (S + S \div 33 + 3)
<1> DEFINE S == Square
           k1 == p * (S - S \div 68) + q * S
           k2 == p * (S + S \div 77) + q * S
           k3 == p * (S - S \div 68) + q * (S - S \div 39 - 1)
           k4 == p * (S + S \div 77) + q * (S + S \div 51 + 1)
           l1 == p + q - p \div 68 - 1
           l2 == p + q + p \div 77 + 1
           l3 == p + q - p \div 68 - q \div 39 - 3
           l4 == p + q + p \div 77 + q \div 51 + 3
           m1 == S - S \div 39 - 1
           m2 == S + S \div 51 + 1
           m3 == S - S \div 27 - 3
           m4 == S + S \div 33 + 3
<1>0. S \in Nat
  BY SquareNat
<1>1. k1 >= S * l1 /\ k2 <= S * l2 /\ k3 >= S * l3 /\ k4 <= S * l4
  BY <1>0, NearSquares
<1>2. /\ p \div 68 \in Int /\ q \div 39 \in Int /\ p \div 77 \in Int /\ q \div 51 \in Int
      /\ S \div 27 \in Int /\ S \div 33 \in Int /\ S \div 39 \in Int /\ S \div 51 \in Int
      /\ S \div 68 \in Int /\ S \div 77 \in Int
  BY <1>0, SMT
<1>3. m1 <= l1 /\ l2 <= m2 /\ m3 <= l3 /\ l4 <= m4
  BY <1>0, <1>2, SMT DEF Round
<1>4. /\ k1 \in Int /\ k2 \in Int /\ k3 \in Int /\ k4 \in Int
      /\ l1 \in Int /\ l2 \in Int /\ l3 \in Int /\ l4 \in Int
      /\ m1 \in Int /\ m2 \in Int /\ m3 \in Int /\ m4 \in Int
  BY <1>0, <1>2
<1> HIDE DEF S, k1, k2, k3, k4, l1, l2, l3, l4, m1, m2, m3, m4
<1>5. \A x, y \in Int : x <= y => S * x <= S * y
  <2> TAKE x \in Int, y \in Int
  <2> HAVE x <= y
  <2>1. x * S <= y * S
    BY <1>0, MulLe
  <2> QED BY <1>0, <2>1
<1>6. S * m1 <= S * l1 /\ S * l2 <= S * m2 /\ S * m3 <= S * l3 /\ S * l4 <= S * m4
  BY <1>3, <1>4, <1>5
<1>7. \A x, y \in Int : S * x \in Int
  BY <1>0
<1>8. k1 >= S * m1 /\ k2 <= S * m2 /\ k3 >= S * m3 /\ k4 <= S * m4
  BY <1>0, <1>1, <1>4, <1>6, <1>7
<1> QED BY <1>8 DEF S, k1, k2, k3, k4, m1, m2, m3, m4

\* The circle of sine and cosine, and their product.
LEMMA CircleIsMost == CircleMost \in Nat /\ Square + Square \div 77 <= CircleMost
<1>1. 16777216 \div 77 = 217885
  BY SMT
<1>2. Square = 16777216
  BY TrigFormat, SMT
<1>3. Square + Square \div 77 = 16995101
  BY <1>1, <1>2, SMT
<1> QED BY <1>3, SMT DEF CircleMost

RoundPair(s, c) == Sine(s) /\ Sine(c) /\ Round(s * s, c * c) /\ Round(c * c, s * s)

LEMMA RoundSquares ==
  ASSUME NEW s, NEW c, RoundPair(s, c)
  PROVE  /\ s \in Int /\ c \in Int
         /\ s * s \in Nat /\ s * s <= Square /\ c * c \in Nat /\ c * c <= Square
         /\ s * s + c * c \in Square - Square \div 68 .. Square + Square \div 77
         /\ s * s + c * c <= CircleMost
         /\ s * c \in Int /\ -CircleMost <= 2 * (s * c) /\ 2 * (s * c) <= CircleMost
<1>1. s \in Int /\ c \in Int
  BY SMT DEF RoundPair, Sine, Upto
<1>2. ASSUME NEW x, Sine(x)
      PROVE  x * x \in Nat /\ x * x <= Square
  <2>1. x \in Int
    BY <1>2 DEF Sine, Upto
  <2>2. Upto(x * x, 16777216)
    BY <1>2, Term, SMT
  <2>3. x * x \in Nat
    BY <2>1
  <2> QED BY <2>2, <2>3, TrigFormat, SMT DEF Upto
<1> DEFINE p == s * s
           q == c * c
           r == s * c
<1>3. p \in Nat /\ p <= Square /\ q \in Nat /\ q <= Square
  BY <1>2 DEF RoundPair
<1>4. p + q \in Square - Square \div 68 .. Square + Square \div 77
  BY DEF RoundPair, Round
<1>5. -(p + q) <= 2 * r /\ 2 * r <= p + q /\ r \in Int
  BY <1>1, TwiceProduct
<1> HIDE DEF p, q, r
<1>6. p + q <= CircleMost
  <2>1. Square \div 77 \in Int /\ Square \div 68 \in Int
    BY SquareNat, SMT
  <2> QED BY <1>3, <1>4, <2>1, SquareNat, CircleIsMost, SMT
<1>7. -CircleMost <= 2 * r /\ 2 * r <= CircleMost
  BY <1>3, <1>5, <1>6, CircleIsMost, SMT
<1> QED BY <1>1, <1>3, <1>4, <1>5, <1>6, <1>7 DEF p, q, r

\* The circle of alpha seen at the slant of beta.
LEMMA SlantedRound ==
  ASSUME NEW A \in Square - Square \div 68 .. Square + Square \div 77,
         NEW p \in Nat, NEW q \in Nat, Round(p, q), q <= Square
  PROVE  /\ p * A + Square * q \in Int
         /\ p * A + Square * q >= Square * (Square - Square \div 39 - 1)
         /\ p * A + Square * q <= Square * (Square + Square \div 51 + 1)
<1> DEFINE S == Square
           l == S - S \div 68
           h == S + S \div 77
           m1 == S - S \div 39 - 1
           m2 == S + S \div 51 + 1
<1>0. /\ S \in Nat /\ l \in Int /\ h \in Int /\ m1 \in Int /\ m2 \in Int
      /\ A \in Int /\ l <= A /\ A <= h
  BY SquareNat, SMT
<1>1. p * l + q * S >= S * m1 /\ p * h + q * S <= S * m2
  BY StaysRound
<1> HIDE DEF S, l, h, m1, m2
<1>2. p * l <= p * A /\ p * A <= p * h
  <2>1. l * p <= A * p /\ A * p <= h * p
    BY <1>0, MulLe
  <2>2. l * p = p * l /\ A * p = p * A /\ h * p = p * h
    BY <1>0, SMT
  <2> QED BY <2>1, <2>2
<1> DEFINE a == p * l
           b == p * A
           c == p * h
           d == q * S
           e == S * m1
           f == S * m2
<1>3. a \in Int /\ b \in Int /\ c \in Int /\ d \in Int /\ e \in Int /\ f \in Int
  BY <1>0
<1>4. a + d >= e /\ c + d <= f /\ a <= b /\ b <= c
  BY <1>1, <1>2
<1>5. S * q = d
  BY <1>0, SMT
<1> HIDE DEF a, b, c, d, e, f
<1>6. b + d \in Int /\ b + d >= e /\ b + d <= f
  BY <1>3, <1>4
<1>7. b + S * q \in Int /\ b + S * q >= e /\ b + S * q <= f
  BY <1>5, <1>6
<1> QED BY <1>7 DEF S, b, e, f, m1, m2

\* That ellipse and the circle, weighted with the squares of gamma.
LEMMA WeightedRound ==
  ASSUME NEW A \in Square - Square \div 68 .. Square + Square \div 77,
         NEW Q \in Int,
         Q >= Square * (Square - Square \div 39 - 1),
         Q <= Square * (Square + Square \div 51 + 1),
         NEW p \in Nat, NEW q \in Nat, Round(p, q), q <= Square
  PROVE  /\ Square * A * p + Q * q \in Int
         /\ Square * A * p + Q * q >= Square * Square * (Square - Square \div 27 - 3)
         /\ Square * A * p + Q * q <= Square * Square * (Square + Square \div 33 + 3)
<1> DEFINE S == Square
           l == S - S \div 68
           h == S + S \div 77
           m1 == S - S \div 39 - 1
           m2 == S + S \div 51 + 1
           n1 == S - S \div 27 - 3
           n2 == S + S \div 33 + 3
<1>0. /\ S \in Nat /\ l \in Int /\ h \in Int /\ m1 \in Int /\ m2 \in Int
      /\ n1 \in Int /\ n2 \in Int /\ A \in Int /\ l <= A /\ A <= h
      /\ S * m1 <= Q /\ Q <= S * m2
  BY SquareNat, SMT
<1>1. p * l + q * m1 >= S * n1 /\ p * h + q * m2 <= S * n2
  BY StaysRound
<1> HIDE DEF S, l, h, m1, m2, n1, n2
<1>2. l * (S * p) <= A * (S * p) /\ A * (S * p) <= h * (S * p)
  <2>1. S * p \in Nat
    BY <1>0
  <2> HIDE DEF S
  <2> QED BY <1>0, <2>1, MulLe
<1>3. S * m1 * q <= Q * q /\ Q * q <= S * m2 * q
  <2>1. S * m1 \in Int /\ S * m2 \in Int
    BY <1>0
  <2> QED BY <1>0, <2>1, MulLe
<1>4. S * n1 * S <= (p * l + q * m1) * S /\ (p * h + q * m2) * S <= S * n2 * S
  <2>1. S * n1 \in Int /\ S * n2 \in Int /\ p * l + q * m1 \in Int /\ p * h + q * m2 \in Int
    BY <1>0
  <2> QED BY <1>0, <1>1, <2>1, MulLe
<1>5. /\ (p * l + q * m1) * S = l * (S * p) + S * m1 * q
      /\ (p * h + q * m2) * S = h * (S * p) + S * m2 * q
      /\ A * (S * p) = S * A * p
      /\ S * n1 * S = S * S * n1 /\ S * n2 * S = S * S * n2
  BY <1>0, SMT
<1> DEFINE a == l * (S * p)
           b == S * A * p
           c == h * (S * p)
           d == S * m1 * q
           e == Q * q
           f == S * m2 * q
           g == S * S * n1
           i == S * S * n2
<1>6. /\ a \in Int /\ b \in Int /\ c \in Int /\ d \in Int /\ e \in Int /\ f \in Int
      /\ g \in Int /\ i \in Int
  BY <1>0
<1>7. a <= b /\ b <= c /\ d <= e /\ e <= f /\ g <= a + d /\ c + f <= i
  BY <1>2, <1>3, <1>4, <1>5
<1> HIDE DEF a, b, c, d, e, f, g, i
<1>8. b + e \in Int /\ g <= b + e /\ b + e <= i
  BY <1>6, <1>7
<1> QED BY <1>8 DEF S, b, e, g, i, n1, n2

\* How far the unrounded rows may be from rows of a rotation.
Skew == Square * Square * 621381

\* The parts of Square that bound the inner products.
LEMMA SquareParts ==
  /\ Square \div 27 + 3 <= 621381 /\ Square \div 33 + 3 <= 621381
  /\ Square \div 39 + Square \div 77 + 1 <= 648072
  /\ Square \div 51 + Square \div 68 + 1 <= 648072
  /\ Square \div 68 <= 648072 /\ Square \div 77 <= 648072
  /\ CircleMost * 648072 <= Square * 1242762
<1>1. Square = 16777216
  BY TrigFormat, SMT
<1>2. /\ 16777216 \div 27 = 621378 /\ 16777216 \div 33 = 508400
      /\ 16777216 \div 39 = 430185 /\ 16777216 \div 51 = 328965
      /\ 16777216 \div 68 = 246723 /\ 16777216 \div 77 = 217885
  BY SMT
<1> QED BY <1>1, <1>2, SMT DEF CircleMost

\* Of a row with itself: between the bounds of an ellipse.
LEMMA LengthNear ==
  ASSUME NEW x \in Int, NEW m \in Int, NEW n \in Int, m <= 621381, n <= 621381,
         x >= Square * Square * (Square - m), x <= Square * Square * (Square + n)
  PROVE  Near(x, Square * Square * Square, Skew)
<1> DEFINE S == Square
           u == S * S
<1>0. S \in Nat /\ u \in Nat
  BY SquareNat
<1> HIDE DEF S, u
<1>1. m * u <= 621381 * u /\ n * u <= 621381 * u
  BY <1>0, MulLe, SMT
<1>2. u * (S - m) = u * S - m * u /\ u * (S + n) = u * S + n * u
  BY <1>0, SMT
<1> DEFINE a == u * S
           b == m * u
           c == n * u
           d == 621381 * u
<1>3. a \in Int /\ b \in Int /\ c \in Int /\ d \in Int
  BY <1>0
<1>4. a - b <= x /\ x <= a + c /\ b <= d /\ c <= d
  BY <1>1, <1>2 DEF S, u
<1> HIDE DEF a, b, c, d
<1>5. Near(x, a, d)
  BY <1>3, <1>4, SMT DEF Near
<1>6. d = u * 621381
  BY <1>0, SMT DEF d
<1> QED BY <1>5, <1>6 DEF a, u, S, Skew

\* Of two rows: at most half of CircleMost times a small part of a square.
LEMMA AngleNear ==
  ASSUME NEW r \in Int, -CircleMost <= 2 * r, 2 * r <= CircleMost, NEW w, Upto(w, Square * 648072)
  PROVE  r * w \in Int /\ Near(r * w, 0, Skew)
<1> DEFINE S == Square
           b == S * 648072
<1>0. S \in Nat /\ CircleMost \in Nat /\ w \in Int /\ b \in Nat
  BY SquareNat, CircleIsMost, SMT DEF Upto
<1>1. Upto((2 * r) * w, CircleMost * b)
  <2>1. Upto(2 * r, CircleMost) /\ Upto(w, b)
    BY SMT DEF Upto
  <2> HIDE DEF b
  <2> QED BY <1>0, <2>1, MulUpto
<1>2. S * (CircleMost * 648072) <= S * (S * 1242762)
  <2> DEFINE p == CircleMost * 648072
             q == S * 1242762
  <2>1. p <= q /\ p \in Int /\ q \in Int
    BY <1>0, SquareParts, SMT
  <2> HIDE DEF p, q, S
  <2>2. p * S <= q * S
    BY <1>0, <2>1, MulLe
  <2>3. S * p <= S * q
    BY <1>0, <2>1, <2>2, SMT
  <2> QED BY <2>3, SMT DEF p, q
<1>3. CircleMost * b = S * (CircleMost * 648072) /\ S * (S * 1242762) = 2 * Skew /\ Skew \in Nat
  BY <1>0, SMT DEF Skew
<1> DEFINE n == r * w
           h == CircleMost * b
<1>4. (2 * r) * w = 2 * n
  BY <1>0, SMT
<1>5. n \in Int /\ h \in Int
  BY <1>0, SMT
<1>6. Upto(2 * n, h) /\ h <= 2 * Skew
  BY <1>1, <1>2, <1>3, <1>4, SMT
<1> HIDE DEF n, h
<1>7. Near(n, 0, Skew)
  BY <1>3, <1>5, <1>6, SMT DEF Near, Upto
<1> QED BY <1>5, <1>7 DEF n

\* The inner products of the unrounded rows, in terms of the two ellipses.
UnroundedProducts(E, sa, ca, sb, cb, sg, cg) ==
  LET A == ca * ca + sa * sa
      Q == cb * cb * A + Square * (sb * sb)
  IN  /\ E[1] * E[1] + E[2] * E[2] + E[3] * E[3] = Square * A * (cg * cg) + Q * (sg * sg)
      /\ E[4] * E[4] + E[5] * E[5] + E[6] * E[6] = Square * A * (sg * sg) + Q * (cg * cg)
      /\ E[7] * E[7] + E[8] * E[8] + E[9] * E[9] = Square * (A * (sb * sb) + Square * (cb * cb))
      /\ E[1] * E[4] + E[2] * E[5] + E[3] * E[6] = (sg * cg) * (Q - Square * A)
      /\ E[1] * E[7] + E[2] * E[8] + E[3] * E[9] = (sb * cb) * (4096 * (sg * (Square - A)))
      /\ E[4] * E[7] + E[5] * E[8] + E[6] * E[9] = (sb * cb) * (4096 * (cg * (Square - A)))

LEMMA UnroundedDotsAre ==
  ASSUME NEW sa \in Int, NEW ca \in Int, NEW sb \in Int,
         NEW cb \in Int, NEW sg \in Int, NEW cg \in Int
  PROVE  UnroundedProducts(Unrounded(sa, ca, sb, cb, sg, cg), sa, ca, sb, cb, sg, cg)
<1> DEFINE E == Unrounded(sa, ca, sb, cb, sg, cg)
           A == ca * ca + sa * sa
           Q == cb * cb * A + Square * (sb * sb)
           u == 4096
<1>1. u \in Int /\ Square = u * u /\ Square = 16777216
  BY TrigFormat, SMT
<1>2. /\ E[1] = u * (ca * cg) - cb * sa * sg
      /\ E[2] = u * (sa * cg) + cb * ca * sg
      /\ E[3] = u * (sb * sg)
      /\ E[4] = -(u * (ca * sg)) - cb * sa * cg
      /\ E[5] = cb * ca * cg - u * (sa * sg)
      /\ E[6] = u * (sb * cg)
      /\ E[7] = u * (sb * sa)
      /\ E[8] = -(u * (sb * ca))
      /\ E[9] = 16777216 * cb
  BY SMT DEF Unrounded
<1>3. E[9] = Square * cb
  BY <1>1, <1>2, SMT
<1> HIDE DEF E, u
<1>4. /\ E[1] * E[1] + E[2] * E[2] + E[3] * E[3] = Square * A * (cg * cg) + Q * (sg * sg)
      /\ E[4] * E[4] + E[5] * E[5] + E[6] * E[6] = Square * A * (sg * sg) + Q * (cg * cg)
      /\ E[7] * E[7] + E[8] * E[8] + E[9] * E[9] = Square * (A * (sb * sb) + Square * (cb * cb))
      /\ E[1] * E[4] + E[2] * E[5] + E[3] * E[6] = (sg * cg) * (Q - Square * A)
      /\ E[1] * E[7] + E[2] * E[8] + E[3] * E[9] = (sb * cb) * (u * (sg * (Square - A)))
      /\ E[4] * E[7] + E[5] * E[8] + E[6] * E[9] = (sb * cb) * (u * (cg * (Square - A)))
  BY <1>1, <1>2, <1>3, SquareNat, UnroundedDots, SMT
<1>5. UnroundedProducts(E, sa, ca, sb, cb, sg, cg)
  BY <1>4, SMT DEF UnroundedProducts, u
<1> QED BY <1>5 DEF E

LEMMA UnroundedIsRigid ==
  ASSUME NEW sa, NEW ca, NEW sb, NEW cb, NEW sg, NEW cg,
         RoundPair(sa, ca), RoundPair(sb, cb), RoundPair(sg, cg)
  PROVE  LET E == Unrounded(sa, ca, sb, cb, sg, cg)
             S3 == Square * Square * Square
         IN  /\ Near(E[1] * E[1] + E[2] * E[2] + E[3] * E[3], S3, Skew)
             /\ Near(E[4] * E[4] + E[5] * E[5] + E[6] * E[6], S3, Skew)
             /\ Near(E[7] * E[7] + E[8] * E[8] + E[9] * E[9], S3, Skew)
             /\ Near(E[1] * E[4] + E[2] * E[5] + E[3] * E[6], 0, Skew)
             /\ Near(E[1] * E[7] + E[2] * E[8] + E[3] * E[9], 0, Skew)
             /\ Near(E[4] * E[7] + E[5] * E[8] + E[6] * E[9], 0, Skew)
<1> DEFINE E == Unrounded(sa, ca, sb, cb, sg, cg)
<1>1. /\ sa \in Int /\ ca \in Int /\ sb \in Int /\ cb \in Int /\ sg \in Int /\ cg \in Int
  BY RoundSquares
<1> HIDE DEF E
<1>2. UnroundedProducts(E, sa, ca, sb, cb, sg, cg)
  BY <1>1, UnroundedDotsAre DEF E
<1> DEFINE S == Square
           S3 == Square * Square * Square
           A == ca * ca + sa * sa
           p == cb * cb
           q == sb * sb
           x == cg * cg
           y == sg * sg
           Q == p * A + S * q
           w == Q - S * A
<1>3. /\ sa \in Int /\ ca \in Int /\ sb \in Int /\ cb \in Int /\ sg \in Int /\ cg \in Int
      /\ p \in Nat /\ p <= S /\ q \in Nat /\ q <= S
      /\ x \in Nat /\ x <= S /\ y \in Nat /\ y <= S /\ S \in Nat
  BY RoundSquares, SquareNat
<1>4. Round(p, q) /\ Round(q, p) /\ Round(x, y) /\ Round(y, x)
  BY DEF RoundPair
<1>5. A \in S - S \div 68 .. S + S \div 77
  <2>1. sa * sa + ca * ca \in S - S \div 68 .. S + S \div 77
    BY RoundSquares
  <2>2. A = sa * sa + ca * ca
    BY <1>3
  <2> QED BY <2>1, <2>2
<1>6. /\ Q \in Int
      /\ Q >= S * (S - S \div 39 - 1)
      /\ Q <= S * (S + S \div 51 + 1)
  BY <1>3, <1>4, <1>5, SlantedRound
<1>7. /\ q * A + S * p \in Int
      /\ q * A + S * p >= S * (S - S \div 39 - 1)
      /\ q * A + S * p <= S * (S + S \div 51 + 1)
  BY <1>3, <1>4, <1>5, SlantedRound
<1>8. /\ Near(S * A * x + Q * y, S3, Skew)
      /\ Near(S * A * y + Q * x, S3, Skew)
  <2>1. /\ S * A * x + Q * y \in Int
        /\ S * A * x + Q * y >= S * S * (S - S \div 27 - 3)
        /\ S * A * x + Q * y <= S * S * (S + S \div 33 + 3)
    BY <1>3, <1>4, <1>5, <1>6, WeightedRound
  <2>2. /\ S * A * y + Q * x \in Int
        /\ S * A * y + Q * x >= S * S * (S - S \div 27 - 3)
        /\ S * A * y + Q * x <= S * S * (S + S \div 33 + 3)
    BY <1>3, <1>4, <1>5, <1>6, WeightedRound
  <2> DEFINE m == S \div 27 + 3
             n == S \div 33 + 3
             v1 == S * A * x + Q * y
             v2 == S * A * y + Q * x
  <2>3. m \in Int /\ n \in Int /\ m <= 621381 /\ n <= 621381
    BY <1>3, SquareParts, SMT
  <2>4. S - S \div 27 - 3 = S - m /\ S + S \div 33 + 3 = S + n
    BY <1>3, SMT
  <2>5. /\ v1 \in Int /\ v1 >= S * S * (S - m) /\ v1 <= S * S * (S + n)
        /\ v2 \in Int /\ v2 >= S * S * (S - m) /\ v2 <= S * S * (S + n)
    BY <2>1, <2>2, <2>4
  <2> HIDE DEF m, n, v1, v2
  <2>6. Near(v1, S3, Skew) /\ Near(v2, S3, Skew)
    BY <2>3, <2>5, LengthNear
  <2> QED BY <2>6 DEF v1, v2
<1>9. Near(S * (A * q + S * p), S3, Skew)
  <2> DEFINE m == S \div 39 + 1
             n == S \div 51 + 1
             v == q * A + S * p
  <2>1. /\ m \in Int /\ n \in Int /\ m <= 621381 /\ n <= 621381
    <3>1. S = 16777216
      BY TrigFormat, SMT
    <3>2. 16777216 \div 39 = 430185 /\ 16777216 \div 51 = 328965
      BY SMT
    <3> QED BY <3>1, <3>2, SMT
  <2>2. S - S \div 39 - 1 = S - m /\ S + S \div 51 + 1 = S + n
    BY <1>3, SMT
  <2>3. v \in Int /\ v >= S * (S - m) /\ v <= S * (S + n)
    BY <1>7, <2>2
  <2>4. A \in Int
    BY <1>3
  <2>5. A * q + S * p = v
    BY <1>3, <2>4, SMT
  <2> HIDE DEF m, n, v, A
  <2>6. /\ S * v \in Int /\ S * v >= S * S * (S - m) /\ S * v <= S * S * (S + n)
    <3>1. S * (S - m) \in Int /\ S * (S + n) \in Int
      BY <1>3, <2>1
    <3>2. (S * (S - m)) * S <= v * S /\ v * S <= (S * (S + n)) * S
      BY <1>3, <2>3, <3>1, MulLe
    <3>3. /\ (S * (S - m)) * S = S * S * (S - m)
          /\ (S * (S + n)) * S = S * S * (S + n) /\ v * S = S * v /\ S * v \in Int
      BY <1>3, <2>1, <2>3, SMT
    <3> QED BY <3>2, <3>3
  <2>7. Near(S * v, S3, Skew)
    BY <2>1, <2>6, LengthNear
  <2> QED BY <2>5, <2>7
<1>10. Upto(w, S * 648072)
  <2> DEFINE s39 == S \div 39
             s51 == S \div 51
             s68 == S \div 68
             s77 == S \div 77
  <2>1. /\ s39 \in Int /\ s51 \in Int /\ s68 \in Int /\ s77 \in Int
        /\ s39 + s77 + 1 <= 648072 /\ s51 + s68 + 1 <= 648072
    BY <1>3, SquareParts, SMT
  <2>2. A \in Int /\ S - s68 <= A /\ A <= S + s77
    BY <1>3, <1>5, <2>1
  <2>3. Q \in Int /\ S * (S - s39 - 1) <= Q /\ Q <= S * (S + s51 + 1)
    BY <1>6
  <2> HIDE DEF S, s39, s51, s68, s77, A, Q
  <2>4. (S - s68) * S <= A * S /\ A * S <= (S + s77) * S
    BY <1>3, <2>1, <2>2, MulLe
  <2>5. (s39 + s77 + 1) * S <= 648072 * S /\ (s51 + s68 + 1) * S <= 648072 * S
    BY <1>3, <2>1, MulLe, SMT
  <2> DEFINE a == S * S
             b == S * s39
             c == S * s51
             d == S * s68
             e == S * s77
             f == S * A
             g == S * 648072
  <2>6. /\ (S - s68) * S = a - d /\ A * S = f /\ (S + s77) * S = a + e
        /\ (s39 + s77 + 1) * S = b + e + S /\ (s51 + s68 + 1) * S = c + d + S
        /\ 648072 * S = g
        /\ S * (S - s39 - 1) = a - b - S /\ S * (S + s51 + 1) = a + c + S
    BY <1>3, <2>1, <2>2, SMT
  <2>7. /\ a \in Int /\ b \in Int /\ c \in Int /\ d \in Int /\ e \in Int /\ f \in Int /\ g \in Int
    BY <1>3, <2>1, <2>2, SMT
  <2>8. /\ a - d <= f /\ f <= a + e /\ b + e + S <= g /\ c + d + S <= g
        /\ a - b - S <= Q /\ Q <= a + c + S
    BY <2>3, <2>4, <2>5, <2>6
  <2> HIDE DEF a, b, c, d, e, f, g
  <2>9. Upto(Q - f, g)
    BY <1>3, <2>3, <2>7, <2>8, SMT DEF Upto
  <2> QED BY <2>9 DEF f, g
<1>11. /\ Upto(4096 * (sg * (S - A)), S * 648072)
       /\ Upto(4096 * (cg * (S - A)), S * 648072)
  <2>1. Upto(S - A, 648072)
    <3>1. S \div 68 \in Int /\ S \div 77 \in Int /\ S \div 68 <= 648072 /\ S \div 77 <= 648072
      BY <1>3, SquareParts, SMT
    <3>2. A \in Int /\ S - S \div 68 <= A /\ A <= S + S \div 77
      BY <1>3, <1>5, <3>1
    <3> HIDE DEF A
    <3> QED BY <1>3, <3>1, <3>2, SMT DEF Upto
  <2> DEFINE d == S - A
  <2> HIDE DEF d, S
  <2>2. Upto(sg * d, 4096 * 648072) /\ Upto(cg * d, 4096 * 648072)
    BY <2>1, 648072 \in Nat, SineTimes, SMT DEF RoundPair, d
  <2>3. Sine(4096)
    BY SMT DEF Sine, Upto
  <2>4. 4096 * 648072 \in Nat
    BY SMT
  <2>5. /\ Upto(4096 * (sg * d), 4096 * (4096 * 648072))
        /\ Upto(4096 * (cg * d), 4096 * (4096 * 648072))
    BY <2>2, <2>3, <2>4, SineTimes, SMT
  <2>6. 4096 * (4096 * 648072) = S * 648072
    BY TrigFormat, SMT DEF S
  <2> QED BY <2>5, <2>6, SMT DEF d
<1>12. Near((sg * cg) * w, 0, Skew)
  BY <1>10, RoundSquares, AngleNear, SMT
<1>13. /\ Near((sb * cb) * (4096 * (sg * (S - A))), 0, Skew)
       /\ Near((sb * cb) * (4096 * (cg * (S - A))), 0, Skew)
  BY <1>11, RoundSquares, AngleNear, SMT
<1>14. /\ E[1] * E[1] + E[2] * E[2] + E[3] * E[3] = S * A * x + Q * y
       /\ E[4] * E[4] + E[5] * E[5] + E[6] * E[6] = S * A * y + Q * x
       /\ E[7] * E[7] + E[8] * E[8] + E[9] * E[9] = S * (A * q + S * p)
       /\ E[1] * E[4] + E[2] * E[5] + E[3] * E[6] = (sg * cg) * w
       /\ E[1] * E[7] + E[2] * E[8] + E[3] * E[9] = (sb * cb) * (4096 * (sg * (S - A)))
       /\ E[4] * E[7] + E[5] * E[8] + E[6] * E[9] = (sb * cb) * (4096 * (cg * (S - A)))
  BY <1>2 DEF UnroundedProducts
<1>15. /\ Near(E[1] * E[1] + E[2] * E[2] + E[3] * E[3], S3, Skew)
       /\ Near(E[4] * E[4] + E[5] * E[5] + E[6] * E[6], S3, Skew)
       /\ Near(E[7] * E[7] + E[8] * E[8] + E[9] * E[9], S3, Skew)
       /\ Near(E[1] * E[4] + E[2] * E[5] + E[3] * E[6], 0, Skew)
       /\ Near(E[1] * E[7] + E[2] * E[8] + E[3] * E[9], 0, Skew)
       /\ Near(E[4] * E[7] + E[5] * E[8] + E[6] * E[9], 0, Skew)
  <2> HIDE DEF S3, w, Q, A, x, y, p, q
  <2> QED BY <1>8, <1>9, <1>12, <1>13, <1>14
<1> QED BY <1>15, SMT DEF E

NearUnit(d, unit) ==
  25 * (Magnitude(d - unit) \div 64) <= Square \div 64

\* 671103 is the largest difference that the tolerance of Rigid admits.
LEMMA Tolerated ==
  ASSUME NEW d \in Int, NEW x \in Int, NEW unit \in {0, Square},
         Near(Square * Square * d, x, 3 * ProductSlack),
         Near(x, Square * Square * unit, Skew)
  PROVE  NearUnit(d, unit)
<1> DEFINE S == Square
           n == d - unit
           m == Magnitude(n)
<1>1. S = 16777216 /\ S \in Nat
  BY TrigFormat, SMT
<1>2. unit \in Int /\ n \in Int
  BY <1>1
<1>3. 3 * ProductSlack + Skew < S * S * 671104
  BY <1>1, SMT DEF ProductSlack, Slack, Reach, Skew
<1>4. ProductSlack \in Int /\ Skew \in Int
  BY <1>1, SMT DEF ProductSlack, Slack, Reach, Skew
<1>5. n < 671104 /\ -671104 < n
  <2> DEFINE u == S * S
             e == u * d
             f == u * unit
             g == u * n
             p == 3 * ProductSlack + Skew
  <2>1. u = 281474976710656
    BY <1>1, SMT
  <2>2. e \in Int /\ f \in Int /\ g \in Int /\ p \in Int /\ g = e - f
    BY <1>1, <1>2, <1>4, SMT
  <2>3. Near(e, x, 3 * ProductSlack) /\ Near(x, f, Skew)
    OBVIOUS
  <2> HIDE DEF e, f, g
  <2>4. -p <= g /\ g <= p
    BY <1>4, <2>2, <2>3, SMT DEF Near
  <2>5. p < u * 671104
    BY <1>3
  <2> HIDE DEF u, p, n
  <2>6. -(u * 671104) < u * n /\ u * n < u * 671104
    BY <2>1, <2>2, <2>4, <2>5, <1>2, SMT DEF g
  <2> QED BY <1>2, <2>1, <2>6, SMT
<1>6. m \in Nat /\ m <= 671103
  BY <1>2, <1>5, SMT DEF Magnitude
<1> HIDE DEF m, S
<1>7. m \div 64 <= 10485
  BY <1>6, SMT
<1>8. m \div 64 \in Int
  BY <1>6, SMT
<1>9. 25 * (m \div 64) <= S \div 64
  BY <1>1, <1>7, <1>8, SMT
<1> QED BY <1>9 DEF m, S, NearUnit

LEMMA DotTolerated ==
  ASSUME NEW r1, NEW r2, NEW r3, NEW q1, NEW q2, NEW q3,
         NEW e1, NEW e2, NEW e3, NEW f1, NEW f2, NEW f3,
         Entry(r1, e1), Entry(r2, e2), Entry(r3, e3),
         Entry(q1, f1), Entry(q2, f2), Entry(q3, f3)
  PROVE  /\ Near(e1 * f1 + e2 * f2 + e3 * f3, 0, Skew)
              => NearUnit(r1 * q1 + r2 * q2 + r3 * q3, 0)
         /\ Near(e1 * f1 + e2 * f2 + e3 * f3, Square * Square * Square, Skew)
              => NearUnit(r1 * q1 + r2 * q2 + r3 * q3, Square)
<1> DEFINE d == r1 * q1 + r2 * q2 + r3 * q3
           x == e1 * f1 + e2 * f2 + e3 * f3
<1>1. d \in Int /\ x \in Int /\ Near(Square * Square * d, x, 3 * ProductSlack)
  BY DotNear
<1> HIDE DEF d, x
<1>2. Square * Square * 0 = 0
  BY SquareNat
<1>3. Near(x, 0, Skew) => NearUnit(d, 0)
  BY <1>1, <1>2, Tolerated
<1>4. Near(x, Square * Square * Square, Skew) => NearUnit(d, Square)
  BY <1>1, Tolerated
<1> QED BY <1>3, <1>4 DEF d, x

\* The entries of the rotation of angles whose table is round.
LEMMA RoundEntries ==
  ASSUME NEW sa, NEW ca, NEW sb, NEW cb, NEW sg, NEW cg,
         RoundPair(sa, ca), RoundPair(sb, cb), RoundPair(sg, cg)
  PROVE  \A k \in 1 .. 9 : Entry(Rotation(sa, ca, sb, cb, sg, cg)[k],
                                 Unrounded(sa, ca, sb, cb, sg, cg)[k])
<1>1. sa * sa + ca * ca <= CircleMost /\ sg * sg + cg * cg <= CircleMost
  BY RoundSquares
<1> QED BY <1>1, EntriesAreNear DEF RoundPair

LEMMA RoundIsRigid ==
  ASSUME NEW sa, NEW ca, NEW sb, NEW cb, NEW sg, NEW cg,
         RoundPair(sa, ca), RoundPair(sb, cb), RoundPair(sg, cg)
  PROVE  Rigid(Rotation(sa, ca, sb, cb, sg, cg))
<1> DEFINE R == Rotation(sa, ca, sb, cb, sg, cg)
           E == Unrounded(sa, ca, sb, cb, sg, cg)
<1>1. \A k \in 1 .. 9 : Entry(R[k], E[k])
  BY RoundEntries
<1>2. /\ Near(E[1] * E[1] + E[2] * E[2] + E[3] * E[3], Square * Square * Square, Skew)
      /\ Near(E[4] * E[4] + E[5] * E[5] + E[6] * E[6], Square * Square * Square, Skew)
      /\ Near(E[7] * E[7] + E[8] * E[8] + E[9] * E[9], Square * Square * Square, Skew)
      /\ Near(E[1] * E[4] + E[2] * E[5] + E[3] * E[6], 0, Skew)
      /\ Near(E[1] * E[7] + E[2] * E[8] + E[3] * E[9], 0, Skew)
      /\ Near(E[4] * E[7] + E[5] * E[8] + E[6] * E[9], 0, Skew)
  BY UnroundedIsRigid
<1> HIDE DEF R, E
<1>3. /\ Entry(R[1], E[1]) /\ Entry(R[2], E[2]) /\ Entry(R[3], E[3])
      /\ Entry(R[4], E[4]) /\ Entry(R[5], E[5]) /\ Entry(R[6], E[6])
      /\ Entry(R[7], E[7]) /\ Entry(R[8], E[8]) /\ Entry(R[9], E[9])
  BY <1>1
<1> DEFINE D(i, j) == R[3*i - 2] * R[3*j - 2] + R[3*i - 1] * R[3*j - 1] + R[3*i] * R[3*j]
<1>5. /\ D(1, 1) = R[1] * R[1] + R[2] * R[2] + R[3] * R[3]
      /\ D(2, 2) = R[4] * R[4] + R[5] * R[5] + R[6] * R[6]
      /\ D(3, 3) = R[7] * R[7] + R[8] * R[8] + R[9] * R[9]
      /\ D(1, 2) = R[1] * R[4] + R[2] * R[5] + R[3] * R[6]
      /\ D(1, 3) = R[1] * R[7] + R[2] * R[8] + R[3] * R[9]
      /\ D(2, 3) = R[4] * R[7] + R[5] * R[8] + R[6] * R[9]
      /\ D(2, 1) = R[4] * R[1] + R[5] * R[2] + R[6] * R[3]
      /\ D(3, 1) = R[7] * R[1] + R[8] * R[2] + R[9] * R[3]
      /\ D(3, 2) = R[7] * R[4] + R[8] * R[5] + R[9] * R[6]
  OBVIOUS
<1>6. D(2, 1) = D(1, 2) /\ D(3, 1) = D(1, 3) /\ D(3, 2) = D(2, 3)
  <2>1. \A k \in 1 .. 9 : R[k] \in Int
    BY <1>1 DEF Entry
  <2>2. /\ R[1] \in Int /\ R[2] \in Int /\ R[3] \in Int /\ R[4] \in Int /\ R[5] \in Int
        /\ R[6] \in Int /\ R[7] \in Int /\ R[8] \in Int /\ R[9] \in Int
    BY <2>1
  <2> QED BY <1>5, <2>2
<1> HIDE DEF D
<1>7. NearUnit(D(1, 1), Square)
  BY <1>2, <1>3, <1>5, DotTolerated
<1>8. NearUnit(D(2, 2), Square)
  BY <1>2, <1>3, <1>5, DotTolerated
<1>9. NearUnit(D(3, 3), Square)
  BY <1>2, <1>3, <1>5, DotTolerated
<1>10. NearUnit(D(1, 2), 0)
  BY <1>2, <1>3, <1>5, DotTolerated
<1>11. NearUnit(D(1, 3), 0)
  BY <1>2, <1>3, <1>5, DotTolerated
<1>12. NearUnit(D(2, 3), 0)
  BY <1>2, <1>3, <1>5, DotTolerated
<1>13. \A i, j \in 1 .. 3 : NearUnit(D(i, j), IF i = j THEN Square ELSE 0)
  BY <1>6, <1>7, <1>8, <1>9, <1>10, <1>11, <1>12
<1> QED BY <1>13 DEF Rigid, NearUnit, D, R

\* The sine and the cosine of an angle that display.sv can hold.
LEMMA SinesRoundPair ==
  ASSUME SinesAreRound, NEW a \in 0 .. TwoPi
  PROVE  RoundPair(cal_sin(a), cal_cos(a))
<1>1. \A x \in -Trig.one .. Trig.one : Sine(x)
  <2>1. Trig.one = 4096
    BY TrigFormat
  <2> QED BY <2>1, SMT DEF Sine, Upto
<1> QED BY <1>1 DEF SinesAreRound, RoundPair

(* Whatever the three angles that display.sv has led to, the matrix of     *)
(* euler_angle.sv:50 is a rotation within 1/25: its rows have length 1 and *)
(* are at right angles, although all its products are rounded and all its  *)
(* sums saturated.  Of the sines it only matters that their table is       *)
(* round.                                                                  *)
THEOREM EveryRotationIsRigid ==
  ASSUME SinesAreRound
  PROVE  SceneSpec => []RotationIsRigid
<1>1. InRange => RotationIsRigid
  <2> SUFFICES ASSUME InRange
               PROVE  RotationIsRigid
    OBVIOUS
  <2>1. angle["x"] \in 0 .. TwoPi /\ angle["y"] \in 0 .. TwoPi /\ angle["z"] \in 0 .. TwoPi
    BY DEF InRange, Axis
  <2> QED BY <2>1, SinesRoundPair, RoundIsRigid DEF RotationIsRigid, euler_angle_matrix
<1> QED BY <1>1, SceneIsDisplay, AnglesStayInRange, PTL
-----------------------------------------------------------------------------
(* The quotient.  The recursion over the weights has a value, since it     *)
(* ends above the largest number: Halved is one step of it, and after 16   *)
(* of them nothing changes.                                                *)
Taken(q, weight, n, d) == IF (q + weight) * d <= n THEN q + weight ELSE q

Halved(f, n, d, ones) ==
  [weight \in Nat \ {0} |-> IF weight > ones THEN 0 ELSE Taken(f[2 * weight], weight, n, d)]

\* Two functions that agree from k times a weight on do so, one step later,
\* from half of that on.
LEMMA HalvedAgree ==
  ASSUME NEW n \in Nat, NEW d \in Nat, NEW ones \in Nat, NEW f, NEW g, NEW k \in Nat \ {0},
         \A w \in Nat \ {0} : k * w > ones => f[w] = g[w]
  PROVE  \A w \in Nat \ {0} : (2 * k) * w > ones => Halved(f, n, d, ones)[w] = Halved(g, n, d, ones)[w]
<1> SUFFICES ASSUME NEW w \in Nat \ {0}, (2 * k) * w > ones
             PROVE  Halved(f, n, d, ones)[w] = Halved(g, n, d, ones)[w]
  OBVIOUS
<1>1. 2 * w \in Nat \ {0} /\ k * (2 * w) = (2 * k) * w
  OBVIOUS
<1>2. f[2 * w] = g[2 * w]
  BY <1>1
<1> QED BY <1>2 DEF Halved

\* Above the largest number all functions agree, so after 16 steps all do.
LEMMA HalvingEnds ==
  ASSUME NEW n \in Nat, NEW d \in Nat, NEW ones \in Nat, ones < 65536
  PROVE  \E f : f = Halved(f, n, d, ones)
<1> DEFINE H(f) == Halved(f, n, d, ones)
           Same(f, g, k) == \A w \in Nat \ {0} : k * w > ones => f[w] = g[w]
           f0 == [w \in Nat \ {0} |-> 0]
           f1 == H(f0)
           f2 == H(f1)
           f3 == H(f2)
           f4 == H(f3)
           f5 == H(f4)
           f6 == H(f5)
           f7 == H(f6)
           f8 == H(f7)
           f9 == H(f8)
           f10 == H(f9)
           f11 == H(f10)
           f12 == H(f11)
           f13 == H(f12)
           f14 == H(f13)
           f15 == H(f14)
           f16 == H(f15)
           f17 == H(f16)
<1>1. ASSUME NEW f, NEW g, NEW k \in Nat \ {0}, Same(f, g, k)
      PROVE  Same(H(f), H(g), 2 * k)
  BY <1>1, HalvedAgree
<1>2. Same(f0, f1, 1)
  BY DEF Halved
<1> HIDE DEF Same, H, f0
<1>3. Same(f1, f2, 2)
  <2>1. Same(H(f0), H(f1), 2 * 1)
    BY <1>1, <1>2
  <2> QED BY <2>1
<1>4. Same(f2, f3, 4)
  <2>1. Same(H(f1), H(f2), 2 * 2)
    BY <1>1, <1>3
  <2> QED BY <2>1
<1>5. Same(f3, f4, 8)
  <2>1. Same(H(f2), H(f3), 2 * 4)
    BY <1>1, <1>4
  <2> QED BY <2>1
<1>6. Same(f4, f5, 16)
  <2>1. Same(H(f3), H(f4), 2 * 8)
    BY <1>1, <1>5
  <2> QED BY <2>1
<1>7. Same(f5, f6, 32)
  <2>1. Same(H(f4), H(f5), 2 * 16)
    BY <1>1, <1>6
  <2> QED BY <2>1
<1>8. Same(f6, f7, 64)
  <2>1. Same(H(f5), H(f6), 2 * 32)
    BY <1>1, <1>7
  <2> QED BY <2>1
<1>9. Same(f7, f8, 128)
  <2>1. Same(H(f6), H(f7), 2 * 64)
    BY <1>1, <1>8
  <2> QED BY <2>1
<1>10. Same(f8, f9, 256)
  <2>1. Same(H(f7), H(f8), 2 * 128)
    BY <1>1, <1>9
  <2> QED BY <2>1
<1>11. Same(f9, f10, 512)
  <2>1. Same(H(f8), H(f9), 2 * 256)
    BY <1>1, <1>10
  <2> QED BY <2>1
<1>12. Same(f10, f11, 1024)
  <2>1. Same(H(f9), H(f10), 2 * 512)
    BY <1>1, <1>11
  <2> QED BY <2>1
<1>13. Same(f11, f12, 2048)
  <2>1. Same(H(f10), H(f11), 2 * 1024)
    BY <1>1, <1>12
  <2> QED BY <2>1
<1>14. Same(f12, f13, 4096)
  <2>1. Same(H(f11), H(f12), 2 * 2048)
    BY <1>1, <1>13
  <2> QED BY <2>1
<1>15. Same(f13, f14, 8192)
  <2>1. Same(H(f12), H(f13), 2 * 4096)
    BY <1>1, <1>14
  <2> QED BY <2>1
<1>16. Same(f14, f15, 16384)
  <2>1. Same(H(f13), H(f14), 2 * 8192)
    BY <1>1, <1>15
  <2> QED BY <2>1
<1>17. Same(f15, f16, 32768)
  <2>1. Same(H(f14), H(f15), 2 * 16384)
    BY <1>1, <1>16
  <2> QED BY <2>1
<1>18. Same(f16, f17, 65536)
  <2>1. Same(H(f15), H(f16), 2 * 32768)
    BY <1>1, <1>17
  <2> QED BY <2>1
<1>19. f16 = H(f16)
  <2>1. \A w \in Nat \ {0} : f16[w] = f17[w]
    BY <1>18 DEF Same
  <2>2. \A f : H(f) = [w \in Nat \ {0} |-> H(f)[w]]
    <3> SUFFICES ASSUME NEW f PROVE Halved(f, n, d, ones) = [w \in Nat \ {0} |-> Halved(f, n, d, ones)[w]]
      BY DEF H
    <3> QED BY DEF Halved
  <2>3. f16 = [w \in Nat \ {0} |-> f16[w]]
    BY <2>2
  <2>4. f17 = [w \in Nat \ {0} |-> f17[w]]
    BY <2>2
  <2> QED BY <2>1, <2>3, <2>4
<1> QED BY <1>19 DEF H

\* What is found of the quotient when all weights from w on are done.
Part(r, w, n, d, top) ==
  /\ r \in Nat
  /\ n >= top * d => r = top - w
  /\ n < top * d => r * d <= n /\ n < (r + w) * d

\* One digit more: what is left of n is less than d times its weight.
LEMMA PartTaken ==
  ASSUME NEW n \in Nat, NEW d \in Nat, NEW top \in Nat, NEW w \in Nat \ {0}, 2 * w <= top,
         NEW r, Part(r, 2 * w, n, d, top)
  PROVE  Part(Taken(r, w, n, d), w, n, d, top)
<1>0. r \in Nat
  BY DEF Part
<1>1. CASE n >= top * d
  <2>1. r = top - 2 * w
    BY <1>1 DEF Part
  <2>2. (r + w) * d <= n
    <3>1. r + w <= top
      BY <2>1
    <3>2. (top - (r + w)) * d >= 0
      <4>1. \A p, q \in Nat : p * q >= 0
        OBVIOUS
      <4> QED BY <1>0, <3>1, <4>1
    <3>3. (top - (r + w)) * d = top * d - (r + w) * d
      BY <1>0
    <3> DEFINE x == top * d
               y == (r + w) * d
    <3>4. x \in Int /\ y \in Int /\ x - y >= 0 /\ n >= x
      BY <1>0, <1>1, <3>2, <3>3
    <3> HIDE DEF x, y
    <3>5. y <= n
      BY <3>4
    <3> QED BY <3>5 DEF y
  <2>3. Taken(r, w, n, d) = r + w
    BY <2>2 DEF Taken
  <2> QED BY <1>0, <1>1, <2>1, <2>3 DEF Part
<1>2. CASE n < top * d
  <2>1. r * d <= n /\ n < (r + 2 * w) * d
    BY <1>2 DEF Part
  <2>2. (r + 2 * w) * d = ((r + w) + w) * d
    BY <1>0
  <2>3. CASE (r + w) * d <= n
    BY <1>0, <1>2, <2>1, <2>2, <2>3 DEF Part, Taken
  <2>4. CASE ~((r + w) * d <= n)
    <3>1. n < (r + w) * d
      BY <1>0, <2>4
    <3> QED BY <1>0, <1>2, <2>1, <2>4, <3>1 DEF Part, Taken
  <2> QED BY <2>3, <2>4
<1> QED BY <1>0, <1>1, <1>2

\* The recursion of LongDivision is that fixed point.
LEMMA LongDivisionHalves ==
  ASSUME NEW n, NEW d, NEW ones
  PROVE  LongDivision(n, d, ones) = (CHOOSE f : f = Halved(f, n, d, ones))[1]
BY DEF LongDivision, Halved, Taken

\* q is the quotient of n and d, or the largest number when that has no room.
IsQuotient(q, n, d, ones) ==
  /\ q \in Nat /\ q <= ones
  /\ n >= (ones + 1) * d => q = ones
  /\ n < (ones + 1) * d => q * d <= n /\ n < (q + 1) * d

\* From the highest weight down to 1, twelve digits or sixteen.
LEMMA QuotientFound ==
  ASSUME NEW n \in Nat, NEW d \in Nat, NEW ones \in {4095, 65535}
  PROVE  IsQuotient(LongDivision(n, d, ones), n, d, ones)
<1> DEFINE IsBits(f) == f = Halved(f, n, d, ones)
           bits == CHOOSE f : IsBits(f)
           top == ones + 1
           Digits(w) == Part(bits[w], w, n, d, top)
<1>1. IsBits(bits)
  <2>1. \E f : IsBits(f)
    BY HalvingEnds
  <2> QED BY <2>1
<1>2. LongDivision(n, d, ones) = bits[1]
  BY LongDivisionHalves
<1>3. \A w \in Nat \ {0} : bits[w] = IF w > ones THEN 0 ELSE Taken(bits[2 * w], w, n, d)
  <2> HIDE DEF bits
  <2> QED BY <1>1 DEF Halved
<1>4. \A w, v \in Nat \ {0} : Digits(v) /\ v = 2 * w /\ v <= top => Digits(w)
  BY <1>3, PartTaken
<1>5. Digits(top)
  BY <1>3 DEF Part
<1> HIDE DEF Digits
<1>6. Digits(4096)
  <2>1. CASE ones = 65535
    <3>1. Digits(32768)
      BY <1>4, <1>5, <2>1
    <3>2. Digits(16384)
      BY <1>4, <3>1, <2>1
    <3>3. Digits(8192)
      BY <1>4, <3>2, <2>1
    <3> QED BY <1>4, <3>3, <2>1
  <2> QED BY <1>5, <2>1
<1>t. top \in Nat /\ top >= 4096
  OBVIOUS
<1> HIDE DEF top
<1>7. Digits(2048)
  BY <1>4, <1>t, <1>6
<1>8. Digits(1024)
  BY <1>4, <1>t, <1>7
<1>9. Digits(512)
  BY <1>4, <1>t, <1>8
<1>10. Digits(256)
  BY <1>4, <1>t, <1>9
<1>11. Digits(128)
  BY <1>4, <1>t, <1>10
<1>12. Digits(64)
  BY <1>4, <1>t, <1>11
<1>13. Digits(32)
  BY <1>4, <1>t, <1>12
<1>14. Digits(16)
  BY <1>4, <1>t, <1>13
<1>15. Digits(8)
  BY <1>4, <1>t, <1>14
<1>16. Digits(4)
  BY <1>4, <1>t, <1>15
<1>17. Digits(2)
  BY <1>4, <1>t, <1>16
<1>18. Digits(1)
  BY <1>4, <1>t, <1>17
<1> DEFINE q == LongDivision(n, d, ones)
<1>19. /\ q \in Nat
       /\ n >= (ones + 1) * d => q = ones
       /\ n < (ones + 1) * d => q * d <= n /\ n < (q + 1) * d
  BY <1>2, <1>18 DEF Digits, Part, top
<1> HIDE DEF q
<1>20. ASSUME n < (ones + 1) * d
       PROVE  q <= ones
  <2>1. q * d <= n /\ n < (q + 1) * d
    BY <1>19, <1>20
  <2>2. ~(ones + 1 <= q)
    BY <1>19, <1>20, <2>1, MulLe
  <2> QED BY <1>19, <2>2
<1> QED BY <1>19, <1>20 DEF q, IsQuotient

(* The loop of fxp_div (fixedpoint_lib.sv:386) divides: for both widths of *)
(* a quotient that occur, its result is the quotient, or the largest       *)
(* number when the quotient has no room, as that by 0 has not.             *)
THEOREM LongDivisionDivides ==
  ASSUME NEW n \in Nat, NEW d \in Nat, NEW ones \in {4095, 65535}
  PROVE  LongDivision(n, d, ones) = IF n >= (ones + 1) * d THEN ones ELSE n \div d
<1> DEFINE q == LongDivision(n, d, ones)
<1>1. IsQuotient(q, n, d, ones)
  BY QuotientFound
<1> HIDE DEF q
<1>2. ASSUME n < (ones + 1) * d
      PROVE  q = n \div d
  BY <1>1, <1>2 DEF IsQuotient
<1> QED BY <1>1, <1>2 DEF q, IsQuotient

-----------------------------------------------------------------------------
LEMMA FixedFormat ==
  /\ Fixed.one = 256 /\ Fixed.most = 32767
  /\ Product(Fixed, Fixed).one = 65536 /\ Product(Fixed, Fixed).most = 2147483647
  /\ Trig.one = 4096 /\ Trig.most = 8191
  /\ Product(Fixed, Trig).one = 1048576 /\ Product(Fixed, Trig).most = 536870911
  /\ Pixel.one = 1 /\ Pixel.most = 2047
  /\ Product(Pixel, Fixed).one = 256 /\ Product(Pixel, Fixed).most = 134217727
  /\ Format(12, 8).one = 256 /\ Format(12, 8).most = 524287
<1>1. Fixed.one = 256 /\ Fixed.most = 32767
  BY SMT DEF Fixed, Format
<1>2. Trig.one = 4096 /\ Trig.most = 8191
  BY SMT DEF Trig, Format
<1>3. Pixel.one = 1 /\ Pixel.most = 2047
  BY SMT DEF Pixel, Format
<1>4. Format(12, 8).one = 256 /\ Format(12, 8).most = 524287
  BY SMT DEF Format
<1>5. Product(Fixed, Fixed).one = 65536 /\ Product(Fixed, Fixed).most = 2147483647
  BY <1>1, SMT DEF Product
<1>6. Product(Fixed, Trig).one = 1048576 /\ Product(Fixed, Trig).most = 536870911
  BY <1>1, <1>2, SMT DEF Product
<1>7. Product(Pixel, Fixed).one = 256 /\ Product(Pixel, Fixed).most = 134217727
  BY <1>1, <1>3, SMT DEF Product
<1> QED BY <1>1, <1>2, <1>3, <1>4, <1>5, <1>6, <1>7

\* The numbers of the format 8.8.
Length(x) == x \in Int /\ -32768 <= x /\ x <= 32767

\* Rounding to the nearest.
Rounds(v) == (v + 128) \div 256

LEMMA RoundsNear ==
  ASSUME NEW v \in Int
  PROVE  Rounds(v) \in Int /\ -128 <= 256 * Rounds(v) - v /\ 256 * Rounds(v) - v <= 128
BY DEF Rounds

\* A product of two lengths is rounded to the nearest, and then saturated.
LEMMA FixedProduct ==
  ASSUME NEW a, NEW b, a * b \in Int, -1073741824 <= a * b, a * b <= 1073741824
  PROVE  a ** b = Saturated(Rounds(a * b), Fixed)
<1> DEFINE v == a * b
           cut == v \div 256
           low == v % 256
<1>1. v \in Int /\ -1073741824 <= v /\ v <= 1073741824
  OBVIOUS
<1>2. a ** b = fxp_zoom(v, Product(Fixed, Fixed), Fixed)
  BY DEF **, fxp_mul
<1> HIDE DEF v
<1>3. cut \in Int /\ low \in Int /\ 0 <= low /\ low <= 255 /\ v = 256 * cut + low
  BY <1>1, SMT
<1>4. 2147483647 \div 256 = 8388607 /\ 65536 \div 256 = 256 /\ 256 < 65536
  BY SMT
<1> HIDE DEF cut, low
<1>5. fxp_zoom(v, Product(Fixed, Fixed), Fixed) =
        Saturated(IF 2 * low >= 256 /\ cut # 8388607 THEN cut + 1 ELSE cut, Fixed)
  BY FixedFormat, <1>4, SMT DEF fxp_zoom, cut, low
<1>6. cut # 8388607
  BY <1>1, <1>3
<1>7. Rounds(v) = IF 2 * low >= 256 THEN cut + 1 ELSE cut
  <2>1. CASE 2 * low >= 256
    <3>1. (v + 128) \div 256 = cut + 1
      BY <1>3, <2>1
    <3> QED BY <2>1, <3>1 DEF Rounds
  <2>2. CASE ~(2 * low >= 256)
    <3>1. (v + 128) \div 256 = cut
      BY <1>3, <2>2
    <3> QED BY <2>2, <3>1 DEF Rounds
  <2> QED BY <2>1, <2>2
<1> QED BY <1>2, <1>5, <1>6, <1>7 DEF v

\* The products by 0 and by 1 that the matrices are full of.
LEMMA TimesZeroOne ==
  ASSUME NEW x, Length(x)
  PROVE  0 ** x = 0 /\ x ** 0 = 0 /\ One ** x = x /\ x ** One = x
<1> x \in Int /\ -32768 <= x /\ x <= 32767
  BY DEF Length
<1>1. 0 * x = 0 /\ x * 0 = 0 /\ Rounds(0) = 0 /\ Saturated(0, Fixed) = 0
  BY FixedFormat DEF Rounds, Saturated
<1>2. 0 ** x = 0 /\ x ** 0 = 0
  BY <1>1, FixedProduct
<1>3. One * x = 256 * x /\ x * One = 256 * x /\ Rounds(256 * x) = x /\ Saturated(x, Fixed) = x
  BY FixedFormat DEF One, Rounds, Saturated
<1>4. One ** x = x /\ x ** One = x
  BY <1>3, FixedProduct
<1> QED BY <1>2, <1>4

\* A sum with nothing added.
LEMMA PlusZero ==
  ASSUME NEW x, Length(x)
  PROVE  fxp_add(0, x, Fixed) = x /\ fxp_add(x, 0, Fixed) = x
BY FixedFormat DEF Length, fxp_add, Saturated

\* The remainder decides about the last digit: the quotient is rounded to the
\* nearest, unless it has no room.
IsRounded(r, n, d, ones) ==
  /\ r \in Int /\ 0 <= r /\ r <= ones
  /\ n >= ones * d => r = ones
  /\ n < ones * d => -d <= 2 * (r * d - n) /\ 2 * (r * d - n) <= d

LEMMA RoundedNear ==
  ASSUME NEW n \in Nat, NEW d \in Nat \ {0}, NEW ones \in {4095, 65535}
  PROVE  IsRounded(Rounded(LongDivision(n, d, ones), n, d, ones), n, d, ones)
<1> DEFINE q == LongDivision(n, d, ones)
           r == Rounded(q, n, d, ones)
<1>0. IsQuotient(q, n, d, ones)
  BY QuotientFound
<1> HIDE DEF q
<1>1. /\ q \in Nat /\ q <= ones
      /\ n >= (ones + 1) * d => q = ones
      /\ n < (ones + 1) * d => q * d <= n /\ n < (q + 1) * d
  BY <1>0 DEF IsQuotient
<1>2. q \in Int /\ 0 <= q /\ q <= ones /\ ones \in Int
  BY <1>1
<1>3. r = IF q # ones /\ (q + 1) * d - n < n - q * d THEN q + 1 ELSE q
  BY DEF Rounded
<1> HIDE DEF r
<1>4. r \in Int /\ 0 <= r /\ r <= ones
  BY <1>2, <1>3
<1>5. (ones + 1) * d = ones * d + d /\ (q + 1) * d = q * d + d
  BY <1>2
<1> DEFINE y == ones * d
           z == q * d
<1>6. y \in Int /\ z \in Int
  BY <1>2
<1>7. n < y + d => z <= n /\ n < z + d
  BY <1>1, <1>5
<1>8. n >= y => q = ones
  <2> SUFFICES ASSUME n >= ones * d, q # ones
               PROVE  FALSE
    OBVIOUS
  <2>1. n < y + d
    BY <1>1, <1>2, <1>5, <1>6
  <2>2. n < (q + 1) * d
    BY <1>5, <1>7, <2>1
  <2>3. q + 1 <= ones /\ q + 1 \in Int
    BY <1>2
  <2>4. (q + 1) * d <= ones * d
    BY <1>2, <2>3, MulLe
  <2> QED BY <1>2, <2>2, <2>4
<1>9. n >= y => r = ones
  BY <1>3, <1>8
<1>10. ASSUME n < y
       PROVE  -d <= 2 * (r * d - n) /\ 2 * (r * d - n) <= d
  <2>1. z <= n /\ n < z + d
    BY <1>6, <1>7, <1>10
  <2>2. q # ones
    BY <1>10, <2>1 DEF y, z
  <2>3. CASE z + d - n < n - z
    <3>1. r = q + 1
      BY <1>3, <1>5, <2>2, <2>3
    <3>2. r * d = z + d
      BY <1>5, <3>1
    <3> HIDE DEF z
    <3> QED BY <1>6, <2>1, <2>3, <3>2
  <2>4. CASE ~(z + d - n < n - z)
    <3>1. r = q
      BY <1>2, <1>3, <1>5, <2>4
    <3>2. r * d = z
      BY <3>1
    <3> HIDE DEF z
    <3> QED BY <1>6, <2>1, <2>4, <3>2
  <2> QED BY <2>3, <2>4
<1>11. IsRounded(r, n, d, ones)
  BY <1>4, <1>9, <1>10 DEF IsRounded
<1> QED BY <1>11 DEF r, q

-----------------------------------------------------------------------------
(* A coordinate x divided by w, r in units of 1/256: with the sign of w in  *)
(* X, the quotient is exact to half a unit, unless it is beyond 266/256,    *)
(* where it only is no less.                                                *)
Normalized(r, a, X, W) ==
  /\ Length(r)
  /\ a # -32768 /\ -266 * W <= 256 * X /\ 256 * X <= 266 * W
       => -W <= 2 * (r * W - 256 * X) /\ 2 * (r * W - 256 * X) <= W
  /\ 256 * X > 266 * W => r >= 266
  /\ 256 * X < -266 * W => r <= -266

LEMMA DividedNear ==
  ASSUME NEW a, NEW b, Length(a), Length(b), b # 0, b # -32768
  PROVE  Normalized(fxp_div(a, Fixed, b, Fixed, Fixed), a, IF b < 0 THEN -a ELSE a, Magnitude(b))
<1> DEFINE W == Magnitude(b)
           X == IF b < 0 THEN -a ELSE a
           n == 256 * Magnitude(a)
           q == Rounded(LongDivision(n, W, 65535), n, W, 65535)
           r == fxp_div(a, Fixed, b, Fixed, Fixed)
<1>1. a \in Int /\ -32768 <= a /\ a <= 32767 /\ b \in Int /\ -32768 <= b /\ b <= 32767
  BY DEF Length
<1>2. W \in Nat \ {0} /\ X \in Int /\ n \in Nat /\ n = 256 * (IF X < 0 THEN -X ELSE X)
  BY <1>1 DEF Magnitude
<1>3. /\ AllOnes(Fixed) = 65535 /\ Least(Fixed) = -32768
      /\ 65536 \div 256 = 256 /\ 65536 \div 65536 = 1 /\ 256 * 256 = 65536
  BY FixedFormat DEF AllOnes, Least
<1>4. Quotient(a, Fixed, b, Fixed, Fixed) = IF a = -32768 THEN 65535 ELSE q
  <2>1. Magnitude(a) * 256 = n /\ Magnitude(b) * 1 = W
    BY <1>1 DEF Magnitude
  <2> HIDE DEF n, W
  <2> QED BY <1>3, <2>1, FixedFormat DEF Quotient
<1>5. IsRounded(q, n, W, 65535)
  BY <1>2, RoundedNear
<1> HIDE DEF q
<1> DEFINE Q == IF a = -32768 THEN 65535 ELSE q
<1>6. r = IF (a < 0) # (b < 0) THEN (IF Q > 32767 THEN -32768 ELSE -Q)
          ELSE IF Q > 32767 THEN 32767 ELSE IF Q < -32768 THEN -32768 ELSE Q
  BY <1>3, <1>4, FixedFormat DEF fxp_div, Saturated
<1>7. q \in Int /\ 0 <= q /\ q <= 65535
  BY <1>5 DEF IsRounded
<1>8. /\ n >= 65535 * W => q = 65535
      /\ n < 65535 * W => -W <= 2 * (q * W - n) /\ 2 * (q * W - n) <= W
  BY <1>5 DEF IsRounded
<1>9. Length(r)
  BY <1>6, <1>7 DEF Length
<1>10. CASE a = -32768
  <2>1. X < 0 => r = -32768
    BY <1>1, <1>6, <1>10
  <2>2. X >= 0 => r = 32767
    BY <1>1, <1>6, <1>10
  <2> QED BY <1>2, <1>9, <1>10, <2>1, <2>2 DEF Normalized
<1>11. CASE a # -32768
  <2>1. n <= 266 * W => q <= 266
    <3> SUFFICES ASSUME n <= 266 * W, 267 <= q
                 PROVE  FALSE
      BY <1>7
    <3>1. 267 * W <= q * W
      BY <1>2, <1>7, MulLe
    <3> DEFINE y == q * W
    <3>2. y \in Int
      BY <1>2, <1>7
    <3>3. 2 * (y - n) <= W
      BY <1>2, <1>8
    <3> HIDE DEF y, n, W
    <3> QED BY <1>2, <3>1, <3>2, <3>3 DEF y
  <2>2. n > 266 * W => q >= 266
    <3> SUFFICES ASSUME n > 266 * W, n < 65535 * W, q <= 265
                 PROVE  FALSE
      BY <1>2, <1>7, <1>8
    <3>1. q * W <= 265 * W
      BY <1>2, <1>7, MulLe
    <3> DEFINE y == q * W
    <3>2. y \in Int
      BY <1>2, <1>7
    <3>3. -W <= 2 * (y - n)
      BY <1>8
    <3> HIDE DEF y, n, W
    <3> QED BY <1>2, <3>1, <3>2, <3>3 DEF y
  <2>9. /\ X < 0 => ((a < 0) # (b < 0))
        /\ X >= 0 /\ a # 0 => ((a < 0) = (b < 0))
    <3>1. CASE b < 0
      BY <1>1, <3>1
    <3>2. CASE b >= 0
      BY <1>1, <3>2
    <3> QED BY <1>1, <3>1, <3>2
  <2>10. r = IF (a < 0) # (b < 0) THEN (IF q > 32767 THEN -32768 ELSE -q)
            ELSE IF q > 32767 THEN 32767 ELSE q
    <3>1. Q = q /\ ~(q < -32768)
      BY <1>7, <1>11
    <3> HIDE DEF Q, r
    <3> QED BY <1>6, <3>1
  <2>11. n = IF X < 0 THEN -256 * X ELSE 256 * X
    BY <1>2
  <2> HIDE DEF r, X, n
  <2>3. X < 0 => n = -256 * X /\ r = IF q > 32767 THEN -32768 ELSE -q
    BY <1>2, <2>9, <2>10, <2>11
  <2>4. X >= 0 => n = 256 * X /\ (a # 0 => r = IF q > 32767 THEN 32767 ELSE q)
    BY <1>2, <2>9, <2>10, <2>11
  <2> USE DEF r, X, n
  <2>5. a = 0 => X = 0 /\ n = 0 /\ (q = 0 => r = 0)
    <3>1. X + a = 0 \/ X = a
      BY <1>1
    <3>2. X = 0 => n = 0
      BY <1>2
    <3>3. q <= 32767 => r + q = 0 \/ r = q
      <4>1. -q + q = 0
        BY <1>7
      <4> HIDE DEF r
      <4> QED BY <1>7, <2>10, <4>1
    <3>4. r \in Int
      BY <1>9 DEF Length
    <3> HIDE DEF X, n, r
    <3> QED BY <1>2, <1>7, <3>1, <3>2, <3>3, <3>4
  <2>6. ASSUME -266 * W <= 256 * X, 256 * X <= 266 * W
        PROVE  -W <= 2 * (r * W - 256 * X) /\ 2 * (r * W - 256 * X) <= W
    <3>1. n <= 266 * W
      BY <1>2, <2>6
    <3>2. q <= 266 /\ n < 65535 * W
      BY <1>2, <2>1, <3>1
    <3>3. CASE a = 0
      <4>1. q = 0
        <5> SUFFICES ASSUME 1 <= q
                     PROVE  FALSE
          BY <1>7
        <5>1. 1 * W <= q * W
          BY <1>2, <1>7, MulLe
        <5> QED BY <1>2, <1>7, <1>8, <2>5, <3>2, <3>3, <5>1
      <4> QED BY <1>2, <2>5, <3>3, <4>1
    <3>4. CASE a # 0 /\ X >= 0
      BY <1>2, <1>7, <1>8, <2>4, <3>2, <3>4
    <3>5. CASE X < 0
      <4>1. r = -q /\ r * W = -(q * W)
        BY <1>2, <1>7, <2>3, <3>2, <3>5
      <4> QED BY <1>2, <1>7, <1>8, <2>3, <3>2, <3>5, <4>1
    <3> QED BY <1>2, <3>3, <3>4, <3>5
  <2>7. ASSUME 256 * X > 266 * W
        PROVE  r >= 266
    <3>1. X > 0 /\ n > 266 * W /\ a # 0
      BY <1>2, <2>4, <2>5, <2>7
    <3> QED BY <1>2, <1>7, <2>2, <2>4, <3>1
  <2>8. ASSUME 256 * X < -266 * W
        PROVE  r <= -266
    <3>1. X < 0 /\ n > 266 * W
      BY <1>2, <2>3, <2>8
    <3> QED BY <1>2, <1>7, <2>2, <2>3, <3>1
  <2> QED BY <1>9, <2>6, <2>7, <2>8 DEF Normalized
<1> QED BY <1>10, <1>11

(* The viewport: the pixel of a quotient r is exact to half a pixel, and    *)
(* off the screen when the quotient is beyond 266/256.                      *)
Displayed(px, r, extent) ==
  /\ px \in Int
  /\ -266 <= r /\ r <= 266 =>
       \E m \in Int : /\ px = m % 4096
                     /\ -256 <= 512 * m - extent * (r + 256)
                     /\ 512 * m - extent * (r + 256) <= 256
  /\ r >= 266 \/ r <= -266 => px > extent

LEMMA ViewportNear ==
  ASSUME NEW c, NEW w, NEW extent \in {640, 480}, NEW r, Length(r), r = fxp_div(c, Fixed, w, Fixed, Fixed)
  PROVE  Displayed(Viewport(c, w, extent), r, extent)
<1> DEFINE s == fxp_add(r, One, Fixed)
           z == fxp_mul(extent, Pixel, s, Fixed, Format(12, 8))
           m == fxp_div(z, Format(12, 8), 2 * One, Fixed, Pixel)
<1>1. Viewport(c, w, extent) = m % 4096
  BY DEF Viewport
<1>2. r \in Int /\ -32768 <= r /\ r <= 32767
  BY DEF Length
<1>3. s = IF r > 32511 THEN 32767 ELSE r + 256
  BY <1>2, FixedFormat DEF fxp_add, Saturated, One
<1>4. s \in Int /\ -32512 <= s /\ s <= 32767
  BY <1>2, <1>3
<1> HIDE DEF s
<1>5. z = Saturated(extent * s, Format(12, 8))
  <2>1. 256 \div 256 = 1 /\ (extent * s) * 1 = extent * s
    BY <1>4
  <2> QED BY <2>1, FixedFormat DEF fxp_mul, fxp_zoom
<1>6. z = IF extent * s > 524287 THEN 524287 ELSE IF extent * s < -524288 THEN -524288 ELSE extent * s
  BY <1>5, FixedFormat DEF Saturated
<1>7. z \in Int /\ -524288 <= z /\ z <= 524287
  BY <1>4, <1>6
<1> HIDE DEF z
<1> DEFINE n == Magnitude(z)
           q == Rounded(LongDivision(n, 512, 4095), n, 512, 4095)
<1>8. n \in Nat /\ n = (IF z < 0 THEN -z ELSE z) /\ n < 4095 * 512
  BY <1>7 DEF Magnitude
<1>9. IsRounded(q, n, 512, 4095)
  BY <1>8, RoundedNear
<1>10. q \in Int /\ 0 <= q /\ -256 <= 512 * q - n /\ 512 * q - n <= 256
  <2> HIDE DEF q, n
  <2>1. q \in Int /\ 0 <= q /\ -512 <= 2 * (q * 512 - n) /\ 2 * (q * 512 - n) <= 512
    BY <1>8, <1>9 DEF IsRounded
  <2> QED BY <1>8, <2>1
<1>11. Quotient(z, Format(12, 8), 2 * One, Fixed, Pixel) = IF z = -524288 THEN 4095 ELSE q
  <2>1. /\ AllOnes(Pixel) = 4095 /\ Least(Format(12, 8)) = -524288 /\ Least(Fixed) = -32768
        /\ 1 * 256 = 256 /\ 256 \div 256 = 1 /\ 2 * One = 512
    BY FixedFormat DEF AllOnes, Least, One
  <2>2. Magnitude(512) * 1 = 512 /\ n * 1 = n
    BY <1>8 DEF Magnitude
  <2>3. 512 # -32768
    OBVIOUS
  <2> HIDE DEF n
  <2> QED BY <2>1, <2>2, <2>3, FixedFormat DEF Quotient, n
<1> HIDE DEF q
<1>12. q <= 1024
  <2> HIDE DEF n
  <2> QED BY <1>7, <1>8, <1>10
<1>13. m = IF (z < 0) # (2 * One < 0)
             THEN (IF Quotient(z, Format(12, 8), 2 * One, Fixed, Pixel) > 2047 THEN -2048
                   ELSE -Quotient(z, Format(12, 8), 2 * One, Fixed, Pixel))
             ELSE Saturated(Quotient(z, Format(12, 8), 2 * One, Fixed, Pixel), Pixel)
  <2>1. Pixel.most = 2047 /\ Least(Pixel) = -2048
    BY FixedFormat DEF Least
  <2> QED BY <2>1 DEF fxp_div
<1> HIDE DEF m, n
<1>14. ~(2 * One < 0)
  BY DEF One
<1>15. ASSUME z >= 0
       PROVE  m \in Int /\ -256 <= 512 * m - z /\ 512 * m - z <= 256
  <2>1. Saturated(q, Pixel) = q
    BY <1>10, <1>12, FixedFormat DEF Saturated
  <2>2. m = q
    BY <1>7, <1>11, <1>13, <1>14, <1>15, <2>1
  <2> QED BY <1>7, <1>8, <1>10, <1>15, <2>2
<1>16. ASSUME z < 0, z # -524288
       PROVE  m \in Int /\ -256 <= 512 * m - z /\ 512 * m - z <= 256
  <2>1. m = -q
    BY <1>7, <1>10, <1>11, <1>12, <1>13, <1>14, <1>16
  <2> QED BY <1>7, <1>8, <1>10, <1>16, <2>1
<1>17. z = -524288 => m = -2048
  <2> SUFFICES ASSUME z = -524288
               PROVE  m = -2048
    OBVIOUS
  <2> QED BY <1>11, <1>13, <1>14
<1>18. ASSUME -266 <= r, r <= 266
       PROVE  \E p \in Int : /\ m % 4096 = p % 4096
                             /\ -256 <= 512 * p - extent * (r + 256)
                             /\ 512 * p - extent * (r + 256) <= 256
  <2>1. s = r + 256
    BY <1>2, <1>3, <1>18
  <2>2. z = extent * s
    <3>1. CASE extent = 640
      BY <1>2, <1>6, <1>18, <2>1, <3>1
    <3>2. CASE extent = 480
      BY <1>2, <1>6, <1>18, <2>1, <3>2
    <3> QED BY <3>1, <3>2
  <2>3. z # -524288
    <3>1. CASE extent = 640
      BY <1>2, <1>18, <2>1, <2>2, <3>1
    <3>2. CASE extent = 480
      BY <1>2, <1>18, <2>1, <2>2, <3>2
    <3> QED BY <3>1, <3>2
  <2>4. m \in Int /\ -256 <= 512 * m - z /\ 512 * m - z <= 256
    BY <1>7, <1>15, <1>16, <2>3
  <2> QED BY <2>1, <2>2, <2>4
<1>19. ASSUME r >= 266
       PROVE  m % 4096 > extent
  <2>1. s >= 522
    BY <1>2, <1>3, <1>19
  <2>2. z >= extent * 522
    <3>1. CASE extent = 640
      BY <1>4, <1>6, <2>1, <3>1
    <3>2. CASE extent = 480
      BY <1>4, <1>6, <2>1, <3>2
    <3> QED BY <3>1, <3>2
  <2>3. m \in Int /\ -256 <= 512 * m - z /\ 512 * m - z <= 256
    <3>1. z >= 0
      BY <1>7, <2>2
    <3> QED BY <1>15, <3>1
  <2>4. m > extent /\ m <= 1024
    <3>1. CASE extent = 640
      BY <1>7, <2>2, <2>3, <3>1
    <3>2. CASE extent = 480
      BY <1>7, <2>2, <2>3, <3>2
    <3> QED BY <3>1, <3>2
  <2> QED BY <2>3, <2>4
<1>20. ASSUME r <= -266
       PROVE  m % 4096 > extent
  <2>1. s <= -10
    BY <1>2, <1>3, <1>20
  <2>2. z <= -4800
    <3>1. CASE extent = 640
      BY <1>4, <1>6, <2>1, <3>1
    <3>2. CASE extent = 480
      BY <1>4, <1>6, <2>1, <3>2
    <3> QED BY <3>1, <3>2
  <2>3. m \in Int /\ -2048 <= m /\ m <= -9
    <3>1. CASE z = -524288
      BY <1>17, <3>1
    <3>2. CASE z # -524288
      BY <1>7, <1>16, <2>2, <3>2
    <3> QED BY <3>1, <3>2
  <2>4. m % 4096 >= 2048
    BY <2>3
  <2> QED BY <2>3, <2>4
<1>21. m % 4096 \in Int
  BY <1>7, <1>15, <1>16, <1>17
<1>22. Displayed(m % 4096, r, extent)
  BY <1>18, <1>19, <1>20, <1>21 DEF Displayed
<1> QED BY <1>1, <1>22

-----------------------------------------------------------------------------
\* X is the coordinate shift to a unit, or both are far to the same side.
SameSide(X, shift) == \/ -1 <= X - shift /\ X - shift <= 1
                      \/ X >= 31840 /\ shift >= 31840
                      \/ X <= -31840 /\ shift <= -31840

\* What PlacedExactly says of one of the two directions.
OnScreenAt(px, num, den, extent) ==
  /\ ~(px > extent) => At(px, num, den)
  /\ Within(num, den, extent) => ~(px > extent)

\* The two errors, of the quotient and of the viewport, make less than two
\* pixels: |k - e/2 (W + shift)| <= 2 W for the pixel k / W.
LEMMA PlacedOnAxis ==
  ASSUME NEW extent \in {640, 480}, NEW W \in Int, 512 <= W, W <= 30591,
         NEW X \in Int, NEW shift \in Int, SameSide(X, shift),
         NEW a, a = X \/ a = -X, NEW r, NEW px,
         Normalized(r, a, X, W), Displayed(px, r, extent)
  PROVE  OnScreenAt(px, extent * (W + shift), 2 * W, extent)
<1>0. px \in Int
  BY DEF Displayed
<1>1. CASE -266 * W <= 256 * X /\ 256 * X <= 266 * W
  <2>1. -31840 < X /\ X < 31840
    BY <1>1
  <2>2. a # -32768
    BY <2>1
  <2>3. -W <= 2 * (r * W - 256 * X) /\ 2 * (r * W - 256 * X) <= W /\ r \in Int
    BY <1>1, <2>2 DEF Normalized, Length
  <2>4. -266 <= r /\ r <= 266
    <3>1. ~(267 <= r)
      <4> SUFFICES ASSUME 267 <= r PROVE FALSE
        OBVIOUS
      <4>1. 267 * W <= r * W
        BY <2>3, MulLe
      <4> DEFINE y == r * W
      <4>2. y \in Int
        BY <2>3
      <4> HIDE DEF y
      <4> QED BY <1>1, <2>3, <4>1, <4>2 DEF y
    <3>2. ~(r <= -267)
      <4> SUFFICES ASSUME r <= -267 PROVE FALSE
        OBVIOUS
      <4>1. r * W <= -267 * W
        BY <2>3, MulLe
      <4> DEFINE y == r * W
      <4>2. y \in Int
        BY <2>3
      <4> HIDE DEF y
      <4> QED BY <1>1, <2>3, <4>1, <4>2 DEF y
    <3> QED BY <2>3, <3>1, <3>2
  <2>5. PICK m \in Int : /\ px = m % 4096
                         /\ -256 <= 512 * m - extent * (r + 256)
                         /\ 512 * m - extent * (r + 256) <= 256
    BY <2>4 DEF Displayed
  <2>6. -1 <= X - shift /\ X - shift <= 1
    BY <2>1 DEF SameSide
  <2> DEFINE y == r * W
             k == m * W
  <2>7. y \in Int /\ k \in Int
    BY <2>3
  <2>8. -256 * W <= 512 * k - extent * (y + 256 * W) /\ 512 * k - extent * (y + 256 * W) <= 256 * W
    <3> DEFINE e == 512 * m - extent * (r + 256)
    <3>1. e \in Int /\ -256 <= e /\ e <= 256
      BY <2>3, <2>5
    <3> HIDE DEF e
    <3>2. -256 * W <= e * W /\ e * W <= 256 * W
      BY <3>1, MulLe
    <3>3. CASE extent = 640
      <4>1. e * W = 512 * k - 640 * (y + 256 * W)
        BY <2>3, <3>3 DEF e
      <4> QED BY <3>2, <3>3, <4>1
    <3>4. CASE extent = 480
      <4>1. e * W = 512 * k - 480 * (y + 256 * W)
        BY <2>3, <3>4 DEF e
      <4> QED BY <3>2, <3>4, <4>1
    <3> QED BY <3>3, <3>4
  <2>9. -4 * W <= 2 * k - extent * (W + shift) /\ 2 * k - extent * (W + shift) <= 4 * W
    <3> HIDE DEF k, y
    <3>1. -W <= 2 * (y - 256 * X) /\ 2 * (y - 256 * X) <= W
      BY <2>3 DEF y
    <3>2. CASE extent = 640
      BY <2>6, <2>7, <2>8, <3>1, <3>2
    <3>3. CASE extent = 480
      BY <2>6, <2>7, <2>8, <3>1, <3>3
    <3> QED BY <3>2, <3>3
  <2>10. -140 <= m /\ m <= 700
    <3>1. CASE extent = 640
      BY <2>3, <2>4, <2>5, <3>1
    <3>2. CASE extent = 480
      BY <2>3, <2>4, <2>5, <3>2
    <3> QED BY <3>1, <3>2
  <2>11. px = IF m >= 0 THEN m ELSE m + 4096
    BY <2>5, <2>10
  <2>12. px <= extent => At(px, extent * (W + shift), 2 * W)
    <3> SUFFICES ASSUME px <= extent
                 PROVE  At(px, extent * (W + shift), 2 * W)
      OBVIOUS
    <3>1. px = m
      BY <2>10, <2>11
    <3>2. px * (2 * W) = 2 * k
      BY <3>1
    <3> QED BY <2>7, <2>9, <3>2 DEF At, Tolerance, Magnitude
  <2>13. Within(extent * (W + shift), 2 * W, extent) => px <= extent
    <3> DEFINE num == extent * (W + shift)
    <3> SUFFICES ASSUME Within(num, 2 * W, extent)
                 PROVE  px <= extent
      OBVIOUS
    <3>1. num \in Int /\ (extent - 2) * (2 * W) = 2 * (extent * W) - 4 * W /\ extent * W \in Int
      OBVIOUS
    <3>2. 4 * W <= num /\ num <= 2 * (extent * W) - 4 * W
      BY <3>1 DEF Within, Tolerance
    <3>3. 0 <= k /\ k <= extent * W
      <4> DEFINE f == extent * W
      <4> HIDE DEF num, k, f
      <4> QED BY <2>7, <2>9, <3>1, <3>2 DEF num, f
    <3>4. ~(m <= -1)
      <4> SUFFICES ASSUME m <= -1 PROVE FALSE
        OBVIOUS
      <4>1. m * W <= -1 * W
        BY MulLe
      <4> QED BY <3>3, <4>1
    <3>5. ~(extent + 1 <= m)
      <4> SUFFICES ASSUME extent + 1 <= m PROVE FALSE
        OBVIOUS
      <4>1. (extent + 1) * W <= m * W
        BY MulLe
      <4>2. (extent + 1) * W = extent * W + W
        OBVIOUS
      <4> QED BY <2>7, <3>1, <3>3, <4>1, <4>2
    <3> QED BY <2>11, <3>4, <3>5
  <2> QED BY <1>0, <2>12, <2>13 DEF OnScreenAt
<1>2. CASE ~(-266 * W <= 256 * X /\ 256 * X <= 266 * W)
  <2>1. r >= 266 \/ r <= -266
    BY <1>2 DEF Normalized
  <2>2. px > extent
    BY <2>1 DEF Displayed
  <2>3. shift > W \/ shift < -W
    BY <1>2 DEF SameSide
  <2>4. ~Within(extent * (W + shift), 2 * W, extent)
    <3>1. CASE extent = 640
      BY <2>3, <3>1 DEF Within, Tolerance
    <3>2. CASE extent = 480
      BY <2>3, <3>2 DEF Within, Tolerance
    <3> QED BY <3>1, <3>2
  <2> QED BY <1>0, <2>2, <2>4 DEF OnScreenAt
<1> QED BY <1>1, <1>2

\* A coordinate after the matrices, and where it belongs.
LEMMA ProductOfLength ==
  ASSUME NEW k \in {464, 618}, NEW t, Length(t)
  PROVE  k ** t = Saturated(Rounds(k * t), Fixed)
<1>1. t \in Int /\ -32768 <= t /\ t <= 32767
  BY DEF Length
<1>2. k * t \in Int /\ -1073741824 <= k * t /\ k * t <= 1073741824
  <2>1. CASE k = 464
    BY <1>1, <2>1
  <2>2. CASE k = 618
    BY <1>1, <2>2
  <2> QED BY <2>1, <2>2
<1> QED BY <1>2, FixedProduct

\* Two products and a sum that saturates.
LEMMA CoordinateNear ==
  ASSUME NEW k \in {464, 618}, NEW t, Length(t), NEW v \in {-One, One},
         NEW x, x = fxp_add((k ** scale) ** v, k ** t, Fixed)
  PROVE  /\ Length(k ** scale) /\ Length((k ** scale) ** v) /\ Length(k ** t) /\ Length(x)
         /\ SameSide(x, (k * ((scale * v) \div One + t)) \div One)
<1> DEFINE c == IF k = 464 THEN 696 ELSE 927
           e == IF v = One THEN c ELSE -c
           p == k ** t
           f == (k * t) \div 256
           shift == (k * ((scale * v) \div One + t)) \div One
<1>1. t \in Int /\ -32768 <= t /\ t <= 32767
  BY DEF Length
<1>2. k ** scale = c
  <2>1. CASE k = 464
    <3>1. 464 * 384 = 178176 /\ Rounds(178176) = 696 /\ Saturated(696, Fixed) = 696
      BY FixedFormat DEF Rounds, Saturated
    <3> QED BY <2>1, <3>1, FixedProduct DEF scale
  <2>2. CASE k = 618
    <3>1. 618 * 384 = 237312 /\ Rounds(237312) = 927 /\ Saturated(927, Fixed) = 927
      BY FixedFormat DEF Rounds, Saturated
    <3> QED BY <2>2, <3>1, FixedProduct DEF scale
  <2> QED BY <2>1, <2>2
<1>3. c ** v = e
  <2>1. c \in Int /\ 0 <= c /\ c <= 927
    OBVIOUS
  <2> HIDE DEF c
  <2>2. CASE v = One
    BY <2>1, <2>2, TimesZeroOne DEF Length
  <2>3. CASE v = -One
    <3>1. c * v = -256 * c /\ v # One
      BY <2>1, <2>3 DEF One
    <3>2. Rounds(-256 * c) = -c
      BY <2>1 DEF Rounds
    <3>3. Saturated(-c, Fixed) = -c
      BY <2>1, FixedFormat DEF Saturated
    <3>4. c ** v = -c
      BY <2>1, <3>1, <3>2, <3>3, FixedProduct
    <3> QED BY <3>1, <3>4
  <2> QED BY <2>2, <2>3
<1>4. p = Saturated(Rounds(k * t), Fixed)
  BY ProductOfLength
<1>5. f \in Int /\ (Rounds(k * t) = f \/ Rounds(k * t) = f + 1)
  <2>1. k * t \in Int
    BY <1>1
  <2> QED BY <2>1 DEF Rounds
<1>6. shift = e + f
  <2>1. (scale * v) \div One = IF v = One THEN 384 ELSE -384
    BY DEF scale, One
  <2>2. CASE k = 464
    BY <1>1, <2>1, <2>2 DEF One
  <2>3. CASE k = 618
    BY <1>1, <2>1, <2>3 DEF One
  <2> QED BY <2>2, <2>3
<1>7. x = Saturated(e + p, Fixed)
  BY <1>2, <1>3 DEF fxp_add
<1>8. e \in Int /\ -927 <= e /\ e <= 927 /\ c \in Int /\ 0 <= c /\ c <= 927
  OBVIOUS
<1> HIDE DEF e, f, p, c, shift
<1>9. p \in Int /\ -32768 <= p /\ p <= 32767
  BY <1>4, <1>5, FixedFormat DEF Saturated
<1>10. x \in Int /\ -32768 <= x /\ x <= 32767
  BY <1>7, <1>8, <1>9, FixedFormat DEF Saturated
<1>11. SameSide(x, shift)
  BY <1>4, <1>5, <1>6, <1>7, <1>8, <1>9, FixedFormat DEF Saturated, SameSide
<1> QED BY <1>2, <1>3, <1>8, <1>9, <1>10, <1>11 DEF p, shift, Length

-----------------------------------------------------------------------------
\* The matrices.  A saturated product is a length again.
LEMMA ProductLength ==
  ASSUME NEW a, NEW b, Length(a), Length(b)
  PROVE  Length(a ** b)
<1>1. Upto(a, 32768) /\ Upto(b, 32768)
  BY DEF Length, Upto
<1>2. Upto(a * b, 32768 * 32768)
  BY <1>1, 32768 \in Nat, MulUpto
<1> DEFINE v == a * b
<1>3. v \in Int /\ -1073741824 <= v /\ v <= 1073741824
  BY <1>2 DEF Upto
<1>4. a ** b = Saturated(Rounds(v), Fixed)
  BY <1>3, FixedProduct
<1> HIDE DEF v
<1>5. Rounds(v) \in Int
  BY <1>3, RoundsNear
<1> QED BY <1>4, <1>5, FixedFormat DEF Saturated, Length

LEMMA DotOf ==
  ASSUME NEW a1, NEW a2, NEW a3, NEW a4, NEW b1, NEW b2, NEW b3, NEW b4
  PROVE  dot_product(<<a1, a2, a3, a4>>, <<b1, b2, b3, b4>>) =
           fxp_add(fxp_add(fxp_add(a1 ** b1, a2 ** b2, Fixed), a3 ** b3, Fixed), a4 ** b4, Fixed)
BY DEF dot_product

\* What a row with one entry and its last one makes of a column.
LEMMA SparseDots ==
  ASSUME NEW a, NEW d, NEW b1, NEW b2, NEW b3, NEW b4,
         Length(a), Length(d), Length(b1), Length(b2), Length(b3), Length(b4)
  PROVE  LET b == <<b1, b2, b3, b4>>
         IN  /\ dot_product(<<a, 0, 0, d>>, b) = fxp_add(a ** b1, d ** b4, Fixed)
             /\ dot_product(<<0, a, 0, d>>, b) = fxp_add(a ** b2, d ** b4, Fixed)
             /\ dot_product(<<0, 0, a, d>>, b) = fxp_add(a ** b3, d ** b4, Fixed)
<1>1. Length(0) /\ Length(a ** b1) /\ Length(a ** b2) /\ Length(a ** b3)
  BY ProductLength DEF Length
<1>2. 0 ** b1 = 0 /\ 0 ** b2 = 0 /\ 0 ** b3 = 0
  BY TimesZeroOne
<1>3. \A y : Length(y) => fxp_add(0, y, Fixed) = y /\ fxp_add(y, 0, Fixed) = y
  BY PlusZero
<1> QED BY <1>1, <1>2, <1>3, DotOf

\* The rows that the projection uses.
LEMMA RowOfProduct ==
  ASSUME NEW A, NEW B, NEW i \in {1, 2, 4}
  PROVE  matrix_multiplier(A, B)[i] =
           << dot_product(A[i], Column(B, 1)), dot_product(A[i], Column(B, 2)),
              dot_product(A[i], Column(B, 3)), dot_product(A[i], Column(B, 4)) >>
BY DEF matrix_multiplier

\* 2.414 / 1.333
LEMMA WideAngle == fxp_div(inv_tan, Fixed, aspect_ratio, Fixed, Fixed) = 464
<1> DEFINE q == Rounded(LongDivision(158208, 341, 65535), 158208, 341, 65535)
<1>1. IsRounded(q, 158208, 341, 65535)
  BY RoundedNear
<1> HIDE DEF q
<1>2. q \in Int /\ -341 <= 2 * (q * 341 - 158208) /\ 2 * (q * 341 - 158208) <= 341
  BY <1>1 DEF IsRounded
<1>3. q = 464
  BY <1>2
<1>4. Quotient(618, Fixed, 341, Fixed, Fixed) = q
  <2>1. /\ AllOnes(Fixed) = 65535 /\ Least(Fixed) = -32768
        /\ 65536 \div 256 = 256 /\ 65536 \div 65536 = 1 /\ 256 * 256 = 65536
        /\ Magnitude(618) * 256 = 158208 /\ Magnitude(341) * 1 = 341
    BY FixedFormat DEF AllOnes, Least, Magnitude
  <2>2. 618 # -32768 /\ 341 # -32768
    OBVIOUS
  <2> QED BY <2>1, <2>2, FixedFormat DEF Quotient, q
<1>5. fxp_div(618, Fixed, 341, Fixed, Fixed) = Saturated(464, Fixed)
  BY <1>3, <1>4 DEF fxp_div
<1> QED BY <1>5, FixedFormat DEF Saturated, inv_tan, aspect_ratio

LEMMA ViewColumns ==
  /\ Column(view_matrix, 1) = <<One, 0, 0, 0>> /\ Column(view_matrix, 2) = <<0, One, 0, 0>>
  /\ Column(view_matrix, 3) = <<0, 0, One, 0>> /\ Column(view_matrix, 4) = <<0, 0, -z_pos, One>>
<1>1. fxp_sub(0, z_pos, Fixed) = -z_pos
  BY FixedFormat DEF fxp_sub, Saturated, z_pos
<1> QED BY <1>1 DEF Column, view_matrix

\* A row or a column: named, so that the facts about them are found.
Vec(a, b, c, d) == <<a, b, c, d>>

LEMMA VecDots ==
  ASSUME NEW a, NEW d, NEW b1, NEW b2, NEW b3, NEW b4,
         Length(a), Length(d), Length(b1), Length(b2), Length(b3), Length(b4)
  PROVE  /\ dot_product(Vec(a, 0, 0, d), Vec(b1, b2, b3, b4)) = fxp_add(a ** b1, d ** b4, Fixed)
         /\ dot_product(Vec(0, a, 0, d), Vec(b1, b2, b3, b4)) = fxp_add(a ** b2, d ** b4, Fixed)
         /\ dot_product(Vec(0, 0, a, d), Vec(b1, b2, b3, b4)) = fxp_add(a ** b3, d ** b4, Fixed)
BY SparseDots DEF Vec

LEMMA UnitDots ==
  ASSUME NEW a, NEW d, NEW c, Length(a), Length(d), Length(c)
  PROVE  /\ dot_product(Vec(a, 0, 0, d), Vec(c, 0, 0, 0)) = a ** c
         /\ dot_product(Vec(a, 0, 0, d), Vec(0, c, 0, 0)) = 0
         /\ dot_product(Vec(a, 0, 0, d), Vec(0, 0, c, 0)) = 0
         /\ dot_product(Vec(0, a, 0, d), Vec(c, 0, 0, 0)) = 0
         /\ dot_product(Vec(0, a, 0, d), Vec(0, c, 0, 0)) = a ** c
         /\ dot_product(Vec(0, a, 0, d), Vec(0, 0, c, 0)) = 0
         /\ dot_product(Vec(0, 0, a, d), Vec(c, 0, 0, 0)) = 0
         /\ dot_product(Vec(0, 0, a, d), Vec(0, c, 0, 0)) = 0
         /\ dot_product(Vec(0, 0, a, d), Vec(0, 0, c, 0)) = a ** c
<1>1. Length(0) /\ Length(a ** c)
  BY ProductLength DEF Length
<1>2. a ** 0 = 0 /\ d ** 0 = 0
  BY TimesZeroOne
<1>3. fxp_add(0, 0, Fixed) = 0 /\ fxp_add(a ** c, 0, Fixed) = a ** c
  BY <1>1, PlusZero
<1>4. /\ dot_product(Vec(a, 0, 0, d), Vec(c, 0, 0, 0)) = fxp_add(a ** c, d ** 0, Fixed)
      /\ dot_product(Vec(0, a, 0, d), Vec(c, 0, 0, 0)) = fxp_add(a ** 0, d ** 0, Fixed)
      /\ dot_product(Vec(0, 0, a, d), Vec(c, 0, 0, 0)) = fxp_add(a ** 0, d ** 0, Fixed)
  BY <1>1, VecDots
<1>5. /\ dot_product(Vec(a, 0, 0, d), Vec(0, c, 0, 0)) = fxp_add(a ** 0, d ** 0, Fixed)
      /\ dot_product(Vec(0, a, 0, d), Vec(0, c, 0, 0)) = fxp_add(a ** c, d ** 0, Fixed)
      /\ dot_product(Vec(0, 0, a, d), Vec(0, c, 0, 0)) = fxp_add(a ** 0, d ** 0, Fixed)
  BY <1>1, VecDots
<1>6. /\ dot_product(Vec(a, 0, 0, d), Vec(0, 0, c, 0)) = fxp_add(a ** 0, d ** 0, Fixed)
      /\ dot_product(Vec(0, a, 0, d), Vec(0, 0, c, 0)) = fxp_add(a ** 0, d ** 0, Fixed)
      /\ dot_product(Vec(0, 0, a, d), Vec(0, 0, c, 0)) = fxp_add(a ** c, d ** 0, Fixed)
  BY <1>1, VecDots
<1> QED BY <1>2, <1>3, <1>4, <1>5, <1>6

\* The camera: x and y are scaled, and w is the distance from z_pos.
LEMMA CameraRows ==
  /\ camera[1] = <<464, 0, 0, 0>> /\ camera[2] = <<0, 618, 0, 0>>
  /\ camera[4] = <<0, 0, One, -z_pos>>
<1>1. /\ projection_matrix[1] = <<464, 0, 0, 0>>
      /\ projection_matrix[2] = <<0, 618, 0, 0>>
      /\ projection_matrix[4] = <<0, 0, One, 0>>
  BY WideAngle DEF projection_matrix, inv_tan
<1> DEFINE back == -z_pos
           Row(A) == << dot_product(A, Vec(One, 0, 0, 0)), dot_product(A, Vec(0, One, 0, 0)),
                        dot_product(A, Vec(0, 0, One, 0)), dot_product(A, Vec(0, 0, back, One)) >>
<1>2. camera[1] = Row(projection_matrix[1])
  BY RowOfProduct, ViewColumns DEF camera, Vec
<1>3. camera[2] = Row(projection_matrix[2])
  BY RowOfProduct, ViewColumns DEF camera, Vec
<1>4. camera[4] = Row(projection_matrix[4])
  BY RowOfProduct, ViewColumns DEF camera, Vec
<1> DEFINE none == 0
           wide == 464
           high == 618
<1>5. Length(none) /\ Length(One) /\ Length(back) /\ Length(wide) /\ Length(high) /\ Length(0)
  BY DEF Length, One, z_pos
<1> HIDE DEF back, none, wide, high
<1>6. /\ wide ** One = wide /\ high ** One = high /\ One ** One = One /\ wide ** 0 = 0
      /\ high ** 0 = 0 /\ none ** One = 0 /\ One ** back = back
  <2>1. 0 ** One = 0
    BY <1>5, TimesZeroOne
  <2> QED BY <1>5, <2>1, TimesZeroOne DEF none
<1>7. fxp_add(0, 0, Fixed) = 0 /\ fxp_add(back, 0, Fixed) = back
  BY <1>5, PlusZero
<1>8. /\ dot_product(Vec(wide, 0, 0, none), Vec(0, 0, back, One)) = fxp_add(wide ** 0, none ** One, Fixed)
      /\ dot_product(Vec(0, high, 0, none), Vec(0, 0, back, One)) = fxp_add(high ** 0, none ** One, Fixed)
      /\ dot_product(Vec(0, 0, One, none), Vec(0, 0, back, One)) = fxp_add(One ** back, none ** One, Fixed)
  BY <1>5, VecDots
<1>9. /\ dot_product(Vec(wide, 0, 0, none), Vec(One, 0, 0, 0)) = wide
      /\ dot_product(Vec(wide, 0, 0, none), Vec(0, One, 0, 0)) = 0
      /\ dot_product(Vec(wide, 0, 0, none), Vec(0, 0, One, 0)) = 0
      /\ dot_product(Vec(wide, 0, 0, none), Vec(0, 0, back, One)) = 0
  BY <1>5, <1>6, <1>7, <1>8, UnitDots
<1>10. /\ dot_product(Vec(0, high, 0, none), Vec(One, 0, 0, 0)) = 0
       /\ dot_product(Vec(0, high, 0, none), Vec(0, One, 0, 0)) = high
       /\ dot_product(Vec(0, high, 0, none), Vec(0, 0, One, 0)) = 0
       /\ dot_product(Vec(0, high, 0, none), Vec(0, 0, back, One)) = 0
  BY <1>5, <1>6, <1>7, <1>8, UnitDots
<1>11. /\ dot_product(Vec(0, 0, One, none), Vec(One, 0, 0, 0)) = 0
       /\ dot_product(Vec(0, 0, One, none), Vec(0, One, 0, 0)) = 0
       /\ dot_product(Vec(0, 0, One, none), Vec(0, 0, One, 0)) = One
       /\ dot_product(Vec(0, 0, One, none), Vec(0, 0, back, One)) = back
  BY <1>5, <1>6, <1>7, <1>8, UnitDots
<1>12. Row(Vec(wide, 0, 0, none)) = <<wide, 0, 0, 0>>
  BY <1>9
<1>13. Row(Vec(0, high, 0, none)) = <<0, high, 0, 0>>
  BY <1>10
<1>14. Row(Vec(0, 0, One, none)) = <<0, 0, One, back>>
  BY <1>11
<1> HIDE DEF Row
<1> QED BY <1>1, <1>2, <1>3, <1>4, <1>12, <1>13, <1>14 DEF back, none, wide, high, Vec

\* The entries of the placed rotation.
ScaledEntry(R, k) == fxp_mul(scale, Fixed, R[k], Trig, Fixed)

LEMMA PlacedColumns ==
  ASSUME NEW R, NEW T
  PROVE  LET B == Placed(R, T)
         IN  /\ Column(B, 1) = Vec(ScaledEntry(R, 1), ScaledEntry(R, 4), ScaledEntry(R, 7), 0)
             /\ Column(B, 2) = Vec(ScaledEntry(R, 2), ScaledEntry(R, 5), ScaledEntry(R, 8), 0)
             /\ Column(B, 3) = Vec(ScaledEntry(R, 3), ScaledEntry(R, 6), ScaledEntry(R, 9), 0)
             /\ Column(B, 4) = Vec(T.x, T.y, T.z, One)
BY DEF Placed, Column, Vec, ScaledEntry

\* A row of the camera takes one entry of each column.
LEMMA FirstDots ==
  ASSUME NEW a, NEW d, NEW b1, NEW b2, NEW b3,
         Length(a), Length(d), Length(b1), Length(b2), Length(b3)
  PROVE  /\ dot_product(Vec(a, 0, 0, d), Vec(b1, b2, b3, 0)) = a ** b1
         /\ dot_product(Vec(0, a, 0, d), Vec(b1, b2, b3, 0)) = a ** b2
         /\ dot_product(Vec(0, 0, a, d), Vec(b1, b2, b3, 0)) = a ** b3
<1>1. Length(0) /\ Length(a ** b1) /\ Length(a ** b2) /\ Length(a ** b3)
  BY ProductLength DEF Length
<1>2. d ** 0 = 0
  BY TimesZeroOne
<1>3. /\ fxp_add(a ** b1, 0, Fixed) = a ** b1 /\ fxp_add(a ** b2, 0, Fixed) = a ** b2
      /\ fxp_add(a ** b3, 0, Fixed) = a ** b3
  BY <1>1, PlusZero
<1>4. /\ dot_product(Vec(a, 0, 0, d), Vec(b1, b2, b3, 0)) = fxp_add(a ** b1, d ** 0, Fixed)
      /\ dot_product(Vec(0, a, 0, d), Vec(b1, b2, b3, 0)) = fxp_add(a ** b2, d ** 0, Fixed)
      /\ dot_product(Vec(0, 0, a, d), Vec(b1, b2, b3, 0)) = fxp_add(a ** b3, d ** 0, Fixed)
  BY <1>1, VecDots
<1> QED BY <1>2, <1>3, <1>4

\* The matrix of an object that is turned and moved.
LEMMA PlacedRows ==
  ASSUME NEW R, \A k \in 1 .. 9 : Length(ScaledEntry(R, k)),
         NEW T, Length(T.x), Length(T.y), Length(T.z),
         NEW M, M = matrix_multiplier(camera, Placed(R, T))
  PROVE  /\ M[1] = <<464 ** ScaledEntry(R, 1), 464 ** ScaledEntry(R, 2), 464 ** ScaledEntry(R, 3), 464 ** T.x>>
         /\ M[2] = <<618 ** ScaledEntry(R, 4), 618 ** ScaledEntry(R, 5), 618 ** ScaledEntry(R, 6), 618 ** T.y>>
         /\ M[4] = <<ScaledEntry(R, 7), ScaledEntry(R, 8), ScaledEntry(R, 9), fxp_sub(T.z, z_pos, Fixed)>>
<1> DEFINE back == -z_pos
           none == 0
           wide == 464
           high == 618
           S(k) == ScaledEntry(R, k)
           B == Placed(R, T)
           Row(A) == << dot_product(A, Vec(S(1), S(4), S(7), 0)), dot_product(A, Vec(S(2), S(5), S(8), 0)),
                        dot_product(A, Vec(S(3), S(6), S(9), 0)), dot_product(A, Vec(T.x, T.y, T.z, One)) >>
<1>1. /\ Length(One) /\ Length(back) /\ Length(wide) /\ Length(high)
      /\ none = 0 /\ Length(none)
  BY DEF Length, One, z_pos
<1>2. /\ Length(S(1)) /\ Length(S(2)) /\ Length(S(3)) /\ Length(S(4)) /\ Length(S(5))
      /\ Length(S(6)) /\ Length(S(7)) /\ Length(S(8)) /\ Length(S(9))
  OBVIOUS
<1>3. /\ Column(B, 1) = Vec(S(1), S(4), S(7), 0) /\ Column(B, 2) = Vec(S(2), S(5), S(8), 0)
      /\ Column(B, 3) = Vec(S(3), S(6), S(9), 0) /\ Column(B, 4) = Vec(T.x, T.y, T.z, One)
  BY PlacedColumns
<1> HIDE DEF B, S
<1>4. M = matrix_multiplier(camera, B)
  BY DEF B
<1>5. M[1] = Row(camera[1])
  BY <1>3, <1>4, RowOfProduct
<1>6. M[2] = Row(camera[2])
  BY <1>3, <1>4, RowOfProduct
<1>7. M[4] = Row(camera[4])
  BY <1>3, <1>4, RowOfProduct
<1>8. fxp_add(T.z, back, Fixed) = fxp_sub(T.z, z_pos, Fixed)
  BY DEF fxp_add, fxp_sub, Length, z_pos
<1>9. /\ camera[1] = Vec(wide, 0, 0, none) /\ camera[2] = Vec(0, high, 0, none)
      /\ camera[4] = Vec(0, 0, One, back)
  BY CameraRows DEF Vec
<1> HIDE DEF back, none, wide, high
<1>10. /\ none ** One = 0 /\ back ** One = back /\ One ** T.z = T.z
       /\ One ** S(7) = S(7) /\ One ** S(8) = S(8) /\ One ** S(9) = S(9)
  <2>1. none ** One = none
    BY <1>1, TimesZeroOne
  <2> QED BY <1>1, <1>2, <2>1, TimesZeroOne
<1>11. fxp_add(wide ** T.x, 0, Fixed) = wide ** T.x /\ fxp_add(high ** T.y, 0, Fixed) = high ** T.y
  <2>1. Length(wide ** T.x) /\ Length(high ** T.y)
    BY <1>1, ProductLength
  <2> QED BY <2>1, PlusZero
<1>12. /\ dot_product(Vec(wide, 0, 0, none), Vec(T.x, T.y, T.z, One)) = fxp_add(wide ** T.x, none ** One, Fixed)
       /\ dot_product(Vec(0, high, 0, none), Vec(T.x, T.y, T.z, One)) = fxp_add(high ** T.y, none ** One, Fixed)
       /\ dot_product(Vec(0, 0, One, back), Vec(T.x, T.y, T.z, One)) = fxp_add(One ** T.z, back ** One, Fixed)
  BY <1>1, VecDots
<1>13. Row(Vec(wide, 0, 0, none)) = <<wide ** S(1), wide ** S(2), wide ** S(3), wide ** T.x>>
  <2>1. /\ dot_product(Vec(wide, 0, 0, none), Vec(S(1), S(4), S(7), 0)) = wide ** S(1)
        /\ dot_product(Vec(wide, 0, 0, none), Vec(S(2), S(5), S(8), 0)) = wide ** S(2)
        /\ dot_product(Vec(wide, 0, 0, none), Vec(S(3), S(6), S(9), 0)) = wide ** S(3)
    BY <1>1, <1>2, FirstDots
  <2> QED BY <1>10, <1>11, <1>12, <2>1
<1>14. Row(Vec(0, high, 0, none)) = <<high ** S(4), high ** S(5), high ** S(6), high ** T.y>>
  <2>1. /\ dot_product(Vec(0, high, 0, none), Vec(S(1), S(4), S(7), 0)) = high ** S(4)
        /\ dot_product(Vec(0, high, 0, none), Vec(S(2), S(5), S(8), 0)) = high ** S(5)
        /\ dot_product(Vec(0, high, 0, none), Vec(S(3), S(6), S(9), 0)) = high ** S(6)
    BY <1>1, <1>2, FirstDots
  <2> QED BY <1>10, <1>11, <1>12, <2>1
<1>15. Row(Vec(0, 0, One, back)) = <<S(7), S(8), S(9), fxp_sub(T.z, z_pos, Fixed)>>
  <2>1. /\ dot_product(Vec(0, 0, One, back), Vec(S(1), S(4), S(7), 0)) = One ** S(7)
        /\ dot_product(Vec(0, 0, One, back), Vec(S(2), S(5), S(8), 0)) = One ** S(8)
        /\ dot_product(Vec(0, 0, One, back), Vec(S(3), S(6), S(9), 0)) = One ** S(9)
    BY <1>1, <1>2, FirstDots
  <2> QED BY <1>8, <1>10, <1>12, <2>1
<1> HIDE DEF Row
<1> QED BY <1>5, <1>6, <1>7, <1>9, <1>13, <1>14, <1>15 DEF wide, high, S

\* The matrix of an object at rest.
LEMMA RestingRows ==
  ASSUME NEW T, Length(T.x), Length(T.y), Length(T.z),
         NEW M, M = matrix_multiplier(camera, Placed(<<4096, 0, 0, 0, 4096, 0, 0, 0, 4096>>, T))
  PROVE  /\ M[1] = <<464 ** scale, 0, 0, 464 ** T.x>>
         /\ M[2] = <<0, 618 ** scale, 0, 618 ** T.y>>
         /\ M[4] = <<0, 0, scale, fxp_sub(T.z, z_pos, Fixed)>>
<1> DEFINE R == <<4096, 0, 0, 0, 4096, 0, 0, 0, 4096>>
<1>1. fxp_mul(scale, Fixed, 4096, Trig, Fixed) = scale
  <2>1. /\ 384 * 4096 = 1572864 /\ 1048576 \div 256 = 4096 /\ 256 < 1048576
        /\ 1572864 \div 4096 = 384 /\ 1572864 % 4096 = 0
    BY SMT
  <2> QED BY <2>1, FixedFormat, SMT DEF fxp_mul, fxp_zoom, Saturated, scale
<1>2. fxp_mul(scale, Fixed, 0, Trig, Fixed) = 0
  <2>1. /\ 384 * 0 = 0 /\ 1048576 \div 256 = 4096 /\ 256 < 1048576
        /\ 0 \div 4096 = 0 /\ 0 % 4096 = 0
    BY SMT
  <2> QED BY <2>1, FixedFormat, SMT DEF fxp_mul, fxp_zoom, Saturated, scale
<1>3. /\ ScaledEntry(R, 1) = scale /\ ScaledEntry(R, 2) = 0 /\ ScaledEntry(R, 3) = 0
      /\ ScaledEntry(R, 4) = 0 /\ ScaledEntry(R, 5) = scale /\ ScaledEntry(R, 6) = 0
      /\ ScaledEntry(R, 7) = 0 /\ ScaledEntry(R, 8) = 0 /\ ScaledEntry(R, 9) = scale
  BY <1>1, <1>2 DEF ScaledEntry
<1>4. Length(0) /\ Length(scale) /\ Length(464) /\ Length(618)
  BY DEF Length, scale
<1> HIDE DEF R
<1>5. \A k \in 1 .. 9 : Length(ScaledEntry(R, k))
  BY <1>3, <1>4
<1>6. M = matrix_multiplier(camera, Placed(R, T))
  BY DEF R
<1>7. 464 ** 0 = 0 /\ 618 ** 0 = 0
  BY <1>4, TimesZeroOne
<1>8. /\ M[1] = <<464 ** ScaledEntry(R, 1), 464 ** ScaledEntry(R, 2), 464 ** ScaledEntry(R, 3), 464 ** T.x>>
      /\ M[2] = <<618 ** ScaledEntry(R, 4), 618 ** ScaledEntry(R, 5), 618 ** ScaledEntry(R, 6), 618 ** T.y>>
      /\ M[4] = <<ScaledEntry(R, 7), ScaledEntry(R, 8), ScaledEntry(R, 9), fxp_sub(T.z, z_pos, Fixed)>>
  BY <1>5, <1>6, PlacedRows
<1> QED BY <1>3, <1>7, <1>8

\* A vertex of the object, one coordinate at a time.
Corner(v) == v[1] \in {-One, One} /\ v[2] \in {-One, One} /\ v[3] \in {-One, One}

\* The object is a cube of side 2.
LEMMA VerticesAreCorners == \A v \in Vertices : Corner(v)
BY DEF Vertices, P, Corner

\* The depth is exact where nothing is saturated.
Depth(v3, tz) == ((scale * v3) \div One + tz) - z_pos

LEMMA DepthIsExact ==
  ASSUME NEW v3 \in {-One, One}, NEW tz, Length(tz), NEW w,
         w = fxp_add(scale ** v3, fxp_sub(tz, z_pos, Fixed) ** One, Fixed)
  PROVE  /\ Length(w) /\ Depth(v3, tz) \in Int
         /\ Depth(v3, tz) >= -28672 => w = Depth(v3, tz) /\ w <= 30591
<1> DEFINE e == IF v3 = One THEN 384 ELSE -384
           back == fxp_sub(tz, z_pos, Fixed)
<1>1. (scale * v3) \div One = e
  BY DEF scale, One
<1>2. scale ** v3 = e
  <2>1. CASE v3 = One
    BY <2>1, TimesZeroOne DEF Length, scale
  <2>2. CASE v3 = -One
    <3>1. scale * v3 = -98304
      BY <2>2 DEF scale, One
    <3>2. \A y \in Int : y + 98304 = 0 => Rounds(y) = -384
      BY DEF Rounds
    <3>3. Saturated(-384, Fixed) = -384
      BY FixedFormat DEF Saturated
    <3>4. scale ** v3 = -384
      BY <3>1, <3>2, <3>3, FixedProduct
    <3> QED BY <2>2, <3>4 DEF One
  <2> QED BY <2>1, <2>2
<1>3. tz \in Int /\ -32768 <= tz /\ tz <= 32767
  BY DEF Length
<1>4. back = IF tz - 2560 < -32768 THEN -32768 ELSE tz - 2560
  BY <1>3, FixedFormat DEF fxp_sub, Saturated, z_pos
<1>5. Length(back)
  BY <1>3, <1>4 DEF Length
<1>6. back ** One = back
  BY <1>5, TimesZeroOne
<1>7. e \in Int /\ -384 <= e /\ e <= 384
  OBVIOUS
<1> HIDE DEF e, back
<1>8. w = Saturated(e + back, Fixed)
  BY <1>2, <1>6 DEF fxp_add, back
<1>9. Depth(v3, tz) = e + tz - 2560
  BY <1>1, <1>3, <1>7 DEF Depth, z_pos
<1>10. Length(w)
  BY <1>5, <1>7, <1>8, FixedFormat DEF Length, Saturated
<1>11. ASSUME e + tz - 2560 >= -28672
       PROVE  w = e + tz - 2560 /\ w <= 30591
  BY <1>3, <1>4, <1>7, <1>8, <1>11, FixedFormat DEF Saturated
<1> QED BY <1>3, <1>7, <1>9, <1>10, <1>11

\* The object at rest: where its vertices come before the division.
LEMMA RestingCoordinates ==
  ASSUME NEW T, Length(T.x), Length(T.y), Length(T.z), NEW v, Corner(v),
         NEW M, M = matrix_multiplier(camera, Placed(<<4096, 0, 0, 0, 4096, 0, 0, 0, 4096>>, T))
  PROVE  LET p == Projected4(M, v)
         IN  /\ p.x = fxp_add((464 ** scale) ** v[1], 464 ** T.x, Fixed)
             /\ p.y = fxp_add((618 ** scale) ** v[2], 618 ** T.y, Fixed)
             /\ p.w = fxp_add(scale ** v[3], fxp_sub(T.z, z_pos, Fixed) ** One, Fixed)
<1> DEFINE wide == 464
           high == 618
           back == fxp_sub(T.z, z_pos, Fixed)
<1>1. M[1] = Vec(wide ** scale, 0, 0, wide ** T.x) /\ M[2] = Vec(0, high ** scale, 0, high ** T.y)
      /\ M[4] = Vec(0, 0, scale, back)
  BY RestingRows DEF Vec
<1>2. Projected4(M, v) = [x |-> dot_product(M[1], Vec(v[1], v[2], v[3], One)),
                          y |-> dot_product(M[2], Vec(v[1], v[2], v[3], One)),
                          w |-> dot_product(M[4], Vec(v[1], v[2], v[3], One))]
  BY DEF Projected4, Vec
<1>3. Length(v[1]) /\ Length(v[2]) /\ Length(v[3]) /\ Length(One) /\ Length(wide) /\ Length(high) /\ Length(scale)
  BY DEF Corner, Length, One, scale
<1>4. Length(back)
  BY FixedFormat DEF Length, fxp_sub, Saturated, z_pos
<1> HIDE DEF wide, high, back
<1>5. Length(wide ** scale) /\ Length(wide ** T.x) /\ Length(high ** scale) /\ Length(high ** T.y)
  BY <1>3, ProductLength
<1>6. (wide ** T.x) ** One = wide ** T.x /\ (high ** T.y) ** One = high ** T.y
  BY <1>5, TimesZeroOne
<1>7. dot_product(M[1], Vec(v[1], v[2], v[3], One)) = fxp_add((wide ** scale) ** v[1], wide ** T.x, Fixed)
  BY <1>1, <1>2, <1>3, <1>5, <1>6, VecDots
<1>8. dot_product(M[2], Vec(v[1], v[2], v[3], One)) = fxp_add((high ** scale) ** v[2], high ** T.y, Fixed)
  <2>1. dot_product(Vec(0, high ** scale, 0, high ** T.y), Vec(v[1], v[2], v[3], One)) =
          fxp_add((high ** scale) ** v[2], (high ** T.y) ** One, Fixed)
    BY <1>3, <1>5, VecDots
  <2> QED BY <1>1, <1>2, <1>6, <2>1
<1>9. dot_product(M[4], Vec(v[1], v[2], v[3], One)) = fxp_add(scale ** v[3], back ** One, Fixed)
  <2>1. dot_product(Vec(0, 0, scale, back), Vec(v[1], v[2], v[3], One)) =
          fxp_add(scale ** v[3], back ** One, Fixed)
    BY <1>3, <1>4, VecDots
  <2> QED BY <1>1, <1>2, <2>1
<1> QED BY <1>2, <1>7, <1>8, <1>9 DEF wide, high, back

\* One direction of the screen, from the coordinate to the pixel.
LEMMA AxisIsPlaced ==
  ASSUME NEW k \in {464, 618}, NEW extent \in {640, 480}, NEW t, Length(t), NEW u \in {-One, One},
         NEW w, Length(w), -28672 <= w, w <= 30591, 512 <= w \/ w <= -512,
         NEW x, x = fxp_add((k ** scale) ** u, k ** t, Fixed)
  PROVE  LET shift == (k * ((scale * u) \div One + t)) \div One
         IN  OnScreenAt(Viewport(x, w, extent),
                        extent * (Magnitude(w) + IF w < 0 THEN -shift ELSE shift),
                        2 * Magnitude(w), extent)
<1> DEFINE s == (k * ((scale * u) \div One + t)) \div One
           r == fxp_div(x, Fixed, w, Fixed, Fixed)
           W == Magnitude(w)
           X == IF w < 0 THEN -x ELSE x
           shift == IF w < 0 THEN -s ELSE s
<1>1. Length(x) /\ SameSide(x, s)
  BY CoordinateNear
<1>2. w \in Int /\ x \in Int /\ t \in Int
  BY <1>1 DEF Length
<1>3. s \in Int
  <2>1. CASE u = One
    BY <1>2, <2>1 DEF scale, One
  <2>2. CASE u = -One
    BY <1>2, <2>2 DEF scale, One
  <2> QED BY <2>1, <2>2
<1> HIDE DEF s
<1>4. SameSide(X, shift) /\ X \in Int /\ shift \in Int /\ (x = X \/ x = -X)
  BY <1>1, <1>2, <1>3 DEF SameSide
<1>5. W \in Int /\ 512 <= W /\ W <= 30591
  BY <1>2 DEF Magnitude
<1>6. Normalized(r, x, X, W)
  BY <1>1, <1>2, DividedNear
<1>7. Length(r)
  BY <1>6 DEF Normalized
<1>8. Displayed(Viewport(x, w, extent), r, extent)
  BY <1>7, ViewportNear
<1>9. Viewport(x, w, extent) \in Int
  BY <1>8 DEF Displayed
<1> HIDE DEF r, W, X, shift
<1>10. OnScreenAt(Viewport(x, w, extent), extent * (W + shift), 2 * W, extent)
  BY <1>4, <1>5, <1>6, <1>8, <1>9, PlacedOnAxis
<1> QED BY <1>10 DEF W, shift, s

-----------------------------------------------------------------------------
(* The object at rest: no sine, full cosines.                              *)
LEMMA AngleFormat == Angle.one = 256 /\ Angle.most = 2047
BY SMT DEF Angle, Format

\* A full turn has the sine and cosine of none.
LEMMA SinesAtRest ==
  ASSUME NEW a \in {0, 1608}
  PROVE  cal_sin(a) = 0 /\ cal_cos(a) = 4096
<1>1. SineAngle(a) = 0 /\ CosineAngle(a) = 402
  <2>1. Turn(1608, 1608) = 0 /\ Turn(1608, 1206) = 402 /\ Turn(402, 0) = 402
    BY AngleFormat DEF Turn, fxp_sub, Saturated
  <2>2. CASE a = 0
    BY <2>1, <2>2 DEF SineAngle, CosineAngle, Pi, HalfPi, ThreeHalvesPi
  <2>3. CASE a = 1608
    BY <2>1, <2>3 DEF SineAngle, CosineAngle, Pi, HalfPi, ThreeHalvesPi
  <2> QED BY <2>2, <2>3
<1>2. fix_sin(0) = 0
  <2>1. 4096 \div 256 = 16 /\ 0 * 16 = 0
    BY SMT
  <2>2. fxp_zoom(0, Angle, Trig) = 0
    BY <2>1, AngleFormat, TrigFormat DEF fxp_zoom, Saturated
  <2> QED BY <2>2 DEF fix_sin
<1>3. fix_sin(402) = 4096
  BY FixedFormat DEF fix_sin
<1>4. Negative(0) = 0
  BY FixedFormat DEF Negative, fxp_sub, Saturated
<1>5. cal_sin(a) = 0
  BY <1>1, <1>2, <1>4 DEF cal_sin, WithSign
<1>6. cal_cos(a) = 4096
  BY <1>1, <1>3 DEF cal_cos, WithSign, HalfPi, ThreeHalvesPi
<1> QED BY <1>5, <1>6

LEMMA RotationAtRest == Rotation(0, 4096, 0, 4096, 0, 4096) = <<4096, 0, 0, 0, 4096, 0, 0, 0, 4096>>
<1> DEFINE one == 4096
           none == 0
           T(a, b) == fxp_mul(a, Trig, b, Trig, Trig)
<1>1. T(one, one) = one /\ T(none, one) = none /\ T(one, none) = none /\ T(none, none) = none
  <2>1. 16777216 \div 4096 = 4096 /\ 4096 * 4096 = 16777216 /\ 16777216 % 4096 = 0
        /\ 0 \div 4096 = 0 /\ 0 % 4096 = 0 /\ 0 * 4096 = 0 /\ 4096 * 0 = 0 /\ 0 * 0 = 0
    BY SMT
  <2>2. fxp_zoom(16777216, Product(Trig, Trig), Trig) = 4096
    BY <2>1, AngleFormat, TrigFormat DEF fxp_zoom, Saturated
  <2>3. fxp_zoom(0, Product(Trig, Trig), Trig) = 0
    BY <2>1, AngleFormat, TrigFormat DEF fxp_zoom, Saturated
  <2> QED BY <2>1, <2>2, <2>3 DEF fxp_mul
<1>2. /\ fxp_sub(one, none, Trig) = one /\ fxp_sub(none, none, Trig) = none
      /\ fxp_add(none, none, Trig) = none
  BY FixedFormat DEF fxp_add, fxp_sub, Saturated
<1>3. Negative(none) = none
  BY FixedFormat DEF Negative, fxp_sub, Saturated
<1> HIDE DEF one, none
<1>4. Rotation(none, one, none, one, none, one) = <<one, none, none, none, one, none, none, none, one>>
  BY <1>1, <1>2, <1>3 DEF Rotation
<1> QED BY <1>4 DEF one, none

LEMMA MatrixAtRest ==
  ASSUME NEW a, \A i \in Axis : a[i] \in {0, 1608}
  PROVE  euler_angle_matrix(a["x"], a["y"], a["z"]) = <<4096, 0, 0, 0, 4096, 0, 0, 0, 4096>>
<1>1. a["x"] \in {0, 1608} /\ a["y"] \in {0, 1608} /\ a["z"] \in {0, 1608}
  BY DEF Axis
<1> QED BY <1>1, SinesAtRest, RotationAtRest DEF euler_angle_matrix

\* A coordinate of the pose is a length.
LEMMA TranslateLength ==
  ASSUME NEW p \in [Axis -> 0 .. Positions - 1], NEW i \in Axis
  PROVE  Length(Translate(p)[i])
<1> DEFINE f == 65536 \div Positions
           u == p[i] * f
<1>1. Positions \in Nat \ {0} /\ p[i] \in Nat /\ p[i] <= Positions - 1
  BY DisplayAssumption
<1>2. f \in Nat /\ Positions * f <= 65536
  BY <1>1
<1> HIDE DEF f
<1>3. u \in Nat
  BY <1>1, <1>2
<1>4. (p[i] + 1) * f <= Positions * f
  BY <1>1, <1>2, MulLe
<1>5. (p[i] + 1) * f = u + f
  BY <1>1, <1>2
<1> DEFINE m == Positions * f
<1>6. m \in Int /\ u + f <= m /\ m <= 65536
  BY <1>1, <1>2, <1>4, <1>5
<1> HIDE DEF u, m
<1>7. u < 65536
  <2>1. CASE f = 0
    BY <1>1, <2>1 DEF u
  <2>2. CASE f # 0
    BY <1>2, <1>3, <1>6, <2>2
  <2> QED BY <2>1, <2>2
<1>8. Translate(p)[i] = IF u > Fixed.most THEN u - 65536 ELSE u
  BY DEF Translate, u, f
<1> QED BY <1>3, <1>7, <1>8, FixedFormat DEF Length

\* What is seen is the present pose.
ViewIsCurrent == view = View(angle, pos)

\* Whatever happens, the pose that is seen is the one in the registers.
LEMMA ViewStaysCurrent == SceneSpec => []ViewIsCurrent
<1>1. SceneInit => ViewIsCurrent
  BY DEF SceneInit, Init, AtStart, ViewIsCurrent, StartView
<1>2. ViewIsCurrent /\ [SceneNext]_sceneVars => ViewIsCurrent'
  <2> SUFFICES ASSUME ViewIsCurrent, [SceneNext]_sceneVars
               PROVE  ViewIsCurrent'
    OBVIOUS
  <2>1. CASE FrameEdge /\ view' = View(angle', pos')
    BY <2>1 DEF ViewIsCurrent
  <2>2. CASE PressReset /\ view' = StartView
    BY <2>2 DEF ViewIsCurrent, StartView, PressReset, AtStart
  <2>3. CASE (\E k \in Keys : KeyReport(k)) /\ UNCHANGED view
    BY <2>3 DEF ViewIsCurrent, KeyReport
  <2>4. CASE UNCHANGED sceneVars
    BY <2>4 DEF ViewIsCurrent, sceneVars, vars
  <2> QED BY <2>1, <2>2, <2>3, <2>4 DEF SceneNext
<1> QED BY <1>1, <1>2, PTL DEF SceneSpec

\* A vertex of an object at rest, at neither of the two limits of depth.
LEMMA VertexIsPlaced ==
  ASSUME ViewIsCurrent, TypeOK, TwoPi = 2 * Pi, Still,
         NEW v \in Vertices, ~Distant(v), ~Close(v)
  PROVE  /\ OnScreenAt(view[v].pixel[1], Numerator(v, 1, 464, width), Denominator(v), width)
         /\ OnScreenAt(view[v].pixel[2], Numerator(v, 2, 618, height), Denominator(v), height)
<1> DEFINE T == Translate(pos)
           M == mvp_matrix(angle, T)
           p == Projected4(M, v)
<1>1. Corner(v)
  BY VerticesAreCorners
<1>2. Length(T.x) /\ Length(T.y) /\ Length(T.z)
  BY TranslateLength DEF TypeOK, Axis
<1>3. M = matrix_multiplier(camera, Placed(<<4096, 0, 0, 0, 4096, 0, 0, 0, 4096>>, T))
  <2>1. \A i \in Axis : angle[i] \in {0, 1608}
    BY DEF Still, Pi
  <2> QED BY <2>1, MatrixAtRest DEF mvp_matrix, model_matrix
<1>4. view[v].pixel = <<Viewport(p.x, p.w, width), Viewport(p.y, p.w, height)>>
  BY DEF ViewIsCurrent, View, SeenBy, Seen, PixelOf
<1>5. Off(v, 1) = (scale * v[1]) \div One + T.x /\ Off(v, 2) = (scale * v[2]) \div One + T.y
      /\ Along(v) = Depth(v[3], T.z)
  <2>1. <<"x", "y", "z">>[1] = "x" /\ <<"x", "y", "z">>[2] = "y" /\ <<"x", "y", "z">>[3] = "z"
    OBVIOUS
  <2>2. Off(v, 1) = (scale * v[1]) \div One + T.x
    BY <2>1 DEF Off
  <2>3. Off(v, 2) = (scale * v[2]) \div One + T.y
    BY <2>1 DEF Off
  <2>4. Off(v, 3) = (scale * v[3]) \div One + T.z
    BY <2>1 DEF Off
  <2>5. Along(v) = Depth(v[3], T.z)
    BY <2>4 DEF Along, Depth
  <2> QED BY <2>2, <2>3, <2>5
<1> HIDE DEF T, M
<1>6. /\ p.x = fxp_add((464 ** scale) ** v[1], 464 ** T.x, Fixed)
      /\ p.y = fxp_add((618 ** scale) ** v[2], 618 ** T.y, Fixed)
      /\ p.w = fxp_add(scale ** v[3], fxp_sub(T.z, z_pos, Fixed) ** One, Fixed)
  BY <1>1, <1>2, <1>3, RestingCoordinates
<1> HIDE DEF p
<1>7. v[1] \in {-One, One} /\ v[2] \in {-One, One} /\ v[3] \in {-One, One}
  BY <1>1 DEF Corner
<1>8. Length(p.w) /\ p.w = Along(v) /\ p.w <= 30591 /\ -28672 <= p.w /\ (512 <= p.w \/ p.w <= -512)
  <2>1. Along(v) \in Int /\ -28672 <= Along(v) /\ (512 <= Along(v) \/ Along(v) <= -512)
    <3>1. Along(v) \in Int
      BY <1>2, <1>5, <1>6, <1>7, DepthIsExact
    <3> QED BY <3>1 DEF Distant, Close, Magnitude, One
  <2> QED BY <1>2, <1>5, <1>6, <1>7, <2>1, DepthIsExact
<1>9. OnScreenAt(Viewport(p.x, p.w, 640),
                 640 * (Magnitude(p.w) + IF p.w < 0 THEN -((464 * Off(v, 1)) \div One)
                                         ELSE (464 * Off(v, 1)) \div One),
                 2 * Magnitude(p.w), 640)
  BY <1>2, <1>5, <1>6, <1>7, <1>8, AxisIsPlaced
<1>10. OnScreenAt(Viewport(p.y, p.w, 480),
                  480 * (Magnitude(p.w) + IF p.w < 0 THEN -((618 * Off(v, 2)) \div One)
                                          ELSE (618 * Off(v, 2)) \div One),
                  2 * Magnitude(p.w), 480)
  BY <1>2, <1>5, <1>6, <1>7, <1>8, AxisIsPlaced
<1> QED BY <1>4, <1>8, <1>9, <1>10 DEF Numerator, Denominator, width, height

(* project_triangle.sv puts every vertex of an object at rest within two   *)
(* pixels of where geometry puts it, wherever the keys have moved the      *)
(* object, and drops none that belongs on the screen: between the two      *)
(* limits of depth that PlacedExactly names, products and sums saturate    *)
(* only for what is off the screen.                                        *)
THEOREM RestingObjectIsPlaced ==
  ASSUME TwoPi = 2 * Pi
  PROVE  SceneSpec => []PlacedExactly
<1>1. ViewIsCurrent /\ TypeOK => PlacedExactly
  <2> SUFFICES ASSUME ViewIsCurrent, TypeOK, Still,
                      NEW v \in Vertices, ~Distant(v), ~Close(v)
               PROVE  LET V   == view[v].pixel
                          den == Denominator(v)
                          nx  == Numerator(v, 1, 464, width)
                          ny  == Numerator(v, 2, 618, height)
                      IN  /\ ~Beyond(V) => At(V[1], nx, den) /\ At(V[2], ny, den)
                          /\ Within(nx, den, width) /\ Within(ny, den, height) => ~Beyond(V)
    BY DEF PlacedExactly
  <2> DEFINE x == view[v].pixel[1]
             y == view[v].pixel[2]
  <2>1. /\ OnScreenAt(x, Numerator(v, 1, 464, width), Denominator(v), width)
        /\ OnScreenAt(y, Numerator(v, 2, 618, height), Denominator(v), height)
    BY VertexIsPlaced
  <2> QED BY <2>1 DEF OnScreenAt, Beyond
<1> QED BY <1>1, ViewStaysCurrent, SceneIsDisplay, AnglesStayInRange, PTL
-----------------------------------------------------------------------------
(* The side.  A coordinate that wraps is within 1024 of a limit of its     *)
(* range; its product with the factor of the camera is saturated, and the  *)
(* rotation takes no vertex back by more than sqrt(3) of the cube's side.  *)
(* At a moderate depth the quotient is beyond the limit of the screen,     *)
(* also when it is one by 0.                                               *)
\* What fxp_div gives for a coordinate divided by 0.
LEMMA DividedByNone ==
  ASSUME NEW a, Length(a)
  PROVE  fxp_div(a, Fixed, 0, Fixed, Fixed) = IF a < 0 THEN -32768 ELSE 32767
<1> DEFINE n == Magnitude(a) * 256
           q == LongDivision(n, 0, 65535)
<1>1. a \in Int /\ -32768 <= a /\ a <= 32767
  BY DEF Length
<1>2. n \in Nat
  BY <1>1 DEF Magnitude
<1>3. IsQuotient(q, n, 0, 65535)
  BY <1>2, QuotientFound
<1> HIDE DEF n, q
<1>4. q = 65535
  <2>1. (65535 + 1) * 0 = 0
    OBVIOUS
  <2> QED BY <1>2, <1>3, <2>1 DEF IsQuotient
<1>5. Rounded(q, n, 0, 65535) = 65535
  BY <1>4 DEF Rounded
<1>6. Quotient(a, Fixed, 0, Fixed, Fixed) = 65535
  <2>1. /\ AllOnes(Fixed) = 65535 /\ Least(Fixed) = -32768
        /\ 65536 \div 256 = 256 /\ 65536 \div 65536 = 1 /\ 256 * 256 = 65536
        /\ Magnitude(0) * 1 = 0
    BY FixedFormat DEF AllOnes, Least, Magnitude
  <2>2. 0 # -32768
    OBVIOUS
  <2> QED BY <1>5, <2>1, <2>2, FixedFormat DEF Quotient, n, q
<1>7. Least(Fixed) = -32768 /\ Saturated(65535, Fixed) = 32767 /\ 65535 > Fixed.most
  BY FixedFormat DEF Least, Saturated
<1>8. fxp_div(a, Fixed, 0, Fixed, Fixed) =
        IF (a < 0) # (0 < 0) THEN (IF 65535 > Fixed.most THEN Least(Fixed) ELSE -65535)
        ELSE Saturated(65535, Fixed)
  BY <1>6 DEF fxp_div
<1>9. ~(0 < 0)
  OBVIOUS
<1>10. CASE a < 0
  BY <1>7, <1>8, <1>9, <1>10
<1>11. CASE ~(a < 0)
  BY <1>7, <1>8, <1>9, <1>11
<1> QED BY <1>10, <1>11

\* A coordinate that is far off, seen from a moderate depth.
LEMMA FarIsBeyond ==
  ASSUME NEW x, Length(x), x >= 31124 \/ x <= -31124,
         NEW w, Length(w), -28968 <= w, w <= 28968, NEW extent \in {640, 480}
  PROVE  Viewport(x, w, extent) > extent
<1> DEFINE r == fxp_div(x, Fixed, w, Fixed, Fixed)
<1>1. x \in Int /\ -32768 <= x /\ x <= 32767 /\ w \in Int
  BY DEF Length
<1>2. Length(r) /\ (r >= 266 \/ r <= -266)
  <2>1. CASE w = 0
    <3>1. r = IF x < 0 THEN -32768 ELSE 32767
      BY <2>1, DividedByNone
    <3> QED BY <3>1 DEF Length
  <2>2. CASE w # 0
    <3> DEFINE X == IF w < 0 THEN -x ELSE x
               W == Magnitude(w)
    <3>1. w # -32768
      BY <1>1
    <3>2. Normalized(r, x, X, W)
      BY <2>2, <3>1, DividedNear
    <3>3. X \in Int /\ W \in Int /\ W <= 28968 /\ (X >= 31124 \/ X <= -31124)
      BY <1>1 DEF Magnitude
    <3> HIDE DEF r, X, W
    <3>4. 256 * X > 266 * W \/ 256 * X < -266 * W
      BY <3>3
    <3> QED BY <3>2, <3>4 DEF Normalized
  <2> QED BY <2>1, <2>2
<1>3. Displayed(Viewport(x, w, extent), r, extent)
  BY <1>2, ViewportNear
<1> QED BY <1>2, <1>3 DEF Displayed

\* The entries of a row of the rotation make no more than sqrt(3).
LEMMA SumsOfSquares ==
  ASSUME NEW a \in Int, NEW b \in Int, NEW c \in Int,
         a * a + b * b + c * c <= 17448319
  PROVE  a + b + c <= 7235
<1> DEFINE s == a + b + c
<1>1. 3 * (a * a + b * b + c * c) - s * s = (a - b) * (a - b) + (b - c) * (b - c) + (a - c) * (a - c)
  OBVIOUS
<1>2. (a - b) * (a - b) >= 0 /\ (b - c) * (b - c) >= 0 /\ (a - c) * (a - c) >= 0
  <2>1. \A x \in Int : x * x >= 0
    OBVIOUS
  <2> QED BY <2>1
<1> DEFINE d == a * a + b * b + c * c
           p == (a - b) * (a - b)
           q == (b - c) * (b - c)
           r == (a - c) * (a - c)
           ss == s * s
<1>3. d \in Int /\ p \in Int /\ q \in Int /\ r \in Int /\ ss \in Int
  OBVIOUS
<1>4. 3 * d - ss = p + q + r /\ p >= 0 /\ q >= 0 /\ r >= 0 /\ d <= 17448319
  BY <1>1, <1>2
<1>5. s \in Int
  OBVIOUS
<1> HIDE DEF d, p, q, r, ss, s
<1>6. ss <= 52344957
  BY <1>3, <1>4
<1>7. ~(7236 <= s)
  <2> SUFFICES ASSUME 7236 <= s PROVE FALSE
    OBVIOUS
  <2>1. 7236 * 7236 <= s * 7236 /\ 7236 * s <= s * s
    BY <1>5, MulLe
  <2> QED BY <1>3, <1>5, <1>6, <2>1 DEF ss
<1> QED BY <1>5, <1>7 DEF s

\* The magnitudes of three numbers make m at most.
Together(a, b, c, m) ==
  /\ a \in Int /\ b \in Int /\ c \in Int
  /\ Upto(a + b + c, m) /\ Upto(a + b - c, m) /\ Upto(a - b + c, m) /\ Upto(a - b - c, m)

\* So do their magnitudes.
LEMMA RowTogether ==
  ASSUME NEW a \in Int, NEW b \in Int, NEW c \in Int,
         a * a + b * b + c * c <= 17448319
  PROVE  Together(a, b, c, 7235)
<1> DEFINE aa == a * a
           bb == b * b
           cc == c * c
<1>1. \A x \in Int : (-x) * (-x) = x * x
  OBVIOUS
<1>2. \A x, y, z \in Int : x * x = aa /\ y * y = bb /\ z * z = cc => x + y + z <= 7235
  BY SumsOfSquares
<1>3. /\ a * a = aa /\ (-a) * (-a) = aa /\ b * b = bb /\ (-b) * (-b) = bb
      /\ c * c = cc /\ (-c) * (-c) = cc
  BY <1>1
<1>4. -a \in Int /\ -b \in Int /\ -c \in Int
  OBVIOUS
<1> HIDE DEF aa, bb, cc
<1>5. /\ a + b + c <= 7235 /\ a + b + (-c) <= 7235 /\ a + (-b) + c <= 7235 /\ a + (-b) + (-c) <= 7235
  BY <1>2, <1>3, <1>4
<1>6. /\ (-a) + b + c <= 7235 /\ (-a) + b + (-c) <= 7235 /\ (-a) + (-b) + c <= 7235
      /\ (-a) + (-b) + (-c) <= 7235
  BY <1>2, <1>3, <1>4
<1> QED BY <1>5, <1>6 DEF Together, Upto

\* One entry of the row, scaled and rounded.
LEMMA PlacedEntry ==
  ASSUME NEW R \in Int, -7235 <= R, R <= 7235
  PROVE  LET S == fxp_mul(scale, Fixed, R, Trig, Fixed)
         IN  S \in Int /\ -2048 <= 4096 * S - 384 * R /\ 4096 * S - 384 * R <= 2048
<1> DEFINE v == 384 * R
           cut == v \div 4096
           c == IF 2 * (v % 4096) >= 4096 /\ cut # 131071 THEN cut + 1 ELSE cut
<1>1. v \in Int /\ -2778240 <= v /\ v <= 2778240
  OBVIOUS
<1>2. 1048576 \div 256 = 4096 /\ 536870911 \div 4096 = 131071
  BY SMT
<1>3. fxp_mul(scale, Fixed, R, Trig, Fixed) = Saturated(c, Fixed)
  BY <1>2, FixedFormat DEF fxp_mul, fxp_zoom, scale
<1> HIDE DEF v
<1>4. c \in Int /\ -2048 <= 4096 * c - v /\ 4096 * c - v <= 2048
  BY <1>1
<1> HIDE DEF c
<1>5. Saturated(c, Fixed) = c
  BY <1>1, <1>4, FixedFormat DEF Saturated
<1> QED BY <1>3, <1>4, <1>5 DEF v

\* Multiplied by a factor of the camera.
FactorNear(k, S, y) == y \in Int /\ -128 <= 256 * y - k * S /\ 256 * y - k * S <= 128

LEMMA FactorEntry ==
  ASSUME NEW k \in {464, 618}, NEW S \in Int, -679 <= S, S <= 679
  PROVE  FactorNear(k, S, k ** S)
<1> DEFINE v == k * S
<1>1. v \in Int /\ -419622 <= v /\ v <= 419622
  <2>1. CASE k = 464
    BY <2>1
  <2>2. CASE k = 618
    BY <2>2
  <2> QED BY <2>1, <2>2
<1>2. k ** S = Saturated(Rounds(v), Fixed)
  BY <1>1, FixedProduct
<1> HIDE DEF v
<1>3. Rounds(v) \in Int /\ -128 <= 256 * Rounds(v) - v /\ 256 * Rounds(v) - v <= 128
  BY <1>1, RoundsNear
<1>4. Saturated(Rounds(v), Fixed) = Rounds(v)
  BY <1>1, <1>3, FixedFormat DEF Saturated
<1> QED BY <1>2, <1>3, <1>4 DEF v, FactorNear

\* The scaled row, and the row scaled by the camera.
LEMMA PlacedTogether ==
  ASSUME NEW R1, NEW R2, NEW R3, Together(R1, R2, R3, 7235),
         NEW S1, S1 = fxp_mul(scale, Fixed, R1, Trig, Fixed),
         NEW S2, S2 = fxp_mul(scale, Fixed, R2, Trig, Fixed),
         NEW S3, S3 = fxp_mul(scale, Fixed, R3, Trig, Fixed)
  PROVE  Together(S1, S2, S3, 679)
<1>1. /\ R1 \in Int /\ -7235 <= R1 /\ R1 <= 7235 /\ R2 \in Int /\ -7235 <= R2 /\ R2 <= 7235
      /\ R3 \in Int /\ -7235 <= R3 /\ R3 <= 7235
  BY DEF Together, Upto
<1>2. S1 \in Int /\ -2048 <= 4096 * S1 - 384 * R1 /\ 4096 * S1 - 384 * R1 <= 2048
  BY <1>1, PlacedEntry
<1>3. S2 \in Int /\ -2048 <= 4096 * S2 - 384 * R2 /\ 4096 * S2 - 384 * R2 <= 2048
  BY <1>1, PlacedEntry
<1>4. S3 \in Int /\ -2048 <= 4096 * S3 - 384 * R3 /\ 4096 * S3 - 384 * R3 <= 2048
  BY <1>1, PlacedEntry
<1> QED BY <1>1, <1>2, <1>3, <1>4 DEF Together, Upto

LEMMA FactorTogether ==
  ASSUME NEW k \in {464, 618}, NEW S1, NEW S2, NEW S3, Together(S1, S2, S3, 679)
  PROVE  Together(k ** S1, k ** S2, k ** S3, 1641)
<1>1. /\ S1 \in Int /\ -679 <= S1 /\ S1 <= 679 /\ S2 \in Int /\ -679 <= S2 /\ S2 <= 679
      /\ S3 \in Int /\ -679 <= S3 /\ S3 <= 679
  BY DEF Together, Upto
<1> DEFINE y1 == k ** S1
           y2 == k ** S2
           y3 == k ** S3
<1>2. FactorNear(k, S1, y1)
  BY <1>1, FactorEntry
<1>3. FactorNear(k, S2, y2)
  BY <1>1, FactorEntry
<1>4. FactorNear(k, S3, y3)
  BY <1>1, FactorEntry
<1> HIDE DEF y1, y2, y3
<1>5. CASE k = 464
  <2>1. /\ -128 <= 256 * y1 - 464 * S1 /\ 256 * y1 - 464 * S1 <= 128
        /\ -128 <= 256 * y2 - 464 * S2 /\ 256 * y2 - 464 * S2 <= 128
        /\ -128 <= 256 * y3 - 464 * S3 /\ 256 * y3 - 464 * S3 <= 128
        /\ y1 \in Int /\ y2 \in Int /\ y3 \in Int
    BY <1>2, <1>3, <1>4, <1>5 DEF FactorNear
  <2>2. Together(y1, y2, y3, 1641)
    BY <1>1, <2>1 DEF Together, Upto
  <2> QED BY <2>2 DEF y1, y2, y3
<1>6. CASE k = 618
  <2>1. /\ -128 <= 256 * y1 - 618 * S1 /\ 256 * y1 - 618 * S1 <= 128
        /\ -128 <= 256 * y2 - 618 * S2 /\ 256 * y2 - 618 * S2 <= 128
        /\ -128 <= 256 * y3 - 618 * S3 /\ 256 * y3 - 618 * S3 <= 128
        /\ y1 \in Int /\ y2 \in Int /\ y3 \in Int
    BY <1>2, <1>3, <1>4, <1>6 DEF FactorNear
  <2>2. Together(y1, y2, y3, 1641)
    BY <1>1, <2>1 DEF Together, Upto
  <2> QED BY <2>2 DEF y1, y2, y3
<1> QED BY <1>5, <1>6

\* A vertex has the coordinates 1 and -1: the product only takes the sign.
LEMMA TimesCorner ==
  ASSUME NEW y \in Int, -32767 <= y, y <= 32767, NEW v \in {-One, One}
  PROVE  y ** v = IF v = One THEN y ELSE -y
<1>1. CASE v = One
  BY <1>1, TimesZeroOne DEF Length
<1>2. CASE v = -One
  <2>1. y * v = -256 * y /\ v # One
    BY <1>2 DEF One
  <2>2. Rounds(-256 * y) = -y
    BY DEF Rounds
  <2>3. Saturated(-y, Fixed) = -y
    BY FixedFormat DEF Saturated
  <2>4. -256 * y \in Int /\ -1073741824 <= -256 * y /\ -256 * y <= 1073741824
    OBVIOUS
  <2>5. y ** v = -y
    BY <2>1, <2>2, <2>3, <2>4, FixedProduct
  <2> QED BY <2>1, <2>5
<1> QED BY <1>1, <1>2

\* The sum of the three products, and what is added to it: no farther than m.
Around(x, m, y) == \E d \in Int : -m <= d /\ d <= m /\ x = Saturated(d + y, Fixed)

LEMMA TurnedDot ==
  ASSUME NEW y1, NEW y2, NEW y3, NEW m \in {679, 1641}, Together(y1, y2, y3, m),
         NEW v1 \in {-One, One}, NEW v2 \in {-One, One}, NEW v3 \in {-One, One},
         NEW y4, Length(y4)
  PROVE  Around(dot_product(<<y1, y2, y3, y4>>, <<v1, v2, v3, One>>), m, y4)
<1>1. /\ y1 \in Int /\ -1641 <= y1 /\ y1 <= 1641 /\ y2 \in Int /\ -1641 <= y2 /\ y2 <= 1641
      /\ y3 \in Int /\ -1641 <= y3 /\ y3 <= 1641
  BY DEF Together, Upto
<1> DEFINE z1 == y1 ** v1
           z2 == y2 ** v2
           z3 == y3 ** v3
           d == z1 + z2 + z3
<1>2. (z1 = y1 \/ z1 = -y1) /\ (z2 = y2 \/ z2 = -y2) /\ (z3 = y3 \/ z3 = -y3)
  BY <1>1, TimesCorner
<1>3. y4 ** One = y4
  BY TimesZeroOne
<1>4. dot_product(<<y1, y2, y3, y4>>, <<v1, v2, v3, One>>)
        = fxp_add(fxp_add(fxp_add(z1, z2, Fixed), z3, Fixed), y4, Fixed)
  BY <1>3, DotOf
<1> HIDE DEF z1, z2, z3
<1>5. z1 \in Int /\ z2 \in Int /\ z3 \in Int /\ d \in Int /\ -m <= d /\ d <= m
  BY <1>1, <1>2 DEF Together, Upto
<1>6. fxp_add(z1, z2, Fixed) = z1 + z2
  BY <1>1, <1>2, <1>5, FixedFormat DEF fxp_add, Saturated
<1>7. fxp_add(z1 + z2, z3, Fixed) = d
  BY <1>1, <1>2, <1>5, FixedFormat DEF fxp_add, Saturated
<1> QED BY <1>4, <1>5, <1>6, <1>7 DEF fxp_add, Around

\* A rotation: its rows have length 1, with the tolerance of Rigid.
LEMMA RigidRows ==
  ASSUME NEW R, \A k \in 1 .. 9 : R[k] \in Int, Rigid(R)
  PROVE  /\ Together(R[1], R[2], R[3], 7235) /\ Together(R[4], R[5], R[6], 7235)
         /\ Together(R[7], R[8], R[9], 7235)
<1> DEFINE D(i) == R[3*i - 2] * R[3*i - 2] + R[3*i - 1] * R[3*i - 1] + R[3*i] * R[3*i]
<1>1. \A i \in 1 .. 3 : NearUnit(D(i), Square)
  BY DEF Rigid, NearUnit
<1>2. /\ D(1) = R[1] * R[1] + R[2] * R[2] + R[3] * R[3]
      /\ D(2) = R[4] * R[4] + R[5] * R[5] + R[6] * R[6]
      /\ D(3) = R[7] * R[7] + R[8] * R[8] + R[9] * R[9]
  OBVIOUS
<1>3. /\ R[1] \in Int /\ R[2] \in Int /\ R[3] \in Int /\ R[4] \in Int /\ R[5] \in Int
      /\ R[6] \in Int /\ R[7] \in Int /\ R[8] \in Int /\ R[9] \in Int
  OBVIOUS
<1>4. \A d \in Int : NearUnit(d, Square) => d <= 17448319
  <2> SUFFICES ASSUME NEW d \in Int, NearUnit(d, Square)
               PROVE  d <= 17448319
    OBVIOUS
  <2>1. Square = 16777216 /\ 16777216 \div 64 = 262144
    BY TrigFormat
  <2> DEFINE m == Magnitude(d - 16777216)
  <2>2. m \in Nat /\ d <= 16777216 + m
    BY DEF Magnitude
  <2>3. 25 * (m \div 64) <= 262144
    BY <2>1 DEF NearUnit
  <2> HIDE DEF m
  <2>4. m <= 671103
    BY <2>2, <2>3
  <2> QED BY <2>2, <2>4
<1>5. D(1) \in Int /\ D(2) \in Int /\ D(3) \in Int
  BY <1>2, <1>3
<1> HIDE DEF D
<1>6. D(1) <= 17448319 /\ D(2) <= 17448319 /\ D(3) <= 17448319
  BY <1>1, <1>4, <1>5
<1>7. Together(R[1], R[2], R[3], 7235)
  BY <1>2, <1>3, <1>6, RowTogether
<1>8. Together(R[4], R[5], R[6], 7235)
  BY <1>2, <1>3, <1>6, RowTogether
<1>9. Together(R[7], R[8], R[9], 7235)
  BY <1>2, <1>3, <1>6, RowTogether
<1> QED BY <1>7, <1>8, <1>9

\* A turned vertex is no farther than m from where the object stands.
LEMMA TurnedCoordinates ==
  ASSUME NEW R, \A k \in 1 .. 9 : R[k] \in Int, Rigid(R),
         NEW T, Length(T.x), Length(T.y), Length(T.z), NEW v, Corner(v),
         NEW M, M = matrix_multiplier(camera, Placed(R, T))
  PROVE  LET p == Projected4(M, v)
         IN  /\ Around(p.x, 1641, 464 ** T.x)
             /\ Around(p.y, 1641, 618 ** T.y)
             /\ Around(p.w, 679, fxp_sub(T.z, z_pos, Fixed))
<1> DEFINE S(k) == ScaledEntry(R, k)
<1>1. /\ Together(S(1), S(2), S(3), 679) /\ Together(S(4), S(5), S(6), 679)
      /\ Together(S(7), S(8), S(9), 679)
  BY RigidRows, PlacedTogether DEF ScaledEntry
<1>2. /\ Length(S(1)) /\ Length(S(2)) /\ Length(S(3)) /\ Length(S(4)) /\ Length(S(5))
      /\ Length(S(6)) /\ Length(S(7)) /\ Length(S(8)) /\ Length(S(9))
  <2> HIDE DEF S
  <2> QED BY <1>1 DEF Together, Upto, Length
<1>3. \A k \in 1 .. 9 : Length(ScaledEntry(R, k))
  BY <1>2
<1>4. /\ M[1] = <<464 ** S(1), 464 ** S(2), 464 ** S(3), 464 ** T.x>>
      /\ M[2] = <<618 ** S(4), 618 ** S(5), 618 ** S(6), 618 ** T.y>>
      /\ M[4] = <<S(7), S(8), S(9), fxp_sub(T.z, z_pos, Fixed)>>
  BY <1>3, PlacedRows
<1> HIDE DEF S
<1>5. Together(464 ** S(1), 464 ** S(2), 464 ** S(3), 1641)
  BY <1>1, FactorTogether
<1>6. Together(618 ** S(4), 618 ** S(5), 618 ** S(6), 1641)
  BY <1>1, FactorTogether
<1>7. Length(464 ** T.x) /\ Length(618 ** T.y)
  <2>1. Length(464) /\ Length(618)
    BY DEF Length
  <2> QED BY <2>1, ProductLength
<1>8. Length(fxp_sub(T.z, z_pos, Fixed))
  BY FixedFormat DEF Length, fxp_sub, Saturated, z_pos
<1>9. v[1] \in {-One, One} /\ v[2] \in {-One, One} /\ v[3] \in {-One, One}
  BY DEF Corner
<1> DEFINE c == <<v[1], v[2], v[3], One>>
<1>10. Around(dot_product(M[1], c), 1641, 464 ** T.x)
  <2> DEFINE a == 464 ** S(1)
             b == 464 ** S(2)
             d == 464 ** S(3)
             y == 464 ** T.x
  <2>1. Together(a, b, d, 1641) /\ Length(y)
    BY <1>5, <1>7
  <2>2. M[1] = <<a, b, d, y>>
    BY <1>4
  <2> HIDE DEF a, b, d, y
  <2>3. Around(dot_product(<<a, b, d, y>>, c), 1641, y)
    BY <1>9, <2>1, TurnedDot
  <2>4. Around(dot_product(M[1], c), 1641, y)
    BY <2>2, <2>3
  <2> QED BY <2>4 DEF y
<1>11. Around(dot_product(M[2], c), 1641, 618 ** T.y)
  <2> DEFINE a == 618 ** S(4)
             b == 618 ** S(5)
             d == 618 ** S(6)
             y == 618 ** T.y
  <2>1. Together(a, b, d, 1641) /\ Length(y)
    BY <1>6, <1>7
  <2>2. M[2] = <<a, b, d, y>>
    BY <1>4
  <2> HIDE DEF a, b, d, y
  <2>3. Around(dot_product(<<a, b, d, y>>, c), 1641, y)
    BY <1>9, <2>1, TurnedDot
  <2>4. Around(dot_product(M[2], c), 1641, y)
    BY <2>2, <2>3
  <2> QED BY <2>4 DEF y
<1>12. Around(dot_product(M[4], c), 679, fxp_sub(T.z, z_pos, Fixed))
  <2> DEFINE a == S(7)
             b == S(8)
             d == S(9)
             y == fxp_sub(T.z, z_pos, Fixed)
  <2>1. Together(a, b, d, 679) /\ Length(y)
    BY <1>1, <1>8
  <2>2. M[4] = <<a, b, d, y>>
    BY <1>4
  <2> HIDE DEF a, b, d, y
  <2>3. Around(dot_product(<<a, b, d, y>>, c), 679, y)
    BY <1>9, <2>1, TurnedDot
  <2>4. Around(dot_product(M[4], c), 679, y)
    BY <2>2, <2>3
  <2> QED BY <2>4 DEF y
<1> QED BY <1>10, <1>11, <1>12 DEF Projected4

\* Far to a side, at a moderate depth, whatever the rotation.
Far(t) == t >= 31744 \/ t <= -31744

LEMMA FarCoordinate ==
  ASSUME NEW k \in {464, 618}, NEW t, Length(t), Far(t), NEW x, Around(x, 1641, k ** t)
  PROVE  Length(x) /\ (x >= 31124 \/ x <= -31124)
<1>1. t \in Int /\ -32768 <= t /\ t <= 32767
  BY DEF Length
<1> DEFINE y == k ** t
           n == k * t
<1>2. y = Saturated(Rounds(n), Fixed)
  BY ProductOfLength
<1> HIDE DEF y
<1>3. n \in Int /\ (n >= 14729216 \/ n <= -14729216)
  <2>1. CASE k = 464
    BY <1>1, <2>1 DEF Far
  <2>2. CASE k = 618
    BY <1>1, <2>2 DEF Far
  <2> QED BY <2>1, <2>2
<1> HIDE DEF n
<1>4. Rounds(n) \in Int /\ -128 <= 256 * Rounds(n) - n /\ 256 * Rounds(n) - n <= 128
  <2>1. n \in Int
    BY <1>3
  <2> QED BY <2>1 DEF Rounds
<1>5. y = 32767 \/ y = -32768
  <2> DEFINE r == Rounds(n)
  <2>1. r \in Int /\ (r >= 57000 \/ r <= -57000)
    BY <1>3, <1>4
  <2> HIDE DEF r
  <2>2. y = Saturated(r, Fixed)
    BY <1>2 DEF r
  <2> QED BY <2>1, <2>2, FixedFormat DEF Saturated
<1>6. PICK d \in Int : -1641 <= d /\ d <= 1641 /\ x = Saturated(d + y, Fixed)
  <2>1. Around(x, 1641, y)
    BY DEF y
  <2> QED BY <2>1 DEF Around
<1>7. x \in Int /\ -32768 <= x /\ x <= 32767 /\ (x >= 31124 \/ x <= -31124)
  BY <1>5, <1>6, FixedFormat DEF Saturated
<1> QED BY <1>7 DEF Length

\* The depth of a vertex, when the object is in front of the camera.
LEMMA ModerateDepth ==
  ASSUME NEW t, Length(t), -28288 <= t - z_pos, t - z_pos <= -384,
         NEW w, Around(w, 679, fxp_sub(t, z_pos, Fixed))
  PROVE  Length(w) /\ -28968 <= w /\ w <= 28968
<1>1. t \in Int
  BY DEF Length
<1>2. fxp_sub(t, z_pos, Fixed) = t - z_pos
  BY <1>1, FixedFormat DEF fxp_sub, Saturated, z_pos
<1>3. PICK d \in Int : -679 <= d /\ d <= 679 /\ w = Saturated(d + (t - z_pos), Fixed)
  BY <1>2 DEF Around
<1>4. w = d + (t - z_pos)
  BY <1>1, <1>3, FixedFormat DEF Saturated, z_pos
<1> QED BY <1>1, <1>3, <1>4 DEF Length, z_pos

\* The rotation by any three angles that display.sv can hold.
LEMMA RotationOf ==
  ASSUME SinesAreRound, NEW a \in 0 .. TwoPi, NEW b \in 0 .. TwoPi, NEW c \in 0 .. TwoPi
  PROVE  LET R == Rotation(cal_sin(a), cal_cos(a), cal_sin(b), cal_cos(b), cal_sin(c), cal_cos(c))
         IN  (\A k \in 1 .. 9 : R[k] \in Int) /\ Rigid(R)
<1>1. RoundPair(cal_sin(a), cal_cos(a)) /\ RoundPair(cal_sin(b), cal_cos(b))
      /\ RoundPair(cal_sin(c), cal_cos(c))
  BY SinesRoundPair
<1> QED BY <1>1, RoundIsRigid, RoundEntries DEF Entry

\* Nothing is shown of an object that is far to a side.
LEMMA FarIsHidden ==
  ASSUME SinesAreRound, NEW al, \A i \in Axis : al[i] \in 0 .. TwoPi,
         NEW p \in [Axis -> 0 .. Positions - 1],
         Far(Translate(p).x) \/ Far(Translate(p).y),
         -28288 <= Translate(p).z - z_pos, Translate(p).z - z_pos <= -384
  PROVE  Shown(View(al, p)) = {}
<1> DEFINE T == Translate(p)
           R == euler_angle_matrix(al["x"], al["y"], al["z"])
           M == mvp_matrix(al, T)
<1>1. Length(T.x) /\ Length(T.y) /\ Length(T.z)
  BY TranslateLength DEF Axis
<1>2. (\A k \in 1 .. 9 : R[k] \in Int) /\ Rigid(R)
  <2>1. al["x"] \in 0 .. TwoPi /\ al["y"] \in 0 .. TwoPi /\ al["z"] \in 0 .. TwoPi
    BY DEF Axis
  <2> QED BY <2>1, RotationOf DEF euler_angle_matrix
<1>3. M = matrix_multiplier(camera, Placed(R, T))
  BY DEF mvp_matrix, model_matrix
<1>4. -28288 <= T.z - z_pos /\ T.z - z_pos <= -384 /\ (Far(T.x) \/ Far(T.y))
  OBVIOUS
<1>5. View(al, p) = [v \in Vertices |-> Seen(Projected4(M, v))]
  BY DEF View, SeenBy
<1> HIDE DEF T, R, M
<1>6. ASSUME NEW v \in Vertices
      PROVE  Beyond(View(al, p)[v].pixel)
  <2> DEFINE c == Projected4(M, v)
  <2>1. /\ Around(c.x, 1641, 464 ** T.x) /\ Around(c.y, 1641, 618 ** T.y)
        /\ Around(c.w, 679, fxp_sub(T.z, z_pos, Fixed))
    BY <1>1, <1>2, <1>3, VerticesAreCorners, TurnedCoordinates
  <2>2. View(al, p)[v].pixel = <<Viewport(c.x, c.w, width), Viewport(c.y, c.w, height)>>
    BY <1>5 DEF Seen, PixelOf
  <2> HIDE DEF c
  <2>3. Length(c.w) /\ -28968 <= c.w /\ c.w <= 28968
    BY <1>1, <1>4, <2>1, ModerateDepth
  <2>4. CASE Far(T.x)
    <3>1. Length(c.x) /\ (c.x >= 31124 \/ c.x <= -31124)
      BY <1>1, <2>1, <2>4, FarCoordinate
    <3>2. Viewport(c.x, c.w, 640) > 640
      BY <2>3, <3>1, FarIsBeyond
    <3> QED BY <2>2, <3>2 DEF Beyond, width
  <2>5. CASE Far(T.y)
    <3>1. Length(c.y) /\ (c.y >= 31124 \/ c.y <= -31124)
      BY <1>1, <2>1, <2>5, FarCoordinate
    <3>2. Viewport(c.y, c.w, 480) > 480
      BY <2>3, <3>1, FarIsBeyond
    <3> QED BY <2>2, <3>2 DEF Beyond, height
  <2> QED BY <1>4, <2>4, <2>5
<1>7. ASSUME NEW t \in Triangles
      PROVE  t[1] \in Vertices
  BY DEF Triangles, Vertices
<1> QED BY <1>6, <1>7 DEF Shown, clip

\* A step that takes a coordinate to the other side.
LEMMA WrapIsFar ==
  ASSUME Positions >= 64, Positions * (65536 \div Positions) = 65536,
         NEW p \in [Axis -> 0 .. Positions - 1], NEW q \in [Axis -> 0 .. Positions - 1], NEW i \in Axis,
         q[i] = p[i] \/ q[i] = (p[i] + 1) % Positions \/ q[i] = (p[i] + (-1)) % Positions,
         Magnitude(Translate(q)[i] - Translate(p)[i]) > Fixed.most
  PROVE  Far(Translate(p)[i]) /\ Far(Translate(q)[i])
<1> DEFINE f == 65536 \div Positions
           u == p[i] * f
           w == q[i] * f
<1>0. Positions \in Nat /\ p[i] \in Nat /\ p[i] <= Positions - 1 /\ q[i] \in Nat /\ q[i] <= Positions - 1
  BY DisplayAssumption
<1>1. f \in Nat /\ Positions * f = 65536
  BY <1>0
<1> HIDE DEF f
<1>2. f <= 1024
  <2>1. 64 * f <= Positions * f
    BY <1>0, <1>1, MulLe
  <2> QED BY <1>1, <2>1
<1>3. u \in Nat /\ w \in Nat /\ u <= 65535 /\ w <= 65535
  <2>1. 1 <= f
    <3>1. f = 0 => Positions * f = 0
      BY <1>0
    <3> QED BY <1>1, <3>1
  <2>2. (p[i] + 1) * f <= Positions * f /\ (q[i] + 1) * f <= Positions * f
    BY <1>0, <1>1, MulLe
  <2>3. (p[i] + 1) * f = u + f /\ (q[i] + 1) * f = w + f
    BY <1>0, <1>1
  <2>4. u \in Nat /\ w \in Nat
    BY <1>0, <1>1
  <2> HIDE DEF u, w
  <2> QED BY <1>1, <2>1, <2>2, <2>3, <2>4
<1>4. w = u \/ w = u + f \/ w = u - f \/ (u = 0 /\ w = 65536 - f) \/ (w = 0 /\ u = 65536 - f)
  <2>1. \/ q[i] = p[i] \/ q[i] = p[i] + 1 \/ q[i] = p[i] - 1
        \/ (p[i] = 0 /\ q[i] = Positions - 1) \/ (q[i] = 0 /\ p[i] = Positions - 1)
    <3>1. p[i] + 1 < Positions => (p[i] + 1) % Positions = p[i] + 1
      BY <1>0
    <3>2. p[i] + 1 = Positions => (p[i] + 1) % Positions = 0
      BY <1>0
    <3>3. p[i] + (-1) >= 0 => (p[i] + (-1)) % Positions = p[i] - 1
      BY <1>0
    <3>4. p[i] = 0 => (p[i] + (-1)) % Positions = Positions - 1
      BY <1>0
    <3> QED BY <1>0, <3>1, <3>2, <3>3, <3>4
  <2>2. (Positions - 1) * f = 65536 - f /\ (p[i] + 1) * f = u + f /\ (p[i] - 1) * f = u - f /\ 0 * f = 0
    BY <1>0, <1>1
  <2> QED BY <1>0, <2>1, <2>2
<1>5. /\ Translate(p)[i] = IF u > 32767 THEN u - 65536 ELSE u
      /\ Translate(q)[i] = IF w > 32767 THEN w - 65536 ELSE w
  BY FixedFormat DEF Translate, u, w, f
<1>6. Fixed.most = 32767
  BY FixedFormat
<1> DEFINE a == Translate(p)[i]
           b == Translate(q)[i]
<1>7. Magnitude(b - a) > 32767
  BY <1>6
<1> HIDE DEF u, w, a, b
<1>8. a = (IF u > 32767 THEN u - 65536 ELSE u) /\ b = (IF w > 32767 THEN w - 65536 ELSE w)
  BY <1>5 DEF a, b
<1>9. Far(a) /\ Far(b)
  BY <1>1, <1>2, <1>3, <1>4, <1>7, <1>8 DEF Far, Magnitude
<1> QED BY <1>9 DEF a, b

\* One frame moves one coordinate by one step.
LEMMA OneStep ==
  ASSUME NEW i \in Axis, pos \in [Axis -> 0 .. Positions - 1], FrameEdge
  PROVE  /\ \/ pos'[i] = pos[i]
            \/ pos'[i] = (pos[i] + 1) % Positions
            \/ pos'[i] = (pos[i] + (-1)) % Positions
         /\ i # "z" /\ pos'[i] # pos[i] => pos'["z"] = pos["z"]
<1>1. ASSUME NEW j \in Axis, NEW step \in {-1, 1}, pos' = Moved(j, step)
      PROVE  /\ pos'[j] = (pos[j] + step) % Positions
             /\ \A k \in Axis : k # j => pos'[k] = pos[k]
  BY <1>1 DEF Moved
<1>2. "x" \in Axis /\ "y" \in Axis /\ "z" \in Axis
  BY DEF Axis
<1>3. \/ pos' = pos
      \/ \E j \in Axis : pos' = Moved(j, 1) \/ pos' = Moved(j, -1)
  BY <1>2 DEF FrameEdge, NextPosition
<1>4. CASE pos' = pos
  BY <1>4
<1>5. CASE \E j \in Axis : pos' = Moved(j, 1) \/ pos' = Moved(j, -1)
  <2> PICK j \in Axis : pos' = Moved(j, 1) \/ pos' = Moved(j, -1)
    BY <1>5
  <2>1. /\ pos'[j] = (pos[j] + 1) % Positions \/ pos'[j] = (pos[j] + (-1)) % Positions
        /\ \A k \in Axis : k # j => pos'[k] = pos[k]
    BY <1>1
  <2> QED BY <1>2, <2>1
<1> QED BY <1>3, <1>4, <1>5

\* How deep the object is, when all of it is in front of the camera and near.
LEMMA ObjectDepth ==
  ASSUME pos \in [Axis -> 0 .. Positions - 1],
         \A v \in Vertices : ~Distant(v) /\ Along(v) < 0
  PROVE  /\ -28288 <= Translate(pos).z - z_pos
         /\ Translate(pos).z - z_pos <= -384
<1> DEFINE d == Translate(pos).z - z_pos
<1>1. P(1) \in Vertices /\ P(5) \in Vertices
  BY DEF Vertices
<1>2. P(1)[3] = -256 /\ P(5)[3] = 256
  BY DEF P, One
<1>3. Length(Translate(pos).z)
  BY TranslateLength DEF Axis
<1>4. d \in Int
  BY <1>3 DEF Length, z_pos
<1>5. (384 * (-256)) \div 256 = -384 /\ (384 * 256) \div 256 = 384
  <2>1. \A y \in Int : y + 98304 = 0 => y \div 256 = -384
    OBVIOUS
  <2> QED BY <2>1
<1>6. Off(P(1), 3) = -384 + Translate(pos).z /\ Off(P(5), 3) = 384 + Translate(pos).z
  <2>1. <<"x", "y", "z">>[3] = "z"
    OBVIOUS
  <2> QED BY <1>2, <1>5, <2>1 DEF Off, scale, One
<1>7. Along(P(1)) = -384 + d /\ Along(P(5)) = 384 + d
  BY <1>3, <1>6 DEF Along, Length, z_pos
<1>8. -28672 <= Along(P(1)) /\ Along(P(5)) < 0
  BY <1>1, <1>4, <1>7 DEF Distant, One
<1> HIDE DEF d
<1>9. -28288 <= d /\ d <= -384
  BY <1>4, <1>7, <1>8
<1> QED BY <1>9 DEF d

\* One coordinate of one frame.
LEMMA WrapIsHidden ==
  ASSUME SinesAreRound, Positions >= 64, Positions * (65536 \div Positions) = 65536,
         ViewIsCurrent, ViewIsCurrent', TypeOK, TypeOK', InRange, InRange',
         FrameEdge, NEW i \in {"x", "y"},
         Magnitude(Translate(pos')[i] - Translate(pos)[i]) > Fixed.most,
         \A v \in Vertices : ~Distant(v) /\ Along(v) < 0
  PROVE  Shown(view) = {} /\ Shown(view') = {}
<1>1. i \in Axis /\ pos \in [Axis -> 0 .. Positions - 1] /\ pos' \in [Axis -> 0 .. Positions - 1]
  BY DEF Axis, TypeOK
<1>2. /\ pos'[i] = pos[i] \/ pos'[i] = (pos[i] + 1) % Positions \/ pos'[i] = (pos[i] + (-1)) % Positions
      /\ pos'[i] # pos[i] => pos'["z"] = pos["z"]
  BY <1>1, OneStep
<1>3. Far(Translate(pos)[i]) /\ Far(Translate(pos')[i])
  BY <1>1, <1>2, WrapIsFar
<1>4. Translate(pos').z = Translate(pos).z
  <2>1. pos'[i] # pos[i]
    <3> SUFFICES ASSUME pos'[i] = pos[i]
                 PROVE  FALSE
      OBVIOUS
    <3>1. Translate(pos')[i] = Translate(pos)[i]
      BY <1>1 DEF Translate
    <3>2. Length(Translate(pos)[i])
      BY <1>1, TranslateLength
    <3>3. Magnitude(Translate(pos')[i] - Translate(pos)[i]) = 0
      BY <3>1, <3>2 DEF Magnitude, Length
    <3> QED BY <3>3, FixedFormat
  <2> QED BY <1>1, <1>2, <2>1 DEF Translate, Axis
<1>5. -28288 <= Translate(pos).z - z_pos /\ Translate(pos).z - z_pos <= -384
  BY <1>1, ObjectDepth
<1>6. (\A k \in Axis : angle[k] \in 0 .. TwoPi) /\ (\A k \in Axis : angle'[k] \in 0 .. TwoPi)
  BY DEF InRange
<1>7. Far(Translate(pos).x) \/ Far(Translate(pos).y)
  BY <1>3
<1>8. Far(Translate(pos').x) \/ Far(Translate(pos').y)
  BY <1>3
<1>9. Shown(View(angle, pos)) = {}
  BY <1>1, <1>5, <1>6, <1>7, FarIsHidden
<1>10. Shown(View(angle', pos')) = {}
  BY <1>1, <1>4, <1>5, <1>6, <1>8, FarIsHidden
<1> QED BY <1>9, <1>10 DEF ViewIsCurrent

(* A coordinate that wraps takes nothing across the screen: in the frames  *)
(* before and after, all of the object is beyond a side, however it has    *)
(* turned.  The code's Positions are 2^11 of the 2^16 of a coordinate.     *)
THEOREM SideWrapIsHidden ==
  ASSUME SinesAreRound, Positions >= 64, Positions * (65536 \div Positions) = 65536
  PROVE  SceneSpec => SideWrapHidden
<1>1. ViewIsCurrent /\ ViewIsCurrent' /\ (TypeOK /\ InRange) /\ (TypeOK /\ InRange)'
        => [\A i \in {"x", "y"} :
              /\ FrameEdge /\ Magnitude(Translate(pos')[i] - Translate(pos)[i]) > Fixed.most
              /\ \A v \in Vertices : ~Distant(v) /\ Along(v) < 0
              => Shown(view) = {} /\ Shown(view') = {}]_sceneVars
  BY WrapIsHidden
<1> QED BY <1>1, ViewStaysCurrent, SceneIsDisplay, AnglesStayInRange, PTL DEF SideWrapHidden
=============================================================================
