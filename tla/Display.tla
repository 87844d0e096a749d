------------------------------ MODULE Display ------------------------------
(***************************************************************************)
(* display.sv: the pose of the object.  At every rising edge of the frame  *)
(* clock each axis turns by its angular velocity, and the key held down    *)
(* changes one velocity or one coordinate; with no key, friction slows all *)
(* three axes.  Angles and velocities are registers of 12 bits, HalfWord   *)
(* is 2^11; a coordinate is 16 bits wide and moves by 2^5, so that it has  *)
(* Positions = 2^11 values.                                                *)
(***************************************************************************)
EXTENDS Integers

CONSTANTS HalfWord, TwoPi, angle_v_max, angle_a, angle_friction,
          Positions, ZStart,
          Keys      \* the keys that are used, among AllKeys

Axis == {"x", "y", "z"}
AllKeys == {"none", "w", "s", "a", "d", "q", "e",
            "up", "down", "left", "right", "z", "x"}

ASSUME DisplayAssumption ==
  /\ HalfWord \in Nat /\ TwoPi \in Nat /\ Positions \in Nat \ {0}
  /\ angle_a \in Nat \ {0} /\ angle_v_max \in Nat
  /\ angle_friction \in 1 .. angle_v_max
  /\ angle_v_max <= TwoPi
  /\ TwoPi + angle_v_max < HalfWord /\ angle_v_max + angle_a < HalfWord
  /\ ZStart \in 0 .. Positions - 1
  /\ Keys \subseteq AllKeys

VARIABLES angle, angle_v, pos,
          keycode   \* written by the Nios processor whenever a report arrives

vars == <<angle, angle_v, pos, keycode>>

Word == -HalfWord .. HalfWord - 1

TypeOK == /\ angle \in [Axis -> Word]
          /\ angle_v \in [Axis -> Word]
          /\ pos \in [Axis -> 0 .. Positions - 1]
          /\ keycode \in AllKeys

-----------------------------------------------------------------------------
(* The 12-bit register read as a signed and as an unsigned number.         *)
Signed(v) == IF v >= HalfWord THEN v - 2 * HalfWord
             ELSE IF v < -HalfWord THEN v + 2 * HalfWord ELSE v
Unsigned(v) == IF v < 0 THEN v + 2 * HalfWord ELSE v

\* Mutant: an angle that stops at a full turn.
TurnedClamped(al, v) == IF Signed(al + v) >= TwoPi THEN 0
                        ELSE IF Signed(al + v) <= 0 THEN TwoPi
                        ELSE Signed(al + v)

\* The angle an axis has after turning by v.
Turned(al, v) == IF Signed(al + v) >= TwoPi THEN Signed(al + v - TwoPi)
                 ELSE IF Signed(al + v) <= 0 THEN Signed(al + v + TwoPi)
                 ELSE Signed(al + v)

\* Mutant: the limit is compared before the acceleration is added.
SpedUpLate(v) == IF Unsigned(v) > angle_v_max THEN angle_v_max
                 ELSE Signed(v + angle_a)

\* Keys w, a and q: the comparison is of unsigned numbers.
SpedUp(v) == IF Unsigned(Signed(v + angle_a)) > angle_v_max THEN angle_v_max
             ELSE Signed(v + angle_a)

\* Key s, and keys d and e.
SlowedY(v) == IF Signed(v - angle_a) < -angle_v_max THEN -angle_v_max
              ELSE Signed(v - angle_a)
SlowedXZ(v) == IF Signed(v + angle_v_max) < angle_a THEN -angle_v_max
               ELSE Signed(v - angle_a)

\* Mutant: no resting point at 0.
BrakedPastZero(v) == IF v > 0 THEN Signed(v - angle_friction)
                     ELSE Signed(v + angle_friction)

\* No key: friction.
Braked(v) == IF Unsigned(v) < angle_friction /\ v > -angle_friction THEN 0
             ELSE IF v > 0 THEN Signed(v - angle_friction)
             ELSE Signed(v + angle_friction)

NextVelocity ==
  CASE keycode = "w" -> [angle_v EXCEPT !["y"] = SpedUp(@)]
    [] keycode = "s" -> [angle_v EXCEPT !["y"] = SlowedY(@)]
    [] keycode = "a" -> [angle_v EXCEPT !["z"] = SpedUp(@)]
    [] keycode = "d" -> [angle_v EXCEPT !["z"] = SlowedXZ(@)]
    [] keycode = "q" -> [angle_v EXCEPT !["x"] = SpedUp(@)]
    [] keycode = "e" -> [angle_v EXCEPT !["x"] = SlowedXZ(@)]
    [] keycode = "none" -> [i \in Axis |-> Braked(angle_v[i])]
    [] OTHER -> angle_v

Moved(i, step) == [pos EXCEPT ![i] = (@ + step) % Positions]

NextPosition ==
  CASE keycode = "up"    -> Moved("z", 1)
    [] keycode = "down"  -> Moved("z", -1)
    [] keycode = "left"  -> Moved("x", -1)
    [] keycode = "right" -> Moved("x", 1)
    [] keycode = "z"     -> Moved("y", 1)
    [] keycode = "x"     -> Moved("y", -1)
    [] OTHER -> pos

-----------------------------------------------------------------------------
AtStart(al, v, p) == /\ al = [i \in Axis |-> 0]
                     /\ v = [i \in Axis |-> 0]
                     /\ p = [i \in Axis |-> IF i = "z" THEN ZStart ELSE 0]

Init == AtStart(angle, angle_v, pos) /\ keycode = "none"

\* A cycle of Clk in which frame_clk_rising_edge is high.
FrameEdge == /\ angle' = [i \in Axis |-> Turned(angle[i], angle_v[i])]
             /\ angle_v' = NextVelocity
             /\ pos' = NextPosition
             /\ UNCHANGED keycode

PressReset == AtStart(angle', angle_v', pos') /\ UNCHANGED keycode

KeyReport(k) == keycode' = k /\ UNCHANGED <<angle, angle_v, pos>>

Next == FrameEdge \/ PressReset \/ \E k \in Keys : KeyReport(k)

Spec == Init /\ [][Next]_vars

\* Frames keep coming: the VGA controller runs freely.
FairSpec == Spec /\ WF_vars(FrameEdge)

-----------------------------------------------------------------------------
Abs(v) == IF v < 0 THEN -v ELSE v

(* The sums that wrap in 12 bits and the unsigned comparisons never let an *)
(* angle leave 0 .. TwoPi or a velocity its limits.                        *)
InRange == \A i \in Axis : /\ angle[i] \in 0 .. TwoPi
                           /\ angle_v[i] \in -angle_v_max .. angle_v_max

(* Whatever wraps, a frame turns every axis by its velocity, up to a full  *)
(* turn; in particular an axis at rest, whose angle alternates between 0   *)
(* and TwoPi, is at rest.                                                  *)
FullTurns == {-TwoPi, 0, TwoPi}
TurnsByVelocity ==
  [][FrameEdge => \A i \in Axis : angle'[i] - angle[i] - angle_v[i] \in FullTurns]_vars

(* Friction slows every axis and never reverses it.                        *)
FrictionBrakes ==
  [][FrameEdge /\ keycode = "none" =>
       \A i \in Axis : /\ angle_v[i] # 0 => Abs(angle_v'[i]) < Abs(angle_v[i])
                       /\ angle_v[i] >= 0 => angle_v'[i] >= 0
                       /\ angle_v[i] <= 0 => angle_v'[i] <= 0]_vars

(* When the keyboard is left alone the object comes to rest.               *)
ComesToRest == <>[](keycode = "none") => <>[](\A i \in Axis : angle_v[i] = 0)

(* renderer_top.sv:3: "control the rotation, translation of the module     *)
(* smoothly using keyboard": one frame changes a velocity by one           *)
(* acceleration at most.                                                   *)
SmoothRotation ==
  [][FrameEdge => \A i \in Axis : Abs(angle_v'[i] - angle_v[i]) <= angle_a]_vars
=============================================================================
