------------------------------ MODULE DrawLine ------------------------------
(***************************************************************************)
(* draw_line.sv: Bresenham's algorithm, one pixel a cycle, in registers of *)
(* 10 bits.  Half is 2^9 in the source: coordinates are 0 .. 2 * Half - 1, *)
(* err, dx and dy as signed numbers are -Half .. Half - 1.                 *)
(***************************************************************************)
EXTENDS Integers

CONSTANTS Half,     \* half the range of a register
          Lines     \* the lines draw_triangle asks for

Coord == 0 .. 2 * Half - 1
Line == [x0 : Coord, y0 : Coord, x1 : Coord, y1 : Coord]

ASSUME LineAssumption == Half \in Nat \ {0} /\ Lines \subseteq Line

VARIABLES curr_state, x, y, err,
          line      \* the wires x0, y0, x1, y1, held while a line is drawn

vars == <<curr_state, x, y, err, line>>

TypeOK == /\ curr_state \in {"Wait", "Draw", "Done"}
          /\ x \in Coord /\ y \in Coord
          /\ err \in -Half .. Half - 1
          /\ line \in Line

-----------------------------------------------------------------------------
(* Arithmetic: the value a register takes, unsigned and signed, when a sum *)
(* leaves its range by less than the range.                                *)
Wrap(v) == IF v < 0 THEN v + 2 * Half ELSE IF v >= 2 * Half THEN v - 2 * Half ELSE v
Signed(v) == IF v < -Half THEN v + 2 * Half ELSE IF v >= Half THEN v - 2 * Half ELSE v

Distance(a, b) == IF b > a THEN b - a ELSE a - b
dx(l) == Distance(l.x0, l.x1)
dy(l) == Distance(l.y0, l.y1)

\* Mutant: every step goes right.
sx_right(l) == 1

\* One step from a towards b is +1 or, the all-ones register, -1.
sx(l) == IF l.x0 < l.x1 THEN 1 ELSE -1
sy(l) == IF l.y0 < l.y1 THEN 1 ELSE -1

\* Mutants of the start value: the shorter extent; the vertical extent always.
temp_err_shorter(l) == Signed(IF dx(l) < dy(l) THEN dx(l) ELSE -dy(l))
temp_err_vertical(l) == Signed(-dy(l))

temp_err(l) == Signed(IF dx(l) > dy(l) THEN dx(l) ELSE -dy(l))

-----------------------------------------------------------------------------
Init == /\ curr_state = "Wait"
        /\ x = 0 /\ y = 0 /\ err = 0
        /\ line = [x0 |-> 0, y0 |-> 0, x1 |-> 0, y1 |-> 0]

draw_line_done == curr_state = "Done"

AtEnd(l) == x = l.x1 /\ y = l.y1

\* Mutant: the position, which has left the line when it is done.
DrawPixelPast(l) == <<x, y>>

\* The pixel on DrawX, DrawY.
DrawPixel(l) == IF curr_state = "Done" THEN <<l.x1, l.y1>> ELSE <<x, y>>

Waiting(start, l) ==
  /\ curr_state = "Wait"
  /\ curr_state' = IF start THEN "Draw" ELSE "Wait"
  /\ x' = l.x0
  /\ y' = l.y0
  /\ err' = temp_err(l) \div 2

\* Mutant: a strict comparison.
MoveXStrict(l) == err > Signed(dy(l))

MoveX(l) == err >= Signed(dy(l))
MoveY(l) == ~MoveX(l) /\ err <= Signed(-Signed(dx(l)))

Drawing(l) ==
  /\ curr_state = "Draw"
  /\ curr_state' = IF AtEnd(l) THEN "Done" ELSE "Draw"
  /\ \/ MoveX(l) /\ x' = Wrap(x + sx(l)) /\ y' = y /\ err' = Signed(err - dy(l))
     \/ MoveY(l) /\ x' = x /\ y' = Wrap(y + sy(l)) /\ err' = Signed(err + dx(l))
     \/ /\ ~MoveX(l) /\ ~MoveY(l)
        /\ x' = Wrap(x + sx(l)) /\ y' = Wrap(y + sy(l))
        /\ err' = Signed(err + dx(l) - dy(l))

Finished(start, l) ==
  /\ curr_state = "Done"
  /\ curr_state' = IF start THEN "Done" ELSE "Wait"
  /\ x' = l.x1 /\ y' = l.y1 /\ err' = err

Tick(Reset, start, l) ==
  \/ ~Reset /\ (Waiting(start, l) \/ Drawing(l) \/ Finished(start, l))
  \/ Reset /\ curr_state' = "Wait" /\ x' = 0 /\ y' = 0 /\ err' = 0

-----------------------------------------------------------------------------
(* The module alone, driven as draw_triangle.sv drives it: start is high   *)
(* for one cycle, while draw_line waits, and the end points are held until *)
(* the line is done.                                                       *)
Start(l) == /\ curr_state = "Wait"
            /\ Tick(FALSE, TRUE, l)
            /\ line' = l

Idle == curr_state = "Wait" /\ Tick(FALSE, FALSE, line) /\ UNCHANGED line

Work == curr_state # "Wait" /\ Tick(FALSE, FALSE, line) /\ UNCHANGED line

PressReset == Tick(TRUE, FALSE, line) /\ UNCHANGED line

Next == (\E l \in Lines : Start(l)) \/ Idle \/ Work \/ PressReset

Spec == Init /\ [][Next]_vars

\* The clock does not stop while a line is being drawn.
FairSpec == Spec /\ WF_vars(Work)

-----------------------------------------------------------------------------
(* The lines the registers can follow.  A step of one pixel in both        *)
(* directions starts with err = -1, which already allows a y step, and     *)
(* misses its end; from Half pixels on, dx or dy is negative when signed.  *)
Drawable(l) == /\ dx(l) < Half /\ dy(l) < Half
               /\ ~(dx(l) = 1 /\ dy(l) = 1)

Between(v, a, b) == (a <= v /\ v <= b) \/ (b <= v /\ v <= a)

Largest(a, b) == IF a > b THEN a ELSE b

\* How far the current pixel is from the first one in each direction.
ax == Distance(line.x0, x)
ay == Distance(line.y0, y)

(* The walk stays in the rectangle its end points span, and within one     *)
(* pixel of the straight line between them (draw_line.sv:1).               *)
StaysInBox == curr_state = "Draw" /\ Drawable(line) =>
                Between(x, line.x0, line.x1) /\ Between(y, line.y0, line.y1)

NearLine == curr_state = "Draw" /\ Drawable(line) /\ ~(line.x0 = line.x1 /\ line.y0 = line.y1) =>
              LET off == ax * dy(line) - ay * dx(line)
                  longest == Largest(dx(line), dy(line))
              IN  -longest < off /\ off < longest

\* A pixel of the line l: in its rectangle, and within one pixel of the straight
\* line.
OfLine(px, py, l) ==
  LET off == Distance(l.x0, px) * dy(l) - Distance(l.y0, py) * dx(l)
      longest == Largest(dx(l), dy(l))
  IN  /\ Between(px, l.x0, l.x1) /\ Between(py, l.y0, l.y1)
      /\ longest = 0 \/ (-longest < off /\ off < longest)

\* How far along its longer extent the pixel is.
Along(px, py, l) == IF dx(l) >= dy(l) THEN Distance(l.x0, px) ELSE Distance(l.y0, py)

\* Pixels still to go in each direction.
Remaining == Distance(x, line.x1) + Distance(y, line.y1)

(* Every cycle of the walk brings it nearer to its end.                    *)
ComesCloser == [][curr_state = "Draw" /\ curr_state' = "Draw" /\ Drawable(line)
                    => Remaining' < Remaining]_vars

(* Every drawable line is drawn: draw_line_done rises.                     *)
DrawableLineEnds == curr_state = "Draw" /\ Drawable(line) ~> curr_state # "Draw"

(* draw_line.sv:5 says of draw_line_done "high when drawing is done", of   *)
(* any line: draw.sv and the frame wait for it.                            *)
EveryLineEnds == curr_state = "Draw" ~> curr_state # "Draw"
=============================================================================
