---------------------------- MODULE DrawTriangle ----------------------------
(***************************************************************************)
(* draw_triangle.sv: has draw_line draw the three edges of a triangle, one *)
(* after the other.  A triangle is a sequence of three points <<x, y>>.    *)
(***************************************************************************)
EXTENDS Naturals

VARIABLE curr_state

State == {"Wait", "Trigger1", "Draw1", "Trigger2", "Draw2", "Trigger3", "Draw3", "Done"}

TypeOK == curr_state \in State

Init == curr_state = "Wait"

draw_line_start == curr_state \in {"Trigger1", "Trigger2", "Trigger3"}
draw_triangle_done == curr_state = "Done"

Between(a, b) == [x0 |-> a[1], y0 |-> a[2], x1 |-> b[1], y1 |-> b[2]]

\* The wires x0, y0, x1, y1: the edge being drawn.
Edge(V) == CASE curr_state \in {"Trigger1", "Draw1"} -> Between(V[1], V[2])
             [] curr_state \in {"Trigger2", "Draw2"} -> Between(V[2], V[3])
             [] curr_state \in {"Trigger3", "Draw3"} -> Between(V[3], V[1])
             [] OTHER -> Between(<<0, 0>>, <<0, 0>>)

\* Mutant: a triangle is done after its first edge.
StepOneEdge(draw_triangle_start, draw_line_done) ==
  CASE curr_state = "Wait" -> IF draw_triangle_start THEN "Trigger1" ELSE "Wait"
    [] curr_state = "Trigger1" -> "Draw1"
    [] curr_state = "Draw1" -> IF draw_line_done THEN "Done" ELSE "Draw1"
    [] OTHER -> IF draw_triangle_start THEN "Done" ELSE "Wait"

Step(draw_triangle_start, draw_line_done) ==
  CASE curr_state = "Wait" -> IF draw_triangle_start THEN "Trigger1" ELSE "Wait"
    [] curr_state = "Trigger1" -> "Draw1"
    [] curr_state = "Draw1" -> IF draw_line_done THEN "Trigger2" ELSE "Draw1"
    [] curr_state = "Trigger2" -> "Draw2"
    [] curr_state = "Draw2" -> IF draw_line_done THEN "Trigger3" ELSE "Draw2"
    [] curr_state = "Trigger3" -> "Draw3"
    [] curr_state = "Draw3" -> IF draw_line_done THEN "Done" ELSE "Draw3"
    [] curr_state = "Done" -> IF draw_triangle_start THEN "Done" ELSE "Wait"

Tick(Reset, draw_triangle_start, draw_line_done) ==
  curr_state' = IF Reset THEN "Wait" ELSE Step(draw_triangle_start, draw_line_done)
=============================================================================
