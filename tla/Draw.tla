-------------------------------- MODULE Draw --------------------------------
(***************************************************************************)
(* draw.sv: takes the projected triangles from the fifo one by one and has *)
(* draw_triangle draw each, until the fifo is empty.                       *)
(***************************************************************************)
CONSTANTS Word,         \* what the fifo can put on its output
          NoTriangle    \* the value 0 of the registers V1, V2, V3

VARIABLES curr_state,
          V             \* the registers V1, V2, V3: the triangle being drawn

vars == <<curr_state, V>>

TypeOK == /\ curr_state \in {"Wait", "Take1", "Take2", "Draw", "Done"}
          /\ V \in Word \union {NoTriangle}

Init == /\ curr_state = "Done"
        /\ V = NoTriangle

fifo_r == curr_state = "Take1"
draw_triangle_start == curr_state = "Draw"
draw_done == curr_state = "Done"

\* Mutant: one triangle a frame is drawn.
StepOneTriangle(draw_start, fifo_empty, draw_triangle_done) ==
  CASE curr_state = "Wait" -> IF draw_start THEN "Take1" ELSE "Wait"
    [] curr_state = "Take1" -> IF fifo_empty THEN "Done" ELSE "Take2"
    [] curr_state = "Take2" -> "Draw"
    [] curr_state = "Draw" -> IF draw_triangle_done THEN "Done" ELSE "Draw"
    [] curr_state = "Done" -> "Wait"

Step(draw_start, fifo_empty, draw_triangle_done) ==
  CASE curr_state = "Wait" -> IF draw_start THEN "Take1" ELSE "Wait"
    [] curr_state = "Take1" -> IF fifo_empty THEN "Done" ELSE "Take2"
    [] curr_state = "Take2" -> "Draw"
    [] curr_state = "Draw" -> IF draw_triangle_done THEN "Take1" ELSE "Draw"
    [] curr_state = "Done" -> "Wait"

Tick(Reset, draw_start, triangle_data, fifo_empty, draw_triangle_done) ==
  /\ curr_state' = IF Reset THEN "Done"
                   ELSE Step(draw_start, fifo_empty, draw_triangle_done)
  /\ V' = IF Reset THEN NoTriangle
          ELSE IF curr_state \in {"Take1", "Take2"} THEN triangle_data
          ELSE V
=============================================================================
