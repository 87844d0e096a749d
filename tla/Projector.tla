------------------------------ MODULE Projector ------------------------------
(***************************************************************************)
(* project.sv: takes the original triangles from the list one by one,      *)
(* waits cal_time cycles for the combinational projection (project_cal.sv) *)
(* and writes the result into the fifo unless it is clipped.               *)
(***************************************************************************)
EXTENDS Naturals

CONSTANTS Word,         \* what the triangle list can put on its output
          NoTriangle    \* the value 0 of the register orig_triangle_data

VARIABLES curr_state, orig_triangle_data, count

vars == <<curr_state, orig_triangle_data, count>>

\* Mutant: the largest number of cycles the counter can wait for.
cal_time_longest == 7

\* Cycles needed by the projection, beside the one that finds count there.
cal_time == 4

TypeOK == /\ curr_state \in {"Wait", "Take1", "Take2", "Proj", "Write", "Done"}
          /\ orig_triangle_data \in Word \union {NoTriangle}
          /\ count \in 0 .. cal_time

Init == /\ curr_state = "Wait"
        /\ orig_triangle_data = NoTriangle
        /\ count = 0

list_r == curr_state = "Take1"
\* Mutant: clipped triangles are written, too.
fifo_w_unclipped(clip) == curr_state = "Write"

fifo_w(clip) == curr_state = "Write" /\ ~clip
proj_done == curr_state = "Done"

\* Where the machine goes from a state, given its three inputs.
Step(proj_start, list_read_done) ==
  CASE curr_state = "Wait" -> IF proj_start THEN "Take1" ELSE "Wait"
    [] curr_state = "Take1" -> IF list_read_done THEN "Done" ELSE "Take2"
    [] curr_state = "Take2" -> IF list_read_done THEN "Done" ELSE "Proj"
    [] curr_state = "Proj" -> IF count = cal_time THEN "Write" ELSE "Proj"
    [] curr_state = "Write" -> "Take1"
    [] curr_state = "Done" -> IF proj_start THEN "Done" ELSE "Wait"

Tick(Reset, proj_start, orig_triangle, list_read_done) ==
  /\ curr_state' = IF Reset THEN "Wait" ELSE Step(proj_start, list_read_done)
  /\ orig_triangle_data' = IF Reset THEN NoTriangle
                           ELSE IF curr_state \in {"Take1", "Take2"} THEN orig_triangle
                           ELSE orig_triangle_data
  /\ count' = IF ~Reset /\ curr_state = "Proj" /\ count # cal_time THEN count + 1 ELSE 0
=============================================================================
