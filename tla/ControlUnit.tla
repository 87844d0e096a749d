----------------------------- MODULE ControlUnit -----------------------------
(***************************************************************************)
(* control_unit.sv: the frame sequencer.  Init loads the object, then for  *)
(* every frame Done -> Clear -> Draw -> Done; a frame starts on the edge   *)
(* detected on frame_clk, and only in Done.                                *)
(***************************************************************************)
CONSTANT Origin       \* the pixel (0, 0)

VARIABLES curr_state, frame_clk_delayed, frame_clk_rising_edge

vars == <<curr_state, frame_clk_delayed, frame_clk_rising_edge>>

State == {"Init", "Clear", "Draw", "Done"}

TypeOK == /\ curr_state \in State
          /\ frame_clk_delayed \in BOOLEAN
          /\ frame_clk_rising_edge \in BOOLEAN

\* A reset leaves the edge detector as the clock left it.
Init == /\ curr_state = "Init"
        /\ frame_clk_delayed \in BOOLEAN
        /\ frame_clk_rising_edge \in BOOLEAN

load_obj == curr_state = "Init"
clear_start == curr_state = "Clear"
proj_start == curr_state = "Clear"
draw_start == curr_state = "Draw"
draw_data == curr_state = "Draw"
\* Mutant: the buffers change on every frame edge.
frame_done_always == TRUE

frame_done == curr_state = "Done"

\* The pixel written in this cycle: the clear's, the drawing's or the corner.
DrawPixel(draw_XY, clear_XY) == IF curr_state = "Clear" THEN clear_XY
                                ELSE IF curr_state = "Draw" THEN draw_XY
                                ELSE Origin

\* Mutants: the drawing does not wait for the clear; a frame does not wait for
\* the frame edge.
StepDrawsEarly(draw_done, clear_done, load_done) ==
  IF curr_state = "Init" /\ load_done THEN "Done"
  ELSE IF curr_state = "Clear" THEN "Draw"
  ELSE IF curr_state = "Draw" /\ draw_done THEN "Done"
  ELSE IF curr_state = "Done" /\ frame_clk_rising_edge THEN "Clear"
  ELSE curr_state

StepFreeRunning(draw_done, clear_done, load_done) ==
  IF curr_state = "Init" /\ load_done THEN "Done"
  ELSE IF curr_state = "Clear" /\ clear_done THEN "Draw"
  ELSE IF curr_state = "Draw" /\ draw_done THEN "Done"
  ELSE IF curr_state = "Done" THEN "Clear"
  ELSE curr_state

\* The states in the order they follow each other, each with its condition.
Step(draw_done, clear_done, load_done) ==
  IF curr_state = "Init" /\ load_done THEN "Done"
  ELSE IF curr_state = "Clear" /\ clear_done THEN "Draw"
  ELSE IF curr_state = "Draw" /\ draw_done THEN "Done"
  ELSE IF curr_state = "Done" /\ frame_clk_rising_edge THEN "Clear"
  ELSE curr_state

Tick(Reset, frame_clk, draw_done, clear_done, load_done) ==
  /\ curr_state' = IF Reset THEN "Init" ELSE Step(draw_done, clear_done, load_done)
  /\ frame_clk_delayed' = frame_clk
  /\ frame_clk_rising_edge' = (frame_clk /\ ~frame_clk_delayed)
=============================================================================
