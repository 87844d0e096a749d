----------------------------- MODULE ClearFrame -----------------------------
(***************************************************************************)
(* clear_frame.sv: a walk over every pixel of the frame, row by row.       *)
(***************************************************************************)
EXTENDS Naturals

CONSTANTS H_TOTAL, V_TOTAL    \* 640 and 480, below the 1024 the counters hold

VARIABLES curr_state, h_counter, v_counter

vars == <<curr_state, h_counter, v_counter>>

TypeOK == /\ curr_state \in {"Wait", "Clear", "Done"}
          /\ h_counter \in 0 .. H_TOTAL - 1
          /\ v_counter \in 0 .. V_TOTAL - 1

Init == /\ curr_state = "Wait"
        /\ h_counter = 0
        /\ v_counter = 0

clear_frame_done == curr_state = "Done"

\* Mutant: a clear that stops at the last row.
LastRow == v_counter + 1 = V_TOTAL

EndOfRow == h_counter + 1 = H_TOTAL
LastPixel == v_counter + 1 = V_TOTAL /\ EndOfRow

Step(clear_frame_start) ==
  \/ /\ curr_state = "Wait"
     /\ curr_state' = IF clear_frame_start THEN "Clear" ELSE "Wait"
     /\ h_counter' = 0
     /\ v_counter' = 0
  \/ /\ curr_state = "Clear"
     /\ curr_state' = IF LastPixel THEN "Done" ELSE "Clear"
     /\ h_counter' = IF EndOfRow THEN 0 ELSE h_counter + 1
     /\ v_counter' = IF ~EndOfRow THEN v_counter
                     ELSE IF LastPixel THEN 0 ELSE v_counter + 1
  \/ /\ curr_state = "Done"
     /\ curr_state' = IF clear_frame_start THEN "Done" ELSE "Wait"
     /\ UNCHANGED <<h_counter, v_counter>>

Tick(Reset, clear_frame_start) ==
  \/ ~Reset /\ Step(clear_frame_start)
  \/ Reset /\ curr_state' = "Wait" /\ h_counter' = 0 /\ v_counter' = 0
=============================================================================
