--------------------------- MODULE VgaController ---------------------------
(***************************************************************************)
(* VGA_controller.sv: the scan of the monitor, on its own clock of half    *)
(* the frequency of Clk, which the PLL of vga_clk.v makes.                 *)
(***************************************************************************)
EXTENDS Naturals

CONSTANTS H_TOTAL, V_TOTAL,        \* 800 columns and 525 lines
          H_VISIBLE, V_VISIBLE,    \* 640 and 480 of them with pixels
          HSync, VSync             \* columns 656 .. 751, lines 490 .. 491

VARIABLES VGA_CLK, VGA_HS, VGA_VS, VGA_BLANK_N, h_counter, v_counter

registers == <<VGA_HS, VGA_VS, VGA_BLANK_N, h_counter, v_counter>>
vars == <<VGA_CLK, registers>>

TypeOK == /\ {VGA_CLK, VGA_HS, VGA_VS, VGA_BLANK_N} \subseteq BOOLEAN
          /\ h_counter \in 0 .. H_TOTAL - 1
          /\ v_counter \in 0 .. V_TOTAL - 1

Cleared(hs, vs, blank, h, v) == /\ hs = FALSE /\ vs = FALSE /\ blank = FALSE
                                /\ h = 0 /\ v = 0

Init == /\ VGA_CLK = FALSE
        /\ Cleared(VGA_HS, VGA_VS, VGA_BLANK_N, h_counter, v_counter)

\* Mutants: a line without an end; a scan that stays on the last line.
h_counter_free == h_counter + 1
v_counter_stays == IF h_counter + 1 = H_TOTAL /\ v_counter + 1 # V_TOTAL
                   THEN v_counter + 1 ELSE v_counter

h_counter_in == IF h_counter + 1 = H_TOTAL THEN 0 ELSE h_counter + 1
v_counter_in == IF h_counter + 1 # H_TOTAL THEN v_counter
                ELSE IF v_counter + 1 = V_TOTAL THEN 0 ELSE v_counter + 1

\* A rising edge of VGA_CLK.
Scan(Reset) ==
  IF Reset THEN Cleared(VGA_HS', VGA_VS', VGA_BLANK_N', h_counter', v_counter')
  ELSE /\ VGA_HS' = (h_counter_in \notin HSync)
       /\ VGA_VS' = (v_counter_in \notin VSync)
       /\ VGA_BLANK_N' = (h_counter_in < H_VISIBLE /\ v_counter_in < V_VISIBLE)
       /\ h_counter' = h_counter_in
       /\ v_counter' = v_counter_in

\* A rising edge of Clk: every other one is an edge of VGA_CLK, too, and a
\* reset in between is not seen.
Tick(Reset) == /\ VGA_CLK' = ~VGA_CLK
               /\ IF VGA_CLK THEN UNCHANGED registers ELSE Scan(Reset)
=============================================================================
