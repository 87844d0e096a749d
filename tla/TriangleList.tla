---------------------------- MODULE TriangleList ----------------------------
(***************************************************************************)
(* triangle_list.sv with its memory triangle_list_ram.sv: the original     *)
(* triangles at the addresses 1 .. num, and a read address that visits     *)
(* them in turn and then rests at 0, the unused address that means "the    *)
(* list has been read".                                                    *)
(*                                                                         *)
(* The instance in renderer_top.sv has size 60 and Waddr 6: no register    *)
(* wraps at its width.                                                     *)
(***************************************************************************)
EXTENDS Naturals

CONSTANTS size,          \* parameter size, also the parameter max
          OrigTriangle,  \* original triangles, in 3D space
          Unwritten      \* what a word of the memory holds before its first write

VARIABLES r_addr, w_addr, num, list, triangle_out

vars == <<r_addr, w_addr, num, list, triangle_out>>

Word == OrigTriangle \union {Unwritten}

TypeOK == /\ r_addr \in 0 .. size
          /\ w_addr \in 1 .. size
          /\ num \in 0 .. size
          /\ list \in [0 .. size -> Word]
          /\ triangle_out \in Word

Init == /\ r_addr = 1
        /\ w_addr = 1
        /\ num = 0
        /\ list = [a \in 0 .. size |-> Unwritten]
        /\ triangle_out = Unwritten

is_full == num = size
is_empty == num = 0
read_done == r_addr = 0

\* Mutant: the read address stays at 0 until the list is read again.
TickNoRewind(Reset, r_en, w_en, triangle_in) ==
  /\ r_addr' = IF Reset THEN 1
               ELSE IF r_en /\ ~is_empty THEN (IF r_addr = num THEN 0 ELSE r_addr + 1)
               ELSE r_addr
  /\ w_addr' = IF Reset THEN 1
               ELSE IF w_en /\ ~is_full THEN (IF w_addr = size THEN 1 ELSE w_addr + 1)
               ELSE w_addr
  /\ num' = IF Reset THEN 0 ELSE IF w_en /\ ~is_full THEN num + 1 ELSE num
  /\ list' = IF w_en /\ ~is_full THEN [list EXCEPT ![w_addr] = triangle_in] ELSE list
  /\ triangle_out' = IF r_en /\ ~is_empty THEN list[r_addr] ELSE triangle_out

Tick(Reset, r_en, w_en, triangle_in) ==
  /\ r_addr' = IF Reset THEN 1
               ELSE IF r_en /\ ~is_empty THEN (IF r_addr = num THEN 0 ELSE r_addr + 1)
               ELSE IF r_addr = 0 THEN 1
               ELSE r_addr
  /\ w_addr' = IF Reset THEN 1
               ELSE IF w_en /\ ~is_full THEN (IF w_addr = size THEN 1 ELSE w_addr + 1)
               ELSE w_addr
  /\ num' = IF Reset THEN 0 ELSE IF w_en /\ ~is_full THEN num + 1 ELSE num
  /\ list' = IF w_en /\ ~is_full THEN [list EXCEPT ![w_addr] = triangle_in] ELSE list
  /\ triangle_out' = IF r_en /\ ~is_empty THEN list[r_addr] ELSE triangle_out
=============================================================================
