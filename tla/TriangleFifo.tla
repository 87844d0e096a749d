---------------------------- MODULE TriangleFifo ----------------------------
(***************************************************************************)
(* triangle_fifo.sv with its memory triangle_fifo_ram.sv: a ring buffer    *)
(* between the projection (write port) and the drawing (read port).  One   *)
(* Tick is one rising edge of Clk; its arguments are the values of the     *)
(* input wires just before the edge.                                       *)
(*                                                                         *)
(* The registers are Waddr bits wide; the instance in renderer_top.sv has  *)
(* size 60 and Waddr 6, so no register value, nor r_addr + 1, wraps.       *)
(***************************************************************************)
EXTENDS FifoSize, Sequences

CONSTANTS Triangle,  \* projected triangles
          Unwritten  \* what a word of the memory holds before its first write

Word == Triangle \union {Unwritten}

VARIABLES r_addr, w_addr, num,   \* the three registers of triangle_fifo
          fifo, triangle_out     \* triangle_fifo_ram: the memory and its output

vars == <<r_addr, w_addr, num, fifo, triangle_out>>

Addr == 0 .. size - 1

TypeOK == /\ r_addr \in Addr
          /\ w_addr \in Addr
          /\ num \in 0 .. size
          /\ fifo \in [Addr -> Word]
          /\ triangle_out \in Word

is_full == num = size
is_empty == num = 0

\* The registers after a reset; the memory is never initialised.
Init == /\ r_addr = 0
        /\ w_addr = 0
        /\ num = 0
        /\ fifo = [a \in Addr |-> Unwritten]
        /\ triangle_out = Unwritten

Successor(a) == IF a + 1 = size THEN 0 ELSE a + 1

NextNum(r_en, w_en) ==
  IF w_en /\ ~r_en /\ num # size THEN num + 1
  ELSE IF r_en /\ ~w_en /\ num # 0 THEN num - 1
  ELSE num

\* Mutant: the memory is read at the address the next read will use.
TickReadsAhead(Reset, r_en, w_en, triangle_in) ==
  /\ r_addr' = IF Reset THEN 0
               ELSE IF r_en /\ ~is_empty THEN Successor(r_addr) ELSE r_addr
  /\ w_addr' = IF Reset THEN 0
               ELSE IF w_en /\ ~is_full THEN Successor(w_addr) ELSE w_addr
  /\ num' = IF Reset THEN 0 ELSE NextNum(r_en, w_en)
  /\ fifo' = IF w_en /\ ~is_full THEN [fifo EXCEPT ![w_addr] = triangle_in] ELSE fifo
  /\ triangle_out' = IF r_en /\ ~is_empty THEN fifo[Successor(r_addr)] ELSE triangle_out

\* The registers obey Reset, the memory does not see it.
Tick(Reset, r_en, w_en, triangle_in) ==
  /\ r_addr' = IF Reset THEN 0
               ELSE IF r_en /\ ~is_empty THEN Successor(r_addr) ELSE r_addr
  /\ w_addr' = IF Reset THEN 0
               ELSE IF w_en /\ ~is_full THEN Successor(w_addr) ELSE w_addr
  /\ num' = IF Reset THEN 0 ELSE NextNum(r_en, w_en)
  /\ fifo' = IF w_en /\ ~is_full THEN [fifo EXCEPT ![w_addr] = triangle_in]
             ELSE fifo
  /\ triangle_out' = IF r_en /\ ~is_empty THEN fifo[r_addr] ELSE triangle_out

-----------------------------------------------------------------------------
(* The fifo with users that never read and write in the same cycle while   *)
(* it is empty or full, as renderer_top's do (see Pipeline!NeverBoth).     *)
(* With other users num is wrong: of the read of an empty fifo and the     *)
(* write beside it only the write is carried out, and num stays.           *)

Legal(r_en, w_en) == r_en /\ w_en => ~is_empty /\ ~is_full

LegalNext == \E Reset, r_en, w_en \in BOOLEAN, t \in Triangle :
                Legal(r_en, w_en) /\ Tick(Reset, r_en, w_en, t)

Spec == Init /\ [][LegalNext]_vars

-----------------------------------------------------------------------------
\* The address k places after address a, around the ring.
Slot(a, k) == IF a + k < size THEN a + k ELSE a + k - size

\* The n elements of memory m from address a on, oldest first.
Window(m, a, n) == [k \in 1 .. n |-> m[Slot(a, k - 1)]]

(* num counts the elements between the read and the write address: the     *)
(* comment "count the number of elements" of triangle_fifo.sv, on which    *)
(* is_full and is_empty rest.                                              *)
NumCountsElements == w_addr = Slot(r_addr, num)

\* The queue the registers and the memory stand for, oldest element first.
Contents == Window(fifo, r_addr, num)

Queue == INSTANCE BoundedQueue WITH Capacity <- size, Elem <- Word,
                                    queue <- Contents, out <- triangle_out

(* The fifo is a bounded first-in first-out queue: no triangle is lost,    *)
(* duplicated, reordered or overwritten before it is read.                 *)
IsBoundedQueue == Queue!Spec
=============================================================================
