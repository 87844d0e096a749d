---------------------------- MODULE FrameBuffer ----------------------------
(***************************************************************************)
(* frame_buffer.sv with its two memories (ram.v): one is written while the *)
(* other is read, and they change roles on a frame edge with frame_done.   *)
(* A memory is the set of the addresses that hold a lit pixel.             *)
(*                                                                         *)
(* The addresses are registered before they reach a memory, the data and   *)
(* the write enable are not: a pixel is written one cycle after its        *)
(* address was on the wires, with the data of that later cycle.            *)
(***************************************************************************)
EXTENDS Naturals

CONSTANTS H_VISIBLE, V_VISIBLE     \* 640 and 480

VARIABLES rw,                  \* whether buffer 1 is written and buffer 2 read
          addr1, addr2,
          buffer1, buffer2,
          sampled1, sampled2,  \* what a memory found at its sampled address
          read_data1, read_data2, read_data

vars == <<rw, addr1, addr2, buffer1, buffer2, sampled1, sampled2,
          read_data1, read_data2, read_data>>

Address(pixel) == pixel[1] + pixel[2] * H_VISIBLE
Addresses == 0 .. H_VISIBLE * V_VISIBLE - 1

TypeOK == /\ {rw, sampled1, sampled2, read_data1, read_data2, read_data} \subseteq BOOLEAN
          /\ addr1 \in Addresses /\ addr2 \in Addresses
          /\ buffer1 \subseteq Addresses /\ buffer2 \subseteq Addresses

\* The memories hold zeros after power-up, and a reset leaves them alone.
Init == /\ rw = FALSE
        /\ addr1 = 0 /\ addr2 = 0
        /\ buffer1 = {} /\ buffer2 = {}
        /\ sampled1 = FALSE /\ sampled2 = FALSE
        /\ read_data1 = FALSE /\ read_data2 = FALSE /\ read_data = FALSE

\* Mutant: the scan's position is used as it is, off the screen, too.
ReadAddressUnclamped(ReadX, ReadY) == Address(<<ReadX, ReadY>>)

\* The address read for a position of the scan, kept on the screen.
ReadAddress(ReadX, ReadY) ==
  Address(<<IF ReadX < H_VISIBLE THEN ReadX ELSE H_VISIBLE - 1,
            IF ReadY < V_VISIBLE THEN ReadY ELSE V_VISIBLE - 1>>)

\* Mutant: pixels are lit and never cleared.
WrittenLit(buffer, wren, address, data) ==
  IF wren /\ data THEN buffer \union {address} ELSE buffer

\* ram.v: a write, and the content after it.
Written(buffer, wren, address, data) ==
  IF ~wren THEN buffer
  ELSE IF data THEN buffer \union {address}
  ELSE buffer \ {address}

Tick(Reset, frame_clk_rising_edge, DrawXY, draw_data, frame_done, ReadX, ReadY) ==
  LET w_addr == Address(DrawXY)
      r_addr == ReadAddress(ReadX, ReadY)
  IN  /\ rw' = (~Reset /\ (rw # (frame_clk_rising_edge /\ frame_done)))
      /\ addr1' = IF rw THEN w_addr ELSE r_addr
      /\ addr2' = IF rw THEN r_addr ELSE w_addr
      /\ buffer1' = Written(buffer1, rw, addr1, draw_data)
      /\ buffer2' = Written(buffer2, ~rw, addr2, draw_data)
      /\ sampled1' = (addr1 \in buffer1')
      /\ sampled2' = (addr2 \in buffer2')
      /\ read_data1' = sampled1
      /\ read_data2' = sampled2
      /\ read_data' = IF rw THEN read_data2 ELSE read_data1

\* The picture on the monitor, and the one being made.
ReadBuffer == IF rw THEN buffer2 ELSE buffer1
WriteBuffer == IF rw THEN buffer1 ELSE buffer2
=============================================================================
