------------------------------ MODULE FifoSize ------------------------------
(* The number of places of the triangle fifo, parameter size of            *)
(* triangle_fifo.sv; the triangle list of the renderer has as many.        *)
EXTENDS Naturals

CONSTANT size

ASSUME SizeAssumption == size \in Nat \ {0}
=============================================================================
