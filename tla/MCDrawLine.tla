----------------------------- MODULE MCDrawLine -----------------------------
(* Registers of four bits: every line from a corner or the middle of the   *)
(* 16 x 16 square to any of its points, in all four diagonal directions.   *)
EXTENDS DrawLine

MCStart == {<<0, 0>>, <<15, 0>>, <<0, 15>>, <<15, 15>>, <<7, 8>>}
MCLines == {[x0 |-> s[1], y0 |-> s[2], x1 |-> a, y1 |-> b] :
              s \in MCStart, a \in Coord, b \in Coord}

\* Lines of at most two pixels in each direction.
ShortLines == {[x0 |-> 4, y0 |-> 4, x1 |-> a, y1 |-> b] : a \in 4 .. 6, b \in 4 .. 6}

\* Horizontal lines across the square.
LongLines == {[x0 |-> 0, y0 |-> 3, x1 |-> a, y1 |-> 3] : a \in Coord}

\* Both, with the two kinds of line that are not Drawable.
HardLines == ShortLines \union LongLines
=============================================================================
