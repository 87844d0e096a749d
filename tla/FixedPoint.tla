----------------------------- MODULE FixedPoint -----------------------------
(***************************************************************************)
(* The operations of fixedpoint_lib.sv that the projection uses.  A number *)
(* is the signed integer in its register; a format says how many units     *)
(* make 1 and which value is the largest, so that -most - 1 is the least.  *)
(* All instances round (ROUND = 1).  Overflow flags are never read.        *)
(***************************************************************************)
EXTENDS Integers

\* WI integer bits, sign included, and WF decimal bits.
Format(WI, WF) == [one |-> 2^WF, most |-> 2 * (2^(WI + WF - 2) - 1) + 1]

\* The exact product of two numbers has twice the bits.
Product(f, g) ==
  LET half == (f.most + 1) * (g.most + 1)
  IN  [one |-> f.one * g.one, most |-> half + (half - 1)]

\* Mutant: what does not fit loses its upper bits.
SaturatedNot(v, f) == ((v + f.most + 1) % (2 * (f.most + 1))) - f.most - 1

Saturated(v, f) == IF v > f.most THEN f.most
                   ELSE IF v < -f.most - 1 THEN -f.most - 1 ELSE v

\* From format f to format g: the digits cut off round to the nearest, unless
\* the sum has no room, and then the integer part is saturated.
fxp_zoom(v, f, g) ==
  IF g.one < f.one
  THEN LET unit  == f.one \div g.one
           cut   == v \div unit
           carry == 2 * (v % unit) >= unit /\ cut # f.most \div unit
       IN  Saturated(IF carry THEN cut + 1 ELSE cut, g)
  ELSE Saturated(v * (g.one \div f.one), g)

\* All sums of the projection have operands and result in one format.
fxp_add(a, b, f) == Saturated(a + b, f)
fxp_sub(a, b, f) == Saturated(a - b, f)

fxp_mul(a, f, b, g, h) == fxp_zoom(a * b, Product(f, g), h)

-----------------------------------------------------------------------------
Magnitude(v) == IF v < 0 THEN -v ELSE v
Least(f)     == -f.most - 1
AllOnes(f)   == 2 * f.most + 1

\* The quotient of n and d bit by bit, from the highest to the lowest.
LongDivision(n, d, ones) ==
  LET bits[weight \in Nat \ {0}] ==
        LET q == bits[2 * weight]
        IN  IF weight > ones THEN 0
            ELSE IF (q + weight) * d <= n THEN q + weight ELSE q
  IN  bits[1]

\* Rounded to the nearest, a half downwards.
Rounded(q, n, d, ones) ==
  IF q # ones /\ (q + 1) * d - n < n - q * d THEN q + 1 ELSE q

\* The unsigned quotient of the magnitudes.  The magnitude of the least number
\* is no positive number of its width: its sign is extended like that of a
\* negative one.  As a dividend it exceeds every multiple of the divisor; as a
\* divisor, in the format 8.8 of w, its half only exceeds the other numbers up
\* to 127.75, and the quotient of two of them is above the largest number.
Quotient(a, f, b, g, h) ==
  LET one == IF h.one * g.one > f.one THEN h.one * g.one ELSE f.one
      n   == Magnitude(a) * (one \div f.one)
      d   == Magnitude(b) * (one \div (h.one * g.one))
      q   == LongDivision(n, d, AllOnes(h))
  IN  IF a = Least(f) THEN AllOnes(h)
      ELSE IF b = Least(g) THEN (IF Magnitude(a) > 32704 THEN 1 ELSE 0)
      ELSE Rounded(q, n, d, AllOnes(h))

fxp_div(a, f, b, g, h) ==
  LET q == Quotient(a, f, b, g, h)
  IN  IF (a < 0) # (b < 0) THEN (IF q > h.most THEN Least(h) ELSE -q)
      ELSE Saturated(q, h)
=============================================================================
