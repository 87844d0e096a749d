--------------------------- MODULE MCDisplayKeys ---------------------------
(* All three axes, a key of each kind, with short registers. *)
EXTENDS Display

MCKeys == {"none", "w", "s", "a", "d", "e", "left"}
=============================================================================
