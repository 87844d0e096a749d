----------------------------- MODULE MCDisplay -----------------------------
(* The registers as wide as in display.sv, one axis turned by its two keys. *)
EXTENDS Display

MCKeys == {"none", "w", "s"}
=============================================================================
