----------------------------- MODULE MCHpiBus -----------------------------
(* The values of the constants are those of MCHpiBus.cfg. *)
EXTENDS HpiBus
=============================================================================
