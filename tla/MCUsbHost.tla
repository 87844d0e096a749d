----------------------------- MODULE MCUsbHost -----------------------------
(* The keys w and s, and the report of no key. *)
EXTENDS UsbHost

MCKeys == {0, \h1A, \h16}
=============================================================================
