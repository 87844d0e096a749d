------------------------------ MODULE HpiChip ------------------------------
(***************************************************************************)
(* The registers of the USB chip as the host program uses them (external): *)
(* a pointer, written through port HPI_ADDR, and a memory, reached through *)
(* port HPI_DATA at the pointer, which moves on with every access.  usb.c  *)
(* relies on that when it writes a list (usb.c:119-141).  No state here.   *)
(***************************************************************************)
EXTENDS Naturals

CONSTANTS MemSize,  \* words of the chip's memory
          None,     \* no call
          Unknown   \* no word: a bus that nobody drives, or two do

ASSUME MemAssumption     == MemSize \in Nat \ {0}
ASSUME UnknownAssumption == Unknown \notin Nat

Words == 0 .. MemSize - 1

HPI_DATA == 0
HPI_ADDR == 2

WriteCalls == [op : {"write"}, port : {HPI_DATA, HPI_ADDR}, value : Words]
ReadCalls  == [op : {"read"}, port : {HPI_DATA}, value : {0}]
Calls      == WriteCalls \union ReadCalls

ASSUME NoneAssumption == None \notin Calls

Cleared == [a \in Words |-> 0]

(* The pointer and the memory after an access.                             *)
Advance(p) == (p + 1) % MemSize

PtrAfter(p, c) ==
  IF c.op = "write" /\ c.port = HPI_ADDR THEN c.value ELSE Advance(p)

MemAfter(m, p, c) ==
  IF c.op = "write" /\ c.port = HPI_DATA THEN [m EXCEPT ![p] = c.value] ELSE m
=============================================================================
