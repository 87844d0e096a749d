--------------------------- MODULE HpiRegisters ---------------------------
(***************************************************************************)
(* What the host program expects of IO_read and IO_write (io_handler.c):   *)
(* the USB chip is a register file.  A call has its effect once, between   *)
(* its beginning and its end, and in one step.  The only exception is a    *)
(* call that the reset key has disturbed; the next one is in order again.  *)
(***************************************************************************)
EXTENDS HpiChip

VARIABLES ptr, mem,   \* the chip
          request,    \* the call that waits for its effect
          result,     \* what the last IO_read returned
          disturbed   \* the reset key was pressed since the last call began

vars == <<ptr, mem, request, result, disturbed>>

Init == /\ ptr = 0
        /\ mem = Cleared
        /\ request = None
        /\ result = 0
        /\ disturbed \in BOOLEAN

Call == /\ request = None
        /\ request' \in Calls
        /\ disturbed' = FALSE
        /\ UNCHANGED <<ptr, mem, result>>

Serve == /\ request /= None
         /\ request' = None
         /\ ptr' = PtrAfter(ptr, request)
         /\ mem' = MemAfter(mem, ptr, request)
         /\ result' = IF request.op = "read" THEN mem[ptr] ELSE result
         /\ UNCHANGED disturbed

(* While the key is down, and in the call it has interrupted, anything.    *)
Disturb == /\ disturbed' = TRUE
           /\ ptr' \in Words
           /\ mem' \in [Words -> Words]
           /\ request' \in Calls \union {None}
           /\ result' \in Words \union {Unknown}

Next == Call \/ Serve \/ Disturb

Spec == Init /\ [][Next]_vars
=============================================================================
