----------------------------- MODULE MCConsole -----------------------------
(* Descriptors come and go while no character moves; then characters move, *)
(* and timeouts change, through the blocking standard streams and one more *)
(* descriptor that does not block.                                         *)
EXTENDS Console

MCNames == {"jtag_uart_0", "null", "none"}

Quiet == sent = 0 /\ typed = 0 /\ ~AC /\ host_inactive = 0 /\ call.op \in {"none", "close"}

Plain == \A i \in Descriptor : /\ i <= 2 => ~alt_fd_list[i].nonblock
                               /\ i > 2 /\ alt_fd_list[i] # Free
                                    => alt_fd_list[i].mode = "O_RDWR"

Nonblocking == [Free EXCEPT !.dev = "jtag_uart_0", !.mode = "O_RDWR", !.nonblock = TRUE]

Streaming == \A i \in 3 .. ALT_MAX_FD - 1 :
               alt_fd_list[i] = IF i = 3 THEN Nonblocking ELSE Free

\* One direction at length, both with their first character; with an alarm,
\* until the buffer has been full.
Traffic == /\ \/ sent = 0 /\ heard = 0
              \/ typed = 0 /\ taken = 0
              \/ /\ sent <= 1 /\ heard <= sent /\ typed <= 1 /\ taken <= typed
                 /\ call.left + call.done <= 1
           /\ timeout # IntMax => sent <= 3 /\ typed = 0 /\ taken = 0

Usage == Plain /\ (Quiet \/ (Streaming /\ Traffic /\ timeout # IntMax - 1))
=============================================================================
