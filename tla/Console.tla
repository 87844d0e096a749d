------------------------------ MODULE Console ------------------------------
(***************************************************************************)
(* Standard input and output of the keyboard program: the calls of the HAL *)
(* on file descriptors, and the driver of the JTAG UART behind them.       *)
(***************************************************************************)
EXTENDS JtagUart, FileTable

VARIABLE closing    \* the descriptor that a close call will release

vars == <<uartVars, tableVars, closing>>

None == -1

Init == UartInit /\ TableInit /\ closing = None

\* The program is between two calls.
Calls == isr.at = "out" /\ call.at = "idle" /\ closing = None

jtag(fd) == InUse(fd) /\ alt_fd_list[fd].dev = "jtag_uart_0"

Table(action) == Calls /\ action /\ UNCHANGED <<uartVars, closing>>

\* alt_open, and alt_ioctl and alt_fcntl as far as they change the table.
FileCall ==
  \/ Table(Redirect)
  \/ \E name \in Names, mode \in Mode, nonblock \in BOOLEAN : Table(Open(name, mode, nonblock))
  \/ \E fd \in Descriptor : Table(alt_fd_lock(fd))
  \/ \E fd \in Descriptor : Table(alt_fd_unlock(fd))
  \/ \E fd \in Descriptor, nonblock \in BOOLEAN : Table(SetFlags(fd, nonblock))

\* alt_ioctl of the device.
Ioctl == \E fd \in Descriptor, t \in 1 .. IntMax :
           /\ Calls /\ jtag(fd) /\ SetTimeout(t)
           /\ UNCHANGED <<tableVars, closing>>

\* /dev/null takes everything and gives nothing: nothing changes.
Write == \E fd \in Descriptor, count \in Counts :
           /\ Calls /\ jtag(fd) /\ alt_fd_list[fd].mode # "O_RDONLY"
           /\ Begin("write", count, alt_fd_list[fd].nonblock)
           /\ UNCHANGED <<tableVars, closing>>

Read == \E fd \in Descriptor, count \in Counts :
          /\ Calls /\ jtag(fd) /\ alt_fd_list[fd].mode # "O_WRONLY"
          /\ Begin("read", count, alt_fd_list[fd].nonblock)
          /\ UNCHANGED <<tableVars, closing>>

\* alt_close: the device first, if it has a close, then the descriptor.
CloseNull == \E fd \in Descriptor :
               /\ Calls /\ InUse(fd) /\ ~jtag(fd)
               /\ Release(fd)
               /\ UNCHANGED <<uartVars, closing>>

Close == \E fd \in Descriptor :
           /\ Calls /\ jtag(fd)
           /\ Begin("close", 0, alt_fd_list[fd].nonblock)
           /\ closing' = fd
           /\ UNCHANGED tableVars

CloseEnd == /\ closing # None /\ At("idle")
            /\ Release(closing) /\ closing' = None
            /\ UNCHANGED uartVars

Driver == (CallStep \/ Isr \/ Timeout) /\ UNCHANGED <<tableVars, closing>>

Host == (HostPoll \/ HostType) /\ UNCHANGED <<tableVars, closing>>

Next == FileCall \/ Ioctl \/ Write \/ Read \/ CloseNull \/ Close \/ CloseEnd \/ Driver \/ Host

Spec == Init /\ [][Next]_vars

(* The processor goes on with the call and with the interrupt routine, and *)
(* the clock with its ticks.  The host may stay away.                      *)
Fairness == /\ WF_vars(CallStep /\ UNCHANGED <<tableVars, closing>>)
            /\ WF_vars(CloseEnd)
            /\ WF_vars(Isr /\ UNCHANGED <<tableVars, closing>>)
            /\ WF_vars(Timeout /\ UNCHANGED <<tableVars, closing>>)

FairSpec == Spec /\ Fairness
-----------------------------------------------------------------------------
ConsoleTypeOK == UartTypeOK /\ TableTypeOK /\ closing \in Descriptor \cup {None}

Drains == call.op \in {"write", "close"}

\* A timeout that host_inactive can reach.
Watched == timeout <= IntMax - 2

\* The host goes on polling.  A poll that would change nothing, the fifo empty
\* and AC set already, is not asked for: without an alarm nothing clears AC.
Polls == WF_uartVars(HostPoll)

(* printf returns: a blocking write to a full buffer, and a close, wait    *)
(* until the host takes the characters or, if there is an alarm, until it  *)
(* is found absent.  Without an alarm, as in this system, only a host that *)
(* polls ends the wait; as long as it does, calls return and every         *)
(* character in the buffer gets out, with an alarm and without.            *)
CallsReturn ==
  /\ Drains /\ Watched ~> ~Drains
  /\ Polls => (Drains ~> ~Drains)
  /\ Polls => \A o \in Index : tx.out = o /\ tx.in # o ~> tx.out # o
=============================================================================
