------------------------------ MODULE JtagUart ------------------------------
(***************************************************************************)
(* The interrupt-driven driver of the JTAG UART, through which the program *)
(* prints (usb_kb_bsp/drivers): one call at a time of the program, its     *)
(* interrupt routine, the alarm that watches for the host, and, external,  *)
(* the UART and the host.  Interrupt routines do not nest and hold the     *)
(* program up; the UART and the host go on meanwhile.  Characters are      *)
(* numbered in the order they are sent, modulo 2 * BufLen, which is more   *)
(* than buffer and fifo of one direction hold.                             *)
(***************************************************************************)
EXTENDS Integers, Sequences

CONSTANTS BufLen,       \* ALTERA_AVALON_JTAG_UART_BUF_LEN
          Depth,        \* of the two fifos of the UART
          Threshold,    \* the write interrupt: so many characters left
          IntMax,       \* INT_MAX
          Timeouts,     \* outcomes of init: the default, or IntMax if there
                        \* is no system clock to run an alarm
          Counts        \* lengths of the calls

ASSUME UartAssumption ==
  /\ BufLen \in Nat /\ BufLen >= 2
  /\ Depth \in 1 .. BufLen /\ Threshold \in 0 .. Depth - 1
  /\ IntMax \in Nat /\ IntMax >= 4
  /\ Timeouts \subseteq 2 .. IntMax
  /\ Counts \subseteq Nat \ {0}

VARIABLES tx, rx,        \* the ring buffers: buf, in, out
          irq_enable,    \* RE, WE: written to the control register each time
          host_inactive, timeout,
          fifo,          \* of the UART: characters to (tx) and from (rx) the host
          AC,            \* the UART's flag: the host was active
          call,          \* the program's call
          isr,           \* the interrupt routine
          sent, heard,   \* numbers of the next characters: that the program
          typed, taken   \* sends, the host hears, the host types, a call takes

uartVars == <<tx, rx, irq_enable, host_inactive, timeout, fifo, AC, call, isr,
              sent, heard, typed, taken>>

Number == 0 .. 2 * BufLen - 1
Index  == 0 .. BufLen - 1
Plus(k, n) == (k + n) % (2 * BufLen)

\* n characters from number k on.
From(k, n) == [i \in 1 .. n |-> Plus(k, i - 1)]

\* What a ring buffer holds.
Held(b) == [i \in 1 .. (b.in - b.out) % BufLen |-> b.buf[(b.out + i - 1) % BufLen]]

Least(a, b) == IF a < b THEN a ELSE b

Idle == [at |-> "idle", op |-> "none", nonblock |-> FALSE, left |-> 0,
         done |-> 0, n |-> 0, in |-> 0, out |-> 0, data |-> <<>>]

Out == [at |-> "out", ravail |-> FALSE, wi |-> FALSE, space |-> 0]

\* After altera_avalon_jtag_uart_init.
UartInit ==
  /\ tx = [buf |-> [i \in Index |-> 0], in |-> 0, out |-> 0] /\ rx = tx
  /\ irq_enable = {"RE"} /\ host_inactive = 0 /\ timeout \in Timeouts
  /\ fifo = [tx |-> <<>>, rx |-> <<>>] /\ AC = FALSE
  /\ call = Idle /\ isr = Out
  /\ sent = 0 /\ heard = 0 /\ typed = 0 /\ taken = 0

-----------------------------------------------------------------------------
(* Calls.  The program moves between two interrupts.                       *)
At(stage) == isr.at = "out" /\ call.at = stage

Goto(stage) == call' = [call EXCEPT !.at = stage]

\* The caller gets the number of characters done, or an error if there are none.
Return == call' = Idle

inactive == host_inactive >= timeout

Begin(op, count, nonblock) ==
  /\ isr.at = "out" /\ call.at = "idle"
  /\ call' = [Idle EXCEPT !.op = op, !.at = op, !.left = count, !.nonblock = nonblock]
  /\ UNCHANGED <<tx, rx, irq_enable, host_inactive, timeout, fifo, AC, isr,
                 sent, heard, typed, taken>>

\* Mutant: no room is kept between full and empty.
RoomFull(in, out) == IF in < out THEN out - in
                     ELSE IF out > 0 THEN BufLen - in ELSE BufLen - 1 - in

\* Room in one piece behind the characters in the transmit buffer.
Room(in, out) == IF in < out THEN out - 1 - in
                 ELSE IF out > 0 THEN BufLen - in ELSE BufLen - 1 - in

WriteLook ==
  /\ At("write")
  /\ LET n == Room(tx.in, tx.out)
     IN  call' = [call EXCEPT !.in = tx.in, !.out = tx.out, !.n = Least(n, call.left),
                              !.at = IF n = 0 THEN "kick" ELSE "copy"]
  /\ UNCHANGED <<tx, rx, irq_enable, host_inactive, timeout, fifo, AC, isr,
                 sent, heard, typed, taken>>

WriteCopy ==
  /\ At("copy")
  /\ tx' = [tx EXCEPT !.buf = [i \in Index |-> IF i \in call.in .. call.in + call.n - 1
                                               THEN Plus(sent, i - call.in) ELSE @[i]]]
  /\ call' = [call EXCEPT !.at = "commit", !.left = @ - call.n, !.done = @ + call.n]
  /\ UNCHANGED <<rx, irq_enable, host_inactive, timeout, fifo, AC, isr,
                 sent, heard, typed, taken>>

WriteCommit ==
  /\ At("commit")
  /\ tx' = [tx EXCEPT !.in = (call.in + call.n) % BufLen]
  /\ sent' = Plus(sent, call.n)
  /\ Goto(IF call.left > 0 THEN "write" ELSE "kick")
  /\ UNCHANGED <<rx, irq_enable, host_inactive, timeout, fifo, AC, isr, heard, typed, taken>>

\* Mutant: the write interrupt is not enabled.
WriteKickSilent ==
  /\ At("kick")
  /\ IF call.left > 0 /\ ~call.nonblock THEN Goto("wait") ELSE Return
  /\ UNCHANGED <<tx, rx, irq_enable, host_inactive, timeout, fifo, AC, isr,
                 sent, heard, typed, taken>>

\* With interrupts disabled, the write interrupt is enabled in the copy of the
\* register and in the register.
WriteKick ==
  /\ At("kick")
  /\ irq_enable' = irq_enable \cup {"WE"}
  /\ IF call.left > 0 /\ ~call.nonblock THEN Goto("wait") ELSE Return
  /\ UNCHANGED <<tx, rx, host_inactive, timeout, fifo, AC, isr, sent, heard, typed, taken>>

\* Mutant: only the host ends the wait.
WriteWaitForHost ==
  /\ At("wait")
  /\ call.out # tx.out
  /\ IF host_inactive > 0 THEN Return ELSE Goto("write")
  /\ UNCHANGED <<tx, rx, irq_enable, host_inactive, timeout, fifo, AC, isr,
                 sent, heard, typed, taken>>

WriteWait ==
  /\ At("wait")
  /\ call.out # tx.out \/ inactive
  /\ IF host_inactive > 0 THEN Return ELSE Goto("write")
  /\ UNCHANGED <<tx, rx, irq_enable, host_inactive, timeout, fifo, AC, isr,
                 sent, heard, typed, taken>>

-----------------------------------------------------------------------------
ReadLook ==
  /\ At("read")
  /\ LET n == IF rx.in >= rx.out THEN rx.in - rx.out ELSE BufLen - rx.out
     IN  IF n = 0 /\ call.done = 0 /\ call.nonblock THEN Return
         ELSE call' = [call EXCEPT
                !.in = rx.in, !.out = rx.out, !.n = Least(n, call.left),
                !.at = IF n > 0 THEN "take" ELSE IF call.done > 0 THEN "enable" ELSE "listen"]
  /\ UNCHANGED <<tx, rx, irq_enable, host_inactive, timeout, fifo, AC, isr,
                 sent, heard, typed, taken>>

ReadCopy ==
  /\ At("take")
  /\ call' = [call EXCEPT !.at = "release", !.left = @ - call.n, !.done = @ + call.n,
                          !.data = [i \in 1 .. call.n |-> rx.buf[call.out + i - 1]]]
  /\ UNCHANGED <<tx, rx, irq_enable, host_inactive, timeout, fifo, AC, isr,
                 sent, heard, typed, taken>>

ReadCommit ==
  /\ At("release")
  /\ rx' = [rx EXCEPT !.out = (call.out + call.n) % BufLen]
  /\ taken' = Plus(taken, call.n)
  /\ call' = [call EXCEPT !.at = IF call.left > 0 THEN "read" ELSE "enable", !.data = <<>>]
  /\ UNCHANGED <<tx, irq_enable, host_inactive, timeout, fifo, AC, isr, sent, heard, typed>>

ReadWait ==
  /\ At("listen")
  /\ call.in # rx.in \/ inactive
  /\ IF call.in = rx.in THEN Return ELSE Goto("read")
  /\ UNCHANGED <<tx, rx, irq_enable, host_inactive, timeout, fifo, AC, isr,
                 sent, heard, typed, taken>>

\* Something was read, so there is room again.
ReadEnable ==
  /\ At("enable")
  /\ irq_enable' = irq_enable \cup {"RE"}
  /\ Return
  /\ UNCHANGED <<tx, rx, host_inactive, timeout, fifo, AC, isr, sent, heard, typed, taken>>

\* altera_avalon_jtag_uart_close waits for the transmit buffer to be empty.
CloseWait ==
  /\ At("close")
  /\ tx.out = tx.in \/ inactive \/ call.nonblock
  /\ Return
  /\ UNCHANGED <<tx, rx, irq_enable, host_inactive, timeout, fifo, AC, isr,
                 sent, heard, typed, taken>>

CallStep == \/ WriteLook \/ WriteCopy \/ WriteCommit \/ WriteKick \/ WriteWait
            \/ ReadLook \/ ReadCopy \/ ReadCommit \/ ReadWait \/ ReadEnable
            \/ CloseWait

\* Mutant: any argument is taken.
SetTimeoutAny(t) ==
  /\ isr.at = "out" /\ call.at = "idle" /\ timeout # IntMax
  /\ timeout' = t
  /\ UNCHANGED <<tx, rx, irq_enable, host_inactive, fifo, AC, call, isr,
                 sent, heard, typed, taken>>

\* altera_avalon_jtag_uart_ioctl, TIOCSTIMEOUT.
SetTimeout(t) ==
  /\ isr.at = "out" /\ call.at = "idle" /\ timeout # IntMax
  /\ timeout' = IF t >= 2 /\ t < IntMax THEN t ELSE IntMax - 1
  /\ UNCHANGED <<tx, rx, irq_enable, host_inactive, fifo, AC, call, isr,
                 sent, heard, typed, taken>>

-----------------------------------------------------------------------------
(* The interrupt routine reads the control register, empties the receive   *)
(* fifo, fills the transmit fifo and looks again.                          *)
RI == "RE" \in irq_enable /\ fifo.rx # <<>>
WI == "WE" \in irq_enable /\ Len(fifo.tx) <= Threshold

IsrLook ==
  /\ isr.at \in {"out", "again"}
  /\ isr.at = "again" \/ RI \/ WI
  /\ isr' = IF RI \/ WI
            THEN [at |-> IF RI THEN "rx" ELSE "tx", ravail |-> RI, wi |-> WI,
                  space |-> IF WI THEN Depth - Len(fifo.tx) ELSE 0]
            ELSE Out
  /\ UNCHANGED <<tx, rx, irq_enable, host_inactive, timeout, fifo, AC, call,
                 sent, heard, typed, taken>>

Full(b) == (b.in + 1) % BufLen = b.out

AfterRx == [isr EXCEPT !.at = IF isr.wi THEN "tx" ELSE "again", !.ravail = FALSE]

IsrRxChar ==
  /\ isr.at = "rx" /\ ~Full(rx) /\ fifo.rx # <<>>
  /\ rx' = [rx EXCEPT !.buf[rx.in] = Head(fifo.rx), !.in = (@ + 1) % BufLen]
  /\ fifo' = [fifo EXCEPT !.rx = Tail(@)]
  /\ isr' = [isr EXCEPT !.ravail = Len(fifo.rx) > 1]
  /\ UNCHANGED <<tx, irq_enable, host_inactive, timeout, AC, call, sent, heard, typed, taken>>

\* A character is left over only if the buffer is full.
IsrRxEnd ==
  /\ isr.at = "rx" /\ (Full(rx) \/ fifo.rx = <<>>)
  /\ irq_enable' = IF Full(rx) /\ isr.ravail THEN irq_enable \ {"RE"} ELSE irq_enable
  /\ isr' = AfterRx
  /\ UNCHANGED <<tx, rx, host_inactive, timeout, fifo, AC, call, sent, heard, typed, taken>>

IsrTxChar ==
  /\ isr.at = "tx" /\ isr.space > 0 /\ tx.out # tx.in
  /\ fifo' = [fifo EXCEPT !.tx = IF Len(@) < Depth THEN Append(@, tx.buf[tx.out]) ELSE @]
  /\ tx' = [tx EXCEPT !.out = (@ + 1) % BufLen]
  /\ isr' = [isr EXCEPT !.space = @ - 1]
  /\ UNCHANGED <<rx, irq_enable, host_inactive, timeout, AC, call, sent, heard, typed, taken>>

\* Mutant: the write interrupt is disabled whenever the routine is through.
IsrTxEndAlways ==
  /\ isr.at = "tx" /\ (isr.space = 0 \/ tx.out = tx.in)
  /\ irq_enable' = irq_enable \ {"WE"}
  /\ isr' = [Out EXCEPT !.at = "again"]
  /\ UNCHANGED <<tx, rx, host_inactive, timeout, fifo, AC, call, sent, heard, typed, taken>>

\* Space is left over only if the buffer is empty.
IsrTxEnd ==
  /\ isr.at = "tx" /\ (isr.space = 0 \/ tx.out = tx.in)
  /\ irq_enable' = IF isr.space > 0 THEN irq_enable \ {"WE"} ELSE irq_enable
  /\ isr' = [Out EXCEPT !.at = "again"]
  /\ UNCHANGED <<tx, rx, host_inactive, timeout, fifo, AC, call, sent, heard, typed, taken>>

Isr == IsrLook \/ IsrRxChar \/ IsrRxEnd \/ IsrTxChar \/ IsrTxEnd

\* altera_avalon_jtag_uart_timeout, every second if there is an alarm.
Timeout ==
  /\ isr.at = "out" /\ timeout # IntMax
  /\ AC' = FALSE
  /\ host_inactive' = IF AC THEN 0
                      ELSE IF host_inactive < IntMax - 2 THEN host_inactive + 1
                      ELSE host_inactive
  /\ UNCHANGED <<tx, rx, irq_enable, timeout, fifo, call, isr, sent, heard, typed, taken>>

-----------------------------------------------------------------------------
(* External: the host takes a character whenever it polls and there is one, *)
(* and types one when the UART has room.                                    *)
HostPoll ==
  /\ AC' = TRUE
  /\ IF fifo.tx = <<>> THEN UNCHANGED <<fifo, heard>>
     ELSE /\ fifo' = [fifo EXCEPT !.tx = Tail(@)]
          /\ heard' = Plus(heard, 1)
  /\ UNCHANGED <<tx, rx, irq_enable, host_inactive, timeout, call, isr, sent, typed, taken>>

HostType ==
  /\ Len(fifo.rx) < Depth
  /\ AC' = TRUE
  /\ fifo' = [fifo EXCEPT !.rx = Append(@, typed)]
  /\ typed' = Plus(typed, 1)
  /\ UNCHANGED <<tx, rx, irq_enable, host_inactive, timeout, call, isr, sent, heard, taken>>
-----------------------------------------------------------------------------
UartTypeOK ==
  /\ \A b \in {tx, rx} : b.buf \in [Index -> Number] /\ b.in \in Index /\ b.out \in Index
  /\ irq_enable \subseteq {"RE", "WE"}
  /\ timeout \in 2 .. IntMax /\ host_inactive \in 0 .. IntMax - 2
  /\ Len(fifo.tx) <= Depth /\ Len(fifo.rx) <= Depth
  /\ call.n \in 0 .. BufLen - 1 /\ isr.space \in 0 .. Depth

(* "Reading them atomically means that we don't need any large critical    *)
(* sections" (altera_avalon_jtag_uart.h:105): although the program and the *)
(* interrupt routine fill and empty the buffers at the same time, no       *)
(* character is lost, doubled or overtaken in either direction.            *)
StreamsInOrder ==
  LET out == fifo.tx \o Held(tx)
      in  == Held(rx) \o fifo.rx
  IN  /\ out = From(heard, Len(out)) /\ sent = Plus(heard, Len(out))
      /\ in = From(taken, Len(in)) /\ typed = Plus(taken, Len(in))
      /\ call.data = From(taken, Len(call.data))

(* No character waits for an interrupt that never comes: the write         *)
(* interrupt is enabled as soon as the call that filled the buffer is past *)
(* its last step, the read interrupt is disabled only as long as there is  *)
(* something left to read, whose reader will enable it.                    *)
NothingStranded ==
  /\ tx.in # tx.out /\ call.at \notin {"write", "copy", "commit", "kick"}
       => "WE" \in irq_enable
  /\ "RE" \notin irq_enable
       => \/ rx.in # rx.out
          \/ call.at \in {"read", "take", "release", "enable"} /\ call.done > 0
=============================================================================
