------------------------------ MODULE UsbHost ------------------------------
(***************************************************************************)
(* The program on the Nios processor, main.c and usb.c, with the USB chip  *)
(* and the keyboard.  The program enumerates the keyboard by the transfers *)
(* of TransferLists, then polls it and writes the key code to the hardware *)
(* for ever.  One action is one access to what the program shares with the *)
(* chip, with what the program does up to the next one.                    *)
(*                                                                         *)
(* The chip is external.  It is modelled as the program uses it, and as    *)
(* cy7c67200.h and lcp_cmd.h describe it.  A list is carried out when its  *)
(* address is written to the TD pointer: first the TD whose control word   *)
(* the program looks at, then the rest; then the chip clears the pointer   *)
(* and sends TDListDone.  Messages are bits of one register; sending one   *)
(* sets a flag, reading the register clears it.                            *)
(***************************************************************************)
EXTENDS TransferLists

CONSTANTS Keys      \* codes of the keys that are pressed

ASSUME KeysAssumption == Keys \subseteq 0 .. 255

Poll == Len(Transfers) + 1
Step == 1 .. Poll
SetConfig == 6

VARIABLES pc, step,
          usb_ctl_val,     \* the message or control word last read
          hot_plug_count,  \* 0 outside the loops that count
          keycode,         \* the register display.sv reads
          \* the chip
          msg, msg_flag,   \* SIE1 message register, its flag in HPI_STATUS
          pointer,         \* HUSB_SIE1_pCurrentTDPtr
          busy,            \* the part of a list that is being carried out
          control,         \* the retry control of the first TD, at 0x0508
          report,          \* the first key code of a report, at 0x051e
          \* the keyboard
          attached,
          answered,        \* transfers it has taken since it was attached or reset
          \* history, since the last reset of the chip
          unplugged, reported

hostVars == <<pc, step, usb_ctl_val, hot_plug_count, keycode>>
chipVars == <<msg, msg_flag, pointer, busy, control, report>>
keyboardVars == <<attached, answered>>
history == <<unplugged, reported>>
vars == <<hostVars, chipVars, keyboardVars, history>>

Message == SUBSET {"TDListDone", "Remove", "Insert"}
Control == {"pending", "done", "retried"}    \* 0x13, 0x03, any other
List == {"none", "transfer", "endpoint"}
Part == {"none", "first", "rest", "endpoint"}
NoDevice == 7      \* readings, after the first, before the keyboard counts as removed

UsbTypeOK ==
  /\ pc \in {"Reset", "Initial", "SieInit", "HusbReset", "LookForDevice", "Insert",
             "Submit", "Status", "Read", "Clear", "ReadControl",
             "RetryRead", "RetryClear", "RetryStatus", "RetryControl",
             "Endpoint", "ReadKey", "LookAgain", "Removed"}
  /\ step \in Step
  /\ usb_ctl_val \in Message
  /\ hot_plug_count \in 0 .. NoDevice
  /\ keycode \in 0 .. 255 /\ report \in 0 .. 255
  /\ msg \in Message /\ msg_flag \in BOOLEAN
  /\ pointer \in List /\ busy \in Part /\ control \in Control
  /\ attached \in BOOLEAN /\ unplugged \in BOOLEAN
  /\ answered \subseteq Step /\ reported \subseteq 0 .. 255

Init == /\ pc = "Reset" /\ step = 1 /\ usb_ctl_val = {} /\ hot_plug_count = 0
        /\ keycode = 0
        /\ msg = {} /\ msg_flag = FALSE /\ pointer = "none" /\ busy = "none"
        /\ control = "pending" /\ report = 0
        /\ attached \in BOOLEAN /\ answered = {}
        /\ unplugged = FALSE /\ reported = {}

Goto(label) == pc' = label

-----------------------------------------------------------------------------
(* USB_HOT_PLUG: reset of the chip and start of its host port.             *)

UsbSoftReset ==
  /\ pc = "Reset" /\ Goto("Initial")
  /\ step' = 1
  /\ pointer' = "none" /\ busy' = "none" /\ msg_flag' = FALSE
  /\ answered' = {} /\ unplugged' = FALSE /\ reported' = {}
  /\ UNCHANGED <<usb_ctl_val, hot_plug_count, keycode, msg, control, report, attached>>

\* The message register is cleared after it has been read.
ClearMessages ==
  /\ pc = "Initial" /\ Goto("SieInit")
  /\ msg' = {}
  /\ UNCHANGED <<step, usb_ctl_val, hot_plug_count, keycode, msg_flag, pointer, busy,
                 control, report, keyboardVars, history>>

\* A command to the chip is acknowledged in the mailbox, or all starts again.
Command(label, next) ==
  /\ pc = label
  /\ Goto(next) \/ Goto("Reset")
  /\ UNCHANGED <<step, usb_ctl_val, hot_plug_count, keycode, chipVars, keyboardVars, history>>

\* Mutant: one reading too many.
MoreReadingsLate(n) == hot_plug_count <= n

\* The first reading is followed by n more, as long as nothing is there.
MoreReadings(n) == hot_plug_count < n

LookForDevice ==
  /\ pc = "LookForDevice"
  /\ IF attached THEN Goto("Submit") /\ hot_plug_count' = 0
     ELSE IF MoreReadings(5) THEN Goto(pc) /\ hot_plug_count' = hot_plug_count + 1
     ELSE Goto("Insert") /\ hot_plug_count' = 0
  /\ UNCHANGED <<step, usb_ctl_val, keycode, chipVars, keyboardVars, history>>

AwaitDevice(label) ==
  /\ pc = label
  /\ attached /\ Goto("Reset")
  /\ UNCHANGED <<step, usb_ctl_val, hot_plug_count, keycode, chipVars, keyboardVars, history>>

-----------------------------------------------------------------------------
(* A transfer: it is written and submitted until a message is flagged.     *)

\* Mutant: the lists are written to another place.
SubmittedElsewhere == report

\* The list covers the word a report is read from: it is the last one of the
\* second TD.  The list that polls the endpoint is shorter.
Submitted == IF step = Poll THEN report ELSE Transfers[step].tds[2].next % 256

Submit ==
  /\ pc = "Submit" /\ Goto("Status")
  /\ pointer' = "transfer" /\ control' = "pending"
  /\ report' = Submitted
  /\ UNCHANGED <<step, usb_ctl_val, hot_plug_count, keycode, msg, msg_flag, busy,
                 keyboardVars, history>>

ReadStatus ==
  /\ pc = "Status" /\ Goto(IF msg_flag THEN "Read" ELSE "Submit")
  /\ UNCHANGED <<step, usb_ctl_val, hot_plug_count, keycode, chipVars, keyboardVars, history>>

\* UsbWaitTDListDone: the message is read, and the register is cleared.
ReadMessage(label, next) ==
  /\ pc = label /\ Goto(next)
  /\ usb_ctl_val' = msg /\ msg_flag' = FALSE
  /\ UNCHANGED <<step, hot_plug_count, keycode, msg, pointer, busy, control, report,
                 keyboardVars, history>>

ClearMessage ==
  /\ pc = "Clear"
  /\ Goto(IF usb_ctl_val # {"TDListDone"} THEN "Read"
          ELSE IF step = Poll THEN "ReadKey" ELSE "ReadControl")
  /\ msg' = {}
  /\ UNCHANGED <<step, usb_ctl_val, hot_plug_count, keycode, msg_flag, pointer, busy,
                 control, report, keyboardVars, history>>

-----------------------------------------------------------------------------
(* The transfer is over when its control word says so; if not, step 1      *)
(* starts again and the others wait for the chip to retry.                 *)

\* Mutant: the word is read and not looked at.
TransferOverAlways == TRUE

TransferOver == control = "done"

NextTransfer == /\ Goto(IF step + 1 = SetConfig THEN "Endpoint" ELSE "Submit")
                /\ step' = step + 1

ReadControl ==
  /\ pc = "ReadControl"
  /\ IF TransferOver THEN NextTransfer ELSE Goto("RetryRead") /\ UNCHANGED step
  /\ UNCHANGED <<usb_ctl_val, hot_plug_count, keycode, chipVars, keyboardVars, history>>

\* UsbGetRetryCnt, after ReadMessage("RetryRead", "RetryClear").
RetryClear ==
  /\ pc = "RetryClear"
  /\ IF usb_ctl_val = {"TDListDone"} THEN Goto("RetryStatus") /\ msg' = {}
     ELSE Goto("RetryControl") /\ UNCHANGED msg
  /\ UNCHANGED <<step, usb_ctl_val, hot_plug_count, keycode, msg_flag, pointer, busy,
                 control, report, keyboardVars, history>>

RetryStatus ==
  /\ pc = "RetryStatus"
  /\ msg_flag /\ Goto("RetryControl")
  /\ UNCHANGED <<step, usb_ctl_val, hot_plug_count, keycode, chipVars, keyboardVars, history>>

RetryControl ==
  /\ pc = "RetryControl"
  /\ IF step = 1 THEN Goto("Reset") /\ UNCHANGED step
     ELSE IF TransferOver THEN NextTransfer
     ELSE Goto("RetryRead") /\ UNCHANGED step
  /\ UNCHANGED <<usb_ctl_val, hot_plug_count, keycode, chipVars, keyboardVars, history>>

\* Between the descriptors and the configuration an endpoint descriptor is
\* written to 0x0576 and submitted as if it were a list.
SubmitEndpoint ==
  /\ pc = "Endpoint" /\ Goto("Submit")
  /\ pointer' = "endpoint"
  /\ UNCHANGED <<step, usb_ctl_val, hot_plug_count, keycode, msg, msg_flag, busy, control,
                 report, keyboardVars, history>>

-----------------------------------------------------------------------------
(* The polling loop.                                                       *)

ReadKey ==
  /\ pc = "ReadKey" /\ Goto("LookAgain")
  /\ keycode' = report
  /\ UNCHANGED <<step, usb_ctl_val, hot_plug_count, chipVars, keyboardVars, history>>

LookAgain ==
  /\ pc = "LookAgain"
  /\ IF attached THEN Goto("Submit") /\ hot_plug_count' = 0
     ELSE IF MoreReadings(NoDevice) THEN Goto(pc) /\ hot_plug_count' = hot_plug_count + 1
     ELSE Goto("Removed") /\ hot_plug_count' = 0
  /\ UNCHANGED <<step, usb_ctl_val, keycode, chipVars, keyboardVars, history>>

Host == \/ UsbSoftReset \/ ClearMessages
        \/ Command("SieInit", "HusbReset") \/ Command("HusbReset", "LookForDevice")
        \/ LookForDevice \/ AwaitDevice("Insert")
        \/ Submit \/ ReadStatus \/ ReadMessage("Read", "Clear") \/ ClearMessage
        \/ ReadControl \/ ReadMessage("RetryRead", "RetryClear") \/ RetryClear
        \/ RetryStatus \/ RetryControl \/ SubmitEndpoint
        \/ ReadKey \/ LookAgain \/ AwaitDevice("Removed")

-----------------------------------------------------------------------------
(* The chip and the keyboard.                                              *)

Send(m) == msg' = msg \union {m} /\ msg_flag' = TRUE

Fetch == /\ busy = "none" /\ pointer # "none"
         /\ busy' = IF pointer = "transfer" THEN "first" ELSE "endpoint"
         /\ UNCHANGED <<hostVars, msg, msg_flag, pointer, control, report, keyboardVars, history>>

\* The keyboard takes a transfer once it has its address.
Answer ==
  /\ attached /\ (step = 1 \/ 1 \in answered)
  /\ control' = "done"
  /\ answered' = answered \union {step}
  /\ IF step = Poll
     THEN \E k \in Keys : report' = k /\ reported' = reported \union {k}
     ELSE UNCHANGED <<report, reported>>

NoAnswer == /\ control' = "retried"
            /\ UNCHANGED <<report, answered, reported>>

FirstTD ==
  /\ busy = "first" /\ busy' = "rest"
  /\ Answer \/ NoAnswer
  /\ UNCHANGED <<hostVars, msg, msg_flag, pointer, attached, unplugged>>

Finish ==
  /\ busy \in {"rest", "endpoint"}
  /\ busy' = "none" /\ pointer' = "none"
  /\ Send("TDListDone")
  /\ UNCHANGED <<hostVars, control, report, keyboardVars, history>>

Unplug == /\ attached /\ attached' = FALSE
          /\ answered' = {} /\ unplugged' = TRUE
          /\ Send("Remove")
          /\ UNCHANGED <<hostVars, pointer, busy, control, report, reported>>

Plug == /\ ~attached /\ attached' = TRUE
        /\ Send("Insert")
        /\ UNCHANGED <<hostVars, pointer, busy, control, report, answered, history>>

Next == Host \/ Fetch \/ FirstTD \/ Finish \/ Unplug \/ Plug

Spec == Init /\ [][Next]_vars

\* The processor and the chip do not stop.
FairSpec == Spec /\ WF_vars(Host) /\ WF_vars(Fetch) /\ WF_vars(FirstTD) /\ WF_vars(Finish)

-----------------------------------------------------------------------------
(* No transfer of the enumeration is left out, whatever messages of        *)
(* earlier lists, of the endpoint list or of the plug are taken for its    *)
(* own: unless the keyboard has been pulled out meanwhile it has taken     *)
(* every transfer the program has passed.                                  *)
Enumerated == unplugged \/ 1 .. step - 1 \subseteq answered

(* The key code written to the hardware was reported by this keyboard: the *)
(* memory that held the last report of an earlier one was overwritten by   *)
(* the transfers of the enumeration.                                       *)
KeyIsReported ==
  pc = "LookAgain" => keycode \in reported \union {Transfers[Poll - 1].tds[2].next % 256}

(* What the program writes is a list the chip can follow, with a place for *)
(* all that comes back, and it looks for the device and its keys there.    *)
ListsWellFormed == /\ step # Poll => WellFormed(Transfers[step])
                   /\ ProtocolFound /\ KeyFound

(* usb.h:92 says of UsbWaitTDListDone "Check and wait until                *)
(* HUSB_TDListDone is read from HPI Data": the message of a list that was  *)
(* submitted ends the wait, at least if the keyboard is not pulled out.    *)
WaitEnds == <>[]attached => (pc = "Read" ~> pc \notin {"Read", "Clear"})
=============================================================================
