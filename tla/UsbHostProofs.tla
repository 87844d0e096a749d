--------------------------- MODULE UsbHostProofs ---------------------------
(***************************************************************************)
(* The safety properties of UsbHost, for every set of keys.  Neither is    *)
(* inductive: what the program relies on is the control word in memory,    *)
(* and the invariant says what a word that reads "done" stands for.        *)
(***************************************************************************)
EXTENDS UsbHost, TLAPS

LEMMA PollIsTen == Poll = 10
BY DEF Poll, Transfers

LEMMA NextIsByte == \A i \in 1 .. 9 : Transfers[i].tds[2].next % 256 \in 0 .. 255
<1> DEFINE n == <<0, \h520, \h520, \h520, \h520, 0, 0, \h520, \h520>>
<1>1. \A i \in 1 .. 9 : Transfers[i].tds[2].next = n[i]
  BY DEF Transfers, UsbSetAddress, UsbGetDeviceDesc1, UsbGetDeviceDesc2, UsbGetConfigDesc1,
         UsbGetConfigDesc2, UsbSetConfig, UsbClassRequest, UsbGetHidDesc, UsbGetReportDesc,
         Transfer, Setup, In, StatusIn, StatusOut, TD
<1>2. \A i \in 1 .. 9 : n[i] \in Nat
  OBVIOUS
<1>3. \A k \in Nat : k % 256 \in 0 .. 255
  OBVIOUS
<1> HIDE DEF n
<1>4. \A i \in 1 .. 9 : Transfers[i].tds[2].next \in Nat
  BY <1>1, <1>2
<1> QED BY <1>3, <1>4

\* The byte the lists of the enumeration leave where the first report comes.
Left == Transfers[Poll - 1].tds[2].next % 256

\* The program has submitted the list of step and not left it.
Waiting == {"Status", "Read", "Clear", "ReadControl", "RetryRead", "RetryClear",
            "RetryStatus", "RetryControl", "ReadKey", "LookAgain", "Removed"}

\* The chip is still to write the control word of the list submitted last.
Due == busy = "first" \/ (busy = "none" /\ pointer = "transfer")

\* In the polling loop, and nowhere else, the step is the last one.
StepAtPlace == /\ pc \in {"ReadKey", "LookAgain", "Removed"} => step = Poll
               /\ pc \in {"ReadControl", "RetryRead", "RetryClear", "RetryStatus",
                           "RetryControl", "Endpoint"} => step # Poll

InStep == /\ Enumerated
          /\ StepAtPlace
          /\ Due => control # "done"
          /\ control = "done" /\ pc \in Waiting => unplugged \/ step \in answered

KeysKnown == /\ step = Poll - 1 /\ pc \in Waiting => report = Left
             /\ step = Poll => report \in reported \union {Left}
             /\ pc = "LookAgain" => keycode \in reported \union {Left}

IInv == UsbTypeOK /\ InStep /\ KeysKnown

LEMMA SubmittedIsByte == ASSUME UsbTypeOK PROVE Submitted \in 0 .. 255
<1>1. report \in 0 .. 255 /\ (step = Poll \/ step \in 1 .. 9)
  BY PollIsTen DEF UsbTypeOK, Step
<1> QED BY <1>1, NextIsByte DEF Submitted

LEMMA InitIInv == Init => IInv
<1> SUFFICES ASSUME Init PROVE IInv
  OBVIOUS
<1>1. UsbTypeOK
  <2>1. step \in Step /\ hot_plug_count \in 0 .. NoDevice
    BY PollIsTen DEF Init, Step, NoDevice
  <2>2. usb_ctl_val \in Message /\ msg \in Message
    BY PollIsTen DEF Init, Message
  <2>3. answered \subseteq Step /\ reported \subseteq 0 .. 255
    BY PollIsTen DEF Init
  <2>4. attached \in BOOLEAN /\ unplugged \in BOOLEAN /\ msg_flag \in BOOLEAN
    BY PollIsTen DEF Init
  <2>5. keycode \in 0 .. 255 /\ report \in 0 .. 255
    BY PollIsTen DEF Init
  <2>6. pointer \in List /\ busy \in Part /\ control \in Control
    BY PollIsTen DEF Init, List, Part, Control
  <2> QED BY <2>1, <2>2, <2>3, <2>4, <2>5, <2>6 DEF Init, UsbTypeOK
<1>2. InStep
  BY PollIsTen DEF Init, InStep, Enumerated, StepAtPlace, Due, Waiting
<1>3. KeysKnown
  BY PollIsTen DEF Init, KeysKnown, Waiting
<1> QED BY <1>1, <1>2, <1>3 DEF IInv

\* Every action keeps the types, the program's and then the chip's.
LEMMA HostType == ASSUME IInv, Host PROVE UsbTypeOK'
<1> USE PollIsTen DEF IInv, UsbTypeOK, Step, Goto, Message, Control, List, Part,
              hostVars, chipVars, keyboardVars, history
<1>1. CASE UsbSoftReset
  <2>1. step' \in Step /\ hot_plug_count' \in 0 .. NoDevice
    BY <1>1 DEF UsbSoftReset
  <2>2. usb_ctl_val' \in Message /\ msg' \in Message
    BY <1>1 DEF UsbSoftReset
  <2>3. answered' \subseteq Step /\ reported' \subseteq 0 .. 255
    BY <1>1 DEF UsbSoftReset
  <2>4. attached' \in BOOLEAN /\ unplugged' \in BOOLEAN /\ msg_flag' \in BOOLEAN
    BY <1>1 DEF UsbSoftReset
  <2>5. keycode' \in 0 .. 255 /\ report' \in 0 .. 255
    BY <1>1 DEF UsbSoftReset
  <2> QED BY <1>1, <2>1, <2>2, <2>3, <2>4, <2>5 DEF UsbSoftReset
<1>2. CASE ClearMessages
  BY <1>2 DEF ClearMessages
<1>3. CASE Command("SieInit", "HusbReset")
  BY <1>3 DEF Command
<1>4. CASE Command("HusbReset", "LookForDevice")
  BY <1>4 DEF Command
<1>5. CASE LookForDevice
  BY <1>5 DEF LookForDevice, MoreReadings, NoDevice
<1>6. CASE AwaitDevice("Insert")
  BY <1>6 DEF AwaitDevice
<1>7. CASE AwaitDevice("Removed")
  BY <1>7 DEF AwaitDevice
<1>8. CASE Submit
  BY <1>8, SubmittedIsByte DEF Submit
<1>9. CASE ReadStatus
  BY <1>9 DEF ReadStatus
<1>10. CASE ReadMessage("Read", "Clear")
  BY <1>10 DEF ReadMessage
<1>11. CASE ReadMessage("RetryRead", "RetryClear")
  BY <1>11 DEF ReadMessage
<1>12. CASE ClearMessage
  BY <1>12 DEF ClearMessage
<1>13. CASE ReadControl
  <2>1. step' \in Step /\ pc' \in {"Endpoint", "Submit", "RetryRead"}
    BY <1>13 DEF ReadControl, NextTransfer, StepAtPlace, InStep
  <2> QED BY <1>13, <2>1 DEF ReadControl, TransferOver, NextTransfer
<1>14. CASE RetryClear
  BY <1>14 DEF RetryClear
<1>15. CASE RetryStatus
  BY <1>15 DEF RetryStatus
<1>16. CASE RetryControl
  <2>1. step' \in Step /\ pc' \in {"Reset", "Endpoint", "Submit", "RetryRead"}
    BY <1>16 DEF RetryControl, NextTransfer, StepAtPlace, InStep
  <2> QED BY <1>16, <2>1 DEF RetryControl, TransferOver, NextTransfer
<1>17. CASE SubmitEndpoint
  BY <1>17 DEF SubmitEndpoint
<1>18. CASE ReadKey
  BY <1>18 DEF ReadKey
<1>19. CASE LookAgain
  BY <1>19 DEF LookAgain, MoreReadings, NoDevice
<1> QED BY <1>1, <1>2, <1>3, <1>4, <1>5, <1>6, <1>7, <1>8, <1>9, <1>10, <1>11, <1>12, <1>13,
           <1>14, <1>15, <1>16, <1>17, <1>18, <1>19 DEF Host

LEMMA ChipType == ASSUME IInv, Fetch \/ FirstTD \/ Finish \/ Unplug \/ Plug PROVE UsbTypeOK'
<1> USE PollIsTen DEF IInv, UsbTypeOK, Step, Goto, Message, Control, List, Part,
              hostVars, chipVars, keyboardVars, history
<1>1. CASE Fetch
  BY <1>1 DEF Fetch
<1>2. CASE FirstTD /\ Answer
  <2>1. answered' \subseteq Step
    BY <1>2 DEF Answer
  <2>2. report' \in 0 .. 255
    BY <1>2, KeysAssumption DEF Answer
  <2>3. reported' = reported \/ \E k \in Keys : reported' = reported \union {k}
    BY <1>2 DEF Answer
  <2>4. reported' \subseteq 0 .. 255
    BY <2>3, KeysAssumption
  <2> QED BY <1>2, <2>1, <2>2, <2>4 DEF FirstTD, Answer
<1>3. CASE FirstTD /\ NoAnswer
  BY <1>3 DEF FirstTD, NoAnswer
<1>4. CASE Finish
  BY <1>4 DEF Finish, Send
<1>5. CASE Unplug
  <2>1. step' \in Step /\ hot_plug_count' \in 0 .. NoDevice
    BY <1>5 DEF Unplug, Send
  <2>2. usb_ctl_val' \in Message /\ msg' \in Message
    BY <1>5 DEF Unplug, Send
  <2>3. answered' \subseteq Step /\ reported' \subseteq 0 .. 255
    BY <1>5 DEF Unplug, Send
  <2>4. attached' \in BOOLEAN /\ unplugged' \in BOOLEAN /\ msg_flag' \in BOOLEAN
    BY <1>5 DEF Unplug, Send
  <2>5. keycode' \in 0 .. 255 /\ report' \in 0 .. 255
    BY <1>5 DEF Unplug, Send
  <2> QED BY <1>5, <2>1, <2>2, <2>3, <2>4, <2>5 DEF Unplug, Send
<1>6. CASE Plug
  BY <1>6 DEF Plug, Send
<1> QED BY <1>1, <1>2, <1>3, <1>4, <1>5, <1>6 DEF FirstTD

\* Every action keeps transfers and control word in step.
LEMMA HostInStep == ASSUME IInv, Host PROVE InStep'
<1> USE PollIsTen DEF IInv, InStep, Enumerated, StepAtPlace, Due, Waiting, Goto,
              UsbTypeOK, Step, hostVars, chipVars, keyboardVars, history
<1>1. CASE UsbSoftReset
  BY <1>1 DEF UsbSoftReset
<1>2. CASE ClearMessages
  BY <1>2 DEF ClearMessages
<1>3. CASE Command("SieInit", "HusbReset")
  BY <1>3 DEF Command
<1>4. CASE Command("HusbReset", "LookForDevice")
  BY <1>4 DEF Command
<1>5. CASE LookForDevice
  BY <1>5 DEF LookForDevice, MoreReadings, NoDevice
<1>6. CASE AwaitDevice("Insert")
  BY <1>6 DEF AwaitDevice
<1>7. CASE AwaitDevice("Removed")
  BY <1>7 DEF AwaitDevice
<1>8. CASE Submit
  BY <1>8 DEF Submit
<1>9. CASE ReadStatus
  BY <1>9 DEF ReadStatus
<1>10. CASE ReadMessage("Read", "Clear")
  BY <1>10 DEF ReadMessage
<1>11. CASE ReadMessage("RetryRead", "RetryClear")
  BY <1>11 DEF ReadMessage
<1>12. CASE ClearMessage
  BY <1>12 DEF ClearMessage
<1>13. CASE ReadControl
  <2>1. Enumerated'
    BY <1>13 DEF ReadControl, TransferOver, NextTransfer
  <2>2. StepAtPlace' /\ (control' = "done" /\ pc' \in Waiting => unplugged' \/ step' \in answered')
    BY <1>13 DEF ReadControl, TransferOver, NextTransfer, SetConfig
  <2> QED BY <1>13, <2>1, <2>2 DEF ReadControl, TransferOver, NextTransfer
<1>14. CASE RetryClear
  BY <1>14 DEF RetryClear
<1>15. CASE RetryStatus
  BY <1>15 DEF RetryStatus
<1>16. CASE RetryControl
  <2>1. Enumerated'
    BY <1>16 DEF RetryControl, TransferOver, NextTransfer
  <2>2. StepAtPlace' /\ (control' = "done" /\ pc' \in Waiting => unplugged' \/ step' \in answered')
    BY <1>16 DEF RetryControl, TransferOver, NextTransfer, SetConfig
  <2> QED BY <1>16, <2>1, <2>2 DEF RetryControl, TransferOver, NextTransfer
<1>17. CASE SubmitEndpoint
  BY <1>17 DEF SubmitEndpoint
<1>18. CASE ReadKey
  BY <1>18 DEF ReadKey
<1>19. CASE LookAgain
  BY <1>19 DEF LookAgain, MoreReadings, NoDevice
<1> QED BY <1>1, <1>2, <1>3, <1>4, <1>5, <1>6, <1>7, <1>8, <1>9, <1>10, <1>11, <1>12, <1>13,
           <1>14, <1>15, <1>16, <1>17, <1>18, <1>19 DEF Host

LEMMA ChipInStep == ASSUME IInv, Fetch \/ FirstTD \/ Finish \/ Unplug \/ Plug PROVE InStep'
<1> USE PollIsTen DEF IInv, InStep, Enumerated, StepAtPlace, Due, Waiting, Goto,
              UsbTypeOK, Step, hostVars, chipVars, keyboardVars, history
<1>1. CASE Fetch
  BY <1>1 DEF Fetch
<1>2. CASE FirstTD /\ Answer
  BY <1>2 DEF FirstTD, Answer
<1>3. CASE FirstTD /\ NoAnswer
  BY <1>3 DEF FirstTD, NoAnswer
<1>4. CASE Finish
  BY <1>4 DEF Finish, Send
<1>5. CASE Unplug
  BY <1>5 DEF Unplug, Send
<1>6. CASE Plug
  BY <1>6 DEF Plug, Send
<1> QED BY <1>1, <1>2, <1>3, <1>4, <1>5, <1>6 DEF FirstTD

\* Every action keeps what is known of the report and of the key code.
LEMMA HostKeys == ASSUME IInv, Host PROVE KeysKnown'
<1> USE PollIsTen DEF IInv, InStep, StepAtPlace, KeysKnown, Waiting, Goto,
              UsbTypeOK, Step, hostVars, chipVars, keyboardVars, history
<1>1. CASE UsbSoftReset
  BY <1>1 DEF UsbSoftReset
<1>2. CASE ClearMessages
  BY <1>2 DEF ClearMessages
<1>3. CASE Command("SieInit", "HusbReset")
  BY <1>3 DEF Command
<1>4. CASE Command("HusbReset", "LookForDevice")
  BY <1>4 DEF Command
<1>5. CASE LookForDevice
  BY <1>5 DEF LookForDevice, MoreReadings, NoDevice
<1>6. CASE AwaitDevice("Insert")
  BY <1>6 DEF AwaitDevice
<1>7. CASE AwaitDevice("Removed")
  BY <1>7 DEF AwaitDevice
<1>8. CASE Submit
  BY <1>8 DEF Submit, Submitted, Left
<1>9. CASE ReadStatus
  BY <1>9 DEF ReadStatus
<1>10. CASE ReadMessage("Read", "Clear")
  BY <1>10 DEF ReadMessage
<1>11. CASE ReadMessage("RetryRead", "RetryClear")
  BY <1>11 DEF ReadMessage
<1>12. CASE ClearMessage
  BY <1>12 DEF ClearMessage
<1>13. CASE ReadControl
  BY <1>13 DEF ReadControl, TransferOver, NextTransfer
<1>14. CASE RetryClear
  BY <1>14 DEF RetryClear
<1>15. CASE RetryStatus
  BY <1>15 DEF RetryStatus
<1>16. CASE RetryControl
  BY <1>16 DEF RetryControl, TransferOver, NextTransfer
<1>17. CASE SubmitEndpoint
  BY <1>17 DEF SubmitEndpoint
<1>18. CASE ReadKey
  BY <1>18 DEF ReadKey
<1>19. CASE LookAgain
  BY <1>19 DEF LookAgain, MoreReadings, NoDevice
<1> QED BY <1>1, <1>2, <1>3, <1>4, <1>5, <1>6, <1>7, <1>8, <1>9, <1>10, <1>11, <1>12, <1>13,
           <1>14, <1>15, <1>16, <1>17, <1>18, <1>19 DEF Host

LEMMA ChipKeys == ASSUME IInv, Fetch \/ FirstTD \/ Finish \/ Unplug \/ Plug PROVE KeysKnown'
<1> USE PollIsTen DEF IInv, InStep, StepAtPlace, KeysKnown, Waiting, Goto,
              UsbTypeOK, Step, hostVars, chipVars, keyboardVars, history
<1>1. CASE Fetch
  BY <1>1 DEF Fetch
<1>2. CASE FirstTD /\ Answer
  BY <1>2 DEF FirstTD, Answer
<1>3. CASE FirstTD /\ NoAnswer
  BY <1>3 DEF FirstTD, NoAnswer
<1>4. CASE Finish
  BY <1>4 DEF Finish, Send
<1>5. CASE Unplug
  BY <1>5 DEF Unplug, Send
<1>6. CASE Plug
  BY <1>6 DEF Plug, Send
<1> QED BY <1>1, <1>2, <1>3, <1>4, <1>5, <1>6 DEF FirstTD

(* The invariant holds, whatever keys are pressed, messages merge or are   *)
(* lost and keyboards come and go.                                         *)
THEOREM UsbInvariant == Spec => []IInv
<1>1. IInv /\ Next => IInv'
  BY HostType, HostInStep, HostKeys, ChipType, ChipInStep, ChipKeys DEF Next, IInv
<1>2. IInv /\ UNCHANGED vars => IInv'
  BY DEF IInv, UsbTypeOK, InStep, Enumerated, StepAtPlace, Due, KeysKnown, vars,
     hostVars, chipVars, keyboardVars, history
<1> QED BY InitIInv, <1>1, <1>2, PTL DEF Spec

(* All registers and variables keep their ranges; in particular the        *)
(* readings of hot_plug_count end.                                         *)
THEOREM UsbTypeCorrect == Spec => []UsbTypeOK
BY UsbInvariant, PTL DEF IInv

(* The program of main.c passes no transfer the keyboard has not taken.    *)
THEOREM NoTransferSkipped == Spec => []Enumerated
BY UsbInvariant, PTL DEF IInv, InStep

(* The key code main.c:522 writes was reported since the last reset, or is *)
(* the byte left by the enumeration.                                       *)
THEOREM KeysAreReported == Spec => []KeyIsReported
<1>1. IInv => KeyIsReported
  BY DEF IInv, KeysKnown, KeyIsReported, Left
<1> QED BY UsbInvariant, <1>1, PTL

\* The lists, one by one.
LEMMA TransfersWellFormed == \A i \in 1 .. Len(Transfers) : WellFormed(Transfers[i])
<1> USE DEF WellFormed, Linked, Stored, Toggled, Data, End, Place, Transfer, TD, Setup, In,
            StatusIn, StatusOut, Start, TDSize, ContentSize, DATA0, DATA1
<1>1. WellFormed(UsbSetAddress)
  BY DEF UsbSetAddress
<1>2. WellFormed(UsbGetDeviceDesc1)
  BY DEF UsbGetDeviceDesc1
<1>3. WellFormed(UsbGetDeviceDesc2)
  BY DEF UsbGetDeviceDesc2
<1>4. WellFormed(UsbGetConfigDesc1)
  BY DEF UsbGetConfigDesc1
<1>5. WellFormed(UsbGetConfigDesc2)
  BY DEF UsbGetConfigDesc2
<1>6. WellFormed(UsbSetConfig)
  BY DEF UsbSetConfig
<1>7. WellFormed(UsbClassRequest)
  BY DEF UsbClassRequest
<1>8. WellFormed(UsbGetHidDesc)
  BY DEF UsbGetHidDesc
<1>9. WellFormed(UsbGetReportDesc)
  BY DEF UsbGetReportDesc
<1> HIDE DEF WellFormed
<1> QED BY <1>1, <1>2, <1>3, <1>4, <1>5, <1>6, <1>7, <1>8, <1>9 DEF Transfers

(* What the program writes is a list the chip can follow, with a place for *)
(* all that comes back; byte 7 of the interface descriptor and the first   *)
(* key of a report are where main.c looks for them (usb.c, main.c).        *)
THEOREM ListsAreWellFormed == Spec => []ListsWellFormed
<1>1. ProtocolFound
  BY DEF ProtocolFound, ProtocolAddress, UsbGetConfigDesc2, Transfer, TD, Setup, In, StatusOut
<1>2. KeyFound
  BY DEF KeyFound, KeyAddress, PollList, Place, Transfer, TD, In, Start, TDSize, ContentSize
<1>3. IInv => ListsWellFormed
  <2> SUFFICES ASSUME IInv, step # Poll PROVE WellFormed(Transfers[step])
    BY <1>1, <1>2 DEF ListsWellFormed
  <2>1. step \in 1 .. Len(Transfers)
    <3>1. Len(Transfers) = 9
      BY DEF Transfers
    <3> QED BY <3>1, PollIsTen DEF IInv, UsbTypeOK, Step
  <2> QED BY <2>1, TransfersWellFormed
<1> QED BY <1>3, UsbInvariant, PTL
=============================================================================
