--------------------------- MODULE TransferLists ---------------------------
(***************************************************************************)
(* The transfers of usb.c: what each of its functions writes into the      *)
(* memory of the USB chip, from the address 0x0500 on, for the chip to     *)
(* carry out.  A transfer is a list of transfer descriptors (TD), each six *)
(* words long: where the data are, how many bytes, the packet, the data    *)
(* toggle, the retry control and the address of the next TD.  The first TD *)
(* of a control transfer is followed by the four words it sends.           *)
(***************************************************************************)
EXTENDS Naturals, Sequences

Start == \h500
TDSize == 12
ContentSize == 8

DATA0 == \h0001
DATA1 == \h0041

TD(base, len, packet, toggle, next) ==
  [base |-> base, len |-> len, packet |-> packet, toggle |-> toggle, next |-> next]

\* Every control transfer begins with the same SETUP packet; it asks for
\* at most requested bytes.
Setup == TD(\h50C, 8, "SETUP", DATA0, \h514)
In(base, len, toggle, next) == TD(base, len, "IN", toggle, next)
StatusIn == In(0, 0, DATA1, 0)
StatusOut == TD(0, 0, "OUT", DATA1, 0)

Transfer(requested, tds) == [requested |-> requested, tds |-> tds]

UsbSetAddress == Transfer(0, <<Setup, StatusIn>>)

UsbGetDeviceDesc1 == Transfer(\h08, <<Setup, In(\h52C, 8, DATA1, \h520), StatusOut>>)

\* Mutant: the second packet points back at itself.
UsbGetDeviceDesc2Loops == Transfer(\h12,
  <<Setup,
    In(\h544, 8, DATA1, \h520),
    In(\h54C, 8, DATA0, \h520),
    In(\h554, 2, DATA1, \h538),
    StatusOut>>)

UsbGetDeviceDesc2 == Transfer(\h12,
  <<Setup,
    In(\h544, 8, DATA1, \h520),
    In(\h54C, 8, DATA0, \h52C),
    In(\h554, 2, DATA1, \h538),
    StatusOut>>)

UsbGetConfigDesc1 == Transfer(\h09,
  <<Setup, In(\h544, 8, DATA1, \h520), In(\h54C, 1, DATA0, \h52C), StatusOut>>)

UsbGetConfigDesc2 == Transfer(\hFF,
  <<Setup,
    In(\h55C, 8, DATA1, \h520),
    In(\h564, 8, DATA0, \h52C),
    In(\h56C, 8, DATA1, \h538),
    In(\h574, 8, DATA0, \h544),
    In(\h57C, 2, DATA1, \h550),
    StatusOut>>)

UsbSetConfig == Transfer(0, <<Setup, StatusIn>>)

UsbClassRequest == Transfer(0, <<Setup, StatusIn>>)

UsbGetHidDesc == Transfer(\h7B, <<Setup, In(\h544, 8, DATA1, \h520), StatusOut>>)

UsbGetReportDesc == Transfer(\h7B,
  <<Setup,
    In(\h580, 8, DATA1, \h520),
    In(\h588, 8, DATA0, \h52C),
    In(\h590, 8, DATA1, \h538),
    In(\h598, 8, DATA0, \h544),
    In(\h5A0, 8, DATA1, \h550),
    In(\h5A8, 8, DATA0, \h55C),
    In(\h5B0, 8, DATA1, \h568),
    In(\h5B8, 3, DATA0, \h574),
    StatusOut>>)

\* The enumeration: the transfers in the order main.c makes them.
Transfers == <<UsbSetAddress, UsbGetDeviceDesc1, UsbGetDeviceDesc2,
               UsbGetConfigDesc1, UsbGetConfigDesc2, UsbSetConfig,
               UsbClassRequest, UsbGetHidDesc, UsbGetReportDesc>>

\* What main.c writes again and again to ask the keyboard for a report; its
\* toggle is DATA0 and DATA1 in turn.
PollList(toggle) == Transfer(8, <<In(\h51C, 8, toggle, 0)>>)

-----------------------------------------------------------------------------
\* The address of the i-th TD, and the first address after the last one.
Place(i) == IF i = 1 THEN Start ELSE Start + ContentSize + (i - 1) * TDSize
End(t) == Place(Len(t.tds) + 1)

Data(t) == {i \in DOMAIN t.tds : t.tds[i].packet = "IN" /\ t.tds[i].len > 0}

\* The chip finds every TD in turn, and the end.
Linked(t) == \A i \in DOMAIN t.tds :
               t.tds[i].next = IF i = Len(t.tds) THEN 0 ELSE Place(i + 1)

\* What arrives is stored without gap or overlap, clear of the list, and is no
\* more than was asked for.
Stored(t) == /\ \A i \in Data(t) : /\ t.tds[i].base >= End(t)
                                   /\ t.tds[i].base + t.tds[i].len <= t.tds[2].base + t.requested
             /\ \A i \in Data(t) : i + 1 \in Data(t) =>
                  t.tds[i + 1].base = t.tds[i].base + t.tds[i].len

\* SETUP is DATA0, then the toggle alternates; the last packet is DATA1.
Toggled(t) == /\ t.tds[1].toggle = DATA0
              /\ \A i \in Data(t) : t.tds[i].toggle # t.tds[i - 1].toggle
              /\ t.tds[Len(t.tds)].toggle = DATA1

WellFormed(t) == Linked(t) /\ Stored(t) /\ Toggled(t)

\* Where main.c looks for byte 7 of the interface descriptor, which follows
\* the nine bytes of the configuration descriptor.
ProtocolAddress == \h56C
ProtocolFound == ProtocolAddress = UsbGetConfigDesc2.tds[2].base + 9 + 7

\* Where main.c looks for the first key of a report, which is its third byte;
\* the lists of the enumeration have the last word of their second TD there.
KeyAddress == \h51E
KeyFound == /\ KeyAddress = PollList(DATA0).tds[1].base + 2
            /\ KeyAddress = Place(2) + TDSize - 2
=============================================================================
