------------------------------- MODULE HpiBus -------------------------------
(***************************************************************************)
(* The way from the host program to the USB chip: IO_init, IO_read and     *)
(* IO_write (io_handler.c), which move the pins of the chip one by one     *)
(* through the parallel ports of the Nios; the bridge hpi_io_intf.sv, which *)
(* registers the pins once more, except the one that opens the driver of   *)
(* the data bus; and the chip (external).                                  *)
(*                                                                         *)
(* A step is a rising edge of Clk.  The program accesses a port every Gap  *)
(* cycles at the earliest and otherwise when it likes; key 0 resets the    *)
(* bridge, and not the Nios (renderer_top.sv:281), at any time.            *)
(***************************************************************************)
EXTENDS HpiChip, Sequences

CONSTANTS Gap,         \* cycles from one access to the next, at least
          AccessTime   \* cycles from the read strobe to the data (external)

(* A word read passes two registers of the bridge, which also holds the    *)
(* strobe for one, and one of the port.  A Nios II/e takes six cycles for  *)
(* an instruction.                                                         *)
ASSUME GapAssumption == /\ Gap \in Nat
                        /\ AccessTime \in Nat
                        /\ Gap >= AccessTime + 4

VARIABLES call,      \* the function being executed
          at,        \* how many of its accesses have been made
          idle,      \* cycles since the last one, counted up to Gap
          result,    \* what the last IO_read returned
          pio,       \* output registers of the parallel ports
          readdata,  \* input register of the port otg_hpi_data
          otg,       \* the registered pins of hpi_io_intf.sv
          from_sw_data_out_buffer,
          from_sw_data_in,
          held,      \* the word the bus held in the last cycle it was driven
          lowFor,    \* cycles the chip has seen a read strobe
          ptr, mem,  \* the registers of the chip
          disturbed  \* the reset key was pressed since the last call began

busVars == <<call, at, idle, result, pio, readdata, otg, disturbed, ptr, mem,
             from_sw_data_out_buffer, from_sw_data_in, held, lowFor>>

-----------------------------------------------------------------------------
(* The accesses of each function, in order: a register and its new value.  *)
(* All pins but the address and the data are active low.                   *)
\* Mutant: the read strobe is left active.
IO_initLow ==
  << <<"reset", 1>>, <<"cs", 1>>, <<"w", 1>>, <<"address", 0>>,
     <<"data", 0>>, <<"cs", 0>>, <<"reset", 0>>, <<"reset", 1>>, <<"cs", 1>> >>

IO_init ==
  << <<"reset", 1>>, <<"cs", 1>>, <<"r", 1>>, <<"w", 1>>, <<"address", 0>>,
     <<"data", 0>>, <<"cs", 0>>, <<"reset", 0>>, <<"reset", 1>>, <<"cs", 1>> >>

\* Mutant: the strobe begins before the address is set.
IO_writeLate(Address, Data) ==
  << <<"data", Data>>, <<"cs", 0>>, <<"w", 0>>, <<"address", Address>>,
     <<"w", 1>>, <<"cs", 1>> >>

IO_write(Address, Data) ==
  << <<"address", Address>>, <<"data", Data>>, <<"cs", 0>>, <<"w", 0>>,
     <<"w", 1>>, <<"cs", 1>> >>

\* Mutant: the word is loaded before the strobe.
IO_readEarly(Address) ==
  << <<"address", Address>>, <<"cs", 0>>, <<"temp", 0>>, <<"r", 0>>,
     <<"r", 1>>, <<"cs", 1>> >>

IO_read(Address) ==
  << <<"address", Address>>, <<"cs", 0>>, <<"r", 0>>, <<"temp", 0>>,
     <<"r", 1>>, <<"cs", 1>> >>

InitCall == [op |-> "init", port |-> 0, value |-> 0]

ASSUME InitAssumption == None /= InitCall

Accesses(c) == CASE c.op = "init"  -> IO_init
                 [] c.op = "write" -> IO_write(c.port, c.value)
                 [] c.op = "read"  -> IO_read(c.port)

Initialised == call = None \/ call.op /= "init"

-----------------------------------------------------------------------------
(* The bus.  A word outlives its driver by one cycle and no more: that is  *)
(* what a write needs, whose strobe rises a cycle after the driver is shut. *)
Reading(o) == o.RST_N = 1 /\ o.CS_N = 0 /\ o.RD_N = 0
Writing(o) == o.RST_N = 1 /\ o.CS_N = 0 /\ o.WR_N = 0

BridgeDrives == pio.w = 0
ChipDrives   == Reading(otg)

OTG_DATA ==
  CASE BridgeDrives /\ ~ChipDrives -> from_sw_data_out_buffer
    [] ~BridgeDrives /\ ChipDrives -> IF lowFor < AccessTime THEN Unknown
                                                             ELSE mem[ptr]
    [] BridgeDrives /\ ChipDrives  -> Unknown
    [] OTHER                       -> held

(* hpi_io_intf.sv, with the input register of the port.                    *)
Bridge(Reset) ==
  /\ otg' = IF Reset
            THEN [ADDR |-> 0, RD_N |-> 1, WR_N |-> 1, CS_N |-> 1, RST_N |-> 1]
            ELSE [ADDR |-> pio.address, RD_N |-> pio.r, WR_N |-> pio.w,
                  CS_N |-> pio.cs, RST_N |-> pio.reset]
  /\ from_sw_data_out_buffer' = IF Reset THEN 0 ELSE pio.data
  /\ from_sw_data_in' = IF Reset THEN 0 ELSE OTG_DATA
  /\ readdata' = from_sw_data_in

(* The chip takes the word on the bus when a write strobe ends, and moves  *)
(* its pointer on when a read strobe does.                                 *)
Written == [op |-> "write", port |-> otg.ADDR, value |-> OTG_DATA]

ChipReset == /\ otg'.RST_N = 0
             /\ ptr' = 0
             /\ mem' = Cleared

ChipWritten == /\ otg'.RST_N = 1
               /\ Writing(otg) /\ ~Writing(otg')
               /\ IF Written \in WriteCalls
                  THEN /\ ptr' = PtrAfter(ptr, Written)
                       /\ mem' = MemAfter(mem, ptr, Written)
                  ELSE /\ ptr' \in Words
                       /\ mem' \in [Words -> Words]

ChipRead == /\ otg'.RST_N = 1
            /\ Reading(otg) /\ ~Reading(otg')
            /\ ~Writing(otg)
            /\ ptr' = Advance(ptr)
            /\ UNCHANGED mem

ChipQuiet == /\ otg'.RST_N = 1
             /\ Writing(otg) => Writing(otg')
             /\ Reading(otg) => Reading(otg')
             /\ UNCHANGED <<ptr, mem>>

Chip == /\ ChipReset \/ ChipWritten \/ ChipRead \/ ChipQuiet
        /\ lowFor' = IF ~Reading(otg) THEN 0
                     ELSE IF lowFor < AccessTime THEN lowFor + 1 ELSE lowFor
        /\ held' = IF BridgeDrives \/ ChipDrives THEN OTG_DATA ELSE Unknown

-----------------------------------------------------------------------------
(* The program: a call begins, makes its next access, or takes its time.   *)
Longer == IF idle < Gap THEN idle + 1 ELSE Gap

Begin == /\ call = None
         /\ call' \in Calls
         /\ at' = 0
         /\ idle' = Longer
         /\ UNCHANGED <<result, pio>>

Access == /\ call /= None
          /\ idle = Gap
          /\ idle' = 1
          /\ LET access == Accesses(call)[at + 1]
             IN  IF access[1] = "temp"
                 THEN result' = readdata /\ UNCHANGED pio
                 ELSE /\ pio' = [pio EXCEPT ![access[1]] = access[2]]
                      /\ UNCHANGED result
          /\ IF at + 1 = Len(Accesses(call))
             THEN call' = None /\ at' = 0
             ELSE at' = at + 1 /\ UNCHANGED call

Wait == /\ idle' = Longer
        /\ UNCHANGED <<call, at, result, pio>>

-----------------------------------------------------------------------------
(* The ports start at the reset value of system.h, with every pin active;  *)
(* the pins of the bridge start undefined.                                 *)
Pins == [ADDR : 0 .. 3, RD_N : {0, 1}, WR_N : {0, 1}, CS_N : {0, 1}, RST_N : {0, 1}]

Init == /\ call = InitCall
        /\ at = 0
        /\ idle = Gap
        /\ result = 0
        /\ pio = [address |-> 0, data |-> 0, cs |-> 0, r |-> 0, w |-> 0, reset |-> 0]
        /\ otg \in Pins
        /\ readdata = 0
        /\ from_sw_data_out_buffer = 0
        /\ from_sw_data_in = 0
        /\ held = Unknown
        /\ lowFor = 0
        /\ ptr = 0
        /\ mem = Cleared
        /\ disturbed = FALSE

Tick(Reset) ==
  /\ Bridge(Reset)
  /\ Chip
  /\ \/ Begin  /\ disturbed' = Reset
     \/ Access /\ disturbed' = (disturbed \/ Reset)
     \/ Wait   /\ disturbed' = (disturbed \/ Reset)

Next == \E Reset \in BOOLEAN : Tick(Reset)

Spec == Init /\ [][Next]_busVars

-----------------------------------------------------------------------------
TypeOK ==
  /\ call \in Calls \union {None, InitCall}
  /\ at \in 0 .. 9
  /\ idle \in 0 .. Gap
  /\ pio \in [address : 0 .. 3, data : Words, cs : {0, 1}, r : {0, 1},
              w : {0, 1}, reset : {0, 1}]
  /\ otg \in Pins
  /\ lowFor \in 0 .. AccessTime
  /\ ptr \in Words
  /\ mem \in [Words -> Words]
  /\ from_sw_data_out_buffer \in Words
  /\ {result, readdata, from_sw_data_in, held} \subseteq Words \union {Unknown}
  /\ disturbed \in BOOLEAN

(* The bridge and the chip never drive the bus together, once IO_init is   *)
(* done, although the two drivers are opened by signals a cycle apart, and *)
(* whenever key 0 cuts a strobe (hpi_io_intf.sv:42).                       *)
NoContention == Initialised => ~(BridgeDrives /\ ChipDrives)

(* A strobe that has begun keeps its address until the edge that ends it,  *)
(* for the chip looks at the pins while it lasts (io_handler.c:20-55).     *)
AddressHeld ==
  [][(Writing(otg) /\ Writing(otg')) \/ (Reading(otg) /\ Reading(otg'))
       => otg'.ADDR = otg.ADDR]_busVars

(* The detailed program, bridge and chip behave like the register file the *)
(* host program relies on.  A read has its effect when the program has the *)
(* word, a write when its strobe ends at the chip.                         *)
Served == \/ call.op = "write" /\ at >= 5 /\ ~Writing(otg)
          \/ call.op = "read"  /\ at >= 4

Registers == INSTANCE HpiRegisters WITH
  request <- IF call = None \/ ~Initialised THEN None
             ELSE IF Served THEN None ELSE call,
  ptr     <- IF ~Initialised THEN 0
             ELSE IF call = None THEN ptr
             ELSE IF call.op = "read" /\ at >= 4 /\ Reading(otg)
             THEN Advance(ptr) ELSE ptr,
  mem     <- IF Initialised THEN mem ELSE Cleared

IsRegisterFile == Registers!Spec
=============================================================================
