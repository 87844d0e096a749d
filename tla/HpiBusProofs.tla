--------------------------- MODULE HpiBusProofs ---------------------------
(***************************************************************************)
(* For every Gap and AccessTime that satisfy GapAssumption and every size  *)
(* of the chip's memory: the bus is never driven twice, addresses are held *)
(* and the program, the bridge and the chip implement HpiRegisters.        *)
(***************************************************************************)
EXTENDS HpiBus, TLAPS

-----------------------------------------------------------------------------
(* What the next access of a call changes, one by one.                     *)

LEMMA InitAccess ==
  ASSUME call = InitCall, at \in 0 .. 9, Access
  PROVE  /\ at \in {0, 8} => pio' = [pio EXCEPT !.reset = 1]
         /\ at \in {1, 9} => pio' = [pio EXCEPT !.cs = 1]
         /\ at = 2 => pio' = [pio EXCEPT !.r = 1]
         /\ at = 3 => pio' = [pio EXCEPT !.w = 1]
         /\ at = 4 => pio' = [pio EXCEPT !.address = 0]
         /\ at = 5 => pio' = [pio EXCEPT !.data = 0]
         /\ at = 6 => pio' = [pio EXCEPT !.cs = 0]
         /\ at = 7 => pio' = [pio EXCEPT !.reset = 0]
         /\ result' = result
         /\ IF at = 9 THEN call' = None /\ at' = 0 ELSE call' = call /\ at' = at + 1
<1>1. Accesses(call) = IO_init
  BY DEF Accesses, InitCall
<1>2. Len(IO_init) = 10
  BY DEF IO_init
<1> QED BY <1>1, <1>2 DEF Access, IO_init

LEMMA WriteAccess ==
  ASSUME call \in WriteCalls, at \in 0 .. 5, Access
  PROVE  /\ at = 0 => pio' = [pio EXCEPT !.address = call.port]
         /\ at = 1 => pio' = [pio EXCEPT !.data = call.value]
         /\ at = 2 => pio' = [pio EXCEPT !.cs = 0]
         /\ at = 3 => pio' = [pio EXCEPT !.w = 0]
         /\ at = 4 => pio' = [pio EXCEPT !.w = 1]
         /\ at = 5 => pio' = [pio EXCEPT !.cs = 1]
         /\ result' = result
         /\ IF at = 5 THEN call' = None /\ at' = 0 ELSE call' = call /\ at' = at + 1
<1>1. Accesses(call) = IO_write(call.port, call.value)
  BY DEF Accesses, WriteCalls
<1>2. Len(IO_write(call.port, call.value)) = 6
  BY DEF IO_write
<1> QED BY <1>1, <1>2 DEF Access, IO_write

LEMMA ReadAccess ==
  ASSUME call \in ReadCalls, at \in 0 .. 5, Access
  PROVE  /\ at = 0 => pio' = [pio EXCEPT !.address = call.port]
         /\ at = 1 => pio' = [pio EXCEPT !.cs = 0]
         /\ at = 2 => pio' = [pio EXCEPT !.r = 0]
         /\ at = 3 => pio' = pio /\ result' = readdata
         /\ at = 4 => pio' = [pio EXCEPT !.r = 1]
         /\ at = 5 => pio' = [pio EXCEPT !.cs = 1]
         /\ at # 3 => result' = result
         /\ IF at = 5 THEN call' = None /\ at' = 0 ELSE call' = call /\ at' = at + 1
<1>1. Accesses(call) = IO_read(call.port)
  BY DEF Accesses, ReadCalls
<1>2. Len(IO_read(call.port)) = 6
  BY DEF IO_read
<1> QED BY <1>1, <1>2 DEF Access, IO_read

-----------------------------------------------------------------------------
(* Ranges.                                                                 *)

LEMMA ConstantFacts ==
  /\ MemSize \in Nat /\ MemSize > 0
  /\ Gap \in Nat /\ AccessTime \in Nat /\ Gap >= AccessTime + 4
  /\ 0 \in Words /\ Words \subseteq Nat
  /\ Unknown \notin Words
BY MemAssumption, GapAssumption, UnknownAssumption DEF Words

LEMMA CallKinds ==
  /\ None \notin WriteCalls \union ReadCalls \union {InitCall}
  /\ \A c \in WriteCalls : /\ c \notin ReadCalls /\ c /= InitCall
                           /\ c.op = "write" /\ c.port \in {0, 2} /\ c.value \in Words
  /\ \A c \in ReadCalls : /\ c \notin WriteCalls /\ c /= InitCall
                          /\ c.op = "read" /\ c.port = 0 /\ c.value = 0
  /\ InitCall.op = "init"
BY NoneAssumption, InitAssumption
   DEF Calls, WriteCalls, ReadCalls, InitCall, HPI_DATA, HPI_ADDR

LEMMA AdvanceType == ASSUME NEW w \in Words PROVE Advance(w) \in Words
<1>1. w + 1 \in Nat /\ MemSize \in Nat /\ MemSize > 0
  BY ConstantFacts
<1>2. (w + 1) % MemSize \in 0 .. MemSize - 1
  BY <1>1
<1> QED BY <1>2 DEF Advance, Words

LEMMA EffectType ==
  ASSUME NEW p \in Words, NEW m \in [Words -> Words], NEW c \in WriteCalls
  PROVE  PtrAfter(p, c) \in Words /\ MemAfter(m, p, c) \in [Words -> Words]
BY AdvanceType, CallKinds DEF PtrAfter, MemAfter

\* How many accesses each call makes.
InRangeOfCall == /\ call = None => at = 0
                 /\ call \in WriteCalls \union ReadCalls => at \in 0 .. 5

Types == /\ TypeOK /\ InRangeOfCall
         /\ idle >= 1

LEMMA BusType == ASSUME Types PROVE OTG_DATA \in Words \union {Unknown}
<1>1. mem[ptr] \in Words
  BY DEF Types, TypeOK
<1> QED BY <1>1 DEF Types, TypeOK, OTG_DATA

LEMMA BridgeTypes ==
  ASSUME Types, NEW Reset \in BOOLEAN, Bridge(Reset)
  PROVE  /\ otg' \in Pins
         /\ from_sw_data_out_buffer' \in Words
         /\ {from_sw_data_in', readdata'} \subseteq Words \union {Unknown}
<1>1. pio.address \in 0 .. 3 /\ pio.data \in Words
      /\ {pio.cs, pio.r, pio.w, pio.reset} \subseteq {0, 1}
  BY DEF Types, TypeOK
<1>2. otg' \in Pins
  BY <1>1 DEF Bridge, Pins
<1>3. from_sw_data_out_buffer' \in Words
  BY <1>1, ConstantFacts DEF Bridge
<1>4. {from_sw_data_in', readdata'} \subseteq Words \union {Unknown}
  BY BusType, ConstantFacts DEF Bridge, Types, TypeOK
<1> QED BY <1>2, <1>3, <1>4

LEMMA ChipTypes ==
  ASSUME Types, Chip
  PROVE  /\ ptr' \in Words /\ mem' \in [Words -> Words]
         /\ lowFor' \in 0 .. AccessTime
         /\ held' \in Words \union {Unknown}
<1>1. ptr \in Words /\ mem \in [Words -> Words] /\ lowFor \in 0 .. AccessTime
  BY DEF Types, TypeOK
<1>2. Cleared \in [Words -> Words]
  BY ConstantFacts DEF Cleared
<1>3. ptr' \in Words /\ mem' \in [Words -> Words]
  <2>1. CASE ChipReset
    BY <2>1, <1>2, ConstantFacts DEF ChipReset
  <2>2. CASE ChipWritten
    BY <2>2, <1>1, EffectType DEF ChipWritten
  <2>3. CASE ChipRead
    BY <2>3, <1>1, AdvanceType DEF ChipRead
  <2>4. CASE ChipQuiet
    BY <2>4, <1>1 DEF ChipQuiet
  <2> QED BY <2>1, <2>2, <2>3, <2>4 DEF Chip
<1>4. lowFor' \in 0 .. AccessTime
  BY <1>1, ConstantFacts DEF Chip
<1>5. held' \in Words \union {Unknown}
  BY BusType DEF Chip
<1> QED BY <1>3, <1>4, <1>5

\* The registers of the program, in the three kinds of step.
ProgramTypes == /\ call \in Calls \union {None, InitCall}
                /\ at \in 0 .. 9
                /\ InRangeOfCall
                /\ idle \in 1 .. Gap
                /\ pio \in [address : 0 .. 3, data : Words, cs : {0, 1}, r : {0, 1},
                            w : {0, 1}, reset : {0, 1}]
                /\ result \in Words \union {Unknown}

LEMMA AccessTypes == ASSUME Types, Access PROVE ProgramTypes'
<1>1. ProgramTypes
  BY DEF Types, TypeOK, ProgramTypes
<1>2. call \in WriteCalls \union ReadCalls \union {InitCall}
  BY DEF Access, Types, TypeOK, Calls
<1>3. idle' \in 1 .. Gap
  BY ConstantFacts DEF Access
<1>4. readdata \in Words \union {Unknown}
  BY DEF Types, TypeOK
<1>5. CASE call \in WriteCalls
  <2>1. at \in 0 .. 5 /\ call.port \in 0 .. 3 /\ call.value \in Words
    BY <1>1, <1>5, CallKinds DEF ProgramTypes, InRangeOfCall
  <2>2. pio' \in [address : 0 .. 3, data : Words, cs : {0, 1}, r : {0, 1},
                  w : {0, 1}, reset : {0, 1}]
    BY <1>1, <1>5, <2>1, WriteAccess DEF ProgramTypes
  <2> QED BY <1>1, <1>3, <1>5, <2>1, <2>2, WriteAccess, CallKinds
          DEF ProgramTypes, InRangeOfCall
<1>6. CASE call \in ReadCalls
  <2>1. at \in 0 .. 5 /\ call.port \in 0 .. 3
    BY <1>1, <1>6, CallKinds DEF ProgramTypes, InRangeOfCall
  <2>2. pio' \in [address : 0 .. 3, data : Words, cs : {0, 1}, r : {0, 1},
                  w : {0, 1}, reset : {0, 1}]
    BY <1>1, <1>6, <2>1, ReadAccess DEF ProgramTypes
  <2> QED BY <1>1, <1>3, <1>4, <1>6, <2>1, <2>2, ReadAccess, CallKinds
          DEF ProgramTypes, InRangeOfCall
<1>7. CASE call = InitCall
  <2>1. pio' \in [address : 0 .. 3, data : Words, cs : {0, 1}, r : {0, 1},
                  w : {0, 1}, reset : {0, 1}]
    BY <1>1, <1>7, ConstantFacts, InitAccess DEF ProgramTypes
  <2> QED BY <1>1, <1>3, <1>7, <2>1, InitAccess, CallKinds DEF ProgramTypes, InRangeOfCall
<1> QED BY <1>2, <1>5, <1>6, <1>7

LEMMA IdleTypes == ASSUME Types PROVE Longer \in 1 .. Gap
BY ConstantFacts DEF Types, TypeOK, Longer

LEMMA TypesStep == ASSUME Types, [Next]_busVars PROVE Types'
<1>1. CASE UNCHANGED busVars
  BY <1>1 DEF busVars, Types, TypeOK, InRangeOfCall
<1>2. ASSUME NEW Reset \in BOOLEAN, Tick(Reset) PROVE Types'
  <2>1. ProgramTypes'
    <3>1. ProgramTypes
      BY DEF Types, TypeOK, ProgramTypes
    <3>2. CASE Access
      BY <3>2, AccessTypes
    <3>3. CASE Begin
      BY <3>1, <3>3, IdleTypes, CallKinds DEF Begin, ProgramTypes, InRangeOfCall, Calls
    <3>4. CASE Wait
      BY <3>1, <3>4, IdleTypes DEF Wait, ProgramTypes, InRangeOfCall
    <3> QED BY <1>2, <3>2, <3>3, <3>4 DEF Tick
  <2>2. disturbed' \in BOOLEAN
    BY <1>2 DEF Tick, Types, TypeOK
  <2> QED BY <1>2, <2>1, <2>2, BridgeTypes, ChipTypes
          DEF Tick, Types, TypeOK, ProgramTypes
<1> QED BY <1>1, <1>2 DEF Next

LEMMA TypesInit == ASSUME Init PROVE Types
<1>1. Cleared \in [Words -> Words]
  BY ConstantFacts DEF Cleared
<1>2. /\ pio \in [address : 0 .. 3, data : Words, cs : {0, 1}, r : {0, 1},
                  w : {0, 1}, reset : {0, 1}]
      /\ otg \in Pins
  BY ConstantFacts DEF Init
<1>3. /\ call \in Calls \union {None, InitCall} /\ at \in 0 .. 9 /\ idle \in 1 .. Gap
      /\ InRangeOfCall
  BY ConstantFacts, CallKinds DEF Init, InRangeOfCall
<1>4. /\ from_sw_data_out_buffer \in Words /\ lowFor \in 0 .. AccessTime
      /\ ptr \in Words /\ mem \in [Words -> Words]
      /\ {result, readdata, from_sw_data_in, held} \subseteq Words \union {Unknown}
  BY <1>1, ConstantFacts DEF Init
<1>5. disturbed \in BOOLEAN
  BY DEF Init
<1> QED BY <1>2, <1>3, <1>4, <1>5 DEF Types, TypeOK

-----------------------------------------------------------------------------
(* The strobes.  A pin of the chip follows the port by one cycle, so that  *)
(* it still shows the old value in the first cycle after an access.        *)

IdlePins ==
  call = None => /\ pio.r = 1 /\ pio.w = 1 /\ pio.reset = 1
                 /\ otg.RD_N = 1 /\ otg.WR_N = 1

InitPins ==
  call = InitCall =>
    /\ pio.address = 0
    /\ at \in {0, 8} => pio.reset = 0
    /\ at = 9 => pio.reset = 1
    /\ at >= 3 => pio.r = 1
    /\ at >= 4 => pio.w = 1
    /\ at >= 1 => otg.ADDR = 0
    /\ otg.RD_N = 0 => at <= 2 \/ (at = 3 /\ idle = 1)
    /\ otg.WR_N = 0 => at <= 3 \/ (at = 4 /\ idle = 1)

WritePins ==
  call \in WriteCalls =>
    /\ pio.r = 1 /\ pio.reset = 1
    /\ pio.w = IF at = 4 THEN 0 ELSE 1
    /\ at >= 1 => pio.address = call.port
    /\ at >= 2 => pio.data = call.value
    /\ at >= 3 => pio.cs = 0
    /\ otg.RD_N = 1
    /\ otg.WR_N = 0 => /\ otg.ADDR = call.port
                       /\ (at = 4 /\ idle >= 2) \/ (at = 5 /\ idle = 1)

ReadPins ==
  call \in ReadCalls =>
    /\ pio.w = 1 /\ pio.reset = 1
    /\ pio.r = IF at \in {3, 4} THEN 0 ELSE 1
    /\ at >= 1 => pio.address = call.port
    /\ at >= 2 => pio.cs = 0
    /\ otg.WR_N = 1
    /\ otg.RD_N = 0 => /\ otg.ADDR = call.port
                       /\ (at = 3 /\ idle >= 2) \/ at = 4 \/ (at = 5 /\ idle = 1)

Strobes == IdlePins /\ InitPins /\ WritePins /\ ReadPins

LEMMA StrobesInit == ASSUME Init PROVE Strobes
BY CallKinds, ConstantFacts
   DEF Init, Strobes, IdlePins, InitPins, WritePins, ReadPins

\* What the pins show after a cycle.
LEMMA PinsFollow ==
  ASSUME Types, NEW Reset \in BOOLEAN, Bridge(Reset)
  PROVE  /\ otg'.RD_N = 0 => pio.r = 0 /\ otg'.ADDR = pio.address
         /\ otg'.WR_N = 0 => pio.w = 0 /\ otg'.ADDR = pio.address
         /\ otg'.ADDR \in {0, pio.address}
         /\ otg'.RST_N \in {1, pio.reset}
         /\ otg'.RD_N \in {0, 1} /\ otg'.WR_N \in {0, 1}
BY DEF Bridge, Types, TypeOK

LEMMA StrobesStep ==
  ASSUME Types, Types', Strobes, NEW Reset \in BOOLEAN, Tick(Reset)
  PROVE  Strobes'
<1>1. Bridge(Reset)
  BY DEF Tick
<1>2. /\ pio \in [address : 0 .. 3, data : Words, cs : {0, 1}, r : {0, 1},
                  w : {0, 1}, reset : {0, 1}]
      /\ at \in Nat /\ idle \in 1 .. Gap /\ Gap \in Nat /\ Gap >= 4
  BY ConstantFacts DEF Types, TypeOK
<1> USE <1>1, <1>2, PinsFollow, CallKinds
<1>3. CASE Begin
  <2>1. /\ call = None /\ call' \in WriteCalls \union ReadCalls
        /\ at' = 0 /\ pio' = pio
    BY <1>3 DEF Begin, Calls
  <2> QED BY <2>1 DEF Strobes, IdlePins, InitPins, WritePins, ReadPins
<1>4. CASE Wait
  <2>1. call' = call /\ at' = at /\ pio' = pio /\ idle' >= 2
    BY <1>4 DEF Wait, Longer
  <2> QED BY <2>1 DEF Strobes, IdlePins, InitPins, WritePins, ReadPins
<1>5. CASE Access
  <2>1. idle = Gap /\ idle' = 1
    BY <1>5 DEF Access
  <2>2. CASE call = InitCall
    <3>1. at \in 0 .. 9
      BY DEF Types, TypeOK
    <3>2. IdlePins'
      BY <1>5, <2>1, <2>2, <3>1, InitAccess DEF Strobes, InitPins, IdlePins
    <3>3. InitPins'
      BY <1>5, <2>1, <2>2, <3>1, InitAccess DEF Strobes, InitPins
    <3> QED BY <1>5, <2>2, <3>1, <3>2, <3>3, InitAccess DEF Strobes, WritePins, ReadPins
  <2>3. CASE call \in WriteCalls
    <3>1. at \in 0 .. 5
      BY <2>3 DEF Types, InRangeOfCall
    <3>2. IdlePins'
      BY <1>5, <2>1, <2>3, <3>1, WriteAccess DEF Strobes, WritePins, IdlePins
    <3>3. WritePins'
      BY <1>5, <2>1, <2>3, <3>1, WriteAccess DEF Strobes, WritePins
    <3> QED BY <1>5, <2>3, <3>1, <3>2, <3>3, WriteAccess DEF Strobes, InitPins, ReadPins
  <2>4. CASE call \in ReadCalls
    <3>1. at \in 0 .. 5
      BY <2>4 DEF Types, InRangeOfCall
    <3>2. IdlePins'
      BY <1>5, <2>1, <2>4, <3>1, ReadAccess DEF Strobes, ReadPins, IdlePins
    <3>3. ReadPins'
      BY <1>5, <2>1, <2>4, <3>1, ReadAccess DEF Strobes, ReadPins
    <3> QED BY <1>5, <2>4, <3>1, <3>2, <3>3, ReadAccess DEF Strobes, InitPins, WritePins
  <2> QED BY <1>5, <2>2, <2>3, <2>4 DEF Access, Types, TypeOK, Calls
<1> QED BY <1>3, <1>4, <1>5 DEF Tick

LEMMA StrobesStutter == ASSUME Strobes, UNCHANGED busVars PROVE Strobes'
BY DEF busVars, Strobes, IdlePins, InitPins, WritePins, ReadPins

LEMMA StrobesAlways == Spec => [](Types /\ Strobes)
<1>1. Init => Types /\ Strobes
  BY TypesInit, StrobesInit
<1>2. Types /\ Strobes /\ [Next]_busVars => Types' /\ Strobes'
  BY TypesStep, StrobesStep, StrobesStutter DEF Next
<1> QED BY <1>1, <1>2, PTL DEF Spec

(* All registers of the program, the bridge and the chip keep their ranges *)
(* (io_handler.c, hpi_io_intf.sv).                                         *)
THEOREM BusTypeCorrect == Spec => []TypeOK
<1>1. Types => TypeOK
  BY DEF Types
<1> QED BY <1>1, StrobesAlways, PTL

(* Only one of the bridge and the chip drives the data bus, as soon as     *)
(* IO_init is over (hpi_io_intf.sv:42).                                    *)
THEOREM NoTwoDrivers == Spec => []NoContention
<1>1. Types /\ Strobes => NoContention
  <2> SUFFICES ASSUME Types, Strobes, Initialised, BridgeDrives, ChipDrives PROVE FALSE
    BY DEF NoContention
  <2>1. call = None \/ call \in WriteCalls \/ call \in ReadCalls
    BY CallKinds DEF Types, TypeOK, Calls, Initialised
  <2> QED BY <2>1 DEF Strobes, IdlePins, WritePins, ReadPins, BridgeDrives, ChipDrives,
                      Reading
<1> QED BY <1>1, StrobesAlways, PTL

(* The address stands while a strobe is active (io_handler.c:20-55),       *)
(* whatever the reset key does.                                            *)
THEOREM AddressesAreHeld == Spec => AddressHeld
<1> DEFINE Held == (Writing(otg) /\ Writing(otg')) \/ (Reading(otg) /\ Reading(otg'))
                     => otg'.ADDR = otg.ADDR
<1>1. Types /\ Strobes /\ [Next]_busVars => [Held]_busVars
  <2> SUFFICES ASSUME Types, Strobes, NEW Reset \in BOOLEAN, Tick(Reset),
                      (Writing(otg) /\ Writing(otg')) \/ (Reading(otg) /\ Reading(otg'))
               PROVE  otg'.ADDR = otg.ADDR
    BY DEF Next
  <2>1. otg'.ADDR = pio.address /\ otg'.RST_N \in {1, pio.reset}
    BY PinsFollow DEF Tick, Writing, Reading
  <2>2. pio.w = 0 \/ pio.r = 0
    BY PinsFollow DEF Tick, Writing, Reading
  <2>3. CASE call = InitCall
    <3>1. at # 0
      BY <2>3 DEF Strobes, InitPins, Tick, Bridge, Writing, Reading
    <3> QED BY <2>1, <2>3, <3>1 DEF Strobes, InitPins, Types, TypeOK
  <2>4. CASE call # InitCall
    <3>1. call = None \/ call \in WriteCalls \/ call \in ReadCalls
      BY <2>4 DEF Types, TypeOK, Calls
    <3> QED BY <2>1, <2>2, <3>1, CallKinds
            DEF Strobes, IdlePins, WritePins, ReadPins, Writing, Reading, Types, TypeOK
  <2> QED BY <2>3, <2>4
<1>2. [](Types /\ Strobes) /\ [][Next]_busVars => [][Held]_busVars
  BY <1>1, PTL
<1> QED BY <1>2, StrobesAlways, PTL DEF Spec, AddressHeld

-----------------------------------------------------------------------------
(* The words.  In a call that the reset key leaves alone the bridge shows  *)
(* what the ports hold, and the word of a write, or of a read, has passed  *)
(* all registers before the program goes on.                               *)

Follows ==
  idle >= 2 /\ (call = InitCall => at >= 1)
    => /\ otg = [ADDR |-> pio.address, RD_N |-> pio.r, WR_N |-> pio.w,
                 CS_N |-> pio.cs, RST_N |-> pio.reset]
       /\ from_sw_data_out_buffer = pio.data

InitDone ==
  call = InitCall /\ ((at = 8 /\ idle >= 2) \/ at = 9) => ptr = 0 /\ mem = Cleared

WriteWord ==
  call \in WriteCalls =>
    /\ at >= 3 => from_sw_data_out_buffer = call.value
    /\ (at = 4 /\ idle >= 2) \/ (at = 5 /\ idle = 1) => Writing(otg) /\ held = call.value

ReadWord ==
  call \in ReadCalls =>
    /\ (at = 3 /\ idle >= 2) \/ at = 4 \/ (at = 5 /\ idle = 1) => Reading(otg)
    /\ at = 3 /\ idle >= 2 => lowFor >= idle - 2 \/ lowFor = AccessTime
    /\ at = 3 /\ idle >= AccessTime + 3 => from_sw_data_in = mem[ptr]
    /\ at = 3 /\ idle >= AccessTime + 4 => readdata = mem[ptr]

WordsArrive == ~disturbed => Follows /\ InitDone /\ WriteWord /\ ReadWord

LEMMA WordsInit == ASSUME Init PROVE WordsArrive
BY CallKinds DEF Init, WordsArrive, Follows, InitDone, WriteWord, ReadWord

\* Without the reset key the chip is not reset after IO_init, and it does
\* nothing as long as no strobe ends.
LEMMA QuietChip ==
  ASSUME Types, Strobes, Tick(FALSE), call # InitCall,
         Writing(otg) => Writing(otg'), Reading(otg) => Reading(otg')
  PROVE  UNCHANGED <<ptr, mem>>
<1>1. pio.reset = 1
  BY DEF Strobes, IdlePins, WritePins, ReadPins, Types, TypeOK, Calls
<1>2. otg'.RST_N = 1
  BY <1>1, PinsFollow DEF Tick
<1> QED BY <1>2 DEF Tick, Chip, ChipReset, ChipWritten, ChipRead, ChipQuiet

LEMMA FollowsStep ==
  ASSUME Types, Types', Strobes, Tick(FALSE), Access \/ Wait, Follows
  PROVE  Follows'
<1>1. CASE Wait
  BY <1>1 DEF Wait, Tick, Bridge, Follows
<1>2. CASE Access
  BY <1>2 DEF Access, Follows
<1> QED BY <1>1, <1>2

LEMMA InitDoneStep ==
  ASSUME Types, Types', Strobes, Tick(FALSE), Access \/ Wait, Follows, InitDone
  PROVE  InitDone'
<1> SUFFICES ASSUME call' = InitCall, (at' = 8 /\ idle' >= 2) \/ at' = 9
             PROVE  ptr' = 0 /\ mem' = Cleared
  BY DEF InitDone
<1>1. call = InitCall /\ at \in 0 .. 9
  BY CallKinds, InitAccess, WriteAccess, ReadAccess
     DEF Access, Wait, Types, TypeOK, InRangeOfCall, Calls
<1>2. otg'.RST_N = pio.reset
  BY DEF Tick, Bridge, Types, TypeOK
<1>3. CASE at = 8
  <2>1. otg'.RST_N = 0
    BY <1>1, <1>2, <1>3 DEF Strobes, InitPins
  <2> QED BY <2>1 DEF Tick, Chip, ChipReset, ChipWritten, ChipRead, ChipQuiet
<1>4. CASE at = 9
  <2>1. otg'.RST_N = 1
    BY <1>1, <1>2, <1>4 DEF Strobes, InitPins
  <2>2. otg.RD_N # 0 /\ otg.WR_N # 0
    BY <1>1, <1>4 DEF Strobes, InitPins
  <2> QED BY <1>1, <1>4, <2>1, <2>2
          DEF Tick, Chip, ChipReset, ChipWritten, ChipRead, ChipQuiet, Writing, Reading, InitDone
<1>5. at = 8 \/ at = 9
  BY <1>1, InitAccess DEF Wait, Access
<1> QED BY <1>3, <1>4, <1>5

LEMMA WriteWordStep ==
  ASSUME Types, Types', Strobes, Tick(FALSE), Access \/ Wait, Follows, WriteWord
  PROVE  WriteWord'
<1> SUFFICES ASSUME call' \in WriteCalls PROVE WriteWord'
  BY DEF WriteWord
<1>1. call = call' /\ at \in 0 .. 5 /\ (at' = at \/ (at' = at + 1 /\ Access))
  BY CallKinds, InitAccess, WriteAccess, ReadAccess
     DEF Access, Wait, Types, TypeOK, InRangeOfCall, Calls
<1>2. Gap >= 4 /\ Gap \in Nat /\ idle \in 1 .. Gap
  BY ConstantFacts DEF Types, TypeOK
<1>3. at' >= 3 => from_sw_data_out_buffer' = call.value
  BY <1>1, <1>2, CallKinds DEF Tick, Bridge, Strobes, WritePins, Access
<1>4. CASE Wait
  <2>1. at' = at /\ idle' >= 2 /\ pio' = pio
    BY <1>2, <1>4 DEF Wait, Longer
  <2>2. CASE at = 4
    <3>1. Writing(otg')
      BY <1>1, <2>1, <2>2, CallKinds DEF Tick, Bridge, Strobes, WritePins, Writing
    <3>2. BridgeDrives /\ ~ChipDrives
      BY <1>1, <2>2 DEF Strobes, WritePins, BridgeDrives, ChipDrives, Reading
    <3>3. held' = call.value
      BY <1>1, <2>2, <3>2 DEF Tick, Chip, OTG_DATA, WriteWord
    <3> QED BY <1>1, <1>3, <2>1, <2>2, <3>1, <3>3 DEF WriteWord
  <2>3. CASE at # 4
    BY <1>1, <1>3, <2>1, <2>3 DEF WriteWord
  <2> QED BY <2>2, <2>3
<1>5. CASE Access
  <2>1. idle = Gap /\ idle' = 1 /\ at' = at + 1
    BY <1>1, <1>5, WriteAccess, CallKinds DEF Access
  <2>2. CASE at = 4
    <3>1. Writing(otg')
      BY <1>1, <2>2, CallKinds DEF Tick, Bridge, Strobes, WritePins, Writing
    <3>2. BridgeDrives /\ ~ChipDrives
      BY <1>1, <2>2 DEF Strobes, WritePins, BridgeDrives, ChipDrives, Reading
    <3>3. held' = call.value
      BY <1>1, <2>2, <3>2 DEF Tick, Chip, OTG_DATA, WriteWord
    <3> QED BY <1>1, <1>3, <2>1, <2>2, <3>1, <3>3 DEF WriteWord
  <2>3. CASE at # 4
    BY <1>1, <1>3, <2>1, <2>3 DEF WriteWord
  <2> QED BY <2>2, <2>3
<1> QED BY <1>4, <1>5

LEMMA ReadWordStep ==
  ASSUME Types, Types', Strobes, Tick(FALSE), Access \/ Wait, Follows, ReadWord
  PROVE  ReadWord'
<1> SUFFICES ASSUME call' \in ReadCalls PROVE ReadWord'
  BY DEF ReadWord
<1>1. call = call' /\ at \in 0 .. 5 /\ (at' = at \/ (at' = at + 1 /\ Access))
  BY CallKinds, InitAccess, WriteAccess, ReadAccess
     DEF Access, Wait, Types, TypeOK, InRangeOfCall, Calls
<1>2. /\ Gap >= AccessTime + 4 /\ Gap \in Nat /\ AccessTime \in Nat /\ idle \in 1 .. Gap
      /\ lowFor \in 0 .. AccessTime
  BY ConstantFacts DEF Types, TypeOK
<1>3. Reading(otg') <=> at \in {3, 4}
  BY <1>1, CallKinds DEF Tick, Bridge, Strobes, ReadPins, Reading, Types, TypeOK
<1>4. CASE Access
  BY <1>1, <1>2, <1>3, <1>4, ReadAccess, CallKinds DEF Access, ReadWord
<1>5. CASE Wait
  <2>1. at' = at /\ idle' >= 2 /\ idle' = IF idle < Gap THEN idle + 1 ELSE Gap
    BY <1>2, <1>5 DEF Wait, Longer
  <2>2. CASE at # 3
    BY <1>1, <1>3, <2>1, <2>2 DEF ReadWord
  <2>3. CASE at = 3 /\ idle = 1
    BY <1>1, <1>2, <1>3, <2>1, <2>3, ChipTypes DEF ReadWord, Tick
  <2>4. CASE at = 3 /\ idle >= 2
    <3>1. Reading(otg) /\ Reading(otg') /\ ~Writing(otg)
      BY <1>1, <1>3, <2>4, CallKinds DEF ReadWord, Strobes, ReadPins, Writing
    <3>2. UNCHANGED <<ptr, mem>>
      BY <1>1, <3>1, QuietChip, CallKinds
    <3>3. lowFor' = IF lowFor < AccessTime THEN lowFor + 1 ELSE lowFor
      BY <3>1 DEF Tick, Chip
    <3>4. lowFor = AccessTime => OTG_DATA = mem[ptr]
      BY <1>1, <1>2, <2>4, <3>1 DEF OTG_DATA, BridgeDrives, ChipDrives, Strobes, ReadPins
    <3>5. from_sw_data_in' = OTG_DATA /\ readdata' = from_sw_data_in
      BY DEF Tick, Bridge
    <3>6. lowFor' >= idle' - 2 \/ lowFor' = AccessTime
      BY <1>1, <1>2, <2>1, <2>4, <3>3 DEF ReadWord
    <3>7. idle' >= AccessTime + 3 => from_sw_data_in' = mem'[ptr']
      BY <1>1, <1>2, <2>1, <2>4, <3>2, <3>4, <3>5 DEF ReadWord
    <3>8. idle' >= AccessTime + 4 => readdata' = mem'[ptr']
      BY <1>1, <1>2, <2>1, <2>4, <3>2, <3>5 DEF ReadWord
    <3> QED BY <1>1, <1>3, <2>1, <2>4, <3>6, <3>7, <3>8 DEF ReadWord
  <2> QED BY <1>2, <2>2, <2>3, <2>4
<1> QED BY <1>4, <1>5

LEMMA WordsStep ==
  ASSUME Types, Types', Strobes, WordsArrive, NEW Reset \in BOOLEAN, Tick(Reset)
  PROVE  WordsArrive'
<1>1. CASE Reset
  BY <1>1 DEF Tick, WordsArrive
<1>2. CASE ~Reset /\ Begin
  <2>1. /\ call = None /\ call' \in WriteCalls \union ReadCalls /\ at' = 0 /\ pio' = pio
    BY <1>2 DEF Begin, Calls
  <2>2. Follows'
    BY <1>2, <2>1 DEF Tick, Bridge, Follows
  <2> QED BY <2>1, <2>2, CallKinds, ConstantFacts
          DEF WordsArrive, InitDone, WriteWord, ReadWord
<1>3. CASE ~Reset /\ (Access \/ Wait)
  <2> SUFFICES ASSUME ~disturbed' PROVE WordsArrive'
    BY DEF WordsArrive
  <2>1. Tick(FALSE)
    BY <1>3, Reset = FALSE
  <2>2. ~disturbed
    <3>1. ~Begin
      BY <1>3, NoneAssumption DEF Begin, Access, Wait
    <3> QED BY <3>1, Zenon DEF Tick
  <2>3. Follows /\ InitDone /\ WriteWord /\ ReadWord
    BY <2>2 DEF WordsArrive
  <2> QED BY <1>3, <2>1, <2>3, FollowsStep, InitDoneStep, WriteWordStep, ReadWordStep
          DEF WordsArrive
<1> QED BY <1>1, <1>2, <1>3 DEF Tick

-----------------------------------------------------------------------------
(* The register file that the bus and the chip stand for.                  *)
request == IF call = None \/ ~Initialised THEN None ELSE IF Served THEN None ELSE call
pointer == IF ~Initialised THEN 0
           ELSE IF call = None THEN ptr
           ELSE IF call.op = "read" /\ at >= 4 /\ Reading(otg) THEN Advance(ptr) ELSE ptr
memory  == IF Initialised THEN mem ELSE Cleared

registers == <<pointer, memory, request, result, disturbed>>

LEMMA Kinds ==
  ASSUME Types
  PROVE  /\ Initialised <=> call # InitCall
         /\ call = None \/ call = InitCall \/ call \in WriteCalls \/ call \in ReadCalls
BY CallKinds DEF Types, TypeOK, Calls, Initialised

Correspond ==
  /\ call = None => request = None /\ pointer = ptr /\ memory = mem
  /\ call = InitCall => request = None /\ pointer = 0 /\ memory = Cleared
  /\ call \in WriteCalls =>
       /\ request = IF at >= 5 /\ ~Writing(otg) THEN None ELSE call
       /\ pointer = ptr /\ memory = mem
  /\ call \in ReadCalls =>
       /\ request = IF at >= 4 THEN None ELSE call
       /\ pointer = IF at >= 4 /\ Reading(otg) THEN Advance(ptr) ELSE ptr
       /\ memory = mem

LEMMA Mapped == Types => Correspond
<1> SUFFICES ASSUME Types PROVE Correspond
  OBVIOUS
<1>1. call = None => request = None /\ pointer = ptr /\ memory = mem
  BY Kinds, CallKinds DEF request, pointer, memory
<1>2. call = InitCall => request = None /\ pointer = 0 /\ memory = Cleared
  BY Kinds, CallKinds DEF request, pointer, memory
<1>3. call \in WriteCalls => /\ request = IF at >= 5 /\ ~Writing(otg) THEN None ELSE call
                             /\ pointer = ptr /\ memory = mem
  BY Kinds, CallKinds DEF request, pointer, memory, Served
<1>4. call \in ReadCalls =>
        /\ request = IF at >= 4 THEN None ELSE call
        /\ pointer = IF at >= 4 /\ Reading(otg) THEN Advance(ptr) ELSE ptr
        /\ memory = mem
  BY Kinds, CallKinds DEF request, pointer, memory, Served
<1> QED BY <1>1, <1>2, <1>3, <1>4 DEF Correspond

RegisterTypes == /\ request \in Calls \union {None} /\ pointer \in Words
                 /\ memory \in [Words -> Words] /\ result \in Words \union {Unknown}

LEMMA MappedTypes == Types => RegisterTypes
<1> SUFFICES ASSUME Types PROVE RegisterTypes
  OBVIOUS
<1>1. ptr \in Words /\ mem \in [Words -> Words] /\ result \in Words \union {Unknown}
      /\ 0 \in Words /\ Cleared \in [Words -> Words]
  BY ConstantFacts DEF Types, TypeOK, Cleared
<1>2. Advance(ptr) \in Words
  BY <1>1, AdvanceType
<1> QED BY <1>1, <1>2, Kinds, Mapped DEF Calls, Correspond, RegisterTypes

LEMMA SameChip ==
  /\ Registers!Words = Words /\ Registers!Cleared = Cleared /\ Registers!Calls = Calls
  /\ \A w : Registers!Advance(w) = Advance(w)
  /\ \A w, c : Registers!PtrAfter(w, c) = PtrAfter(w, c)
  /\ \A m, w, c : Registers!MemAfter(m, w, c) = MemAfter(m, w, c)
BY DEF Registers!Words, Registers!Cleared, Registers!Calls, Registers!WriteCalls,
       Registers!ReadCalls, Registers!HPI_DATA, Registers!HPI_ADDR, Registers!Advance,
       Registers!PtrAfter, Registers!MemAfter, Words, Cleared, Calls, WriteCalls,
       ReadCalls, HPI_DATA, HPI_ADDR, Advance, PtrAfter, MemAfter

LEMMA MappedInit == ASSUME Init PROVE Registers!Init
<1>1. Types /\ call = InitCall /\ result = 0 /\ disturbed \in BOOLEAN
  BY TypesInit DEF Init
<1>2. pointer = 0 /\ memory = Cleared /\ request = None
  BY <1>1, Mapped DEF Correspond
<1> QED BY <1>1, <1>2, SameChip DEF Registers!Init, request, pointer, memory

\* A disturbed step.
LEMMA DisturbedStep ==
  ASSUME Types', disturbed' PROVE Registers!Disturb
<1>1. disturbed' = TRUE
  BY DEF Types, TypeOK
<1>2. RegisterTypes'
  BY MappedTypes, PTL
<1> QED BY <1>1, <1>2, SameChip DEF Registers!Disturb, RegisterTypes, request, pointer, memory

LEMMA BeginStep ==
  ASSUME Types, Types', Strobes, Tick(FALSE), Begin, ~disturbed' PROVE Registers!Call
<1>1. /\ call = None /\ call' \in Calls /\ at' = 0 /\ result' = result
  BY DEF Begin
<1>2. disturbed' = FALSE
  BY DEF Types, TypeOK
<1>3. UNCHANGED <<ptr, mem>>
  <2>1. otg.RD_N = 1 /\ otg.WR_N = 1 /\ call # InitCall
    BY <1>1, InitAssumption DEF Strobes, IdlePins
  <2> QED BY <2>1, QuietChip DEF Writing, Reading
<1>4. request = None /\ pointer = ptr /\ memory = mem
  BY <1>1, Mapped DEF Correspond
<1>5. Correspond'
  BY Mapped, PTL
<1>6. request' = call' /\ pointer' = ptr' /\ memory' = mem'
  BY <1>1, <1>5 DEF Calls, Correspond
<1> QED BY <1>1, <1>2, <1>3, <1>4, <1>6, SameChip
        DEF Registers!Call, request, pointer, memory

LEMMA InitStep ==
  ASSUME Types, Types', Strobes, Strobes', WordsArrive, Tick(FALSE), Access \/ Wait,
         call = InitCall, ~disturbed
  PROVE  <<pointer, memory, request, result>>' = <<pointer, memory, request, result>>
<1>1. pointer = 0 /\ memory = Cleared /\ request = None
  BY Mapped DEF Correspond
<1>2. Correspond'
  BY Mapped, PTL
<1>3. at \in 0 .. 9 /\ result' = result
  BY InitAccess DEF Types, TypeOK, Wait
<1>4. CASE call' = InitCall
  BY <1>1, <1>2, <1>3, <1>4 DEF Correspond
<1>5. CASE call' # InitCall
  <2>1. call' = None /\ at = 9
    BY <1>3, <1>5, InitAccess DEF Wait
  <2>2. ptr = 0 /\ mem = Cleared
    BY <2>1 DEF WordsArrive, InitDone
  <2>3. otg'.RST_N = 1
    BY <2>1 DEF Tick, Bridge, Strobes, InitPins
  <2>4. otg.RD_N # 0 /\ otg.WR_N # 0
    BY <2>1 DEF Strobes, InitPins
  <2>5. ptr' = 0 /\ mem' = Cleared
    BY <2>2, <2>3, <2>4
       DEF Tick, Chip, ChipReset, ChipWritten, ChipRead, ChipQuiet, Writing, Reading
  <2> QED BY <1>1, <1>2, <1>3, <2>1, <2>5 DEF Correspond
<1> QED BY <1>4, <1>5

\* A write: its effect is the end of the strobe.
LEMMA WriteStep ==
  ASSUME Types, Types', Strobes, Strobes', WordsArrive, Tick(FALSE), Access \/ Wait,
         call \in WriteCalls, ~disturbed, disturbed' = disturbed
  PROVE  Registers!Serve \/ UNCHANGED <<pointer, memory, request, result, disturbed>>
<1>1. Correspond /\ Correspond'
  BY Mapped, PTL
<1>2. at \in 0 .. 5 /\ idle \in 1 .. Gap /\ Gap \in Nat /\ Gap >= 4 /\ result' = result
  BY ConstantFacts, WriteAccess DEF Types, TypeOK, InRangeOfCall, Wait
<1>3. ~Reading(otg)
  BY CallKinds DEF Strobes, WritePins, Reading
<1>4. CASE at = 5 /\ idle = 1
  <2>1. call' = call /\ at' = 5
    BY <1>2, <1>4 DEF Access, Wait
  <2>2. Writing(otg) /\ held = call.value /\ otg.ADDR = call.port
    BY <1>4 DEF WordsArrive, WriteWord, Strobes, WritePins, Writing
  <2>3. ~Writing(otg') /\ otg'.RST_N = 1
    BY <1>4 DEF Tick, Bridge, Strobes, WritePins, Writing
  <2>4. OTG_DATA = held
    BY <1>3, <1>4 DEF OTG_DATA, BridgeDrives, ChipDrives, Strobes, WritePins
  <2>5. Written = call
    BY <2>2, <2>4 DEF Written, WriteCalls
  <2>6. ptr' = PtrAfter(ptr, call) /\ mem' = MemAfter(mem, ptr, call)
    BY <2>2, <2>3, <2>5 DEF Tick, Chip, ChipReset, ChipWritten, ChipRead, ChipQuiet
  <2>7. /\ request = call /\ pointer = ptr /\ memory = mem
        /\ request' = None /\ pointer' = ptr' /\ memory' = mem'
    BY <1>1, <1>4, <2>1, <2>2, <2>3 DEF Correspond
  <2>8. call # None /\ call.op # "read"
    BY CallKinds
  <2> QED BY <1>2, <2>6, <2>7, <2>8, SameChip
          DEF Registers!Serve, request, pointer, memory
<1>5. CASE ~(at = 5 /\ idle = 1)
  <2>1. Writing(otg) => Writing(otg')
    <3>1. Writing(otg) => at = 4 /\ idle >= 2
      BY <1>5 DEF Strobes, WritePins, Writing
    <3>2. at = 4 => Writing(otg')
      BY DEF Tick, Bridge, Strobes, WritePins, Writing
    <3> QED BY <3>1, <3>2
  <2>2. UNCHANGED <<ptr, mem>>
    BY <1>3, <2>1, QuietChip, CallKinds
  <2>3. CASE at = 5
    <3>1. ~Writing(otg) /\ ~Writing(otg')
      BY <1>5, <2>3 DEF Strobes, WritePins, Writing, Tick, Bridge
    <3>2. call' = None \/ (call' = call /\ at' = 5)
      BY <2>3, WriteAccess DEF Wait
    <3> QED BY <1>1, <1>2, <2>2, <2>3, <3>1, <3>2 DEF Correspond
  <2>4. CASE at # 5
    <3>1. call' = call /\ (at' = at \/ (at' = at + 1 /\ idle = Gap))
      BY <1>2, <2>4, WriteAccess DEF Wait, Access
    <3>2. at' = 5 => Writing(otg')
      BY <1>2, <2>4, <3>1 DEF Strobes, WritePins, Writing, Tick, Bridge
    <3>3. request' = request
      BY <1>1, <1>2, <2>4, <3>1, <3>2 DEF Correspond
    <3> QED BY <1>1, <1>2, <2>2, <3>1, <3>3 DEF Correspond
  <2> QED BY <2>3, <2>4
<1> QED BY <1>4, <1>5

\* A read: its effect is that the program takes the word; the chip's pointer
\* moves on when the strobe ends.
LEMMA ReadStep ==
  ASSUME Types, Types', Strobes, Strobes', WordsArrive, Tick(FALSE), Access \/ Wait,
         call \in ReadCalls, ~disturbed, disturbed' = disturbed
  PROVE  Registers!Serve \/ UNCHANGED <<pointer, memory, request, result, disturbed>>
<1>1. Correspond /\ Correspond'
  BY Mapped, PTL
<1>2. /\ at \in 0 .. 5 /\ idle \in 1 .. Gap /\ Gap \in Nat
      /\ AccessTime \in Nat /\ Gap >= AccessTime + 4
  BY ConstantFacts DEF Types, TypeOK, InRangeOfCall
<1>3. ~Writing(otg)
  BY CallKinds DEF Strobes, ReadPins, Writing
<1>4. Reading(otg') <=> at \in {3, 4}
  BY <1>2 DEF Tick, Bridge, Strobes, ReadPins, Reading
<1>5. Reading(otg) <=> (at = 3 /\ idle >= 2) \/ at = 4 \/ (at = 5 /\ idle = 1)
  BY DEF WordsArrive, ReadWord, Strobes, ReadPins, Reading
<1>6. ~(at = 5 /\ idle = 1) => UNCHANGED <<ptr, mem>>
  BY <1>2, <1>3, <1>4, <1>5, QuietChip, CallKinds
<1>7. CASE at = 3 /\ Access
  <2>1. idle = Gap /\ result' = readdata /\ call' = call /\ at' = 4
    BY <1>7, ReadAccess DEF Access
  <2>2. readdata = mem[ptr]
    BY <1>2, <1>7, <2>1 DEF WordsArrive, ReadWord
  <2>3. /\ request = call /\ request' = None /\ pointer = ptr /\ memory = mem
        /\ pointer' = Advance(ptr) /\ memory' = mem
    BY <1>1, <1>4, <1>6, <1>7, <2>1 DEF Correspond
  <2>4. call # None /\ call.op = "read"
    BY CallKinds
  <2>5. PtrAfter(ptr, call) = Advance(ptr) /\ MemAfter(mem, ptr, call) = mem
    BY <2>4 DEF PtrAfter, MemAfter
  <2> QED BY <2>1, <2>2, <2>3, <2>4, <2>5, SameChip
          DEF Registers!Serve, request, pointer, memory
<1>8. CASE at = 5 /\ idle = 1
  <2>1. call' = call /\ at' = 5 /\ result' = result
    BY <1>2, <1>8 DEF Access, Wait
  <2>2. Reading(otg) /\ ~Reading(otg')
    BY <1>4, <1>5, <1>8
  <2>3. otg'.RST_N = 1
    BY <1>8 DEF Tick, Bridge, Strobes, ReadPins
  <2>4. ptr' = Advance(ptr) /\ mem' = mem
    BY <1>3, <2>2, <2>3 DEF Tick, Chip, ChipReset, ChipWritten, ChipRead, ChipQuiet
  <2> QED BY <1>1, <1>8, <2>1, <2>2, <2>4 DEF Correspond
<1>9. CASE ~(at = 3 /\ Access) /\ ~(at = 5 /\ idle = 1)
  <2>1. result' = result
    BY <1>2, <1>9, ReadAccess DEF Wait
  <2>2. \/ call' = call /\ (at' = at \/ (at' = at + 1 /\ idle = Gap /\ at # 3))
        \/ call' = None /\ at = 5
    BY <1>2, <1>9, ReadAccess DEF Wait, Access
  <2>3. CASE call' = None /\ at = 5
    BY <1>1, <1>2, <1>5, <1>6, <1>9, <2>1, <2>3 DEF Correspond
  <2>4. CASE at \in {0, 1, 2, 3} /\ call' = call
    BY <1>1, <1>2, <1>6, <1>9, <2>1, <2>2, <2>4 DEF Correspond
  <2>5. CASE at = 4 /\ call' = call
    BY <1>1, <1>2, <1>4, <1>5, <1>6, <2>1, <2>2, <2>5 DEF Correspond
  <2>6. CASE at = 5 /\ call' = call
    <3>1. at' = 5
      BY <1>2, <2>2, <2>6 DEF Types, InRangeOfCall
    <3> QED BY <1>1, <1>4, <1>5, <1>6, <1>9, <2>1, <2>6, <3>1 DEF Correspond
  <2> QED BY <1>2, <2>2, <2>3, <2>4, <2>5, <2>6
<1> QED BY <1>7, <1>8, <1>9

LEMMA PauseStep ==
  ASSUME Types, Types', Strobes, Tick(FALSE), Wait, call = None
  PROVE  <<pointer, memory, request, result>>' = <<pointer, memory, request, result>>
<1>1. Correspond /\ Correspond'
  BY Mapped, PTL
<1>2. call' = None /\ result' = result
  BY DEF Wait
<1>3. UNCHANGED <<ptr, mem>>
  BY QuietChip, InitAssumption DEF Strobes, IdlePins, Writing, Reading
<1> QED BY <1>1, <1>2, <1>3 DEF Correspond

LEMMA BusStep ==
  ASSUME Types, Types', Strobes, Strobes', WordsArrive, NEW Reset \in BOOLEAN, Tick(Reset)
  PROVE  [Registers!Next]_registers
<1>1. CASE disturbed'
  BY <1>1, DisturbedStep DEF Registers!Next
<1>2. CASE ~disturbed' /\ Begin
  <2>1. Tick(FALSE)
    <3>1. ~Reset
      BY <1>2, CallKinds, NoneAssumption DEF Tick, Begin, Access, Wait
    <3> QED BY <3>1, Reset = FALSE
  <2> QED BY <1>2, <2>1, BeginStep DEF Registers!Next
<1>3. CASE ~disturbed' /\ ~Begin
  <2>1. ~Reset /\ ~disturbed /\ (Access \/ Wait)
    BY <1>3, Zenon DEF Tick
  <2>2. Tick(FALSE)
    BY <2>1, Reset = FALSE
  <2>3. disturbed' = disturbed
    BY <1>3, <2>1 DEF Types, TypeOK
  <2>4. CASE call = None
    BY <2>1, <2>2, <2>3, <2>4, PauseStep DEF registers, Access
  <2>5. CASE call = InitCall
    BY <2>1, <2>2, <2>3, <2>5, InitStep DEF registers
  <2>6. CASE call \in WriteCalls
    BY <2>1, <2>2, <2>3, <2>6, WriteStep DEF registers, Registers!Next
  <2>7. CASE call \in ReadCalls
    BY <2>1, <2>2, <2>3, <2>7, ReadStep DEF registers, Registers!Next
  <2> QED BY <2>4, <2>5, <2>6, <2>7, Kinds
<1> QED BY <1>1, <1>2, <1>3

LEMMA BusStutter ==
  ASSUME UNCHANGED busVars PROVE UNCHANGED registers
BY DEF busVars, registers, request, pointer, memory, Initialised, Served, Writing, Reading

LEMMA WordsStutter == ASSUME WordsArrive, UNCHANGED busVars PROVE WordsArrive'
BY DEF busVars, WordsArrive, Follows, InitDone, WriteWord, ReadWord, Writing, Reading

(* The program, the bridge and the chip implement the register file of     *)
(* HpiRegisters: whatever the reset key does to a call, the next is whole. *)
THEOREM BusIsRegisterFile == Spec => IsRegisterFile
<1>1. Init => Types /\ Strobes /\ WordsArrive /\ Registers!Init
  BY TypesInit, StrobesInit, WordsInit, MappedInit
<1>2. Types /\ Types' /\ Strobes /\ Strobes' /\ WordsArrive /\ [Next]_busVars
        => WordsArrive' /\ [Registers!Next]_registers
  BY WordsStep, WordsStutter, BusStep, BusStutter DEF Next
<1>3. Spec => [](Types /\ Strobes)
  BY StrobesAlways
<1>4. Spec => Registers!Init /\ [][Registers!Next]_registers
  BY <1>1, <1>2, <1>3, PTL DEF Spec
<1> QED BY <1>4 DEF IsRegisterFile, Registers!Spec, Registers!vars, registers, request,
                    pointer, memory
=============================================================================
