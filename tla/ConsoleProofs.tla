--------------------------- MODULE ConsoleProofs ---------------------------
(***************************************************************************)
(* For every number of descriptors and every size of the buffers and fifos: *)
(* printf reaches the JTAG UART, a device is never locked twice, a lock is *)
(* honoured, no character is left in a buffer without its interrupt, and   *)
(* the characters of either direction stay in order.                       *)
(***************************************************************************)
EXTENDS Console, WellFoundedInduction, SequenceTheorems, TLAPS

-----------------------------------------------------------------------------
(* The lowest element of a set of numbers.                                 *)
Below == {ss \in Nat \X Nat : ss[1] < ss[2]}

LEMMA BelowWellFounded == IsWellFoundedOn(Below, Nat)
BY NatLessThanWellFounded, Zenon DEF OpToRel, Below

LEMMA LowestElement ==
  ASSUME NEW S, S \subseteq Nat, S # {}
  PROVE  Min(S) \in S /\ \A i \in S : Min(S) <= i
<1>1. PICK x \in S : \A y \in S : ~(<<y, x>> \in Below)
  BY BelowWellFounded, WFMin
<1>2. \A y \in S : x <= y
  <2> SUFFICES ASSUME NEW y \in S PROVE x <= y
    OBVIOUS
  <2>1. x \in Nat /\ y \in Nat
    OBVIOUS
  <2>2. y < x => <<y, x>> \in Below
    <3>1. <<y, x>>[1] = y /\ <<y, x>>[2] = x /\ <<y, x>> \in Nat \X Nat
      BY <2>1
    <3> QED BY <3>1, Zenon DEF Below
  <2> QED BY <1>1, <2>1, <2>2
<1> QED BY <1>1, <1>2 DEF Min

LEMMA LowestDescriptor ==
  ASSUME Unused # {}
  PROVE  /\ alt_get_fd \in Unused /\ alt_get_fd \in Descriptor
         /\ \A i \in Unused : alt_get_fd <= i
<1>1. Unused \subseteq Nat
  BY TableAssumption DEF Unused, Descriptor
<1> QED BY <1>1, LowestElement DEF alt_get_fd, Unused

-----------------------------------------------------------------------------
(* The table of descriptors.                                               *)
Entry == [dev : alt_dev_list \cup {"none"}, mode : Mode, nonblock : BOOLEAN, excl : BOOLEAN]

\* The descriptors that a standard stream is redirected through are free.
Booting ==
  booting # <<>> =>
    /\ booting \in {<<"stdout", "stdin", "stderr">>, <<"stdin", "stderr">>, <<"stderr">>}
    /\ \A i \in Descriptor : i > 2 => alt_fd_list[i] = Free
    /\ \A i \in 0 .. 2 : alt_fd_list[i].dev # "none" /\ ~alt_fd_list[i].excl
    /\ Len(booting) < 3 => alt_fd_list[1] = [dev |-> "jtag_uart_0", mode |-> "O_WRONLY",
                                             nonblock |-> FALSE, excl |-> FALSE]
    /\ Len(booting) < 2 => alt_fd_list[0] = [dev |-> "jtag_uart_0", mode |-> "O_RDONLY",
                                             nonblock |-> FALSE, excl |-> FALSE]

\* Whatever is locked is open; once booted the mark is above the streams.
Marked ==
  /\ \A i \in Descriptor : alt_fd_list[i].dev = "none" => ~alt_fd_list[i].excl
  /\ booting = <<>> => alt_max_fd >= 3

TableInv == TableTypeOK /\ Booting /\ Marked /\ StandardStreams /\ LockAlmostExclusive

LEMMA DescriptorFacts == /\ ALT_MAX_FD \in Nat /\ ALT_MAX_FD > 3
                         /\ 0 \in Descriptor /\ 1 \in Descriptor /\ 2 \in Descriptor
                         /\ 3 \in Descriptor /\ Descriptor \subseteq Nat
BY TableAssumption DEF Descriptor

LEMMA TableInitInv == ASSUME TableInit PROVE TableInv
<1>1. Free \in Entry /\ [Free EXCEPT !.dev = "null"] \in Entry
      /\ Free.dev = "none" /\ ~Free.excl
      /\ [Free EXCEPT !.dev = "null"].dev = "null" /\ ~[Free EXCEPT !.dev = "null"].excl
  BY DEF Free, Entry, Mode, alt_dev_list
<1>2. booting # <<>> /\ Len(booting) = 3
  BY DEF TableInit
<1>3. \A i \in Descriptor :
        alt_fd_list[i] = IF i <= 2 THEN [Free EXCEPT !.dev = "null"] ELSE Free
  BY DEF TableInit
<1>4. TableTypeOK
  BY <1>1, <1>3, DescriptorFacts DEF TableInit, TableTypeOK, Entry
<1>5. Booting
  BY <1>1, <1>2, <1>3, DescriptorFacts DEF TableInit, Booting, Descriptor
<1>6. \A i \in Descriptor : ~alt_fd_list[i].excl
  BY <1>1, <1>3
<1> QED BY <1>2, <1>4, <1>5, <1>6 DEF TableInv, Marked, StandardStreams, LockAlmostExclusive

\* What open writes into the table.
LEMMA OpenEffect ==
  ASSUME TableInv, booting = <<>>, Unused # {},
         NEW name \in alt_dev_list, NEW mode \in Mode, NEW nonblock \in BOOLEAN
  PROVE  LET index == alt_get_fd
             new   == [dev |-> name, mode |-> mode, nonblock |-> nonblock, excl |-> FALSE]
         IN  /\ index \in Descriptor /\ index > 2 /\ alt_fd_list[index].dev = "none"
             /\ new \in Entry
             /\ Allocated(name, mode, nonblock) = [alt_fd_list EXCEPT ![index] = new]
             /\ alt_release_fd(Allocated(name, mode, nonblock), index)
                  = [alt_fd_list EXCEPT ![index] = Free]
<1>1. alt_get_fd \in Descriptor /\ alt_fd_list[alt_get_fd].dev = "none"
  BY LowestDescriptor DEF Unused
<1>2. alt_get_fd > 2
  BY <1>1, DescriptorFacts DEF TableInv, StandardStreams, Descriptor
<1> QED BY <1>1, <1>2 DEF Allocated, alt_release_fd, Entry, TableInv, TableTypeOK

\* No descriptor comes to refer to a device that another one has locked.
Honoured ==
  \A fd, i \in Descriptor :
     alt_fd_list[fd].excl /\ i # fd /\ alt_fd_list'[i].dev = alt_fd_list[fd].dev
       => alt_fd_list[i].dev = alt_fd_list[fd].dev

LEMMA LockedIsOpen ==
  ASSUME TableInv, booting = <<>>, NEW fd \in Descriptor, alt_fd_list[fd].excl
  PROVE  alt_fd_list[fd].dev # "none" /\ fd \in 3 .. alt_max_fd /\ alt_max_fd \in Descriptor
<1>1. alt_fd_list[fd].dev # "none" /\ alt_max_fd >= 3 /\ fd \in Nat
  BY DescriptorFacts DEF TableInv, Marked
<1>2. fd > 2
  BY <1>1, DescriptorFacts DEF TableInv, StandardStreams, Descriptor
<1>3. alt_max_fd \in Descriptor /\ alt_max_fd \in Nat
  BY <1>1, DescriptorFacts DEF TableInv, TableTypeOK
<1> QED BY <1>1, <1>2, <1>3 DEF TableInv, TableTypeOK

\* An entry changes that was not open, or closes, or keeps its device and lock.
LEMMA EntryStep ==
  ASSUME TableInv, booting = <<>>, booting' = <<>>,
         NEW index \in Descriptor, index > 2, NEW entry \in Entry,
         entry.dev = "none" \/ ~entry.excl, entry.dev = "none" => ~entry.excl,
         alt_fd_list' = [alt_fd_list EXCEPT ![index] = entry],
         alt_max_fd' \in Descriptor, alt_max_fd' >= alt_max_fd,
         entry.dev # "none" => index <= alt_max_fd',
         \/ entry.dev = "none" \/ entry.dev = alt_fd_list[index].dev
         \/ \A i \in Descriptor : i # index /\ alt_fd_list[i].excl
                                    => alt_fd_list[i].dev # entry.dev
  PROVE  TableInv' /\ Honoured
<1> /\ alt_fd_list'[index] = entry
    /\ \A i \in Descriptor \ {index} : alt_fd_list'[i] = alt_fd_list[i]
  BY DEF TableInv, TableTypeOK
<1>1. TableTypeOK'
  BY DescriptorFacts DEF TableInv, TableTypeOK, Entry
<1>2. Booting'
  BY DEF Booting
<1>3. Marked'
  <2>1. \A i \in Descriptor : alt_fd_list'[i].dev = "none" => ~alt_fd_list'[i].excl
    BY DEF TableInv, Marked
  <2>2. alt_max_fd' >= 3
    BY DescriptorFacts DEF TableInv, Marked, TableTypeOK
  <2> QED BY <2>1, <2>2 DEF Marked
<1>4. StandardStreams'
  BY DescriptorFacts DEF TableInv, StandardStreams
<1>5. ~entry.excl
  OBVIOUS
<1>6. Honoured
  BY LockedIsOpen DEF Honoured
<1>7. LockAlmostExclusive'
  <2> SUFFICES ASSUME NEW fd \in Descriptor, alt_fd_list'[fd].excl,
                      NEW i \in Sharers(fd)', NEW j \in Sharers(fd)'
               PROVE  i = j /\ i > fd /\ ~alt_fd_list'[i].excl
    BY DEF LockAlmostExclusive
  <2>1. fd # index /\ alt_fd_list[fd].excl /\ alt_fd_list'[fd] = alt_fd_list[fd]
    BY <1>5
  <2>2. i \in Sharers(fd) /\ j \in Sharers(fd)
    BY <1>6, <2>1 DEF Sharers, Honoured
  <2> QED BY <1>5, <2>1, <2>2 DEF TableInv, LockAlmostExclusive, Sharers
<1> QED BY <1>1, <1>2, <1>3, <1>4, <1>6, <1>7 DEF TableInv

LEMMA OpenStep ==
  ASSUME TableInv, NEW name, NEW mode \in Mode, NEW nonblock \in BOOLEAN,
         Open(name, mode, nonblock)
  PROVE  TableInv' /\ Honoured
<1>1. CASE UNCHANGED <<alt_fd_list, alt_max_fd, booting>>
  BY <1>1 DEF TableInv, TableTypeOK, Booting, Marked, StandardStreams,
              LockAlmostExclusive, Sharers, Honoured
<1>2. CASE name \in alt_dev_list /\ Unused # {}
  <2> DEFINE index == alt_get_fd
             new   == [dev |-> name, mode |-> mode, nonblock |-> nonblock, excl |-> FALSE]
  <2>1. booting = <<>> /\ booting' = <<>>
    BY DEF Open
  <2>2. /\ index \in Descriptor /\ index > 2 /\ alt_fd_list[index].dev = "none" /\ new \in Entry
        /\ Allocated(name, mode, nonblock) = [alt_fd_list EXCEPT ![index] = new]
        /\ alt_release_fd(Allocated(name, mode, nonblock), index)
             = [alt_fd_list EXCEPT ![index] = Free]
    BY <1>2, <2>1, OpenEffect
  <2>3. Free \in Entry /\ Free.dev = "none" /\ ~Free.excl
    BY DEF Free, Entry, Mode
  <2>4. /\ alt_max_fd' = HighWater(index) /\ alt_max_fd' \in Descriptor
        /\ alt_max_fd' >= alt_max_fd /\ alt_max_fd' >= index
    BY <1>2, <2>1, <2>2, DescriptorFacts
       DEF Open, HighWater, TableInv, TableTypeOK, Marked, Descriptor
  <2>5. CASE alt_file_locked(index, name)
    <3>1. alt_fd_list' = [alt_fd_list EXCEPT ![index] = Free]
      BY <1>2, <2>2, <2>5 DEF Open
    <3> QED BY <2>1, <2>2, <2>3, <2>4, <3>1, EntryStep
  <2>6. CASE ~alt_file_locked(index, name)
    <3>1. alt_fd_list' = [alt_fd_list EXCEPT ![index] = new]
      BY <1>2, <2>2, <2>6 DEF Open
    <3>2. \A i \in Descriptor : i # index /\ alt_fd_list[i].excl => alt_fd_list[i].dev # name
      <4> SUFFICES ASSUME NEW i \in Descriptor, i # index, alt_fd_list[i].excl
                   PROVE  alt_fd_list[i].dev # name
        OBVIOUS
      <4>1. i \in 0 .. HighWater(index)
        BY <2>1, <2>4, LockedIsOpen, DescriptorFacts DEF Descriptor
      <4> QED BY <2>6, <4>1 DEF alt_file_locked
    <3>3. new.dev = name /\ ~new.excl
      OBVIOUS
    <3> HIDE DEF new
    <3> QED BY <2>1, <2>2, <2>4, <3>1, <3>2, <3>3, EntryStep
  <2> QED BY <2>5, <2>6
<1> QED BY <1>1, <1>2 DEF Open

LEMMA LockStep ==
  ASSUME TableInv, NEW fd \in Descriptor, alt_fd_lock(fd)
  PROVE  TableInv' /\ Honoured
<1>1. /\ booting = <<>> /\ alt_fd_list[fd].dev # "none" /\ ~Shared(fd)
      /\ alt_fd_list' = [alt_fd_list EXCEPT ![fd].excl = TRUE]
      /\ alt_max_fd' = alt_max_fd /\ booting' = <<>>
  BY DEF alt_fd_lock, InUse
<1>2. alt_max_fd \in Descriptor /\ alt_max_fd >= 3 /\ alt_fd_list \in [Descriptor -> Entry]
  BY <1>1, DescriptorFacts DEF TableInv, TableTypeOK, Marked, Entry
<1>3. \A i \in Sharers(fd) : i = alt_max_fd
  <2> SUFFICES ASSUME NEW i \in Sharers(fd) PROVE i = alt_max_fd
    OBVIOUS
  <2>1. i \in Descriptor /\ i # fd /\ alt_fd_list[i].dev = alt_fd_list[fd].dev
    BY DEF Sharers
  <2>2. i <= alt_max_fd
    BY <1>1, <1>2, <2>1, DescriptorFacts DEF TableInv, TableTypeOK
  <2> QED BY <1>1, <1>2, <2>1, <2>2, DescriptorFacts DEF Shared
<1>4. fd > 2
  <2> SUFFICES ASSUME fd \in 0 .. 2 PROVE FALSE
    BY DescriptorFacts DEF Descriptor
  <2>1. PICK i \in 0 .. 2 : i # fd
    BY 0 \in 0 .. 2, 1 \in 0 .. 2
  <2>2. i \in Sharers(fd)
    BY <1>1, <2>1, DescriptorFacts DEF Sharers, TableInv, StandardStreams
  <2> QED BY <1>2, <1>3, <2>1, <2>2
<1>5. fd <= alt_max_fd
  BY <1>1, <1>2, <1>4, DescriptorFacts DEF TableInv, TableTypeOK
<1>6. \A i \in Descriptor : /\ alt_fd_list'[i].dev = alt_fd_list[i].dev
                            /\ i # fd => alt_fd_list'[i] = alt_fd_list[i]
  BY <1>1, <1>2
<1>7. alt_fd_list' \in [Descriptor -> Entry]
  BY <1>1, <1>2 DEF Entry
<1>8. TableTypeOK' /\ Booting' /\ Marked' /\ Honoured
  <2>1. TableTypeOK'
    BY <1>1, <1>6, <1>7 DEF TableInv, TableTypeOK, Entry
  <2>2. Marked'
    BY <1>1, <1>2, <1>6 DEF TableInv, Marked
  <2> QED BY <1>1, <1>6, <2>1, <2>2 DEF Booting, Honoured
<1>9. StandardStreams'
  BY <1>1, <1>4, <1>6, DescriptorFacts DEF TableInv, StandardStreams
<1>10. LockAlmostExclusive'
  <2> SUFFICES ASSUME NEW f \in Descriptor, alt_fd_list'[f].excl,
                      NEW i \in Sharers(f)', NEW j \in Sharers(f)'
               PROVE  i = j /\ i > f /\ ~alt_fd_list'[i].excl
    BY DEF LockAlmostExclusive
  <2>1. i \in Sharers(f) /\ j \in Sharers(f)
    BY <1>6 DEF Sharers
  <2>2. CASE f = fd
    <3>1. i = alt_max_fd /\ j = alt_max_fd /\ i # fd
      BY <1>3, <2>1, <2>2 DEF Sharers
    <3>2. i > fd
      BY <1>2, <1>5, <3>1, DescriptorFacts
    <3>3. ~alt_fd_list[i].excl
      <4> SUFFICES ASSUME alt_fd_list[i].excl PROVE FALSE
        OBVIOUS
      <4>1. fd \in Sharers(i) /\ i \in Descriptor
        BY <2>1, <2>2 DEF Sharers
      <4>2. fd > i
        BY <4>1 DEF TableInv, LockAlmostExclusive
      <4> QED BY <3>2, <4>1, <4>2, DescriptorFacts
    <3> QED BY <1>6, <2>1, <2>2, <3>1, <3>2, <3>3 DEF Sharers
  <2>3. CASE f # fd
    <3>1. alt_fd_list[f].excl
      BY <1>6, <2>3
    <3>2. i = j /\ i > f /\ ~alt_fd_list[i].excl
      BY <2>1, <3>1 DEF TableInv, LockAlmostExclusive
    <3>3. i # fd
      <4> SUFFICES ASSUME i = fd PROVE FALSE
        OBVIOUS
      <4>1. f \in Sharers(fd)
        BY <2>1, <2>3 DEF Sharers
      <4>2. f = alt_max_fd
        BY <1>3, <4>1
      <4> QED BY <1>2, <1>5, <3>2, <4>2, DescriptorFacts
    <3> QED BY <1>6, <2>1, <3>2, <3>3 DEF Sharers
  <2> QED BY <2>2, <2>3
<1> QED BY <1>8, <1>9, <1>10 DEF TableInv

\* An entry keeps its device; its lock is kept or released.
LEMMA FlagStep ==
  ASSUME TableInv, NEW fd \in Descriptor,
         \/ alt_fd_unlock(fd)
         \/ \E nonblock \in BOOLEAN : SetFlags(fd, nonblock)
  PROVE  TableInv' /\ Honoured
<1>1. /\ booting = <<>> /\ booting' = <<>> /\ alt_max_fd' = alt_max_fd
      /\ alt_fd_list[fd].dev # "none"
  BY DEF alt_fd_unlock, SetFlags, InUse
<1>2. alt_max_fd \in Descriptor /\ alt_max_fd >= 3 /\ alt_fd_list \in [Descriptor -> Entry]
  BY <1>1, DescriptorFacts DEF TableInv, TableTypeOK, Marked, Entry
<1>3. alt_fd_list' \in [Descriptor -> Entry]
  BY <1>2 DEF alt_fd_unlock, SetFlags, Entry
<1>4. \A i \in Descriptor : /\ alt_fd_list'[i].dev = alt_fd_list[i].dev
                            /\ alt_fd_list'[i].mode = alt_fd_list[i].mode
                            /\ alt_fd_list'[i].excl => alt_fd_list[i].excl
  BY <1>2 DEF alt_fd_unlock, SetFlags, Entry
<1>5. TableTypeOK' /\ Booting' /\ Marked'
  BY <1>1, <1>3, <1>4 DEF TableInv, TableTypeOK, Booting, Marked, Entry
<1>6. StandardStreams'
  BY <1>1, <1>4, DescriptorFacts DEF TableInv, StandardStreams
<1>7. \A i \in Descriptor : Sharers(i)' = Sharers(i)
  BY <1>4 DEF Sharers
<1>8. LockAlmostExclusive'
  BY <1>4, <1>7 DEF TableInv, LockAlmostExclusive, Sharers
<1>9. Honoured
  BY <1>4 DEF Honoured
<1> QED BY <1>5, <1>6, <1>8, <1>9 DEF TableInv

LEMMA ReleaseStep ==
  ASSUME TableInv, booting = <<>>, NEW fd \in Descriptor, Release(fd)
  PROVE  TableInv' /\ Honoured
<1>1. Free \in Entry /\ Free.dev = "none" /\ ~Free.excl
  BY DEF Free, Entry, Mode
<1>2. alt_max_fd \in Descriptor
  BY DescriptorFacts DEF TableInv, TableTypeOK, Marked
<1>3. CASE fd > 2
  <2>1. alt_fd_list' = [alt_fd_list EXCEPT ![fd] = Free]
    BY <1>3 DEF Release, alt_release_fd
  <2>2. booting' = <<>> /\ alt_max_fd' = alt_max_fd /\ alt_max_fd >= alt_max_fd
    BY <1>2, DescriptorFacts DEF Release
  <2> HIDE DEF Free
  <2> QED BY <1>1, <1>2, <1>3, <2>1, <2>2, EntryStep
<1>4. CASE ~(fd > 2)
  BY <1>4 DEF Release, alt_release_fd, TableInv, TableTypeOK, Booting, Marked,
              StandardStreams, LockAlmostExclusive, Sharers, Honoured
<1> QED BY <1>3, <1>4

\* alt_main redirects a stream: descriptor 3 is opened, copied and released.
LEMMA RedirectStep == ASSUME TableInv, Redirect PROVE TableInv' /\ Honoured
<1> DEFINE stream == CASE booting[1] = "stdin" -> 0
                       [] booting[1] = "stdout" -> 1
                       [] booting[1] = "stderr" -> 2
           mode   == IF stream = 0 THEN "O_RDONLY" ELSE "O_WRONLY"
           entry  == [dev |-> "jtag_uart_0", mode |-> mode, nonblock |-> FALSE, excl |-> FALSE]
<1>1. /\ booting \in {<<"stdout", "stdin", "stderr">>, <<"stdin", "stderr">>, <<"stderr">>}
      /\ \A i \in Descriptor : i > 2 => alt_fd_list[i] = Free
      /\ \A i \in 0 .. 2 : alt_fd_list[i].dev # "none" /\ ~alt_fd_list[i].excl
  BY DEF Redirect, TableInv, Booting
<1>2. Free.dev = "none" /\ ~Free.excl /\ Free \in Entry
  BY DEF Free, Entry, Mode
<1>3. alt_get_fd = 3
  <2>1. 3 \in Unused /\ \A i \in Unused : i \in Nat /\ i >= 3
    BY <1>1, <1>2, DescriptorFacts DEF Unused, Descriptor
  <2>2. alt_get_fd \in Unused /\ alt_get_fd <= 3
    BY <2>1, LowestDescriptor
  <2> QED BY <2>1, <2>2
<1>4. \A i \in Descriptor : ~alt_fd_list[i].excl
  BY <1>1, <1>2, DescriptorFacts DEF Descriptor
<1>5. alt_max_fd' \in Descriptor /\ alt_max_fd' >= 3
  BY <1>3, DescriptorFacts DEF Redirect, HighWater, TableInv, TableTypeOK
<1>6. Opens("jtag_uart_0")
  <2>1. \A i \in 0 .. HighWater(3) : i \in Descriptor
    BY <1>3, DescriptorFacts DEF HighWater, TableInv, TableTypeOK, Descriptor
  <2>2. ~alt_file_locked(3, "jtag_uart_0")
    BY <1>4, <2>1 DEF alt_file_locked
  <2>3. Unused # {}
    BY <1>1, <1>2, DescriptorFacts DEF Unused
  <2> QED BY <1>3, <2>2, <2>3 DEF Opens, alt_dev_list
<1>7. stream \in 0 .. 2 /\ mode \in Mode /\ entry \in Entry
  BY <1>1 DEF Mode, Entry, alt_dev_list
<1>8. alt_fd_list' = [alt_fd_list EXCEPT ![stream] = entry]
  <2>1. Allocated("jtag_uart_0", mode, FALSE) = [alt_fd_list EXCEPT ![3] = entry]
    BY <1>3 DEF Allocated
  <2>2. /\ alt_fd_list \in [Descriptor -> Entry] /\ 3 \in Descriptor
        /\ stream \in Descriptor /\ stream # 3 /\ alt_fd_list[3] = Free
    BY <1>1, <1>7, DescriptorFacts DEF TableInv, TableTypeOK, Entry
  <2> DEFINE list == [alt_fd_list EXCEPT ![3] = entry]
  <2>3. list[3] = entry
    BY <2>2
  <2>4. alt_fd_list' = alt_release_fd([list EXCEPT ![stream] = list[3]], 3)
    BY <1>3, <1>6, <2>1 DEF Redirect
  <2>5. alt_fd_list' = [[list EXCEPT ![stream] = entry] EXCEPT ![3] = Free]
    <3> HIDE DEF list, entry, stream
    <3> QED BY <2>3, <2>4 DEF alt_release_fd
  <2> HIDE DEF entry, stream
  <2> QED BY <2>2, <2>5
<1> HIDE DEF entry
<1>9. /\ entry.dev = "jtag_uart_0" /\ ~entry.excl /\ entry.mode = mode
      /\ entry.nonblock = FALSE
  BY DEF entry
<1> HIDE DEF stream
<1>10. /\ alt_fd_list'[stream] = entry
       /\ \A i \in Descriptor \ {stream} : alt_fd_list'[i] = alt_fd_list[i]
       /\ alt_fd_list' \in [Descriptor -> Entry]
  BY <1>7, <1>8, DescriptorFacts DEF TableInv, TableTypeOK, Entry
<1>11. \A i \in Descriptor : ~alt_fd_list'[i].excl
  BY <1>4, <1>9, <1>10
<1>12. Marked'
  BY <1>5, <1>11 DEF Marked
<1>13. LockAlmostExclusive' /\ Honoured
  BY <1>4, <1>11 DEF LockAlmostExclusive, Honoured
<1>14. /\ \A i \in Descriptor : i > 2 => alt_fd_list'[i] = Free
       /\ \A i \in 0 .. 2 : alt_fd_list'[i].dev # "none" /\ ~alt_fd_list'[i].excl
  BY <1>1, <1>7, <1>9, <1>10, <1>11, DescriptorFacts DEF Descriptor
<1>15. TableTypeOK'
  BY <1>2, <1>5, <1>10, <1>14, DescriptorFacts DEF TableTypeOK, Entry
<1>16. Booting' /\ StandardStreams'
  <2>1. CASE booting = <<"stdout", "stdin", "stderr">>
    <3>1. stream = 1 /\ mode = "O_WRONLY" /\ booting' = <<"stdin", "stderr">>
      BY <2>1 DEF Redirect, stream
    <3>2. booting' # <<>> /\ Len(booting') = 2
      BY <3>1
    <3>3. alt_fd_list'[1] = [dev |-> "jtag_uart_0", mode |-> "O_WRONLY",
                             nonblock |-> FALSE, excl |-> FALSE]
      BY <1>10, <3>1 DEF entry
    <3> QED BY <1>14, <3>1, <3>2, <3>3 DEF Booting, StandardStreams
  <2>2. CASE booting = <<"stdin", "stderr">>
    <3>1. stream = 0 /\ mode = "O_RDONLY" /\ booting' = <<"stderr">>
      BY <2>2 DEF Redirect, stream
    <3>2. booting' # <<>> /\ Len(booting') = 1 /\ booting # <<>> /\ Len(booting) = 2
      BY <2>2, <3>1
    <3>3. alt_fd_list'[0] = [dev |-> "jtag_uart_0", mode |-> "O_RDONLY",
                             nonblock |-> FALSE, excl |-> FALSE]
      BY <1>10, <3>1 DEF entry
    <3>4. alt_fd_list'[1] = [dev |-> "jtag_uart_0", mode |-> "O_WRONLY",
                             nonblock |-> FALSE, excl |-> FALSE]
      BY <1>10, <3>1, <3>2, DescriptorFacts DEF TableInv, Booting
    <3> QED BY <1>14, <3>1, <3>2, <3>3, <3>4 DEF Booting, StandardStreams
  <2>3. CASE booting = <<"stderr">>
    <3>1. stream = 2 /\ mode = "O_WRONLY" /\ booting' = <<>>
      BY <2>3 DEF Redirect, stream
    <3>2. booting # <<>> /\ Len(booting) = 1
      BY <2>3
    <3>3. /\ alt_fd_list'[2].dev = "jtag_uart_0" /\ alt_fd_list'[2].mode = "O_WRONLY"
          /\ alt_fd_list'[1] = alt_fd_list[1] /\ alt_fd_list'[0] = alt_fd_list[0]
      BY <1>9, <1>10, <3>1, DescriptorFacts
    <3>4. /\ alt_fd_list[1] = [dev |-> "jtag_uart_0", mode |-> "O_WRONLY",
                               nonblock |-> FALSE, excl |-> FALSE]
          /\ alt_fd_list[0] = [dev |-> "jtag_uart_0", mode |-> "O_RDONLY",
                               nonblock |-> FALSE, excl |-> FALSE]
      BY <3>2 DEF TableInv, Booting
    <3>5. StandardStreams'
      BY <1>11, <3>3, <3>4, DescriptorFacts DEF StandardStreams
    <3> QED BY <3>1, <3>5 DEF Booting
  <2> QED BY <1>1, <2>1, <2>2, <2>3
<1> QED BY <1>15, <1>12, <1>13, <1>16 DEF TableInv

LEMMA TableStep ==
  ASSUME TableInv, closing \in Descriptor => booting = <<>>, closing \in Descriptor \cup {None},
         [Next]_vars
  PROVE  TableInv' /\ Honoured
<1>1. CASE UNCHANGED tableVars
  BY <1>1 DEF tableVars, TableInv, TableTypeOK, Booting, Marked, StandardStreams,
              LockAlmostExclusive, Sharers, Honoured
<1>2. CASE FileCall
  BY <1>2, RedirectStep, OpenStep, LockStep, FlagStep DEF FileCall, Table
<1>3. CASE CloseNull
  BY <1>3, ReleaseStep DEF CloseNull, InUse
<1>4. CASE CloseEnd
  BY <1>4, ReleaseStep DEF CloseEnd
<1> QED BY <1>1, <1>2, <1>3, <1>4
        DEF Next, vars, Ioctl, Write, Read, Close, Driver, Host

-----------------------------------------------------------------------------
(* The driver: ranges, and where a call is when it has something to do.    *)
Buffer == [buf : [Index -> Number], in : Index, out : Index]

Stage == {"idle", "write", "copy", "commit", "kick", "wait",
          "read", "take", "release", "listen", "enable", "close"}

Op == {"none", "write", "read", "close"}

Call == [at : Stage, op : Op, nonblock : BOOLEAN, left : Nat, done : Nat,
         n : Index, in : Index, out : Index, data : Seq(Number)]

Routine == [at : {"out", "again", "rx", "tx"}, ravail : BOOLEAN, wi : BOOLEAN,
            space : 0 .. Depth]

UartTypes ==
  /\ tx \in Buffer /\ rx \in Buffer
  /\ irq_enable \subseteq {"RE", "WE"}
  /\ timeout \in 2 .. IntMax /\ host_inactive \in 0 .. IntMax - 2
  /\ fifo \in [tx : Seq(Number), rx : Seq(Number)]
  /\ Len(fifo.tx) <= Depth /\ Len(fifo.rx) <= Depth
  /\ call \in Call /\ isr \in Routine
  /\ sent \in Number /\ heard \in Number /\ typed \in Number /\ taken \in Number

\* A reader asks for characters; what it has found it takes from one piece of
\* the buffer, and it has something when it makes room.
Reader ==
  /\ call.at \in {"read", "listen"} => call.left > 0
  /\ call.at = "take" => call.n > 0 /\ call.n <= call.left /\ call.out + call.n <= BufLen
  /\ call.at = "copy" => call.n <= call.left
  /\ call.at \in {"release", "enable"} => call.done > 0

UartFlow == UartTypes /\ Reader /\ NothingStranded

LEMMA UartFacts ==
  /\ BufLen \in Nat /\ BufLen >= 2 /\ Depth \in Nat /\ Depth >= 1
  /\ IntMax \in Nat /\ IntMax >= 4
  /\ 0 \in Index /\ 0 \in Number /\ Index \subseteq Nat /\ Number \subseteq Nat
BY UartAssumption DEF Index, Number

LEMMA ModRange == ASSUME NEW k \in Nat, NEW m \in Nat, m > 0 PROVE k % m \in 0 .. m - 1
OBVIOUS

LEMMA IndexMod == ASSUME NEW k \in Nat PROVE k % BufLen \in Index
BY ModRange, UartFacts DEF Index

LEMMA PlusType == ASSUME NEW k \in Nat, NEW n \in Nat PROVE Plus(k, n) \in Number
<1>1. k + n \in Nat /\ 2 * BufLen \in Nat /\ 2 * BufLen > 0
  BY UartFacts
<1> QED BY <1>1, ModRange DEF Plus, Number

\* The next index is another one.
LEMMA NextIndex ==
  ASSUME NEW i \in Index PROVE (i + 1) % BufLen \in Index /\ (i + 1) % BufLen # i
<1>1. i \in Nat /\ i + 1 <= BufLen
  BY UartFacts DEF Index
<1>2. CASE i + 1 < BufLen
  <2>1. (i + 1) % BufLen = i + 1
    BY <1>1, <1>2, UartFacts
  <2> QED BY <1>1, <1>2, <2>1, UartFacts DEF Index
<1>3. CASE i + 1 = BufLen
  <2>1. (i + 1) % BufLen = 0
    BY <1>1, <1>3, UartFacts
  <2> QED BY <1>1, <1>3, <2>1, UartFacts DEF Index
<1> QED BY <1>1, <1>2, <1>3, UartFacts

LEMMA UartInitInv == ASSUME UartInit PROVE UartFlow
<1>1. tx \in Buffer /\ rx \in Buffer /\ tx.in = tx.out
  BY UartFacts DEF UartInit, Buffer
<1>2. call.at = "idle"
  BY DEF UartInit, Idle
<1>3. fifo.tx = <<>> /\ fifo.rx = <<>> /\ fifo \in [tx : Seq(Number), rx : Seq(Number)]
  BY DEF UartInit
<1>4. Idle \in Call
  BY UartFacts DEF Idle, Call, Stage, Op
<1>5. Out \in Routine
  BY UartFacts DEF Out, Routine
<1>6. timeout \in 2 .. IntMax /\ host_inactive \in 0 .. IntMax - 2
  BY UartAssumption DEF UartInit
<1>7. UartTypes
  BY <1>1, <1>3, <1>4, <1>5, <1>6, UartFacts DEF UartInit, UartTypes
<1>8. Reader /\ NothingStranded
  BY <1>1, <1>2 DEF UartInit, Reader, NothingStranded
<1> QED BY <1>7, <1>8 DEF UartFlow

\* Back from a call there is nothing to keep.
LEMMA IdleFacts == /\ Idle \in Call /\ Idle.at = "idle"
                   /\ Out \in Routine /\ Out.at = "out"
BY UartFacts DEF Idle, Call, Stage, Op, Out, Routine

LEMMA RoomRange ==
  ASSUME NEW in \in Index, NEW out \in Index
  PROVE  Room(in, out) \in Index
BY UartFacts DEF Room, Index

LEMMA LeastRange ==
  ASSUME NEW a \in Nat, NEW b \in Nat
  PROVE  Least(a, b) \in Nat /\ Least(a, b) <= a /\ Least(a, b) <= b
         /\ (a > 0 /\ b > 0 => Least(a, b) > 0)
BY DEF Least

\* A new call finds the driver idle.
LEMMA BeginFlow ==
  ASSUME UartFlow, NEW op \in {"write", "read", "close"}, NEW count \in Nat,
         NEW nonblock \in BOOLEAN, op = "read" => count > 0, Begin(op, count, nonblock)
  PROVE  UartFlow'
<1> op \in Stage /\ op \in Op /\ op \notin {"take", "copy", "release", "enable", "listen"}
  BY DEF Stage, Op
<1> call' = [Idle EXCEPT !.op = op, !.at = op, !.left = count, !.nonblock = nonblock]
  BY DEF Begin
<1>1. /\ call' \in Call /\ call'.at = op /\ call'.left = count
      /\ call.at = "idle"
  BY IdleFacts DEF Begin, Call
<1>2. UartTypes'
  BY <1>1 DEF UartFlow, UartTypes, Begin
<1>3. Reader'
  BY <1>1 DEF Reader
<1>4. NothingStranded'
  BY <1>1 DEF UartFlow, NothingStranded, Begin
<1> QED BY <1>2, <1>3, <1>4 DEF UartFlow

LEMMA WriteLookFlow == ASSUME UartFlow, WriteLook PROVE UartFlow'
<1> DEFINE n == Room(tx.in, tx.out)
<1>1. n \in Index /\ n \in Nat /\ call.left \in Nat
  BY RoomRange, UartFacts DEF UartFlow, UartTypes, Buffer, Call
<1> HIDE DEF n
<1>2. Least(n, call.left) \in Index /\ Least(n, call.left) <= call.left
  <2>1. /\ Least(n, call.left) \in Nat
        /\ Least(n, call.left) <= n /\ Least(n, call.left) <= call.left
    BY <1>1, LeastRange
  <2> QED BY <1>1, <2>1, UartFacts DEF Index
<1>3. /\ call' = [call EXCEPT !.in = tx.in, !.out = tx.out, !.n = Least(n, call.left),
                              !.at = IF n = 0 THEN "kick" ELSE "copy"]
      /\ UNCHANGED <<tx, rx, irq_enable, host_inactive, timeout, fifo, AC, isr,
                     sent, heard, typed, taken>>
      /\ call.at = "write"
  BY DEF WriteLook, At, n
<1>4. call' \in Call /\ call'.at \in {"kick", "copy"}
      /\ call'.n = Least(n, call.left) /\ call'.left = call.left
  BY <1>2, <1>3 DEF UartFlow, UartTypes, Call, Stage, Buffer
<1>5. UartTypes'
  BY <1>3, <1>4 DEF UartFlow, UartTypes
<1>6. Reader'
  BY <1>2, <1>4 DEF Reader
<1>7. NothingStranded'
  BY <1>3, <1>4 DEF UartFlow, NothingStranded
<1> QED BY <1>5, <1>6, <1>7 DEF UartFlow

LEMMA WriteCopyFlow == ASSUME UartFlow, WriteCopy PROVE UartFlow'
<1>1. /\ call.n \in Nat /\ call.left \in Nat /\ call.done \in Nat /\ call.n <= call.left
      /\ call.in \in Nat /\ sent \in Nat /\ call \in Call
  BY UartFacts DEF UartFlow, UartTypes, Reader, WriteCopy, At, Call
<1>2. call' \in Call /\ call'.at = "commit"
  <2>1. call.left - call.n \in Nat /\ call.done + call.n \in Nat /\ "commit" \in Stage
    BY <1>1 DEF Stage
  <2>2. call' = [call EXCEPT !.at = "commit", !.left = call.left - call.n,
                             !.done = call.done + call.n]
    BY <1>1 DEF WriteCopy, Call
  <2> QED BY <1>1, <2>1, <2>2 DEF Call
<1>3. \A i \in call.in .. call.in + call.n - 1 : Plus(sent, i - call.in) \in Number
  BY <1>1, PlusType
<1>4. tx' \in Buffer /\ tx'.in = tx.in /\ tx'.out = tx.out
  BY <1>3 DEF WriteCopy, UartFlow, UartTypes, Buffer
<1>5. UartTypes'
  BY <1>2, <1>4 DEF UartFlow, UartTypes, WriteCopy
<1>6. Reader'
  BY <1>2 DEF Reader
<1>7. NothingStranded'
  BY <1>2 DEF UartFlow, NothingStranded, WriteCopy, At
<1> QED BY <1>5, <1>6, <1>7 DEF UartFlow

LEMMA WriteCommitFlow == ASSUME UartFlow, WriteCommit PROVE UartFlow'
<1>1. call.n \in Nat /\ call.in \in Nat /\ sent \in Nat /\ call \in Call
  BY UartFacts DEF UartFlow, UartTypes, Call
<1>2. call' \in Call /\ call'.at \in {"write", "kick"}
  BY <1>1 DEF WriteCommit, Goto, Call, Stage
<1>3. (call.in + call.n) % BufLen \in Index /\ Plus(sent, call.n) \in Number
  BY <1>1, IndexMod, PlusType
<1>4. tx' \in Buffer
  BY <1>3 DEF WriteCommit, UartFlow, UartTypes, Buffer
<1>5. UartTypes'
  BY <1>2, <1>3, <1>4 DEF UartFlow, UartTypes, WriteCommit
<1>6. Reader'
  BY <1>2 DEF Reader
<1>7. NothingStranded'
  BY <1>2 DEF UartFlow, NothingStranded, WriteCommit, At
<1> QED BY <1>5, <1>6, <1>7 DEF UartFlow

LEMMA WriteKickFlow == ASSUME UartFlow, WriteKick PROVE UartFlow'
<1>1. call' \in Call /\ call'.at \in {"wait", "idle"} /\ call.at = "kick"
  BY IdleFacts DEF WriteKick, Goto, Return, At, Call, Stage, UartFlow, UartTypes
<1>2. UartTypes'
  BY <1>1 DEF UartFlow, UartTypes, WriteKick
<1>3. Reader'
  BY <1>1 DEF Reader
<1>4. NothingStranded'
  BY <1>1 DEF UartFlow, NothingStranded, WriteKick
<1> QED BY <1>2, <1>3, <1>4 DEF UartFlow

\* A wait ends, and the driver looks again or gives up.
LEMMA WaitFlow ==
  ASSUME UartFlow, WriteWait \/ ReadWait \/ CloseWait
  PROVE  UartFlow'
<1>1. /\ call' \in Call
      /\ call'.at \in {"write", "idle"} \/ (call.at = "listen" /\ call'.at = "read" /\ call'.left = call.left)
      /\ call.at \in {"wait", "listen", "close"}
      /\ UNCHANGED <<tx, rx, irq_enable, host_inactive, timeout, fifo, AC, isr,
                     sent, heard, typed, taken>>
  <2>1. call \in Call
    BY DEF UartFlow, UartTypes
  <2>2. CASE call' = Idle
    BY <2>2, IdleFacts DEF WriteWait, ReadWait, CloseWait, At
  <2>3. ASSUME NEW stage \in {"write", "read"}, call' = [call EXCEPT !.at = stage]
        PROVE  call' \in Call /\ call'.at = stage /\ call'.left = call.left
    BY <2>1, <2>3 DEF Call, Stage
  <2> QED BY <2>2, <2>3 DEF WriteWait, ReadWait, CloseWait, Goto, Return, At
<1>2. UartTypes'
  BY <1>1 DEF UartFlow, UartTypes
<1>3. Reader'
  BY <1>1 DEF UartFlow, Reader
<1>4. NothingStranded'
  BY <1>1 DEF UartFlow, NothingStranded
<1> QED BY <1>2, <1>3, <1>4 DEF UartFlow

LEMMA ReadLookFlow == ASSUME UartFlow, ReadLook PROVE UartFlow'
<1> DEFINE n == IF rx.in >= rx.out THEN rx.in - rx.out ELSE BufLen - rx.out
<1>1. /\ rx.in \in Index /\ rx.out \in Index /\ rx.in \in Nat /\ rx.out \in Nat
      /\ call \in Call /\ call.left \in Nat /\ call.done \in Nat
      /\ call.at = "read" /\ call.left > 0
  BY UartFacts DEF UartFlow, UartTypes, Reader, Buffer, Call, ReadLook, At
<1>2. /\ n \in Nat /\ n <= BufLen - rx.out /\ n <= BufLen - 1
      /\ n = 0 => rx.in = rx.out
      /\ n > 0 => rx.in # rx.out
  BY <1>1, UartFacts DEF Index
<1>3. /\ UNCHANGED <<tx, rx, irq_enable, host_inactive, timeout, fifo, AC, isr,
                     sent, heard, typed, taken>>
      /\ IF n = 0 /\ call.done = 0 /\ call.nonblock THEN call' = Idle
         ELSE call' = [call EXCEPT
                !.in = rx.in, !.out = rx.out, !.n = Least(n, call.left),
                !.at = IF n > 0 THEN "take" ELSE IF call.done > 0 THEN "enable" ELSE "listen"]
  BY DEF ReadLook, Return
<1> HIDE DEF n
<1>4. CASE n = 0 /\ call.done = 0 /\ call.nonblock
  <2>1. call' = Idle
    BY <1>3, <1>4
  <2>2. UartTypes'
    BY <1>3, <2>1, IdleFacts DEF UartFlow, UartTypes
  <2>3. Reader'
    BY <2>1, IdleFacts DEF Reader
  <2>4. NothingStranded'
    BY <1>1, <1>2, <1>3, <1>4, <2>1, IdleFacts DEF UartFlow, NothingStranded
  <2> QED BY <2>2, <2>3, <2>4 DEF UartFlow
<1>5. CASE ~(n = 0 /\ call.done = 0 /\ call.nonblock)
  <2> DEFINE m == Least(n, call.left)
             stage == IF n > 0 THEN "take" ELSE IF call.done > 0 THEN "enable" ELSE "listen"
  <2>1. /\ m \in Nat /\ m <= n /\ m <= call.left
        /\ n > 0 => m > 0
    BY <1>1, <1>2, LeastRange
  <2>2. m \in Index
    BY <1>2, <2>1, UartFacts DEF Index
  <2>3. call' = [call EXCEPT !.in = rx.in, !.out = rx.out, !.n = m, !.at = stage]
    BY <1>3, <1>5
  <2>4. stage \in {"take", "enable", "listen"}
    OBVIOUS
  <2> HIDE DEF m, stage
  <2>5. /\ call' \in Call /\ call'.at = stage /\ call'.n = m /\ call'.out = rx.out
        /\ call'.left = call.left /\ call'.done = call.done
    BY <1>1, <2>2, <2>3, <2>4 DEF Call, Stage
  <2>6. UartTypes'
    BY <1>3, <2>5 DEF UartFlow, UartTypes
  <2>7. Reader'
    <3>1. CASE n > 0
      <4>1. m + rx.out <= BufLen
        BY <1>1, <1>2, <2>1, UartFacts
      <4> QED BY <1>1, <2>1, <2>5, <3>1, <4>1, UartFacts DEF Reader, stage
    <3>2. CASE n = 0
      BY <1>1, <2>5, <3>2 DEF Reader, stage
    <3> QED BY <1>2, <3>1, <3>2
  <2>8. NothingStranded'
    BY <1>1, <1>2, <1>3, <2>5 DEF UartFlow, NothingStranded, stage
  <2> QED BY <2>6, <2>7, <2>8 DEF UartFlow
<1> QED BY <1>4, <1>5

LEMMA ReadCopyFlow == ASSUME UartFlow, ReadCopy PROVE UartFlow'
<1>1. /\ call.n \in Nat /\ call.left \in Nat /\ call.done \in Nat /\ call.out \in Nat
      /\ call.n > 0 /\ call.n <= call.left /\ call.out + call.n <= BufLen
      /\ call \in Call /\ rx \in Buffer /\ call.at = "take"
  BY UartFacts DEF UartFlow, UartTypes, Reader, ReadCopy, At, Call
<1> DEFINE data == [i \in 1 .. call.n |-> rx.buf[call.out + i - 1]]
<1>2. data \in Seq(Number)
  <2>1. \A i \in 1 .. call.n : rx.buf[call.out + i - 1] \in Number
    BY <1>1, UartFacts DEF Buffer, Index
  <2> QED BY <1>1, <2>1
<1> HIDE DEF data
<1>3. /\ call' = [call EXCEPT !.at = "release", !.left = call.left - call.n,
                              !.done = call.done + call.n, !.data = data]
      /\ call.left - call.n \in Nat /\ call.done + call.n \in Nat /\ call.done + call.n > 0
  BY <1>1 DEF ReadCopy, Call, data
<1>4. call' \in Call /\ call'.at = "release" /\ call'.done > 0
  BY <1>1, <1>2, <1>3 DEF Call, Stage
<1>5. UartTypes'
  BY <1>4 DEF UartFlow, UartTypes, ReadCopy
<1>6. Reader'
  BY <1>4 DEF Reader
<1>7. NothingStranded'
  BY <1>1, <1>4 DEF UartFlow, NothingStranded, ReadCopy
<1> QED BY <1>5, <1>6, <1>7 DEF UartFlow

LEMMA ReadCommitFlow == ASSUME UartFlow, ReadCommit PROVE UartFlow'
<1>1. /\ call.n \in Nat /\ call.out \in Nat /\ taken \in Nat /\ call \in Call
      /\ call.left \in Nat /\ call.at = "release" /\ call.done > 0
  BY UartFacts DEF UartFlow, UartTypes, Reader, Call, ReadCommit, At
<1>2. /\ call' \in Call /\ call'.done > 0 /\ call'.left = call.left
      /\ call'.at = IF call.left > 0 THEN "read" ELSE "enable"
  <2> DEFINE stage == IF call.left > 0 THEN "read" ELSE "enable"
  <2>1. call' = [call EXCEPT !.at = stage, !.data = <<>>]
    BY DEF ReadCommit
  <2>2. stage \in Stage /\ <<>> \in Seq(Number)
    BY DEF Stage
  <2> HIDE DEF stage
  <2>3. call' \in Call /\ call'.done > 0 /\ call'.left = call.left /\ call'.at = stage
    BY <1>1, <2>1, <2>2 DEF Call
  <2> QED BY <2>3 DEF stage
<1>3. (call.out + call.n) % BufLen \in Index /\ Plus(taken, call.n) \in Number
  BY <1>1, IndexMod, PlusType
<1>4. rx' \in Buffer
  BY <1>3 DEF ReadCommit, UartFlow, UartTypes, Buffer
<1>5. UartTypes'
  BY <1>2, <1>3, <1>4 DEF UartFlow, UartTypes, ReadCommit
<1>6. Reader'
  BY <1>1, <1>2 DEF Reader
<1>7. NothingStranded'
  BY <1>1, <1>2 DEF UartFlow, NothingStranded, ReadCommit
<1> QED BY <1>5, <1>6, <1>7 DEF UartFlow

LEMMA ReadEnableFlow == ASSUME UartFlow, ReadEnable PROVE UartFlow'
<1>1. call' = Idle /\ call.at = "enable" /\ "RE" \in irq_enable'
  BY DEF ReadEnable, Return, At
<1>2. UartTypes'
  BY <1>1, IdleFacts DEF UartFlow, UartTypes, ReadEnable
<1>3. Reader'
  BY <1>1, IdleFacts DEF Reader
<1>4. NothingStranded'
  BY <1>1 DEF UartFlow, NothingStranded, ReadEnable
<1> QED BY <1>2, <1>3, <1>4 DEF UartFlow

LEMMA CallFlow == ASSUME UartFlow, CallStep PROVE UartFlow'
BY WriteLookFlow, WriteCopyFlow, WriteCommitFlow, WriteKickFlow, WaitFlow, ReadLookFlow,
   ReadCopyFlow, ReadCommitFlow, ReadEnableFlow DEF CallStep

-----------------------------------------------------------------------------
(* The interrupt routine, the alarm and the host.                          *)
LEMMA IsrLookFlow == ASSUME UartFlow, IsrLook PROVE UartFlow'
<1>1. Len(fifo.tx) \in Nat /\ Len(fifo.tx) <= Depth /\ Depth \in Nat
  BY UartFacts DEF UartFlow, UartTypes
<1>2. isr' \in Routine
  <2> DEFINE at == IF RI THEN "rx" ELSE "tx"
             space == IF WI THEN Depth - Len(fifo.tx) ELSE 0
             entry == [at |-> at, ravail |-> RI, wi |-> WI, space |-> space]
  <2>1. at \in {"out", "again", "rx", "tx"} /\ space \in 0 .. Depth
    BY <1>1
  <2>2. RI \in BOOLEAN /\ WI \in BOOLEAN
    BY DEF RI, WI
  <2>3. isr' = entry \/ isr' = Out
    BY DEF IsrLook
  <2> HIDE DEF at, space
  <2>4. entry \in Routine
    BY <2>1, <2>2, Zenon DEF Routine
  <2> HIDE DEF entry
  <2> QED BY <2>3, <2>4, IdleFacts
<1>3. UartTypes'
  BY <1>2 DEF UartFlow, UartTypes, IsrLook
<1>4. Reader' /\ NothingStranded'
  BY DEF UartFlow, Reader, NothingStranded, IsrLook
<1> QED BY <1>3, <1>4 DEF UartFlow

LEMMA IsrRxCharFlow == ASSUME UartFlow, IsrRxChar PROVE UartFlow'
<1>1. /\ fifo \in [tx : Seq(Number), rx : Seq(Number)] /\ fifo.rx # <<>>
      /\ rx \in Buffer /\ isr \in Routine /\ Len(fifo.rx) <= Depth
  BY DEF UartFlow, UartTypes, IsrRxChar
<1>2. /\ Head(fifo.rx) \in Number /\ Tail(fifo.rx) \in Seq(Number)
      /\ Len(Tail(fifo.rx)) <= Depth
  BY <1>1, UartFacts
<1>3. (rx.in + 1) % BufLen \in Index /\ (rx.in + 1) % BufLen # rx.out
  BY <1>1, NextIndex DEF IsrRxChar, Full, Buffer
<1>4. /\ rx' = [rx EXCEPT !.buf = [rx.buf EXCEPT ![rx.in] = Head(fifo.rx)],
                          !.in = (rx.in + 1) % BufLen]
      /\ fifo' = [fifo EXCEPT !.rx = Tail(fifo.rx)]
      /\ isr' = [isr EXCEPT !.ravail = Len(fifo.rx) > 1]
      /\ UNCHANGED <<tx, irq_enable, host_inactive, timeout, AC, call, sent, heard, typed, taken>>
  BY DEF IsrRxChar
<1>5. rx' \in Buffer /\ rx'.in # rx'.out
  BY <1>1, <1>2, <1>3, <1>4 DEF Buffer
<1>6. isr' \in Routine
  <2>1. (Len(fifo.rx) > 1) \in BOOLEAN
    OBVIOUS
  <2> QED BY <1>1, <1>4, <2>1, Zenon DEF Routine
<1>7. UartTypes'
  BY <1>1, <1>2, <1>4, <1>5, <1>6 DEF UartFlow, UartTypes
<1>8. Reader' /\ NothingStranded'
  BY <1>4, <1>5 DEF UartFlow, Reader, NothingStranded
<1> QED BY <1>7, <1>8 DEF UartFlow

LEMMA IsrRxEndFlow == ASSUME UartFlow, IsrRxEnd PROVE UartFlow'
<1>1. isr' \in Routine
  BY DEF UartFlow, UartTypes, IsrRxEnd, AfterRx, Routine
<1>2. Full(rx) => rx.in # rx.out
  BY NextIndex DEF UartFlow, UartTypes, Buffer, Full
<1>3. UartTypes'
  BY <1>1 DEF UartFlow, UartTypes, IsrRxEnd
<1>4. Reader' /\ NothingStranded'
  BY <1>2 DEF UartFlow, Reader, NothingStranded, IsrRxEnd
<1> QED BY <1>3, <1>4 DEF UartFlow

LEMMA IsrTxCharFlow == ASSUME UartFlow, IsrTxChar PROVE UartFlow'
<1>1. /\ fifo \in [tx : Seq(Number), rx : Seq(Number)] /\ Len(fifo.tx) <= Depth
      /\ tx \in Buffer /\ isr \in Routine /\ isr.space > 0
  BY DEF UartFlow, UartTypes, IsrTxChar
<1>2. (tx.out + 1) % BufLen \in Index /\ tx.buf[tx.out] \in Number
  BY <1>1, NextIndex DEF Buffer
<1>3. fifo' \in [tx : Seq(Number), rx : Seq(Number)] /\ Len(fifo'.tx) <= Depth /\ fifo'.rx = fifo.rx
  <2>1. CASE Len(fifo.tx) < Depth
    <3>1. fifo' = [fifo EXCEPT !.tx = Append(fifo.tx, tx.buf[tx.out])]
      BY <2>1 DEF IsrTxChar
    <3>2. /\ Append(fifo.tx, tx.buf[tx.out]) \in Seq(Number)
          /\ Len(Append(fifo.tx, tx.buf[tx.out])) = Len(fifo.tx) + 1
      BY <1>1, <1>2
    <3>3. Len(Append(fifo.tx, tx.buf[tx.out])) <= Depth
      BY <1>1, <2>1, <3>2, UartFacts
    <3> DEFINE longer == Append(fifo.tx, tx.buf[tx.out])
    <3> HIDE DEF longer
    <3>4. fifo' = [fifo EXCEPT !.tx = longer] /\ longer \in Seq(Number) /\ Len(longer) <= Depth
      BY <3>1, <3>2, <3>3 DEF longer
    <3> QED BY <1>1, <3>4
  <2>2. CASE ~(Len(fifo.tx) < Depth)
    <3>1. fifo' = fifo
      BY <1>1, <2>2 DEF IsrTxChar
    <3> QED BY <1>1, <3>1
  <2> QED BY <2>1, <2>2
<1>4. tx' \in Buffer
  BY <1>1, <1>2 DEF IsrTxChar, Buffer
<1>5. isr' \in Routine
  <2>1. isr.space - 1 \in 0 .. Depth
    BY <1>1, UartFacts DEF Routine
  <2>2. isr' = [isr EXCEPT !.space = isr.space - 1]
    BY <1>1 DEF IsrTxChar, Routine
  <2> QED BY <1>1, <2>1, <2>2 DEF Routine
<1>6. UartTypes'
  BY <1>3, <1>4, <1>5 DEF UartFlow, UartTypes, IsrTxChar
<1>7. Reader' /\ NothingStranded'
  BY DEF UartFlow, Reader, NothingStranded, IsrTxChar
<1> QED BY <1>6, <1>7 DEF UartFlow

LEMMA IsrTxEndFlow == ASSUME UartFlow, IsrTxEnd PROVE UartFlow'
<1>1. isr' \in Routine
  <2>1. isr' = [Out EXCEPT !.at = "again"]
    BY DEF IsrTxEnd
  <2> QED BY <2>1, IdleFacts DEF Routine
<1>2. UartTypes'
  BY <1>1 DEF UartFlow, UartTypes, IsrTxEnd
<1>3. Reader'
  BY DEF UartFlow, Reader, IsrTxEnd
<1>4. NothingStranded'
  BY UartFacts DEF UartFlow, UartTypes, Routine, NothingStranded, IsrTxEnd
<1> QED BY <1>2, <1>3, <1>4 DEF UartFlow

LEMMA IsrFlow == ASSUME UartFlow, Isr PROVE UartFlow'
BY IsrLookFlow, IsrRxCharFlow, IsrRxEndFlow, IsrTxCharFlow, IsrTxEndFlow DEF Isr

LEMMA SetTimeoutFlow ==
  ASSUME UartFlow, NEW t \in Nat, SetTimeout(t) PROVE UartFlow'
<1>1. timeout' \in 2 .. IntMax
  BY UartFacts DEF SetTimeout
<1>2. UartTypes'
  BY <1>1 DEF UartFlow, UartTypes, SetTimeout
<1>3. Reader' /\ NothingStranded'
  BY DEF UartFlow, Reader, NothingStranded, SetTimeout
<1> QED BY <1>2, <1>3 DEF UartFlow

LEMMA TimeoutFlow == ASSUME UartFlow, Timeout PROVE UartFlow'
<1>1. host_inactive' \in 0 .. IntMax - 2
  BY UartFacts DEF UartFlow, UartTypes, Timeout
<1>2. UartTypes'
  BY <1>1 DEF UartFlow, UartTypes, Timeout
<1>3. Reader' /\ NothingStranded'
  BY DEF UartFlow, Reader, NothingStranded, Timeout
<1> QED BY <1>2, <1>3 DEF UartFlow

LEMMA HostFlow == ASSUME UartFlow, HostPoll \/ HostType PROVE UartFlow'
<1>1. /\ fifo \in [tx : Seq(Number), rx : Seq(Number)]
      /\ Len(fifo.tx) <= Depth /\ Len(fifo.rx) <= Depth
      /\ heard \in Nat /\ typed \in Number /\ typed \in Nat
  BY UartFacts DEF UartFlow, UartTypes
<1>2. Plus(heard, 1) \in Number /\ Plus(typed, 1) \in Number
  BY <1>1, PlusType
<1>3. CASE HostPoll
  <2>1. fifo.tx # <<>> => Tail(fifo.tx) \in Seq(Number) /\ Len(Tail(fifo.tx)) <= Depth
    BY <1>1, UartFacts
  <2>2. /\ fifo' \in [tx : Seq(Number), rx : Seq(Number)] /\ heard' \in Number
        /\ Len(fifo'.tx) <= Depth /\ fifo'.rx = fifo.rx
    BY <1>1, <1>2, <1>3, <2>1 DEF HostPoll, UartFlow, UartTypes
  <2> QED BY <1>3, <2>2 DEF HostPoll, UartFlow, UartTypes, Reader, NothingStranded
<1>4. CASE HostType
  <2>1. Append(fifo.rx, typed) \in Seq(Number) /\ Len(Append(fifo.rx, typed)) = Len(fifo.rx) + 1
    BY <1>1
  <2>2. /\ fifo' \in [tx : Seq(Number), rx : Seq(Number)] /\ typed' \in Number
        /\ Len(fifo'.rx) <= Depth /\ fifo'.tx = fifo.tx
    <3> DEFINE longer == Append(fifo.rx, typed)
    <3>1. longer \in Seq(Number) /\ Len(longer) <= Depth
      BY <1>1, <1>4, <2>1, UartFacts DEF HostType
    <3>2. fifo' = [fifo EXCEPT !.rx = longer] /\ typed' = Plus(typed, 1)
      BY <1>1, <1>4 DEF HostType
    <3> HIDE DEF longer
    <3> QED BY <1>1, <1>2, <3>1, <3>2
  <2> QED BY <1>4, <2>2 DEF HostType, UartFlow, UartTypes, Reader, NothingStranded
<1> QED BY <1>3, <1>4

-----------------------------------------------------------------------------
(* Together.                                                               *)
ConsoleInv == /\ TableInv /\ UartFlow
              /\ closing \in Descriptor \cup {None}
              /\ closing \in Descriptor => booting = <<>>

LEMMA ConsoleInit == ASSUME Init PROVE ConsoleInv
<1>1. ~(None \in Descriptor)
  BY DescriptorFacts DEF None
<1> QED BY <1>1, TableInitInv, UartInitInv DEF Init, ConsoleInv

LEMMA FlowStep == ASSUME ConsoleInv, [Next]_vars PROVE UartFlow'
<1>1. CASE UNCHANGED uartVars
  BY <1>1 DEF uartVars, ConsoleInv, UartFlow, UartTypes, Reader, NothingStranded
<1>2. CASE Ioctl
  <2>1. PICK t \in 1 .. IntMax : SetTimeout(t)
    BY <1>2 DEF Ioctl
  <2> QED BY <2>1, SetTimeoutFlow, UartFacts DEF ConsoleInv
<1>3. CASE Write \/ Read \/ Close
  <2>1. PICK op \in {"write", "read", "close"}, count \in Nat, fd \in Descriptor :
          Begin(op, count, alt_fd_list[fd].nonblock) /\ (op = "read" => count > 0)
    BY <1>3, UartAssumption DEF Write, Read, Close
  <2>2. alt_fd_list[fd].nonblock \in BOOLEAN
    BY DEF ConsoleInv, TableInv, TableTypeOK
  <2> QED BY <2>1, <2>2, BeginFlow DEF ConsoleInv
<1>4. CASE Driver
  BY <1>4, CallFlow, IsrFlow, TimeoutFlow DEF Driver, ConsoleInv
<1>5. CASE Host
  BY <1>5, HostFlow DEF Host, ConsoleInv
<1> QED BY <1>1, <1>2, <1>3, <1>4, <1>5
        DEF Next, vars, FileCall, Table, CloseNull, CloseEnd

LEMMA ConsoleStep == ASSUME ConsoleInv, [Next]_vars PROVE ConsoleInv' /\ Honoured
<1>1. TableInv' /\ Honoured
  BY TableStep DEF ConsoleInv
<1>2. UartFlow'
  BY FlowStep
<1>3. closing' \in Descriptor \cup {None}
  BY DEF ConsoleInv, Next, vars, FileCall, Table, Ioctl, Write, Read, CloseNull, Close,
         CloseEnd, Driver, Host
<1>4. closing' \in Descriptor => booting' = <<>>
  <2>1. CASE closing' = closing /\ booting' = booting
    BY <2>1 DEF ConsoleInv
  <2>2. CASE closing' = None
    BY <2>2, DescriptorFacts DEF None
  <2>3. CASE Close
    BY <2>3 DEF Close, jtag, InUse, tableVars
  <2>4. CASE FileCall
    BY <2>4, DescriptorFacts DEF FileCall, Table, Calls, None
  <2> QED BY <2>1, <2>2, <2>3, <2>4
          DEF Next, vars, tableVars, Ioctl, Write, Read, CloseNull, CloseEnd, Driver, Host, Release
<1> QED BY <1>1, <1>2, <1>3, <1>4 DEF ConsoleInv

LEMMA ConsoleInvariant == Spec => []ConsoleInv
<1>1. Init => ConsoleInv
  BY ConsoleInit
<1>2. ConsoleInv /\ [Next]_vars => ConsoleInv'
  BY ConsoleStep
<1> QED BY <1>1, <1>2, PTL DEF Spec

(* The state keeps its types: descriptors are entries of the table below   *)
(* the mark, indices stay in their buffers, and the count of silent ticks  *)
(* stops below INT_MAX (altera_avalon_jtag_uart_timeout).                  *)
THEOREM ConsoleTypeCorrect == Spec => []ConsoleTypeOK
<1>1. ConsoleInv => ConsoleTypeOK
  BY UartFacts DEF ConsoleInv, ConsoleTypeOK, UartTypeOK, UartFlow, UartTypes, Buffer, Call,
                   Routine, Index, TableInv
<1> QED BY <1>1, ConsoleInvariant, PTL

(* printf reaches the JTAG UART as soon as alt_main has redirected the     *)
(* standard streams, whatever is opened, locked and closed afterwards:     *)
(* alt_release_fd leaves descriptors 0 to 2 alone.                         *)
THEOREM StandardStreamsStay == Spec => []StandardStreams
<1>1. ConsoleInv => StandardStreams
  BY DEF ConsoleInv, TableInv
<1> QED BY <1>1, ConsoleInvariant, PTL

(* A device is never locked twice, and alt_fd_lock, which does not look at *)
(* the highest descriptor, overlooks one other user of it at most.         *)
THEOREM LocksAlmostExclusive == Spec => []LockAlmostExclusive
<1>1. ConsoleInv => LockAlmostExclusive
  BY DEF ConsoleInv, TableInv
<1> QED BY <1>1, ConsoleInvariant, PTL

(* alt_open gives no descriptor for a device that is locked.               *)
THEOREM LocksAreHonoured == Spec => LockHonoured
<1>1. ConsoleInv /\ [Next]_vars => [Honoured]_alt_fd_list
  BY ConsoleStep
<1> QED BY <1>1, ConsoleInvariant, PTL DEF Spec, LockHonoured, Honoured

(* No character waits for an interrupt that was disabled: what the driver  *)
(* and its interrupt routine do between them, with the critical sections   *)
(* of altera_avalon_jtag_uart_write and _read around the register only,    *)
(* leaves an interrupt enabled or somebody who will enable it.             *)
THEOREM NothingIsStranded == Spec => []NothingStranded
<1>1. ConsoleInv => NothingStranded
  BY DEF ConsoleInv, UartFlow
<1> QED BY <1>1, ConsoleInvariant, PTL

-----------------------------------------------------------------------------
(* The characters in flight: where they are and what their numbers are.    *)
\* How far index i is ahead of index from, around the buffer.
Ahead(from, i) == IF i >= from THEN i - from ELSE i - from + BufLen

\* The buffer holds the characters from the n-th after number k on.
Ring(b, k, n) == \A i \in Index : Ahead(b.out, i) < Ahead(b.out, b.in)
                                    => b.buf[i] = Plus(k, n + Ahead(b.out, i))

\* What is sent: in the fifo, then in the buffer, then with the call.
TxStream ==
  /\ Len(fifo.tx) + isr.space <= Depth
  /\ \A i \in 1 .. Len(fifo.tx) : fifo.tx[i] = Plus(heard, i - 1)
  /\ Ring(tx, heard, Len(fifo.tx))
  /\ sent = Plus(heard, Len(fifo.tx) + Ahead(tx.out, tx.in))
  /\ call.at \in {"copy", "commit"}
       => /\ call.in = tx.in /\ call.in + call.n <= BufLen
          /\ Ahead(tx.out, tx.in) + call.n <= BufLen - 1
  /\ call.at = "commit"
       => \A i \in call.in .. call.in + call.n - 1 : tx.buf[i] = Plus(sent, i - call.in)

\* What is typed: with the call, in the buffer, then in the fifo.
RxStream ==
  /\ Ring(rx, taken, 0)
  /\ \A i \in 1 .. Len(fifo.rx) : fifo.rx[i] = Plus(taken, Ahead(rx.out, rx.in) + i - 1)
  /\ typed = Plus(taken, Ahead(rx.out, rx.in) + Len(fifo.rx))
  /\ call.at \in {"take", "release"}
       => /\ call.out = rx.out /\ call.out + call.n <= BufLen
          /\ call.n <= Ahead(rx.out, rx.in)
  /\ call.data = IF call.at = "release" THEN From(taken, call.n) ELSE <<>>

LEMMA ModWrap ==
  ASSUME NEW m \in Nat, m > 0, NEW v \in Int, -m <= v, v < 2 * m
  PROVE  v % m = IF v < 0 THEN v + m ELSE IF v >= m THEN v - m ELSE v
OBVIOUS

LEMMA ModOnce ==
  ASSUME NEW m \in Nat, m > 0, NEW v \in Nat, v < 2 * m
  PROVE  v % m = IF v < m THEN v ELSE v - m
OBVIOUS

LEMMA PlusValue ==
  ASSUME NEW k \in Number, NEW n \in Nat, n <= 2 * BufLen
  PROVE  Plus(k, n) = IF k + n < 2 * BufLen THEN k + n ELSE (k + n) - 2 * BufLen
<1>1. PICK m \in Nat : m = 2 * BufLen
  BY UartFacts
<1>2. PICK v \in Nat : v = k + n
  BY UartFacts
<1>3. m > 0 /\ v < 2 * m
  BY <1>1, <1>2, UartFacts DEF Number
<1>4. v % m = IF v < m THEN v ELSE v - m
  BY <1>3, ModOnce
<1>5. Plus(k, n) = v % m
  BY <1>1, <1>2, Zenon DEF Plus
<1>6. Plus(k, n) = IF v < m THEN v ELSE v - m
  BY <1>4, <1>5, Zenon
<1> QED BY <1>1, <1>2, <1>6

\* Numbers are counted on, as far as they go around once.
LEMMA PlusPlus ==
  ASSUME NEW k \in Number, NEW m \in Nat, NEW n \in Nat, m + n <= 2 * BufLen
  PROVE  Plus(Plus(k, m), n) = Plus(k, m + n)
<1>1. Plus(k, m) \in Number /\ m + n \in Nat /\ m <= 2 * BufLen /\ n <= 2 * BufLen
  BY PlusType, UartFacts
<1>2. /\ Plus(k, m) = IF k + m < 2 * BufLen THEN k + m ELSE (k + m) - 2 * BufLen
      /\ Plus(Plus(k, m), n) = IF Plus(k, m) + n < 2 * BufLen THEN Plus(k, m) + n
                               ELSE (Plus(k, m) + n) - 2 * BufLen
      /\ Plus(k, m + n) = IF k + (m + n) < 2 * BufLen THEN k + (m + n)
                          ELSE (k + (m + n)) - 2 * BufLen
  BY <1>1, PlusValue
<1> QED BY <1>1, <1>2, UartFacts DEF Number

\* An index that steps on, and the distance of two indices.
LEMMA IndexValue ==
  ASSUME NEW i \in Index, NEW n \in Nat, n <= BufLen
  PROVE  (i + n) % BufLen = IF i + n < BufLen THEN i + n ELSE (i + n) - BufLen
<1>1. PICK v \in Nat : v = i + n
  BY UartFacts
<1>2. BufLen \in Nat /\ BufLen > 0 /\ v < 2 * BufLen
  BY <1>1, UartFacts DEF Index
<1>3. v % BufLen = IF v < BufLen THEN v ELSE v - BufLen
  BY <1>2, ModOnce
<1> QED BY <1>1, <1>3, Zenon

LEMMA AheadValue ==
  ASSUME NEW from \in Index, NEW i \in Index
  PROVE  Ahead(from, i) \in Index /\ (i - from) % BufLen = Ahead(from, i)
<1>1. /\ BufLen \in Nat /\ BufLen > 0 /\ i - from \in Int /\ -BufLen <= i - from
      /\ i - from < 2 * BufLen /\ i - from < BufLen
  BY UartFacts DEF Index
<1>2. (i - from) % BufLen = IF i - from < 0 THEN i - from + BufLen
                            ELSE IF i - from >= BufLen THEN i - from - BufLen ELSE i - from
  BY <1>1, ModWrap, Zenon
<1>3. (i - from) % BufLen = Ahead(from, i)
  BY <1>1, <1>2, UartFacts DEF Ahead, Index
<1>4. Ahead(from, i) \in Index
  BY UartFacts DEF Ahead, Index
<1> QED BY <1>3, <1>4

\* The in index moves: the old places keep their distance, the new ones follow.
LEMMA AheadPut ==
  ASSUME NEW out \in Index, NEW in \in Index, NEW n \in Nat, in + n <= BufLen,
         Ahead(out, in) + n <= BufLen - 1
  PROVE  /\ (in + n) % BufLen \in Index
         /\ Ahead(out, (in + n) % BufLen) = Ahead(out, in) + n
         /\ \A i \in Index :
              /\ i \in in .. in + n - 1 => Ahead(out, i) = Ahead(out, in) + (i - in)
              /\ Ahead(out, i) < Ahead(out, in) + n /\ i \notin in .. in + n - 1
                   => Ahead(out, i) < Ahead(out, in)
<1>1. n <= BufLen
  BY AheadValue, UartFacts DEF Index
<1>2. (in + n) % BufLen = IF in + n < BufLen THEN in + n ELSE (in + n) - BufLen
  BY <1>1, IndexValue
<1>3. (in + n) % BufLen \in Index /\ Ahead(out, (in + n) % BufLen) = Ahead(out, in) + n
  BY <1>1, <1>2, UartFacts DEF Ahead, Index
<1>4. ASSUME NEW i \in Index
      PROVE  /\ i \in in .. in + n - 1 => Ahead(out, i) = Ahead(out, in) + (i - in)
             /\ Ahead(out, i) < Ahead(out, in) + n /\ i \notin in .. in + n - 1
                  => Ahead(out, i) < Ahead(out, in)
  BY UartFacts DEF Ahead, Index
<1> QED BY <1>3, <1>4

LEMMA PutJoins ==
  ASSUME NEW out \in Index, NEW in \in Index, NEW n \in Nat, in + n <= BufLen,
         Ahead(out, in) + n <= BufLen - 1, NEW i \in Index, i \in in .. in + n - 1
  PROVE  Ahead(out, i) = Ahead(out, in) + (i - in)
BY UartFacts DEF Ahead, Index

\* The new places held nothing.
LEMMA PutApart ==
  ASSUME NEW out \in Index, NEW in \in Index, NEW n \in Nat, in + n <= BufLen,
         Ahead(out, in) + n <= BufLen - 1, NEW i \in Index, i \in in .. in + n - 1
  PROVE  ~(Ahead(out, i) < Ahead(out, in))
BY UartFacts DEF Ahead, Index

\* The out index moves: what is left is so much nearer.
LEMMA AheadTake ==
  ASSUME NEW out \in Index, NEW in \in Index, NEW n \in Nat, out + n <= BufLen,
         n <= Ahead(out, in), NEW new, new = (out + n) % BufLen
  PROVE  /\ new \in Index /\ Ahead(new, in) = Ahead(out, in) - n
         /\ \A i \in Index : Ahead(new, i) < Ahead(new, in)
              => Ahead(out, i) = Ahead(new, i) + n /\ Ahead(out, i) < Ahead(out, in)
<1>1. n <= BufLen
  BY AheadValue, UartFacts DEF Index
<1>2. new = IF out + n < BufLen THEN out + n ELSE (out + n) - BufLen
  BY <1>1, IndexValue
<1>3. new \in Index /\ Ahead(new, in) = Ahead(out, in) - n
  BY <1>1, <1>2, UartFacts DEF Ahead, Index
<1>4. ASSUME NEW i \in Index, Ahead(new, i) < Ahead(new, in)
      PROVE  Ahead(out, i) = Ahead(new, i) + n /\ Ahead(out, i) < Ahead(out, in)
  BY <1>1, <1>2, <1>3, <1>4, UartFacts DEF Ahead, Index
<1> QED BY <1>3, <1>4

Streams == TxStream /\ RxStream

LEMMA StreamsInit == ASSUME UartInit PROVE Streams
<1>1. /\ tx.in = 0 /\ tx.out = 0 /\ rx.in = 0 /\ rx.out = 0 /\ fifo.tx = <<>> /\ fifo.rx = <<>>
      /\ call.at = "idle" /\ call.data = <<>> /\ isr.space = 0
      /\ sent = 0 /\ heard = 0 /\ typed = 0 /\ taken = 0
  BY DEF UartInit, Idle, Out
<1>2. Ahead(0, 0) = 0
  BY DEF Ahead
<1>3. Plus(0, 0) = 0
  BY PlusValue, UartFacts
<1>4. \A i \in Index : ~(Ahead(0, i) < 0)
  BY AheadValue, UartFacts DEF Index
<1>5. Ring(tx, 0, 0) /\ Ring(rx, 0, 0)
  BY <1>1, <1>2, <1>4 DEF Ring
<1>6. Len(fifo.tx) = 0 /\ Len(fifo.rx) = 0
  BY <1>1
<1>7. TxStream
  BY <1>1, <1>2, <1>3, <1>5, <1>6, UartFacts DEF TxStream
<1>8. RxStream
  BY <1>1, <1>2, <1>3, <1>5, <1>6, UartFacts DEF RxStream
<1> QED BY <1>7, <1>8 DEF Streams

\* A step that leaves the characters of one direction where they are.
LEMMA TxKept ==
  ASSUME TxStream, tx' = tx, sent' = sent, heard' = heard, fifo'.tx = fifo.tx,
         Len(fifo.tx) + isr'.space <= Depth,
         \/ call'.at \notin {"copy", "commit"}
         \/ call'.at = call.at /\ call'.in = call.in /\ call'.n = call.n
  PROVE  TxStream'
BY DEF TxStream, Ring, Plus, Ahead, Index

LEMMA RxKept ==
  ASSUME RxStream, rx' = rx, typed' = typed, taken' = taken, fifo'.rx = fifo.rx,
         \/ call'.at \notin {"take", "release"} /\ call'.data = <<>>
         \/ call'.at = call.at /\ call'.out = call.out /\ call'.n = call.n /\ call'.data = call.data
  PROVE  RxStream'
BY DEF RxStream, Ring, Plus, Ahead, Index, From

LEMMA StreamsKept ==
  ASSUME UartFlow, Streams, UNCHANGED <<tx, rx, fifo, sent, heard, typed, taken>>,
         \/ isr'.space = isr.space
         \/ isr'.space = 0
         \/ isr'.space = Depth - Len(fifo.tx),
         \/ call'.at \notin {"copy", "commit", "take", "release"} /\ call'.data = <<>>
         \/ call' = call
  PROVE  Streams'
<1>1. Len(fifo.tx) \in Nat /\ Len(fifo.tx) <= Depth /\ Depth \in Nat
  BY UartFacts DEF UartFlow, UartTypes
<1>2. Len(fifo.tx) + isr.space <= Depth
  BY DEF Streams, TxStream
<1>3. Len(fifo.tx) + isr'.space <= Depth
  BY <1>1, <1>2
<1>4. TxStream'
  BY <1>3, TxKept DEF Streams
<1>5. RxStream'
  BY RxKept DEF Streams
<1> QED BY <1>4, <1>5 DEF Streams

\* Calls that leave the buffers alone: they copy nothing, or are over.
LEMMA NoData ==
  ASSUME Streams, call.at # "release" PROVE call.data = <<>>
BY DEF Streams, RxStream

LEMMA BeginStreams ==
  ASSUME UartFlow, Streams, NEW op \in {"write", "read", "close"}, NEW count \in Nat,
         NEW nonblock \in BOOLEAN, Begin(op, count, nonblock)
  PROVE  Streams'
<1>1. call'.at = op /\ call'.data = <<>>
  BY DEF Begin, Idle
<1>2. op \notin {"copy", "commit", "take", "release"}
  OBVIOUS
<1> QED BY <1>1, <1>2, StreamsKept DEF Begin

\* The steps that only choose where a call goes on.
LEMMA CallMoves ==
  ASSUME UartFlow, Streams, WriteKick \/ WriteWait \/ ReadWait \/ ReadEnable \/ CloseWait
  PROVE  Streams'
<1>1. call.at \in {"kick", "wait", "listen", "enable", "close"}
  BY DEF WriteKick, WriteWait, ReadWait, ReadEnable, CloseWait, At
<1>2. call.data = <<>> /\ call \in Call
  BY <1>1, NoData DEF UartFlow, UartTypes
<1>3. /\ call' = Idle \/ \E stage \in {"wait", "write", "read"} : Goto(stage)
      /\ UNCHANGED <<tx, rx, fifo, isr, sent, heard, typed, taken>>
  BY DEF WriteKick, WriteWait, ReadWait, ReadEnable, CloseWait, Return
<1>4. call'.at \notin {"copy", "commit", "take", "release"} /\ call'.data = <<>>
  BY <1>2, <1>3 DEF Goto, Idle, Call
<1> QED BY <1>3, <1>4, StreamsKept

\* The room that write finds is in one piece, and one place stays free.
LEMMA RoomFits ==
  ASSUME NEW in \in Index, NEW out \in Index
  PROVE  /\ Room(in, out) \in Nat /\ in + Room(in, out) <= BufLen
         /\ Ahead(out, in) + Room(in, out) <= BufLen - 1
BY UartFacts DEF Room, Ahead, Index

LEMMA WriteLookStreams == ASSUME UartFlow, Streams, WriteLook PROVE Streams'
<1> DEFINE n == Room(tx.in, tx.out)
<1>1. /\ tx.in \in Index /\ tx.out \in Index /\ call \in Call /\ call.left \in Nat
      /\ call.at = "write" /\ call.data = <<>>
  BY NoData DEF UartFlow, UartTypes, Buffer, Call, WriteLook, At
<1>2. /\ n \in Nat /\ tx.in + n <= BufLen /\ Ahead(tx.out, tx.in) + n <= BufLen - 1
  BY <1>1, RoomFits
<1> HIDE DEF n
<1>3. Least(n, call.left) \in Nat /\ Least(n, call.left) <= n
  BY <1>1, <1>2, LeastRange
<1>4. /\ call' = [call EXCEPT !.in = tx.in, !.out = tx.out, !.n = Least(n, call.left),
                              !.at = IF n = 0 THEN "kick" ELSE "copy"]
      /\ UNCHANGED <<tx, rx, fifo, isr, sent, heard, typed, taken>>
  BY DEF WriteLook, n
<1>5. /\ call'.at \in {"kick", "copy"} /\ call'.data = <<>>
      /\ call'.in = tx.in /\ call'.n = Least(n, call.left)
  BY <1>1, <1>4 DEF Call
<1>6. RxStream'
  BY <1>4, <1>5, RxKept DEF Streams
<1>7. Ahead(tx.out, tx.in) \in Nat /\ Ahead(tx.out, tx.in) + call'.n <= BufLen - 1
      /\ call'.in + call'.n <= BufLen
  <2>1. Ahead(tx.out, tx.in) \in Nat /\ tx.in \in Nat
    BY <1>1, AheadValue, UartFacts
  <2> QED BY <1>2, <1>3, <1>5, <2>1, UartFacts
<1>8. TxStream'
  <2>1. Ring(tx, heard, Len(fifo.tx))'
    BY <1>4 DEF Streams, TxStream, Ring, Plus, Ahead, Index
  <2>2. sent' = Plus(heard', Len(fifo'.tx) + Ahead(tx'.out, tx'.in))
    BY <1>4 DEF Streams, TxStream
  <2>3. /\ Len(fifo'.tx) + isr'.space <= Depth
        /\ \A i \in 1 .. Len(fifo'.tx) : fifo'.tx[i] = Plus(heard', i - 1)
    BY <1>4 DEF Streams, TxStream
  <2> QED BY <1>4, <1>5, <1>7, <2>1, <2>2, <2>3 DEF TxStream
<1> QED BY <1>6, <1>8 DEF Streams

LEMMA WriteCopyStreams == ASSUME UartFlow, Streams, WriteCopy PROVE Streams'
<1>1. /\ tx \in Buffer /\ tx.in \in Index /\ tx.out \in Index /\ call \in Call
      /\ call.n \in Nat /\ call.in \in Nat
      /\ call.at = "copy" /\ call.data = <<>>
  BY NoData, UartFacts DEF UartFlow, UartTypes, Buffer, Call, WriteCopy, At
<1>2. call.in = tx.in /\ call.in + call.n <= BufLen /\ Ahead(tx.out, tx.in) + call.n <= BufLen - 1
  BY <1>1 DEF Streams, TxStream
<1>3. /\ call'.at = "commit" /\ call'.data = <<>> /\ call'.in = call.in /\ call'.n = call.n
      /\ UNCHANGED <<rx, fifo, isr, sent, heard, typed, taken>>
  BY <1>1 DEF WriteCopy, Call
<1>4. /\ tx'.in = tx.in /\ tx'.out = tx.out
      /\ \A i \in Index : tx'.buf[i] = IF i \in call.in .. call.in + call.n - 1
                                       THEN Plus(sent, i - call.in) ELSE tx.buf[i]
  BY <1>1 DEF WriteCopy, Buffer
<1>5. RxStream'
  BY <1>3, RxKept DEF Streams
<1>6. \A i \in Index : Ahead(tx.out, i) < Ahead(tx.out, tx.in)
                         => i \notin call.in .. call.in + call.n - 1
  BY <1>1, <1>2, PutApart
<1>7. Ring(tx, heard, Len(fifo.tx))
  BY DEF Streams, TxStream
<1>8. \A i \in Index : Ahead(tx'.out, i) < Ahead(tx'.out, tx'.in)
        => tx'.buf[i] = Plus(heard', Len(fifo'.tx) + Ahead(tx'.out, i))
  BY <1>3, <1>4, <1>6, <1>7 DEF Ring
<1>9. \A i \in call'.in .. call'.in + call'.n - 1 : tx'.buf[i] = Plus(sent', i - call'.in)
  <2>1. \A i \in call.in .. call.in + call.n - 1 : i \in Index
    BY <1>1, <1>2, UartFacts DEF Index
  <2> QED BY <1>3, <1>4, <2>1
<1>10. sent' = Plus(heard', Len(fifo'.tx) + Ahead(tx'.out, tx'.in))
  BY <1>3, <1>4 DEF Streams, TxStream
<1>11. /\ Len(fifo'.tx) + isr'.space <= Depth
       /\ \A i \in 1 .. Len(fifo'.tx) : fifo'.tx[i] = Plus(heard', i - 1)
  BY <1>3 DEF Streams, TxStream
<1>12. TxStream'
  BY <1>2, <1>3, <1>4, <1>8, <1>9, <1>10, <1>11 DEF TxStream, Ring
<1> QED BY <1>5, <1>12 DEF Streams

\* Sizes: what is in flight goes around the numbers less than once.
LEMMA Sizes ==
  ASSUME UartFlow
  PROVE  /\ tx \in Buffer /\ tx.in \in Index /\ tx.out \in Index
         /\ rx \in Buffer /\ rx.in \in Index /\ rx.out \in Index
         /\ fifo.tx \in Seq(Number) /\ fifo.rx \in Seq(Number)
         /\ fifo \in [tx : Seq(Number), rx : Seq(Number)]
         /\ Len(fifo.tx) \in Nat /\ Len(fifo.rx) \in Nat
         /\ Len(fifo.tx) <= BufLen /\ Len(fifo.rx) <= BufLen
         /\ Ahead(tx.out, tx.in) \in Nat /\ Ahead(tx.out, tx.in) <= BufLen - 1
         /\ Ahead(rx.out, rx.in) \in Nat /\ Ahead(rx.out, rx.in) <= BufLen - 1
         /\ heard \in Number /\ sent \in Number /\ taken \in Number /\ typed \in Number
         /\ call \in Call /\ call.n \in Nat /\ call.left \in Nat
         /\ isr \in Routine /\ isr.space \in Nat
<1>1. /\ tx \in Buffer /\ tx.in \in Index /\ tx.out \in Index
      /\ rx \in Buffer /\ rx.in \in Index /\ rx.out \in Index
      /\ fifo.tx \in Seq(Number) /\ fifo.rx \in Seq(Number)
      /\ fifo \in [tx : Seq(Number), rx : Seq(Number)]
      /\ heard \in Number /\ sent \in Number /\ taken \in Number /\ typed \in Number
      /\ call \in Call /\ call.n \in Nat /\ call.left \in Nat
      /\ isr \in Routine /\ isr.space \in Nat
  <2>1. /\ tx \in Buffer /\ rx \in Buffer /\ call \in Call /\ isr \in Routine
        /\ fifo \in [tx : Seq(Number), rx : Seq(Number)]
        /\ heard \in Number /\ sent \in Number /\ taken \in Number /\ typed \in Number
    BY DEF UartFlow, UartTypes
  <2>2. /\ tx.in \in Index /\ tx.out \in Index /\ rx.in \in Index /\ rx.out \in Index
        /\ fifo.tx \in Seq(Number) /\ fifo.rx \in Seq(Number)
    BY <2>1 DEF Buffer
  <2>3. call.n \in Nat /\ call.left \in Nat /\ isr.space \in Nat
    <3>1. call.n \in Index /\ call.left \in Nat /\ isr.space \in 0 .. Depth
      BY <2>1 DEF Call, Routine
    <3>2. call.n \in Nat
      BY <3>1, UartFacts
    <3>3. isr.space \in Nat
      BY <3>1
    <3> QED BY <3>1, <3>2, <3>3
  <2> QED BY <2>1, <2>2, <2>3
<1>2. Ahead(tx.out, tx.in) \in Index /\ Ahead(rx.out, rx.in) \in Index
  BY <1>1, AheadValue
<1>3. \A i \in Index : i \in Nat /\ i <= BufLen - 1
  BY UartFacts DEF Index
<1>4. Len(fifo.tx) \in Nat /\ Len(fifo.rx) \in Nat /\ Depth <= BufLen
      /\ Len(fifo.tx) <= Depth /\ Len(fifo.rx) <= Depth
  BY <1>1, UartAssumption DEF UartFlow, UartTypes
<1>5. Len(fifo.tx) <= BufLen /\ Len(fifo.rx) <= BufLen
  BY <1>4, UartFacts
<1> QED BY <1>1, <1>2, <1>3, <1>4, <1>5

\* What the call has copied behind the characters in the buffer joins them.
LEMMA RingPut ==
  ASSUME NEW b, NEW c, NEW k \in Number, NEW m \in Nat, NEW n \in Nat,
         b.in \in Index, b.out \in Index, m <= BufLen, b.in + n <= BufLen,
         Ahead(b.out, b.in) + n <= BufLen - 1,
         Ring(b, k, m), c.out = b.out, c.in = (b.in + n) % BufLen,
         \A i \in Index : c.buf[i] = IF i \in b.in .. b.in + n - 1
                                     THEN Plus(Plus(k, m + Ahead(b.out, b.in)), i - b.in)
                                     ELSE b.buf[i]
  PROVE  Ring(c, k, m)
<1> DEFINE a == Ahead(b.out, b.in)
<1>1. a \in Nat
  BY AheadValue, UartFacts
<1>2. Ahead(c.out, c.in) = a + n
  BY AheadPut
<1> SUFFICES ASSUME NEW i \in Index, Ahead(c.out, i) < a + n
             PROVE  c.buf[i] = Plus(k, m + Ahead(c.out, i))
  BY <1>2 DEF Ring
<1>3. CASE i \in b.in .. b.in + n - 1
  <2>1. Ahead(b.out, i) = a + (i - b.in)
    BY <1>3, PutJoins
  <2> HIDE DEF a
  <2>2. PICK j \in Nat : j = i - b.in /\ j < n
    <3>1. i \in Nat /\ b.in \in Nat
      BY UartFacts
    <3>2. i - b.in \in Nat /\ i - b.in < n
      BY <1>3, <3>1
    <3> QED BY <3>2
  <2>3. c.buf[i] = Plus(Plus(k, m + a), j)
    BY <1>3, <2>2 DEF a
  <2>4. m + a \in Nat /\ (m + a) + j <= 2 * BufLen /\ (m + a) + j = m + (a + j)
    <3>1. a + n <= BufLen - 1
      BY DEF a
    <3> QED BY <1>1, <2>2, <3>1, UartFacts
  <2>5. Plus(Plus(k, m + a), j) = Plus(k, (m + a) + j)
    BY <2>4, PlusPlus
  <2> QED BY <2>1, <2>2, <2>3, <2>4, <2>5
<1>4. CASE i \notin b.in .. b.in + n - 1
  <2>1. Ahead(b.out, i) < a
    BY <1>4, AheadPut
  <2> QED BY <1>4, <2>1 DEF Ring
<1> QED BY <1>3, <1>4

LEMMA RingPutOne ==
  ASSUME NEW b, NEW c, NEW k \in Number,
         b.in \in Index, b.out \in Index, b.in + 1 <= BufLen,
         Ahead(b.out, b.in) + 1 <= BufLen - 1,
         Ring(b, k, 0), c.out = b.out, c.in = (b.in + 1) % BufLen,
         \A i \in Index : c.buf[i] = IF i = b.in THEN Plus(k, Ahead(b.out, b.in)) ELSE b.buf[i]
  PROVE  Ring(c, k, 0)
<1>1. PICK n \in Nat : n = 1
  OBVIOUS
<1>2. PICK m \in Nat : m = 0
  OBVIOUS
<1>3. PICK a \in Nat : a = Ahead(b.out, b.in) /\ a <= BufLen
  <2>1. Ahead(b.out, b.in) \in Index
    BY AheadValue
  <2> QED BY <2>1, UartFacts DEF Index
<1>4. Plus(Plus(k, m + a), 0) = Plus(k, a)
  <2>1. m + a = a /\ a + 0 = a /\ a + 0 <= 2 * BufLen
    BY <1>2, <1>3, UartFacts
  <2> QED BY <2>1, PlusPlus
<1>5. \A i \in Index : c.buf[i] = IF i \in b.in .. b.in + n - 1
                                  THEN Plus(Plus(k, m + Ahead(b.out, b.in)), i - b.in)
                                  ELSE b.buf[i]
  <2> SUFFICES ASSUME NEW i \in Index
               PROVE  c.buf[i] = IF i \in b.in .. b.in + n - 1
                                 THEN Plus(Plus(k, m + a), i - b.in) ELSE b.buf[i]
    BY <1>3
  <2>1. i \in Nat /\ b.in \in Nat
    BY UartFacts
  <2>2. (i \in b.in .. b.in + n - 1) = (i = b.in)
    BY <1>1, <2>1
  <2>3. i = b.in => i - b.in = 0
    BY <2>1
  <2> QED BY <1>3, <1>4, <2>2, <2>3
<1>6. m <= BufLen /\ b.in + n <= BufLen /\ Ahead(b.out, b.in) + n <= BufLen - 1
  BY <1>1, <1>2, UartFacts
<1>7. Ring(b, k, m) /\ c.in = (b.in + n) % BufLen
  BY <1>1, <1>2
<1>8. Ring(c, k, m)
  BY <1>5, <1>6, <1>7, RingPut
<1> QED BY <1>2, <1>8

\* Characters leave at the front: the count starts behind them.
LEMMA RingTake ==
  ASSUME NEW b, NEW c, NEW k \in Number, NEW m \in Nat, NEW n \in Nat,
         b.in \in Index, b.out \in Index, b.out + n <= BufLen, n <= Ahead(b.out, b.in),
         Ring(b, k, m), c.in = b.in, c.out = (b.out + n) % BufLen, c.buf = b.buf
  PROVE  Ring(c, k, m + n)
<1>1. Ahead(c.out, c.in) = Ahead(b.out, b.in) - n
  BY AheadTake
<1> SUFFICES ASSUME NEW i \in Index, Ahead(c.out, i) < Ahead(c.out, c.in)
             PROVE  c.buf[i] = Plus(k, (m + n) + Ahead(c.out, i))
  BY DEF Ring
<1>2. Ahead(b.out, i) = Ahead(c.out, i) + n /\ Ahead(b.out, i) < Ahead(b.out, b.in)
  BY AheadTake
<1>3. c.buf[i] = Plus(k, m + Ahead(b.out, i))
  BY <1>2 DEF Ring
<1>4. Ahead(c.out, i) \in Nat
  <2>1. c.out \in Index
    BY AheadTake
  <2> QED BY <2>1, AheadValue, UartFacts
<1>5. m + Ahead(b.out, i) = (m + n) + Ahead(c.out, i)
  BY <1>2, <1>4
<1> QED BY <1>3, <1>5

\* The same characters, counted from a later number.
LEMMA RingFrom ==
  ASSUME NEW b, NEW k \in Number, NEW m \in Nat, NEW n \in Nat, m + n <= BufLen,
         b.out \in Index, Ring(b, k, m + n)
  PROVE  Ring(b, Plus(k, m), n)
<1> SUFFICES ASSUME NEW i \in Index, Ahead(b.out, i) < Ahead(b.out, b.in)
             PROVE  b.buf[i] = Plus(Plus(k, m), n + Ahead(b.out, i))
  BY DEF Ring
<1>1. Ahead(b.out, i) \in Nat /\ Ahead(b.out, i) <= BufLen
  <2>1. Ahead(b.out, i) \in Index
    BY AheadValue
  <2> QED BY <2>1, UartFacts DEF Index
<1>2. b.buf[i] = Plus(k, (m + n) + Ahead(b.out, i))
  BY DEF Ring
<1>3. /\ n + Ahead(b.out, i) \in Nat /\ m + (n + Ahead(b.out, i)) <= 2 * BufLen
      /\ m + (n + Ahead(b.out, i)) = (m + n) + Ahead(b.out, i)
  BY <1>1, UartFacts
<1>4. Plus(Plus(k, m), n + Ahead(b.out, i)) = Plus(k, m + (n + Ahead(b.out, i)))
  BY <1>3, PlusPlus
<1> QED BY <1>2, <1>3, <1>4

LEMMA WriteCommitStreams == ASSUME UartFlow, Streams, WriteCommit PROVE Streams'
<1>1. /\ call \in Call /\ call.n \in Nat /\ call.at = "commit" /\ call.data = <<>>
      /\ tx \in Buffer /\ tx.in \in Index /\ tx.out \in Index /\ heard \in Number
  BY Sizes, NoData DEF WriteCommit, At
<1> DEFINE m == Len(fifo.tx)
           a == Ahead(tx.out, tx.in)
<1>2. /\ m \in Nat /\ m <= BufLen /\ a \in Nat
  BY Sizes
<1>3. /\ call.in = tx.in /\ tx.in + call.n <= BufLen /\ a + call.n <= BufLen - 1
      /\ \A i \in tx.in .. tx.in + call.n - 1 : tx.buf[i] = Plus(sent, i - tx.in)
      /\ Ring(tx, heard, m) /\ sent = Plus(heard, m + a)
  BY <1>1 DEF Streams, TxStream
<1>4. /\ call'.at \in {"write", "kick"} /\ call'.data = <<>>
      /\ UNCHANGED <<rx, fifo, isr, heard, typed, taken>>
  BY <1>1 DEF WriteCommit, Goto, Call
<1>5. tx'.buf = tx.buf /\ tx'.out = tx.out /\ tx'.in = (tx.in + call.n) % BufLen
  BY <1>1, <1>3 DEF WriteCommit, Buffer
<1>6. RxStream'
  BY <1>4, RxKept DEF Streams
<1>7. \A i \in Index : tx'.buf[i] = IF i \in tx.in .. tx.in + call.n - 1
                                    THEN Plus(Plus(heard, m + a), i - tx.in) ELSE tx.buf[i]
  BY <1>3, <1>5
<1>8. Ring(tx', heard, m)
  BY <1>1, <1>2, <1>3, <1>5, <1>7, RingPut
<1>9. Ahead(tx'.out, tx'.in) = a + call.n
  BY <1>1, <1>3, <1>5, AheadPut
<1>10. sent' = Plus(heard, m + (a + call.n))
  <2>1. sent' = Plus(Plus(heard, m + a), call.n)
    BY <1>3 DEF WriteCommit
  <2> HIDE DEF m, a
  <2>2. m + a \in Nat /\ (m + a) + call.n <= 2 * BufLen /\ (m + a) + call.n = m + (a + call.n)
    BY <1>1, <1>2, <1>3, UartFacts
  <2>3. Plus(Plus(heard, m + a), call.n) = Plus(heard, (m + a) + call.n)
    BY <1>1, <2>2, PlusPlus
  <2> QED BY <2>1, <2>2, <2>3
<1>11. /\ Len(fifo'.tx) + isr'.space <= Depth
       /\ \A i \in 1 .. Len(fifo'.tx) : fifo'.tx[i] = Plus(heard', i - 1)
  BY <1>4 DEF Streams, TxStream
<1>12. /\ Ring(tx, heard, Len(fifo.tx))'
       /\ sent' = Plus(heard', Len(fifo'.tx) + Ahead(tx'.out, tx'.in))
  BY <1>4, <1>8, <1>9, <1>10 DEF Ring, Plus, Ahead, Index
<1>13. TxStream'
  BY <1>4, <1>11, <1>12 DEF TxStream
<1> QED BY <1>6, <1>13 DEF Streams

\* The piece that read finds is in the buffer.
LEMMA PieceFits ==
  ASSUME NEW in \in Index, NEW out \in Index, NEW n,
         n = IF in >= out THEN in - out ELSE BufLen - out
  PROVE  n \in Nat /\ out + n <= BufLen /\ n <= Ahead(out, in)
BY UartFacts DEF Ahead, Index

LEMMA ReadLookStreams == ASSUME UartFlow, Streams, ReadLook PROVE Streams'
<1> DEFINE n == IF rx.in >= rx.out THEN rx.in - rx.out ELSE BufLen - rx.out
<1>1. /\ rx.in \in Index /\ rx.out \in Index /\ call \in Call /\ call.left \in Nat
      /\ call.at = "read" /\ call.data = <<>>
      /\ UNCHANGED <<tx, rx, fifo, isr, sent, heard, typed, taken>>
  BY Sizes, NoData DEF ReadLook, At
<1>2. n \in Nat /\ rx.out + n <= BufLen /\ n <= Ahead(rx.out, rx.in)
  BY <1>1, PieceFits
<1>3. CASE n = 0 /\ call.done = 0 /\ call.nonblock
  <2>1. call' = Idle
    BY <1>3 DEF ReadLook, Return
  <2>2. call'.at \notin {"copy", "commit", "take", "release"} /\ call'.data = <<>>
    BY <2>1 DEF Idle
  <2> QED BY <1>1, <2>2, StreamsKept
<1>4. CASE ~(n = 0 /\ call.done = 0 /\ call.nonblock)
  <2> DEFINE stage == IF n > 0 THEN "take" ELSE IF call.done > 0 THEN "enable" ELSE "listen"
  <2>1. call' = [call EXCEPT !.in = rx.in, !.out = rx.out, !.n = Least(n, call.left), !.at = stage]
    BY <1>4 DEF ReadLook
  <2>2. stage \in {"take", "enable", "listen"}
    OBVIOUS
  <2> HIDE DEF stage, n
  <2>3. Least(n, call.left) \in Nat /\ Least(n, call.left) <= n
    BY <1>1, <1>2, LeastRange
  <2>4. /\ call'.at \in {"take", "enable", "listen"} /\ call'.data = <<>>
        /\ call'.out = rx.out /\ call'.n = Least(n, call.left)
    BY <1>1, <2>1, <2>2 DEF Call
  <2>5. TxStream'
    <3>1. Len(fifo.tx) + isr'.space <= Depth
      BY <1>1 DEF Streams, TxStream
    <3> QED BY <1>1, <2>4, <3>1, TxKept DEF Streams
  <2>6. rx.out + call'.n <= BufLen /\ call'.n <= Ahead(rx.out, rx.in)
    <3>1. rx.out \in Nat /\ Ahead(rx.out, rx.in) \in Nat
      BY <1>1, AheadValue, UartFacts
    <3> QED BY <1>2, <2>3, <2>4, <3>1, UartFacts
  <2>7. RxStream'
    <3>1. Ring(rx, taken, 0)'
      BY <1>1 DEF Streams, RxStream, Ring, Plus, Ahead, Index
    <3>2. /\ \A i \in 1 .. Len(fifo'.rx) :
               fifo'.rx[i] = Plus(taken', Ahead(rx'.out, rx'.in) + i - 1)
          /\ typed' = Plus(taken', Ahead(rx'.out, rx'.in) + Len(fifo'.rx))
      BY <1>1 DEF Streams, RxStream
    <3> QED BY <1>1, <2>4, <2>6, <3>1, <3>2 DEF RxStream
  <2> QED BY <2>5, <2>7 DEF Streams
<1> QED BY <1>3, <1>4

LEMMA ReadCopyStreams == ASSUME UartFlow, Streams, ReadCopy PROVE Streams'
<1>1. /\ call \in Call /\ call.n \in Nat /\ call.at = "take" /\ rx \in Buffer
      /\ rx.in \in Index /\ rx.out \in Index
      /\ UNCHANGED <<tx, rx, fifo, isr, sent, heard, typed, taken>>
  BY Sizes DEF ReadCopy, At
<1>2. /\ call.out = rx.out /\ rx.out + call.n <= BufLen /\ call.n <= Ahead(rx.out, rx.in)
      /\ Ring(rx, taken, 0)
  BY <1>1 DEF Streams, RxStream
<1> DEFINE data == [i \in 1 .. call.n |-> rx.buf[call.out + i - 1]]
<1>3. call'.at = "release" /\ call'.out = call.out /\ call'.n = call.n /\ call'.data = data
  BY <1>1 DEF ReadCopy, Call
<1>4. data = From(taken, call.n)
  <2>1. ASSUME NEW i \in 1 .. call.n PROVE rx.buf[call.out + i - 1] = Plus(taken, i - 1)
    <3>1. call.out + i - 1 = rx.out + (i - 1) /\ i - 1 \in Nat /\ i - 1 < call.n
      BY <1>1, <1>2, UartFacts
    <3>2. rx.out + (i - 1) \in Index /\ Ahead(rx.out, rx.out + (i - 1)) = i - 1
      BY <1>1, <1>2, <3>1, UartFacts DEF Index, Ahead
    <3>3. i - 1 < Ahead(rx.out, rx.in)
      <4>1. Ahead(rx.out, rx.in) \in Nat
        BY <1>1, AheadValue, UartFacts
      <4> QED BY <1>1, <1>2, <3>1, <4>1
    <3>4. rx.buf[rx.out + (i - 1)] = Plus(taken, 0 + (i - 1))
      BY <1>2, <3>2, <3>3 DEF Ring
    <3> QED BY <3>1, <3>4
  <2> QED BY <2>1 DEF From
<1>5. TxStream'
  <2>1. Len(fifo.tx) + isr'.space <= Depth
    BY <1>1 DEF Streams, TxStream
  <2> QED BY <1>1, <1>3, <2>1, TxKept DEF Streams
<1>6. RxStream'
  <2>1. Ring(rx, taken, 0)'
    BY <1>1, <1>2 DEF Ring, Plus, Ahead, Index
  <2>2. /\ \A i \in 1 .. Len(fifo'.rx) :
             fifo'.rx[i] = Plus(taken', Ahead(rx'.out, rx'.in) + i - 1)
        /\ typed' = Plus(taken', Ahead(rx'.out, rx'.in) + Len(fifo'.rx))
    BY <1>1 DEF Streams, RxStream
  <2>3. call'.data = From(taken', call'.n)
    BY <1>1, <1>3, <1>4 DEF From
  <2> QED BY <1>1, <1>2, <1>3, <2>1, <2>2, <2>3 DEF RxStream
<1> QED BY <1>5, <1>6 DEF Streams

LEMMA ReadCommitStreams == ASSUME UartFlow, Streams, ReadCommit PROVE Streams'
<1>1. /\ call \in Call /\ call.n \in Nat /\ call.at = "release" /\ rx \in Buffer
      /\ rx.in \in Index /\ rx.out \in Index /\ taken \in Number
      /\ UNCHANGED <<tx, fifo, isr, sent, heard, typed>>
  BY Sizes DEF ReadCommit, At
<1> DEFINE m == Len(fifo.rx)
           a == Ahead(rx.out, rx.in)
           n == call.n
<1>2. m \in Nat /\ m <= BufLen /\ a \in Nat /\ a <= BufLen - 1 /\ n \in Nat
  BY Sizes
<1>3. /\ call.out = rx.out /\ rx.out + n <= BufLen /\ n <= a
      /\ Ring(rx, taken, 0) /\ typed = Plus(taken, a + m)
      /\ \A i \in 1 .. m : fifo.rx[i] = Plus(taken, a + i - 1)
  BY <1>1 DEF Streams, RxStream
<1>4. call'.at \in {"read", "enable"} /\ call'.data = <<>>
  BY <1>1 DEF ReadCommit, Call
<1>5. /\ rx'.buf = rx.buf /\ rx'.in = rx.in /\ rx'.out = (rx.out + n) % BufLen
      /\ taken' = Plus(taken, n)
  BY <1>1, <1>3 DEF ReadCommit, Buffer
<1>6. TxStream'
  <2>1. Len(fifo.tx) + isr'.space <= Depth
    BY <1>1 DEF Streams, TxStream
  <2> QED BY <1>1, <1>4, <2>1, TxKept DEF Streams
<1>7. Ahead(rx'.out, rx'.in) = a - n /\ rx'.out \in Index
  BY <1>1, <1>2, <1>3, <1>5, AheadTake
<1>8. Ring(rx', Plus(taken, n), 0)
  <2>1. Ring(rx', taken, 0 + n)
    BY <1>1, <1>2, <1>3, <1>5, RingTake
  <2>2. n + 0 <= BufLen /\ 0 + n = n + 0
    BY <1>2, <1>3, UartFacts
  <2> QED BY <1>1, <1>2, <1>7, <2>1, <2>2, RingFrom
<1> HIDE DEF m, a, n
<1>9. \A j \in Nat : n + j <= 2 * BufLen => Plus(Plus(taken, n), j) = Plus(taken, n + j)
  BY <1>1, <1>2, PlusPlus
<1>10. typed = Plus(Plus(taken, n), (a - n) + m)
  <2>1. (a - n) + m \in Nat /\ n + ((a - n) + m) <= 2 * BufLen /\ n + ((a - n) + m) = a + m
    BY <1>2, <1>3, UartFacts
  <2> QED BY <1>3, <1>9, <2>1
<1>11. \A i \in 1 .. m : fifo.rx[i] = Plus(Plus(taken, n), (a - n) + i - 1)
  <2> SUFFICES ASSUME NEW i \in 1 .. m PROVE fifo.rx[i] = Plus(Plus(taken, n), (a - n) + i - 1)
    OBVIOUS
  <2>1. /\ (a - n) + i - 1 \in Nat /\ n + ((a - n) + i - 1) <= 2 * BufLen
        /\ n + ((a - n) + i - 1) = a + i - 1
    BY <1>2, <1>3, UartFacts
  <2> QED BY <1>3, <1>9, <2>1
<1>12. RxStream'
  <2>1. Ring(rx, taken, 0)'
    BY <1>5, <1>8 DEF Ring, Plus, Ahead, Index
  <2>2. /\ \A i \in 1 .. Len(fifo'.rx) :
             fifo'.rx[i] = Plus(taken', Ahead(rx'.out, rx'.in) + i - 1)
        /\ typed' = Plus(taken', Ahead(rx'.out, rx'.in) + Len(fifo'.rx))
    BY <1>1, <1>5, <1>7, <1>10, <1>11 DEF m
  <2> QED BY <1>4, <2>1, <2>2 DEF RxStream
<1> QED BY <1>6, <1>12 DEF Streams

\* The interrupt routine.
LEMMA IsrMoves == ASSUME UartFlow, Streams, IsrLook \/ IsrRxEnd \/ IsrTxEnd PROVE Streams'
<1>1. call' = call /\ UNCHANGED <<tx, rx, fifo, sent, heard, typed, taken>>
  BY DEF IsrLook, IsrRxEnd, IsrTxEnd
<1>2. \/ isr'.space = isr.space \/ isr'.space = 0 \/ isr'.space = Depth - Len(fifo.tx)
  <2>1. CASE IsrLook
    BY <2>1 DEF IsrLook, Out
  <2>2. CASE IsrRxEnd
    <3>1. isr \in Routine
      BY Sizes
    <3> QED BY <2>2, <3>1 DEF IsrRxEnd, AfterRx, Routine
  <2>3. CASE IsrTxEnd
    BY <2>3 DEF IsrTxEnd, Out
  <2> QED BY <2>1, <2>2, <2>3
<1> QED BY <1>1, <1>2, StreamsKept

LEMMA NotAlone ==
  ASSUME NEW in \in Index, NEW out \in Index, in # out
  PROVE  out + 1 <= BufLen /\ 1 <= Ahead(out, in) /\ Ahead(out, out) = 0
BY UartFacts DEF Ahead, Index

LEMMA NotFull ==
  ASSUME NEW in \in Index, NEW out \in Index, (in + 1) % BufLen # out
  PROVE  in + 1 <= BufLen /\ Ahead(out, in) + 1 <= BufLen - 1
<1>1. (in + 1) % BufLen = IF in + 1 < BufLen THEN in + 1 ELSE (in + 1) - BufLen
  BY IndexValue, UartFacts
<1> QED BY <1>1, UartFacts DEF Ahead, Index

LEMMA IsrTxCharStreams == ASSUME UartFlow, Streams, IsrTxChar PROVE Streams'
<1>1. /\ isr \in Routine /\ isr.space \in Nat /\ isr.space > 0 /\ tx.out # tx.in
      /\ fifo \in [tx : Seq(Number), rx : Seq(Number)] /\ fifo.tx \in Seq(Number)
      /\ tx \in Buffer /\ tx.in \in Index /\ tx.out \in Index /\ heard \in Number
      /\ UNCHANGED <<rx, call, sent, heard, typed, taken>>
  BY Sizes DEF IsrTxChar
<1> DEFINE m == Len(fifo.tx)
           a == Ahead(tx.out, tx.in)
           char == tx.buf[tx.out]
<1>2. m \in Nat /\ m <= BufLen /\ a \in Nat /\ a <= BufLen - 1 /\ Depth \in Nat
  BY Sizes, UartFacts
<1>3. /\ m + isr.space <= Depth /\ Ring(tx, heard, m) /\ sent = Plus(heard, m + a)
      /\ \A i \in 1 .. m : fifo.tx[i] = Plus(heard, i - 1)
      /\ call.at \in {"copy", "commit"}
           => call.in = tx.in /\ call.in + call.n <= BufLen /\ a + call.n <= BufLen - 1
      /\ call.at = "commit"
           => \A i \in call.in .. call.in + call.n - 1 : tx.buf[i] = Plus(sent, i - call.in)
  BY DEF Streams, TxStream
<1>4. m < Depth
  BY <1>1, <1>2, <1>3
<1>5. /\ fifo'.tx = Append(fifo.tx, char) /\ fifo'.rx = fifo.rx
      /\ isr'.space = isr.space - 1
      /\ tx'.buf = tx.buf /\ tx'.in = tx.in /\ tx'.out = (tx.out + 1) % BufLen
  BY <1>1, <1>4 DEF IsrTxChar, Buffer, Routine
<1>6. tx.out + 1 <= BufLen /\ 1 <= a /\ Ahead(tx.out, tx.out) = 0
  BY <1>1, NotAlone
<1>7. char = Plus(heard, m)
  <2>1. Ahead(tx.out, tx.out) < Ahead(tx.out, tx.in)
    BY <1>2, <1>6
  <2>2. tx.buf[tx.out] = Plus(heard, m + Ahead(tx.out, tx.out))
    BY <1>1, <1>3, <2>1 DEF Ring
  <2> QED BY <1>2, <1>6, <2>2
<1>8. Ring(tx', heard, m + 1) /\ Ahead(tx'.out, tx'.in) = a - 1
  BY <1>1, <1>2, <1>3, <1>5, <1>6, RingTake, AheadTake
<1> HIDE DEF char
<1>9. /\ Len(fifo'.tx) = m + 1
      /\ \A i \in 1 .. m + 1 : fifo'.tx[i] = IF i = m + 1 THEN char ELSE fifo.tx[i]
  <2>1. char \in Number
    BY <1>1 DEF char, Buffer
  <2> QED BY <1>1, <1>5, <2>1
<1> HIDE DEF m, a
<1>10. \A i \in 1 .. Len(fifo'.tx) : fifo'.tx[i] = Plus(heard, i - 1)
  <2> SUFFICES ASSUME NEW i \in 1 .. m + 1 PROVE fifo'.tx[i] = Plus(heard, i - 1)
    BY <1>9
  <2>1. CASE i = m + 1
    <3>1. i - 1 = m
      BY <1>2, <2>1
    <3> QED BY <1>7, <1>9, <2>1, <3>1
  <2>2. CASE i # m + 1
    BY <1>2, <1>3, <1>9, <2>2
  <2> QED BY <2>1, <2>2
<1>11. /\ sent = Plus(heard, (m + 1) + (a - 1)) /\ (m + 1) + (isr.space - 1) <= Depth
  <2>1. (m + 1) + (a - 1) = m + a /\ (m + 1) + (isr.space - 1) = m + isr.space
    BY <1>1, <1>2
  <2> QED BY <1>3, <2>1
<1>12. call.at \in {"copy", "commit"}
         => call.in = tx.in /\ call.in + call.n <= BufLen /\ (a - 1) + call.n <= BufLen - 1
  <2>1. call.n \in Nat
    BY Sizes
  <2> QED BY <1>2, <1>3, <2>1, UartFacts
<1>13. TxStream'
  <2>1. Ring(tx, heard, Len(fifo.tx))'
    BY <1>1, <1>8, <1>9 DEF Ring, Plus, Ahead, Index
  <2>2. /\ \A i \in 1 .. Len(fifo'.tx) : fifo'.tx[i] = Plus(heard', i - 1)
        /\ sent' = Plus(heard', Len(fifo'.tx) + Ahead(tx'.out, tx'.in))
        /\ Len(fifo'.tx) + isr'.space <= Depth
    BY <1>1, <1>5, <1>8, <1>9, <1>10, <1>11
  <2>3. /\ call'.at \in {"copy", "commit"}
             => call'.in = tx'.in /\ call'.in + call'.n <= BufLen
                /\ Ahead(tx'.out, tx'.in) + call'.n <= BufLen - 1
        /\ call'.at = "commit" => \A i \in call'.in .. call'.in + call'.n - 1 :
                                     tx'.buf[i] = Plus(sent', i - call'.in)
    BY <1>1, <1>3, <1>5, <1>8, <1>12
  <2> QED BY <2>1, <2>2, <2>3 DEF TxStream
<1>14. RxStream'
  BY <1>1, <1>5, RxKept DEF Streams
<1> QED BY <1>13, <1>14 DEF Streams

LEMMA IsrRxCharStreams == ASSUME UartFlow, Streams, IsrRxChar PROVE Streams'
<1>1. /\ isr \in Routine /\ ~Full(rx) /\ fifo.rx # <<>>
      /\ fifo \in [tx : Seq(Number), rx : Seq(Number)] /\ fifo.rx \in Seq(Number)
      /\ rx \in Buffer /\ rx.in \in Index /\ rx.out \in Index /\ taken \in Number
      /\ UNCHANGED <<tx, call, sent, heard, typed, taken>>
  BY Sizes DEF IsrRxChar
<1> DEFINE m == Len(fifo.rx)
           a == Ahead(rx.out, rx.in)
<1>2. m \in Nat /\ m <= BufLen /\ m >= 1 /\ a \in Nat
  BY <1>1, Sizes
<1>3. /\ Ring(rx, taken, 0) /\ typed = Plus(taken, a + m)
      /\ \A i \in 1 .. m : fifo.rx[i] = Plus(taken, a + i - 1)
      /\ call.at \in {"take", "release"}
           => call.out = rx.out /\ call.out + call.n <= BufLen /\ call.n <= a
  BY DEF Streams, RxStream
<1>4. rx.in + 1 <= BufLen /\ a + 1 <= BufLen - 1
  BY <1>1, NotFull DEF Full
<1>5. /\ fifo'.tx = fifo.tx /\ fifo'.rx = Tail(fifo.rx) /\ isr'.space = isr.space
      /\ rx'.out = rx.out /\ rx'.in = (rx.in + 1) % BufLen
      /\ rx'.buf = [rx.buf EXCEPT ![rx.in] = Head(fifo.rx)]
  BY <1>1 DEF IsrRxChar, Buffer, Routine
<1>6. Head(fifo.rx) = Plus(taken, a)
  <2>1. Head(fifo.rx) = fifo.rx[1]
    BY <1>1
  <2>2. fifo.rx[1] = Plus(taken, a + 1 - 1)
    BY <1>2, <1>3
  <2>3. a + 1 - 1 = a
    BY <1>2
  <2> QED BY <2>1, <2>2, <2>3
<1>7. \A i \in Index : rx'.buf[i] = IF i = rx.in THEN Plus(taken, a) ELSE rx.buf[i]
  BY <1>1, <1>5, <1>6 DEF Buffer
<1>8. Ring(rx', taken, 0)
  BY <1>1, <1>3, <1>4, <1>5, <1>7, RingPutOne
<1>9. Ahead(rx'.out, rx'.in) = a + 1
  BY <1>1, <1>4, <1>5, AheadPut
<1> HIDE DEF m, a
<1>10. Len(fifo'.rx) = m - 1 /\ \A i \in 1 .. m - 1 : fifo'.rx[i] = fifo.rx[i + 1]
  BY <1>1, <1>5 DEF m
<1>11. /\ typed = Plus(taken, (a + 1) + (m - 1))
       /\ \A i \in 1 .. m - 1 : fifo.rx[i + 1] = Plus(taken, (a + 1) + i - 1)
  <2>1. (a + 1) + (m - 1) = a + m
    BY <1>2
  <2>2. \A i \in 1 .. m - 1 : i + 1 \in 1 .. m /\ a + (i + 1) - 1 = (a + 1) + i - 1
    BY <1>2
  <2> QED BY <1>3, <2>1, <2>2
<1>12. RxStream'
  <2>1. Ring(rx, taken, 0)'
    BY <1>1, <1>8 DEF Ring, Plus, Ahead, Index
  <2>2. /\ \A i \in 1 .. Len(fifo'.rx) :
             fifo'.rx[i] = Plus(taken', Ahead(rx'.out, rx'.in) + i - 1)
        /\ typed' = Plus(taken', Ahead(rx'.out, rx'.in) + Len(fifo'.rx))
    BY <1>1, <1>9, <1>10, <1>11
  <2>3. call'.at \in {"take", "release"}
          => /\ call'.out = rx'.out /\ call'.out + call'.n <= BufLen
             /\ call'.n <= Ahead(rx'.out, rx'.in)
    <3>1. call.n \in Nat
      BY Sizes
    <3> QED BY <1>1, <1>2, <1>3, <1>5, <1>9, <3>1
  <2>4. call'.data = IF call'.at = "release" THEN From(taken', call'.n) ELSE <<>>
    BY <1>1 DEF Streams, RxStream, From, Plus
  <2> QED BY <2>1, <2>2, <2>3, <2>4 DEF RxStream
<1>13. TxStream'
  <2>1. Len(fifo.tx) + isr'.space <= Depth
    BY <1>5 DEF Streams, TxStream
  <2> QED BY <1>1, <1>5, <2>1, TxKept DEF Streams
<1> QED BY <1>12, <1>13 DEF Streams

\* The host.
LEMMA HostPollStreams == ASSUME UartFlow, Streams, HostPoll PROVE Streams'
<1>1. CASE fifo.tx = <<>>
  BY <1>1, StreamsKept DEF HostPoll
<1>2. CASE fifo.tx # <<>>
  <2>1. /\ fifo \in [tx : Seq(Number), rx : Seq(Number)] /\ fifo.tx \in Seq(Number)
        /\ tx.in \in Index /\ tx.out \in Index /\ heard \in Number /\ isr.space \in Nat
        /\ UNCHANGED <<tx, rx, call, isr, sent, typed, taken>>
    BY Sizes DEF HostPoll
  <2> DEFINE m == Len(fifo.tx)
             a == Ahead(tx.out, tx.in)
  <2>2. m \in Nat /\ m >= 1 /\ m <= BufLen /\ a \in Nat /\ a <= BufLen - 1 /\ Depth \in Nat
    BY <1>2, <2>1, Sizes, UartFacts
  <2>3. /\ m + isr.space <= Depth /\ Ring(tx, heard, m) /\ sent = Plus(heard, m + a)
        /\ \A i \in 1 .. m : fifo.tx[i] = Plus(heard, i - 1)
    BY DEF Streams, TxStream
  <2>4. /\ fifo'.tx = Tail(fifo.tx) /\ fifo'.rx = fifo.rx /\ heard' = Plus(heard, 1)
    BY <1>2, <2>1 DEF HostPoll
  <2> HIDE DEF m, a
  <2>5. Len(fifo'.tx) = m - 1 /\ \A i \in 1 .. m - 1 : fifo'.tx[i] = fifo.tx[i + 1]
    BY <1>2, <2>1, <2>4 DEF m
  <2>6. Ring(tx, Plus(heard, 1), m - 1)
    <3>1. m - 1 \in Nat /\ 1 + (m - 1) = m /\ 1 + (m - 1) <= BufLen
      BY <2>2, UartFacts
    <3> QED BY <2>1, <2>3, <3>1, RingFrom
  <2>7. \A j \in Nat : 1 + j <= 2 * BufLen => Plus(Plus(heard, 1), j) = Plus(heard, 1 + j)
    BY <2>1, PlusPlus
  <2>8. sent = Plus(Plus(heard, 1), (m - 1) + a)
    <3>1. (m - 1) + a \in Nat /\ 1 + ((m - 1) + a) <= 2 * BufLen /\ 1 + ((m - 1) + a) = m + a
      BY <2>2, UartFacts
    <3> QED BY <2>3, <2>7, <3>1
  <2>9. \A i \in 1 .. m - 1 : fifo'.tx[i] = Plus(Plus(heard, 1), i - 1)
    <3> SUFFICES ASSUME NEW i \in 1 .. m - 1 PROVE fifo'.tx[i] = Plus(Plus(heard, 1), i - 1)
      OBVIOUS
    <3>1. /\ i - 1 \in Nat /\ 1 + (i - 1) <= 2 * BufLen /\ 1 + (i - 1) = (i + 1) - 1
          /\ i + 1 \in 1 .. m
      BY <2>2, UartFacts
    <3>2. fifo.tx[i + 1] = Plus(heard, (i + 1) - 1)
      BY <2>3, <3>1
    <3> QED BY <2>5, <2>7, <3>1, <3>2
  <2>10. TxStream'
    <3>1. Ring(tx, heard, Len(fifo.tx))'
      BY <2>1, <2>4, <2>5, <2>6 DEF Ring, Plus, Ahead, Index
    <3>2. /\ \A i \in 1 .. Len(fifo'.tx) : fifo'.tx[i] = Plus(heard', i - 1)
          /\ sent' = Plus(heard', Len(fifo'.tx) + Ahead(tx'.out, tx'.in))
      BY <2>1, <2>4, <2>5, <2>8, <2>9 DEF a
    <3>3. Len(fifo'.tx) + isr'.space <= Depth
      BY <2>1, <2>2, <2>3, <2>5
    <3>4. /\ call'.at \in {"copy", "commit"}
               => call'.in = tx'.in /\ call'.in + call'.n <= BufLen
                  /\ Ahead(tx'.out, tx'.in) + call'.n <= BufLen - 1
          /\ call'.at = "commit" => \A i \in call'.in .. call'.in + call'.n - 1 :
                                       tx'.buf[i] = Plus(sent', i - call'.in)
      BY <2>1 DEF Streams, TxStream
    <3> QED BY <3>1, <3>2, <3>3, <3>4 DEF TxStream
  <2>11. RxStream'
    BY <2>1, <2>4, RxKept DEF Streams
  <2> QED BY <2>10, <2>11 DEF Streams
<1> QED BY <1>1, <1>2

LEMMA HostTypeStreams == ASSUME UartFlow, Streams, HostType PROVE Streams'
<1>1. /\ fifo \in [tx : Seq(Number), rx : Seq(Number)] /\ fifo.rx \in Seq(Number)
      /\ taken \in Number /\ typed \in Number
      /\ UNCHANGED <<tx, rx, call, isr, sent, heard, taken>>
  BY Sizes DEF HostType
<1> DEFINE m == Len(fifo.rx)
           a == Ahead(rx.out, rx.in)
<1>2. m \in Nat /\ m <= BufLen /\ a \in Nat /\ a <= BufLen - 1
  BY Sizes
<1>3. /\ typed = Plus(taken, a + m)
      /\ \A i \in 1 .. m : fifo.rx[i] = Plus(taken, a + i - 1)
  BY DEF Streams, RxStream
<1>4. /\ fifo'.rx = Append(fifo.rx, typed) /\ fifo'.tx = fifo.tx /\ typed' = Plus(typed, 1)
  BY <1>1 DEF HostType
<1> HIDE DEF m, a
<1>5. /\ Len(fifo'.rx) = m + 1
      /\ \A i \in 1 .. m + 1 : fifo'.rx[i] = IF i = m + 1 THEN typed ELSE fifo.rx[i]
  BY <1>1, <1>4 DEF m
<1>6. \A i \in 1 .. m + 1 : fifo'.rx[i] = Plus(taken, a + i - 1)
  <2> SUFFICES ASSUME NEW i \in 1 .. m + 1 PROVE fifo'.rx[i] = Plus(taken, a + i - 1)
    OBVIOUS
  <2>1. CASE i = m + 1
    <3>1. a + i - 1 = a + m
      BY <1>2, <2>1
    <3> QED BY <1>3, <1>5, <2>1, <3>1
  <2>2. CASE i # m + 1
    BY <1>2, <1>3, <1>5, <2>2
  <2> QED BY <2>1, <2>2
<1>7. typed' = Plus(taken, a + (m + 1))
  <2>1. a + m \in Nat /\ (a + m) + 1 <= 2 * BufLen /\ (a + m) + 1 = a + (m + 1)
    BY <1>2, UartFacts
  <2>2. Plus(Plus(taken, a + m), 1) = Plus(taken, (a + m) + 1)
    BY <1>1, <2>1, PlusPlus
  <2> QED BY <1>3, <1>4, <2>1, <2>2
<1>8. RxStream'
  <2>1. Ring(rx, taken, 0)'
    BY <1>1 DEF Streams, RxStream, Ring, Plus, Ahead, Index
  <2>2. /\ \A i \in 1 .. Len(fifo'.rx) :
             fifo'.rx[i] = Plus(taken', Ahead(rx'.out, rx'.in) + i - 1)
        /\ typed' = Plus(taken', Ahead(rx'.out, rx'.in) + Len(fifo'.rx))
    BY <1>1, <1>5, <1>6, <1>7 DEF a
  <2>3. /\ call'.at \in {"take", "release"}
             => /\ call'.out = rx'.out /\ call'.out + call'.n <= BufLen
                /\ call'.n <= Ahead(rx'.out, rx'.in)
        /\ call'.data = IF call'.at = "release" THEN From(taken', call'.n) ELSE <<>>
    BY <1>1 DEF Streams, RxStream, From, Plus
  <2> QED BY <2>1, <2>2, <2>3 DEF RxStream
<1>9. TxStream'
  <2>1. Len(fifo.tx) + isr'.space <= Depth
    BY <1>1 DEF Streams, TxStream
  <2> QED BY <1>1, <1>4, <2>1, TxKept DEF Streams
<1> QED BY <1>8, <1>9 DEF Streams

LEMMA StreamsStep == ASSUME ConsoleInv, Streams, [Next]_vars PROVE Streams'
<1>1. UartFlow
  BY DEF ConsoleInv
<1>2. CASE UNCHANGED uartVars
  BY <1>1, <1>2, StreamsKept DEF uartVars
<1>3. CASE Ioctl
  BY <1>1, <1>3, StreamsKept DEF Ioctl, SetTimeout
<1>4. CASE Write \/ Read \/ Close
  <2>1. PICK op \in {"write", "read", "close"}, count \in Nat, fd \in Descriptor :
          Begin(op, count, alt_fd_list[fd].nonblock)
    BY <1>4, UartAssumption DEF Write, Read, Close
  <2>2. alt_fd_list[fd].nonblock \in BOOLEAN
    BY DEF ConsoleInv, TableInv, TableTypeOK
  <2> QED BY <1>1, <2>1, <2>2, BeginStreams
<1>5. CASE Driver
  <2>1. CASE CallStep
    BY <1>1, <2>1, CallMoves, WriteLookStreams, WriteCopyStreams, WriteCommitStreams,
       ReadLookStreams, ReadCopyStreams, ReadCommitStreams DEF CallStep
  <2>2. CASE Isr
    BY <1>1, <2>2, IsrMoves, IsrTxCharStreams, IsrRxCharStreams DEF Isr
  <2>3. CASE Timeout
    BY <1>1, <2>3, StreamsKept DEF Timeout
  <2> QED BY <1>5, <2>1, <2>2, <2>3 DEF Driver
<1>6. CASE Host
  BY <1>1, <1>6, HostPollStreams, HostTypeStreams DEF Host
<1> QED BY <1>2, <1>3, <1>4, <1>5, <1>6
        DEF Next, vars, FileCall, Table, CloseNull, CloseEnd

\* The index so far ahead.
LEMMA IndexAhead ==
  ASSUME NEW out \in Index, NEW n \in Nat, n < BufLen, NEW j, j = (out + n) % BufLen
  PROVE  j \in Index /\ Ahead(out, j) = n
<1>1. n <= BufLen
  BY UartFacts
<1>2. j = IF out + n < BufLen THEN out + n ELSE (out + n) - BufLen
  BY <1>1, IndexValue
<1> QED BY <1>2, UartFacts DEF Ahead, Index

\* A buffer, read from its front, holds the characters in order.
LEMMA HeldValue ==
  ASSUME NEW b \in Buffer, NEW k \in Number, NEW m \in Nat, Ring(b, k, m)
  PROVE  /\ Held(b) \in Seq(Number) /\ Len(Held(b)) = Ahead(b.out, b.in)
         /\ \A i \in 1 .. Ahead(b.out, b.in) : Held(b)[i] = Plus(k, m + (i - 1))
<1>1. b.in \in Index /\ b.out \in Index /\ b.buf \in [Index -> Number]
  BY DEF Buffer
<1>2. PICK a \in Nat : a = Ahead(b.out, b.in) /\ a < BufLen /\ (b.in - b.out) % BufLen = a
  <2>1. Ahead(b.out, b.in) \in Index /\ (b.in - b.out) % BufLen = Ahead(b.out, b.in)
    BY <1>1, AheadValue
  <2> QED BY <2>1, UartFacts DEF Index
<1>3. ASSUME NEW i \in 1 .. a
      PROVE  b.buf[(b.out + i - 1) % BufLen] = Plus(k, m + (i - 1))
  <2>1. PICK n \in Nat : n = i - 1 /\ n < a /\ b.out + i - 1 = b.out + n
    BY <1>1, UartFacts
  <2>2. PICK j \in Index : j = (b.out + n) % BufLen /\ Ahead(b.out, j) = n
    <3>1. n < BufLen
      BY <1>2, <2>1, UartFacts
    <3> QED BY <1>1, <3>1, IndexAhead
  <2>3. b.buf[j] = Plus(k, m + n)
    BY <1>2, <2>1, <2>2 DEF Ring
  <2> QED BY <2>1, <2>2, <2>3
<1>4. Held(b) = [i \in 1 .. a |-> Plus(k, m + (i - 1))]
  BY <1>2, <1>3 DEF Held
<1>5. \A i \in 1 .. a : Plus(k, m + (i - 1)) \in Number
  <2> SUFFICES ASSUME NEW i \in 1 .. a PROVE Plus(k, m + (i - 1)) \in Number
    OBVIOUS
  <2>1. m + (i - 1) \in Nat /\ k \in Nat
    BY UartFacts
  <2> QED BY <2>1, PlusType
<1> QED BY <1>2, <1>4, <1>5

LEMMA FromValue ==
  ASSUME NEW s \in Seq(Number), NEW k, \A i \in 1 .. Len(s) : s[i] = Plus(k, i - 1)
  PROVE  s = From(k, Len(s))
BY DEF From

(* No character is lost, doubled or overtaken on its way through buffer,   *)
(* interrupt routine and fifo, in either direction                         *)
(* (altera_avalon_jtag_uart_write, _read and _irq).                        *)
THEOREM StreamsStayInOrder == Spec => []StreamsInOrder
<1>1. Init => Streams
  BY StreamsInit DEF Init
<1>2. ConsoleInv /\ Streams /\ [Next]_vars => Streams'
  BY StreamsStep
<1>3. ConsoleInv /\ Streams => StreamsInOrder
  <2> SUFFICES ASSUME ConsoleInv, Streams PROVE StreamsInOrder
    OBVIOUS
  <2> DEFINE out == fifo.tx \o Held(tx)
             in  == Held(rx) \o fifo.rx
             m == Len(fifo.tx)
             a == Ahead(tx.out, tx.in)
             l == Len(fifo.rx)
             c == Ahead(rx.out, rx.in)
  <2>1. /\ tx \in Buffer /\ rx \in Buffer /\ heard \in Number /\ taken \in Number
        /\ fifo.tx \in Seq(Number) /\ fifo.rx \in Seq(Number)
        /\ m \in Nat /\ a \in Nat /\ l \in Nat /\ c \in Nat /\ call \in Call /\ call.n \in Nat
    BY Sizes DEF ConsoleInv
  <2>2. /\ Held(tx) \in Seq(Number) /\ Len(Held(tx)) = a
        /\ \A i \in 1 .. a : Held(tx)[i] = Plus(heard, m + (i - 1))
    BY <2>1, HeldValue DEF Streams, TxStream
  <2>3. /\ Held(rx) \in Seq(Number) /\ Len(Held(rx)) = c
        /\ \A i \in 1 .. c : Held(rx)[i] = Plus(taken, 0 + (i - 1))
    BY <2>1, HeldValue DEF Streams, RxStream
  <2>4. /\ sent = Plus(heard, m + a) /\ typed = Plus(taken, c + l)
        /\ \A i \in 1 .. m : fifo.tx[i] = Plus(heard, i - 1)
        /\ \A i \in 1 .. l : fifo.rx[i] = Plus(taken, c + i - 1)
    BY DEF Streams, TxStream, RxStream
  <2>5. out = From(heard, Len(out)) /\ Len(out) = m + a
    <3>1. /\ out \in Seq(Number) /\ Len(out) = m + a
          /\ \A i \in 1 .. m + a : out[i] = IF i <= m THEN fifo.tx[i] ELSE Held(tx)[i - m]
      <4>1. fifo.tx \in Seq(Number) /\ Held(tx) \in Seq(Number)
        BY <2>1, <2>2
      <4>2. /\ fifo.tx \o Held(tx) \in Seq(Number)
            /\ Len(fifo.tx \o Held(tx)) = Len(fifo.tx) + Len(Held(tx))
            /\ \A i \in 1 .. Len(fifo.tx) + Len(Held(tx)) :
                 (fifo.tx \o Held(tx))[i] = IF i <= Len(fifo.tx) THEN fifo.tx[i]
                                         ELSE Held(tx)[i - Len(fifo.tx)]
        BY <4>1, ConcatProperties, Zenon
      <4>3. Len(fifo.tx) = m /\ Len(Held(tx)) = a
        BY <2>2
      <4> QED BY <4>2, <4>3, Zenon
    <3> HIDE DEF out, m, a
    <3>2. ASSUME NEW i \in 1 .. m + a PROVE out[i] = Plus(heard, i - 1)
      <4>1. CASE i <= m
        <5>1. i \in 1 .. m
          BY <2>1, <4>1
        <5>2. \A j \in 1 .. m : fifo.tx[j] = Plus(heard, j - 1)
          BY <2>4 DEF m
        <5> QED BY <3>1, <4>1, <5>1, <5>2
      <4>2. CASE ~(i <= m)
        <5>1. i - m \in 1 .. a /\ m + ((i - m) - 1) = i - 1
          BY <2>1, <4>2
        <5> QED BY <2>2, <3>1, <4>2, <5>1
      <4> QED BY <4>1, <4>2
    <3> QED BY <3>1, <3>2, FromValue
  <2>6. in = From(taken, Len(in)) /\ Len(in) = c + l
    <3>1. /\ in \in Seq(Number) /\ Len(in) = c + l
          /\ \A i \in 1 .. c + l : in[i] = IF i <= c THEN Held(rx)[i] ELSE fifo.rx[i - c]
      <4>1. Held(rx) \in Seq(Number) /\ fifo.rx \in Seq(Number)
        BY <2>1, <2>3
      <4>2. /\ Held(rx) \o fifo.rx \in Seq(Number)
            /\ Len(Held(rx) \o fifo.rx) = Len(Held(rx)) + Len(fifo.rx)
            /\ \A i \in 1 .. Len(Held(rx)) + Len(fifo.rx) :
                 (Held(rx) \o fifo.rx)[i] = IF i <= Len(Held(rx)) THEN Held(rx)[i]
                                         ELSE fifo.rx[i - Len(Held(rx))]
        BY <4>1, ConcatProperties, Zenon
      <4>3. Len(Held(rx)) = c /\ Len(fifo.rx) = l
        BY <2>3
      <4> QED BY <4>2, <4>3, Zenon
    <3> HIDE DEF in, c, l
    <3>2. ASSUME NEW i \in 1 .. c + l PROVE in[i] = Plus(taken, i - 1)
      <4>1. CASE i <= c
        <5>1. i \in 1 .. c /\ 0 + (i - 1) = i - 1
          BY <2>1, <4>1
        <5> QED BY <2>3, <3>1, <4>1, <5>1
      <4>2. CASE ~(i <= c)
        <5>1. i - c \in 1 .. l /\ c + (i - c) - 1 = i - 1
          BY <2>1, <4>2
        <5> QED BY <2>4, <3>1, <4>2, <5>1
      <4> QED BY <4>1, <4>2
    <3> QED BY <3>1, <3>2, FromValue
  <2>7. call.data = From(taken, Len(call.data))
    <3>1. CASE call.at = "release"
      <4>1. call.data = From(taken, call.n)
        BY <3>1 DEF Streams, RxStream
      <4>2. call.data \in Seq(Number)
        BY <2>1 DEF Call
      <4>3. Len(call.data) = call.n
        BY <2>1, <4>1, <4>2 DEF From
      <4> QED BY <4>1, <4>3
    <3>2. CASE call.at # "release"
      <4>1. call.data = <<>>
        BY <3>2, NoData
      <4> QED BY <4>1 DEF From
    <3> QED BY <3>1, <3>2
  <2> QED BY <2>4, <2>5, <2>6, <2>7 DEF StreamsInOrder
<1> QED BY <1>1, <1>2, <1>3, ConsoleInvariant, PTL DEF Spec
=============================================================================
