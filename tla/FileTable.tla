----------------------------- MODULE FileTable -----------------------------
(***************************************************************************)
(* The file descriptors of the HAL (usb_kb_bsp/HAL/src): open, close,      *)
(* ioctl and fcntl on a table of ALT_MAX_FD descriptors, and the           *)
(* redirection of the standard streams at the start.  The devices are the  *)
(* JTAG UART and /dev/null; no file system is registered.  Descriptors     *)
(* given to a call are open ones.  ALT_FD_DEV is set in every descriptor   *)
(* that open returns.                                                      *)
(***************************************************************************)
EXTENDS Integers, Sequences, FiniteSets, FiniteSetsExt

CONSTANTS ALT_MAX_FD,
          Names         \* given to open

ASSUME TableAssumption == ALT_MAX_FD \in Nat /\ ALT_MAX_FD > 3

VARIABLES alt_fd_list, alt_max_fd,
          booting       \* standard streams still to be redirected by alt_main

tableVars == <<alt_fd_list, alt_max_fd, booting>>

alt_dev_list == {"jtag_uart_0", "null"}
Descriptor   == 0 .. ALT_MAX_FD - 1
Mode         == {"O_RDONLY", "O_WRONLY", "O_RDWR"}

Free == [dev |-> "none", mode |-> "O_RDONLY", nonblock |-> FALSE, excl |-> FALSE]

\* The standard streams refer to /dev/null until alt_main redirects them.
TableInit ==
  /\ alt_fd_list = [i \in Descriptor |-> IF i <= 2 THEN [Free EXCEPT !.dev = "null"] ELSE Free]
  /\ alt_max_fd = -1
  /\ booting = <<"stdout", "stdin", "stderr">>

-----------------------------------------------------------------------------
Unused == {i \in Descriptor : alt_fd_list[i].dev = "none"}

\* Mutant: the mark goes down with the last descriptor allocated.
HighWaterLast(index) == index

\* The mark after alt_get_fd has chosen index: the highest one ever chosen.
HighWater(index) == IF index > alt_max_fd THEN index ELSE alt_max_fd

alt_get_fd == Min(Unused)

\* Mutant: the highest descriptor is not looked at, as in alt_fd_lock.
alt_file_locked_below(index, dev) ==
  \E i \in 0 .. HighWater(index) - 1 : /\ i # index /\ alt_fd_list[i].dev = dev
                                       /\ alt_fd_list[i].excl

alt_file_locked(index, dev) ==
  \E i \in 0 .. HighWater(index) : /\ i # index /\ alt_fd_list[i].dev = dev
                                   /\ alt_fd_list[i].excl

\* Mutant: the standard streams are released as well.
alt_release_any(list, i) == [list EXCEPT ![i] = Free]

alt_release_fd(list, i) == IF i > 2 THEN [list EXCEPT ![i] = Free] ELSE list

Opens(name) == name \in alt_dev_list /\ Unused # {} /\ ~alt_file_locked(alt_get_fd, name)

\* The entry that open fills in and, in case of a lock, releases again.
Allocated(name, mode, nonblock) ==
  [alt_fd_list EXCEPT ![alt_get_fd] =
     [dev |-> name, mode |-> mode, nonblock |-> nonblock, excl |-> FALSE]]

Open(name, mode, nonblock) ==
  /\ booting = <<>>
  /\ IF name \in alt_dev_list /\ Unused # {}
     THEN /\ alt_fd_list' = IF alt_file_locked(alt_get_fd, name)
                            THEN alt_release_fd(Allocated(name, mode, nonblock), alt_get_fd)
                            ELSE Allocated(name, mode, nonblock)
          /\ alt_max_fd' = HighWater(alt_get_fd)
     ELSE UNCHANGED <<alt_fd_list, alt_max_fd>>
  /\ UNCHANGED booting

\* alt_open_fd: open, copy to the standard stream, release.
Redirect ==
  /\ booting # <<>>
  /\ LET stream == CASE booting[1] = "stdin" -> 0
                     [] booting[1] = "stdout" -> 1
                     [] booting[1] = "stderr" -> 2
         mode   == IF stream = 0 THEN "O_RDONLY" ELSE "O_WRONLY"
         list   == Allocated("jtag_uart_0", mode, FALSE)
     IN  /\ alt_fd_list' = IF Opens("jtag_uart_0")
                           THEN alt_release_fd([list EXCEPT ![stream] = list[alt_get_fd]], alt_get_fd)
                           ELSE alt_fd_list
         /\ alt_max_fd' = HighWater(alt_get_fd)
  /\ booting' = Tail(booting)

InUse(fd) == booting = <<>> /\ alt_fd_list[fd].dev # "none"

\* The end of alt_close, whatever the device's close has returned.
Release(fd) == /\ alt_fd_list' = alt_release_fd(alt_fd_list, fd)
               /\ UNCHANGED <<alt_max_fd, booting>>

\* alt_fd_lock looks below the highest descriptor only.
Shared(fd) == \E i \in 0 .. alt_max_fd - 1 : i # fd /\ alt_fd_list[i].dev = alt_fd_list[fd].dev

alt_fd_lock(fd) ==
  /\ InUse(fd) /\ ~Shared(fd)
  /\ alt_fd_list' = [alt_fd_list EXCEPT ![fd].excl = TRUE]
  /\ UNCHANGED <<alt_max_fd, booting>>

alt_fd_unlock(fd) ==
  /\ InUse(fd)
  /\ alt_fd_list' = [alt_fd_list EXCEPT ![fd].excl = FALSE]
  /\ UNCHANGED <<alt_max_fd, booting>>

\* fcntl, F_SETFL
SetFlags(fd, nonblock) ==
  /\ InUse(fd)
  /\ alt_fd_list' = [alt_fd_list EXCEPT ![fd].nonblock = nonblock]
  /\ UNCHANGED <<alt_max_fd, booting>>
-----------------------------------------------------------------------------
TableTypeOK ==
  /\ alt_fd_list \in [Descriptor -> [dev : alt_dev_list \cup {"none"}, mode : Mode,
                                     nonblock : BOOLEAN, excl : BOOLEAN]]
  /\ alt_max_fd \in {-1} \cup Descriptor
  /\ \A i \in Descriptor : alt_fd_list[i].dev # "none" => i <= alt_max_fd \/ i <= 2

(* Once the streams are redirected, printf reaches the JTAG UART, whatever *)
(* is opened, closed, locked or found locked later.                        *)
StandardStreams ==
  booting = <<>> =>
    \A i \in 0 .. 2 : /\ alt_fd_list[i].dev = "jtag_uart_0" /\ ~alt_fd_list[i].excl
                      /\ alt_fd_list[i].mode = IF i = 0 THEN "O_RDONLY" ELSE "O_WRONLY"

\* Other descriptors of the device that fd refers to.
Sharers(fd) == {i \in Descriptor \ {fd} : alt_fd_list[i].dev = alt_fd_list[fd].dev}

(* "If there are no other open file descriptors which reference the same   *)
(* device, then alt_fd_lock() will grant the lock" (alt_fd_lock.c:42).  It *)
(* may grant it when there is one, the highest, which it overlooks; never  *)
(* more than one, and never two locks.                                     *)
LockAlmostExclusive ==
  \A fd \in Descriptor : alt_fd_list[fd].excl =>
    \A i, j \in Sharers(fd) : i = j /\ i > fd /\ ~alt_fd_list[i].excl

(* "Further calls to open() for this device will fail until the lock is    *)
(* released" (alt_fd_lock.c:44): no descriptor comes to refer to a device  *)
(* that another one has locked.                                            *)
LockHonoured ==
  [][\A fd, i \in Descriptor :
       alt_fd_list[fd].excl /\ i # fd /\ alt_fd_list'[i].dev = alt_fd_list[fd].dev
         => alt_fd_list[i].dev = alt_fd_list[fd].dev]_alt_fd_list
=============================================================================
