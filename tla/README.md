# Verification of the FPGA-based 3D renderer

TLA+ models of the hardware renderer in `src/Final/`, the TLC runs that check
them, and proofs checked by TLAPS. The renderer is a set of clocked
SystemVerilog modules on one Cyclone FPGA: it loads the triangles of one
object, and from then on projects, draws and shows them, frame after frame,
while a keyboard turns and moves the object. A Nios processor on the same chip
runs the program that drives the keyboard's USB chip, on top of the vendor's
board support package.

Contents: [the system](#1-the-system), [the models](#2-the-models),
[the runs](#3-the-runs), [what the runs found](#4-findings),
[the proofs](#5-the-proofs), [what is not modelled](#6-not-modelled),
[the plan](#7-plan).

## 1. The system

### 1.1 Parts

`renderer_top.sv` wires the parts below together. All registers are clocked by
the 50 MHz `Clk`, except those of the VGA controller, which runs on `VGA_CLK`,
half that frequency, from a PLL. Every module sees the same synchronous
`Reset` (key 0).

| part | source | state | operations |
| --- | --- | --- | --- |
| control unit | `control_unit.sv` | state `Init`, `Draw`, `Clear`, `Done`; edge detector of the vertical sync | starts the list writer, the clear, the projection and the drawing; says which of them drives the write port of the frame buffer |
| list writer | `list_writer.sv` | `Wait`, `W1`..`W12`, `Done`; one triangle | writes the 12 triangles of a cube into the list, once after a reset |
| triangle list | `triangle_list.sv`, `triangle_list_ram.sv` | read address, write address, count, memory, output register | append, read next; rewinds itself one cycle after its last element |
| projection | `project.sv` (control), `project_cal.sv` and below (arithmetic) | `Wait`, `Take1`, `Take2`, `Proj`, `Write`, `Done`; a cycle counter; one triangle | reads the list, gives the combinational projection five cycles, writes triangles that are on the screen into the fifo |
| triangle fifo | `triangle_fifo.sv`, `triangle_fifo_ram.sv` | two addresses, a count, memory, output register | ring buffer between projection and drawing |
| clear frame | `clear_frame.sv` | `Wait`, `Clear`, `Done`; a pixel position | writes black to every pixel of the buffer being drawn |
| draw | `draw.sv` | `Wait`, `Take1`, `Take2`, `Draw`, `Done`; the vertices of one triangle | empties the fifo, one triangle after the other |
| draw triangle | `draw_triangle.sv` | `Wait`, three edges with a pause each, `Done` | one triangle as three lines |
| draw line | `draw_line.sv` | `Wait`, `Draw`, `Done`; position and error term | Bresenham's algorithm, a pixel a cycle |
| frame buffer | `frame_buffer.sv`, `ram.v` | which of two memories is written, registered addresses, the memories and their read path | pixel write, pixel read, change of roles on a frame edge when the frame is done |
| VGA controller | `VGA_controller.sv`, `vga_clk.v` | position of the scan, sync and blank signals | free-running scan |
| display | `display.sv` | angle and angular velocity of three axes, three coordinates | on every frame edge: turn, accelerate, move, brake, by the key held down |
| projection arithmetic | `project_cal.sv`, `project_triangle.sv`, `get_*_matrix.sv`, `euler_angle.sv`, `matrix_lib.sv` | none | rotation, model, view and projection matrix, their products, division by w, viewport, clip test |
| fixed point, trigonometry | `fixedpoint_lib.sv`, `trigonometric_lib.sv` | none | conversion, sum, product and quotient with rounding and saturation; sine by CORDIC rotations, patched near 0 and a right angle |
| keyboard host | `software/usb_kb/main.c`, `usb.c` | the place in the program, the key-code register; in the USB chip: message register, pointer to the current list, memory | resets the chip, enumerates the keyboard by nine transfers, then polls it and stores the key code; notices removal |
| HPI access functions | `software/usb_kb/io_handler.c` | the output registers of six parallel ports | `IO_init`, `IO_write`, `IO_read`: move the pins of the USB chip one by one |
| HPI bridge | `hpi_io_intf.sv` | one register per pin, one for each direction of the data | registers the pins; drives the data bus while the *unregistered* write strobe is active |
| JTAG UART driver | `software/usb_kb_bsp/drivers/` | two ring buffers, the interrupt enables, a count of silent ticks and its limit | read, write, close, ioctl; the interrupt routine; the alarm that watches for the host |
| file descriptors | `software/usb_kb_bsp/HAL/src/` | the table `alt_fd_list`, its high-water mark `alt_max_fd` | open, close, lock, unlock, ioctl, fcntl; redirection of the standard streams at the start |
| rest of the BSP | `software/usb_kb_bsp/` | heap, alarms, caches, exception entry | start-up and services the program does not call |
| object converter | `ObjConvertScript/ramWriter.py` | none | turns an `.obj` file into the source of a list writer |
| colour mapper, hex driver | `color_mapper.sv`, `HexDriver.sv` | none | combinational: a pixel to its colour, the two digits of the key code to a display each (`renderer_top.sv:303`) |

### 1.2 Interaction in a frame

    list_writer --> triangle_list --> project --> triangle_fifo --> draw
                                         ^                           |
    keyboard --> display --(pose)--------+                     draw_triangle
                    ^                                                |
                    | frame edge                                draw_line
    VGA_controller -+--> control_unit                                |
          |                                 clear_frame --> frame_buffer (write side)
          +----------------------------------- scan <------ frame_buffer (read side)

A frame starts when the control unit, in `Done`, sees a rising edge of the
vertical sync. In that cycle the frame buffer changes the roles of its
memories. The control unit then goes to `Clear` and starts *both* the clear of
the new write memory and the projection of the list; `clear_done` sends it to
`Draw`, in which draw empties the fifo that the projection has filled. When
draw is done the control unit returns to `Done` and waits for the next edge.
Meanwhile the scan reads the other memory and display moves the object on every
edge, whether the frame is finished or not.

The program writes the key code into a parallel port, which display reads; it
reaches the USB chip through the ports and the bridge; and it prints through a
file descriptor, the driver and the JTAG UART to a host that may or may not be
there.

### 1.3 What is hard here

Nothing in this system is a handshake in both directions. Correctness rests on
the relative *timing* of machines that do not look at each other:

* the projection writes without looking at `is_full`, the control unit starts
  the drawing without looking at `proj_done`, the list writer does not look at
  `list_full`, the fifo is never flushed between frames;
* display changes the pose on every edge, while the projection reads it for
  eight cycles a triangle;
* drawing may outlast a scan of the monitor; the buffers must not change then;
* the pixel address passes a register and the pixel data does not; the read
  path is four cycles long; VGA and pipeline run on different clocks;
* a reset may fall into any cycle, leaves the memories alone, and is missed by
  the VGA controller when it is shorter than one of its cycles;
* all numbers live in narrow registers, some compared signed and some unsigned;
* one line that never ends freezes the picture until the next reset.

The keyboard host is a program beside the pipeline, coupled to it only by the
key-code register. It shares a message register and a piece of memory with the
USB chip, which runs by itself: messages are bits that merge and are cleared
by hand, a list is submitted again and again until *any* message is flagged, so
that answers and questions get out of step, and the keyboard may be pulled out
between any two accesses.

* Every access of that program to the chip is a sequence of port writes. The
  chip looks at pins that are one or two registers behind the program, the
  driver of the data bus is opened by a signal that is a cycle ahead of the
  strobe, and key 0 resets the bridge but neither the program nor the chip.
* The console is the one place with an interrupt. Program and interrupt routine
  work on the same ring buffers without a critical section, on copies of
  indices; each disables an interrupt that the other one must enable. There is
  no operating system, a call that waits for the host spins, and without a
  system clock, as in this system, no alarm limits the wait.
* The projection is a chain of narrow fixed-point operations whose overflow
  flags nobody reads: whatever saturates or wraps must not be seen.

`PROJECT.json` lists each of these hazards at its line, with the properties
that would catch it going wrong.

### 1.4 What makes each part correct

* *triangle fifo*: a first-in first-out queue of bounded length; `num` counts
  its elements.
* *pipeline* (control unit, list, projection, fifo, clear, draw): frames do not
  mix, no triangle is lost, every machine is ready when a frame starts, the
  fifo is used only in the way it supports.
* *draw line*: the pixels of a line lie between its end points and next to the
  straight line, and it ends.
* *frame buffer and scan*: the monitor shows complete frames only.
* *display*: no sum that wraps ever shows; friction brakes and does not
  reverse; the object comes to rest.
* *keyboard host*: no transfer is skipped, what reaches the hardware is what
  the keyboard reported, the wait for the chip ends.
* *HPI bus*: for the program the chip is a register file, though the access
  passes two registers and the bus changes its driver; no two drivers at once.
* *projection*: a rotation is one at every angle; a vertex appears where
  geometry puts it or not at all; nothing jumps when an angle or a coordinate
  wraps.
* *console*: characters keep their order, none is left behind, calls return;
  the standard streams stay connected; a locked device has one user, or one more
  that the lock overlooked.
* *renderer*: every frame shows all triangles of the object, all projected with
  one pose; frames go on for ever.

## 2. The models

One step of a hardware model is one rising edge of `Clk`. Every module has an
action `Tick(Reset, <input wires>)` that gives all its registers their next
values: the `always_ff` and the `always_comb` next-state logic in one formula.
Output wires are state functions (`draw_done`, `is_empty`, `fifo_w`, ...), so
that the composition can pass the outputs of one module to the `Tick` of
another, as the top level does. A few definitions beside the real ones are
marked as mutants in the comment above them: they are plausible errors, used to
confirm that the property that should catch them does.

| module | models | notes |
| --- | --- | --- |
| `TriangleFifo`, `FifoSize` | `triangle_fifo.sv` and its memory | its legal users do not read and write in one cycle while it is empty or full (with others `num` would go wrong); checked inside `Pipeline`, proved about alone |
| `BoundedQueue` | what the fifo promises | abstract specification; `TriangleFifo` implements it under the mapping queue = the `num` words from `r_addr` on |
| `ControlUnit`, `ClearFrame`, `ListWriter`, `TriangleList`, `Projector`, `Draw` | the module of the same name | instantiated by `Pipeline` |
| `Pipeline` | `renderer_top.sv` without draw_triangle, frame buffer, VGA and display | the environment is free: frame edges, end of a triangle's drawing, new pose and reset may come in any cycle |
| `DrawTriangle`, `FrameBuffer`, `VgaController` | the module of the same name | instantiated by `Renderer` |
| `DrawLine` | `draw_line.sv` | also alone, driven by any set of lines |
| `Renderer` | `renderer_top.sv` | EXTENDS `Pipeline` and replaces its environment by the real modules; what remains free is the pose on a frame edge and the reset |
| `Display` | `display.sv` | alone; the key code may change at any time |
| `TransferLists` | the lists of transfer descriptors in `usb.c` and `main.c` | data and what makes it well-formed; no state |
| `UsbHost` | `main.c`, `usb.c`, with the USB chip and the keyboard | EXTENDS `TransferLists`; alone |
| `FixedPoint` | `fixedpoint_lib.sv` | a number is the signed integer in its register, a format is a scale and a largest value; no state |
| `Projection` | `project_cal.sv` and everything below it, `trigonometric_lib.sv` | EXTENDS `FixedPoint`; operators in the order of the source's instances; no state |
| `Scene` | `display.sv` and `project_cal.sv`, as the top level joins them | EXTENDS `Display` and `Projection`; `view` is what the projection makes of the pose |
| `HpiChip` | what the USB chip does with an access | external; no state |
| `HpiRegisters` | what `IO_read` and `IO_write` promise | abstract specification: a register file |
| `HpiBus` | `io_handler.c`, `hpi_io_intf.sv`, the chip's side of the bus | one step is a rising edge of `Clk`; implements `HpiRegisters` |
| `JtagUart` | the JTAG UART driver, with the UART and the host | one step is one access to what program, interrupt routine, UART and host share |
| `FileTable` | descriptors of the HAL | no call is interrupted by another, so a call is one step |
| `Console` | both | EXTENDS `JtagUart` and `FileTable`; a call on a descriptor reaches the driver |
| `*Proofs` | | the theorems |

In `UsbHost` one step is one access of the program to what it shares with the
chip, together with what it does up to its next one, or one step of the chip or
the keyboard. `pc` names the access: `Submit` and `Status` are the `while` that
submits a list, `Read` and `Clear` are `UsbWaitTDListDone`, `RetryRead` ..
`RetryControl` are `UsbGetRetryCnt`. `step` is the transfer, 1 to 9 for the
enumeration and 10 for the poll. The chip is external; what is assumed of it:

* it carries out the list `HUSB_SIE1_pCurrentTDPtr` points to: its first TD,
  after which it writes the control word the program looks at, and then the
  rest; then it clears the pointer and sends `TDListDone`. Submitting a list
  while another is being carried out therefore rewrites the control word and
  has no other effect; submitting it later starts it;
* messages are bits of one word (`lcp_cmd.h`) and merge; sending one sets the
  flag in `HPI_STATUS`, reading the register clears the flag (`usb.c:102`),
  writing 0 to it clears the word;
* the first TD of a transfer is taken by the keyboard, or not answered and
  retried; a keyboard takes one at its address only after it has been given one, and forgets it when it is
  pulled out or the port is reset;
* pulling out and plugging in send a message each.

In `HpiBus` the program makes the accesses of `IO_init`, `IO_write` and
`IO_read` in their order, one every `Gap` cycles or later; the pins follow two
registers behind. A read strobe shows data after `AccessTime` cycles, a bus that
nobody or more than one drives is `Unknown`, and a write takes the word the bus
held last, since the bridge lets go of it a cycle before the strobe ends. A
pressed key 0 sets `disturbed`.

In `JtagUart` the program's call is a record: the place in the function (`at`),
the copies of `in` and `out` it has read, how many characters are left. The
interrupt routine runs whenever an enabled interrupt is pending, holds the
program up, and lets UART and host go on. Characters are numbered in the order
they are sent, modulo twice the buffer's length, so that a loss, a copy or an
overtaking shows. The board support package is built without optimisation: a
loop that waits reads `host_inactive` again each time, although it is not
volatile.

How the models abstract:

* *Data.* A triangle is a model value (`Pipeline`) or three pixels
  (`Renderer`). The projection is a pair of constant operators `Projected(pose,
  triangle)` and `Clip(pose, triangle)` about which only the types are assumed:
  what is shown holds whatever the arithmetic computes. A memory of the frame
  buffer is the set of the addresses that hold a lit pixel. In `ListWriter` the
  states `W1`..`W12` are the numbers of the triangles. A coordinate of `Display`
  moves in steps of 2^5 in a word of 2^16 and is counted in steps. `Scene` has
  the cube of `list_writer.sv` in its own coordinates.
* *Sizes.* The screen, the scan, the fifo, the object and the width of the
  registers are constants, with the assumptions the proofs need and the values
  of the source in a comment.
* *Numbers.* Where a register may wrap, its width is modelled: `Wrap` and
  `Signed` in `DrawLine`, `Signed` and `Unsigned` in `Display`, `Saturated` and
  the formats in `FixedPoint`.
* *History variables.* `drawn` and `frame_pose` (`Pipeline`), `painted` and
  `shown` (`Renderer`) record what the frame has drawn and which frame is
  shown; `disturbed` (`HpiBus`) whether key 0 was pressed in a call, and `sent`,
  `heard`, `typed`, `taken` (`JtagUart`) number the characters. No guard reads
  them. `resets` bounds the resets of a run.
* *Initial states* are those after a reset, with memories that were never
  written.

## 3. The runs

| run | question | answer |
| --- | --- | --- |
| `pipeline` | do machines that ignore one another stay in step? | yes: `NeverBoth`, `NothingDropped`, `FramesDoNotMix`, `ReadyForFrame`, and the fifo in place is a queue, `FifoIsQueue` |
| `line` | are lines drawn correctly in narrow registers? | yes, the drawable ones: `StaysInBox`, `NearLine`, `ComesCloser`, `DrawableLineEnds` |
| `line_any` | does every line end? | no, see finding 2 |
| `display` | do angles and velocities survive the arithmetic of short registers, does friction brake, does the object come to rest? | yes: `InRange`, `TurnsByVelocity`, `FrictionBrakes`, `ComesToRest` |
| `display_smooth` | does one frame change a velocity by one acceleration only? | no, see finding 3 |
| `usb` | does the keyboard program keep in step with the chip? | as far as keys and transfers go: `UsbTypeOK`, `Enumerated`, `KeyIsReported`; its lists are right: `ListsWellFormed` |
| `usb_wait` | does its wait for the chip end? | no, see finding 4 |
| `renderer` | does the whole show complete frames, each of one pose, for ever, and again after a reset in any cycle? | yes: `RendererTypeOK`, `ShowsOneFrame`, `ScanShowsPicture`, `OnePosePerFrame`, `EdgesUnbroken`, `OnlyEdgesShown`, `AllButLastDrawn`, `FrameEnds`, `FramesGoOn` |
| `renderer_all` | are all triangles drawn? | no, see finding 1 |
| `hpi` | does an access of the program reach the chip as it is meant, whatever the pace and the reset key? | yes: `NoContention`, `AddressHeld`, and the refinement `IsRegisterFile` |
| `scene` | does the object keep its shape and its place, at every angle and along every axis? | yes, within the two limits of depth: `RotationIsRigid`, `PlacedExactly`, `NothingJumps`, `SideWrapHidden` |
| `console` | are characters kept in order, are none left behind, do calls return, are locks worth something? | yes: `ConsoleTypeOK`, `StreamsInOrder`, `NothingStranded`, `StandardStreams`, `LockHonoured`, `CallsReturn`; but a lock may overlook one user, see finding 5: `LockAlmostExclusive` |

### 3.1 Bounds, and why they are enough

* `pipeline`: three triangles, of which one is clipped in one of two poses, and
  a screen of 18 pixels, just what the timing assumption `ProjectionTime <=
  H_TOTAL * V_TOTAL` asks for (8 * 2 + 2). This is the tightest case: the
  projection ends in the very cycle in which the clear does. Resets, frame
  edges and the end of drawing come in any cycle, without bound. The theorems
  cover every size.
* `line`: registers of 4 bits in place of 10, and all lines from the four
  corners and the middle of the 16 x 16 square to any of its points: every
  slope in every direction, extents up to 15, of which those of 8 and more are
  already negative when read as signed. The theorems cover every width.
* `display`: all three axes and a key of each kind, in short registers (a full
  turn of 4, velocities up to 2, words of 5 bits); the theorems cover every
  width. `display_smooth` has the constants of the source (12 bits, a full turn
  of 1608, velocity limit 32) and one axis.
* `renderer`: a screen of 9 x 3 pixels and a scan of 10 x 6, four triangles, two
  poses. In pose `p` the triangles are small and one is clipped; in pose `q`
  they span the screen, and drawing lasts longer than one scan. A scan lasts
  120 cycles and a projection 26 (840000 and 90 in the original), so an edge
  may come while a frame is being drawn, and none while it is being projected.
  One of the triangles starts on the corner that the control unit keeps dark.
  The object rests in `q`, moves on to `p` at any frame and stays there
  (`OneMove`). One cycle of reset (`MaxResets`) may come at any time, in `q` and
  in `p`, seen or missed by the VGA clock, after which the object stays at home
  (`HomeAfterReset`): poses play no role in what a reset leaves behind, which is
  the content of the memories, the position of the scan and the read path. The
  run has 196 061 states.
* `usb`, `usb_wait`: two keys and "no key"; everything else is finite by itself.
  Removal, plugging in, unanswered transfers and restarts are not bounded. The
  keyboard may be there or not at the start.
* `hpi`: a memory of two words, so that the pointer wraps and words differ; data
  two cycles after the strobe; the least `Gap` for it, 6, which is what an
  instruction of the Nios takes (a larger one only adds waiting, and `Wait` may
  last as long as it likes anyhow). With a `Gap` smaller by one, a read returns
  the word too early and the run finds it. Every sequence of calls, every pace,
  key 0 in any cycle; the theorems cover all sizes.
* `scene`: the arithmetic has the constants and widths of the source. What is
  bounded is the way of the object (`Journey`): at its start the cube turns
  through all 1608 angles about one axis, about two and about three that have
  turned equally far; unturned, it moves along z through all 256 positions and,
  at two distances, along x and along y through all of theirs: that of the start
  and 100, the last one at which no vertex is `Distant`, so that `PlacedExactly`
  and `SideWrapHidden` say something at both. Acceleration and
  friction are one unit and so is the velocity limit, so that no angle is
  skipped.
* `console`: buffers of three places, fifos of one, write interrupt when the
  fifo is empty, `IntMax` of 4 and timeouts of 2 (an alarm) or 4 (none), calls
  of one and of three characters, one more than the buffer holds; in the source
  2048, 64, 8, 2^31 - 1, and 10 or none. What matters is that a call can be
  longer than the buffer, the buffer longer than the fifo, and indices wrap.
  Six descriptors, three beyond the standard streams: one
  that locks, one that is overlooked and one that is opened meanwhile. The constraint `Usage`
  keeps tables and traffic apart: either descriptors come and go while no
  character moves (`Quiet`), or characters move through the standard streams and
  one descriptor that does not block (`Streaming`), one direction at length or
  both with their first character (`Traffic`). The theorems have no such bound;
  the liveness holds within it.

Deadlock is checked in all passing runs: a clocked circuit always has a next
state, and so have the chip, the keyboard and the host.

### 3.2 Fairness

* `DrawLine!FairSpec`: weak fairness of `Work`, the cycles in which a line is
  being drawn. The clock does not stop.
* `Display!FairSpec`: weak fairness of `FrameEdge`. The VGA controller runs
  freely and no module can hold it up; a key may change between any two frames.
* `UsbHost!FairSpec`: weak fairness of the program (`Host`), of the chip's
  start of a list (`Fetch`), of its first TD (`FirstTD`) and of its end
  (`Finish`). Neither processor stops,
  and every list of the chip ends, answered or not. Nothing is assumed of the
  keyboard: no fairness makes it answer.
* `Renderer!FairRendererSpec`: weak fairness of `RendererRun`, the cycle without
  reset. Resets are bounded by `MaxResets`: holding the button would stop every
  frame. The end of each line, triangle and frame is then *derived* from the
  modules; no fairness is assumed of them.
* `Console!FairSpec`: weak fairness of the program's call (`CallStep`,
  `CloseEnd`), of the interrupt routine and of the alarm's tick: the processor
  and the clock do not stop. The host may stay away; that it polls is a
  premise of `CallsReturn` where it is needed (`Polls`).

### 3.3 The less obvious properties

* `NeverBoth`. The fifo miscounts when it is read and written in one cycle
  while empty or full. No signal excludes that. It does not happen because
  clear and projection start together and the clear, of 307200 cycles, outlasts
  a projection of eight cycles per triangle; the bound is an assumption,
  `PipelineAssumption`, which an object of 38400 triangles or a smaller screen
  would break.
* `FramesDoNotMix`, `ReadyForFrame`. Nothing is flushed between frames. Each
  machine has to be back in its waiting state by itself, with the fifo empty
  and the list rewound.
* `OnePosePerFrame`. Display moves the object on *every* edge. The pose is
  constant while a frame is projected only because the projection starts with
  an edge and ends before the next; it would fail with a projection longer than
  a scan.
* `ShowsOneFrame`. The memory being shown holds all pixels of one frame and
  none of another, in spite of the registered addresses and the unregistered
  data. The one exception is the corner pixel: between drawings the drawing
  position is parked there, and the last write to it is black.
* `ScanShowsPicture`. With a read path of four cycles and a scan of two
  cycles a pixel, the monitor gets the pixel two positions before the one the
  scan is at. In the first two columns of a row this is the clamped address
  of the blank before it, the last pixel of the row above.
* `Enumerated`. A list submitted twice sends two messages, and the second is
  taken for the answer to the next transfer; so is the message of the endpoint
  list, and a message that a removal left behind. All the same no transfer is
  skipped, because the control word in memory, and not the message, decides,
  and because submitting rewrites it. The exception is a keyboard that was
  pulled out and put back during the enumeration, which has lost its address
  and is not enumerated again before the next reset.
* `KeyIsReported`. The poll does not look at the control word: the key code is
  read whether the keyboard has answered or not. Stale codes of an earlier
  keyboard cannot appear, because the longer lists of the enumeration lie over
  the word of the report: an unanswered first poll gives the low byte of an
  address, 0x20, which is no key `display.sv` knows.
* `IsRegisterFile`. A call has its effect once, in one step, between its
  beginning and its end, although the program's access is six port
  accesses and the bridge adds two registers. A reset in the middle cuts a
  strobe: the chip may take half an access, and the word of a read may be lost
  (`Disturb`). What is shown is that this ends with the call: the next one is in
  order again, without the program's help.
* `NoContention`. The driver of the bus is opened by the port, a cycle before
  the strobe it belongs to, while the chip is still let go of through a
  register. It relies on the order in which `io_handler.c` moves `cs`, `r` and
  `w`; before `IO_init` both strobes are low and both sides do drive the bus.
* `RotationIsRigid`, `NothingJumps`. The sine is computed by eight rotations, is
  wrong near 0 and near a right angle, and is patched there between two
  thresholds. The matrix stays orthonormal within 1/25 and no unit of turning
  moves a vertex by more than two pixels, also where quadrants are folded and
  where the angle passes from a full turn to 0.
* `PlacedExactly` compares the pixel with the exact position, `Numerator /
  Denominator`, computed without rounding. Close to the camera the quotient has
  too few digits, and beyond a distance of 112 the sums saturate at -128, whose
  magnitude does not exist, and the object collapses to the middle of the screen
  (`Distant`); both are excepted.
* `SideWrapHidden`. A coordinate wraps at 16 bits and would throw the object to
  the other side; nothing of it is visible at that moment, neither in the frame
  before nor in the one after, while it is in front of the camera and not
  `Distant`. Along z no such
  property holds: an object that has passed the camera comes back mirrored.
* `NothingStranded`. The interrupt routine disables the write interrupt when
  it finds the buffer empty, and a call enables it after it has committed
  characters; the read interrupt is disabled while the buffer is full and
  enabled by the call that took something, after its *last* look. In each of
  these windows the other side may run; no character is left that nobody would
  fetch.
* `LockAlmostExclusive`. `alt_fd_lock.c:42` wants a lock only when the device is
  not used by others, but its loop stops below `alt_max_fd`: one other user,
  the highest descriptor, is overlooked (finding 5). What holds is that there is never more
  than this one, and never a second lock. `LockHonoured`: no descriptor comes to
  refer to a device that is locked, although the check looks only up to a mark
  that moves with every allocation.
* `CallsReturn`. A blocking write to a full buffer and a close return when the
  host takes the characters, or when an alarm finds it absent. In this system
  there is no clock for the alarm (`ALT_SYS_CLK` is none), the timeout stays at
  its largest value, and `printf` returns only if the host polls. `Polls` is
  weak fairness of `HostPoll`: a poll of an empty fifo, when the host is known
  to be active already, changes nothing and is not asked for. Otherwise the
  premise would be false in just those behaviours in which a driver leaves a
  call or a character waiting. Of the two mutants, one keeps an alarm from
  ending the wait; the other never enables the write interrupt, and breaks the
  last two conjuncts without an alarm too (`Timeouts = {4}`).
* `EdgesUnbroken`, `OnlyEdgesShown` and `AllButLastDrawn` tie pixels to
  triangles. A pixel belongs to an edge at step k (`PixelOf`) when it is k steps
  along the longer extent, in the rectangle of the edge and within one pixel of
  the straight line (`OfLine`). A frame about to be shown has such a pixel for
  every step of every edge of every triangle drawn, and has no other but the
  corner; the triangles drawn are the visible ones of the first n - 1 of the
  list, in order. Draw, draw_triangle and draw_line hand over to one another for
  each triangle and each edge and rest on a pixel in between, which is written
  all the same: a start taken a cycle early, or a resting place that is on no
  edge, would break one of the two.

## 4. Findings

1. **The last triangle is never drawn** (`renderer_all`; `project.sv:111`,
   `triangle_list.sv:65`). Reading the last element sets `r_addr` to 0 in the
   same cycle; the projection sees `list_read_done` before it has projected
   the triangle it just read, and is done. On a closed mesh such as the cube
   every edge belongs to two triangles, so the missing one is not noticed.
2. **Two kinds of line never end** (`line_any`; `draw_line.sv:87` and `:92`).
   `dx` of 512 to 639 is negative as a signed number of 10 bits, and the walk
   misses its end; the run shows it in registers of 4 bits. So does the walk of
   a line of one pixel in both directions: `err` starts at -1, and the first
   step is in y alone. Either set of lines, `ShortLines` or `LongLines`, is
   enough for the violation. The frame is never finished and the picture
   freezes, which the repository's README knows as "when the screen is
   locked".
3. **A key can throw the rotation round** (`display_smooth`; `display.sv:112`).
   The limit of `w`, `a`, `q` is an unsigned comparison of a signed velocity:
   from -4 it goes to +32 in one frame. `s`, `d`, `e` use `$signed`.
4. **The program may wait for ever for a message it has erased** (`usb_wait`;
   `usb.c:542`). `UsbWaitTDListDone` reads the message register and then clears
   it; a message sent in between is lost. Normally the flag is seen first and
   the message is there. In the run the first list is submitted once more, just
   after it has ended; its second message is erased, but the flag stays. With
   that flag the next transfer is not waited for: the first reading finds
   nothing, and the program reads and clears in a tight loop while the chip
   finishes. Nothing is submitted in that loop, so no further message comes
   while the keyboard stays where it is.
5. **A lock may be granted for a device that is in use**
   (`alt_fd_lock.c:61`). The comment above it wants the lock only "if there are no
   other open file descriptors which reference the same device". `alt_max_fd` is
   the highest descriptor ever in use, and the loop runs while `i < alt_max_fd`.
   When `/dev/null` is opened as 3 and as 4 and then locked through 3, the lock
   is granted: a behaviour of `Console` (actions `Open`, `Open`, `alt_fd_lock`).
   The JTAG UART is safe from this: the standard streams, which are always
   found, refer to it, and it is never locked at all. There is no run for this
   finding; `LockAlmostExclusive` in run `console` states what is left of the
   claim, for exactly this one user.

Because of 2, the properties of lines are stated for `Drawable` lines,
and the triangles of the renderer runs have only such edges.

## 5. The proofs

All theorems hold for every value of the constants that satisfies the named
assumptions; no step is left without a proof.

| theorem | says |
| --- | --- |
| `TriangleFifoProofs!FifoInvariant` | types and `NumCountsElements`, for every size |
| `TriangleFifoProofs!FifoImplementsQueue` | the ring buffer implements `BoundedQueue` |
| `PipelineProofs!PipelineInvariant` | the inductive invariant `IInv` |
| `PipelineProofs!TypeCorrect`, `ReadAndWriteExclude`, `NoTriangleDropped`, `FramesAreSeparate`, `MachinesAreReady` | the invariants of run `pipeline`, for every object, screen, projection and environment |
| `PipelineProofs!PipelineFifoIsQueue` | in the pipeline the fifo is a bounded queue, with no condition left on its users |
| `PipelineProofs!OnlyTheObjectIsDrawn` | every triangle that is drawn is one of the object, projected with the pose of the frame and not clipped |
| `DrawLineProofs!LineStaysInBox`, `LineIsNear`, `LineComesCloser` | the safety properties of run `line`, for registers of every width and every set of lines; `LineTypes` is the type invariant they rest on |
| `DisplayProofs!AnglesStayInRange`, `FramesTurnByVelocity`, `FrictionOnlyBrakes` | those of run `display`, for every width and limit; the last assumes `angle_friction = 1` as in the source |
| `DisplayProofs!SinesOfAcuteAngles` | every angle the display can hold is folded into the first quadrant before a sine is computed, and no difference saturates on the way |
| `DisplayProofs!EveryRotationIsRigid` | `RotationIsRigid`, for all combinations of the three angles, if the table of sines is round (`SinesAreRound`) |
| `DisplayProofs!LongDivisionDivides` | the loop of `fxp_div`, bit by bit, computes the quotient of any two numbers, or the largest number when it has no room, as when the divisor is 0 |
| `DisplayProofs!RestingObjectIsPlaced` | `PlacedExactly`, for every position; assumes `TwoPi = 2 * Pi` as in the source |
| `DisplayProofs!SideWrapIsHidden` | `SideWrapHidden`, for all angles and positions; assumes `SinesAreRound` and a number of positions, 64 at least, that divides the 2^16 of a coordinate (2^11 in the source) |
| `UsbHostProofs!UsbTypeCorrect`, `NoTransferSkipped`, `KeysAreReported`, `ListsAreWellFormed` | the invariants of run `usb`, for every set of keys |
| `RendererProofs!RendererImplementsPipeline` | the composed renderer is one of the environments `Pipeline` allows |
| `RendererProofs!RendererFramesAreSeparate` | hence its safety properties hold of it |
| `RendererProofs!PoseHoldsForFrame` | `OnePosePerFrame`, for every screen, scan, object and projection |
| `RendererProofs!TrianglesDrawnInOrder`, `VerticesAreDrawn` | `AllButLastDrawn`, likewise, and `VerticesShown`: the vertices of what was drawn are in the frame, drawable or not |
| `RendererProofs!EdgesHaveNoGaps`, `NothingElseIsShown` | `EdgesUnbroken` and `OnlyEdgesShown`, for every screen, object and projection, when the object is drawable (`DrawableObject`) |
| `RendererProofs!RendererTypes`, `MonitorShowsOneFrame`, `MonitorShowsScan` | `RendererTypeOK`, `ShowsOneFrame` and `ScanShowsPicture`, for every screen, scan, projection and any number of resets, when the object is drawable (`DrawableObject`) |
| `HpiBusProofs!BusTypeCorrect`, `NoTwoDrivers`, `AddressesAreHeld`, `BusIsRegisterFile` | those of run `hpi`, for every memory, access time and pace that `GapAssumption` allows |
| `ConsoleProofs!ConsoleTypeCorrect`, `StandardStreamsStay`, `LocksAlmostExclusive`, `LocksAreHonoured`, `NothingIsStranded`, `StreamsStayInOrder` | the safety properties of run `console`, for any number of descriptors, size of buffers and fifos, and any mixture of calls |

The arguments:

* **Fifo.** `NumCountsElements` (`w_addr` is `num` places after `r_addr`) is
  inductive for legal users. The refinement rests on two lemmas about
  `Window`, the words from an address on: a write behind it appends,
  `WindowAppend`, a step of the read address drops the head, `WindowTail`.
* **Pipeline.** `FramesDoNotMix` is not inductive: from "the control unit is
  clearing" nothing follows about the projection. The missing fact is that the
  two run in lockstep. `IInv` says, for each state of the projection, how many
  pixels have been cleared: with the k-th triangle behind it, `Take1` means
  8k, `Take2` 8k + 1, `Proj` 8k + 2 + its counter, `Write` 8k + 7, and at most
  k triangles are in the fifo. So when the clear is done at
  `H_TOTAL * V_TOTAL >= ProjectionTime`, the projection is. Around this are the
  phases of a frame (`InClear`, `InDraw`, `InDone`) and of the loading. The
  proof has one lemma per phase of the control unit.
* **Pipeline to fifo.** `FifoUsedLegally` shows from `IInv` that a pipeline step
  is a legal step of `TriangleFifo`; `FifoImplementsQueue`'s argument is
  repeated for the instance.
* **Line.** With i and j the steps made in x and y, the error term is the start
  value plus `j * dx - i * dy` (`Walk`), in an interval shorter than the longer
  extent. That i or j would step past its end contradicts this interval
  (`NoMultiple`: numbers in an interval of length X do not differ by a multiple
  of X). `Registers`, `NoOverflow` and `OneStep` show that for
  drawable lines the arithmetic in registers is that of the integers.
* **Display.** `Types` (both ranges) is inductive because `DisplayAssumption`
  makes every sum fit the word: `TwoPi + angle_v_max < HalfWord`.
* **Keyboard host.** `Enumerated` is not inductive: nothing in it says why the
  program may go on. `InStep` adds that a control word reading "done" belongs to
  the transfer of `step` while the program waits for it (`Waiting`), and that it
  does not read "done" while the chip still owes one (`Due`): submitting
  rewrites it before the chip can start. `KeysKnown` follows the word of the
  report from the last list of the enumeration into the polling loop.
* **Renderer.** A cycle of the renderer is a `Tick` of the pipeline whose
  `frame_clk` is the wire `VGA_VS`, a Boolean, and whose `draw_triangle_done`
  can be high only while `draw_triangle_start` is: that needs the invariant
  `Wires`.
* **The picture.** `ShowsOneFrame` speaks of a memory that was written a frame
  ago. `PictureInv` adds what the memory being written holds in each phase
  (`Making`): in `Clear`, nothing behind the pixel the clear is at
  (`ClearedSoFar`, with the count of cleared pixels from the pipeline's
  invariant); in `Draw`, what was asked for, the pixel on its way through the
  address register included; in `Done`, the same but for the corner
  (`SamePicture`). That the pixel on its way at the end of the drawing is the
  corner, and no other, rests on `Parked`: between triangles draw_line waits at
  (0, 0). `MemoryStep` says what a cycle does to the two memories by role.
* **On the screen.** A pixel asked for beyond the screen would alias to another
  row. That there is none is carried into the renderer from two sides. `Traced`
  (`PipelineProofs`) follows a triangle backwards: what is drawn, what is in
  the fifo and what the projection holds come from the object through the pose
  of the frame, and were not clipped. `LineOnScreen` takes the walk of
  `DrawLineProofs`, instantiated for the line in place: it stays between the
  vertices. The hypothesis is `DrawableObject`: every projected triangle that is
  not clipped has its vertices on the screen and edges that draw_line can
  follow. It is a hypothesis because the code does not see to it: the clip test
  lets x = 640 and y = 480 pass (`project_triangle.sv:46`), and some edges never
  end (finding 2). `MCRenderer` asserts it of the run's instance.
* **Poses.** An edge of the sync may come at any time while a frame is *drawn*,
  and none while it is *projected*. `TimingInv` compares two clocks: the time to
  the next edge, `EdgeIn`, from the position of the scan, and the time the clear
  still takes, `ClearIn`, within which, by the pipeline's lockstep, the
  projection is over. A frame begins with an edge, when the first is longest.
  `SyncInv` and `EdgeInv` say where in the scan the sync and its detector can
  be, just after a reset included, when the VGA clock may have missed it. This
  needs of the scan only that the picture is its upper left and that the sync is
  one run of lines below the picture (`ScanAssumption`).
* **Order of triangles.** `StreamInv`: while the object is projected, what was
  drawn, the fifo and the triangle in hand are, in this order, the unclipped
  ones of the first `Processed` triangles of the list, where `Processed` is read
  off the state of the projection and the list's address. It ends at n - 1 and
  not n, finding 1.
* **Vertices.** Every vertex is the first pixel of an edge. `VerticesSoFar` says
  for each state of draw_triangle which vertices are in the frame (`Lit`), or
  about to be asked for (`AtStart`), so that a triangle is left with its three.
* **Edges.** `WalkIsNear` (`DrawLineProofs`) turns the invariant of the walk into
  a statement about the one pixel that is being asked for: it is as many steps
  along the line as the walk has made, and near it (`PixelOfLine`).
  `EdgesUnbroken` then is carried like the vertices, but by step: `EdgesInv`
  says which steps of the present edge have their pixel (`Covered`), which edges
  of the triangle are done, and that all triangles before it are (`Whole`), the
  last of them while draw waits. For `OnlyEdgesShown` the question is the
  opposite one, where each write comes from. `DrawnPixel`: whatever is asked for
  is a pixel of an edge of the triangle in hand or the corner, since draw_line
  rests on a vertex or in the corner (`Resting`), also in the cycle in which a line ends and the next has not
  begun (`RestingStep`).
* **Scan.** `ScanInv` follows an address through the four registers of the read
  path (`Behind(k)`, the pixel k positions back, clamped at the blank), for
  either phase of `VGA_CLK`. It holds from the first line to the vertical sync,
  where the buffers do not change roles.
* **HPI bus.** `Strobes` says, for each call and each number of accesses made,
  what the ports and the two register stages hold, given how many cycles ago
  the last access was (`idle`). From it `NoContention` and `AddressHeld` follow.
  `WordsArrive` adds the data: by the time the program reads its port, the word
  of the chip has passed both registers, which takes `AccessTime + 4` cycles;
  with `AccessTime + 3` both the proof and the run fail. `Correspond` gives the mapped
  state for each place in a call, and each cycle maps to a `Call`, a `Serve`, a
  `Disturb` or a stutter.
* **Console.** `ConsoleInv` has three parts. `TableInv`: the
  standard streams stay connected, everything in use is at most `alt_max_fd`,
  and the one user a lock has overlooked has a higher descriptor. That
  `open` takes the *lowest* free descriptor needs a minimum of a set, which
  comes from the well-foundedness of the numbers. `UartFlow`: for each place of
  call and interrupt routine, what the copied indices still say of the moving
  ones, and who will enable which interrupt. The third says that the descriptor
  of a close in progress stays in use.
* **Characters.** `Ahead(from, i)` is the distance from one index to another
  around the ring. `TxStream` and `RxStream` say by their numbers which characters
  are in the fifo, in the buffer and with the call, and, while a call works on
  copied indices, what these are still worth: its own index is unmoved, the room
  or the piece it has found is still there, because the interrupt routine can
  only make it larger. Fifo and buffer together hold less than twice the
  buffer's length, so the numbering is unambiguous. The routine trusts the
  space it has read once: `isr.space` and the length of the fifo stay within
  `Depth`, so no character is written to a full fifo.
* **Lists.** The nine lists of the enumeration and that of the poll, with either
  toggle, are evaluated: descriptors and data lie one
  behind the other, each in its place (`TransfersWellFormed`).
* **Angles.** `TurnIsExact`: a difference of angles within a full turn fits its
  format; `AnglesFold` is the case distinction of the four quadrants.
* **Scene and display.** A step of the scene is one of the display with the view
  recomputed; the lemma `SceneIsDisplay` carries `AnglesStayInRange` over.
* **Rotation.** Each entry of the matrix is a sum of products that are rounded
  and saturated. `EntriesAreNear`: it is off by one unit and a half at most from
  the sum of the exact products (`Unrounded`), and nothing saturates. The inner
  products of the unrounded rows are known exactly
  (`UnroundedDots`): they are those of a rotation if sine and cosine lie on a
  circle. They lie near one. `SinesAreRound` says how near: each pair is between
  two circles, and stays so when one of the two is shrunk or stretched as another
  pair would do it. It is a statement about 1609 constants, the only hypothesis,
  and TLC evaluates it (`MCScene!TableIsRound`). `UnroundedIsRigid` bounds the
  inner products from it for three independent angles, and `Tolerated` shows that
  the bound, with the rounding added, is within the 1/25 of `Rigid`. TLC looks at
  a few thousand of the 4 * 10^9 rotations; the proof is of all.
* **Division.** `fxp_div` doubles a weight until it exceeds the largest number
  and then halves it, trying each (`Halved`). That the recursive function has a
  value needs no induction: the weight is known to end above 4095 or 65535, so
  that after 16 halvings two candidates agree (`HalvingEnds`). `Part` is the
  invariant of the loop: the digits found so far are those of the quotient.
* **Placement.** `ViewIsCurrent`, the inductive invariant of the scene: what is
  seen is the pose in the registers, after resets too. At rest the matrices are
  computed symbolically (`CameraRows`, `RestingRows`), which leaves for each
  coordinate a product, a sum, a quotient and the viewport. The quotient is
  within half a unit of the exact one (`DividedNear`), the viewport within half a
  pixel of what it is given (`ViewportNear`). Saturation is the other case: a sum
  saturates only for a coordinate that is off the screen, and the pixel stays
  beyond (`CoordinateNear`, `PlacedOnAxis`).
* **Side.** Rows of length 1 have entries that make sqrt(3) at most in magnitude
  (`RowTogether`), so a vertex, however turned, is within 679 units of where the
  object stands, and within 1641 after the camera's factor (`TurnedCoordinates`).
  A coordinate that wraps is within 1024 of a limit of its range (`WrapIsFar`);
  times the factor it saturates at 128 (`FarCoordinate`). The depth is below
  114 (`ModerateDepth`), and the quotient therefore past the border
  (`FarIsBeyond`), also when it is one by 0 (`DividedByNone`).

Assumptions: `SizeAssumption`, `PipelineAssumption`, `ProjectionAssumption`,
`LineAssumption`, `DisplayAssumption`, `OriginAssumption`, `RegisterAssumption`,
`TriangleAssumption`, `ScanAssumption`, `KeysAssumption`, `GapAssumption`,
`MemAssumption`, `UnknownAssumption`, `NoneAssumption`, `InitAssumption`,
`UartAssumption`, `TableAssumption`; TLC evaluates each in a run of its module,
with the values there. Some theorems have a hypothesis of their own:

* `DrawableObject` (above): `RendererTypes`, `MonitorShowsOneFrame`,
  `MonitorShowsScan`, `EdgesHaveNoGaps`, `NothingElseIsShown`;
* `angle_friction = 1` (`FrictionOnlyBrakes`) and `TwoPi = 2 * Pi`
  (`SinesOfAcuteAngles`, `RestingObjectIsPlaced`), as in the source;
* `SinesAreRound` (`EveryRotationIsRigid`, `SideWrapIsHidden`): of constants only,
  evaluated by TLC with run `scene`. What the eight rotations of the sine come
  to, angle by angle, is a computation and not an argument;
* `Positions >= 64` and `Positions * (65536 \div Positions) = 65536`
  (`SideWrapIsHidden`): 2^11 in the source, 2^8 in run `scene`.

Only model-checked:

* the liveness properties (`DrawableLineEnds`, `ComesToRest`, `FrameEnds`,
  `FramesGoOn`, `CallsReturn`), which are outside what the prover does;
* `NothingJumps`, which compares two neighbouring angles: a bound on the change
  of the rotation does not follow from its being rigid, and the change of the
  sine is again a matter of its table, from one angle to the next.

## 6. Not modelled

* *Propagation delay.* The projection is combinational and is given five cycles;
  whether that is enough is not a question a clocked model can ask.
* *Border of the clip test.* It admits x = 640 and y = 480
  (`project_triangle.sv:46`), where a pixel aliases to the next row or lies
  beyond the memory. `Scene` models the test as it is; the theorems
  about `Renderer`'s pixels have the hypothesis `DrawableObject`, and its runs an
  object that satisfies it.
* *Distant and close vertices*, see `PlacedExactly`.
* *Of the libraries*, what nothing instantiates: the pipelined variants, square
  root, conversions from and to floating point.
* *In the keyboard host:* the content of the descriptors (that the device is a
  keyboard is printed and not used), the data toggle of the poll, delays, and
  what the chip does with the endpoint descriptor submitted as a list, other
  than sending a message. An access of `UsbHost` is one step. `HpiBus` shows
  that this is so for the memory, with calls on `HPI_ADDR` and `HPI_DATA`; calls
  on `HPI_MAILBOX` and `HPI_STATUS` move the same pins with another address, and
  what the chip does with these two registers is in `UsbHost` alone. `Display` lets the key code change at any time, which
  allows all that `UsbHost` does.
* *In the console:* a write of no characters; a second close of the same
  descriptor, which dereferences a null device; file systems, since none is
  registered. That a write gives up after one silent tick when the host has been
  away before is in the model, and no property is about it.
* *The rest of the board support package:* start-up and exception entry
  (assembly), caches, alarms and ticks (the system has no timer), heap, time,
  profiling, flash and DMA services and the debug log, none of which the program
  calls; headers of constants, of which `cy7c67200.h` alone has 3327 lines.
* *Display inside the renderer.* There the pose is chosen freely on a frame
  edge and set to its home by a reset, which allows all that `Display` does.
* *Power-up without reset.* The registers start undefined until key 0 is
  pressed; the models start after that.
* *Longer resets* than `MaxResets` cycles in the composed renderer; `Pipeline`
  has no bound on them.
* *PLL and clock skew.* `VGA_CLK` is exactly every other edge of `Clk`; what
  crosses between the two clocks (the sync signal, the scan position) is sampled
  without metastability.
* *Colour mapper, hex driver, fifo writer* (a test module that is commented
  out), *Qsys system* (generated), *object converter* (run by hand).

## 7. Plan

Done, in this order: fifo, pipeline, line, display, renderer, keyboard host;
then the HPI bus, the projection with its scene, the console; each with the
proofs of section 5. The pipeline came first, since everything the renderer
shows rests on it.

What is left:

1. Composition of `UsbHost` with `HpiRegisters` (its accesses as calls) and with
   `Display` through the key-code register.
2. `ObjConvert`: the addresses and counts of the list writer that
   `ramWriter.py` generates.
