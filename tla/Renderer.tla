------------------------------ MODULE Renderer ------------------------------
(***************************************************************************)
(* renderer_top.sv from the triangle list to the monitor: the pipeline     *)
(* with draw_triangle, draw_line, frame_buffer and VGA_controller in place *)
(* of the environment Pipeline.tla leaves open.  What remains open is the  *)
(* pose display.sv moves to, and the reset button.                         *)
(***************************************************************************)
EXTENDS Pipeline, FiniteSets

CONSTANTS Half,                    \* 2^9, of the registers of draw_line
          VGA_H_TOTAL, VGA_V_TOTAL, HSync, VSync,
          NoPicture,               \* before the first picture after a reset
          MaxResets                \* bound on the cycles in which the button is pressed

VARIABLES dt_state,
          dl_state, line_x, line_y, err,
          VGA_CLK, VGA_HS, VGA_VS, VGA_BLANK_N, vga_h, vga_v,
          rw, addr1, addr2, buffer1, buffer2, sampled1, sampled2,
          read_data1, read_data2, read_data,
          \* history: the pixels drawn for the frame in the making, and for
          \* the frame shown
          painted, shown,
          resets    \* cycles with Reset so far

ASSUME OriginAssumption == Origin = <<0, 0>>

\* The registers of draw_line hold the positions on the screen.
ASSUME RegisterAssumption ==
  Half \in Nat \ {0} /\ H_TOTAL <= 2 * Half /\ V_TOTAL <= 2 * Half

\* The registers V1, V2, V3.
ASSUME TriangleAssumption == \A t \in Triangle : DOMAIN t = 1 .. 3

(* The picture is the upper left of the scan, 640 x 480 of 800 x 525; the  *)
(* vertical sync is one run of lines below it, 490 and 491.                *)
ASSUME ScanAssumption ==
  /\ VGA_H_TOTAL \in Nat /\ VGA_V_TOTAL \in Nat
  /\ H_TOTAL < VGA_H_TOTAL
  /\ \E first, last \in V_TOTAL .. VGA_V_TOTAL - 2 : first <= last /\ VSync = first .. last

DT == INSTANCE DrawTriangle WITH curr_state <- dt_state
DL == INSTANCE DrawLine WITH curr_state <- dl_state, x <- line_x, y <- line_y,
                             line <- DT!Edge(V), Lines <- {}
VGA == INSTANCE VgaController WITH
         H_TOTAL <- VGA_H_TOTAL, V_TOTAL <- VGA_V_TOTAL,
         H_VISIBLE <- H_TOTAL, V_VISIBLE <- V_TOTAL,
         h_counter <- vga_h, v_counter <- vga_v
FB == INSTANCE FrameBuffer WITH H_VISIBLE <- H_TOTAL, V_VISIBLE <- V_TOTAL

lineVars == <<dl_state, line_x, line_y, err>>
rendererVars == <<vars, dt_state, lineVars, VGA!vars, FB!vars, painted, shown, resets>>

RendererTypeOK == TypeOK /\ DT!TypeOK /\ VGA!TypeOK /\ FB!TypeOK

(* An object all of whose unclipped projections lie on the screen and have *)
(* edges draw_line can follow.  The code does not see to it: its clip test *)
(* lets x = 640, y = 480 and every edge pass.                              *)
OnTheScreen(pixel) == pixel[1] \in 0 .. H_TOTAL - 1 /\ pixel[2] \in 0 .. V_TOTAL - 1
DrawableTriangle(t) ==
  \A i, j \in 1 .. 3 : OnTheScreen(t[i]) /\ DL!Drawable(DT!Between(t[i], t[j]))
DrawableObject ==
  \A po \in Pose, o \in OrigTriangle : ~Clip(po, o) => DrawableTriangle(Projected(po, o))

-----------------------------------------------------------------------------
\* The wires DrawX, DrawY of the top level.
DrawXY == CU!DrawPixel(DL!DrawPixel(DT!Edge(V)), <<h_counter, v_counter>>)

RendererInit == /\ Init /\ DT!Init /\ VGA!Init /\ FB!Init
                /\ dl_state = "Wait" /\ line_x = 0 /\ line_y = 0 /\ err = 0
                /\ painted = NoPicture /\ shown = NoPicture /\ resets = 0

\* What the frame being drawn has asked for, and what the one shown has.
RecordPixels(Reset) ==
  /\ painted' = IF Reset THEN NoPicture
                ELSE IF FrameStarts THEN {}
                ELSE IF cu_state = "Draw" THEN painted \union {FB!Address(DrawXY)}
                ELSE painted
  /\ shown' = IF Reset THEN NoPicture
              ELSE IF FrameStarts THEN painted
              ELSE shown

RendererTick(Reset, new_pose) ==
  /\ Tick(Reset, VGA_VS, DT!draw_triangle_done, new_pose)
  /\ DT!Tick(Reset, DR!draw_triangle_start, DL!draw_line_done)
  /\ DL!Tick(Reset, DT!draw_line_start, DT!Edge(V))
  /\ VGA!Tick(Reset)
  /\ FB!Tick(Reset, frame_clk_rising_edge, DrawXY, CU!draw_data, CU!frame_done, vga_h, vga_v)
  /\ RecordPixels(Reset)

\* On a frame edge the object may be moved; else new_pose is not looked at.
NewPose == IF frame_clk_rising_edge THEN Pose ELSE {pose}

RendererRun == /\ \E p \in NewPose : RendererTick(FALSE, p)
               /\ UNCHANGED resets

\* A reset may come in any cycle, the VGA controller may miss it.
RendererReset == /\ resets < MaxResets
                 /\ RendererTick(TRUE, Home)
                 /\ resets' = resets + 1

RendererNext == RendererRun \/ RendererReset

RendererSpec == RendererInit /\ [][RendererNext]_rendererVars

\* The clock of the board does not stop.
FairRendererSpec == RendererSpec /\ WF_rendererVars(RendererRun)

-----------------------------------------------------------------------------
(* The monitor shows one finished frame: all its pixels, no pixel of an    *)
(* earlier frame, none of the next.  The corner is dark, whatever is drawn *)
(* there: the control unit parks the drawing on it.                        *)
ShowsOneFrame == shown # NoPicture => FB!ReadBuffer = shown \ {FB!Address(Origin)}

(* The pixel the monitor gets is the one the scan was at two pixels        *)
(* earlier: the read path is four cycles long, and a change of buffers is  *)
(* over before the next visible pixel.                                     *)
Earlier == IF vga_h >= 2 THEN <<vga_h - 2, vga_v>> ELSE <<H_TOTAL - 1, vga_v - 1>>
ScanShowsPicture ==
  shown # NoPicture /\ VGA_BLANK_N /\ ~(vga_v = 0 /\ vga_h < 2) =>
    (read_data <=> FB!Address(Earlier) \in shown \ {FB!Address(Origin)})

(* All triangles of a frame are projected with the pose the frame began    *)
(* with: display.sv moves the object on every frame edge, but no edge      *)
(* comes while the object is being projected.                              *)
OnePosePerFrame == proj_state # "Wait" => pose = frame_pose

(* Of a finished frame every vertex of every triangle drawn is in it.      *)
VerticesShown ==
  cu_state = "Done" /\ painted \notin {NoPicture, {}} =>
    \A i \in DOMAIN drawn : \A k \in DOMAIN drawn[i] : FB!Address(drawn[i][k]) \in painted

\* The edges of a triangle in the order of draw_triangle.sv, and the addresses
\* that are pixels of a line, k pixels along it.
Edges(t) == {DT!Between(t[1], t[2]), DT!Between(t[2], t[3]), DT!Between(t[3], t[1])}
PixelOf(a, l, k) == \E c \in 0 .. H_TOTAL - 1, r \in 0 .. V_TOTAL - 1 :
                      a = FB!Address(<<c, r>>) /\ DL!OfLine(c, r, l) /\ DL!Along(c, r, l) = k
Length(l) == DL!Largest(DL!dx(l), DL!dy(l))

(* Nothing is shown but the triangles: every pixel of a frame about to be  *)
(* shown lies on an edge of a triangle drawn for it, wherever draw_line    *)
(* was started, parked or held in between.                                 *)
OnlyEdgesShown ==
  FrameStarts /\ painted # NoPicture =>
    \A a \in painted \ {FB!Address(Origin)} : \E i \in DOMAIN drawn :
      \E l \in Edges(drawn[i]) : \E k \in 0 .. Length(l) : PixelOf(a, l, k)

(* No edge has a gap: a frame about to be shown has a pixel of it for      *)
(* every step of its longer extent.                                        *)
EdgesUnbroken ==
  FrameStarts /\ painted # NoPicture =>
    \A i \in DOMAIN drawn : \A l \in Edges(drawn[i]) : \A k \in 0 .. Length(l) :
      \E a \in painted : PixelOf(a, l, k)

(* Every triangle of the object but those clipped and the last is drawn,   *)
(* in list order.                                                          *)
Visible(n) == [i \in 1 .. n |-> Projected(frame_pose, Object[i])]
Kept(n) == {i \in 1 .. n : ~Clip(frame_pose, Object[i])}
DrawnInOrder(n) ==
  /\ Len(drawn) = Cardinality(Kept(n))
  /\ \A i \in Kept(n) : drawn[Cardinality({j \in Kept(n) : j <= i})] = Visible(n)[i]
FrameFinished == cu_state = "Draw" /\ DR!draw_done
AllButLastDrawn == FrameFinished => DrawnInOrder(Len(Object) - 1)

(* draw.sv:1: "draw all triangles on the screen"; project.sv:102 "when all *)
(* original triangles has been read, done".                                *)
AllTrianglesDrawn == FrameFinished => DrawnInOrder(Len(Object))

(* The modules of the source are an environment Pipeline.tla allows, so    *)
(* that what is shown of the pipeline holds in the renderer.               *)
ImplementsPipeline == Spec

(* Every frame that is begun is finished.                                  *)
FrameEnds == cu_state = "Clear" ~> cu_state \in {"Done", "Init"}

(* Frame after frame is shown.                                             *)
FramesGoOn == []<>FrameStarts
=============================================================================
