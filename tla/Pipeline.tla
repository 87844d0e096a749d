------------------------------ MODULE Pipeline ------------------------------
(***************************************************************************)
(* The render pipeline of renderer_top.sv: control_unit, clear_frame,      *)
(* list_writer, triangle_list, project, triangle_fifo and draw, wired as   *)
(* the top level wires them and clocked together.  One Tick is one rising  *)
(* edge of Clk for all of them.                                            *)
(*                                                                         *)
(* Its environment chooses Reset, frame_clk (the vertical sync of the VGA  *)
(* controller), the cycle in which draw_triangle is done, and the pose     *)
(* display.sv moves the object to on a frame edge.  Renderer.tla replaces  *)
(* that environment by the modules of the source.                          *)
(***************************************************************************)
EXTENDS FifoSize, Sequences

CONSTANTS H_TOTAL, V_TOTAL,  \* the screen
          Object,            \* the triangles list_writer writes
          Pose, Home,        \* poses of the object, the one after a reset
          Projected(_, _),   \* project_cal: the triangle on the screen, by pose
          Clip(_, _),        \* project_cal: whether it leaves the screen
          Triangle,          \* what Projected can give
          NoTriangle,        \* a triangle register after a reset
          Unwritten,         \* what an unwritten memory word holds
          Origin             \* the pixel (0, 0)

\* Eight cycles for each triangle but the last, two to find the list read.
ProjectionTime == 8 * (Len(Object) - 1) + 2

OrigTriangle == {Object[i] : i \in DOMAIN Object}
OrigWord == OrigTriangle \union {Unwritten, NoTriangle}

(* The cube has 12 triangles, list and fifo 60 places, the screen 307200   *)
(* pixels: clearing the frame takes longer than projecting the object.     *)
ASSUME PipelineAssumption ==
  /\ H_TOTAL \in Nat \ {0} /\ V_TOTAL \in Nat \ {0}
  /\ Object \in Seq(OrigTriangle) /\ Len(Object) \in 1 .. size
  /\ ProjectionTime <= H_TOTAL * V_TOTAL

ASSUME ProjectionAssumption ==
  /\ Home \in Pose
  /\ \A p \in Pose, t \in OrigWord :
        Projected(p, t) \in Triangle /\ Clip(p, t) \in BOOLEAN

VARIABLES cu_state, frame_clk_delayed, frame_clk_rising_edge,
          cf_state, h_counter, v_counter,
          lw_state, lw_triangle,
          list_r_addr, list_w_addr, list_num, list, list_out,
          proj_state, orig_triangle_data, proj_count,
          fifo_r_addr, fifo_w_addr, fifo_num, fifo, fifo_out,
          draw_state, V,
          pose,
          \* history: the pose the frame began with, the triangles it has drawn
          frame_pose, drawn

CU == INSTANCE ControlUnit WITH curr_state <- cu_state
CF == INSTANCE ClearFrame WITH curr_state <- cf_state
LW == INSTANCE ListWriter WITH curr_state <- lw_state, orig_triangle <- lw_triangle
TL == INSTANCE TriangleList WITH
        r_addr <- list_r_addr, w_addr <- list_w_addr, num <- list_num, triangle_out <- list_out,
        OrigTriangle <- OrigTriangle \union {NoTriangle}
PR == INSTANCE Projector WITH curr_state <- proj_state, count <- proj_count, Word <- OrigWord
TF == INSTANCE TriangleFifo WITH
        r_addr <- fifo_r_addr, w_addr <- fifo_w_addr, num <- fifo_num, triangle_out <- fifo_out
DR == INSTANCE Draw WITH curr_state <- draw_state, Word <- Triangle \union {Unwritten}

pipelineVars == <<CU!vars, CF!vars, LW!vars, TL!vars, PR!vars, TF!vars, DR!vars, pose>>
vars == <<pipelineVars, frame_pose, drawn>>

TypeOK == /\ CU!TypeOK /\ CF!TypeOK /\ LW!TypeOK /\ TL!TypeOK
          /\ PR!TypeOK /\ TF!TypeOK /\ DR!TypeOK
          /\ pose \in Pose /\ frame_pose \in Pose
          /\ drawn \in Seq(Triangle \union {Unwritten})

-----------------------------------------------------------------------------
(* The wires between the modules.                                          *)

clip == Clip(pose, orig_triangle_data)
proj_triangle_in == Projected(pose, orig_triangle_data)
fifo_w == PR!fifo_w(clip)
fifo_r == DR!fifo_r

Init == /\ CU!Init /\ CF!Init /\ LW!Init /\ TL!Init /\ PR!Init /\ TF!Init /\ DR!Init
        /\ pose = Home /\ frame_pose = Home
        /\ drawn = <<>>

\* display.sv moves the object on a frame edge, whatever the pipeline does.
Move(Reset, new_pose) ==
  pose' = IF Reset THEN Home ELSE IF frame_clk_rising_edge THEN new_pose ELSE pose

FrameStarts == cu_state = "Done" /\ frame_clk_rising_edge

Record(Reset) ==
  /\ frame_pose' = IF FrameStarts \/ Reset THEN pose' ELSE frame_pose
  /\ drawn' = IF Reset \/ FrameStarts THEN <<>>
              ELSE IF draw_state = "Take2" THEN Append(drawn, fifo_out)
              ELSE drawn

Tick(Reset, frame_clk, draw_triangle_done, new_pose) ==
  /\ CU!Tick(Reset, frame_clk, DR!draw_done, CF!clear_frame_done, LW!load_done)
  /\ CF!Tick(Reset, CU!clear_start)
  /\ LW!Tick(Reset, CU!load_obj)
  /\ TL!Tick(Reset, PR!list_r, LW!list_w, lw_triangle)
  /\ PR!Tick(Reset, CU!proj_start, list_out, TL!read_done)
  /\ TF!Tick(Reset, fifo_r, fifo_w, proj_triangle_in)
  /\ DR!Tick(Reset, CU!draw_start, fifo_out, TF!is_empty, draw_triangle_done)
  /\ Move(Reset, new_pose)
  /\ Record(Reset)

\* draw_triangle can be done only while it is started.
TriangleDone == IF DR!draw_triangle_start THEN BOOLEAN ELSE {FALSE}

Run == \E frame_clk \in BOOLEAN, done \in TriangleDone, p \in Pose :
          Tick(FALSE, frame_clk, done, p)

PressReset == \E frame_clk \in BOOLEAN, done \in TriangleDone, p \in Pose :
          Tick(TRUE, frame_clk, done, p)

Next == Run \/ PressReset

Spec == Init /\ [][Next]_vars

-----------------------------------------------------------------------------
(* triangle_fifo counts wrongly when it is read and written in one cycle   *)
(* while empty or full; nothing in project.sv or draw.sv excludes that,    *)
(* only the time the clear takes does.                                     *)
NeverBoth == ~(fifo_r /\ fifo_w)

(* No triangle is lost to a full list or a full fifo: neither writer looks *)
(* at is_full.                                                             *)
NothingDropped == /\ fifo_w => ~TF!is_full
                  /\ LW!list_w => ~TL!is_full

(* A frame starts with an empty fifo, and its drawing starts when its      *)
(* projection is over: control_unit goes from Clear to Draw on clear_done  *)
(* alone and never looks at proj_done.                                     *)
FramesDoNotMix == /\ cu_state = "Done" => TF!is_empty /\ proj_state = "Wait"
                  /\ cu_state = "Draw" => proj_state \in {"Wait", "Done"}

(* Every machine the control unit is about to start is back in its waiting *)
(* state, and the list is rewound to its first triangle.                   *)
ReadyForFrame == cu_state = "Done" =>
                   /\ cf_state = "Wait" /\ draw_state = "Wait" /\ lw_state = LW!Done
                   /\ list_r_addr = 1 /\ list_num = Len(Object)

(* The renderer's fifo is a bounded first-in first-out queue: triangles    *)
(* come out in the order they went in, each once, with no overrun.         *)
FifoIsQueue == TF!IsBoundedQueue
=============================================================================
