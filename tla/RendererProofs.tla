--------------------------- MODULE RendererProofs ---------------------------
(***************************************************************************)
(* The renderer, with draw_triangle, draw_line, the frame buffer and the   *)
(* VGA controller, implements the pipeline, whose theorems so hold of it.  *)
(* The monitor shows finished frames, each whole: the edges of the         *)
(* triangles drawn, without a gap, and nothing else.                       *)
(***************************************************************************)
EXTENDS Renderer, PipelineProofs, FiniteSetTheorems

\* What the pipeline asks of its environment.
Wires == VGA_VS \in BOOLEAN /\ pose \in Pose

LEMMA WiresPreserved ==
  ASSUME Wires, [RendererNext]_rendererVars
  PROVE  Wires'
<1> USE ProjectionAssumption
<1>1. ASSUME NEW Reset \in BOOLEAN, NEW p \in Pose, RendererTick(Reset, p)
      PROVE  Wires'
  <2>1. pose' \in Pose
    BY <1>1 DEF RendererTick, Tick, Move, Wires
  <2>2. VGA_VS' \in BOOLEAN
    BY <1>1 DEF RendererTick, VGA!Tick, VGA!Scan, VGA!Cleared, VGA!registers, Wires
  <2> QED BY <2>1, <2>2 DEF Wires
<1>2. CASE RendererRun
  BY <1>1, <1>2 DEF RendererRun, NewPose, Wires
<1>3. CASE RendererReset
  BY <1>1, <1>3 DEF RendererReset
<1>4. CASE UNCHANGED rendererVars
  BY <1>4 DEF rendererVars, vars, pipelineVars, VGA!vars, VGA!registers, Wires
<1> QED BY <1>2, <1>3, <1>4 DEF RendererNext

\* draw.sv looks at draw_triangle_done only while it draws a triangle.
LEMMA DoneOnlyWhileDrawing ==
  ASSUME NEW Reset, NEW frame_clk, NEW done \in BOOLEAN, NEW p,
         Tick(Reset, frame_clk, done, p)
  PROVE  \E d \in TriangleDone : Tick(Reset, frame_clk, d, p)
<1>1. CASE DR!draw_triangle_start
  BY <1>1 DEF TriangleDone
<1>2. CASE ~DR!draw_triangle_start
  <2>1. DR!Tick(Reset, CU!draw_start, fifo_out, TF!is_empty, done)
          => DR!Tick(Reset, CU!draw_start, fifo_out, TF!is_empty, FALSE)
    BY <1>2 DEF DR!Tick, DR!Step, DR!draw_triangle_start
  <2>2. Tick(Reset, frame_clk, FALSE, p)
    BY <2>1 DEF Tick
  <2> QED BY <1>2, <2>2 DEF TriangleDone
<1> QED BY <1>1, <1>2

LEMMA StepImplements ==
  ASSUME Wires, [RendererNext]_rendererVars
  PROVE  [Next]_vars
<1>1. ASSUME NEW Reset \in BOOLEAN, NEW p \in Pose, RendererTick(Reset, p)
      PROVE  \E frame_clk \in BOOLEAN, d \in TriangleDone : Tick(Reset, frame_clk, d, p)
  <2>1. VGA_VS \in BOOLEAN /\ DT!draw_triangle_done \in BOOLEAN
    BY DEF Wires, DT!draw_triangle_done
  <2>2. Tick(Reset, VGA_VS, DT!draw_triangle_done, p)
    BY <1>1 DEF RendererTick
  <2> QED BY <2>1, <2>2, DoneOnlyWhileDrawing
<1>2. CASE RendererRun
  <2>1. PICK p \in Pose : RendererTick(FALSE, p)
    BY <1>2 DEF RendererRun, NewPose, Wires
  <2>2. Run
    BY <1>1, <2>1 DEF Run
  <2> QED BY <2>2 DEF Next
<1>3. CASE RendererReset
  <2>1. RendererTick(TRUE, Home) /\ Home \in Pose
    BY <1>3, ProjectionAssumption DEF RendererReset
  <2>2. PressReset
    BY <1>1, <2>1 DEF PressReset
  <2> QED BY <2>2 DEF Next
<1>4. CASE UNCHANGED rendererVars
  BY <1>4 DEF rendererVars
<1> QED BY <1>2, <1>3, <1>4 DEF RendererNext

\* The modules of the source drive the pipeline as Pipeline.tla allows.
THEOREM RendererImplementsPipeline == RendererSpec => ImplementsPipeline
<1>1. RendererInit => Init /\ Wires
  BY ProjectionAssumption DEF RendererInit, Init, Wires, VGA!Init, VGA!Cleared
<1>2. Wires /\ [RendererNext]_rendererVars => Wires'
  BY WiresPreserved
<1>3. Wires /\ [RendererNext]_rendererVars => [Next]_vars
  BY StepImplements
<1> QED BY <1>1, <1>2, <1>3, PTL DEF RendererSpec, ImplementsPipeline, Spec

\* In the renderer, too, no triangle is lost, no frame meets the triangles of
\* another, and every machine is ready when a frame starts.
THEOREM RendererFramesAreSeparate ==
  RendererSpec => [](NeverBoth /\ NothingDropped /\ FramesDoNotMix /\ ReadyForFrame)
<1>1. RendererSpec => Spec
  BY RendererImplementsPipeline DEF ImplementsPipeline
<1> QED BY <1>1, ReadAndWriteExclude, NoTriangleDropped, FramesAreSeparate, MachinesAreReady, PTL

-----------------------------------------------------------------------------
(* The time between two frame edges.  VGA_VS rises once in a scan, and a   *)
(* scan takes longer than the clear, beside which the object is projected. *)

\* The line after the vertical sync, in which VGA_VS rises.
SyncEnd == CHOOSE v \in Nat : v \notin VSync /\ v - 1 \in VSync

\* Cycles of Clk since the scan began, from then to the rise, and in a scan.
ScanTime == 2 * (vga_v * VGA_H_TOTAL + vga_h) + (IF VGA_CLK THEN 0 ELSE 1)
EdgeTime == 2 * (SyncEnd * VGA_H_TOTAL)
Period == 2 * (VGA_V_TOTAL * VGA_H_TOTAL)

\* Cycles left to the next rise of VGA_VS, and to the end of the clear.
EdgeIn == IF ScanTime < EdgeTime THEN EdgeTime - ScanTime ELSE Period - ScanTime + EdgeTime
ClearIn == IF cf_state = "Wait" THEN H_TOTAL * V_TOTAL + 2
           ELSE IF cf_state = "Clear" THEN H_TOTAL * V_TOTAL - Cleared + 1
           ELSE 1

\* A row ends before a later one begins.
LEMMA RowBefore ==
  ASSUME NEW W \in Nat, NEW v \in Nat, NEW w \in Nat, v < w
  PROVE  v * W + W <= w * W
<1>1. PICK m \in Nat : w = v + 1 + m
  BY w - v - 1 \in Nat
<1>2. w * W = v * W + W + m * W /\ m * W >= 0
  BY <1>1
<1> QED BY <1>2

LEMMA SyncBounds ==
  /\ VGA_H_TOTAL \in Nat /\ VGA_V_TOTAL \in Nat /\ H_TOTAL + 1 <= VGA_H_TOTAL
  /\ SyncEnd \in Nat /\ V_TOTAL + 1 <= SyncEnd /\ SyncEnd + 1 <= VGA_V_TOTAL
  /\ VSync \subseteq V_TOTAL .. SyncEnd - 1 /\ SyncEnd \notin VSync
  /\ \A v \in VSync : v + 1 \notin VSync => v + 1 = SyncEnd
<1>1. PICK first, last \in V_TOTAL .. VGA_V_TOTAL - 2 : first <= last /\ VSync = first .. last
  BY ScanAssumption
<1>2. /\ VGA_H_TOTAL \in Nat /\ VGA_V_TOTAL \in Nat /\ H_TOTAL + 1 <= VGA_H_TOTAL
      /\ first \in Nat /\ last \in Nat /\ V_TOTAL \in Nat
  BY <1>1, ScanAssumption, Bounds
<1>3. last + 1 \in Nat /\ last + 1 \notin VSync /\ (last + 1) - 1 \in VSync
  BY <1>1, <1>2
<1>4. SyncEnd \in Nat /\ SyncEnd \notin VSync /\ SyncEnd - 1 \in VSync
  BY <1>3 DEF SyncEnd
<1>5. SyncEnd = last + 1
  BY <1>1, <1>2, <1>4
<1> QED BY <1>1, <1>2, <1>5

LEMMA ScanBounds ==
  /\ EdgeTime \in Nat /\ Period \in Nat /\ H_TOTAL * V_TOTAL \in Nat
  /\ H_TOTAL * V_TOTAL + 6 <= EdgeTime /\ EdgeTime + 4 <= Period /\ 8 <= EdgeTime
<1> DEFINE W == VGA_H_TOTAL
           E == SyncEnd * W
           P == VGA_V_TOTAL * W
           HV == H_TOTAL * V_TOTAL
<1>1. W \in Nat /\ W >= 2 /\ SyncEnd \in Nat /\ SyncEnd >= 2 /\ V_TOTAL \in Nat /\ V_TOTAL >= 1
      /\ H_TOTAL \in Nat /\ H_TOTAL >= 1 /\ W >= H_TOTAL + 1 /\ VGA_V_TOTAL \in Nat
  BY SyncBounds, Bounds
<1>2. V_TOTAL * W + W <= E
  BY <1>1, SyncBounds, RowBefore
<1>3. E + W <= P
  BY <1>1, SyncBounds, RowBefore
<1>4. PICK m \in Nat : W = H_TOTAL + 1 + m
  BY <1>1, W - H_TOTAL - 1 \in Nat
<1>5. V_TOTAL * W = HV + V_TOTAL + m * V_TOTAL /\ m * V_TOTAL >= 0 /\ HV \in Nat
  BY <1>1, <1>4
<1>6. E \in Nat /\ P \in Nat /\ HV \in Nat
  BY <1>1
<1>7. HV >= 1
  BY <1>1
<1>8. /\ E >= HV + V_TOTAL + W /\ EdgeTime = 2 * E /\ Period = 2 * P
  <2>1. V_TOTAL * W >= HV + V_TOTAL
    BY <1>1, <1>4, <1>5
  <2> QED BY <1>1, <1>2, <1>6, <2>1 DEF EdgeTime, Period
<1> HIDE DEF W, E, P, HV
<1> QED BY <1>1, <1>3, <1>6, <1>7, <1>8 DEF HV

LEMMA ClearTakes ==
  ASSUME CF!TypeOK
  PROVE  ClearIn \in Nat /\ ClearIn >= 1 /\ (cf_state # "Done" => ClearIn >= 2)
<1>1. /\ v_counter < V_TOTAL /\ h_counter < H_TOTAL /\ v_counter \in Nat
      /\ h_counter \in Nat /\ V_TOTAL \in Nat /\ H_TOTAL \in Nat
      /\ cf_state \in {"Wait", "Clear", "Done"}
  BY Bounds DEF CF!TypeOK
<1>2. v_counter * H_TOTAL + H_TOTAL <= V_TOTAL * H_TOTAL
  BY <1>1, RowBefore
<1>3. V_TOTAL * H_TOTAL = H_TOTAL * V_TOTAL /\ H_TOTAL * V_TOTAL \in Nat /\ v_counter * H_TOTAL \in Nat
  BY <1>1
<1>4. Cleared \in Nat /\ Cleared + 1 <= H_TOTAL * V_TOTAL
  BY <1>1, <1>2, <1>3 DEF Cleared
<1> QED BY <1>1, <1>3, <1>4 DEF ClearIn

LEMMA ScanStep ==
  ASSUME VGA!TypeOK, VGA!Tick(FALSE)
  PROVE  /\ ScanTime \in 0 .. Period - 1
         /\ ScanTime' = IF ScanTime = Period - 1 THEN 0 ELSE ScanTime + 1
         /\ vga_v < SyncEnd <=> ScanTime < EdgeTime
         /\ VGA_VS' /\ ~VGA_VS /\ vga_v \in VSync => ScanTime' = EdgeTime
<1> DEFINE W == VGA_H_TOTAL
           P == vga_v * W + vga_h
<1>1. /\ W \in Nat /\ W >= 2 /\ vga_h \in Nat /\ vga_h < W /\ vga_v \in Nat /\ vga_v < VGA_V_TOTAL
      /\ SyncEnd \in Nat /\ VGA_V_TOTAL \in Nat /\ VGA_CLK \in BOOLEAN
      /\ vga_v * W \in Nat /\ SyncEnd * W \in Nat /\ VGA_V_TOTAL * W \in Nat
  <2>1. /\ W \in Nat /\ W >= 2 /\ SyncEnd \in Nat /\ VGA_V_TOTAL \in Nat
        /\ vga_h \in Nat /\ vga_h < W /\ vga_v \in Nat /\ vga_v < VGA_V_TOTAL /\ VGA_CLK \in BOOLEAN
    BY SyncBounds, Bounds DEF VGA!TypeOK
  <2> QED BY <2>1
<1>2. vga_v * W + W <= VGA_V_TOTAL * W
  BY <1>1, RowBefore
<1>3. vga_v < SyncEnd => vga_v * W + W <= SyncEnd * W
  BY <1>1, RowBefore
<1>4. vga_v >= SyncEnd => SyncEnd * W <= vga_v * W
  <2>1. CASE vga_v = SyncEnd
    BY <1>1, <2>1
  <2>2. CASE vga_v > SyncEnd
    BY <1>1, <2>2, RowBefore
  <2> QED BY <1>1, <2>1, <2>2
<1>5. (vga_v + 1) * W = vga_v * W + W /\ 0 * W = 0
  BY <1>1
<1>6. ScanTime \in 0 .. Period - 1
  BY <1>1, <1>2 DEF ScanTime, Period
<1>7. vga_v < SyncEnd <=> ScanTime < EdgeTime
  BY <1>1, <1>3, <1>4 DEF ScanTime, EdgeTime
<1>8. CASE VGA_CLK
  <2>1. VGA_CLK' = FALSE /\ vga_v' = vga_v /\ vga_h' = vga_h /\ (VGA_VS' <=> VGA_VS)
    BY <1>8 DEF VGA!Tick, VGA!registers
  <2>2. ScanTime' = ScanTime + 1 /\ ScanTime # Period - 1
    BY <1>1, <1>8, <2>1 DEF ScanTime, Period
  <2> QED BY <1>6, <1>7, <2>1, <2>2
<1>9. CASE ~VGA_CLK
  <2>1. VGA_CLK' = TRUE /\ vga_v' = VGA!v_counter_in /\ vga_h' = VGA!h_counter_in
        /\ (VGA_VS' <=> VGA!v_counter_in \notin VSync)
    BY <1>9 DEF VGA!Tick, VGA!Scan
  <2>2. CASE vga_h + 1 # W
    <3>1. vga_v' = vga_v /\ vga_h' = vga_h + 1
      BY <2>1, <2>2 DEF VGA!v_counter_in, VGA!h_counter_in
    <3>2. ScanTime' = ScanTime + 1 /\ ScanTime # Period - 1
      BY <1>1, <1>2, <1>9, <2>1, <2>2, <3>1 DEF ScanTime, Period
    <3> QED BY <1>6, <1>7, <2>1, <3>1, <3>2
  <2>3. CASE vga_h + 1 = W /\ vga_v + 1 # VGA_V_TOTAL
    <3>1. vga_v' = vga_v + 1 /\ vga_h' = 0
      BY <2>1, <2>3 DEF VGA!v_counter_in, VGA!h_counter_in
    <3>2. (vga_v + 1) * W + W <= VGA_V_TOTAL * W
      BY <1>1, <2>3, RowBefore
    <3>3. ScanTime' = ScanTime + 1 /\ ScanTime # Period - 1 /\ ScanTime' = 2 * ((vga_v + 1) * W)
      BY <1>1, <1>5, <1>9, <2>1, <2>3, <3>1, <3>2 DEF ScanTime, Period
    <3>4. VGA_VS' /\ vga_v \in VSync => vga_v + 1 = SyncEnd
      BY <2>1, <3>1, SyncBounds
    <3> QED BY <1>6, <1>7, <3>3, <3>4 DEF EdgeTime
  <2>4. CASE vga_h + 1 = W /\ vga_v + 1 = VGA_V_TOTAL
    <3>1. vga_v' = 0 /\ vga_h' = 0
      BY <2>1, <2>4 DEF VGA!v_counter_in, VGA!h_counter_in
    <3>2. ScanTime' = 0 /\ ScanTime = Period - 1
      BY <1>1, <1>5, <1>9, <2>1, <2>4, <3>1 DEF ScanTime, Period
    <3>3. vga_v \notin VSync
      BY <1>1, <2>4, SyncBounds
    <3> QED BY <1>6, <1>7, <3>2, <3>3
  <2> QED BY <2>2, <2>3, <2>4
<1> QED BY <1>1, <1>8, <1>9

\* VGA_VS is low in the sync lines; elsewhere only just after a reset.
SyncInv ==
  /\ VGA_VS => vga_v \notin VSync
  /\ vga_v \notin VSync /\ ~VGA_VS =>
       /\ vga_v = 0 /\ vga_h = 0
       /\ cu_state = "Init" /\ lw_state <= IF VGA_CLK THEN 0 ELSE 1

\* When the edge detector sees VGA_VS rise: at the end of the sync, or just after
\* a reset.  While a frame is cleared there is none, nor will there be.
EdgeInv ==
  /\ VGA_VS /\ ~frame_clk_delayed =>
       ScanTime = EdgeTime \/ (ScanTime = 2 /\ cu_state = "Init")
  /\ frame_clk_rising_edge =>
       \/ cu_state = "Init"
       \/ ScanTime = 3 /\ painted = NoPicture
       \/ ScanTime = EdgeTime + 1
  /\ cu_state = "Clear" => /\ ~frame_clk_rising_edge /\ (VGA_VS => frame_clk_delayed)
                           /\ EdgeIn >= ClearIn

PoseInv == cu_state = "Clear" \/ (cu_state = "Draw" /\ proj_state # "Wait")
             => pose = frame_pose

TimingInv == /\ VGA!TypeOK /\ SyncInv /\ EdgeInv /\ PoseInv
             /\ cu_state = "Init" => painted = NoPicture

LEMMA TimingInit == RendererInit => TimingInv
<1> SUFFICES ASSUME RendererInit PROVE TimingInv
  OBVIOUS
<1>1. /\ cu_state = "Init" /\ lw_state = 0 /\ painted = NoPicture
      /\ VGA_CLK = FALSE /\ VGA_VS = FALSE /\ VGA_HS = FALSE /\ VGA_BLANK_N = FALSE
      /\ vga_h = 0 /\ vga_v = 0
  BY DEF RendererInit, Init, CU!Init, LW!Init, LW!Wait, VGA!Init, VGA!Cleared
<1>2. VGA!TypeOK
  <2>1. 0 \in 0 .. VGA_H_TOTAL - 1 /\ 0 \in 0 .. VGA_V_TOTAL - 1
    BY SyncBounds, Bounds
  <2>2. {VGA_CLK, VGA_HS, VGA_VS, VGA_BLANK_N} \subseteq BOOLEAN
    BY <1>1
  <2> QED BY <1>1, <2>1, <2>2 DEF VGA!TypeOK
<1> QED BY <1>1, <1>2, SyncBounds, Bounds DEF TimingInv, SyncInv, EdgeInv, PoseInv

LEMMA VgaTypeStep ==
  ASSUME VGA!TypeOK, NEW Reset \in BOOLEAN, VGA!Tick(Reset)
  PROVE  VGA!TypeOK'
<1>1. /\ VGA_H_TOTAL \in Nat /\ VGA_H_TOTAL >= 1 /\ VGA_V_TOTAL \in Nat /\ VGA_V_TOTAL >= 1
      /\ vga_h \in 0 .. VGA_H_TOTAL - 1 /\ vga_v \in 0 .. VGA_V_TOTAL - 1
      /\ VGA_CLK \in BOOLEAN /\ VGA_VS \in BOOLEAN /\ VGA_HS \in BOOLEAN /\ VGA_BLANK_N \in BOOLEAN
  BY SyncBounds, Bounds DEF VGA!TypeOK
<1>2. /\ VGA_CLK' \in BOOLEAN /\ VGA_VS' \in BOOLEAN /\ VGA_HS' \in BOOLEAN /\ VGA_BLANK_N' \in BOOLEAN
  BY <1>1 DEF VGA!Tick, VGA!Scan, VGA!Cleared, VGA!registers
<1>3. vga_h' \in 0 .. VGA_H_TOTAL - 1 /\ vga_v' \in 0 .. VGA_V_TOTAL - 1
  BY <1>1 DEF VGA!Tick, VGA!Scan, VGA!Cleared, VGA!registers, VGA!v_counter_in, VGA!h_counter_in
<1> QED BY <1>2, <1>3 DEF VGA!TypeOK

LEMMA TimingReset ==
  ASSUME TimingInv, NEW p, RendererTick(TRUE, p)
  PROVE  TimingInv'
<1>1. VGA!TypeOK'
  BY VgaTypeStep DEF TimingInv, RendererTick
<1>2. /\ cu_state' = "Init" /\ lw_state' = 0 /\ painted' = NoPicture
      /\ (frame_clk_delayed' <=> VGA_VS)
  BY DEF RendererTick, Tick, CU!Tick, LW!Tick, LW!Wait, RecordPixels
<1>3. VGA_CLK \in BOOLEAN /\ VGA_CLK' = ~VGA_CLK
  BY DEF TimingInv, VGA!TypeOK, RendererTick, VGA!Tick
<1>4. CASE VGA_CLK
  <2>1. (VGA_VS' <=> VGA_VS) /\ vga_v' = vga_v /\ vga_h' = vga_h
    BY <1>4 DEF RendererTick, VGA!Tick, VGA!registers
  <2> QED BY <1>1, <1>2, <2>1, <1>3 DEF TimingInv, SyncInv, EdgeInv, PoseInv
<1>5. CASE ~VGA_CLK
  <2>1. ~VGA_VS' /\ vga_v' = 0 /\ vga_h' = 0
    BY <1>5 DEF RendererTick, VGA!Tick, VGA!Scan, VGA!Cleared
  <2> QED BY <1>1, <1>2, <2>1, <1>3 DEF TimingInv, SyncInv, EdgeInv, PoseInv
<1> QED BY <1>4, <1>5

\* When VGA_VS rises.
LEMMA VsRises ==
  ASSUME IInv, VGA!TypeOK, SyncInv, NEW p, RendererTick(FALSE, p), VGA_VS', ~VGA_VS
  PROVE  /\ cu_state # "Init" => ScanTime' = EdgeTime
         /\ cu_state = "Init" => ScanTime' = EdgeTime \/ (ScanTime' = 2 /\ cu_state' = "Init")
<1>1. VGA!Tick(FALSE)
  BY DEF RendererTick
<1>2. CASE vga_v \in VSync
  BY <1>1, <1>2, ScanStep
<1>3. CASE vga_v \notin VSync
  <2>1. vga_v = 0 /\ vga_h = 0 /\ cu_state = "Init" /\ lw_state <= IF VGA_CLK THEN 0 ELSE 1
    BY <1>3 DEF SyncInv
  <2>2. ~VGA_CLK
    BY <1>1 DEF VGA!Tick, VGA!registers
  <2>3. ScanTime = 1
    BY <2>1, <2>2, SyncBounds DEF ScanTime
  <2>4. ScanTime' = 2
    BY <1>1, <2>3, ScanStep, ScanBounds
  <2>5. cu_state' = "Init"
    <3>1. lw_state \in 0 .. n + 1
      BY DEF IInv, TypeOK, LW!TypeOK, LW!Wait, LW!Done, n
    <3>2. lw_state # n + 1
      BY <2>1, <2>2, <3>1, Bounds
    <3> QED BY <2>1, <3>2 DEF RendererTick, Tick, CU!Tick, CU!Step, LW!load_done, LW!Done, n
  <2> QED BY <2>1, <2>4, <2>5
<1> QED BY <1>2, <1>3

LEMMA SyncStep ==
  ASSUME IInv, VGA!TypeOK, SyncInv, NEW p, RendererTick(FALSE, p)
  PROVE  SyncInv'
<1>1. CASE VGA_CLK
  <2>1. VGA_CLK' = FALSE /\ vga_v' = vga_v /\ vga_h' = vga_h /\ (VGA_VS' <=> VGA_VS)
    BY <1>1 DEF RendererTick, VGA!Tick, VGA!registers
  <2>2. vga_v \notin VSync /\ ~VGA_VS => cu_state' = "Init" /\ lw_state' <= 1
    <3> HAVE vga_v \notin VSync /\ ~VGA_VS
    <3>1. cu_state = "Init" /\ lw_state = 0
      BY <1>1 DEF SyncInv, IInv, TypeOK, LW!TypeOK, LW!Wait
    <3> QED BY <3>1, Bounds DEF RendererTick, Tick, CU!Tick, CU!Step, LW!load_done, LW!Done,
               LW!Tick, LW!Wait, n, CU!load_obj
  <2> QED BY <2>1, <2>2 DEF SyncInv
<1>2. CASE ~VGA_CLK
  <2>1. VGA_VS' <=> vga_v' \notin VSync
    BY <1>2 DEF RendererTick, VGA!Tick, VGA!Scan
  <2> QED BY <2>1 DEF SyncInv
<1> QED BY <1>1, <1>2

\* A frame that begins has time to be cleared before the next frame edge.
LEMMA ClearInTime ==
  ASSUME IInv, TimingInv, cu_state \in {"Clear", "Done"}, NEW p \in Pose, RendererTick(FALSE, p),
         cu_state' = "Clear"
  PROVE  EdgeIn' >= ClearIn'
<1> DEFINE HV == H_TOTAL * V_TOTAL
<1>1. /\ ScanTime \in 0 .. Period - 1
      /\ ScanTime' = IF ScanTime = Period - 1 THEN 0 ELSE ScanTime + 1
  BY ScanStep DEF RendererTick, TimingInv
<1>2. /\ EdgeTime \in Nat /\ Period \in Nat /\ HV \in Nat /\ HV + 6 <= EdgeTime
      /\ EdgeTime + 4 <= Period
  BY ScanBounds
<1>3. EdgeTime' = EdgeTime /\ Period' = Period
  BY DEF EdgeTime, Period
<1>4. CASE cu_state = "Done"
  <2>1. frame_clk_rising_edge
    BY <1>4 DEF RendererTick, Tick, CU!Tick, CU!Step
  <2>2. cf_state' = "Wait"
    BY <1>4 DEF IInv, Phases, InDone, RendererTick, Tick, CF!Tick, CF!Step, CU!clear_start
  <2>3. ScanTime = 3 \/ ScanTime = EdgeTime + 1
    BY <1>4, <2>1 DEF TimingInv, EdgeInv
  <2>4. ClearIn' = HV + 2
    BY <2>2 DEF ClearIn
  <2>5. EdgeIn' = IF ScanTime' < EdgeTime THEN EdgeTime - ScanTime' ELSE Period - ScanTime' + EdgeTime
    BY <1>3 DEF EdgeIn
  <2> HIDE DEF HV
  <2> QED BY <1>1, <1>2, <2>3, <2>4, <2>5
<1>5. CASE cu_state = "Clear"
  <2>1. EdgeIn >= ClearIn
    BY <1>5 DEF TimingInv, EdgeInv
  <2>2. cf_state \in {"Wait", "Clear"} /\ CF!TypeOK /\ CF!Step(TRUE)
    BY <1>5 DEF IInv, TypeOK, CF!TypeOK, RendererTick, Tick, CU!Tick, CU!Step, CF!clear_frame_done,
       CF!Tick, CU!clear_start
  <2>3. ClearIn' = ClearIn - 1 /\ ClearIn >= 2 /\ ClearIn \in Int
    <3>1. CASE cf_state = "Wait"
      <4>1. cf_state' = "Clear" /\ Cleared' = 0
        BY <2>2, <3>1, Bounds DEF CF!Step, Cleared
      <4> QED BY <1>2, <3>1, <4>1 DEF ClearIn
    <3>2. CASE cf_state = "Clear" /\ CF!LastPixel
      <4>1. Cleared = HV - 1 /\ cf_state' = "Done"
        BY <2>2, <3>2, ClearCounts
      <4> QED BY <1>2, <3>2, <4>1 DEF ClearIn
    <3>3. CASE cf_state = "Clear" /\ ~CF!LastPixel
      <4>1. Cleared \in Nat /\ Cleared' = Cleared + 1 /\ cf_state' = "Clear"
        BY <2>2, <3>3, ClearCounts
      <4> QED BY <1>2, <2>2, <3>3, <4>1, ClearTakes DEF ClearIn
    <3> QED BY <2>2, <3>1, <3>2, <3>3
  <2>4. EdgeIn' = EdgeIn - 1 /\ EdgeIn \in Int
    <3>1. EdgeIn' = IF ScanTime' < EdgeTime THEN EdgeTime - ScanTime' ELSE Period - ScanTime' + EdgeTime
      BY <1>3 DEF EdgeIn
    <3>2. EdgeIn >= 2
      BY <1>1, <1>2, <2>1, <2>3 DEF EdgeIn
    <3> QED BY <1>1, <1>2, <3>1, <3>2 DEF EdgeIn
  <2> QED BY <2>1, <2>3, <2>4
<1> QED BY <1>4, <1>5

LEMMA EdgeStep ==
  ASSUME IInv, TimingInv, NEW p \in Pose, RendererTick(FALSE, p)
  PROVE  EdgeInv'
<1>1. /\ ScanTime \in 0 .. Period - 1
      /\ ScanTime' = IF ScanTime = Period - 1 THEN 0 ELSE ScanTime + 1
  BY ScanStep DEF RendererTick, TimingInv
<1>2. /\ EdgeTime \in Nat /\ Period \in Nat /\ 8 <= EdgeTime /\ EdgeTime + 4 <= Period
  BY ScanBounds
<1>3. EdgeTime' = EdgeTime
  BY DEF EdgeTime
<1>4. /\ frame_clk_delayed' <=> VGA_VS
      /\ frame_clk_rising_edge' <=> VGA_VS /\ ~frame_clk_delayed
      /\ cu_state' = CU!Step(DR!draw_done, CF!clear_frame_done, LW!load_done)
  BY DEF RendererTick, Tick, CU!Tick
<1>5. VGA_VS' /\ ~frame_clk_delayed' =>
        ScanTime' = EdgeTime \/ (ScanTime' = 2 /\ cu_state = "Init" /\ cu_state' = "Init")
  BY <1>4, VsRises DEF TimingInv
<1>6. frame_clk_rising_edge' => \/ ScanTime' = 3 /\ painted' = NoPicture
                               \/ ScanTime' = EdgeTime + 1
  <2> HAVE frame_clk_rising_edge'
  <2>1. ScanTime = EdgeTime \/ (ScanTime = 2 /\ cu_state = "Init")
    BY <1>4 DEF TimingInv, EdgeInv
  <2>2. cu_state = "Init" => painted' = NoPicture
    BY DEF RendererTick, RecordPixels, FrameStarts, TimingInv
  <2> QED BY <1>1, <1>2, <2>1, <2>2
<1>7. ASSUME cu_state' = "Clear"
      PROVE  ~frame_clk_rising_edge' /\ (VGA_VS' => frame_clk_delayed') /\ EdgeIn' >= ClearIn'
  <2>1. cu_state \in {"Clear", "Done"} /\ (cu_state = "Done" => frame_clk_rising_edge)
    BY <1>4, <1>7 DEF CU!Step, IInv, TypeOK, CU!TypeOK, CU!State
  <2>2. EdgeIn' >= ClearIn'
    BY <1>7, <2>1, ClearInTime
  <2>3. CASE cu_state = "Done"
    <3>1. ScanTime = 3 \/ ScanTime = EdgeTime + 1
      BY <2>1, <2>3 DEF TimingInv, EdgeInv
    <3>2. ~frame_clk_rising_edge'
      BY <1>2, <1>4, <2>3, <3>1 DEF TimingInv, EdgeInv
    <3>3. VGA_VS' => frame_clk_delayed'
      BY <1>1, <1>2, <1>5, <2>3, <3>1
    <3> QED BY <2>2, <3>2, <3>3
  <2>4. CASE cu_state = "Clear"
    <3>1. ~frame_clk_rising_edge'
      BY <1>4, <2>4 DEF TimingInv, EdgeInv
    <3>2. EdgeIn >= ClearIn /\ ClearIn >= 2 /\ ClearIn \in Nat
      <4>1. cf_state # "Done" /\ CF!TypeOK
        BY <1>4, <1>7, <2>4 DEF IInv, TypeOK, CU!Step, CF!clear_frame_done
      <4> QED BY <2>4, <4>1, ClearTakes DEF TimingInv, EdgeInv
    <3>3. ScanTime' # EdgeTime
      BY <1>1, <1>2, <3>2 DEF EdgeIn
    <3>4. VGA_VS' => frame_clk_delayed'
      BY <1>5, <2>4, <3>3
    <3> QED BY <2>2, <3>1, <3>4
  <2> QED BY <2>1, <2>3, <2>4
<1> QED BY <1>3, <1>5, <1>6, <1>7 DEF EdgeInv

LEMMA PoseStep ==
  ASSUME IInv, TimingInv, NEW p \in Pose, RendererTick(FALSE, p)
  PROVE  PoseInv'
<1>1. /\ cu_state' = CU!Step(DR!draw_done, CF!clear_frame_done, LW!load_done)
      /\ cu_state \in {"Init", "Clear", "Draw", "Done"}
      /\ pose' = IF frame_clk_rising_edge THEN p ELSE pose
      /\ frame_pose' = IF FrameStarts THEN pose' ELSE frame_pose
  BY DEF RendererTick, Tick, CU!Tick, Move, Record, IInv, TypeOK, CU!TypeOK, CU!State
<1>2. CASE cu_state = "Done"
  BY <1>1, <1>2 DEF CU!Step, FrameStarts, PoseInv
<1>3. CASE cu_state = "Clear"
  BY <1>1, <1>3 DEF FrameStarts, PoseInv, TimingInv, EdgeInv
<1>4. CASE cu_state = "Draw"
  <2>1. proj_state' = "Wait" /\ cu_state' # "Clear"
    BY <1>1, <1>4 DEF RendererTick, Tick, PR!Tick, PR!Step, CU!proj_start, IInv, Phases, InDraw,
       CU!Step
  <2> QED BY <2>1 DEF PoseInv
<1>5. CASE cu_state = "Init"
  BY <1>1, <1>5 DEF CU!Step, PoseInv
<1> QED BY <1>1, <1>2, <1>3, <1>4, <1>5

LEMMA TimingStep ==
  ASSUME IInv, TimingInv, [RendererNext]_rendererVars
  PROVE  TimingInv'
<1>1. ASSUME NEW p \in Pose, RendererTick(FALSE, p) PROVE TimingInv'
  <2>1. VGA!TypeOK'
    BY <1>1, VgaTypeStep DEF RendererTick, TimingInv
  <2>2. cu_state' = "Init" => painted' = NoPicture
    BY <1>1 DEF RendererTick, Tick, CU!Tick, CU!Step, RecordPixels, FrameStarts, TimingInv
  <2> QED BY <1>1, <2>1, <2>2, SyncStep, EdgeStep, PoseStep DEF TimingInv
<1>2. CASE RendererRun
  BY <1>1, <1>2 DEF RendererRun, NewPose, IInv, TypeOK
<1>3. CASE RendererReset
  BY <1>3, TimingReset DEF RendererReset
<1>4. CASE UNCHANGED rendererVars
  BY <1>4 DEF rendererVars, vars, pipelineVars, CU!vars, CF!vars, LW!vars, PR!vars, VGA!vars,
     VGA!registers, TimingInv, VGA!TypeOK, SyncInv, EdgeInv, PoseInv, ScanTime, EdgeTime, EdgeIn,
     ClearIn, Cleared, Period
<1> QED BY <1>2, <1>3, <1>4 DEF RendererNext

LEMMA RendererIInv == RendererSpec => []IInv
BY RendererImplementsPipeline, PipelineInvariant, PTL DEF ImplementsPipeline

LEMMA RendererTiming == RendererSpec => []TimingInv
BY TimingInit, TimingStep, RendererIInv, PTL DEF RendererSpec

(* All triangles of a frame are projected with the pose it began with: the *)
(* object moves on every frame edge, but no edge comes while project.sv is *)
(* at work.                                                                *)
THEOREM PoseHoldsForFrame == RendererSpec => []OnePosePerFrame
<1>1. IInv /\ TimingInv => OnePosePerFrame
  BY DEF IInv, TypeOK, CU!TypeOK, CU!State, Phases, Loading, InDone, TimingInv, PoseInv, OnePosePerFrame
<1> QED BY <1>1, RendererIInv, RendererTiming, PTL

-----------------------------------------------------------------------------
(* The triangles of a frame: after k triangles of the object, those of     *)
(* them that are not clipped have been sent to be drawn, in list order.    *)

Ordered(k) ==
  /\ Sent = Cardinality(Kept(k))
  /\ \A i \in Kept(k), m \in Nat :
       m = Cardinality(Kept(i)) => Item(m) = Projected(frame_pose, Object[i])

\* How many triangles project.sv has dealt with in this frame.
Processed == IF proj_state = "Wait" THEN 0
             ELSE IF proj_state = "Take1" THEN list_r_addr - 1
             ELSE IF proj_state = "Done" \/ list_r_addr = 0 THEN n - 1
             ELSE list_r_addr - 2

StreamInv == /\ cu_state = "Clear" => \E k \in Nat : k = Processed /\ Ordered(k)
             /\ cu_state = "Draw" => Ordered(n - 1)

LEMMA KeptFacts ==
  ASSUME NEW k \in Nat
  PROVE  /\ IsFiniteSet(Kept(k)) /\ Cardinality(Kept(k)) \in Nat
         /\ \A i \in Kept(k) : /\ i \in Nat
                               /\ Cardinality(Kept(i)) \in 1 .. Cardinality(Kept(k))
                               /\ {j \in Kept(k) : j <= i} = Kept(i)
<1>1. \A l \in Nat : IsFiniteSet(Kept(l)) /\ Cardinality(Kept(l)) \in Nat
  <2> TAKE l \in Nat
  <2>1. Kept(l) \subseteq 1 .. l /\ IsFiniteSet(1 .. l)
    BY FS_Interval DEF Kept
  <2> QED BY <2>1, FS_Subset, FS_CardinalityType
<1>2. ASSUME NEW i \in Kept(k)
      PROVE  /\ i \in Nat /\ Cardinality(Kept(i)) \in 1 .. Cardinality(Kept(k))
             /\ {j \in Kept(k) : j <= i} = Kept(i)
  <2>1. i \in 1 .. k /\ i \in Nat /\ i \in Kept(i)
    BY DEF Kept
  <2>2. Kept(i) \subseteq Kept(k) /\ {j \in Kept(k) : j <= i} = Kept(i)
    BY <2>1 DEF Kept
  <2>3. Cardinality(Kept(i)) <= Cardinality(Kept(k))
    BY <1>1, <2>2, FS_Subset
  <2>4. Cardinality(Kept(i)) # 0
    BY <1>1, <2>1, FS_EmptySet
  <2> QED BY <1>1, <2>1, <2>2, <2>3, <2>4
<1> QED BY <1>1, <1>2

LEMMA KeptNext ==
  ASSUME NEW k \in Nat
  PROVE  /\ Clip(frame_pose, Object[k + 1]) => Kept(k + 1) = Kept(k)
         /\ ~Clip(frame_pose, Object[k + 1]) =>
              /\ Kept(k + 1) = Kept(k) \union {k + 1}
              /\ Cardinality(Kept(k + 1)) = Cardinality(Kept(k)) + 1
<1>1. \A i : i \in 1 .. k + 1 <=> i \in 1 .. k \/ i = k + 1
  OBVIOUS
<1>2. Clip(frame_pose, Object[k + 1]) => Kept(k + 1) = Kept(k)
  BY <1>1 DEF Kept
<1>3. ASSUME ~Clip(frame_pose, Object[k + 1])
      PROVE  /\ Kept(k + 1) = Kept(k) \union {k + 1}
             /\ Cardinality(Kept(k + 1)) = Cardinality(Kept(k)) + 1
  <2>1. Kept(k + 1) = Kept(k) \union {k + 1} /\ k + 1 \notin Kept(k)
    BY <1>1, <1>3 DEF Kept
  <2> QED BY <2>1, KeptFacts, FS_AddElement
<1> QED BY <1>2, <1>3

LEMMA OrderedNone == Sent' = 0 => Ordered(0)'
<1>1. Kept(0)' = {}
  BY DEF Kept
<1> QED BY <1>1, FS_EmptySet DEF Ordered

\* A cycle of a frame without a write keeps what was sent ...
LEMMA OrderedKept ==
  ASSUME IInv, TF!NumCountsElements, NEW frame_clk, NEW done, NEW p,
         Tick(FALSE, frame_clk, done, p), ~FrameStarts, ~fifo_w, NEW k \in Nat, Ordered(k)
  PROVE  Ordered(k)'
<1>1. frame_pose' = frame_pose /\ Sent' = Sent /\ \A m \in 1 .. Sent : Item(m)' = Item(m)
  BY SentStep DEF Tick, Record
<1>2. \A l : Kept(l)' = Kept(l)
  BY <1>1 DEF Kept
<1>3. ASSUME NEW i \in Kept(k), NEW m \in Nat, m = Cardinality(Kept(i))
      PROVE  Item(m)' = Projected(frame_pose, Object[i])
  <2>1. m \in 1 .. Sent
    BY <1>3, KeptFacts DEF Ordered
  <2> QED BY <1>1, <1>3, <2>1 DEF Ordered
<1> QED BY <1>1, <1>2, <1>3 DEF Ordered

\* ... and one with a write adds the triangle that follows.
LEMMA OrderedMore ==
  ASSUME IInv, TF!NumCountsElements, NEW frame_clk, NEW done, NEW p,
         Tick(FALSE, frame_clk, done, p), ~FrameStarts, fifo_w, NEW k \in Nat, Ordered(k),
         proj_triangle_in = Projected(frame_pose, Object[k + 1]),
         ~Clip(frame_pose, Object[k + 1])
  PROVE  Ordered(k + 1)'
<1>1. /\ frame_pose' = frame_pose /\ Sent' = Sent + 1 /\ \A m \in 1 .. Sent : Item(m)' = Item(m)
      /\ \A m \in Nat : m = Sent + 1 => Item(m)' = proj_triangle_in
  BY SentStep DEF Tick, Record
<1>2. \A l : Kept(l)' = Kept(l)
  BY <1>1 DEF Kept
<1>3. Kept(k + 1) = Kept(k) \union {k + 1} /\ Cardinality(Kept(k + 1)) = Sent + 1
  BY KeptNext DEF Ordered
<1>4. ASSUME NEW i \in Kept(k + 1), NEW m \in Nat, m = Cardinality(Kept(i))
      PROVE  Item(m)' = Projected(frame_pose, Object[i])
  <2>1. CASE i \in Kept(k)
    <3>1. m \in 1 .. Sent
      BY <1>4, <2>1, KeptFacts DEF Ordered
    <3> QED BY <1>1, <1>4, <2>1, <3>1 DEF Ordered
  <2>2. CASE i = k + 1
    BY <1>1, <1>3, <1>4, <2>2
  <2> QED BY <1>3, <2>1, <2>2
<1> QED BY <1>1, <1>2, <1>3, <1>4 DEF Ordered

LEMMA StreamStep ==
  ASSUME IInv, Traced, TimingInv, StreamInv, NEW p \in Pose, RendererTick(FALSE, p)
  PROVE  StreamInv'
<1>1. Tick(FALSE, VGA_VS, DT!draw_triangle_done, p) /\ TF!NumCountsElements
  BY DEF RendererTick, Traced
<1>2. /\ cu_state' = CU!Step(DR!draw_done, CF!clear_frame_done, LW!load_done)
      /\ cu_state \in {"Init", "Clear", "Draw", "Done"}
  BY <1>1 DEF Tick, CU!Tick, IInv, TypeOK, CU!TypeOK, CU!State
<1>3. CASE cu_state = "Init"
  BY <1>2, <1>3 DEF CU!Step, StreamInv
<1>4. CASE cu_state = "Done"
  <2>1. cu_state' = "Clear" => FrameStarts
    BY <1>2, <1>4 DEF CU!Step, FrameStarts
  <2>2. proj_state' = "Wait"
    BY <1>1, <1>4 DEF IInv, Phases, InDone, Tick, PR!Tick, PR!Step, CU!proj_start
  <2>3. FrameStarts => Sent' = 0
    BY <1>1, NothingSent
  <2> QED BY <1>2, <1>4, <2>1, <2>2, <2>3, OrderedNone DEF CU!Step, StreamInv, Processed
<1>5. CASE cu_state = "Draw"
  <2>1. ~fifo_w /\ ~FrameStarts /\ n - 1 \in Nat
    BY <1>5, WriteWhileClearing, Bounds DEF FrameStarts
  <2>2. Ordered(n - 1)'
    BY <1>1, <1>5, <2>1, OrderedKept DEF StreamInv
  <2> QED BY <1>2, <1>5, <2>2 DEF CU!Step, StreamInv, n
<1>6. CASE cu_state = "Clear"
  <2> PICK k \in Nat : k = Processed /\ Ordered(k)
    BY <1>6 DEF StreamInv
  <2>1. ~FrameStarts /\ pose = frame_pose
    BY <1>6 DEF FrameStarts, TimingInv, PoseInv
  <2>2. proj_state \in {"Wait", "Take1", "Take2", "Proj", "Write", "Done"}
    BY DEF IInv, TypeOK, PR!TypeOK
  <2>3. /\ proj_state' = PR!Step(TRUE, TL!read_done)
        /\ list_r_addr' = IF proj_state = "Take1" /\ ~TL!is_empty
                             THEN (IF list_r_addr = list_num THEN 0 ELSE list_r_addr + 1)
                           ELSE IF list_r_addr = 0 THEN 1 ELSE list_r_addr
    BY <1>1, <1>6 DEF Tick, PR!Tick, CU!proj_start, TL!Tick, PR!list_r
  <2>4. cu_state' \in {"Clear", "Draw"} /\ (cu_state' = "Draw" => proj_state = "Done")
    BY <1>2, <1>6 DEF CU!Step, CF!clear_frame_done, IInv, Phases, InClear
  <2>5. CASE proj_state = "Write"
    <3>1. list_r_addr \in 2 .. n /\ orig_triangle_data = Object[list_r_addr - 1]
      BY <2>5, WhileProjecting DEF Traced, Current
    <3>2. k + 1 = list_r_addr - 1 /\ Processed' = k + 1
      BY <2>3, <2>5, <3>1, Bounds DEF Processed, PR!Step
    <3>3. orig_triangle_data = Object[k + 1]
      BY <3>1, <3>2
    <3>4. CASE fifo_w
      <4>1. proj_triangle_in = Projected(frame_pose, Object[k + 1]) /\ ~Clip(frame_pose, Object[k + 1])
        BY <2>1, <3>3, <3>4 DEF fifo_w, PR!fifo_w, clip, proj_triangle_in
      <4>2. Ordered(k + 1)'
        BY <1>1, <2>1, <3>4, <4>1, OrderedMore
      <4> QED BY <2>4, <2>5, <3>2, <4>2, k + 1 \in Nat DEF StreamInv
    <3>5. CASE ~fifo_w
      <4>1. Clip(frame_pose, Object[k + 1])
        BY <2>1, <2>5, <3>3, <3>5 DEF fifo_w, PR!fifo_w, clip
      <4>2. Kept(k + 1) = Kept(k)
        BY <4>1, KeptNext
      <4>3. Ordered(k + 1)
        BY <4>2 DEF Ordered
      <4>4. Ordered(k + 1)'
        BY <1>1, <2>1, <3>5, <4>3, k + 1 \in Nat, OrderedKept
      <4> QED BY <2>4, <2>5, <3>2, <4>4, k + 1 \in Nat DEF StreamInv
    <3> QED BY <3>4, <3>5
  <2>6. CASE proj_state # "Write"
    <3>1. ~fifo_w
      BY <2>6 DEF fifo_w, PR!fifo_w
    <3>2. Processed' = Processed
      <4>1. CASE proj_state \in {"Wait", "Done"}
        BY <1>6, <2>3, <4>1 DEF Processed, PR!Step, IInv, Phases, InClear, Lockstep, AtTake1, AtTake2,
           AtProj, AtWrite, n
      <4>2. CASE proj_state = "Take1"
        <5>1. list_r_addr \in 1 .. n /\ list_num = n /\ ~TL!read_done /\ ~TL!is_empty
          BY <4>2, WhileProjecting, Bounds DEF TL!read_done, TL!is_empty
        <5> QED BY <2>3, <4>2, <5>1, Bounds DEF Processed, PR!Step
      <4>3. CASE proj_state = "Take2"
        <5>1. list_r_addr \in 2 .. n \/ list_r_addr = 0
          BY <4>3, WhileProjecting
        <5> QED BY <2>3, <4>3, <5>1, Bounds DEF Processed, PR!Step, TL!read_done
      <4>4. CASE proj_state = "Proj"
        <5>1. list_r_addr \in 2 .. n
          BY <4>4, WhileProjecting
        <5> QED BY <2>3, <4>4, <5>1, Bounds DEF Processed, PR!Step
      <4> QED BY <2>2, <2>6, <4>1, <4>2, <4>3, <4>4
    <3>3. Ordered(k)'
      BY <1>1, <2>1, <3>1, OrderedKept
    <3>4. proj_state = "Done" => k = n - 1
      BY DEF Processed
    <3> QED BY <2>4, <3>2, <3>3, <3>4 DEF StreamInv, n
  <2> QED BY <2>5, <2>6
<1> QED BY <1>2, <1>3, <1>4, <1>5, <1>6

LEMMA StreamPreserved ==
  ASSUME IInv, Traced, TimingInv, StreamInv, [RendererNext]_rendererVars
  PROVE  StreamInv'
<1>1. CASE RendererRun
  BY <1>1, StreamStep DEF RendererRun, NewPose, IInv, TypeOK
<1>2. CASE RendererReset
  BY <1>2 DEF RendererReset, RendererTick, Tick, CU!Tick, StreamInv
<1>3. CASE UNCHANGED rendererVars
  <2>1. /\ UNCHANGED <<cu_state, proj_state, list_r_addr, drawn, draw_state, fifo_num, fifo_out>>
        /\ UNCHANGED <<fifo, fifo_r_addr, frame_pose>>
    BY <1>3 DEF rendererVars, vars, pipelineVars, CU!vars, PR!vars, TL!vars, TF!vars, DR!vars
  <2>2. Sent' = Sent /\ \A m \in Nat : Item(m)' = Item(m)
    BY <2>1 DEF Sent, Item, InFlight, TF!Slot
  <2>3. \A k : Kept(k)' = Kept(k)
    BY <2>1 DEF Kept
  <2>4. \A k \in Nat : Ordered(k) => Ordered(k)'
    BY <2>1, <2>2, <2>3 DEF Ordered
  <2>5. Processed' = Processed /\ n - 1 \in Nat
    BY <2>1, Bounds DEF Processed, n
  <2>6. Ordered(n - 1) => Ordered(n - 1)'
    BY <2>4, <2>5 DEF n
  <2> QED BY <2>1, <2>4, <2>5, <2>6 DEF StreamInv
<1> QED BY <1>1, <1>2, <1>3 DEF RendererNext

LEMMA RendererTraced == RendererSpec => []Traced
BY RendererImplementsPipeline, PipelineTraced, PTL DEF ImplementsPipeline

LEMMA RendererStream == RendererSpec => []StreamInv
<1>1. RendererInit => StreamInv
  BY DEF RendererInit, Init, CU!Init, StreamInv
<1> QED BY <1>1, StreamPreserved, RendererIInv, RendererTraced, RendererTiming, PTL DEF RendererSpec

(* Every frame draws the triangles of the object that are not clipped in   *)
(* its pose, each once and in list order, except the last of the list.     *)
THEOREM TrianglesDrawnInOrder == RendererSpec => []AllButLastDrawn
<1>1. IInv /\ StreamInv => AllButLastDrawn
  <2> SUFFICES ASSUME IInv, StreamInv, FrameFinished PROVE DrawnInOrder(n - 1)
    BY DEF AllButLastDrawn, n
  <2>1. Ordered(n - 1) /\ n - 1 \in Nat
    BY Bounds DEF FrameFinished, StreamInv
  <2>2. fifo_num = 0 /\ InFlight = 0 /\ Len(drawn) \in Nat
    BY LenProperties DEF FrameFinished, DR!draw_done, IInv, TypeOK, Phases, InDraw, InFlight
  <2>3. Sent = Len(drawn) /\ \A m \in 1 .. Len(drawn) : Item(m) = drawn[m]
    BY <2>2 DEF Sent, Item
  <2>4. ASSUME NEW i \in Kept(n - 1)
        PROVE  drawn[Cardinality({j \in Kept(n - 1) : j <= i})] = Visible(n - 1)[i]
    <3>1. /\ Cardinality(Kept(i)) \in 1 .. Len(drawn) /\ Cardinality(Kept(i)) \in Nat
          /\ {j \in Kept(n - 1) : j <= i} = Kept(i)
      BY <2>1, <2>3, KeptFacts DEF Ordered
    <3>2. drawn[Cardinality(Kept(i))] = Projected(frame_pose, Object[i])
      BY <2>1, <2>3, <3>1 DEF Ordered
    <3>3. i \in 1 .. n - 1
      BY DEF Kept
    <3> QED BY <3>1, <3>2, <3>3 DEF Visible
  <2> QED BY <2>1, <2>3, <2>4 DEF DrawnInOrder, Ordered
<1> QED BY <1>1, RendererIInv, RendererStream, PTL

-----------------------------------------------------------------------------
(* The frame on the monitor.                                               *)

\* What the next cycle writes, and what the monitor reads, by role.
w_addr == IF rw THEN addr1 ELSE addr2

\* The drawing asks for pixels of the screen only.
OnScreen == cu_state = "Draw" => FB!Address(DrawXY) \in FB!Addresses

LEMMA CornerIsZero == FB!Address(Origin) = 0
BY OriginAssumption, Bounds DEF FB!Address

(* Between two triangles, and when the drawing is over, draw_line waits in *)
(* the corner.                                                             *)
Parked ==
  /\ dt_state \in DT!State
  /\ dt_state \in {"Wait", "Done"} \/ DT!draw_line_start => dl_state = "Wait"
  /\ dt_state \notin {"Wait", "Done"} => draw_state = "Draw"
  /\ dt_state = "Wait" \/ (dt_state = "Done" /\ draw_state # "Draw")
       => line_x = 0 /\ line_y = 0

\* The pixels the clear has passed are dark, but for the one on its way.
ClearedSoFar ==
  /\ cf_state = "Clear" => \A a \in FB!WriteBuffer : a >= Cleared \/ a = w_addr
  /\ cf_state = "Done" => FB!WriteBuffer \subseteq {w_addr} /\ h_counter = 0 /\ v_counter = 0

\* Two sets of pixels are the same but for the corner.
SamePicture(a, b) == a \ {0} = b \ {0}

Making ==
  /\ cu_state = "Init" => painted = NoPicture /\ shown = NoPicture
  /\ cu_state = "Clear" => painted = {} /\ ClearedSoFar
  /\ cu_state = "Draw" => /\ w_addr \in FB!Addresses
                          /\ SamePicture(FB!WriteBuffer \union {w_addr}, painted)
  /\ cu_state = "Done" /\ painted # NoPicture
       => w_addr = 0 /\ SamePicture(FB!WriteBuffer, painted)

Memories == /\ rw \in BOOLEAN
            /\ FB!WriteBuffer \subseteq FB!Addresses
            /\ FB!ReadBuffer \subseteq FB!Addresses

PictureInv == Parked /\ Memories /\ Making /\ ShowsOneFrame

LEMMA ParkedInit == RendererInit => Parked
BY DEF RendererInit, DT!Init, Parked, DT!State, DT!draw_line_start

LEMMA ParkedStep ==
  ASSUME TypeOK, Parked, NEW Reset \in BOOLEAN, NEW p \in Pose, RendererTick(Reset, p)
  PROVE  Parked'
<1>1. CASE Reset
  BY <1>1 DEF RendererTick, Tick, DT!Tick, DL!Tick, Parked, DT!State, DT!draw_line_start
<1>2. CASE ~Reset
  <2>1. dt_state' = DT!Step(DR!draw_triangle_start, DL!draw_line_done)
    BY <1>2 DEF RendererTick, DT!Tick
  <2>2. draw_state \in {"Wait", "Take1", "Take2", "Draw", "Done"}
        /\ draw_state' = DR!Step(CU!draw_start, TF!is_empty, DT!draw_triangle_done)
    BY <1>2 DEF TypeOK, DR!TypeOK, RendererTick, Tick, DR!Tick
  <2>3. DL!Waiting(DT!draw_line_start, DT!Edge(V)) \/ DL!Drawing(DT!Edge(V))
        \/ DL!Finished(DT!draw_line_start, DT!Edge(V))
    BY <1>2 DEF RendererTick, DL!Tick
  <2>4. dl_state = "Wait" => DL!Waiting(DT!draw_line_start, DT!Edge(V))
    BY <2>3 DEF DL!Drawing, DL!Finished
  <2>5. dt_state \in {"Wait", "Done"} => DT!Edge(V).x0 = 0 /\ DT!Edge(V).y0 = 0
    BY DEF DT!Edge, DT!Between
  <2>6. dt_state' \in DT!State
    BY <2>1 DEF Parked, DT!Step, DT!State
  <2>7. dt_state' \notin {"Wait", "Done"} => draw_state' = "Draw"
    BY <2>1, <2>2 DEF Parked, DT!State, DT!Step, DR!Step, DR!draw_triangle_start,
       DT!draw_triangle_done
  <2>8. dt_state' \in {"Wait", "Done"} \/ DT!draw_line_start' => dl_state' = "Wait"
    BY <2>1, <2>3 DEF Parked, DT!State, DT!Step, DL!Waiting, DL!Drawing, DL!Finished,
       DT!draw_line_start, DL!draw_line_done
  <2>9. dt_state' = "Wait" \/ (dt_state' = "Done" /\ draw_state' # "Draw")
          => line_x' = 0 /\ line_y' = 0
    BY <2>1, <2>2, <2>4, <2>5 DEF Parked, DT!State, DT!Step, DR!Step, DL!Waiting,
       DT!draw_line_start, DR!draw_triangle_start, DT!draw_triangle_done
  <2> QED BY <2>6, <2>7, <2>8, <2>9 DEF Parked
<1> QED BY <1>1, <1>2

\* When the drawing is over, the pixel on the wires is the corner.
LEMMA ParkedInCorner == ASSUME Parked, cu_state = "Draw", DR!draw_done PROVE DrawXY = Origin
BY OriginAssumption DEF Parked, DrawXY, CU!DrawPixel, DL!DrawPixel, DR!draw_done

-----------------------------------------------------------------------------
\* A cycle of the two memories, by role: the buffer that is written takes the
\* pixel whose address was registered a cycle ago, and the roles may change.
Written == FB!Written(FB!WriteBuffer, TRUE, w_addr, CU!draw_data)

LEMMA MemoryStep ==
  ASSUME TypeOK, rw \in BOOLEAN, NEW Reset \in BOOLEAN, NEW p, RendererTick(Reset, p)
  PROVE  /\ rw' \in BOOLEAN
         /\ (rw' <=> rw) => /\ FB!WriteBuffer' = Written
                            /\ FB!ReadBuffer' = FB!ReadBuffer
                            /\ w_addr' = FB!Address(DrawXY)
         /\ ~(rw' <=> rw) => /\ FB!ReadBuffer' = Written
                             /\ FB!WriteBuffer' = FB!ReadBuffer
         /\ ~Reset => (~(rw' <=> rw) <=> frame_clk_rising_edge /\ CU!frame_done)
<1>1. /\ FB!Tick(Reset, frame_clk_rising_edge, DrawXY, CU!draw_data, CU!frame_done, vga_h, vga_v)
      /\ frame_clk_rising_edge \in BOOLEAN /\ CU!frame_done \in BOOLEAN
  BY DEF RendererTick, TypeOK, CU!TypeOK, CU!frame_done
<1>2. rw' = (~Reset /\ (rw # (frame_clk_rising_edge /\ CU!frame_done)))
  BY <1>1 DEF FB!Tick
<1>3. rw' \in BOOLEAN /\ (~Reset => (~(rw' <=> rw) <=> frame_clk_rising_edge /\ CU!frame_done))
  BY <1>1, <1>2
<1>4. /\ addr1' = IF rw THEN FB!Address(DrawXY) ELSE FB!ReadAddress(vga_h, vga_v)
      /\ addr2' = IF rw THEN FB!ReadAddress(vga_h, vga_v) ELSE FB!Address(DrawXY)
      /\ buffer1' = FB!Written(buffer1, rw, addr1, CU!draw_data)
      /\ buffer2' = FB!Written(buffer2, ~rw, addr2, CU!draw_data)
  BY <1>1 DEF FB!Tick
<1>5. CASE rw
  <2>1. /\ addr1' = FB!Address(DrawXY) /\ buffer1' = Written /\ buffer2' = buffer2
        /\ FB!ReadBuffer = buffer2
    BY <1>4, <1>5 DEF FB!Written, FB!WriteBuffer, FB!ReadBuffer, w_addr, Written
  <2>2. CASE rw'
    <3>1. FB!WriteBuffer' = buffer1' /\ FB!ReadBuffer' = buffer2' /\ w_addr' = addr1'
      BY <2>2 DEF FB!WriteBuffer, FB!ReadBuffer, w_addr
    <3> QED BY <1>3, <1>5, <2>1, <2>2, <3>1, Zenon
  <2>3. CASE ~rw'
    <3>1. FB!WriteBuffer' = buffer2' /\ FB!ReadBuffer' = buffer1'
      BY <2>3 DEF FB!WriteBuffer, FB!ReadBuffer
    <3> QED BY <1>3, <1>5, <2>1, <2>3, <3>1, Zenon
  <2> QED BY <2>2, <2>3
<1>6. CASE ~rw
  <2>1. /\ addr2' = FB!Address(DrawXY) /\ buffer2' = Written /\ buffer1' = buffer1
        /\ FB!ReadBuffer = buffer1
    BY <1>4, <1>6 DEF FB!Written, FB!WriteBuffer, FB!ReadBuffer, w_addr, Written
  <2>2. CASE rw'
    <3>1. FB!WriteBuffer' = buffer1' /\ FB!ReadBuffer' = buffer2'
      BY <2>2 DEF FB!WriteBuffer, FB!ReadBuffer
    <3> QED BY <1>3, <1>6, <2>1, <2>2, <3>1, Zenon
  <2>3. CASE ~rw'
    <3>1. FB!WriteBuffer' = buffer2' /\ FB!ReadBuffer' = buffer1' /\ w_addr' = addr2'
      BY <2>3 DEF FB!WriteBuffer, FB!ReadBuffer, w_addr
    <3> QED BY <1>3, <1>6, <2>1, <2>3, <3>1, Zenon
  <2> QED BY <2>2, <2>3
<1> QED BY <1>5, <1>6

LEMMA MemoriesStep ==
  ASSUME TypeOK, Memories, Making, NEW Reset \in BOOLEAN, NEW p \in Pose,
         RendererTick(Reset, p)
  PROVE  Memories'
<1>1. FB!Tick(Reset, frame_clk_rising_edge, DrawXY, CU!draw_data, CU!frame_done, vga_h, vga_v)
      /\ frame_clk_rising_edge \in BOOLEAN /\ CU!frame_done \in BOOLEAN
  BY DEF RendererTick, TypeOK, CU!TypeOK, CU!frame_done
<1>2. Written \subseteq FB!Addresses
  BY DEF Memories, Making, Written, FB!Written, CU!draw_data
<1> QED BY <1>1, <1>2, MemoryStep DEF Memories

\* How the making of a picture ends and how it begins, in a cycle without reset.
LEMMA MakingDone ==
  ASSUME TypeOK, Memories, Making, ShowsOneFrame, cu_state \in {"Done", "Init"},
         NEW p \in Pose, RendererTick(FALSE, p), Phases
  PROVE  Making' /\ ShowsOneFrame'
<1>1. FB!Tick(FALSE, frame_clk_rising_edge, DrawXY, CU!draw_data, CU!frame_done, vga_h, vga_v)
      /\ frame_clk_rising_edge \in BOOLEAN /\ CU!frame_done \in BOOLEAN
  BY DEF RendererTick, TypeOK, CU!TypeOK, CU!frame_done
<1>2. RecordPixels(FALSE) /\ DrawXY = Origin /\ ~CU!draw_data
  BY DEF RendererTick, DrawXY, CU!DrawPixel, CU!draw_data
<1>3. Written = FB!WriteBuffer \ {w_addr}
  BY <1>2 DEF Written, FB!Written
<1>4. cu_state' = CU!Step(DR!draw_done, CF!clear_frame_done, LW!load_done)
  BY DEF RendererTick, Tick, CU!Tick
<1>5. CASE cu_state = "Init"
  <2>1. cu_state' \in {"Init", "Done"} /\ (rw' <=> rw) /\ painted' = painted /\ shown' = shown
    BY <1>1, <1>2, <1>4, <1>5, MemoryStep DEF CU!Step, CU!frame_done, RecordPixels, FrameStarts, Memories
  <2> QED BY <1>5, <2>1 DEF Making, ShowsOneFrame
<1>6. CASE cu_state = "Done" /\ ~frame_clk_rising_edge
  <2>1. cu_state' = "Done" /\ (rw' <=> rw) /\ painted' = painted /\ shown' = shown
    BY <1>1, <1>2, <1>4, <1>6, MemoryStep DEF CU!Step, CU!frame_done, RecordPixels, FrameStarts, Memories
  <2>2. /\ FB!WriteBuffer' = FB!WriteBuffer \ {w_addr} /\ w_addr' = 0
        /\ FB!ReadBuffer' = FB!ReadBuffer
    BY <1>1, <1>2, <1>3, <2>1, MemoryStep, CornerIsZero DEF Memories
  <2> QED BY <1>6, <2>1, <2>2 DEF Making, ShowsOneFrame, SamePicture
<1>7. CASE cu_state = "Done" /\ frame_clk_rising_edge
  <2>1. cu_state' = "Clear" /\ ~(rw' <=> rw) /\ painted' = {} /\ shown' = painted
    BY <1>1, <1>2, <1>4, <1>7, MemoryStep DEF CU!Step, CU!frame_done, RecordPixels, FrameStarts, Memories
  <2>2. cf_state' = "Wait"
    BY <1>7 DEF RendererTick, Tick, CF!Tick, CF!Step, CU!clear_start, Phases, InDone
  <2>3. FB!ReadBuffer' = FB!WriteBuffer \ {w_addr}
    BY <1>1, <1>3, <2>1, MemoryStep DEF Memories
  <2> QED BY <1>7, <2>1, <2>2, <2>3, CornerIsZero DEF Making, ClearedSoFar, ShowsOneFrame, SamePicture
<1> QED BY <1>5, <1>6, <1>7

LEMMA MakingDraw ==
  ASSUME TypeOK, Parked, Memories, Making, ShowsOneFrame, OnScreen, cu_state = "Draw",
         NEW p \in Pose, RendererTick(FALSE, p)
  PROVE  Making' /\ ShowsOneFrame'
<1>1. FB!Tick(FALSE, frame_clk_rising_edge, DrawXY, CU!draw_data, CU!frame_done, vga_h, vga_v)
      /\ frame_clk_rising_edge \in BOOLEAN /\ CU!frame_done \in BOOLEAN
  BY DEF RendererTick, TypeOK, CU!TypeOK, CU!frame_done
<1>2. RecordPixels(FALSE) /\ CU!draw_data /\ ~CU!frame_done /\ ~FrameStarts
  BY DEF RendererTick, CU!draw_data, CU!frame_done, FrameStarts
<1>3. Written = FB!WriteBuffer \union {w_addr}
  BY <1>2 DEF Written, FB!Written
<1>4. /\ painted' = painted \union {FB!Address(DrawXY)} /\ shown' = shown
      /\ (rw' <=> rw)
      /\ FB!WriteBuffer' = FB!WriteBuffer \union {w_addr} /\ FB!ReadBuffer' = FB!ReadBuffer
      /\ w_addr' = FB!Address(DrawXY)
  BY <1>1, <1>2, <1>3, MemoryStep DEF RecordPixels, Memories
<1>5. ShowsOneFrame'
  BY <1>4 DEF ShowsOneFrame
<1>6. SamePicture(FB!WriteBuffer' \union {w_addr'}, painted')
  BY <1>4 DEF Making, SamePicture
<1>7. CASE DR!draw_done
  <2>1. cu_state' = "Done" /\ w_addr' = 0
    BY <1>4, <1>7, ParkedInCorner, CornerIsZero DEF RendererTick, Tick, CU!Tick, CU!Step
  <2> QED BY <1>5, <1>6, <2>1 DEF Making, SamePicture
<1>8. CASE ~DR!draw_done
  <2>1. cu_state' = "Draw" /\ w_addr' \in FB!Addresses
    BY <1>4, <1>8 DEF OnScreen, RendererTick, Tick, CU!Tick, CU!Step
  <2> QED BY <1>5, <1>6, <2>1 DEF Making
<1> QED BY <1>7, <1>8

LEMMA MakingClear ==
  ASSUME TypeOK, Memories, Making, ShowsOneFrame, cu_state = "Clear",
         NEW p \in Pose, RendererTick(FALSE, p)
  PROVE  Making' /\ ShowsOneFrame'
<1>1. FB!Tick(FALSE, frame_clk_rising_edge, DrawXY, CU!draw_data, CU!frame_done, vga_h, vga_v)
      /\ frame_clk_rising_edge \in BOOLEAN /\ CU!frame_done \in BOOLEAN
  BY DEF RendererTick, TypeOK, CU!TypeOK, CU!frame_done
<1>2. /\ RecordPixels(FALSE) /\ ~CU!draw_data /\ ~CU!frame_done /\ ~FrameStarts
      /\ DrawXY = <<h_counter, v_counter>> /\ painted = {}
  BY DEF RendererTick, CU!draw_data, CU!frame_done, FrameStarts, DrawXY, CU!DrawPixel, Making
<1>3. Written = FB!WriteBuffer \ {w_addr}
  BY <1>2 DEF Written, FB!Written
<1>4. /\ painted' = {} /\ shown' = shown /\ (rw' <=> rw)
      /\ FB!WriteBuffer' = FB!WriteBuffer \ {w_addr} /\ FB!ReadBuffer' = FB!ReadBuffer
      /\ w_addr' = FB!Address(<<h_counter, v_counter>>)
  BY <1>1, <1>2, <1>3, MemoryStep DEF RecordPixels, Memories
<1>5. ShowsOneFrame'
  BY <1>4 DEF ShowsOneFrame
<1>6. CF!TypeOK /\ CF!Step(TRUE)
  BY DEF TypeOK, RendererTick, Tick, CF!Tick, CU!clear_start
<1>7. /\ h_counter \in Nat /\ v_counter \in Nat /\ H_TOTAL \in Nat /\ V_TOTAL \in Nat
      /\ v_counter * H_TOTAL \in Nat /\ H_TOTAL * V_TOTAL \in Nat /\ H_TOTAL * V_TOTAL >= 1
  <2>1. /\ h_counter \in Nat /\ v_counter \in Nat /\ H_TOTAL \in Nat /\ V_TOTAL \in Nat
        /\ H_TOTAL >= 1 /\ V_TOTAL >= 1
    BY <1>6, Bounds DEF CF!TypeOK
  <2> QED BY <2>1
<1>8. w_addr' = Cleared
  BY <1>4, <1>7 DEF FB!Address, Cleared
<1>9. CASE cf_state = "Wait"
  <2>1. cu_state' = "Clear" /\ cf_state' = "Clear" /\ h_counter' = 0 /\ v_counter' = 0
    BY <1>6, <1>9 DEF RendererTick, Tick, CU!Tick, CU!Step, CF!Step, CF!clear_frame_done
  <2>2. Cleared' = 0
    BY <2>1, <1>7 DEF Cleared
  <2>3. \A a \in FB!WriteBuffer' : a >= Cleared'
    BY <1>4, <2>2 DEF Memories, FB!Addresses
  <2> QED BY <1>4, <1>5, <2>1, <2>3 DEF Making, ClearedSoFar
<1>10. CASE cf_state = "Clear"
  <2>1. cu_state' = "Clear"
    BY <1>10 DEF RendererTick, Tick, CU!Tick, CU!Step, CF!clear_frame_done
  <2>2. FB!WriteBuffer' \subseteq FB!Addresses /\ \A a \in FB!WriteBuffer' : a >= Cleared
    BY <1>4, <1>10 DEF Memories, Making, ClearedSoFar
  <2>3. CASE CF!LastPixel
    <3>1. Cleared = H_TOTAL * V_TOTAL - 1 /\ cf_state' = "Done" /\ h_counter' = 0 /\ v_counter' = 0
      BY <1>6, <1>10, <2>3, ClearCounts DEF CF!Step, CF!LastPixel
    <3>2. FB!WriteBuffer' \subseteq {w_addr'}
      BY <1>7, <1>8, <2>2, <3>1 DEF FB!Addresses
    <3> QED BY <1>4, <1>5, <2>1, <3>1, <3>2 DEF Making, ClearedSoFar
  <2>4. CASE ~CF!LastPixel
    <3>1. Cleared \in Nat /\ Cleared' = Cleared + 1 /\ cf_state' = "Clear"
      BY <1>6, <1>10, <2>4, ClearCounts
    <3>2. \A a \in FB!WriteBuffer' : a >= Cleared' \/ a = w_addr'
      BY <1>8, <2>2, <3>1 DEF FB!Addresses
    <3> QED BY <1>4, <1>5, <2>1, <3>1, <3>2 DEF Making, ClearedSoFar
  <2> QED BY <2>3, <2>4
<1>11. CASE cf_state = "Done"
  <2>1. cu_state' = "Draw"
    BY <1>11 DEF RendererTick, Tick, CU!Tick, CU!Step, CF!clear_frame_done
  <2>2. FB!WriteBuffer' = {} /\ w_addr' = 0
    BY <1>4, <1>7, <1>8, <1>11 DEF Making, ClearedSoFar, Cleared
  <2>3. 0 \in FB!Addresses
    BY <1>7 DEF FB!Addresses
  <2> QED BY <1>4, <1>5, <2>1, <2>2, <2>3 DEF Making, SamePicture
<1> QED BY <1>6, <1>9, <1>10, <1>11 DEF CF!TypeOK

LEMMA MakingReset ==
  ASSUME NEW p, RendererTick(TRUE, p) PROVE Making' /\ ShowsOneFrame'
<1>1. cu_state' = "Init" /\ painted' = NoPicture /\ shown' = NoPicture
  BY DEF RendererTick, Tick, CU!Tick, RecordPixels
<1> QED BY <1>1 DEF Making, ShowsOneFrame

LEMMA PictureInit == RendererInit => PictureInv
<1> SUFFICES ASSUME RendererInit PROVE PictureInv
  OBVIOUS
<1>1. cu_state = "Init" /\ painted = NoPicture /\ shown = NoPicture
  BY DEF RendererInit, Init, CU!Init
<1>2. Memories
  BY DEF RendererInit, FB!Init, Memories, FB!WriteBuffer, FB!ReadBuffer
<1> QED BY <1>1, <1>2, ParkedInit DEF PictureInv, Making, ShowsOneFrame

LEMMA PictureStep ==
  ASSUME IInv, PictureInv, OnScreen, [RendererNext]_rendererVars
  PROVE  PictureInv'
<1>1. ASSUME NEW Reset \in BOOLEAN, NEW p \in Pose, RendererTick(Reset, p)
      PROVE  PictureInv'
  <2>1. Parked' /\ Memories'
    BY <1>1, ParkedStep, MemoriesStep DEF IInv, PictureInv
  <2>2. CASE Reset
    BY <1>1, <2>1, <2>2, MakingReset DEF PictureInv
  <2>3. CASE ~Reset
    <3>1. cu_state \in {"Done", "Init", "Draw", "Clear"}
      BY DEF IInv, TypeOK, CU!TypeOK, CU!State
    <3>2. Making' /\ ShowsOneFrame'
      BY <1>1, <2>3, <3>1, MakingDone, MakingDraw, MakingClear DEF IInv, PictureInv
    <3> QED BY <2>1, <3>2 DEF PictureInv
  <2> QED BY <2>2, <2>3
<1>2. CASE RendererRun \/ RendererReset
  BY <1>1, <1>2, ProjectionAssumption DEF RendererRun, RendererReset, NewPose, IInv, TypeOK
<1>3. CASE UNCHANGED rendererVars
  BY <1>3 DEF rendererVars, vars, pipelineVars, lineVars, CU!vars, CF!vars, DR!vars, FB!vars,
     PictureInv, Parked, DT!draw_line_start, Memories, Making, ShowsOneFrame, ClearedSoFar, Cleared,
     FB!WriteBuffer, FB!ReadBuffer, w_addr
<1> QED BY <1>2, <1>3 DEF RendererNext

-----------------------------------------------------------------------------
(* The pixels of the vertices.  A line begins with its first end point, so *)
(* that of a triangle whose edges are drawn every vertex is painted.       *)

Lit(k) == FB!Address(V[k]) \in painted
Shown(t) == \A k \in 1 .. 3 : FB!Address(t[k]) \in painted

\* draw_line has the k-th vertex on the wires.
AtStart(k) == dl_state = "Draw" /\ line_x = V[k][1] /\ line_y = V[k][2]

VerticesSoFar ==
  /\ dt_state \in {"Trigger2", "Draw2", "Trigger3", "Draw3", "Done"} => Lit(1)
  /\ dt_state \in {"Trigger3", "Draw3", "Done"} => Lit(2)
  /\ dt_state = "Done" => Lit(3)
  /\ dt_state = "Draw1" => Lit(1) \/ AtStart(1)
  /\ dt_state = "Draw2" => Lit(2) \/ AtStart(2)
  /\ dt_state = "Draw3" => Lit(3) \/ AtStart(3)

ShownUpTo(m) == \A i \in 1 .. m : Shown(drawn[i])

VerticesInv ==
  /\ draw_state = "Take2" => dt_state = "Wait"
  /\ cu_state = "Clear" => drawn = <<>>
  /\ cu_state = "Draw" /\ draw_state # "Draw" => ShownUpTo(Len(drawn))
  /\ draw_state = "Draw" => ShownUpTo(Len(drawn) - 1) /\ VerticesSoFar
  /\ cu_state = "Done" /\ painted # NoPicture => ShownUpTo(Len(drawn))

\* A cycle of draw_triangle and draw_line.
LEMMA VerticesSoFarStep ==
  ASSUME Parked, VerticesSoFar, draw_state = "Draw", cu_state = "Draw", NEW p,
         RendererTick(FALSE, p)
  PROVE  VerticesSoFar'
<1>1. /\ dt_state \in DT!State
      /\ dt_state' = DT!Step(TRUE, DL!draw_line_done)
      /\ V' = V
      /\ painted' = painted \union {FB!Address(DrawXY)}
  BY DEF Parked, RendererTick, DT!Tick, DR!draw_triangle_start, Tick, DR!Tick, RecordPixels, FrameStarts
<1>2. \A k : Lit(k) => Lit(k)'
  BY <1>1 DEF Lit, FB!Address
<1>3. ASSUME NEW k, AtStart(k) PROVE Lit(k)'
  <2>1. FB!Address(DrawXY) = FB!Address(V[k])
    BY <1>3 DEF AtStart, DrawXY, CU!DrawPixel, DL!DrawPixel, FB!Address
  <2> QED BY <1>1, <2>1 DEF Lit, FB!Address
<1>4. ASSUME DT!draw_line_start PROVE DL!Waiting(TRUE, DT!Edge(V))
  <2>1. dl_state = "Wait"
    BY <1>4 DEF Parked
  <2> QED BY <1>4, <2>1 DEF RendererTick, DL!Tick, DL!Waiting, DL!Drawing, DL!Finished
<1>5. /\ dt_state = "Trigger1" => AtStart(1)'
      /\ dt_state = "Trigger2" => AtStart(2)'
      /\ dt_state = "Trigger3" => AtStart(3)'
  BY <1>1, <1>4 DEF DT!draw_line_start, DL!Waiting, DT!Edge, DT!Between, AtStart
<1>6. DL!draw_line_done => \A k : ~AtStart(k)
  BY DEF DL!draw_line_done, AtStart
<1>7. CASE dt_state \in {"Wait", "Trigger1", "Trigger2", "Trigger3", "Done"}
  BY <1>1, <1>2, <1>5, <1>7 DEF VerticesSoFar, DT!Step
<1>8. CASE dt_state = "Draw1"
  BY <1>1, <1>2, <1>3, <1>6, <1>8 DEF VerticesSoFar, DT!Step
<1>9. CASE dt_state = "Draw2"
  BY <1>1, <1>2, <1>3, <1>6, <1>9 DEF VerticesSoFar, DT!Step
<1>10. CASE dt_state = "Draw3"
  BY <1>1, <1>2, <1>3, <1>6, <1>10 DEF VerticesSoFar, DT!Step
<1> QED BY <1>1, <1>7, <1>8, <1>9, <1>10 DEF DT!State

LEMMA VerticesStep ==
  ASSUME IInv, Traced, TimingInv, Parked, VerticesInv, NEW p \in Pose, RendererTick(FALSE, p)
  PROVE  VerticesInv'
<1>1. /\ cu_state' = CU!Step(DR!draw_done, CF!clear_frame_done, LW!load_done)
      /\ cu_state \in {"Init", "Clear", "Draw", "Done"}
      /\ draw_state' = DR!Step(CU!draw_start, TF!is_empty, DT!draw_triangle_done)
      /\ draw_state \in {"Wait", "Take1", "Take2", "Draw", "Done"}
      /\ dt_state' = DT!Step(DR!draw_triangle_start, DL!draw_line_done)
      /\ drawn' = IF FrameStarts THEN <<>>
                  ELSE IF draw_state = "Take2" THEN Append(drawn, fifo_out)
                  ELSE drawn
      /\ painted' = IF FrameStarts THEN {}
                    ELSE IF cu_state = "Draw" THEN painted \union {FB!Address(DrawXY)}
                    ELSE painted
  BY DEF RendererTick, Tick, CU!Tick, DR!Tick, DT!Tick, RecordPixels, Record, IInv, TypeOK, CU!TypeOK,
     CU!State, DR!TypeOK
<1>2. Len(drawn) \in Nat /\ drawn \in Seq(Triangle \union {Unwritten})
      /\ fifo_out \in Triangle \union {Unwritten}
  BY LenProperties DEF IInv, TypeOK, TF!TypeOK, TF!Word
<1>3. draw_state' = "Take2" => dt_state' = "Wait"
  <2> HAVE draw_state' = "Take2"
  <2>1. draw_state = "Take1" /\ dt_state \in {"Wait", "Done"}
    BY <1>1 DEF DR!Step, Parked
  <2> QED BY <1>1, <2>1 DEF DT!Step, DR!draw_triangle_start
<1>4. CASE cu_state = "Init"
  <2>1. cu_state' \in {"Init", "Done"} /\ painted' = NoPicture /\ draw_state' # "Draw"
    BY <1>1, <1>4 DEF CU!Step, DR!Step, CU!draw_start, FrameStarts, TimingInv, IInv, Phases, Loading
  <2> QED BY <1>3, <2>1 DEF VerticesInv
<1>5. CASE cu_state = "Clear"
  <2>1. draw_state = "Wait" /\ draw_state' = "Wait" /\ cu_state' \in {"Clear", "Draw"} /\ drawn' = <<>>
    BY <1>1, <1>5 DEF CU!Step, DR!Step, CU!draw_start, FrameStarts, IInv, Phases, InClear, VerticesInv
  <2> QED BY <1>3, <2>1 DEF VerticesInv, ShownUpTo
<1>6. CASE cu_state = "Done"
  <2>1. draw_state = "Wait" /\ draw_state' = "Wait" /\ cu_state' \in {"Clear", "Done"}
    BY <1>1, <1>6 DEF CU!Step, DR!Step, CU!draw_start, IInv, Phases, InDone
  <2>2. cu_state' = "Clear" => drawn' = <<>>
    BY <1>1, <1>6 DEF CU!Step, FrameStarts
  <2>3. cu_state' = "Done" => drawn' = drawn /\ painted' = painted
    BY <1>1, <1>6, <2>1 DEF CU!Step, FrameStarts
  <2> QED BY <1>3, <1>6, <2>1, <2>2, <2>3 DEF VerticesInv, ShownUpTo, Shown, FB!Address
<1>7. CASE cu_state = "Draw"
  <2>1. ~FrameStarts /\ cu_state' \in {"Draw", "Done"} /\ (cu_state' = "Done" <=> draw_state = "Done")
    BY <1>1, <1>7 DEF FrameStarts, CU!Step, DR!draw_done
  <2>2. \A i : Shown(drawn[i]) => (\A k \in 1 .. 3 : FB!Address(drawn[i][k]) \in painted')
    BY <1>1, <1>7, <2>1 DEF Shown
  <2>3. CASE draw_state = "Take2"
    <3>1. draw_state' = "Draw" /\ dt_state' = "Wait" /\ cu_state' = "Draw"
      BY <1>1, <2>1, <2>3 DEF DR!Step, VerticesInv, DT!Step, DR!draw_triangle_start
    <3>2. drawn' = Append(drawn, fifo_out) /\ Len(drawn') - 1 = Len(drawn)
          /\ \A i \in 1 .. Len(drawn) : drawn'[i] = drawn[i]
      BY <1>1, <1>2, <2>1, <2>3, AppendProperties
    <3>3. ShownUpTo(Len(drawn) - 1)'
      BY <1>7, <2>2, <2>3, <3>2 DEF VerticesInv, ShownUpTo, Shown, FB!Address
    <3> QED BY <1>3, <3>1, <3>3 DEF VerticesInv, VerticesSoFar
  <2>4. CASE draw_state = "Draw"
    <3>1. drawn' = drawn /\ cu_state' = "Draw" /\ draw_state' = (IF dt_state = "Done" THEN "Take1" ELSE "Draw")
      BY <1>1, <2>1, <2>4 DEF DR!Step, DT!draw_triangle_done
    <3>2. VerticesSoFar'
      BY <1>7, <2>4, VerticesSoFarStep DEF VerticesInv
    <3>3. \A i \in 1 .. Len(drawn) - 1 : (Shown(drawn[i]))'
      BY <2>2, <2>4, <3>1 DEF VerticesInv, ShownUpTo, Shown, FB!Address
    <3>4. CASE dt_state = "Done"
      <4>1. Shown(drawn[Len(drawn)])
        BY <2>4, <3>4 DEF VerticesInv, VerticesSoFar, Lit, Shown, Traced
      <4>2. \A i \in 1 .. Len(drawn) : (Shown(drawn[i]))'
        <5>1. (Shown(drawn[Len(drawn)]))'
          BY <2>2, <3>1, <4>1 DEF Shown, FB!Address
        <5>2. \A i \in 1 .. Len(drawn) : i \in 1 .. Len(drawn) - 1 \/ i = Len(drawn)
          BY <1>2
        <5> QED BY <3>1, <3>3, <5>1, <5>2
      <4> QED BY <1>3, <3>1, <3>4, <4>2 DEF VerticesInv, ShownUpTo
    <3>5. CASE dt_state # "Done"
      BY <1>3, <3>1, <3>2, <3>3, <3>5 DEF VerticesInv, ShownUpTo
    <3> QED BY <3>4, <3>5
  <2>5. CASE draw_state \in {"Wait", "Take1", "Done"}
    <3>1. drawn' = drawn /\ draw_state' # "Draw"
      BY <1>1, <2>1, <2>5 DEF DR!Step
    <3>2. ShownUpTo(Len(drawn))'
      BY <1>7, <2>2, <2>5, <3>1 DEF VerticesInv, ShownUpTo, Shown, FB!Address
    <3> QED BY <1>3, <2>1, <3>1, <3>2 DEF VerticesInv
  <2> QED BY <1>1, <2>3, <2>4, <2>5
<1> QED BY <1>1, <1>4, <1>5, <1>6, <1>7

LEMMA RendererParked == RendererSpec => []Parked
<1>1. IInv /\ Parked /\ [RendererNext]_rendererVars => Parked'
  <2> SUFFICES ASSUME IInv, Parked, [RendererNext]_rendererVars PROVE Parked'
    OBVIOUS
  <2>1. CASE RendererRun
    BY <2>1, ParkedStep DEF RendererRun, NewPose, IInv, TypeOK
  <2>2. CASE RendererReset
    BY <2>2, ParkedStep, ProjectionAssumption DEF RendererReset, IInv
  <2>3. CASE UNCHANGED rendererVars
    BY <2>3 DEF rendererVars, vars, pipelineVars, lineVars, DR!vars, Parked, DT!draw_line_start
  <2> QED BY <2>1, <2>2, <2>3 DEF RendererNext
<1> QED BY <1>1, ParkedInit, RendererIInv, PTL DEF RendererSpec

LEMMA VerticesPreserved ==
  ASSUME IInv, Traced, TimingInv, Parked, VerticesInv, [RendererNext]_rendererVars
  PROVE  VerticesInv'
<1>1. CASE RendererRun
  BY <1>1, VerticesStep DEF RendererRun, NewPose, IInv, TypeOK
<1>2. CASE RendererReset
  BY <1>2 DEF RendererReset, RendererTick, Tick, CU!Tick, DR!Tick, VerticesInv
<1>3. CASE UNCHANGED rendererVars
  <2>1. UNCHANGED <<cu_state, draw_state, V, dt_state, dl_state, line_x, line_y, drawn, painted>>
    BY <1>3 DEF rendererVars, vars, pipelineVars, lineVars, CU!vars, DR!vars
  <2> QED BY <2>1 DEF VerticesInv, VerticesSoFar, ShownUpTo, Shown, Lit, AtStart, FB!Address
<1> QED BY <1>1, <1>2, <1>3 DEF RendererNext

(* A finished frame has every vertex of every triangle drawn for it:       *)
(* draw_triangle starts each edge, draw_line writes its first pixel, and   *)
(* neither the corner nor the next triangle comes in between.              *)
THEOREM VerticesAreDrawn == RendererSpec => []VerticesShown
<1>1. RendererInit => VerticesInv
  BY DEF RendererInit, Init, CU!Init, DR!Init, VerticesInv
<1>2. RendererSpec => []VerticesInv
  BY <1>1, VerticesPreserved, RendererIInv, RendererTraced, RendererTiming, RendererParked, PTL
     DEF RendererSpec
<1>3. IInv /\ Traced /\ VerticesInv => VerticesShown
  <2> SUFFICES ASSUME IInv, Traced, VerticesInv, cu_state = "Done", painted # NoPicture,
                      NEW i \in DOMAIN drawn, NEW k \in DOMAIN drawn[i]
               PROVE  FB!Address(drawn[i][k]) \in painted
    BY DEF VerticesShown
  <2>1. i \in 1 .. Len(drawn) /\ i \in Nat
    BY LenProperties DEF IInv, TypeOK
  <2>2. i \in 1 .. Sent /\ Item(i) = drawn[i]
    BY <2>1 DEF Sent, Item, InFlight, IInv, TypeOK, TF!TypeOK
  <2>3. drawn[i] \in Triangle
    BY <2>2, ProjectionAssumption DEF Traced, Unclipped, OrigWord
  <2>4. k \in 1 .. 3
    BY <2>3, TriangleAssumption
  <2> QED BY <2>1, <2>4 DEF VerticesInv, ShownUpTo, Shown
<1> QED BY <1>2, <1>3, RendererIInv, RendererTraced, PTL

-----------------------------------------------------------------------------
(* The lines of a drawable object stay on the screen.                      *)

DLP == INSTANCE DrawLineProofs WITH curr_state <- dl_state, x <- line_x, y <- line_y,
                                    line <- DT!Edge(V), Lines <- {}

LEMMA SameLine ==
  /\ \A l : DL!Drawing(l) <=> DLP!Drawing(l)
  /\ \A start, l : DL!Waiting(start, l) <=> DLP!Waiting(start, l)
  /\ \A l : DL!Drawable(l) <=> DLP!Drawable(l)
  /\ \A l : DL!AtEnd(l) <=> DLP!AtEnd(l)
<1>1. \A l : DL!Drawable(l) <=> DLP!Drawable(l)
  BY DEF DL!Drawable, DLP!Drawable, DL!dx, DLP!dx, DL!dy, DLP!dy, DL!Distance, DLP!Distance
<1>2. \A l : DL!AtEnd(l) <=> DLP!AtEnd(l)
  BY DEF DL!AtEnd, DLP!AtEnd
<1>3. \A start, l : DL!Waiting(start, l) <=> DLP!Waiting(start, l)
  BY DEF DL!Waiting, DLP!Waiting, DL!temp_err, DLP!temp_err, DL!Signed, DLP!Signed,
     DL!dx, DLP!dx, DL!dy, DLP!dy, DL!Distance, DLP!Distance
<1>4. /\ \A l : DL!MoveX(l) <=> DLP!MoveX(l)
      /\ \A l : DL!MoveY(l) <=> DLP!MoveY(l)
  BY DEF DL!MoveX, DLP!MoveX, DL!MoveY, DLP!MoveY, DL!Signed, DLP!Signed,
     DL!dx, DLP!dx, DL!dy, DLP!dy, DL!Distance, DLP!Distance
<1>5. \A l : DL!Drawing(l) <=> DLP!Drawing(l)
  BY <1>2, <1>4 DEF DL!Drawing, DLP!Drawing, DL!Wrap, DLP!Wrap, DL!Signed, DLP!Signed, DL!sx, DLP!sx,
     DL!sy, DLP!sy, DL!dx, DLP!dx, DL!dy, DLP!dy, DL!Distance, DLP!Distance
<1> QED BY <1>1, <1>2, <1>3, <1>5

Column == 0 .. H_TOTAL - 1
Row == 0 .. V_TOTAL - 1

LineOnScreen ==
  /\ dl_state \in {"Wait", "Draw", "Done"}
  /\ dl_state # "Wait" => dt_state \in {"Draw1", "Draw2", "Draw3"}
  /\ dl_state = "Wait" => line_x \in Column /\ line_y \in Row
  /\ dl_state = "Draw" => DLP!TypeOK /\ DLP!OnTheWay

\* The edges of a triangle of a drawable object.
LEMMA EdgesDrawable ==
  ASSUME DrawableObject, IInv, Traced, Parked
  PROVE  LET l == DT!Edge(V)
         IN  /\ l \in DLP!Line /\ DLP!Drawable(l)
             /\ l.x0 \in Column /\ l.x1 \in Column /\ l.y0 \in Row /\ l.y1 \in Row
<1> DEFINE l == DT!Edge(V)
<1>1. /\ H_TOTAL \in Nat /\ V_TOTAL \in Nat /\ H_TOTAL >= 1 /\ V_TOTAL >= 1 /\ Half \in Nat /\ Half > 0
      /\ H_TOTAL <= 2 * Half /\ V_TOTAL <= 2 * Half
  BY Bounds, RegisterAssumption
<1>2. CASE dt_state \in {"Wait", "Done"}
  <2>1. l = [x0 |-> 0, y0 |-> 0, x1 |-> 0, y1 |-> 0]
    BY <1>2 DEF DT!Edge, DT!Between
  <2> QED BY <1>1, <2>1 DEF DLP!Line, DLP!Coord, DLP!Drawable, DLP!dx, DLP!dy, DLP!Distance, Column, Row
<1>3. CASE dt_state \notin {"Wait", "Done"}
  <2>1. draw_state = "Draw" /\ Len(drawn) \in Nat /\ Len(drawn) >= 1 /\ V = drawn[Len(drawn)]
    BY <1>3, LenProperties DEF Parked, Traced, IInv, TypeOK
  <2>2. Len(drawn) \in 1 .. Sent /\ Item(Len(drawn)) = V
    BY <2>1 DEF Sent, Item, InFlight, IInv, TypeOK, TF!TypeOK
  <2>3. DrawableTriangle(V)
    BY <2>2 DEF Traced, Unclipped, DrawableObject
  <2>4. PICK i, j \in 1 .. 3 : l = DT!Between(V[i], V[j])
    <3>1. 1 \in 1 .. 3 /\ 2 \in 1 .. 3 /\ 3 \in 1 .. 3
      OBVIOUS
    <3> QED BY <1>3, <3>1 DEF Parked, DT!State, DT!Edge
  <2>5. OnTheScreen(V[i]) /\ OnTheScreen(V[j]) /\ DLP!Drawable(l)
    BY <2>3, <2>4, SameLine DEF DrawableTriangle
  <2>6. l = [x0 |-> V[i][1], y0 |-> V[i][2], x1 |-> V[j][1], y1 |-> V[j][2]]
    BY <2>4 DEF DT!Between
  <2> QED BY <1>1, <2>5, <2>6 DEF OnTheScreen, DLP!Line, DLP!Coord, Column, Row
<1> QED BY <1>2, <1>3

LEMMA LineOnScreenStep ==
  ASSUME DrawableObject, IInv, Traced, Parked, LineOnScreen, NEW p, RendererTick(FALSE, p)
  PROVE  LineOnScreen'
<1> DEFINE l == DT!Edge(V)
<1>1. /\ l \in DLP!Line /\ DLP!Drawable(l)
      /\ l.x0 \in Column /\ l.x1 \in Column /\ l.y0 \in Row /\ l.y1 \in Row
  BY EdgesDrawable
<1>2. Column' = Column /\ Row' = Row
  BY DEF Column, Row
<1>3. /\ dt_state' = DT!Step(DR!draw_triangle_start, DL!draw_line_done)
      /\ draw_state = "Draw" => V' = V
      /\ dt_state \in DT!State /\ (dt_state \notin {"Wait", "Done"} => draw_state = "Draw")
      /\ DT!draw_line_start => dl_state = "Wait"
  BY DEF RendererTick, DT!Tick, Tick, DR!Tick, Parked
<1>4. CASE dl_state = "Wait" /\ ~DT!draw_line_start
  <2>1. DL!Waiting(FALSE, l)
    BY <1>4 DEF RendererTick, DL!Tick, DL!Drawing, DL!Finished, DL!Waiting
  <2> QED BY <1>1, <1>2, <2>1 DEF DL!Waiting, LineOnScreen
<1>5. CASE DT!draw_line_start
  <2>1. DL!Waiting(TRUE, l) /\ dl_state = "Wait" /\ dl_state' = "Draw"
    BY <1>3, <1>5 DEF RendererTick, DL!Tick, DL!Drawing, DL!Finished, DL!Waiting
  <2>2. dt_state' \in {"Draw1", "Draw2", "Draw3"} /\ l' = l
    BY <1>3, <1>5 DEF DT!draw_line_start, DT!Step, DT!Edge
  <2>3. DLP!Waiting(TRUE, l)
    BY <2>1, SameLine
  <2>4. DLP!TypeOK' /\ DLP!OnTheWay'
    <3> HIDE DEF l
    <3>1. l' \in DLP!Line
      BY <1>1, <2>2
    <3> USE DEF l
    <3>2. DLP!TypeOK'
      BY <1>1, <2>3, <3>1, RegisterAssumption, DLP!WaitingType
    <3>3. DLP!OnTheWay'
      BY <1>1, <2>2, <2>3, RegisterAssumption, DLP!StartOnTheWay
    <3> QED BY <3>2, <3>3
  <2> QED BY <2>1, <2>2, <2>4 DEF LineOnScreen
<1>6. CASE dl_state = "Draw"
  <2>1. DL!Drawing(l) /\ dt_state \in {"Draw1", "Draw2", "Draw3"} /\ DLP!TypeOK /\ DLP!OnTheWay
    BY <1>6 DEF RendererTick, DL!Tick, DL!Drawing, DL!Finished, DL!Waiting, LineOnScreen
  <2>2. dt_state' = dt_state /\ l' = l
    BY <1>3, <1>6, <2>1 DEF DL!draw_line_done, DT!Step, DT!Edge
  <2>3. CASE DL!AtEnd(l)
    BY <2>1, <2>2, <2>3 DEF DL!Drawing, LineOnScreen
  <2>4. CASE ~DL!AtEnd(l)
    <3>1. DLP!Drawing(l) /\ ~DLP!AtEnd(l)
      BY <2>1, <2>4, SameLine
    <3>2. DLP!TypeOK'
      BY <1>1, <2>1, <2>2, <3>1, RegisterAssumption, DLP!DrawingType
    <3>3. DLP!OnTheWay'
      BY <1>1, <2>1, <2>2, <3>1, RegisterAssumption, DLP!WalkStep
    <3>4. dl_state' = "Draw"
      BY <2>1, <2>4 DEF DL!Drawing
    <3> QED BY <2>1, <2>2, <3>2, <3>3, <3>4 DEF LineOnScreen
  <2> QED BY <2>3, <2>4
<1>7. CASE dl_state = "Done"
  <2>1. DL!Finished(FALSE, l)
    BY <1>3, <1>7 DEF RendererTick, DL!Tick, DL!Drawing, DL!Finished, DL!Waiting
  <2> QED BY <1>1, <1>2, <2>1 DEF DL!Finished, LineOnScreen
<1> QED BY <1>3, <1>4, <1>5, <1>6, <1>7 DEF LineOnScreen

LEMMA LineOnScreenPreserved ==
  ASSUME DrawableObject, IInv, Traced, Parked, LineOnScreen, [RendererNext]_rendererVars
  PROVE  LineOnScreen'
<1>1. CASE RendererRun
  BY <1>1, LineOnScreenStep DEF RendererRun
<1>2. CASE RendererReset
  BY <1>2, Bounds DEF RendererReset, RendererTick, DL!Tick, LineOnScreen, Column, Row
<1>3. CASE UNCHANGED rendererVars
  <2>1. UNCHANGED <<V, dt_state, dl_state, line_x, line_y, err>>
    BY <1>3 DEF rendererVars, vars, pipelineVars, lineVars, DR!vars
  <2>2. DT!Edge(V)' = DT!Edge(V)
    BY <2>1 DEF DT!Edge
  <2> QED BY <2>1, <2>2 DEF LineOnScreen, Column, Row, DLP!TypeOK, DLP!OnTheWay, DLP!Walk, DLP!Start0,
          DLP!ax, DLP!ay, DLP!dx, DLP!dy, DLP!Distance, DLP!Between
<1> QED BY <1>1, <1>2, <1>3 DEF RendererNext

LEMMA LinesStayOnScreen ==
  ASSUME DrawableObject, IInv, Traced, Parked, LineOnScreen
  PROVE  OnTheScreen(DL!DrawPixel(DT!Edge(V)))
<1> DEFINE l == DT!Edge(V)
<1>1. l.x0 \in Column /\ l.x1 \in Column /\ l.y0 \in Row /\ l.y1 \in Row
  BY EdgesDrawable
<1>2. CASE dl_state = "Wait"
  BY <1>2 DEF LineOnScreen, DL!DrawPixel, OnTheScreen, Column, Row
<1>3. CASE dl_state = "Done"
  BY <1>1, <1>3 DEF DL!DrawPixel, OnTheScreen, Column, Row
<1>4. CASE dl_state = "Draw"
  <2>1. /\ DLP!Between(line_x, l.x0, l.x1) /\ DLP!Between(line_y, l.y0, l.y1)
        /\ line_x \in Nat /\ line_y \in Nat
    BY <1>4, RegisterAssumption DEF LineOnScreen, DLP!OnTheWay, DLP!TypeOK, DLP!Coord
  <2>2. H_TOTAL \in Nat /\ V_TOTAL \in Nat
    BY Bounds
  <2>3. line_x \in Column /\ line_y \in Row
    BY <1>1, <2>1, <2>2 DEF DLP!Between, Column, Row
  <2> QED BY <1>4, <2>3 DEF DL!DrawPixel, OnTheScreen, Column, Row
<1> QED BY <1>2, <1>3, <1>4 DEF LineOnScreen

LEMMA AddressOnScreen ==
  ASSUME NEW pixel, OnTheScreen(pixel)
  PROVE  FB!Address(pixel) \in FB!Addresses
<1> DEFINE a == pixel[1]
           b == pixel[2]
<1>1. /\ H_TOTAL \in Nat /\ V_TOTAL \in Nat /\ a \in Nat /\ b \in Nat /\ a < H_TOTAL /\ b < V_TOTAL
  BY Bounds DEF OnTheScreen
<1> HIDE DEF a, b
<1>2. b * H_TOTAL + H_TOTAL <= V_TOTAL * H_TOTAL
  BY <1>1, RowBefore
<1>3. V_TOTAL * H_TOTAL = H_TOTAL * V_TOTAL /\ b * H_TOTAL \in Nat /\ H_TOTAL * V_TOTAL \in Nat
  BY <1>1
<1>4. a + b * H_TOTAL \in 0 .. H_TOTAL * V_TOTAL - 1
  BY <1>1, <1>2, <1>3
<1> QED BY <1>4 DEF a, b, FB!Address, FB!Addresses

\* Whatever is drawn, cleared or parked on lies on the screen.
LEMMA WireOnScreen ==
  ASSUME DrawableObject, IInv, Traced, Parked, LineOnScreen
  PROVE  FB!Address(DrawXY) \in FB!Addresses
<1>1. OnTheScreen(Origin)
  BY OriginAssumption, Bounds DEF OnTheScreen
<1>2. OnTheScreen(<<h_counter, v_counter>>)
  BY DEF IInv, TypeOK, CF!TypeOK, OnTheScreen
<1> QED BY <1>1, <1>2, LinesStayOnScreen, AddressOnScreen DEF DrawXY, CU!DrawPixel

LEMMA RendererLines == ASSUME DrawableObject PROVE RendererSpec => []LineOnScreen
<1>1. RendererInit => LineOnScreen
  BY Bounds DEF RendererInit, LineOnScreen, Column, Row
<1>2. IInv /\ Traced /\ Parked /\ LineOnScreen /\ [RendererNext]_rendererVars => LineOnScreen'
  BY LineOnScreenPreserved
<1> QED BY <1>1, <1>2, RendererIInv, RendererTraced, RendererParked, PTL DEF RendererSpec

LEMMA ScanAddress ==
  ASSUME VGA!TypeOK
  PROVE  FB!ReadAddress(vga_h, vga_v) \in FB!Addresses
<1> DEFINE a == IF vga_h < H_TOTAL THEN vga_h ELSE H_TOTAL - 1
           b == IF vga_v < V_TOTAL THEN vga_v ELSE V_TOTAL - 1
<1>1. vga_h \in Nat /\ vga_v \in Nat
  BY SyncBounds DEF VGA!TypeOK
<1>2. a \in 0 .. H_TOTAL - 1 /\ b \in 0 .. V_TOTAL - 1
  BY <1>1, Bounds
<1>3. OnTheScreen(<<a, b>>)
  BY <1>2 DEF OnTheScreen
<1> QED BY <1>3, AddressOnScreen DEF FB!ReadAddress

LEMMA BufferTypes ==
  ASSUME FB!TypeOK, VGA!TypeOK, FB!Address(DrawXY) \in FB!Addresses, NEW Reset \in BOOLEAN, NEW p,
         RendererTick(Reset, p)
  PROVE  FB!TypeOK'
<1>1. FB!Tick(Reset, frame_clk_rising_edge, DrawXY, CU!draw_data, CU!frame_done, vga_h, vga_v)
  BY DEF RendererTick
<1>2. FB!ReadAddress(vga_h, vga_v) \in FB!Addresses
  BY ScanAddress
<1>3. /\ rw \in BOOLEAN /\ sampled1 \in BOOLEAN /\ sampled2 \in BOOLEAN
      /\ read_data1 \in BOOLEAN /\ read_data2 \in BOOLEAN
      /\ addr1 \in FB!Addresses /\ addr2 \in FB!Addresses
      /\ buffer1 \subseteq FB!Addresses /\ buffer2 \subseteq FB!Addresses
  BY DEF FB!TypeOK
<1>4. /\ rw' \in BOOLEAN /\ sampled1' \in BOOLEAN /\ sampled2' \in BOOLEAN
      /\ read_data1' \in BOOLEAN /\ read_data2' \in BOOLEAN /\ read_data' \in BOOLEAN
  BY <1>1, <1>3 DEF FB!Tick
<1>5. addr1' \in FB!Addresses /\ addr2' \in FB!Addresses
  BY <1>1, <1>2 DEF FB!Tick
<1>6. buffer1' \subseteq FB!Addresses /\ buffer2' \subseteq FB!Addresses
  BY <1>1, <1>3 DEF FB!Tick, FB!Written
<1>7. FB!Addresses' = FB!Addresses
  BY DEF FB!Addresses
<1> QED BY <1>4, <1>5, <1>6, <1>7 DEF FB!TypeOK

(* Every machine, register and memory of the renderer keeps its range: no  *)
(* address reaches a memory that is not one of its words.                  *)
THEOREM RendererTypes == ASSUME DrawableObject PROVE RendererSpec => []RendererTypeOK
<1>1. RendererInit => FB!TypeOK
  <2>1. 0 \in FB!Addresses
    BY Bounds, OriginAssumption, AddressOnScreen, CornerIsZero DEF OnTheScreen
  <2> QED BY <2>1 DEF RendererInit, FB!Init, FB!TypeOK
<1>2. IInv /\ Traced /\ Parked /\ LineOnScreen /\ TimingInv /\ FB!TypeOK /\ [RendererNext]_rendererVars
        => FB!TypeOK'
  <2> SUFFICES ASSUME IInv, Traced, Parked, LineOnScreen, TimingInv, FB!TypeOK,
                      [RendererNext]_rendererVars
               PROVE  FB!TypeOK'
    OBVIOUS
  <2>1. FB!Address(DrawXY) \in FB!Addresses /\ VGA!TypeOK
    BY WireOnScreen DEF TimingInv
  <2>2. CASE RendererNext
    BY <2>1, <2>2, BufferTypes DEF RendererNext, RendererRun, RendererReset
  <2>3. CASE UNCHANGED rendererVars
    BY <2>3 DEF rendererVars, FB!vars, FB!TypeOK, FB!Addresses
  <2> QED BY <2>2, <2>3
<1>3. RendererSpec => []FB!TypeOK
  BY <1>1, <1>2, RendererIInv, RendererTraced, RendererParked, RendererTiming, RendererLines, PTL
     DEF RendererSpec
<1>4. IInv /\ TimingInv /\ Parked /\ FB!TypeOK => RendererTypeOK
  BY DEF IInv, TimingInv, Parked, DT!TypeOK, RendererTypeOK
<1> QED BY <1>3, <1>4, RendererIInv, RendererTiming, RendererParked, PTL

LEMMA RendererPicture == ASSUME DrawableObject PROVE RendererSpec => []PictureInv
<1>1. RendererInit => PictureInv
  BY PictureInit
<1>2. IInv /\ Traced /\ Parked /\ LineOnScreen => OnScreen
  BY WireOnScreen DEF OnScreen
<1>3. IInv /\ PictureInv /\ OnScreen /\ [RendererNext]_rendererVars => PictureInv'
  BY PictureStep
<1> QED BY <1>1, <1>2, <1>3, RendererIInv, RendererTraced, RendererParked, RendererLines, PTL
        DEF RendererSpec

(* The monitor shows one finished frame: all its pixels, no pixel of an    *)
(* earlier frame, none of the next.                                        *)
THEOREM MonitorShowsOneFrame == ASSUME DrawableObject PROVE RendererSpec => []ShowsOneFrame
<1>1. PictureInv => ShowsOneFrame
  BY DEF PictureInv
<1> QED BY <1>1, RendererPicture, PTL

-----------------------------------------------------------------------------
(* The read path of the frame buffer: four cycles from the position of the *)
(* scan to the pixel of the monitor, two of them for each pixel.           *)

\* The read path, by role.
r_addr    == IF rw THEN addr2 ELSE addr1
r_sampled == IF rw THEN sampled2 ELSE sampled1
r_data    == IF rw THEN read_data2 ELSE read_data1

\* The addresses of the scan: now, a pixel earlier and two pixels earlier.
Here == FB!ReadAddress(vga_h, vga_v)
Behind(k) == IF vga_h >= k THEN FB!ReadAddress(vga_h - k, vga_v)
             ELSE FB!ReadAddress(H_TOTAL - 1, vga_v - 1)

\* From the first line to the vertical sync the buffers do not change roles.
ScanInv ==
  /\ VGA_BLANK_N => vga_h < H_TOTAL /\ vga_v < V_TOTAL
  /\ shown # NoPicture /\ vga_v < SyncEnd =>
       /\ ScanTime >= 1 => r_addr = IF VGA_CLK THEN Behind(1) ELSE Here
       /\ ScanTime >= 2 => (r_sampled <=> Behind(1) \in FB!ReadBuffer)
       /\ ScanTime >= 3 =>
            (r_data <=> (IF VGA_CLK THEN Behind(2) ELSE Behind(1)) \in FB!ReadBuffer)
       /\ ScanTime >= 4 => (read_data <=> Behind(2) \in FB!ReadBuffer)

\* A cycle of the read path, as long as the buffers keep their roles.
LEMMA ReadPathStep ==
  ASSUME TypeOK, rw \in BOOLEAN, NEW p, RendererTick(FALSE, p), ~FrameStarts
  PROVE  /\ FB!ReadBuffer' = FB!ReadBuffer
         /\ r_addr' = Here
         /\ r_sampled' <=> r_addr \in FB!ReadBuffer
         /\ r_data' = r_sampled
         /\ read_data' = r_data
<1>1. rw' \in BOOLEAN /\ (rw' <=> rw) /\ FB!ReadBuffer' = FB!ReadBuffer
  BY MemoryStep DEF FrameStarts, CU!frame_done
<1>2. /\ addr1' = IF rw THEN FB!Address(DrawXY) ELSE Here
      /\ addr2' = IF rw THEN Here ELSE FB!Address(DrawXY)
      /\ sampled1' = (addr1 \in buffer1') /\ sampled2' = (addr2 \in buffer2')
      /\ read_data1' = sampled1 /\ read_data2' = sampled2
      /\ read_data' = IF rw THEN read_data2 ELSE read_data1
  BY DEF RendererTick, FB!Tick, Here
<1>3. CASE rw
  <2>1. rw' /\ FB!ReadBuffer = buffer2 /\ FB!ReadBuffer' = buffer2'
    BY <1>1, <1>3 DEF FB!ReadBuffer
  <2> QED BY <1>1, <1>2, <1>3, <2>1 DEF r_addr, r_sampled, r_data
<1>4. CASE ~rw
  <2>1. ~rw' /\ FB!ReadBuffer = buffer1 /\ FB!ReadBuffer' = buffer1'
    BY <1>1, <1>4 DEF FB!ReadBuffer
  <2> QED BY <1>1, <1>2, <1>4, <2>1 DEF r_addr, r_sampled, r_data
<1> QED BY <1>3, <1>4

\* A cycle of the scan that does not begin a new one.
LEMMA ScanMoves ==
  ASSUME VGA!TypeOK, NEW p, RendererTick(FALSE, p), ScanTime' # 0
  PROVE  /\ VGA_CLK => VGA_CLK' = FALSE /\ Here' = Here /\ Behind(1)' = Behind(1)
                       /\ Behind(2)' = Behind(2)
         /\ ~VGA_CLK => VGA_CLK' = TRUE /\ Behind(1)' = Here /\ Behind(2)' = Behind(1)
<1>1. /\ vga_h \in Nat /\ vga_v \in Nat /\ VGA_CLK \in BOOLEAN
      /\ VGA_H_TOTAL \in Nat /\ H_TOTAL \in Nat /\ H_TOTAL >= 1 /\ VGA_H_TOTAL >= H_TOTAL + 1
  BY SyncBounds, Bounds DEF VGA!TypeOK
<1>2. CASE VGA_CLK
  <2>1. VGA_CLK' = FALSE /\ vga_h' = vga_h /\ vga_v' = vga_v
    BY <1>2 DEF RendererTick, VGA!Tick, VGA!registers
  <2> QED BY <1>2, <2>1 DEF Here, Behind, FB!ReadAddress, FB!Address
<1>3. CASE ~VGA_CLK
  <2>1. VGA_CLK' = TRUE /\ vga_h' = VGA!h_counter_in /\ vga_v' = VGA!v_counter_in
    BY <1>3 DEF RendererTick, VGA!Tick, VGA!Scan
  <2>2. CASE vga_h + 1 # VGA_H_TOTAL
    <3>1. vga_h' = vga_h + 1 /\ vga_v' = vga_v
      BY <2>1, <2>2 DEF VGA!h_counter_in, VGA!v_counter_in
    <3>2. Behind(1)' = Here
      BY <1>1, <3>1 DEF Behind, Here, FB!ReadAddress, FB!Address
    <3>3. Behind(2)' = Behind(1)
      BY <1>1, <3>1 DEF Behind, FB!ReadAddress, FB!Address
    <3> QED BY <1>3, <2>1, <3>2, <3>3
  <2>3. CASE vga_h + 1 = VGA_H_TOTAL
    <3>1. vga_h' = 0 /\ (vga_v' = vga_v + 1 \/ vga_v' = 0)
      BY <2>1, <2>3 DEF VGA!h_counter_in, VGA!v_counter_in
    <3>2. vga_v' # 0
      BY <1>1, <2>1, <3>1 DEF ScanTime
    <3>3. /\ vga_v' - 1 = vga_v /\ vga_h >= H_TOTAL /\ vga_h - 1 >= H_TOTAL - 1 /\ vga_h >= 1
          /\ ~(vga_h' >= 1) /\ ~(vga_h' >= 2)
      BY <1>1, <2>3, <3>1, <3>2
    <3>4. Behind(1)' = FB!ReadAddress(H_TOTAL - 1, vga_v) /\ Behind(2)' = FB!ReadAddress(H_TOTAL - 1, vga_v)
      BY <3>3 DEF Behind, FB!ReadAddress, FB!Address
    <3>5. Here = FB!ReadAddress(H_TOTAL - 1, vga_v) /\ Behind(1) = FB!ReadAddress(H_TOTAL - 1, vga_v)
      BY <1>1, <3>3 DEF Here, Behind, FB!ReadAddress, FB!Address
    <3> QED BY <1>3, <2>1, <3>4, <3>5
  <2> QED BY <2>2, <2>3
<1> QED BY <1>2, <1>3

\* While a picture is shown the buffers change roles after the visible lines.
LEMMA KeepsShowing ==
  ASSUME TimingInv, NEW p, RendererTick(FALSE, p), shown' # NoPicture, ScanTime' # 0,
         (vga_v < SyncEnd)'
  PROVE  shown' = shown /\ ~FrameStarts /\ vga_v < SyncEnd /\ ScanTime' = ScanTime + 1
         /\ ScanTime \in Nat
<1>1. /\ ScanTime \in 0 .. Period - 1
      /\ ScanTime' = IF ScanTime = Period - 1 THEN 0 ELSE ScanTime + 1
      /\ vga_v < SyncEnd <=> ScanTime < EdgeTime
      /\ VGA!TypeOK'
  BY ScanStep, VgaTypeStep DEF TimingInv, RendererTick
<1>2. EdgeTime \in Nat /\ Period \in Nat
  BY ScanBounds
<1>3. ScanTime' < EdgeTime
  <2>1. /\ vga_h' \in Nat /\ vga_v' \in Nat /\ vga_h' < VGA_H_TOTAL /\ vga_v' < SyncEnd
        /\ VGA_H_TOTAL \in Nat /\ SyncEnd \in Nat
    BY <1>1, SyncBounds DEF VGA!TypeOK, SyncEnd
  <2>2. PICK v, w, h, W \in Nat : v = vga_v' /\ w = SyncEnd /\ h = vga_h' /\ W = VGA_H_TOTAL
    BY <2>1
  <2>3. v < w /\ h < W
    BY <2>1, <2>2
  <2>4. v * W + W <= w * W
    BY <2>3, RowBefore
  <2>5. v * W \in Nat /\ w * W \in Nat
    OBVIOUS
  <2>6. 2 * (v * W + h) + 1 < 2 * (w * W)
    BY <2>3, <2>4, <2>5
  <2>7. EdgeTime = 2 * (w * W)
    BY <2>2 DEF EdgeTime
  <2>8. ScanTime' = 2 * (v * W + h) + (IF VGA_CLK' THEN 0 ELSE 1)
    BY <2>2, Zenon DEF ScanTime
  <2> QED BY <2>5, <2>6, <2>7, <2>8
<1>4. ScanTime' = ScanTime + 1 /\ ScanTime < EdgeTime
  BY <1>1, <1>2, <1>3
<1>5. ~FrameStarts
  <2> SUFFICES ASSUME FrameStarts PROVE FALSE
    OBVIOUS
  <2>1. painted = NoPicture
    BY <1>2, <1>4, <1>1 DEF FrameStarts, TimingInv, EdgeInv
  <2> QED BY <2>1 DEF RendererTick, RecordPixels
<1> QED BY <1>1, <1>4, <1>5 DEF RendererTick, RecordPixels

LEMMA ScanInvStep ==
  ASSUME IInv, TimingInv, rw \in BOOLEAN, ScanInv, NEW p, RendererTick(FALSE, p)
  PROVE  ScanInv'
<1>1. VGA_BLANK_N' => vga_h' < H_TOTAL /\ vga_v' < V_TOTAL
  BY DEF RendererTick, VGA!Tick, VGA!Scan, VGA!registers, ScanInv
<1>2. CASE ScanTime' = 0
  BY <1>1, <1>2 DEF ScanInv
<1>3. CASE ~(shown' # NoPicture /\ (vga_v < SyncEnd)')
  BY <1>1, <1>3 DEF ScanInv
<1>4. CASE ScanTime' # 0 /\ shown' # NoPicture /\ (vga_v < SyncEnd)'
  <2>1. shown # NoPicture /\ ~FrameStarts /\ vga_v < SyncEnd /\ ScanTime' = ScanTime + 1 /\ ScanTime \in Nat
    BY <1>4, KeepsShowing
  <2>2. /\ FB!ReadBuffer' = FB!ReadBuffer
        /\ r_addr' = Here
        /\ r_sampled' <=> r_addr \in FB!ReadBuffer
        /\ r_data' = r_sampled
        /\ read_data' = r_data
    BY <2>1, ReadPathStep DEF IInv
  <2>3. VGA!TypeOK /\ VGA_CLK \in BOOLEAN
    BY DEF TimingInv, VGA!TypeOK
  <2>4. /\ ScanTime >= 1 => r_addr = IF VGA_CLK THEN Behind(1) ELSE Here
        /\ ScanTime >= 2 => (r_sampled <=> Behind(1) \in FB!ReadBuffer)
        /\ ScanTime >= 3 =>
            (r_data <=> (IF VGA_CLK THEN Behind(2) ELSE Behind(1)) \in FB!ReadBuffer)
    BY <2>1 DEF ScanInv
  <2>5. CASE VGA_CLK
    <3>1. VGA_CLK' = FALSE /\ Here' = Here /\ Behind(1)' = Behind(1) /\ Behind(2)' = Behind(2)
      BY <1>4, <2>3, <2>5, ScanMoves
    <3> QED BY <1>1, <2>1, <2>2, <2>4, <2>5, <3>1 DEF ScanInv
  <2>6. CASE ~VGA_CLK
    <3>1. VGA_CLK' = TRUE /\ Behind(1)' = Here /\ Behind(2)' = Behind(1)
      BY <1>4, <2>3, <2>6, ScanMoves
    <3>2. ScanTime >= 1
      <4>1. vga_v * VGA_H_TOTAL + vga_h \in Nat
        BY <2>3, SyncBounds DEF VGA!TypeOK
      <4> QED BY <2>6, <4>1 DEF ScanTime
    <3> QED BY <1>1, <2>1, <2>2, <2>4, <2>6, <3>1, <3>2 DEF ScanInv
  <2> QED BY <2>3, <2>5, <2>6
<1> QED BY <1>2, <1>3, <1>4

LEMMA ScanPreserved ==
  ASSUME IInv, TimingInv, rw \in BOOLEAN, ScanInv, [RendererNext]_rendererVars
  PROVE  ScanInv'
<1>1. CASE RendererRun
  BY <1>1, ScanInvStep DEF RendererRun
<1>2. CASE RendererReset
  <2>1. shown' = NoPicture
    BY <1>2 DEF RendererReset, RendererTick, RecordPixels
  <2>2. VGA_BLANK_N' => vga_h' < H_TOTAL /\ vga_v' < V_TOTAL
    BY <1>2 DEF RendererReset, RendererTick, VGA!Tick, VGA!Scan, VGA!Cleared, VGA!registers, ScanInv
  <2> QED BY <2>1, <2>2 DEF ScanInv
<1>3. CASE UNCHANGED rendererVars
  <2>1. /\ UNCHANGED <<VGA_CLK, VGA_BLANK_N, vga_h, vga_v, shown, rw, addr1, addr2, buffer1, buffer2>>
        /\ UNCHANGED <<sampled1, sampled2, read_data1, read_data2, read_data>>
    BY <1>3 DEF rendererVars, VGA!vars, VGA!registers, FB!vars
  <2>2. /\ r_addr' = r_addr /\ r_sampled' = r_sampled /\ r_data' = r_data
        /\ Here' = Here /\ Behind(1)' = Behind(1) /\ Behind(2)' = Behind(2)
        /\ FB!ReadBuffer' = FB!ReadBuffer /\ ScanTime' = ScanTime /\ (vga_v < SyncEnd)' = (vga_v < SyncEnd)
    BY <2>1 DEF r_addr, r_sampled, r_data, Here, Behind, FB!ReadAddress, FB!Address, FB!ReadBuffer,
       ScanTime, SyncEnd
  <2> QED BY <2>1, <2>2 DEF ScanInv
<1> QED BY <1>1, <1>2, <1>3 DEF RendererNext

(* The pixel the monitor gets is the one the scan was at two pixels        *)
(* earlier, of the one frame that is shown: the read path never mixes the  *)
(* two memories within the visible lines.                                  *)
THEOREM MonitorShowsScan == ASSUME DrawableObject PROVE RendererSpec => []ScanShowsPicture
<1>1. RendererInit => ScanInv
  BY DEF RendererInit, VGA!Init, VGA!Cleared, ScanInv
<1>2. PictureInv => rw \in BOOLEAN /\ ShowsOneFrame
  BY DEF PictureInv, Memories
<1>3. IInv /\ TimingInv /\ rw \in BOOLEAN /\ ScanInv /\ [RendererNext]_rendererVars => ScanInv'
  BY ScanPreserved
<1>4. TimingInv /\ ShowsOneFrame /\ ScanInv => ScanShowsPicture
  <2> SUFFICES ASSUME TimingInv, ShowsOneFrame, ScanInv, shown # NoPicture, VGA_BLANK_N,
                      ~(vga_v = 0 /\ vga_h < 2)
               PROVE  read_data <=> FB!Address(Earlier) \in shown \ {FB!Address(Origin)}
    BY DEF ScanShowsPicture
  <2>1. /\ vga_h \in Nat /\ vga_v \in Nat /\ vga_h < H_TOTAL /\ vga_v < V_TOTAL
        /\ SyncEnd \in Nat /\ V_TOTAL < SyncEnd /\ VGA_CLK \in BOOLEAN
        /\ VGA_H_TOTAL \in Nat /\ VGA_H_TOTAL >= 2 /\ H_TOTAL \in Nat /\ V_TOTAL \in Nat
    BY SyncBounds, Bounds DEF TimingInv, VGA!TypeOK, ScanInv
  <2>2. ScanTime >= 4
    <3>1. CASE vga_v = 0
      BY <2>1, <3>1 DEF ScanTime
    <3>2. CASE vga_v >= 1
      <4>1. 0 * VGA_H_TOTAL + VGA_H_TOTAL <= vga_v * VGA_H_TOTAL
        BY <2>1, <3>2, RowBefore
      <4>2. vga_v * VGA_H_TOTAL \in Nat
        BY <2>1
      <4> QED BY <2>1, <4>1, <4>2 DEF ScanTime
    <3> QED BY <2>1, <3>1, <3>2
  <2>3. Behind(2) = FB!Address(Earlier)
    <3>1. CASE vga_h >= 2
      BY <2>1, <3>1 DEF Behind, Earlier, FB!ReadAddress, FB!Address
    <3>2. CASE vga_h < 2
      BY <2>1, <3>2 DEF Behind, Earlier, FB!ReadAddress, FB!Address
    <3> QED BY <2>1, <3>1, <3>2
  <2>4. read_data <=> Behind(2) \in FB!ReadBuffer
    BY <2>1, <2>2 DEF ScanInv
  <2> QED BY <2>3, <2>4 DEF ShowsOneFrame
<1> QED BY <1>1, <1>2, <1>3, <1>4, RendererIInv, RendererTiming, RendererPicture, PTL DEF RendererSpec

-----------------------------------------------------------------------------
(* The pixels of the edges.  draw_line passes along an edge pixel by pixel *)
(* and draw_triangle waits until it is over, so that no edge has a gap;    *)
(* and before, between and after the edges the wires rest on pixels of     *)
(* edges or in the corner.                                                 *)

Covered(l, m) == \A k \in 0 .. m : \E a \in painted : PixelOf(a, l, k)
EdgeDone(l) == Covered(l, Length(l))
Whole(t) == \A l \in Edges(t) : EdgeDone(l)

\* The part of the line passed when draw_line is at its position.
Passed(l) == Covered(l, DL!Along(line_x, line_y, l) - 1)

EdgesSoFar ==
  /\ dt_state \in {"Trigger2", "Draw2", "Trigger3", "Draw3", "Done"} => EdgeDone(DT!Between(V[1], V[2]))
  /\ dt_state \in {"Trigger3", "Draw3", "Done"} => EdgeDone(DT!Between(V[2], V[3]))
  /\ dt_state = "Done" => EdgeDone(DT!Between(V[3], V[1]))
  /\ dl_state = "Draw" => Passed(DT!Edge(V))
  /\ dl_state = "Done" => EdgeDone(DT!Edge(V))

WholeUpTo(m) == \A i \in 1 .. m : Whole(drawn[i])

EdgesInv ==
  /\ draw_state = "Take2" => dt_state = "Wait"
  /\ cu_state = "Clear" => drawn = <<>>
  /\ cu_state = "Draw" /\ draw_state # "Draw" => WholeUpTo(Len(drawn))
  /\ draw_state = "Draw" => WholeUpTo(Len(drawn) - 1) /\ EdgesSoFar
  /\ cu_state = "Done" /\ painted # NoPicture => WholeUpTo(Len(drawn))

\* While draw_line waits, its position is the corner or a vertex.
Resting ==
  dl_state = "Wait" =>
    \/ line_x = 0 /\ line_y = 0
    \/ draw_state = "Draw" /\ \E k \in 1 .. 3 : line_x = V[k][1] /\ line_y = V[k][2]

\* The address is a pixel of an edge of a triangle.
OnEdgeOf(a, t) == \E l \in Edges(t) : \E k \in 0 .. Length(l) : PixelOf(a, l, k)
OnSomeEdge(a) == \E i \in 1 .. Len(drawn) : OnEdgeOf(a, drawn[i])

OnlyEdgesInv ==
  /\ Resting
  /\ cu_state = "Draw" \/ (cu_state = "Done" /\ painted # NoPicture)
       => \A a \in painted \ {0} : OnSomeEdge(a)

LEMMA SamePixels ==
  ASSUME NEW c, NEW r, NEW l
  PROVE  /\ DL!OfLine(c, r, l) <=> DLP!OfLine(c, r, l)
         /\ DL!Along(c, r, l) = DLP!Along(c, r, l)
         /\ Length(l) = DLP!Largest(DLP!dx(l), DLP!dy(l))
BY DEF DL!OfLine, DLP!OfLine, DL!Along, DLP!Along, Length, DL!Largest, DLP!Largest, DL!dx, DLP!dx,
   DL!dy, DLP!dy, DL!Distance, DLP!Distance, DL!Between, DLP!Between

\* The pixel on the wires while a line is drawn.
LEMMA WalkedPixel ==
  ASSUME DrawableObject, IInv, Traced, Parked, LineOnScreen, cu_state = "Draw", dl_state # "Wait"
  PROVE  LET l == DT!Edge(V)
         IN  /\ dl_state = "Draw" => /\ PixelOf(FB!Address(DrawXY), l, DL!Along(line_x, line_y, l))
                                     /\ DL!Along(line_x, line_y, l) \in 0 .. Length(l)
             /\ dl_state = "Done" => PixelOf(FB!Address(DrawXY), l, Length(l))
             /\ Length(l) \in Nat
<1> DEFINE l == DT!Edge(V)
<1>1. /\ l \in DLP!Line /\ DLP!Drawable(l)
      /\ l.x0 \in Column /\ l.x1 \in Column /\ l.y0 \in Row /\ l.y1 \in Row
  BY EdgesDrawable
<1>2. /\ DLP!OfLine(l.x1, l.y1, l) /\ DLP!Along(l.x1, l.y1, l) = Length(l) /\ Length(l) \in Nat
  BY <1>1, SamePixels, RegisterAssumption, DLP!EndsOfLine
<1>3. OnTheScreen(DL!DrawPixel(l)) /\ DrawXY = DL!DrawPixel(l)
  BY LinesStayOnScreen DEF DrawXY, CU!DrawPixel
<1>4. ASSUME dl_state = "Draw"
      PROVE  /\ PixelOf(FB!Address(DrawXY), l, DL!Along(line_x, line_y, l))
             /\ DL!Along(line_x, line_y, l) \in 0 .. Length(l)
  <2>1. DLP!TypeOK /\ DLP!OnTheWay
    BY <1>4 DEF LineOnScreen
  <2>2. DLP!OfLine(line_x, line_y, l) /\ DLP!Along(line_x, line_y, l) \in 0 .. Length(l)
    BY <1>1, <2>1, SamePixels, RegisterAssumption, DLP!PixelOfLine
  <2>3. DrawXY = <<line_x, line_y>>
    BY <1>3, <1>4 DEF DL!DrawPixel
  <2>4. line_x \in Column /\ line_y \in Row
    BY <1>3, <2>3 DEF OnTheScreen, Column, Row
  <2> HIDE DEF l
  <2> QED BY <2>2, <2>3, <2>4, SamePixels DEF PixelOf, Column, Row
<1>5. ASSUME dl_state = "Done" PROVE PixelOf(FB!Address(DrawXY), l, Length(l))
  <2>1. DrawXY = <<l.x1, l.y1>>
    BY <1>3, <1>5 DEF DL!DrawPixel
  <2> HIDE DEF l
  <2> QED BY <1>1, <1>2, <2>1, SamePixels DEF PixelOf, Column, Row
<1> QED BY <1>2, <1>4, <1>5

\* How far a line is when draw_line starts it, passes along it and ends it.
LEMMA LineMoves ==
  ASSUME DrawableObject, IInv, Traced, Parked, LineOnScreen, NEW p, RendererTick(FALSE, p)
  PROVE  LET l == DT!Edge(V)
             k == DL!Along(line_x, line_y, l)
         IN  /\ dl_state' = "Draw" => (DT!Edge(V))' = l
             /\ dl_state = "Wait" /\ dl_state' # "Wait"
                  => dl_state' = "Draw" /\ DL!Along(line_x', line_y', l) = 0
             /\ dl_state = "Draw" => /\ dl_state' \in {"Draw", "Done"} /\ (DT!Edge(V))' = l
                                     /\ dt_state' = dt_state
             /\ dl_state = "Draw" /\ dl_state' = "Draw" => DL!Along(line_x', line_y', l) \in {k, k + 1}
             /\ dl_state = "Draw" /\ dl_state' = "Done" => k = Length(l)
             /\ dl_state = "Done" => dl_state' = "Wait" /\ line_x' = l.x1 /\ line_y' = l.y1
<1> DEFINE l == DT!Edge(V)
           k == DL!Along(line_x, line_y, l)
<1>1. /\ l \in DLP!Line /\ DLP!Drawable(l)
      /\ l.x0 \in Column /\ l.x1 \in Column /\ l.y0 \in Row /\ l.y1 \in Row
  BY EdgesDrawable
<1>2. /\ DLP!Along(l.x0, l.y0, l) = 0 /\ DLP!Along(l.x1, l.y1, l) = Length(l)
  BY <1>1, SamePixels, RegisterAssumption, DLP!EndsOfLine
<1>3. /\ dt_state' = DT!Step(DR!draw_triangle_start, DL!draw_line_done)
      /\ draw_state = "Draw" => V' = V
      /\ dt_state \in DT!State /\ (dt_state \notin {"Wait", "Done"} => draw_state = "Draw")
      /\ DT!draw_line_start => dl_state = "Wait"
      /\ dl_state \in {"Wait", "Draw", "Done"}
      /\ dl_state # "Wait" => dt_state \in {"Draw1", "Draw2", "Draw3"}
  BY DEF RendererTick, DT!Tick, Tick, DR!Tick, Parked, LineOnScreen
<1>4. DL!Waiting(DT!draw_line_start, l) \/ DL!Drawing(l) \/ DL!Finished(DT!draw_line_start, l)
  BY DEF RendererTick, DL!Tick
<1>5. CASE dl_state = "Wait"
  <2>1. DL!Waiting(DT!draw_line_start, l)
    BY <1>4, <1>5 DEF DL!Drawing, DL!Finished
  <2>2. line_x' = l.x0 /\ line_y' = l.y0 /\ dl_state' = IF DT!draw_line_start THEN "Draw" ELSE "Wait"
    BY <2>1 DEF DL!Waiting
  <2>3. DT!draw_line_start => l' = l
    BY <1>3 DEF DT!draw_line_start, DT!Step, DT!Edge
  <2> HIDE DEF l
  <2>4. DL!Along(line_x', line_y', l) = 0
    BY <1>2, <2>2, SamePixels
  <2> QED BY <1>5, <2>2, <2>3, <2>4 DEF l
<1>6. CASE dl_state = "Draw"
  <2>1. DL!Drawing(l) /\ DLP!TypeOK /\ DLP!OnTheWay
    BY <1>4, <1>6 DEF DL!Waiting, DL!Finished, LineOnScreen
  <2>2. l' = l /\ dt_state' = dt_state
    BY <1>3, <1>6 DEF DL!draw_line_done, DT!Step, DT!Edge
  <2>3. dl_state' = IF DL!AtEnd(l) THEN "Done" ELSE "Draw"
    BY <2>1 DEF DL!Drawing
  <2>4. CASE DL!AtEnd(l)
    <3> HIDE DEF l
    <3>1. DL!Along(line_x, line_y, l) = Length(l)
      BY <1>2, <2>4, SamePixels DEF DL!AtEnd
    <3> QED BY <1>6, <2>2, <2>3, <2>4, <3>1 DEF l
  <2>5. CASE ~DL!AtEnd(l)
    <3>1. DLP!Drawing(l) /\ ~DLP!AtEnd(l)
      BY <2>1, <2>5, SameLine
    <3>2. DLP!Along(line_x', line_y', l) \in {DLP!Along(line_x, line_y, l), DLP!Along(line_x, line_y, l) + 1}
      BY <1>1, <2>1, <2>2, <3>1, RegisterAssumption, DLP!WalkStep
    <3>3. DL!Along(line_x', line_y', l) \in {k, k + 1}
      <4> HIDE DEF l
      <4> QED BY <3>2, SamePixels
    <3> QED BY <1>6, <2>2, <2>3, <2>5, <3>3
  <2> QED BY <2>4, <2>5
<1>7. CASE dl_state = "Done"
  <2>1. DL!Finished(FALSE, l)
    BY <1>3, <1>4, <1>7 DEF DL!Drawing, DL!Waiting, DL!Finished
  <2> QED BY <1>7, <2>1 DEF DL!Finished
<1> QED BY <1>3, <1>5, <1>6, <1>7

\* A cycle of draw_triangle and draw_line.
LEMMA EdgesSoFarStep ==
  ASSUME DrawableObject, IInv, Traced, Parked, LineOnScreen, EdgesSoFar,
         draw_state = "Draw", cu_state = "Draw", NEW p, RendererTick(FALSE, p)
  PROVE  EdgesSoFar'
<1> DEFINE l == DT!Edge(V)
           k == DL!Along(line_x, line_y, l)
<1>1. /\ dt_state \in DT!State
      /\ dt_state' = DT!Step(TRUE, DL!draw_line_done)
      /\ V' = V
      /\ painted' = painted \union {FB!Address(DrawXY)}
  BY DEF Parked, RendererTick, DT!Tick, DR!draw_triangle_start, Tick, DR!Tick, RecordPixels, FrameStarts
<1>2. ASSUME NEW e, EdgeDone(e) PROVE \A m \in 0 .. Length(e) : \E a \in painted' : PixelOf(a, e, m)
  BY <1>1, <1>2 DEF EdgeDone, Covered
<1>3. ASSUME dl_state' = "Draw" PROVE Passed(DT!Edge(V))'
  <2>1. l' = l
    BY <1>3, LineMoves
  <2>2. \A m \in 0 .. DL!Along(line_x', line_y', l) - 1 : \E a \in painted' : PixelOf(a, l, m)
    <3>1. CASE dl_state = "Wait"
      <4>1. DL!Along(line_x', line_y', l) = 0
        BY <1>3, <3>1, LineMoves
      <4> QED BY <4>1
    <3>2. CASE dl_state = "Draw"
      <4>1. DL!Along(line_x', line_y', l) \in {k, k + 1}
        BY <1>3, <3>2, LineMoves
      <4>2. PixelOf(FB!Address(DrawXY), l, k) /\ k \in 0 .. Length(l) /\ Length(l) \in Nat
        BY <3>2, WalkedPixel
      <4>3. \A m \in 0 .. k - 1 : \E a \in painted : PixelOf(a, l, m)
        BY <3>2 DEF EdgesSoFar, Passed, Covered
      <4> HIDE DEF l, k
      <4>4. ASSUME NEW m \in 0 .. DL!Along(line_x', line_y', l) - 1 PROVE m \in 0 .. k - 1 \/ m = k
        BY <4>1, <4>2
      <4> QED BY <1>1, <4>2, <4>3, <4>4
    <3>3. dl_state = "Done" => FALSE
      BY <1>3, LineMoves
    <3> QED BY <3>1, <3>2, <3>3 DEF LineOnScreen
  <2> QED BY <2>1, <2>2 DEF Passed, Covered
<1>4. ASSUME dl_state' = "Done" PROVE EdgeDone(DT!Edge(V))'
  <2>1. dl_state = "Draw" /\ l' = l /\ k = Length(l)
    BY <1>4, LineMoves DEF LineOnScreen
  <2>2. PixelOf(FB!Address(DrawXY), l, k) /\ k \in Int
    BY <2>1, WalkedPixel
  <2>3. \A m \in 0 .. k - 1 : \E a \in painted : PixelOf(a, l, m)
    BY <2>1 DEF EdgesSoFar, Passed, Covered
  <2>4. \A m \in 0 .. Length(l) : \E a \in painted' : PixelOf(a, l, m)
    <3> HIDE DEF l, k
    <3>1. ASSUME NEW m \in 0 .. Length(l) PROVE m \in 0 .. k - 1 \/ m = k
      BY <2>1, <2>2
    <3> QED BY <1>1, <2>1, <2>2, <2>3, <3>1
  <2> QED BY <2>1, <2>4 DEF EdgeDone, Covered
<1>5. DL!draw_line_done => EdgeDone(l)
  BY DEF DL!draw_line_done, EdgesSoFar
<1> DEFINE e1 == DT!Between(V[1], V[2])
           e2 == DT!Between(V[2], V[3])
           e3 == DT!Between(V[3], V[1])
<1>6. /\ dt_state = "Draw1" => l = e1
      /\ dt_state = "Draw2" => l = e2
      /\ dt_state = "Draw3" => l = e3
  BY DEF DT!Edge
<1>7. e1' = e1 /\ e2' = e2 /\ e3' = e3
  BY <1>1
<1>8. /\ dt_state' \in {"Trigger2", "Draw2", "Trigger3", "Draw3", "Done"} => EdgeDone(e1)
      /\ dt_state' \in {"Trigger3", "Draw3", "Done"} => EdgeDone(e2)
      /\ dt_state' = "Done" => EdgeDone(e3)
  <2> HIDE DEF l
  <2>1. CASE dt_state \in {"Wait", "Trigger1", "Trigger2", "Trigger3", "Done"}
    BY <1>1, <2>1 DEF EdgesSoFar, DT!Step
  <2>2. CASE dt_state = "Draw1"
    BY <1>1, <1>5, <1>6, <2>2 DEF EdgesSoFar, DT!Step
  <2>3. CASE dt_state = "Draw2"
    BY <1>1, <1>5, <1>6, <2>3 DEF EdgesSoFar, DT!Step
  <2>4. CASE dt_state = "Draw3"
    BY <1>1, <1>5, <1>6, <2>4 DEF EdgesSoFar, DT!Step
  <2> QED BY <1>1, <2>1, <2>2, <2>3, <2>4 DEF DT!State
<1>9. /\ EdgeDone(e1) => EdgeDone(DT!Between(V[1], V[2]))'
      /\ EdgeDone(e2) => EdgeDone(DT!Between(V[2], V[3]))'
      /\ EdgeDone(e3) => EdgeDone(DT!Between(V[3], V[1]))'
  BY <1>2, <1>7 DEF EdgeDone, Covered
<1> QED BY <1>3, <1>4, <1>8, <1>9 DEF EdgesSoFar

\* An edge that is whole stays whole while the frame is drawn.
LEMMA WholeKept ==
  ASSUME NEW t, Whole(t), NEW P, painted' = painted \union P
  PROVE  (\A l \in Edges(t) : \A k \in 0 .. Length(l) : \E a \in painted' : PixelOf(a, l, k))
BY DEF Whole, EdgeDone, Covered

LEMMA EdgesStep ==
  ASSUME DrawableObject, IInv, Traced, TimingInv, Parked, LineOnScreen, EdgesInv,
         NEW p \in Pose, RendererTick(FALSE, p)
  PROVE  EdgesInv'
<1>1. /\ cu_state' = CU!Step(DR!draw_done, CF!clear_frame_done, LW!load_done)
      /\ cu_state \in {"Init", "Clear", "Draw", "Done"}
      /\ draw_state' = DR!Step(CU!draw_start, TF!is_empty, DT!draw_triangle_done)
      /\ draw_state \in {"Wait", "Take1", "Take2", "Draw", "Done"}
      /\ dt_state' = DT!Step(DR!draw_triangle_start, DL!draw_line_done)
      /\ drawn' = IF FrameStarts THEN <<>>
                  ELSE IF draw_state = "Take2" THEN Append(drawn, fifo_out)
                  ELSE drawn
      /\ painted' = IF FrameStarts THEN {}
                    ELSE IF cu_state = "Draw" THEN painted \union {FB!Address(DrawXY)}
                    ELSE painted
  BY DEF RendererTick, Tick, CU!Tick, DR!Tick, DT!Tick, RecordPixels, Record, IInv, TypeOK, CU!TypeOK,
     CU!State, DR!TypeOK
<1>2. Len(drawn) \in Nat /\ drawn \in Seq(Triangle \union {Unwritten})
      /\ fifo_out \in Triangle \union {Unwritten}
  BY LenProperties DEF IInv, TypeOK, TF!TypeOK, TF!Word
<1>3. draw_state' = "Take2" => dt_state' = "Wait"
  <2> HAVE draw_state' = "Take2"
  <2>1. draw_state = "Take1" /\ dt_state \in {"Wait", "Done"}
    BY <1>1 DEF DR!Step, Parked
  <2> QED BY <1>1, <2>1 DEF DT!Step, DR!draw_triangle_start
<1>4. CASE cu_state = "Init"
  <2>1. cu_state' \in {"Init", "Done"} /\ painted' = NoPicture /\ draw_state' # "Draw"
    BY <1>1, <1>4 DEF CU!Step, DR!Step, CU!draw_start, FrameStarts, TimingInv, IInv, Phases, Loading
  <2> QED BY <1>3, <2>1 DEF EdgesInv
<1>5. CASE cu_state = "Clear"
  <2>1. draw_state = "Wait" /\ draw_state' = "Wait" /\ cu_state' \in {"Clear", "Draw"} /\ drawn' = <<>>
    BY <1>1, <1>5 DEF CU!Step, DR!Step, CU!draw_start, FrameStarts, IInv, Phases, InClear, EdgesInv
  <2> QED BY <1>3, <2>1 DEF EdgesInv, WholeUpTo
<1>6. CASE cu_state = "Done"
  <2>1. draw_state = "Wait" /\ draw_state' = "Wait" /\ cu_state' \in {"Clear", "Done"}
    BY <1>1, <1>6 DEF CU!Step, DR!Step, CU!draw_start, IInv, Phases, InDone
  <2>2. cu_state' = "Clear" => drawn' = <<>>
    BY <1>1, <1>6 DEF CU!Step, FrameStarts
  <2>3. cu_state' = "Done" => drawn' = drawn /\ painted' = painted
    BY <1>1, <1>6, <2>1 DEF CU!Step, FrameStarts
  <2> QED BY <1>3, <1>6, <2>1, <2>2, <2>3 DEF EdgesInv, WholeUpTo, Whole, EdgeDone, Covered
<1>7. CASE cu_state = "Draw"
  <2>1. ~FrameStarts /\ cu_state' \in {"Draw", "Done"} /\ (cu_state' = "Done" <=> draw_state = "Done")
        /\ painted' = painted \union {FB!Address(DrawXY)}
    BY <1>1, <1>7 DEF FrameStarts, CU!Step, DR!draw_done
  <2>2. ASSUME NEW m, WholeUpTo(m), \A i \in 1 .. m : drawn'[i] = drawn[i] PROVE WholeUpTo(m)'
    <3> SUFFICES ASSUME NEW i \in 1 .. m
                 PROVE  \A l \in Edges(drawn'[i]) : \A k \in 0 .. Length(l) :
                          \E a \in painted' : PixelOf(a, l, k)
      BY DEF WholeUpTo, Whole, EdgeDone, Covered
    <3>1. Whole(drawn[i]) /\ drawn'[i] = drawn[i]
      BY <2>2 DEF WholeUpTo
    <3> QED BY <2>1, <3>1, WholeKept
  <2>3. CASE draw_state = "Take2"
    <3>1. draw_state' = "Draw" /\ dt_state' = "Wait" /\ cu_state' = "Draw"
      BY <1>1, <2>1, <2>3 DEF DR!Step, EdgesInv, DT!Step, DR!draw_triangle_start
    <3>2. Len(drawn') - 1 = Len(drawn) /\ \A i \in 1 .. Len(drawn) : drawn'[i] = drawn[i]
      BY <1>1, <1>2, <2>1, <2>3, AppendProperties
    <3>3. WholeUpTo(Len(drawn) - 1)'
      BY <1>7, <2>2, <2>3, <3>2 DEF EdgesInv
    <3>4. dl_state' = "Wait"
      <4>1. dl_state = "Wait" /\ dt_state = "Wait"
        BY <2>3 DEF EdgesInv, Parked
      <4> QED BY <4>1 DEF RendererTick, DL!Tick, DL!Waiting, DL!Drawing, DL!Finished,
              DT!draw_line_start
    <3> QED BY <1>3, <3>1, <3>3, <3>4 DEF EdgesInv, EdgesSoFar
  <2>4. CASE draw_state = "Draw"
    <3>1. drawn' = drawn /\ cu_state' = "Draw" /\ draw_state' = (IF dt_state = "Done" THEN "Take1" ELSE "Draw")
      BY <1>1, <2>1, <2>4 DEF DR!Step, DT!draw_triangle_done
    <3>2. EdgesSoFar'
      BY <1>7, <2>4, EdgesSoFarStep DEF EdgesInv
    <3>3. WholeUpTo(Len(drawn) - 1)'
      BY <2>2, <2>4, <3>1 DEF EdgesInv
    <3>4. CASE dt_state = "Done"
      <4>1. V = drawn[Len(drawn)] /\ EdgesSoFar
        BY <2>4 DEF EdgesInv, Traced
      <4>2. Whole(V)
        BY <3>4, <4>1 DEF EdgesSoFar, Whole, Edges
      <4>3. WholeUpTo(Len(drawn))
        <5>1. \A i \in 1 .. Len(drawn) : i \in 1 .. Len(drawn) - 1 \/ i = Len(drawn)
          BY <1>2
        <5> QED BY <2>4, <4>1, <4>2, <5>1 DEF EdgesInv, WholeUpTo
      <4> QED BY <1>3, <2>2, <3>1, <3>4, <4>3 DEF EdgesInv
    <3>5. CASE dt_state # "Done"
      BY <1>3, <3>1, <3>2, <3>3, <3>5 DEF EdgesInv
    <3> QED BY <3>4, <3>5
  <2>5. CASE draw_state \in {"Wait", "Take1", "Done"}
    <3>1. drawn' = drawn /\ draw_state' # "Draw"
      BY <1>1, <2>1, <2>5 DEF DR!Step
    <3>2. WholeUpTo(Len(drawn))'
      BY <1>7, <2>2, <2>5, <3>1 DEF EdgesInv
    <3> QED BY <1>3, <2>1, <3>1, <3>2 DEF EdgesInv
  <2> QED BY <1>1, <2>3, <2>4, <2>5
<1> QED BY <1>1, <1>4, <1>5, <1>6, <1>7

LEMMA EdgesPreserved ==
  ASSUME DrawableObject, IInv, Traced, TimingInv, Parked, LineOnScreen, EdgesInv,
         [RendererNext]_rendererVars
  PROVE  EdgesInv'
<1>1. CASE RendererRun
  BY <1>1, EdgesStep DEF RendererRun, NewPose, IInv, TypeOK
<1>2. CASE RendererReset
  BY <1>2 DEF RendererReset, RendererTick, Tick, CU!Tick, DR!Tick, EdgesInv
<1>3. CASE UNCHANGED rendererVars
  <2>1. UNCHANGED <<cu_state, draw_state, V, dt_state, dl_state, line_x, line_y, drawn, painted>>
    BY <1>3 DEF rendererVars, vars, pipelineVars, lineVars, CU!vars, DR!vars
  <2>2. (DT!Edge(V))' = DT!Edge(V)
    BY <2>1 DEF DT!Edge
  <2> QED BY <2>1, <2>2 DEF EdgesInv, EdgesSoFar, WholeUpTo, Whole, EdgeDone, Passed, Covered
<1> QED BY <1>1, <1>2, <1>3 DEF RendererNext

(* No edge of a frame about to be shown has a gap: draw_line has written a *)
(* pixel for every step of the longer extent of every edge, draw_triangle  *)
(* has waited for it, and draw has taken no triangle before the last was   *)
(* drawn.                                                                  *)
THEOREM EdgesHaveNoGaps == ASSUME DrawableObject PROVE RendererSpec => []EdgesUnbroken
<1>1. RendererInit => EdgesInv
  BY DEF RendererInit, Init, CU!Init, DR!Init, EdgesInv
<1>2. IInv /\ Traced /\ TimingInv /\ Parked /\ LineOnScreen /\ EdgesInv /\ [RendererNext]_rendererVars
        => EdgesInv'
  BY EdgesPreserved
<1>3. RendererSpec => []EdgesInv
  BY <1>1, <1>2, RendererIInv, RendererTraced, RendererTiming, RendererParked, RendererLines, PTL
     DEF RendererSpec
<1>4. IInv /\ EdgesInv => EdgesUnbroken
  <2> SUFFICES ASSUME IInv, EdgesInv, FrameStarts, painted # NoPicture, NEW i \in DOMAIN drawn
               PROVE  Whole(drawn[i])
    BY DEF EdgesUnbroken, Whole, EdgeDone, Covered
  <2>1. i \in 1 .. Len(drawn)
    BY LenProperties DEF IInv, TypeOK
  <2> QED BY <2>1 DEF EdgesInv, WholeUpTo, FrameStarts
<1> QED BY <1>3, <1>4, RendererIInv, PTL

LEMMA RestingStep ==
  ASSUME DrawableObject, IInv, Traced, Parked, LineOnScreen, Resting, NEW p, RendererTick(FALSE, p)
  PROVE  Resting'
<1> DEFINE l == DT!Edge(V)
<1>1. /\ dt_state' = DT!Step(DR!draw_triangle_start, DL!draw_line_done)
      /\ dt_state \in DT!State /\ (dt_state \notin {"Wait", "Done"} => draw_state = "Draw")
      /\ dl_state \in {"Wait", "Draw", "Done"}
      /\ dl_state # "Wait" => dt_state \in {"Draw1", "Draw2", "Draw3"}
      /\ draw_state' = DR!Step(CU!draw_start, TF!is_empty, DT!draw_triangle_done)
  BY DEF RendererTick, DT!Tick, Tick, DR!Tick, Parked, LineOnScreen
<1>2. dt_state \notin {"Wait", "Done"} => draw_state' = "Draw" /\ V' = V
  BY <1>1 DEF DR!Step, DT!draw_triangle_done, RendererTick, Tick, DR!Tick
<1>3. /\ dt_state \in {"Wait", "Done"} => l.x0 = 0 /\ l.y0 = 0
      /\ dt_state \notin {"Wait", "Done"} =>
           /\ \E k \in 1 .. 3 : l.x0 = V[k][1] /\ l.y0 = V[k][2]
           /\ \E k \in 1 .. 3 : l.x1 = V[k][1] /\ l.y1 = V[k][2]
  <2>1. 1 \in 1 .. 3 /\ 2 \in 1 .. 3 /\ 3 \in 1 .. 3
    OBVIOUS
  <2> QED BY <1>1, <2>1 DEF DT!State, DT!Edge, DT!Between
<1> SUFFICES ASSUME dl_state' = "Wait"
             PROVE  \/ line_x' = 0 /\ line_y' = 0
                    \/ draw_state' = "Draw" /\ \E k \in 1 .. 3 : line_x' = V'[k][1] /\ line_y' = V'[k][2]
  BY DEF Resting
<1>4. CASE dl_state = "Wait"
  <2>1. line_x' = l.x0 /\ line_y' = l.y0
    BY <1>4 DEF RendererTick, DL!Tick, DL!Waiting, DL!Drawing, DL!Finished
  <2> HIDE DEF l
  <2> QED BY <1>2, <1>3, <2>1
<1>5. CASE dl_state = "Done"
  <2>1. line_x' = l.x1 /\ line_y' = l.y1
    BY <1>5, LineMoves
  <2> HIDE DEF l
  <2> QED BY <1>1, <1>2, <1>3, <1>5, <2>1
<1>6. dl_state # "Draw"
  BY LineMoves
<1> QED BY <1>1, <1>4, <1>5, <1>6

\* What the drawing writes is a pixel of an edge, or the corner.
LEMMA DrawnPixel ==
  ASSUME DrawableObject, IInv, Traced, Parked, LineOnScreen, Resting, cu_state = "Draw"
  PROVE  FB!Address(DrawXY) = 0 \/ OnSomeEdge(FB!Address(DrawXY))
<1> DEFINE l == DT!Edge(V)
           a == FB!Address(DrawXY)
<1>1. draw_state = "Draw" => /\ Len(drawn) \in 1 .. Len(drawn) /\ V = drawn[Len(drawn)]
                             /\ DrawableTriangle(V)
  <2> HAVE draw_state = "Draw"
  <2>1. Len(drawn) \in Nat /\ Len(drawn) >= 1 /\ V = drawn[Len(drawn)]
    BY LenProperties DEF Traced, IInv, TypeOK
  <2>2. Len(drawn) \in 1 .. Sent /\ Item(Len(drawn)) = V
    BY <2>1 DEF Sent, Item, InFlight, IInv, TypeOK, TF!TypeOK
  <2>3. DrawableTriangle(V)
    BY <2>2 DEF Traced, Unclipped, DrawableObject
  <2> QED BY <2>1, <2>3
<1>2. CASE dl_state # "Wait"
  <2>1. dt_state \in {"Draw1", "Draw2", "Draw3"} /\ draw_state = "Draw" /\ dl_state \in {"Draw", "Done"}
    BY <1>2 DEF LineOnScreen, Parked
  <2>2. l \in Edges(V)
    BY <2>1 DEF DT!Edge, Edges
  <2>3. PICK k \in 0 .. Length(l) : PixelOf(a, l, k)
    <3>1. /\ Length(l) \in Nat
          /\ dl_state = "Draw" => /\ PixelOf(a, l, DL!Along(line_x, line_y, l))
                                  /\ DL!Along(line_x, line_y, l) \in 0 .. Length(l)
          /\ dl_state = "Done" => PixelOf(a, l, Length(l))
      BY <1>2, WalkedPixel
    <3> HIDE DEF l, a
    <3>2. Length(l) \in 0 .. Length(l)
      BY <3>1
    <3> QED BY <2>1, <3>1, <3>2
  <2> HIDE DEF l, a
  <2> QED BY <1>1, <2>1, <2>2, <2>3 DEF OnSomeEdge, OnEdgeOf, a
<1>3. CASE dl_state = "Wait"
  <2>1. DrawXY = <<line_x, line_y>>
    BY <1>3 DEF DrawXY, CU!DrawPixel, DL!DrawPixel
  <2>2. CASE line_x = 0 /\ line_y = 0
    BY <2>1, <2>2, CornerIsZero, OriginAssumption
  <2>3. CASE draw_state = "Draw" /\ \E k \in 1 .. 3 : line_x = V[k][1] /\ line_y = V[k][2]
    <3>1. PICK k \in 1 .. 3 : line_x = V[k][1] /\ line_y = V[k][2]
      BY <2>3
    <3>2. PICK j \in 1 .. 3 : DT!Between(V[k], V[j]) \in Edges(V)
      <4>1. 1 \in 1 .. 3 /\ 2 \in 1 .. 3 /\ 3 \in 1 .. 3
        OBVIOUS
      <4>2. k = 1 \/ k = 2 \/ k = 3
        BY <3>1
      <4> QED BY <4>1, <4>2 DEF Edges
    <3> DEFINE e == DT!Between(V[k], V[j])
    <3>3. OnTheScreen(V[k]) /\ OnTheScreen(V[j])
      BY <1>1, <2>3, <3>2 DEF DrawableTriangle
    <3>4. e = [x0 |-> V[k][1], y0 |-> V[k][2], x1 |-> V[j][1], y1 |-> V[j][2]]
      BY DEF DT!Between
    <3>5. /\ e \in DLP!Line /\ line_x = e.x0 /\ line_y = e.y0
          /\ line_x \in Column /\ line_y \in Row
      BY <3>1, <3>3, <3>4, Bounds, RegisterAssumption DEF OnTheScreen, DLP!Line, DLP!Coord, Column, Row
    <3> HIDE DEF e
    <3>6. DLP!OfLine(line_x, line_y, e) /\ DLP!Along(line_x, line_y, e) = 0 /\ Length(e) \in Nat
      BY <3>5, SamePixels, RegisterAssumption, DLP!EndsOfLine
    <3>7. PixelOf(a, e, 0) /\ 0 \in 0 .. Length(e)
      BY <2>1, <3>5, <3>6, SamePixels DEF PixelOf, Column, Row
    <3> QED BY <1>1, <2>3, <3>2, <3>7 DEF OnSomeEdge, OnEdgeOf, e
  <2> QED BY <1>3, <2>2, <2>3 DEF Resting
<1> QED BY <1>2, <1>3

LEMMA OnlyEdgesStep ==
  ASSUME DrawableObject, IInv, Traced, Parked, LineOnScreen, Making, OnlyEdgesInv,
         NEW p \in Pose, RendererTick(FALSE, p)
  PROVE  OnlyEdgesInv'
<1>1. /\ cu_state' = CU!Step(DR!draw_done, CF!clear_frame_done, LW!load_done)
      /\ cu_state \in {"Init", "Clear", "Draw", "Done"}
      /\ drawn' = IF FrameStarts THEN <<>>
                  ELSE IF draw_state = "Take2" THEN Append(drawn, fifo_out)
                  ELSE drawn
      /\ painted' = IF FrameStarts THEN {}
                    ELSE IF cu_state = "Draw" THEN painted \union {FB!Address(DrawXY)}
                    ELSE painted
  BY DEF RendererTick, Tick, CU!Tick, RecordPixels, Record, IInv, TypeOK, CU!TypeOK, CU!State
<1>2. Resting'
  BY RestingStep DEF OnlyEdgesInv
<1> SUFFICES ASSUME cu_state' = "Draw" \/ (cu_state' = "Done" /\ painted' # NoPicture),
                    NEW a \in painted' \ {0}
             PROVE  OnSomeEdge(a)'
  BY <1>2 DEF OnlyEdgesInv
<1>3. CASE cu_state = "Init"
  <2>1. cu_state' = "Done" /\ painted' = NoPicture
    BY <1>1, <1>3 DEF CU!Step, FrameStarts, Making
  <2> QED BY <2>1
<1>4. CASE cu_state = "Clear"
  <2>1. painted' = {}
    BY <1>1, <1>4 DEF FrameStarts, Making
  <2> QED BY <2>1
<1>5. CASE cu_state = "Done"
  <2>1. ~FrameStarts /\ draw_state # "Take2"
    BY <1>1, <1>5 DEF FrameStarts, CU!Step, IInv, Phases, InDone
  <2>2. painted' = painted /\ drawn' = drawn /\ cu_state' = "Done"
    BY <1>1, <1>5, <2>1 DEF CU!Step
  <2> QED BY <1>5, <2>2 DEF OnlyEdgesInv, OnSomeEdge, OnEdgeOf
<1>6. CASE cu_state = "Draw"
  <2>1. OnSomeEdge(a)
    BY <1>1, <1>6, DrawnPixel DEF OnlyEdgesInv, FrameStarts
  <2>2. PICK i \in 1 .. Len(drawn) : OnEdgeOf(a, drawn[i])
    BY <2>1 DEF OnSomeEdge
  <2>3. i \in 1 .. Len(drawn') /\ drawn'[i] = drawn[i]
    <3>1. drawn \in Seq(Triangle \union {Unwritten}) /\ Len(drawn) \in Nat
          /\ fifo_out \in Triangle \union {Unwritten}
      BY LenProperties DEF IInv, TypeOK, TF!TypeOK, TF!Word
    <3>2. CASE draw_state = "Take2"
      BY <1>1, <1>6, <2>2, <3>1, <3>2, AppendProperties DEF FrameStarts
    <3>3. CASE draw_state # "Take2"
      BY <1>1, <1>6, <3>3 DEF FrameStarts
    <3> QED BY <3>2, <3>3
  <2>4. OnEdgeOf(a, drawn'[i])
    BY <2>2, <2>3
  <2> QED BY <2>3, <2>4 DEF OnSomeEdge, OnEdgeOf
<1> QED BY <1>1, <1>3, <1>4, <1>5, <1>6

(* Nothing is shown but the triangles: a frame about to be shown has no    *)
(* pixel but the corner that is not of an edge of a triangle drawn for it, *)
(* though the wires are written in every cycle of the drawing, while       *)
(* draw_line rests, starts and ends, too.                                  *)
THEOREM NothingElseIsShown == ASSUME DrawableObject PROVE RendererSpec => []OnlyEdgesShown
<1>1. RendererInit => OnlyEdgesInv
  BY DEF RendererInit, Init, CU!Init, OnlyEdgesInv, Resting
<1>2. IInv /\ Traced /\ Parked /\ LineOnScreen /\ PictureInv /\ OnlyEdgesInv /\ [RendererNext]_rendererVars
        => OnlyEdgesInv'
  <2> SUFFICES ASSUME IInv, Traced, Parked, LineOnScreen, PictureInv, OnlyEdgesInv,
                      [RendererNext]_rendererVars
               PROVE  OnlyEdgesInv'
    OBVIOUS
  <2>1. CASE RendererRun
    BY <2>1, OnlyEdgesStep DEF RendererRun, NewPose, IInv, TypeOK, PictureInv
  <2>2. CASE RendererReset
    BY <2>2 DEF RendererReset, RendererTick, Tick, CU!Tick, DL!Tick, OnlyEdgesInv, Resting
  <2>3. CASE UNCHANGED rendererVars
    <3>1. UNCHANGED <<cu_state, draw_state, V, dl_state, line_x, line_y, drawn, painted>>
      BY <2>3 DEF rendererVars, vars, pipelineVars, lineVars, CU!vars, DR!vars
    <3> QED BY <3>1 DEF OnlyEdgesInv, Resting, OnSomeEdge, OnEdgeOf
  <2> QED BY <2>1, <2>2, <2>3 DEF RendererNext
<1>3. RendererSpec => []OnlyEdgesInv
  BY <1>1, <1>2, RendererIInv, RendererTraced, RendererParked, RendererLines, RendererPicture, PTL
     DEF RendererSpec
<1>4. IInv /\ OnlyEdgesInv => OnlyEdgesShown
  <2> SUFFICES ASSUME IInv, OnlyEdgesInv, FrameStarts, painted # NoPicture, NEW a \in painted \ {0}
               PROVE  \E i \in DOMAIN drawn : OnEdgeOf(a, drawn[i])
    BY CornerIsZero DEF OnlyEdgesShown, OnEdgeOf
  <2>1. DOMAIN drawn = 1 .. Len(drawn)
    BY LenProperties DEF IInv, TypeOK
  <2> QED BY <2>1 DEF OnlyEdgesInv, OnSomeEdge, FrameStarts
<1> QED BY <1>3, <1>4, RendererIInv, PTL
=============================================================================
