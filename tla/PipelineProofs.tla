--------------------------- MODULE PipelineProofs ---------------------------
(***************************************************************************)
(* For every object, screen, projection and drawing time that satisfy the  *)
(* assumptions of Pipeline: the frame sequencer, which never looks at      *)
(* proj_done nor at is_full, neither mixes two frames nor loses a          *)
(* triangle, and uses the fifo only as a first-in first-out queue.         *)
(***************************************************************************)
EXTENDS Pipeline, SequenceTheorems, TLAPS

n == Len(Object)

LEMMA Bounds ==
  /\ H_TOTAL \in Nat /\ H_TOTAL >= 1 /\ V_TOTAL \in Nat /\ V_TOTAL >= 1
  /\ size \in Nat /\ n \in Nat /\ 1 <= n /\ n <= size
  /\ H_TOTAL * V_TOTAL \in Nat /\ 8 * (n - 1) + 2 <= H_TOTAL * V_TOTAL
BY PipelineAssumption, SizeAssumption DEF ProjectionTime, n

LEMMA ObjectTriangle == /\ DOMAIN Object = 1 .. n
                        /\ \A i \in 1 .. n : Object[i] \in OrigTriangle
BY PipelineAssumption, LenProperties DEF n, OrigTriangle

-----------------------------------------------------------------------------
(* Types.                                                                  *)

LEMMA InitType == Init => TypeOK
<1> SUFFICES ASSUME Init PROVE TypeOK
  OBVIOUS
<1>1. CU!TypeOK
  BY DEF Init, CU!Init, CU!TypeOK, CU!State
<1>2. CF!TypeOK
  BY Bounds DEF Init, CF!Init, CF!TypeOK
<1>3. LW!TypeOK
  BY Bounds DEF Init, LW!Init, LW!TypeOK, LW!Wait, LW!Done, n
<1>4. TL!TypeOK
  BY Bounds DEF Init, TL!Init, TL!TypeOK, TL!Word
<1>5. PR!TypeOK
  BY DEF Init, PR!Init, PR!TypeOK, PR!cal_time
<1>6. TF!TypeOK
  BY Bounds DEF Init, TF!Init, TF!TypeOK, TF!Addr, TF!Word
<1>7. DR!TypeOK
  BY DEF Init, DR!Init, DR!TypeOK
<1>8. pose \in Pose /\ frame_pose \in Pose /\ drawn \in Seq(Triangle \union {Unwritten})
  BY ProjectionAssumption, EmptySeq DEF Init
<1> QED BY <1>1, <1>2, <1>3, <1>4, <1>5, <1>6, <1>7, <1>8 DEF TypeOK

\* The read address of a list that can be read is that of a triangle, or 0.
ReadsTriangles == list_num # 0 => list_r_addr <= list_num

LEMMA TickType ==
  ASSUME TypeOK, ReadsTriangles, NEW Reset \in BOOLEAN, NEW frame_clk \in BOOLEAN,
         NEW done \in BOOLEAN, NEW p \in Pose, Tick(Reset, frame_clk, done, p)
  PROVE  TypeOK'
<1>1. CU!TypeOK'
  BY DEF TypeOK, Tick, CU!Tick, CU!Step, CU!TypeOK, CU!State
<1>2. CF!TypeOK'
  BY Bounds DEF TypeOK, Tick, CF!Tick, CF!Step, CF!TypeOK, CF!EndOfRow, CF!LastPixel
<1>3. LW!TypeOK'
  BY Bounds, ObjectTriangle DEF TypeOK, Tick, LW!Tick, LW!TypeOK, LW!Wait, LW!Done, n
<1>4. lw_triangle \in OrigTriangle \union {NoTriangle}
  BY DEF TypeOK, LW!TypeOK, OrigTriangle
<1>5. TL!TypeOK'
  BY <1>4, Bounds DEF TypeOK, ReadsTriangles, Tick, TL!Tick, TL!TypeOK, TL!Word, TL!is_full, TL!is_empty
<1>6. list_out \in OrigWord
  BY DEF TypeOK, TL!TypeOK, TL!Word, OrigWord
<1>7. PR!TypeOK'
  BY <1>6 DEF TypeOK, Tick, PR!Tick, PR!Step, PR!TypeOK, PR!cal_time, OrigWord
<1>8. proj_triangle_in \in Triangle
  BY ProjectionAssumption DEF TypeOK, PR!TypeOK, OrigWord, proj_triangle_in
<1>9. TF!TypeOK'
  BY <1>8, Bounds DEF TypeOK, Tick, TF!Tick, TF!NextNum, TF!Successor, TF!TypeOK,
     TF!Addr, TF!Word, TF!is_full, TF!is_empty
<1>10. DR!TypeOK'
  BY DEF TypeOK, Tick, DR!Tick, DR!Step, DR!TypeOK, TF!TypeOK, TF!Word
<1>11. pose' \in Pose /\ frame_pose' \in Pose
  BY ProjectionAssumption DEF TypeOK, Tick, Move, Record
<1>12. drawn' \in Seq(Triangle \union {Unwritten})
  BY EmptySeq, AppendProperties DEF TypeOK, TF!TypeOK, TF!Word, Tick, Record
<1> QED BY <1>1, <1>2, <1>3, <1>5, <1>7, <1>9, <1>10, <1>11, <1>12 DEF TypeOK

-----------------------------------------------------------------------------
(* The inductive invariant.  Projection and clear start in the same cycle  *)
(* and advance together: as long as the projection runs, its state and the *)
(* read address of the list give the number of pixels cleared so far.      *)

Cleared == v_counter * H_TOTAL + h_counter

\* list_writer has written the triangles 1 .. lw_state - 1.
Loading ==
  /\ list_num = IF lw_state = 0 THEN 0 ELSE lw_state - 1
  /\ cu_state # "Init" => lw_state = n + 1
  /\ cu_state = "Init" => /\ cf_state = "Wait" /\ proj_state = "Wait"
                          /\ draw_state \in {"Wait", "Done"}
                          /\ draw_state = "Done" => lw_state = 0
                          /\ fifo_num = 0 /\ list_r_addr = 1

\* Where the projection stands, k triangles after the first, e cycles after it began.
AtTake1(k, e) == /\ proj_state = "Take1" /\ list_r_addr = k + 1
                 /\ e = 8 * k /\ fifo_num <= k
AtTake2(k, e) == /\ proj_state = "Take2" /\ list_r_addr = (IF k = n - 1 THEN 0 ELSE k + 2)
                 /\ e = 8 * k + 1 /\ fifo_num <= k
AtProj(k, e) == /\ proj_state = "Proj" /\ list_r_addr = k + 2 /\ k < n - 1
                /\ e = 8 * k + 2 + proj_count /\ fifo_num <= k
AtWrite(k, e) == /\ proj_state = "Write" /\ list_r_addr = k + 2 /\ k < n - 1
                 /\ e = 8 * k + 7 /\ fifo_num <= k

Lockstep(k) == \/ AtTake1(k, Cleared) \/ AtTake2(k, Cleared)
               \/ AtProj(k, Cleared) \/ AtWrite(k, Cleared)

InClear == cu_state = "Clear" =>
  /\ draw_state = "Wait"
  /\ \/ /\ cf_state = "Wait" /\ proj_state = "Wait"
        /\ list_r_addr = 1 /\ fifo_num = 0
     \/ cf_state = "Clear" /\ \E k \in 0 .. n - 1 : Lockstep(k)
     \/ cf_state \in {"Clear", "Done"} /\ proj_state = "Done" /\ list_r_addr = 1

InDraw == cu_state = "Draw" =>
  /\ list_r_addr = 1 /\ cf_state \in {"Done", "Wait"} /\ proj_state \in {"Done", "Wait"}
  /\ draw_state # "Wait" => cf_state = "Wait" /\ proj_state = "Wait"
  /\ draw_state = "Done" => fifo_num = 0

InDone == cu_state = "Done" =>
  /\ cf_state = "Wait" /\ proj_state = "Wait" /\ draw_state = "Wait"
  /\ list_r_addr = 1 /\ fifo_num = 0

Phases == /\ proj_state # "Proj" => proj_count = 0
          /\ Loading /\ InClear /\ InDraw /\ InDone

IInv == TypeOK /\ Phases

LEMMA InitPhases == Init => Phases
BY Bounds DEF Init, CU!Init, CF!Init, LW!Init, TL!Init, PR!Init, TF!Init, DR!Init,
   LW!Wait, Phases, Loading, InClear, InDraw, InDone

LEMMA PhasesRead == TypeOK /\ Phases => ReadsTriangles
BY Bounds DEF TypeOK, TL!TypeOK, CU!TypeOK, CU!State, LW!TypeOK, LW!Wait, LW!Done, n,
   Phases, Loading, InClear, InDraw, InDone, ReadsTriangles, Lockstep,
   AtTake1, AtTake2, AtProj, AtWrite

\* The clear advances by one pixel a cycle, up to the last.
LEMMA ClearCounts ==
  ASSUME CF!TypeOK, cf_state = "Clear", CF!Step(TRUE)
  PROVE  /\ Cleared \in Nat
         /\ CF!LastPixel => Cleared = H_TOTAL * V_TOTAL - 1 /\ cf_state' = "Done"
         /\ ~CF!LastPixel => Cleared' = Cleared + 1 /\ cf_state' = "Clear"
<1>1. /\ H_TOTAL \in Nat /\ V_TOTAL \in Nat /\ h_counter \in Nat /\ v_counter \in Nat
      /\ h_counter < H_TOTAL /\ v_counter < V_TOTAL
  BY Bounds DEF CF!TypeOK
<1>2. (v_counter + 1) * H_TOTAL = v_counter * H_TOTAL + H_TOTAL
  BY <1>1
<1>3. v_counter * H_TOTAL \in Nat
  BY <1>1
<1>4. CASE CF!LastPixel
  <2>1. V_TOTAL * H_TOTAL = v_counter * H_TOTAL + H_TOTAL /\ h_counter = H_TOTAL - 1
    BY <1>1, <1>2, <1>4 DEF CF!LastPixel, CF!EndOfRow
  <2>2. V_TOTAL * H_TOTAL = H_TOTAL * V_TOTAL
    BY <1>1
  <2> QED BY <1>1, <1>3, <1>4, <2>1, <2>2 DEF Cleared, CF!Step
<1>5. CASE CF!EndOfRow /\ ~CF!LastPixel
  <2>1. v_counter' = v_counter + 1 /\ h_counter' = 0 /\ h_counter = H_TOTAL - 1
    BY <1>1, <1>5 DEF CF!Step, CF!EndOfRow
  <2>2. v_counter' * H_TOTAL = v_counter * H_TOTAL + H_TOTAL
    BY <1>2, <2>1
  <2> QED BY <1>1, <1>3, <1>5, <2>1, <2>2 DEF Cleared, CF!Step
<1>6. CASE ~CF!EndOfRow
  <2>1. v_counter' = v_counter /\ h_counter' = h_counter + 1
    BY <1>6 DEF CF!Step
  <2> QED BY <1>1, <1>3, <1>6, <2>1 DEF Cleared, CF!Step, CF!LastPixel
<1> QED BY <1>4, <1>5, <1>6 DEF CF!LastPixel

\* A reset brings every machine back to its initial state.
LEMMA ResetPhases ==
  ASSUME NEW frame_clk, NEW done, NEW p, Tick(TRUE, frame_clk, done, p)
  PROVE  Phases'
BY Bounds DEF Tick, CU!Tick, CF!Tick, LW!Tick, TL!Tick, PR!Tick, TF!Tick, DR!Tick,
   LW!Wait, Phases, Loading, InClear, InDraw, InDone

LEMMA LoadingStep ==
  ASSUME TypeOK, Phases, NEW frame_clk \in BOOLEAN, NEW done \in BOOLEAN, NEW p \in Pose,
         Tick(FALSE, frame_clk, done, p)
  PROVE  /\ list_num' = IF lw_state' = 0 THEN 0 ELSE lw_state' - 1
         /\ cu_state' # "Init" => lw_state' = n + 1
         /\ cu_state # "Init" => list_num = n /\ list_num' = n /\ lw_state' = n + 1
<1>1. lw_state \in 0 .. n + 1 /\ DOMAIN Object = 1 .. n
  BY ObjectTriangle DEF TypeOK, LW!TypeOK, LW!Wait, LW!Done, n
<1>2. lw_state' = IF lw_state = n + 1 \/ (lw_state = 0 /\ cu_state # "Init")
                  THEN lw_state ELSE lw_state + 1
  BY DEF Tick, LW!Tick, LW!Wait, LW!Done, CU!load_obj, n
<1>3. list_num' = IF lw_state \in 1 .. n /\ list_num # size THEN list_num + 1 ELSE list_num
  BY <1>1 DEF Tick, TL!Tick, TL!is_full, LW!list_w
<1>4. /\ list_num = IF lw_state = 0 THEN 0 ELSE lw_state - 1
      /\ cu_state # "Init" => lw_state = n + 1
  BY DEF Phases, Loading
<1>5. cu_state = "Init" /\ cu_state' # "Init" => lw_state = n + 1
  BY DEF Tick, CU!Tick, CU!Step, LW!load_done, LW!Done, n
<1> QED BY <1>1, <1>2, <1>3, <1>4, <1>5, Bounds

\* proj_count is cleared outside Proj.
LEMMA CountStep ==
  ASSUME Phases, NEW frame_clk, NEW done, NEW p, Tick(FALSE, frame_clk, done, p)
  PROVE  proj_state' # "Proj" => proj_count' = 0
BY DEF Tick, PR!Tick, PR!Step, Phases

LEMMA InitStep ==
  ASSUME TypeOK, Phases, NEW frame_clk \in BOOLEAN, NEW done \in BOOLEAN, NEW p \in Pose,
         Tick(FALSE, frame_clk, done, p), cu_state = "Init"
  PROVE  Phases'
<1>1. /\ cf_state = "Wait" /\ proj_state = "Wait" /\ fifo_num = 0 /\ list_r_addr = 1
      /\ draw_state \in {"Wait", "Done"} /\ (draw_state = "Done" => lw_state = 0)
  BY DEF Phases, Loading
<1>2. cf_state' = "Wait"
  BY <1>1 DEF Tick, CF!Tick, CF!Step, CU!clear_start
<1>3. proj_state' = "Wait" /\ list_r_addr' = 1
  BY <1>1 DEF Tick, PR!Tick, PR!Step, CU!proj_start, TL!Tick, PR!list_r
<1>4. fifo_num' = 0 /\ draw_state' = "Wait"
  BY <1>1 DEF Tick, TF!Tick, TF!NextNum, PR!fifo_w, fifo_w, fifo_r, DR!fifo_r,
     DR!Tick, DR!Step, CU!draw_start
<1>5. cu_state' \in {"Init", "Done"}
  BY DEF Tick, CU!Tick, CU!Step
<1> QED BY <1>2, <1>3, <1>4, <1>5, CountStep, LoadingStep
        DEF Phases, Loading, InClear, InDraw, InDone

LEMMA DoneStep ==
  ASSUME TypeOK, Phases, NEW frame_clk \in BOOLEAN, NEW done \in BOOLEAN, NEW p \in Pose,
         Tick(FALSE, frame_clk, done, p), cu_state = "Done"
  PROVE  Phases'
<1>1. /\ cf_state = "Wait" /\ proj_state = "Wait" /\ draw_state = "Wait"
      /\ list_r_addr = 1 /\ fifo_num = 0
  BY DEF Phases, InDone
<1>2. cf_state' = "Wait" /\ proj_state' = "Wait" /\ draw_state' = "Wait"
  BY <1>1 DEF Tick, CF!Tick, CF!Step, PR!Tick, PR!Step, DR!Tick, DR!Step,
     CU!clear_start, CU!proj_start, CU!draw_start
<1>3. list_r_addr' = 1 /\ fifo_num' = 0
  BY <1>1 DEF Tick, TL!Tick, PR!list_r, TF!Tick, TF!NextNum, PR!fifo_w, fifo_w, fifo_r,
     DR!fifo_r
<1>4. cu_state' \in {"Done", "Clear"}
  BY DEF Tick, CU!Tick, CU!Step
<1> QED BY <1>2, <1>3, <1>4, CountStep, LoadingStep
        DEF Phases, Loading, InClear, InDraw, InDone

LEMMA DrawStep ==
  ASSUME TypeOK, Phases, NEW frame_clk \in BOOLEAN, NEW done \in BOOLEAN, NEW p \in Pose,
         Tick(FALSE, frame_clk, done, p), cu_state = "Draw"
  PROVE  Phases'
<1>1. /\ list_r_addr = 1 /\ cf_state \in {"Done", "Wait"} /\ proj_state \in {"Done", "Wait"}
      /\ draw_state # "Wait" => cf_state = "Wait" /\ proj_state = "Wait"
      /\ draw_state = "Done" => fifo_num = 0
  BY DEF Phases, InDraw
<1>2. cf_state' = "Wait" /\ proj_state' = "Wait"
  BY <1>1 DEF Tick, CF!Tick, CF!Step, PR!Tick, PR!Step, CU!clear_start, CU!proj_start
<1>3. list_r_addr' = 1
  BY <1>1 DEF Tick, TL!Tick, PR!list_r
<1>4. ~fifo_w
  BY <1>1 DEF fifo_w, PR!fifo_w
<1>5. CASE draw_state = "Done"
  <2>1. cu_state' = "Done" /\ draw_state' = "Wait" /\ fifo_num' = 0
    BY <1>1, <1>4, <1>5 DEF Tick, CU!Tick, CU!Step, DR!draw_done, DR!Tick, DR!Step,
       TF!Tick, TF!NextNum, fifo_r, DR!fifo_r
  <2> QED BY <1>2, <1>3, <2>1, CountStep, LoadingStep
          DEF Phases, Loading, InClear, InDraw, InDone
<1>6. CASE draw_state # "Done"
  <2>1. cu_state' = "Draw"
    BY <1>6 DEF Tick, CU!Tick, CU!Step, DR!draw_done
  <2>2. draw_state' = "Done" => fifo_num = 0 /\ fifo_num' = 0
    BY <1>4, <1>6 DEF Tick, DR!Tick, DR!Step, TF!is_empty, TF!Tick, TF!NextNum, TypeOK,
       DR!TypeOK
  <2> QED BY <1>2, <1>3, <2>1, <2>2, CountStep, LoadingStep
          DEF Phases, Loading, InClear, InDraw, InDone
<1> QED BY <1>5, <1>6

\* One cycle of a projection that runs beside the clear.
LEMMA LockstepStep ==
  ASSUME TypeOK, Phases, NEW frame_clk \in BOOLEAN, NEW done \in BOOLEAN, NEW p \in Pose,
         Tick(FALSE, frame_clk, done, p), cu_state = "Clear", cf_state = "Clear",
         NEW k \in 0 .. n - 1, Lockstep(k)
  PROVE  \/ cf_state' = "Clear" /\ \E j \in 0 .. n - 1 : Lockstep(j)'
         \/ proj_state' = "Done" /\ list_r_addr' = 1
<1>1. CF!TypeOK /\ CF!Step(TRUE)
  BY DEF TypeOK, Tick, CF!Tick, CU!clear_start
<1>2. list_num = n /\ draw_state = "Wait" /\ n \in Nat /\ fifo_num \in Nat
  <2>1. list_num = n
    BY LoadingStep
  <2>2. draw_state = "Wait"
    BY DEF Phases, InClear
  <2>3. fifo_num \in Nat
    BY Bounds DEF TypeOK, TF!TypeOK
  <2> QED BY <2>1, <2>2, <2>3, Bounds
<1>3. /\ fifo_num' <= fifo_num + 1
      /\ proj_state # "Write" => fifo_num' = fifo_num
  BY <1>2 DEF Tick, TF!Tick, TF!NextNum, fifo_w, PR!fifo_w, fifo_r, DR!fifo_r
<1>4. /\ proj_state' = PR!Step(TRUE, list_r_addr = 0)
      /\ proj_count' = IF proj_state = "Proj" /\ proj_count # 4 THEN proj_count + 1 ELSE 0
      /\ proj_count \in 0 .. 4
  BY DEF Tick, PR!Tick, CU!proj_start, TL!read_done, PR!cal_time, TypeOK, PR!TypeOK
<1>5. list_r_addr' = IF proj_state = "Take1" THEN (IF list_r_addr = n THEN 0 ELSE list_r_addr + 1)
                     ELSE IF list_r_addr = 0 THEN 1 ELSE list_r_addr
  BY <1>2, Bounds DEF Tick, TL!Tick, TL!is_empty, PR!list_r
<1>6. Cleared \in Nat
  BY <1>1, ClearCounts
<1> DEFINE e == Cleared
<1>7. CF!LastPixel => e >= 8 * (n - 1) + 1
  BY <1>1, <1>2, ClearCounts, Bounds
<1>8. ~CF!LastPixel => Cleared' = e + 1 /\ cf_state' = "Clear"
  BY <1>1, ClearCounts
<1> HIDE DEF e
<1>9. CASE AtTake1(k, Cleared)
  <2>1. e = 8 * k /\ ~CF!LastPixel
    BY <1>2, <1>7, <1>9 DEF AtTake1, e
  <2>2. AtTake2(k, Cleared)'
    BY <1>2, <1>3, <1>4, <1>5, <1>8, <1>9, <2>1 DEF AtTake1, AtTake2, PR!Step
  <2> QED BY <1>8, <2>1, <2>2 DEF Lockstep
<1>10. CASE AtTake2(k, Cleared) /\ k = n - 1
  <2>1. proj_state' = "Done" /\ list_r_addr' = 1
    BY <1>2, <1>4, <1>5, <1>10 DEF AtTake2, PR!Step
  <2> QED BY <2>1
<1>11. CASE AtTake2(k, Cleared) /\ k # n - 1
  <2>1. e = 8 * k + 1 /\ ~CF!LastPixel /\ proj_count = 0 /\ k < n - 1
    BY <1>2, <1>7, <1>11 DEF AtTake2, e, Phases
  <2>2. AtProj(k, Cleared)'
    BY <1>2, <1>3, <1>4, <1>5, <1>8, <1>11, <2>1 DEF AtTake2, AtProj, PR!Step
  <2> QED BY <1>8, <2>1, <2>2 DEF Lockstep
<1>12. CASE AtProj(k, Cleared)
  <2>1. e = 8 * k + 2 + proj_count /\ ~CF!LastPixel
    BY <1>2, <1>4, <1>7, <1>12 DEF AtProj, e
  <2>2. CASE proj_count = 4
    <3>1. AtWrite(k, Cleared)'
      BY <1>2, <1>3, <1>4, <1>5, <1>8, <1>12, <2>1, <2>2 DEF AtProj, AtWrite, PR!Step, PR!cal_time
    <3> QED BY <1>8, <2>1, <3>1 DEF Lockstep
  <2>3. CASE proj_count # 4
    <3>1. AtProj(k, Cleared)'
      BY <1>2, <1>3, <1>4, <1>5, <1>8, <1>12, <2>1, <2>3 DEF AtProj, PR!Step, PR!cal_time
    <3> QED BY <1>8, <2>1, <3>1 DEF Lockstep
  <2> QED BY <2>2, <2>3
<1>13. CASE AtWrite(k, Cleared)
  <2>1. e = 8 * k + 7 /\ ~CF!LastPixel /\ k + 1 \in 0 .. n - 1
    BY <1>2, <1>7, <1>13 DEF AtWrite, e
  <2>2. AtTake1(k + 1, Cleared)'
    <3>1. proj_state' = "Take1" /\ list_r_addr' = (k + 1) + 1
      BY <1>4, <1>5, <1>13 DEF AtWrite, PR!Step
    <3>2. fifo_num' <= k + 1
      BY <1>2, <1>3, <1>13, fifo_num' \in Nat DEF AtWrite, Tick, TF!Tick, TF!NextNum
    <3>3. Cleared' = 8 * (k + 1)
      BY <1>8, <2>1
    <3> QED BY <3>1, <3>2, <3>3 DEF AtTake1
  <2> QED BY <1>8, <2>1, <2>2 DEF Lockstep
<1> QED BY <1>9, <1>10, <1>11, <1>12, <1>13 DEF Lockstep

LEMMA ClearStep ==
  ASSUME TypeOK, Phases, NEW frame_clk \in BOOLEAN, NEW done \in BOOLEAN, NEW p \in Pose,
         Tick(FALSE, frame_clk, done, p), cu_state = "Clear"
  PROVE  Phases'
<1>1. draw_state = "Wait" /\ draw_state' = "Wait" /\ list_num = n
  BY LoadingStep DEF Phases, InClear, Tick, DR!Tick, DR!Step, CU!draw_start
<1>2. cu_state' = IF cf_state = "Done" THEN "Draw" ELSE "Clear"
  BY DEF Tick, CU!Tick, CU!Step, CF!clear_frame_done
<1>3. CASE cf_state = "Wait"
  <2>1. proj_state = "Wait" /\ list_r_addr = 1 /\ fifo_num = 0
    BY <1>3 DEF Phases, InClear
  <2>2. cf_state' = "Clear" /\ Cleared' = 0
    BY <1>3, Bounds DEF Tick, CF!Tick, CF!Step, CU!clear_start, Cleared
  <2>3. proj_state' = "Take1" /\ list_r_addr' = 1
    BY <2>1 DEF Tick, PR!Tick, PR!Step, CU!proj_start, TL!Tick, PR!list_r
  <2>4. fifo_num' = 0
    BY <1>1, <2>1 DEF Tick, TF!Tick, TF!NextNum, PR!fifo_w, fifo_w
  <2>5. Lockstep(0)' /\ 0 \in 0 .. n - 1
    BY <2>2, <2>3, <2>4, Bounds DEF Lockstep, AtTake1
  <2> QED BY <1>1, <1>2, <1>3, <2>2, <2>3, <2>5, CountStep, LoadingStep
          DEF Phases, Loading, InClear, InDraw, InDone
<1>4. CASE cf_state \in {"Clear", "Done"} /\ proj_state = "Done" /\ list_r_addr = 1
  <2>1. cf_state' \in {"Clear", "Done"} /\ proj_state' = "Done" /\ list_r_addr' = 1
    BY <1>4 DEF Tick, CF!Tick, CF!Step, CU!clear_start, PR!Tick, PR!Step, CU!proj_start,
       TL!Tick, PR!list_r
  <2>2. cf_state = "Done" => cf_state' = "Done"
    BY DEF Tick, CF!Tick, CF!Step, CU!clear_start
  <2> QED BY <1>1, <1>2, <2>1, <2>2, CountStep, LoadingStep
          DEF Phases, Loading, InClear, InDraw, InDone
<1>5. CASE cf_state = "Clear" /\ \E k \in 0 .. n - 1 : Lockstep(k)
  <2>1. PICK k \in 0 .. n - 1 : Lockstep(k)
    BY <1>5
  <2>2. \/ cf_state' = "Clear" /\ \E j \in 0 .. n - 1 : Lockstep(j)'
        \/ proj_state' = "Done" /\ list_r_addr' = 1
    BY <1>5, <2>1, LockstepStep
  <2>3. cf_state' \in {"Clear", "Done"}
    BY <1>5 DEF Tick, CF!Tick, CF!Step, CU!clear_start
  <2> QED BY <1>1, <1>2, <1>5, <2>2, <2>3, CountStep, LoadingStep
          DEF Phases, Loading, InClear, InDraw, InDone
<1> QED BY <1>3, <1>4, <1>5 DEF Phases, InClear

LEMMA TickIInv ==
  ASSUME IInv, NEW Reset \in BOOLEAN, NEW frame_clk \in BOOLEAN,
         NEW done \in BOOLEAN, NEW p \in Pose, Tick(Reset, frame_clk, done, p)
  PROVE  IInv'
<1>1. TypeOK'
  BY TickType, PhasesRead DEF IInv
<1>2. Phases'
  <2>1. CASE Reset
    <3>1. Tick(TRUE, frame_clk, done, p)
      BY <2>1, Reset = TRUE
    <3> QED BY <3>1, ResetPhases
  <2>2. CASE ~Reset
    <3>1. Tick(FALSE, frame_clk, done, p)
      BY <2>2, Reset = FALSE
    <3>2. cu_state \in {"Init", "Clear", "Draw", "Done"}
      BY DEF IInv, TypeOK, CU!TypeOK, CU!State
    <3> QED BY <3>1, <3>2, InitStep, ClearStep, DrawStep, DoneStep DEF IInv
  <2> QED BY <2>1, <2>2
<1> QED BY <1>1, <1>2 DEF IInv

LEMMA NextIsTick ==
  Next => \E Reset, frame_clk, done \in BOOLEAN, p \in Pose : Tick(Reset, frame_clk, done, p)
<1>1. TriangleDone \subseteq BOOLEAN
  BY DEF TriangleDone
<1> QED BY <1>1 DEF Next, Run, PressReset

LEMMA StutterIInv == IInv /\ UNCHANGED vars => IInv'
BY DEF IInv, TypeOK, Phases, Loading, InClear, InDraw, InDone, Lockstep, AtTake1, AtTake2,
   AtProj, AtWrite, Cleared, vars, pipelineVars, CU!vars, CF!vars, LW!vars, TL!vars, PR!vars,
   TF!vars, DR!vars, CU!TypeOK, CF!TypeOK, LW!TypeOK, TL!TypeOK, PR!TypeOK, TF!TypeOK,
   DR!TypeOK

THEOREM PipelineInvariant == Spec => []IInv
<1>1. Init => IInv
  BY InitType, InitPhases DEF IInv
<1>2. IInv /\ [Next]_vars => IInv'
  BY NextIsTick, TickIInv, StutterIInv
<1> QED BY <1>1, <1>2, PTL DEF Spec

-----------------------------------------------------------------------------
(* What follows from it.                                                   *)

(* Every register of the pipeline keeps its range; in particular no list   *)
(* or fifo address leaves its memory (triangle_list.sv, triangle_fifo.sv). *)
THEOREM TypeCorrect == Spec => []TypeOK
BY PipelineInvariant, PTL DEF IInv

LEMMA WriteWhileClearing ==
  ASSUME IInv, fifo_w
  PROVE  cu_state = "Clear" /\ draw_state = "Wait" /\ fifo_num < n
<1>1. proj_state = "Write"
  BY DEF fifo_w, PR!fifo_w
<1>2. cu_state = "Clear"
  BY <1>1 DEF IInv, TypeOK, CU!TypeOK, CU!State, Phases, Loading, InDraw, InDone
<1>3. PICK k \in 0 .. n - 1 : Lockstep(k)
  BY <1>1, <1>2 DEF IInv, Phases, InClear
<1>4. fifo_num <= k /\ k < n - 1
  BY <1>1, <1>3 DEF Lockstep, AtTake1, AtTake2, AtProj, AtWrite
<1>5. fifo_num \in Nat
  BY Bounds DEF IInv, TypeOK, TF!TypeOK
<1> QED BY <1>1, <1>2, <1>4, <1>5, Bounds DEF IInv, Phases, InClear

(* project.sv never writes the fifo in a cycle in which draw.sv reads it:  *)
(* the handshake neither of them has is replaced by the time of the clear. *)
THEOREM ReadAndWriteExclude == Spec => []NeverBoth
<1>1. IInv => NeverBoth
  BY WriteWhileClearing DEF NeverBoth, fifo_r, DR!fifo_r
<1> QED BY <1>1, PipelineInvariant, PTL

(* Neither list_writer.sv nor project.sv loses a triangle to a full list   *)
(* or fifo, although neither looks at is_full.                             *)
THEOREM NoTriangleDropped == Spec => []NothingDropped
<1>1. ASSUME IInv, fifo_w PROVE ~TF!is_full
  BY <1>1, WriteWhileClearing, Bounds DEF TF!is_full, IInv, TypeOK, TF!TypeOK
<1>2. ASSUME IInv, LW!list_w PROVE ~TL!is_full
  BY <1>2, Bounds, ObjectTriangle DEF TL!is_full, LW!list_w, IInv, Phases, Loading
<1> QED BY <1>1, <1>2, PipelineInvariant, PTL DEF NothingDropped

(* A frame's triangles are all in the fifo before control_unit.sv starts   *)
(* drawing, and none of them is left when the frame is done, although      *)
(* control_unit.sv never looks at proj_done.                               *)
THEOREM FramesAreSeparate == Spec => []FramesDoNotMix
<1>1. IInv => FramesDoNotMix
  BY DEF IInv, Phases, InDone, InDraw, FramesDoNotMix, TF!is_empty
<1> QED BY <1>1, PipelineInvariant, PTL

(* When control_unit.sv waits for the next frame, every machine it will    *)
(* start waits too, and the list is rewound.                               *)
THEOREM MachinesAreReady == Spec => []ReadyForFrame
<1>1. IInv => ReadyForFrame
  BY DEF IInv, Phases, Loading, InDone, ReadyForFrame, LW!Done, n
<1> QED BY <1>1, PipelineInvariant, PTL

FP == INSTANCE TriangleFifoProofs WITH
        r_addr <- fifo_r_addr, w_addr <- fifo_w_addr, num <- fifo_num, triangle_out <- fifo_out

\* draw.sv and project.sv keep the contract under which the fifo was proved right.
LEMMA FifoUsedLegally == Spec => TF!Spec
<1>1. Init => TF!Init
  BY DEF Init
<1>2. IInv /\ [Next]_vars => [TF!LegalNext]_(TF!vars)
  <2>1. ASSUME IInv, NEW Reset \in BOOLEAN, NEW frame_clk \in BOOLEAN,
               NEW done \in BOOLEAN, NEW p \in Pose, Tick(Reset, frame_clk, done, p)
        PROVE  TF!LegalNext
    <3>1. TF!Tick(Reset, fifo_r, fifo_w, proj_triangle_in)
      BY <2>1 DEF Tick
    <3>2. TF!Legal(fifo_r, fifo_w)
      BY <2>1, WriteWhileClearing DEF TF!Legal, fifo_r, DR!fifo_r
    <3>3. proj_triangle_in \in Triangle
      BY <2>1, ProjectionAssumption DEF IInv, TypeOK, PR!TypeOK, OrigWord, proj_triangle_in
    <3>4. fifo_r \in BOOLEAN /\ fifo_w \in BOOLEAN
      BY DEF fifo_r, fifo_w, DR!fifo_r, PR!fifo_w
    <3> QED BY <2>1, <3>1, <3>2, <3>3, <3>4 DEF TF!LegalNext
  <2>2. UNCHANGED vars => UNCHANGED TF!vars
    BY DEF vars, pipelineVars, TF!vars
  <2> QED BY <2>1, <2>2, NextIsTick
<1> QED BY <1>1, <1>2, PipelineInvariant, PTL DEF Spec, TF!Spec

\* The fifo of the pipeline is the one of TriangleFifoProofs.
LEMMA SameFifo == TF!Spec => FP!Spec
<1>1. TF!Init => FP!Init
  BY DEF TF!Init, FP!Init, TF!Addr, FP!Addr
<1>2. [TF!LegalNext]_(TF!vars) => [FP!LegalNext]_(FP!vars)
  <2>1. ASSUME NEW Reset \in BOOLEAN, NEW r_en \in BOOLEAN, NEW w_en \in BOOLEAN,
               NEW t \in Triangle
        PROVE  /\ TF!Legal(r_en, w_en) => FP!Legal(r_en, w_en)
               /\ TF!Tick(Reset, r_en, w_en, t) => FP!Tick(Reset, r_en, w_en, t)
    BY DEF TF!Legal, FP!Legal, TF!Tick, FP!Tick, TF!is_full, FP!is_full, TF!is_empty,
       FP!is_empty, TF!Successor, FP!Successor, TF!NextNum, FP!NextNum
  <2>2. TF!LegalNext => FP!LegalNext
    BY <2>1 DEF TF!LegalNext, FP!LegalNext
  <2> QED BY <2>2 DEF TF!vars, FP!vars
<1> QED BY <1>1, <1>2, PTL DEF TF!Spec, FP!Spec

(* The triangles go from project.sv to draw.sv through a first-in          *)
(* first-out queue: the ring buffer of triangle_fifo.sv, used as the       *)
(* pipeline uses it, implements BoundedQueue.                              *)
THEOREM PipelineFifoIsQueue == Spec => FifoIsQueue
<1>1. FP!Spec => FP!IsBoundedQueue
  BY Bounds, FP!FifoImplementsQueue
<1>2. TF!Contents = FP!Contents
  BY DEF TF!Contents, FP!Contents, TF!Window, FP!Window, TF!Slot, FP!Slot
<1>3. FP!Queue!Init => TF!Queue!Init
  BY <1>2 DEF FP!Queue!Init, TF!Queue!Init, TF!Word, FP!Word
<1>4. [FP!Queue!Next]_(FP!Queue!vars) => [TF!Queue!Next]_(TF!Queue!vars)
  <2>1. TF!Contents' = FP!Contents'
    BY DEF TF!Contents, FP!Contents, TF!Window, FP!Window, TF!Slot, FP!Slot
  <2> QED BY <1>2, <2>1 DEF FP!Queue!Next, TF!Queue!Next, FP!Queue!vars, TF!Queue!vars,
        FP!Queue!Put, TF!Queue!Put, FP!Queue!Take, TF!Queue!Take, FP!Queue!TakePut,
        TF!Queue!TakePut, FP!Queue!Flush, TF!Queue!Flush, TF!Word, FP!Word
<1> QED BY <1>1, <1>3, <1>4, FifoUsedLegally, SameFifo, PTL
        DEF FifoIsQueue, TF!IsBoundedQueue, FP!IsBoundedQueue, TF!Queue!Spec, FP!Queue!Spec

-----------------------------------------------------------------------------
(* The way of the triangles: from the object into the list, through the    *)
(* projection into the fifo, out of it to be drawn.                        *)

\* The list holds the object, as far as list_writer has come.
Listed == /\ \A i \in 1 .. list_num : list[i] = Object[i]
          /\ list_w_addr = IF list_num = size THEN 1 ELSE list_num + 1
          /\ lw_state \in 1 .. n => lw_triangle = Object[lw_state]

\* The triangle being projected is the one before the read address.
Current ==
  /\ proj_state = "Take2" =>
       list_out = Object[IF list_r_addr = 0 THEN n ELSE list_r_addr - 1]
  /\ proj_state \in {"Proj", "Write"} => orig_triangle_data = Object[list_r_addr - 1]

\* The triangles sent to be drawn in this frame, in order: those drawn, the one
\* on the output of the fifo, those in the fifo.
InFlight == IF draw_state = "Take2" THEN 1 ELSE 0
Sent == Len(drawn) + InFlight + fifo_num
Item(m) == IF m <= Len(drawn) THEN drawn[m]
           ELSE IF m <= Len(drawn) + InFlight THEN fifo_out
           ELSE fifo[TF!Slot(fifo_r_addr, m - Len(drawn) - InFlight - 1)]

Unclipped(t) == \E po \in Pose, o \in OrigTriangle : ~Clip(po, o) /\ t = Projected(po, o)

\* Each of them is the projection of a triangle of the object; the last of those
\* drawn is the one in draw's registers.
Traced == /\ Listed /\ Current /\ TF!NumCountsElements
          /\ \A m \in 1 .. Sent : Unclipped(Item(m))
          /\ draw_state = "Draw" => Len(drawn) >= 1 /\ V = drawn[Len(drawn)]

\* Where the read address of the list is while a triangle is being projected.
LEMMA WhileProjecting ==
  ASSUME IInv, proj_state \in {"Take1", "Take2", "Proj", "Write"}
  PROVE  /\ cu_state = "Clear" /\ cf_state = "Clear" /\ list_num = n
         /\ proj_state = "Take1" => list_r_addr \in 1 .. n
         /\ proj_state = "Take2" => list_r_addr \in 2 .. n \/ list_r_addr = 0
         /\ proj_state \in {"Proj", "Write"} => list_r_addr \in 2 .. n
<1>1. cu_state = "Clear" /\ cf_state = "Clear" /\ \E k \in 0 .. n - 1 : Lockstep(k)
  BY DEF IInv, TypeOK, CU!TypeOK, CU!State, Phases, Loading, InClear, InDraw, InDone
<1>2. list_num = n
  BY <1>1, Bounds DEF IInv, Phases, Loading
<1>3. PICK k \in 0 .. n - 1 : Lockstep(k)
  BY <1>1
<1> QED BY <1>1, <1>2, <1>3, Bounds DEF Lockstep, AtTake1, AtTake2, AtProj, AtWrite

LEMMA ListedStep ==
  ASSUME IInv, Listed, NEW Reset \in BOOLEAN, NEW frame_clk, NEW done, NEW p,
         Tick(Reset, frame_clk, done, p)
  PROVE  Listed'
<1>1. /\ lw_state \in 0 .. n + 1 /\ list \in [0 .. size -> TL!Word] /\ list_num \in 0 .. size
      /\ list_w_addr \in 1 .. size /\ DOMAIN Object = 1 .. n
      /\ list_num = IF lw_state = 0 THEN 0 ELSE lw_state - 1
  BY ObjectTriangle DEF IInv, TypeOK, TL!TypeOK, LW!TypeOK, LW!Wait, LW!Done, n, Phases, Loading
<1>2. CASE Reset
  <2>1. list_num' = 0 /\ list_w_addr' = 1 /\ lw_state' = 0
    BY <1>2 DEF Tick, TL!Tick, LW!Tick, LW!Wait
  <2> QED BY <2>1, Bounds DEF Listed
<1>3. CASE ~Reset
  <2>1. lw_state' \in 1 .. n => lw_triangle' = Object[lw_state']
    BY <1>1, <1>3, Bounds DEF Tick, LW!Tick, LW!Wait, LW!Done, n
  <2>2. CASE LW!list_w
    <3>1. /\ lw_state \in 1 .. n /\ list_num = lw_state - 1 /\ list_num < size
          /\ list_w_addr = lw_state /\ lw_triangle = Object[lw_state]
      BY <1>1, <2>2, Bounds DEF LW!list_w, Listed
    <3>2. /\ list_num' = lw_state /\ list' = [list EXCEPT ![lw_state] = Object[lw_state]]
          /\ list_w_addr' = IF lw_state = size THEN 1 ELSE lw_state + 1
      BY <1>1, <1>3, <2>2, <3>1, Bounds DEF Tick, TL!Tick, TL!is_full
    <3> QED BY <1>1, <2>1, <3>1, <3>2, Bounds DEF Listed
  <2>3. CASE ~LW!list_w
    <3>1. list_num' = list_num /\ list' = list /\ list_w_addr' = list_w_addr
      BY <1>3, <2>3 DEF Tick, TL!Tick
    <3> QED BY <2>1, <3>1 DEF Listed
  <2> QED BY <2>2, <2>3
<1> QED BY <1>2, <1>3

LEMMA CurrentStep ==
  ASSUME IInv, Listed, Current, NEW Reset \in BOOLEAN, NEW frame_clk, NEW done, NEW p,
         Tick(Reset, frame_clk, done, p)
  PROVE  Current'
<1>1. CASE Reset
  BY <1>1 DEF Tick, PR!Tick, Current
<1>2. CASE ~Reset
  <2>1. /\ proj_state' = PR!Step(CU!proj_start, TL!read_done)
        /\ orig_triangle_data' = IF proj_state \in {"Take1", "Take2"} THEN list_out
                                 ELSE orig_triangle_data
    BY <1>2 DEF Tick, PR!Tick
  <2>2. proj_state \in {"Wait", "Take1", "Take2", "Proj", "Write", "Done"}
    BY DEF IInv, TypeOK, PR!TypeOK
  <2>3. CASE proj_state = "Take1"
    <3>1. list_r_addr \in 1 .. n /\ list_num = n
      BY <2>3, WhileProjecting
    <3>2. /\ list_out' = list[list_r_addr]
          /\ list_r_addr' = IF list_r_addr = n THEN 0 ELSE list_r_addr + 1
      BY <1>2, <2>3, <3>1, Bounds DEF Tick, TL!Tick, TL!is_empty, PR!list_r
    <3>3. proj_state' = "Take2" /\ list_out' = Object[list_r_addr]
      BY <2>1, <2>3, <3>1, <3>2 DEF PR!Step, TL!read_done, Listed
    <3> QED BY <3>1, <3>2, <3>3, Bounds DEF Current
  <2>4. CASE proj_state # "Take1"
    <3>1. /\ proj_state' # "Take2"
          /\ proj_state' \in {"Proj", "Write"} => /\ proj_state \in {"Take2", "Proj"}
                                                /\ list_r_addr # 0
      BY <2>1, <2>2, <2>4, WhileProjecting, Bounds DEF PR!Step, TL!read_done
    <3>2. list_r_addr # 0 => list_r_addr' = list_r_addr
      BY <1>2, <2>4 DEF Tick, TL!Tick, PR!list_r
    <3> QED BY <2>1, <3>1, <3>2 DEF Current
  <2> QED BY <2>3, <2>4
<1> QED BY <1>1, <1>2

\* A reset and the begin of a frame leave nothing sent.
LEMMA NothingSent ==
  ASSUME IInv, NEW Reset \in BOOLEAN, NEW frame_clk, NEW done, NEW p,
         Tick(Reset, frame_clk, done, p), Reset \/ FrameStarts
  PROVE  Sent' = 0 /\ draw_state' # "Draw"
<1>1. drawn' = <<>>
  BY DEF Tick, Record
<1>2. CASE Reset
  BY <1>1, <1>2, EmptySeq DEF Tick, TF!Tick, DR!Tick, Sent, InFlight
<1>3. CASE ~Reset /\ FrameStarts
  <2>1. draw_state = "Wait" /\ proj_state = "Wait" /\ fifo_num = 0 /\ cu_state = "Done"
    BY <1>3 DEF FrameStarts, IInv, Phases, InDone
  <2>2. draw_state' = "Wait" /\ fifo_num' = 0
    BY <1>3, <2>1 DEF Tick, DR!Tick, DR!Step, CU!draw_start, TF!Tick, TF!NextNum, fifo_w,
       PR!fifo_w
  <2> QED BY <1>1, <2>2, EmptySeq DEF Sent, InFlight
<1> QED BY <1>2, <1>3

\* Any other cycle keeps what was sent, in its order, and adds what is written.
LEMMA SentStep ==
  ASSUME IInv, TF!NumCountsElements, NEW frame_clk, NEW done, NEW p,
         Tick(FALSE, frame_clk, done, p), ~FrameStarts
  PROVE  /\ \A m \in 1 .. Sent : Item(m)' = Item(m)
         /\ ~fifo_w => Sent' = Sent
         /\ fifo_w => Sent' = Sent + 1 /\ \A m \in Nat : m = Sent + 1 => Item(m)' = proj_triangle_in
<1>1. /\ fifo_r_addr \in 0 .. size - 1 /\ fifo_w_addr \in 0 .. size - 1 /\ fifo_num \in 0 .. size
      /\ fifo \in [0 .. size - 1 -> TF!Word] /\ drawn \in Seq(Triangle \union {Unwritten})
      /\ draw_state \in {"Wait", "Take1", "Take2", "Draw", "Done"}
      /\ Len(drawn) \in Nat /\ size \in Nat
  BY Bounds DEF IInv, TypeOK, TF!TypeOK, TF!Addr, DR!TypeOK
<1>2. draw_state' = DR!Step(CU!draw_start, TF!is_empty, done)
  BY DEF Tick, DR!Tick
<1>3. drawn' = IF draw_state = "Take2" THEN Append(drawn, fifo_out) ELSE drawn
  BY DEF Tick, Record
<1>4. TF!Tick(FALSE, fifo_r, fifo_w, proj_triangle_in)
  BY DEF Tick
<1>5. CASE fifo_w
  <2>1. cu_state = "Clear" /\ draw_state = "Wait" /\ fifo_num < size
    BY <1>1, <1>5, WriteWhileClearing, Bounds
  <2>2. drawn' = drawn /\ InFlight = 0 /\ InFlight' = 0
    BY <1>2, <1>3, <2>1 DEF DR!Step, CU!draw_start, InFlight
  <2>3. /\ fifo_num' = fifo_num + 1 /\ fifo_r_addr' = fifo_r_addr
        /\ fifo' = [fifo EXCEPT ![TF!Slot(fifo_r_addr, fifo_num)] = proj_triangle_in]
    BY <1>1, <1>4, <1>5, <2>1 DEF TF!Tick, TF!NextNum, TF!is_full, TF!is_empty, fifo_r,
       DR!fifo_r, TF!NumCountsElements
  <2>4. Sent' = Sent + 1
    BY <1>1, <2>2, <2>3 DEF Sent
  <2>5. \A j \in 0 .. fifo_num : TF!Slot(fifo_r_addr, j) \in 0 .. size - 1
    BY <1>1, <2>1 DEF TF!Slot
  <2>6. \A j \in 0 .. fifo_num - 1 : TF!Slot(fifo_r_addr, j) # TF!Slot(fifo_r_addr, fifo_num)
    BY <1>1, <2>1 DEF TF!Slot
  <2>7. ASSUME NEW m \in 1 .. Sent, m > Len(drawn) PROVE Item(m)' = Item(m)
    <3>1. m - Len(drawn) - 0 - 1 \in 0 .. fifo_num - 1
      BY <1>1, <2>2, <2>7 DEF Sent
    <3>2. fifo'[TF!Slot(fifo_r_addr, m - Len(drawn) - 0 - 1)] = fifo[TF!Slot(fifo_r_addr, m - Len(drawn) - 0 - 1)]
      BY <1>1, <2>3, <2>5, <2>6, <3>1
    <3> QED BY <1>1, <2>2, <2>3, <2>7, <3>2 DEF Item, TF!Slot
  <2>8. ASSUME NEW m \in 1 .. Sent, m <= Len(drawn) PROVE Item(m)' = Item(m)
    BY <2>2, <2>8 DEF Item
  <2>9. \A m \in Nat : m = Sent + 1 => Item(m)' = proj_triangle_in
    <3> SUFFICES ASSUME NEW m \in Nat, m = Sent + 1 PROVE Item(m)' = proj_triangle_in
      OBVIOUS
    <3>1. m - Len(drawn) - 0 - 1 = fifo_num /\ m > Len(drawn)
      BY <1>1, <2>2 DEF Sent
    <3>2. fifo'[TF!Slot(fifo_r_addr, fifo_num)] = proj_triangle_in
      BY <1>1, <2>1, <2>3, <2>5
    <3> QED BY <1>1, <2>2, <2>3, <3>1, <3>2 DEF Item, TF!Slot
  <2> QED BY <1>1, <1>5, <2>4, <2>7, <2>8, <2>9 DEF Sent
<1>6. CASE ~fifo_w
  <2>1. fifo' = fifo
    BY <1>4, <1>6 DEF TF!Tick
  <2>2. CASE draw_state = "Take1" /\ fifo_num # 0
    <3>1. /\ drawn' = drawn /\ InFlight = 0 /\ InFlight' = 1
          /\ fifo_num' = fifo_num - 1 /\ fifo_r_addr' = TF!Successor(fifo_r_addr)
          /\ fifo_out' = fifo[fifo_r_addr]
      BY <1>1, <1>2, <1>3, <1>4, <1>6, <2>2 DEF DR!Step, InFlight, TF!Tick, TF!NextNum,
         TF!is_empty, fifo_r, DR!fifo_r
    <3>2. Sent' = Sent
      BY <1>1, <3>1 DEF Sent
    <3>3. ASSUME NEW m \in 1 .. Sent PROVE Item(m)' = Item(m)
      <4>1. CASE m <= Len(drawn)
        BY <3>1, <4>1 DEF Item
      <4>2. CASE m = Len(drawn) + 1
        BY <1>1, <3>1, <4>2 DEF Item, TF!Slot
      <4>3. CASE m > Len(drawn) + 1
        <5>1. m - Len(drawn) - 1 \in 1 .. fifo_num - 1
          BY <1>1, <3>1, <4>3 DEF Sent
        <5>2. TF!Slot(TF!Successor(fifo_r_addr), m - Len(drawn) - 1 - 1)
               = TF!Slot(fifo_r_addr, m - Len(drawn) - 0 - 1)
          BY <1>1, <5>1 DEF TF!Slot, TF!Successor
        <5> QED BY <1>1, <2>1, <3>1, <4>3, <5>2 DEF Item, TF!Slot
      <4> QED BY <1>1, <4>1, <4>2, <4>3 DEF Sent
    <3> QED BY <1>6, <3>2, <3>3
  <2>3. CASE draw_state = "Take2"
    <3>1. /\ drawn' = Append(drawn, fifo_out) /\ InFlight = 1 /\ InFlight' = 0
          /\ fifo_num' = fifo_num /\ fifo_r_addr' = fifo_r_addr
      BY <1>1, <1>2, <1>3, <1>4, <1>6, <2>3 DEF DR!Step, InFlight, TF!Tick, TF!NextNum,
         fifo_r, DR!fifo_r
    <3>2. /\ Len(drawn') = Len(drawn) + 1 /\ drawn'[Len(drawn) + 1] = fifo_out
          /\ \A m \in 1 .. Len(drawn) : drawn'[m] = drawn[m]
      <4>1. fifo_out \in Triangle \union {Unwritten}
        BY DEF IInv, TypeOK, TF!TypeOK, TF!Word
      <4> QED BY <1>1, <3>1, <4>1, AppendProperties
    <3>3. Sent' = Sent
      BY <1>1, <3>1, <3>2 DEF Sent
    <3>4. ASSUME NEW m \in 1 .. Sent PROVE Item(m)' = Item(m)
      <4>1. CASE m <= Len(drawn)
        BY <1>1, <3>2, <4>1 DEF Item, Sent
      <4>2. CASE m = Len(drawn) + 1
        BY <1>1, <3>1, <3>2, <4>2 DEF Item
      <4>3. CASE m > Len(drawn) + 1
        BY <1>1, <2>1, <3>1, <3>2, <4>3 DEF Item, TF!Slot
      <4> QED BY <1>1, <4>1, <4>2, <4>3 DEF Sent
    <3> QED BY <1>6, <3>3, <3>4
  <2>4. CASE draw_state # "Take2" /\ ~(draw_state = "Take1" /\ fifo_num # 0)
    <3>1. /\ drawn' = drawn /\ InFlight = 0 /\ InFlight' = 0
          /\ fifo_num' = fifo_num /\ fifo_r_addr' = fifo_r_addr
      BY <1>1, <1>2, <1>3, <1>4, <1>6, <2>4 DEF DR!Step, InFlight, TF!Tick, TF!NextNum,
         TF!is_empty, fifo_r, DR!fifo_r
    <3> QED BY <1>6, <2>1, <3>1 DEF Item, Sent, TF!Slot
  <2> QED BY <2>2, <2>3, <2>4
<1> QED BY <1>5, <1>6

\* A triangle that is written is the projection of one of the object.
LEMMA WrittenUnclipped ==
  ASSUME IInv, Current, fifo_w
  PROVE  /\ list_r_addr \in 2 .. n /\ orig_triangle_data = Object[list_r_addr - 1]
         /\ Unclipped(proj_triangle_in)
<1>1. proj_state = "Write" /\ ~clip
  BY DEF fifo_w, PR!fifo_w
<1>2. list_r_addr \in 2 .. n /\ orig_triangle_data = Object[list_r_addr - 1]
  BY <1>1, WhileProjecting DEF Current
<1>3. orig_triangle_data \in OrigTriangle /\ pose \in Pose
  BY <1>2, ObjectTriangle, Bounds DEF IInv, TypeOK
<1> QED BY <1>1, <1>2, <1>3 DEF Unclipped, clip, proj_triangle_in

LEMMA TracedStep ==
  ASSUME IInv, Traced, (TF!NumCountsElements)', NEW Reset \in BOOLEAN, NEW frame_clk, NEW done, NEW p,
         Tick(Reset, frame_clk, done, p)
  PROVE  Traced'
<1>1. Listed' /\ Current'
  BY ListedStep, CurrentStep DEF Traced
<1>2. CASE Reset \/ FrameStarts
  <2>1. Sent' = 0 /\ draw_state' # "Draw"
    BY <1>2, NothingSent
  <2> QED BY <1>1, <2>1 DEF Traced
<1>3. CASE ~Reset /\ ~FrameStarts
  <2>1. Tick(FALSE, frame_clk, done, p)
    BY <1>3, Reset = FALSE
  <2>2. /\ \A m \in 1 .. Sent : Item(m)' = Item(m)
        /\ ~fifo_w => Sent' = Sent
        /\ fifo_w => Sent' = Sent + 1 /\ \A m \in Nat : m = Sent + 1 => Item(m)' = proj_triangle_in
    BY <1>3, <2>1, SentStep DEF Traced
  <2>3. Sent \in Nat
    BY Bounds, LenProperties DEF IInv, TypeOK, TF!TypeOK, Sent, InFlight
  <2>4. ASSUME NEW m \in 1 .. Sent' PROVE Unclipped(Item(m))'
    <3>1. CASE m \in 1 .. Sent
      BY <2>2, <3>1 DEF Traced, Unclipped
    <3>2. CASE m \notin 1 .. Sent
      <4>1. fifo_w /\ Item(m)' = proj_triangle_in
        BY <2>2, <2>3, <2>4, <3>2
      <4>2. Unclipped(proj_triangle_in)
        BY <4>1, WrittenUnclipped DEF Traced
      <4> QED BY <4>1, <4>2 DEF Unclipped
    <3> QED BY <3>1, <3>2
  <2>5. draw_state' = "Draw" => Len(drawn') >= 1 /\ V' = drawn'[Len(drawn')]
    <3> HAVE draw_state' = "Draw"
    <3>1. draw_state \in {"Take2", "Draw"} /\ ~Reset
      BY <1>3, <2>1 DEF Tick, DR!Tick, DR!Step, IInv, TypeOK, DR!TypeOK
    <3>2. drawn \in Seq(Triangle \union {Unwritten}) /\ fifo_out \in Triangle \union {Unwritten}
      BY DEF IInv, TypeOK, TF!TypeOK, TF!Word
    <3>3. CASE draw_state = "Take2"
      <4>1. drawn' = Append(drawn, fifo_out) /\ V' = fifo_out
        BY <1>3, <2>1, <3>3 DEF Tick, Record, DR!Tick
      <4> QED BY <3>2, <4>1, AppendProperties, LenProperties
    <3>4. CASE draw_state = "Draw"
      BY <1>3, <2>1, <3>4 DEF Tick, Record, DR!Tick, Traced
    <3> QED BY <3>1, <3>3, <3>4
  <2> QED BY <1>1, <2>4, <2>5 DEF Traced
<1> QED BY <1>2, <1>3

LEMMA TracedInit == Init => Traced
<1> SUFFICES ASSUME Init PROVE Traced
  OBVIOUS
<1>1. Sent = 0 /\ draw_state = "Done" /\ TF!NumCountsElements
  BY Bounds, EmptySeq DEF Init, TF!Init, DR!Init, Sent, InFlight, TF!NumCountsElements, TF!Slot
<1>2. Listed /\ Current
  BY Bounds DEF Init, TL!Init, LW!Init, LW!Wait, PR!Init, Listed, Current
<1> QED BY <1>1, <1>2 DEF Traced

LEMMA FifoCounts == Spec => []TF!NumCountsElements
<1>1. FP!Spec => [](FP!TypeOK /\ FP!NumCountsElements)
  BY Bounds, FP!FifoInvariant
<1>2. FP!NumCountsElements => TF!NumCountsElements
  BY DEF TF!NumCountsElements, FP!NumCountsElements, TF!Slot, FP!Slot
<1> QED BY <1>1, <1>2, FifoUsedLegally, SameFifo, PTL

LEMMA TracedStutter == Traced /\ UNCHANGED vars => Traced'
BY DEF Traced, Listed, Current, Sent, InFlight, Item, TF!NumCountsElements, TF!Slot, Unclipped,
   vars, pipelineVars, CU!vars, CF!vars, LW!vars, TL!vars, PR!vars, TF!vars, DR!vars

(* Whatever draw.sv draws is the projection of a triangle of the object    *)
(* that is not clipped: it never takes a word of the fifo that project.sv  *)
(* has not written, nor does project.sv one of the list that list_writer   *)
(* has not.                                                                *)
DrawnIsProjected == \A i \in 1 .. Len(drawn) : Unclipped(drawn[i])

LEMMA PipelineTraced == Spec => []Traced
<1>1. IInv /\ Traced /\ (TF!NumCountsElements)' /\ [Next]_vars => Traced'
  BY NextIsTick, TracedStep, TracedStutter
<1> QED BY TracedInit, <1>1, PipelineInvariant, FifoCounts, PTL DEF Spec

THEOREM OnlyTheObjectIsDrawn == Spec => []DrawnIsProjected
<1>1. IInv /\ Traced => DrawnIsProjected
  <2> SUFFICES ASSUME IInv, Traced, NEW i \in 1 .. Len(drawn) PROVE Unclipped(drawn[i])
    BY DEF DrawnIsProjected
  <2>1. Len(drawn) \in Nat /\ fifo_num \in Nat
    BY LenProperties, Bounds DEF IInv, TypeOK, TF!TypeOK
  <2>2. i \in 1 .. Sent /\ Item(i) = drawn[i]
    BY <2>1 DEF Sent, InFlight, Item
  <2> QED BY <2>2 DEF Traced
<1> QED BY <1>1, PipelineInvariant, PipelineTraced, PTL
=============================================================================
