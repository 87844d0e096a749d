----------------------------- MODULE ListWriter -----------------------------
(***************************************************************************)
(* list_writer.sv: after a reset, writes the triangles of the object, one  *)
(* a cycle, into the triangle list.  The states Wait, W1 .. W12, Done are  *)
(* 0, 1 .. Len(Object), Len(Object) + 1 here.                              *)
(***************************************************************************)
EXTENDS Naturals, Sequences

CONSTANTS Object,      \* the original triangles of the object, in list order
          NoTriangle   \* the value 0 of the register orig_triangle

VARIABLES curr_state, orig_triangle

vars == <<curr_state, orig_triangle>>

Wait == 0
Done == Len(Object) + 1

Init == /\ curr_state = Wait
        /\ orig_triangle = NoTriangle

list_w == curr_state \in DOMAIN Object
load_done == curr_state = Done

\* In Wn, the register holds triangle n, which is being written.
Tick(Reset, load_obj) ==
  /\ curr_state' = IF Reset THEN Wait
                   ELSE IF curr_state = Done \/ (curr_state = Wait /\ ~load_obj)
                        THEN curr_state
                   ELSE curr_state + 1
  /\ orig_triangle' = IF Reset THEN NoTriangle
                      ELSE IF curr_state + 1 \in DOMAIN Object
                           THEN Object[curr_state + 1]
                      ELSE orig_triangle

TypeOK == /\ curr_state \in Wait .. Done
          /\ orig_triangle \in {NoTriangle} \union {Object[i] : i \in DOMAIN Object}
=============================================================================
