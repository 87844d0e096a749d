---------------------------- MODULE BoundedQueue ----------------------------
(***************************************************************************)
(* What triangle_fifo.sv promises its two users: a first-in first-out      *)
(* queue of at most Capacity triangles whose last element taken stays on   *)
(* the output.  A put on a full queue and a take on an empty one have no   *)
(* effect (they are stuttering steps here).                                *)
(***************************************************************************)
EXTENDS Naturals, Sequences

CONSTANTS Capacity, Elem

VARIABLES queue, out

vars == <<queue, out>>

Init == /\ queue = <<>>
        /\ out \in Elem

Put(e) == /\ Len(queue) < Capacity
          /\ queue' = Append(queue, e)
          /\ UNCHANGED out

Take == /\ queue # <<>>
        /\ out' = Head(queue)
        /\ queue' = Tail(queue)

\* Both ports in the same clock cycle, on a queue that is neither empty nor full.
TakePut(e) == /\ queue # <<>>
              /\ Len(queue) < Capacity
              /\ out' = Head(queue)
              /\ queue' = Append(Tail(queue), e)

\* A reset empties the queue; the memory's output register may still be loaded.
Flush == /\ queue' = <<>>
         /\ \/ UNCHANGED out
            \/ queue # <<>> /\ out' = Head(queue)

Next == \/ \E e \in Elem : Put(e) \/ TakePut(e)
        \/ Take
        \/ Flush

Spec == Init /\ [][Next]_vars
=============================================================================
