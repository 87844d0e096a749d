------------------------- MODULE TriangleFifoProofs -------------------------
(***************************************************************************)
(* For every size and every set of triangles: the registers of the fifo    *)
(* keep their ranges, num counts the stored triangles, and the fifo        *)
(* implements BoundedQueue when it is used as the renderer uses it.        *)
(***************************************************************************)
EXTENDS TriangleFifo, SequenceTheorems, TLAPS

Inv == TypeOK /\ NumCountsElements

\* The guards of the two ports, for a cycle that obeys Legal.
writes(w_en) == w_en /\ ~is_full
reads(r_en) == r_en /\ ~is_empty

LEMMA InitInv == Init => Inv
BY SizeAssumption DEF Init, Inv, TypeOK, NumCountsElements, Slot, Addr, Word

LEMMA TickType ==
  ASSUME TypeOK, NEW Reset \in BOOLEAN, NEW r_en \in BOOLEAN, NEW w_en \in BOOLEAN,
         NEW t \in Word, Tick(Reset, r_en, w_en, t)
  PROVE  TypeOK'
BY SizeAssumption DEF TypeOK, Addr, Tick, Successor, NextNum, is_full, is_empty

LEMMA TickInv ==
  ASSUME Inv, NEW Reset \in BOOLEAN, NEW r_en \in BOOLEAN, NEW w_en \in BOOLEAN,
         NEW t \in Word, Legal(r_en, w_en), Tick(Reset, r_en, w_en, t)
  PROVE  Inv'
<1>1. TypeOK'
  BY TickType DEF Inv
<1>2. NumCountsElements'
  <2> USE SizeAssumption DEF Inv, TypeOK, NumCountsElements, Slot, Addr, Successor,
          NextNum, is_full, is_empty, Tick, Legal
  <2>1. CASE Reset
    BY <2>1
  <2>2. CASE ~Reset /\ r_en /\ w_en
    BY <2>2
  <2>3. CASE ~Reset /\ ~(r_en /\ w_en)
    BY <2>3
  <2> QED BY <2>1, <2>2, <2>3
<1> QED BY <1>1, <1>2 DEF Inv

LEMMA StutterInv == Inv /\ UNCHANGED vars => Inv'
BY DEF Inv, TypeOK, NumCountsElements, Slot, Addr, vars

(* num counts the triangles between the read and the write address, and    *)
(* every register keeps its range: with Legal, is_full and is_empty tell   *)
(* the truth (triangle_fifo.sv:38-72).                                     *)
THEOREM FifoInvariant == Spec => [](TypeOK /\ NumCountsElements)
<1>1. Inv /\ [LegalNext]_vars => Inv'
  BY TickInv, StutterInv DEF LegalNext, Word
<1> QED BY InitInv, <1>1, PTL DEF Spec, Inv

-----------------------------------------------------------------------------
(* The queue that a memory, a read address and a count stand for: what a   *)
(* write and a read make of it.                                            *)

LEMMA WindowSeq ==
  ASSUME NEW m \in [Addr -> Word], NEW a \in Addr, NEW n \in 0 .. size
  PROVE  /\ Window(m, a, n) \in Seq(Word)
         /\ Len(Window(m, a, n)) = n
         /\ \A k \in 1 .. n : Window(m, a, n)[k] = m[Slot(a, k - 1)]
<1>1. \A k \in 1 .. n : m[Slot(a, k - 1)] \in Word
  BY SizeAssumption DEF Slot, Addr
<1>2. Window(m, a, n) \in [1 .. n -> Word]
  BY <1>1 DEF Window
<1>3. n \in Nat
  BY SizeAssumption
<1> QED BY <1>1, <1>2, <1>3 DEF Window

\* A write at the first free address appends.
LEMMA WindowAppend ==
  ASSUME NEW m \in [Addr -> Word], NEW a \in Addr, NEW n \in 0 .. size - 1,
         NEW t \in Word
  PROVE  Window([m EXCEPT ![Slot(a, n)] = t], a, n + 1) = Append(Window(m, a, n), t)
<1> DEFINE mt == [m EXCEPT ![Slot(a, n)] = t]
<1> DEFINE V == Window(mt, a, n + 1)
<1> DEFINE W == Window(m, a, n)
<1>1. Slot(a, n) \in Addr /\ n \in 0 .. size /\ n + 1 \in 0 .. size
  BY SizeAssumption DEF Slot, Addr
<1>2. mt \in [Addr -> Word]
  BY <1>1
<1>3. V \in Seq(Word) /\ Len(V) = n + 1 /\ \A k \in 1 .. n + 1 : V[k] = mt[Slot(a, k - 1)]
  <2> HIDE DEF mt
  <2> QED BY <1>1, <1>2, WindowSeq
<1>4. W \in Seq(Word) /\ Len(W) = n /\ \A k \in 1 .. n : W[k] = m[Slot(a, k - 1)]
  BY <1>1, WindowSeq
<1>5. \A k \in 1 .. n : mt[Slot(a, k - 1)] = m[Slot(a, k - 1)]
  BY SizeAssumption DEF Slot, Addr
<1>6. mt[Slot(a, n)] = t
  BY <1>1
<1> HIDE DEF mt, V, W
<1>7. /\ Append(W, t) \in Seq(Word)
      /\ Len(Append(W, t)) = n + 1
      /\ \A k \in 1 .. n : Append(W, t)[k] = W[k]
      /\ Append(W, t)[n + 1] = t
  BY <1>4, AppendProperties
<1>8. \A k \in 1 .. n + 1 : V[k] = Append(W, t)[k]
  <2> TAKE k \in 1 .. n + 1
  <2>1. CASE k \in 1 .. n
    BY <2>1, <1>3, <1>4, <1>5, <1>7
  <2>2. CASE k = n + 1
    BY <2>2, <1>3, <1>6, <1>7, <1>1
  <2>3. k \in 1 .. n \/ k = n + 1
    BY SizeAssumption
  <2> QED BY <2>1, <2>2, <2>3
<1>9. V = Append(W, t)
  BY <1>3, <1>7, <1>8, SeqEqual
<1> QED BY <1>9 DEF V, W, mt

\* A read at the read address takes the first element and leaves the rest.
LEMMA WindowTail ==
  ASSUME NEW m \in [Addr -> Word], NEW a \in Addr, NEW n \in 1 .. size
  PROVE  /\ Window(m, a, n) # <<>>
         /\ Head(Window(m, a, n)) = m[a]
         /\ Window(m, Successor(a), n - 1) = Tail(Window(m, a, n))
<1> DEFINE V == Window(m, Successor(a), n - 1)
<1> DEFINE W == Window(m, a, n)
<1>1. Successor(a) \in Addr /\ n - 1 \in 0 .. size /\ n \in 0 .. size
  BY SizeAssumption DEF Successor, Addr
<1>2. /\ V \in Seq(Word)
      /\ Len(V) = n - 1
      /\ \A k \in 1 .. n - 1 : V[k] = m[Slot(Successor(a), k - 1)]
  BY <1>1, WindowSeq
<1>3. W \in Seq(Word) /\ Len(W) = n /\ \A k \in 1 .. n : W[k] = m[Slot(a, k - 1)]
  BY <1>1, WindowSeq
<1>4. \A k \in 1 .. n - 1 : Slot(Successor(a), k - 1) = Slot(a, k)
  BY SizeAssumption DEF Slot, Successor, Addr
<1>5. Slot(a, 0) = a
  BY SizeAssumption DEF Slot, Addr
<1> HIDE DEF V, W
<1>6. W # <<>>
  BY <1>3, EmptySeq
<1>7. Head(W) = m[a]
  BY <1>3, <1>5
<1>8. /\ Tail(W) \in Seq(Word)
      /\ Len(Tail(W)) = n - 1
      /\ \A k \in 1 .. n - 1 : Tail(W)[k] = W[k + 1]
  BY <1>3, <1>6, HeadTailProperties
<1>9. \A k \in 1 .. n - 1 : V[k] = Tail(W)[k]
  <2> TAKE k \in 1 .. n - 1
  <2>1. k + 1 \in 1 .. n /\ (k + 1) - 1 = k
    BY SizeAssumption
  <2>2. V[k] = m[Slot(a, k)] /\ W[k + 1] = m[Slot(a, k)]
    BY <1>2, <1>3, <1>4, <2>1
  <2> QED BY <1>8, <2>2
<1>10. V = Tail(W)
  BY <1>2, <1>8, <1>9, SeqEqual
<1> QED BY <1>6, <1>7, <1>10 DEF V, W

-----------------------------------------------------------------------------
(* Every cycle of a legal user is a step of the queue.                     *)

LEMMA InitRefines == Init /\ TypeOK => Queue!Init
<1> SUFFICES ASSUME Init, TypeOK PROVE Queue!Init
  OBVIOUS
<1>1. Contents \in Seq(Word) /\ Len(Contents) = 0
  BY WindowSeq, SizeAssumption DEF Contents, Init, TypeOK
<1>2. Contents = <<>>
  BY <1>1, EmptySeq
<1> QED BY <1>2 DEF Queue!Init, TypeOK

LEMMA TickRefines ==
  ASSUME Inv, Inv', NEW Reset \in BOOLEAN, NEW r_en \in BOOLEAN, NEW w_en \in BOOLEAN,
         NEW t \in Word, Legal(r_en, w_en), Tick(Reset, r_en, w_en, t)
  PROVE  [Queue!Next]_(Queue!vars)
<1> USE SizeAssumption
<1>0. /\ fifo \in [Addr -> Word] /\ r_addr \in Addr
      /\ num \in 0 .. size /\ num \in Nat /\ num <= size
  BY DEF Inv, TypeOK
<1>1. Contents \in Seq(Word) /\ Len(Contents) = num
  BY <1>0, WindowSeq DEF Contents
<1>2. reads(r_en) => /\ Contents # <<>>
                     /\ triangle_out' = Head(Contents)
                     /\ Window(fifo, Successor(r_addr), num - 1) = Tail(Contents)
  <2>1. reads(r_en) => num \in 1 .. size /\ triangle_out' = fifo[r_addr]
    BY <1>0 DEF reads, is_empty, Tick
  <2> QED BY <1>0, <2>1, WindowTail DEF Contents
<1>3. ~reads(r_en) => triangle_out' = triangle_out
  BY DEF reads, Tick
<1>4. CASE Reset
  <2>1. num' = 0
    BY <1>4 DEF Tick
  <2>2. Contents' = <<>>
    <3>1. fifo' \in [Addr -> Word] /\ r_addr' \in Addr /\ 0 \in 0 .. size
      BY DEF Inv, TypeOK, Addr
    <3>2. Contents' \in Seq(Word) /\ Len(Contents') = 0
      BY <2>1, <3>1, WindowSeq DEF Contents
    <3> QED BY <3>2, EmptySeq
  <2> QED BY <1>2, <1>3, <2>2 DEF Queue!Next, Queue!Flush
<1>5. CASE ~Reset /\ writes(w_en) /\ ~reads(r_en)
  <2>1. num' = num + 1 /\ r_addr' = r_addr /\ num < size
    BY <1>0, <1>5 DEF Tick, NextNum, Legal, writes, reads, is_full, is_empty
  <2>2. fifo' = [fifo EXCEPT ![Slot(r_addr, num)] = t]
    BY <1>5 DEF Tick, writes, Inv, NumCountsElements
  <2>3. Contents' = Append(Contents, t)
    <3>1. num \in 0 .. size - 1
      BY <1>0, <2>1
    <3> QED BY <1>0, <2>1, <2>2, <3>1, WindowAppend DEF Contents
  <2> QED BY <1>1, <1>3, <1>5, <2>1, <2>3 DEF Queue!Next, Queue!Put
<1>6. CASE ~Reset /\ reads(r_en) /\ ~writes(w_en)
  <2>1. num' = num - 1 /\ r_addr' = Successor(r_addr) /\ fifo' = fifo
    BY <1>0, <1>6 DEF Tick, NextNum, Legal, writes, reads, is_full, is_empty
  <2>2. Contents' = Tail(Contents)
    BY <1>2, <1>6, <2>1 DEF Contents
  <2> QED BY <1>2, <1>6, <2>2 DEF Queue!Next, Queue!Take
<1>7. CASE ~Reset /\ reads(r_en) /\ writes(w_en)
  <2>1. num' = num /\ r_addr' = Successor(r_addr) /\ num \in 1 .. size - 1
    BY <1>0, <1>7 DEF Tick, NextNum, Legal, writes, reads, is_full, is_empty
  <2>2. fifo' = [fifo EXCEPT ![Slot(r_addr, num)] = t]
    BY <1>7 DEF Tick, writes, Inv, NumCountsElements
  <2>3. Slot(r_addr, num) = Slot(Successor(r_addr), num - 1) /\ Successor(r_addr) \in Addr
    BY <1>0, <2>1 DEF Slot, Successor, Addr
  <2>4. Contents' = Append(Window(fifo, Successor(r_addr), num - 1), t)
    <3>1. num - 1 \in 0 .. size - 1 /\ (num - 1) + 1 = num
      BY <1>0, <2>1
    <3>2. Window([fifo EXCEPT ![Slot(Successor(r_addr), num - 1)] = t],
                 Successor(r_addr), (num - 1) + 1)
          = Append(Window(fifo, Successor(r_addr), num - 1), t)
      BY <1>0, <2>3, <3>1, WindowAppend
    <3> QED BY <2>1, <2>2, <2>3, <3>1, <3>2 DEF Contents
  <2>5. Contents' = Append(Tail(Contents), t)
    BY <1>2, <1>7, <2>4
  <2> QED BY <1>1, <1>2, <1>7, <2>1, <2>5 DEF Queue!Next, Queue!TakePut
<1>8. CASE ~Reset /\ ~reads(r_en) /\ ~writes(w_en)
  <2>1. num' = num /\ r_addr' = r_addr /\ fifo' = fifo /\ triangle_out' = triangle_out
    BY <1>8 DEF Tick, NextNum, Legal, writes, reads, is_full, is_empty
  <2> QED BY <2>1 DEF Queue!vars, Contents
<1> QED BY <1>4, <1>5, <1>6, <1>7, <1>8

(* The ring buffer of triangle_fifo.sv and triangle_fifo_ram.sv implements *)
(* a first-in first-out queue of at most size triangles, for a user that   *)
(* never reads and writes at once while it is empty or full.               *)
THEOREM FifoImplementsQueue == Spec => IsBoundedQueue
<1>1. Inv /\ Inv' /\ [LegalNext]_vars => [Queue!Next]_(Queue!vars)
  <2>1. UNCHANGED vars => UNCHANGED Queue!vars
    BY DEF vars, Queue!vars, Contents
  <2> QED BY TickRefines, <2>1 DEF LegalNext, Word
<1>2. Init => Queue!Init
  BY InitInv, InitRefines DEF Inv
<1> QED BY FifoInvariant, <1>1, <1>2, PTL DEF Spec, IsBoundedQueue, Queue!Spec, Inv
=============================================================================
