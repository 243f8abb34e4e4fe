-------------------------- MODULE SharedRingProofs --------------------------
(***************************************************************************)
(* Theorems about a ring of utils/ai_ring_buffer.c between two threads,    *)
(* for every size of the ring, of a message and of a frame.                *)
(*                                                                         *)
(* The invariant behind them, Consistent, says where the characters that   *)
(* were queued and not taken lie while no overflow has happened, and what  *)
(* each thread may rely on between two of its accesses, whatever the other *)
(* does in between: the producer that its slot is free, the consumer that  *)
(* there is a character at the tail.                                       *)
(***************************************************************************)
EXTENDS SharedRing, TLAPS

\* Characters that were queued and not taken.
Held == queued - taken

\* What the counts of the two loops are worth while they run.
Counts ==
  /\ ppc \in {"drop", "place", "advance"} => left > 0
  /\ ppc = "clear_tail" => clear > 0
  /\ cpc \in {"read", "tail"} => want > 0

\* Without an overflow the producer never moves the tail.
ProducerStays == ppc \notin {"clear", "clear_tail", "drop"}

\* The characters held lie one behind the other from the tail to the head.
Layout ==
  /\ Held \in 0 .. Size - 1
  /\ head_index = Masked(tail_index + Held)
  /\ \A i \in 0 .. Held - 1 : buffer[Masked(tail_index + i)] = taken + 1 + i

\* What each thread knows between two accesses.
Knowledge ==
  /\ ppc \in {"place", "advance"} => Held < Size - 1
  /\ ppc = "advance" => buffer[head_index] = queued + 1
  /\ cpc \in {"read", "tail"} => Held > 0
  /\ cpc = "tail" => data = taken + 1 /\ ct = tail_index

Consistent == ~overflown => ProducerStays /\ Layout /\ Knowledge

IInv == TypeOK /\ Counts /\ Consistent

-----------------------------------------------------------------------------
\* The modulus, in the cases that occur.

LEMMA SizePositive == Size \in Nat /\ Size > 0
BY SharedRingAssumption

\* An index of the storage, or one that is less than a lap ahead of it.
LEMMA MaskedAhead ==
  ASSUME NEW i \in 0 .. 2 * Size - 1
  PROVE  /\ Masked(i) = IF i < Size THEN i ELSE i - Size
         /\ Masked(i) \in Slot
<1>1. CASE i < Size
  BY <1>1, SizePositive DEF Masked, Slot
<1>2. CASE ~(i < Size)
  BY <1>2, SizePositive DEF Masked, Slot
<1> QED
  BY <1>1, <1>2

\* The slot at distance n from t.
LEMMA SlotAt ==
  ASSUME NEW t \in Slot, NEW n \in 0 .. Size
  PROVE  /\ Masked(t + n) = IF t + n < Size THEN t + n ELSE t + n - Size
         /\ Masked(t + n) \in Slot
BY SizePositive, MaskedAhead DEF Slot

LEMMA AtTail ==
  ASSUME NEW t \in Slot
  PROVE  Masked(t + 0) = t
<1>1. t \in 0 .. 2 * Size - 1 /\ t < Size /\ t + 0 = t
  BY SizePositive DEF Slot
<1>2. Masked(t) = t
  BY <1>1, MaskedAhead
<1> QED
  BY <1>1, <1>2

\* The number of items is the distance from tail to head.
LEMMA Distance ==
  ASSUME NEW t \in Slot, NEW n \in 0 .. Size - 1
  PROVE  Masked(Masked(t + n) - t) = n
<1>1. Masked(t + n) = IF t + n < Size THEN t + n ELSE t + n - Size
  BY SlotAt, SizePositive
<1>2. CASE t + n < Size
  BY <1>1, <1>2, SizePositive DEF Masked, Slot
<1>3. CASE ~(t + n < Size)
  <2>1. Masked(t + n) - t = n - Size
    BY <1>1, <1>3, SizePositive DEF Slot
  <2>2. (n - Size) % Size = n
    BY SizePositive
  <2> QED
    BY <2>1, <2>2 DEF Masked
<1> QED
  BY <1>2, <1>3

\* Two different distances below a lap lead to different slots.
LEMMA SlotsDiffer ==
  ASSUME NEW t \in Slot, NEW m \in 0 .. Size - 1, NEW n \in 0 .. Size - 1, m # n
  PROVE  Masked(t + m) # Masked(t + n)
BY SlotAt, SizePositive DEF Slot

\* A step of one slot, and then n more.
LEMMA NextSlot ==
  ASSUME NEW t \in Slot, NEW n \in 0 .. Size - 1
  PROVE  /\ Masked(Masked(t + 1) + n) = Masked(t + (n + 1))
         /\ Masked(Masked(t + n) + 1) = Masked(t + (n + 1))
         /\ Masked(t + 1) \in Slot
<1>1. /\ Masked(t + 1) = IF t + 1 < Size THEN t + 1 ELSE t + 1 - Size
      /\ Masked(t + 1) \in Slot
  BY SlotAt, SizePositive
<1>2. /\ Masked(t + n) = IF t + n < Size THEN t + n ELSE t + n - Size
      /\ Masked(t + n) \in Slot
  BY SlotAt, SizePositive
<1>3. /\ Masked(Masked(t + 1) + n)
           = IF Masked(t + 1) + n < Size THEN Masked(t + 1) + n ELSE Masked(t + 1) + n - Size
      /\ Masked(Masked(t + n) + 1)
           = IF Masked(t + n) + 1 < Size THEN Masked(t + n) + 1 ELSE Masked(t + n) + 1 - Size
  BY <1>1, <1>2, SlotAt, SizePositive
<1>4. Masked(t + (n + 1)) = IF t + (n + 1) < Size THEN t + (n + 1) ELSE t + (n + 1) - Size
  BY SlotAt, SizePositive
<1> QED
  BY <1>1, <1>2, <1>3, <1>4, SizePositive DEF Slot

\* In a ring without overflow the items are the characters held.
LEMMA ItemsAreHeld ==
  ASSUME TypeOK, Layout
  PROVE  /\ NumItems = Held
         /\ IsFull <=> Held = Size - 1
         /\ IsEmpty <=> Held = 0
<1>1. NumItems = Held
  BY Distance DEF NumItems, TypeOK, Layout
<1>2. IsEmpty <=> Held = 0
  <2>1. Masked(tail_index + 0) = tail_index
    BY AtTail DEF TypeOK
  <2>2. tail_index \in Slot /\ Held \in 0 .. Size - 1 /\ 0 \in 0 .. Size - 1
    BY SizePositive DEF TypeOK, Layout
  <2>3. Held # 0 => Masked(tail_index + Held) # Masked(tail_index + 0)
    BY <2>2, SlotsDiffer
  <2> QED
    BY <2>1, <2>3 DEF IsEmpty, Layout
<1> QED
  BY <1>1, <1>2 DEF IsFull

-----------------------------------------------------------------------------
\* Type correctness, with the counts it needs.

LEMMA TypeStep ==
  ASSUME TypeOK, Counts, [Next]_vars
  PROVE  TypeOK' /\ Counts'
<1>1. \A i \in Slot : Masked(i + 1) \in Slot
  BY SlotAt, SizePositive
<1> USE <1>1, SizePositive DEF TypeOK, Counts, shared, producer, consumer
<1>2. ASSUME NEW len \in 1 .. MaxSend, Send(len)
      PROVE  TypeOK' /\ Counts'
  BY <1>2, SharedRingAssumption DEF Send
<1>3. CASE ClearTest
  BY <1>3 DEF ClearTest
<1>4. CASE ClearTail
  BY <1>4 DEF ClearTail
<1>5. CASE QueueTest
  BY <1>5 DEF QueueTest
<1>6. CASE Drop
  BY <1>6 DEF Drop
<1>7. CASE Place
  BY <1>7 DEF Place
<1>8. CASE Advance
  <2>1. buffer \in [Slot -> 0 .. queued' + 1]
    BY <1>8 DEF Advance
  <2> QED
    BY <2>1, <1>8 DEF Advance
<1>9. CASE Sent
  BY <1>9 DEF Sent
<1>10. CASE Writeable
  <2>1. NumItems \in Nat
    BY DEF NumItems, Masked, Slot
  <2> QED
    BY <2>1, <1>10, SharedRingAssumption DEF Writeable
<1>11. CASE DequeueTest
  BY <1>11 DEF DequeueTest
<1>12. CASE Read
  <2>1. buffer[tail_index] \in Nat
    OBVIOUS
  <2> QED
    BY <2>1, <1>12 DEF Read
<1>13. CASE AdvanceTail
  BY <1>13 DEF AdvanceTail
<1>14. CASE UNCHANGED vars
  BY <1>14 DEF vars
<1> QED
  BY <1>2, <1>3, <1>4, <1>5, <1>6, <1>7, <1>8, <1>9, <1>10, <1>11, <1>12, <1>13, <1>14
  DEF Next, Producer, Consumer

-----------------------------------------------------------------------------
\* The three steps that change what the ring holds.

\* A character goes to the free slot at the head.
LEMMA PlaceStep ==
  ASSUME TypeOK, Consistent, ~overflown, Place
  PROVE  Layout' /\ Knowledge'
<1> USE SizePositive
<1>1. /\ Layout /\ Knowledge /\ Held < Size - 1 /\ Held \in 0 .. Size - 1
      /\ tail_index \in Slot /\ head_index = Masked(tail_index + Held) /\ head_index \in Slot
  BY DEF Consistent, Layout, Knowledge, TypeOK, Place
<1>2. /\ buffer' = [buffer EXCEPT ![head_index] = queued + 1] /\ ppc' = "advance"
      /\ UNCHANGED <<head_index, tail_index, consumer, queued, taken>>
  BY DEF Place
<1>3. Held' = Held
  BY <1>2 DEF Held
<1>4. buffer'[head_index] = queued + 1
  BY <1>1, <1>2 DEF TypeOK
<1>5. ASSUME NEW i \in 0 .. Held - 1
      PROVE  buffer'[Masked(tail_index + i)] = taken + 1 + i
  <2>1. i \in 0 .. Size - 1 /\ i # Held
    BY <1>1
  <2>2. Masked(tail_index + i) # head_index
    BY <1>1, <2>1, SlotsDiffer
  <2>3. Masked(tail_index + i) \in Slot
    BY <1>1, <2>1, SlotAt
  <2>4. buffer'[Masked(tail_index + i)] = buffer[Masked(tail_index + i)]
    BY <1>2, <2>2, <2>3 DEF TypeOK
  <2> QED
    BY <2>4, <1>1 DEF Layout
<1>6. Layout'
  BY <1>1, <1>2, <1>3, <1>5 DEF Layout
<1> QED
  BY <1>1, <1>2, <1>3, <1>4, <1>6 DEF Knowledge, consumer

\* It is in the ring once the head has passed it.
LEMMA AdvanceStep ==
  ASSUME TypeOK, Consistent, ~overflown, Advance
  PROVE  Layout' /\ Knowledge'
<1> USE SizePositive
<1>1. /\ Layout /\ Knowledge /\ Held < Size - 1 /\ Held \in 0 .. Size - 1
      /\ tail_index \in Slot /\ head_index = Masked(tail_index + Held)
      /\ buffer[head_index] = queued + 1 /\ queued \in Nat /\ taken \in Nat
  BY DEF Consistent, Layout, Knowledge, TypeOK, Advance
<1>2. /\ head_index' = Masked(head_index + 1) /\ queued' = queued + 1 /\ ppc' = "queue"
      /\ UNCHANGED <<buffer, tail_index, consumer, taken>>
  BY DEF Advance
<1>3. Held' = Held + 1
  BY <1>1, <1>2 DEF Held
<1>4. head_index' = Masked(tail_index' + Held')
  BY <1>1, <1>2, <1>3, NextSlot
<1>5. ASSUME NEW i \in 0 .. Held
      PROVE  buffer[Masked(tail_index + i)] = taken + 1 + i
  <2>1. CASE i = Held
    <3>1. queued + 1 = taken + 1 + i
      BY <1>1, <2>1 DEF Held
    <3> QED
      BY <3>1, <1>1, <2>1
  <2>2. CASE i # Held
    <3>1. i \in 0 .. Held - 1
      BY <1>1, <2>2
    <3> QED
      BY <3>1, <1>1 DEF Layout
  <2> QED
    BY <2>1, <2>2
<1>6. Layout'
  <2>1. Held' \in 0 .. Size - 1 /\ Held' - 1 = Held
    BY <1>1, <1>3
  <2> QED
    BY <1>2, <1>4, <1>5, <2>1 DEF Layout
<1> QED
  BY <1>1, <1>2, <1>3, <1>6 DEF Knowledge, consumer

\* The character at the tail has been taken.
LEMMA TakeStep ==
  ASSUME TypeOK, Consistent, ~overflown, AdvanceTail
  PROVE  Layout' /\ Knowledge'
<1> USE SizePositive
<1>1. /\ Layout /\ Knowledge /\ Held > 0 /\ Held \in 0 .. Size - 1
      /\ tail_index \in Slot /\ head_index = Masked(tail_index + Held)
      /\ data = taken + 1 /\ ct = tail_index /\ queued \in Nat /\ taken \in Nat
  BY DEF Consistent, Layout, Knowledge, TypeOK, AdvanceTail
<1>2. /\ tail_index' = Masked(tail_index + 1) /\ taken' = taken + 1 /\ cpc' = "dequeue"
      /\ UNCHANGED <<buffer, head_index, producer, queued>>
  BY <1>1 DEF AdvanceTail
<1>3. Held' = Held - 1 /\ Held' \in 0 .. Size - 1
  BY <1>1, <1>2 DEF Held
<1>4. \A n \in 0 .. Size - 1 : Masked(tail_index' + n) = Masked(tail_index + (n + 1))
  BY <1>1, <1>2, NextSlot
<1>5. head_index' = Masked(tail_index' + Held')
  <2>1. Held' + 1 = Held
    BY <1>1, <1>3
  <2> QED
    BY <1>1, <1>2, <1>3, <1>4, <2>1
<1>6. ASSUME NEW i \in 0 .. Held' - 1
      PROVE  buffer[Masked(tail_index' + i)] = taken' + 1 + i
  <2>1. i + 1 \in 0 .. Held - 1 /\ i \in 0 .. Size - 1 /\ i \in Nat
    BY <1>1, <1>3
  <2>2. buffer[Masked(tail_index + (i + 1))] = taken + 1 + (i + 1)
    BY <1>1, <2>1 DEF Layout
  <2>3. taken' + 1 + i = taken + 1 + (i + 1)
    BY <1>1, <1>2, <2>1
  <2> QED
    BY <2>1, <2>2, <2>3, <1>4
<1>7. Layout'
  BY <1>2, <1>3, <1>5, <1>6 DEF Layout
<1> QED
  BY <1>1, <1>2, <1>3, <1>7 DEF Knowledge, producer

-----------------------------------------------------------------------------
\* Every step of either thread keeps the ring consistent.
LEMMA ConsistentStep ==
  ASSUME TypeOK, Counts, Consistent, [Next]_vars
  PROVE  Consistent'
<1>1. SUFFICES ASSUME ~overflown'
               PROVE  ProducerStays' /\ Layout' /\ Knowledge'
  BY DEF Consistent
<1>2. ~overflown
  BY <1>1 DEF Next, Producer, Consumer, Send, ClearTest, ClearTail, QueueTest, Drop, Place, Advance,
              Sent, Writeable, DequeueTest, Read, AdvanceTail, vars, TypeOK
<1>3. ProducerStays /\ Layout /\ Knowledge
  BY <1>2 DEF Consistent
<1>4. NumItems = Held /\ (IsFull <=> Held = Size - 1) /\ (IsEmpty <=> Held = 0)
      /\ Held \in 0 .. Size - 1
  BY <1>3, ItemsAreHeld DEF Layout
<1>5. ASSUME NEW len \in 1 .. MaxSend, Send(len)
      PROVE  ProducerStays' /\ Layout' /\ Knowledge'
  BY <1>1, <1>3, <1>5 DEF Send, ProducerStays, Layout, Knowledge, Held, shared, consumer
<1>6. CASE ClearTest \/ ClearTail \/ Drop
  BY <1>3, <1>6 DEF ClearTest, ClearTail, Drop, ProducerStays
<1>7. CASE QueueTest
  <2>1. ~IsFull
    BY <1>1, <1>7 DEF QueueTest
  <2>2. Held < Size - 1
    BY <1>4, <2>1, SizePositive
  <2> QED
    BY <2>1, <2>2, <1>3, <1>7 DEF QueueTest, ProducerStays, Layout, Knowledge, Held, shared, consumer
<1>8. CASE Place
  BY <1>2, <1>8, PlaceStep DEF Place, ProducerStays
<1>9. CASE Advance
  BY <1>2, <1>9, AdvanceStep DEF Advance, ProducerStays
<1>10. CASE Sent
  BY <1>3, <1>10 DEF Sent, ProducerStays, Layout, Knowledge, Held, shared, consumer
<1>11. CASE Writeable
  BY <1>3, <1>11 DEF Writeable, ProducerStays, Layout, Knowledge, Held, shared, producer
<1>12. CASE DequeueTest
  <2>1. cpc' \in {"idle", "read"} /\ (cpc' = "read" => Held > 0)
    BY <1>4, <1>12 DEF DequeueTest
  <2> QED
    BY <2>1, <1>3, <1>12 DEF DequeueTest, ProducerStays, Layout, Knowledge, Held, shared, producer
<1>13. CASE Read
  <2>1. Held > 0 /\ 0 \in 0 .. Held - 1
    BY <1>3, <1>4, <1>13 DEF Read, Knowledge
  <2>2. buffer[Masked(tail_index + 0)] = taken + 1 + 0
    BY <1>3, <2>1 DEF Layout
  <2>3. Masked(tail_index + 0) = tail_index /\ taken + 1 + 0 = taken + 1
    BY AtTail DEF TypeOK
  <2>4. data' = taken + 1 /\ ct' = tail_index
    BY <1>13, <2>2, <2>3 DEF Read
  <2> QED
    BY <2>1, <2>4, <1>3, <1>13 DEF Read, ProducerStays, Layout, Knowledge, Held, shared, producer
<1>14. CASE AdvanceTail
  BY <1>2, <1>3, <1>14, TakeStep DEF AdvanceTail, ProducerStays, producer
<1>15. CASE UNCHANGED vars
  BY <1>3, <1>15 DEF vars, ProducerStays, Layout, Knowledge, Held, shared, producer, consumer
<1> QED
  BY <1>5, <1>6, <1>7, <1>8, <1>9, <1>10, <1>11, <1>12, <1>13, <1>14, <1>15
  DEF Next, Producer, Consumer

\* It is empty and consistent at first.
LEMMA InitIInv == Init => IInv
<1> SUFFICES ASSUME Init PROVE IInv
  OBVIOUS
<1>1. TypeOK
  <2>1. 0 \in Slot
    BY SizePositive DEF Slot
  <2>2. buffer \in [Slot -> 0 .. queued + 1]
    BY DEF Init
  <2> QED
    BY <2>1, <2>2 DEF Init, TypeOK
<1>2. Masked(0 + 0) = 0
  BY SizePositive DEF Masked
<1>3. Consistent
  BY <1>2, SizePositive DEF Init, Consistent, ProducerStays, Layout, Knowledge, Held
<1> QED
  BY <1>1, <1>3 DEF IInv, Init, Counts

LEMMA Invariance == Spec => []IInv
<1>1. IInv /\ [Next]_vars => IInv'
  BY TypeStep, ConsistentStep DEF IInv
<1> QED
  BY <1>1, InitIInv, PTL DEF Spec

\* Whatever the two threads do to each other's index, both stay inside the
\* storage, for every size of the ring.
THEOREM IndicesStay == Spec => []TypeOK
<1>1. IInv => TypeOK
  BY DEF IInv
<1> QED
  BY <1>1, Invariance, PTL

\* Until the ring overflows for the first time, the consumer gets the characters
\* in the order in which the producer queued them, each of them once, although
\* neither locks anything.
THEOREM NoLockNeeded == Spec => []InOrder
<1>1. IInv => InOrder
  BY ItemsAreHeld DEF IInv, Consistent, Knowledge, InOrder, Held
<1> QED
  BY <1>1, Invariance, PTL
=============================================================================
