-------------------------- MODULE RingAndTableProofs --------------------------
(***************************************************************************)
(* Theorems about the two data structures that one thread works on: the    *)
(* ring of utils/ai_ring_buffer.c, for every size, and the table of        *)
(* engines of src/ai_tool.c, for every number of slots and every bound.    *)
(*                                                                         *)
(* What concerns the ring rests on what the mask does to the four kinds of *)
(* index the code hands it: the lemmas Masked... say so once, and the rest *)
(* of the arithmetic is linear.  The table needs its own types and that    *)
(* the commands in the queue name its slots.                               *)
(***************************************************************************)
EXTENDS RingBuffer, AiTool, TLAPS

\* All the proofs need of the size: the power of two is what makes & a modulus.
LEMMA SizePositive == Size \in Nat /\ Size > 0
BY SizeAssumption

\* Masking leaves an index of the storage alone.
LEMMA MaskedSlot ==
  ASSUME NEW i \in Slot
  PROVE  Masked(i) = i
BY SizePositive DEF Slot, Masked

\* Masking an index one lap ahead takes the lap off.
LEMMA MaskedAhead ==
  ASSUME NEW i \in Int, Size <= i, i < 2 * Size
  PROVE  Masked(i) = i - Size
BY SizePositive DEF Masked

\* Masking a difference of indices that went below zero adds a lap.
LEMMA MaskedBehind ==
  ASSUME NEW i \in Int, i < 0, -Size <= i
  PROVE  Masked(i) = i + Size
BY SizePositive DEF Masked

\* The successor of an index, wrapped.
LEMMA MaskedNext ==
  ASSUME NEW i \in Slot
  PROVE  /\ Masked(i + 1) = IF i = Size - 1 THEN 0 ELSE i + 1
         /\ Masked(i + 1) \in Slot
BY SizePositive, MaskedSlot, MaskedAhead DEF Slot

\* The number of items, without the modulus.
LEMMA ItemsCount ==
  ASSUME NEW h \in Slot, NEW t \in Slot
  PROVE  /\ Masked(h - t) = IF t <= h THEN h - t ELSE h - t + Size
         /\ Masked(h - t) \in Slot
BY SizePositive, MaskedSlot, MaskedBehind DEF Slot

\* The slot at distance i from t, without the modulus.
LEMMA SlotAt ==
  ASSUME NEW t \in Slot, NEW i \in Slot
  PROVE  /\ Masked(t + i) = IF t + i < Size THEN t + i ELSE t + i - Size
         /\ Masked(t + i) \in Slot
BY SizePositive, MaskedSlot, MaskedAhead DEF Slot

-----------------------------------------------------------------------------
\* What each operation does to the characters held, slot by slot.

\* Queueing adds a character unless the ring is full.
LEMMA QueueCount ==
  ASSUME TypeOK, NEW d \in Data, Queue(d)
  PROVE  NumItems' = IF IsFull THEN NumItems ELSE NumItems + 1
<1>1. /\ head_index \in Slot /\ tail_index \in Slot
      /\ head_index' \in Slot /\ tail_index' \in Slot
  BY MaskedNext DEF Queue, TypeOK
<1>2. /\ head_index' = IF head_index = Size - 1 THEN 0 ELSE head_index + 1
      /\ tail_index' = IF IsFull
                       THEN IF tail_index = Size - 1 THEN 0 ELSE tail_index + 1
                       ELSE tail_index
  BY <1>1, MaskedNext DEF Queue
<1>3. NumItems = IF tail_index <= head_index THEN head_index - tail_index
                 ELSE head_index - tail_index + Size
  BY <1>1, ItemsCount DEF NumItems
<1>4. NumItems' = IF tail_index' <= head_index' THEN head_index' - tail_index'
                  ELSE head_index' - tail_index' + Size
  BY <1>1, ItemsCount DEF NumItems
<1> QED
  BY <1>1, <1>2, <1>3, <1>4, SizePositive DEF IsFull, Slot

\* Queueing writes the slot right after the newest character, and no slot that
\* still holds one.
LEMMA QueueKeepsHeld ==
  ASSUME TypeOK, NEW d \in Data, Queue(d), NEW i \in 0 .. NumItems' - 1
  PROVE  /\ NumItems' = IF IsFull THEN NumItems ELSE NumItems + 1
         /\ Peek(i)' = IF i = NumItems' - 1 THEN d
                       ELSE Peek(IF IsFull THEN i + 1 ELSE i)
<1>1. /\ head_index \in Slot /\ tail_index \in Slot
      /\ head_index' \in Slot /\ tail_index' \in Slot
      /\ buffer \in [Slot -> Data \cup {Garbage}]
  BY MaskedNext DEF Queue, TypeOK
<1>2. NumItems' = IF IsFull THEN NumItems ELSE NumItems + 1
  BY QueueCount
<1>3. NumItems \in Slot /\ NumItems' \in Slot
  BY <1>1, ItemsCount DEF NumItems
<1> DEFINE j == IF IsFull THEN i + 1 ELSE i
<1>4. /\ NumItems = IF tail_index <= head_index THEN head_index - tail_index
                    ELSE head_index - tail_index + Size
      /\ tail_index' = IF IsFull
                       THEN IF tail_index = Size - 1 THEN 0 ELSE tail_index + 1
                       ELSE tail_index
  BY <1>1, ItemsCount, MaskedNext DEF Queue, NumItems
<1>5. i \in Slot
  BY <1>3, SizePositive DEF Slot, NumItems
<1>6. /\ Masked(tail_index' + i) = IF tail_index' + i < Size THEN tail_index' + i
                                   ELSE tail_index' + i - Size
      /\ Masked(tail_index' + i) \in Slot
  BY <1>1, <1>5, SlotAt
<1>7. Masked(tail_index' + i) = head_index <=> i = NumItems' - 1
  BY <1>1, <1>2, <1>3, <1>4, <1>5, <1>6, SizePositive DEF Slot, IsFull
<1>8. ASSUME i # NumItems' - 1
      PROVE  Masked(tail_index' + i) = Masked(tail_index + j)
  <2>1. j \in Slot
    BY <1>2, <1>3, <1>8, SizePositive DEF Slot, IsFull
  <2>2. Masked(tail_index + j) = IF tail_index + j < Size THEN tail_index + j
                                 ELSE tail_index + j - Size
    BY <1>1, <2>1, SlotAt
  <2> QED
    BY <1>1, <1>4, <1>5, <1>6, <2>1, <2>2, SizePositive DEF Slot
<1> QED
  BY <1>1, <1>2, <1>6, <1>7, <1>8 DEF Queue, Peek

\* Dequeueing takes the oldest character off and moves no other.
LEMMA DequeueKeepsHeld ==
  ASSUME TypeOK, Dequeue
  PROVE  /\ NumItems \in Slot /\ NumItems > 0
         /\ NumItems' = NumItems - 1
         /\ out' = Peek(0)
         /\ \A i \in 0 .. NumItems' - 1 : Peek(i)' = Peek(i + 1)
<1>1. /\ head_index \in Slot /\ tail_index \in Slot
      /\ head_index' = head_index /\ buffer' = buffer
      /\ tail_index' = Masked(tail_index + 1) /\ tail_index' \in Slot
      /\ head_index # tail_index
  BY MaskedNext DEF Dequeue, TypeOK, IsEmpty
<1>2. NumItems \in Slot /\ NumItems > 0 /\ NumItems' = NumItems - 1
  <2>1. /\ NumItems \in Slot
        /\ NumItems = IF tail_index <= head_index THEN head_index - tail_index
                      ELSE head_index - tail_index + Size
    BY <1>1, ItemsCount DEF NumItems
  <2>2. NumItems' = IF tail_index' <= head_index' THEN head_index' - tail_index'
                    ELSE head_index' - tail_index' + Size
    BY <1>1, ItemsCount DEF NumItems
  <2>3. tail_index' = IF tail_index = Size - 1 THEN 0 ELSE tail_index + 1
    BY <1>1, MaskedNext
  <2> QED
    BY <1>1, <2>1, <2>2, <2>3, SizePositive DEF Slot
<1>3. out' = Peek(0)
  BY <1>1, MaskedSlot DEF Dequeue, Peek, Slot
<1>4. ASSUME NEW i \in 0 .. NumItems' - 1 PROVE Peek(i)' = Peek(i + 1)
  <2>1. Masked(tail_index' + i) = Masked(tail_index + (i + 1))
    <3>1. i \in Slot /\ i + 1 \in Slot
      BY <1>2, SizePositive DEF Slot
    <3>2. /\ Masked(tail_index' + i) = IF tail_index' + i < Size THEN tail_index' + i
                                       ELSE tail_index' + i - Size
          /\ Masked(tail_index + (i + 1)) =
               IF tail_index + (i + 1) < Size THEN tail_index + (i + 1)
               ELSE tail_index + (i + 1) - Size
      BY <1>1, <3>1, SlotAt
    <3>3. tail_index' = IF tail_index = Size - 1 THEN 0 ELSE tail_index + 1
      BY <1>1, MaskedNext
    <3> QED
      BY <1>1, <3>1, <3>2, <3>3, SizePositive DEF Slot
  <2> QED
    BY <2>1, <1>1 DEF Peek
<1> QED
  BY <1>2, <1>3, <1>4

-----------------------------------------------------------------------------
\* An index outside the storage would need a dequeue that returns storage
\* nobody wrote, and the other way round: the two invariants are one.
Inv == TypeOK /\ HeldIsWritten

\* The indices never leave the storage and no dequeue or peek ever reads a slot
\* that was not written, for every power-of-two size and every sequence of
\* ai_ring_buffer_queue and ai_ring_buffer_dequeue calls.
THEOREM Safe == Spec => [](TypeOK /\ HeldIsWritten)
<1>1. Init => Inv
  <2>1. ASSUME Init PROVE NumItems = 0
    BY <2>1, SizePositive, MaskedSlot DEF Init, NumItems, Slot
  <2> QED
    BY <2>1, SizePositive DEF Init, Inv, TypeOK, HeldIsWritten, Slot
<1>2. Inv /\ [Next]_vars => Inv'
  <2> SUFFICES ASSUME Inv, [Next]_vars PROVE Inv'
    OBVIOUS
  <2> USE DEF Inv
  <2>1. ASSUME NEW d \in Data, Queue(d) PROVE Inv'
    <3>1. TypeOK'
      BY <2>1, MaskedNext DEF Queue, TypeOK
    <3>2. ASSUME NEW i \in 0 .. NumItems' - 1 PROVE Peek(i)' \in Data
      <4>1. NumItems \in Slot
        BY ItemsCount DEF TypeOK, NumItems
      <4> QED
        BY <2>1, <4>1, QueueKeepsHeld, SizePositive DEF HeldIsWritten, Slot, IsFull
    <3> QED
      BY <3>1, <3>2 DEF HeldIsWritten
  <2>2. CASE Dequeue
    <3>1. TypeOK'
      <4>1. out' \in Data
        BY <2>2, DequeueKeepsHeld DEF HeldIsWritten, Slot
      <4> QED
        BY <2>2, <4>1, MaskedNext DEF Dequeue, TypeOK
    <3>2. HeldIsWritten'
      BY <2>2, DequeueKeepsHeld, SizePositive DEF HeldIsWritten, Slot
    <3> QED
      BY <3>1, <3>2
  <2>3. CASE DequeueEmpty
    BY <2>3 DEF DequeueEmpty, TypeOK, HeldIsWritten, NumItems, Peek
  <2>4. CASE UNCHANGED vars
    BY <2>4 DEF vars, TypeOK, HeldIsWritten, NumItems, Peek
  <2> QED
    BY <2>1, <2>2, <2>3, <2>4 DEF Next
<1> QED
  BY <1>1, <1>2, PTL DEF Spec, Inv

-----------------------------------------------------------------------------
\* Where the characters held are a sequence: its length and its members.
LEMMA ContentsIsSequence ==
  ASSUME TypeOK, HeldIsWritten
  PROVE  /\ Contents \in Seq(Data)
         /\ Len(Contents) = NumItems
         /\ NumItems \in Slot
         /\ \A i \in 1 .. NumItems : Contents[i] = Peek(i - 1)
<1>1. NumItems \in Slot
  BY ItemsCount DEF TypeOK, NumItems
<1>2. Contents \in [1 .. NumItems -> Data]
  BY <1>1, SizePositive DEF Contents, HeldIsWritten, Slot
<1> QED
  BY <1>1, <1>2, SizePositive DEF Contents, Slot

\* Every use of the ring is a use of a bounded queue that forgets its oldest
\* character when full: characters come out in the order they went in, none is
\* duplicated, and one is lost only where Size - 1 newer ones are held.
THEOREM Implements == Spec => IsFifo
<1>1. Init => Fifo!Init
  <2>1. ASSUME Init PROVE NumItems = 0
    BY <2>1, SizePositive, MaskedSlot DEF Init, NumItems, Slot
  <2> QED
    BY <2>1 DEF Init, Fifo!Init, Contents
<1>2. Inv /\ Inv' /\ [Next]_vars => [Fifo!Next]_Fifo!vars
  <2> SUFFICES ASSUME Inv, Inv', [Next]_vars PROVE [Fifo!Next]_Fifo!vars
    OBVIOUS
  <2>a. /\ Contents \in Seq(Data) /\ Len(Contents) = NumItems /\ NumItems \in Slot
        /\ \A i \in 1 .. NumItems : Contents[i] = Peek(i - 1)
    BY ContentsIsSequence DEF Inv
  <2>b. /\ Contents' \in Seq(Data) /\ Len(Contents') = NumItems' /\ NumItems' \in Slot
        /\ \A i \in 1 .. NumItems' : Contents'[i] = Peek(i - 1)'
    <3>1. TypeOK' /\ HeldIsWritten' BY DEF Inv
    <3>2. NumItems' \in Slot
      BY <3>1, ItemsCount DEF TypeOK, NumItems
    <3>3. Contents' \in [1 .. NumItems' -> Data]
      <4>1. \A i \in 0 .. NumItems' - 1 : Peek(i)' \in Data
        BY <3>1 DEF HeldIsWritten
      <4>2. \A i \in 1 .. NumItems' : i - 1 \in 0 .. NumItems' - 1
        BY <3>2, SizePositive DEF Slot, NumItems
      <4>3. ASSUME NEW i \in 1 .. NumItems' PROVE Peek(i - 1)' \in Data
        BY <4>1, <4>2
      <4> QED
        BY <4>3 DEF Contents
    <3> QED
      BY <3>2, <3>3, SizePositive DEF Contents, Slot
  <2>1. ASSUME NEW d \in Data, Queue(d) PROVE Fifo!Put(d)
    <3> DEFINE a == Append(Contents, d)
    <3>1. /\ a \in Seq(Data) /\ Len(a) = NumItems + 1
          /\ a[NumItems + 1] = d
          /\ \A i \in 1 .. NumItems : a[i] = Contents[i]
      BY <2>a
    <3>2. /\ NumItems' = IF IsFull THEN NumItems ELSE NumItems + 1
          /\ \A i \in 1 .. NumItems' :
               Peek(i - 1)' = IF i = NumItems' THEN d
                              ELSE Peek(IF IsFull THEN i ELSE i - 1)
      <4>1. ASSUME NEW i \in 1 .. NumItems'
            PROVE  Peek(i - 1)' = IF i = NumItems' THEN d
                                  ELSE Peek(IF IsFull THEN i ELSE i - 1)
        <5> DEFINE k == i - 1
        <5>1. k \in 0 .. NumItems' - 1
          BY <2>b, SizePositive DEF Slot, NumItems
        <5>2. Peek(k)' = IF k = NumItems' - 1 THEN d
                         ELSE Peek(IF IsFull THEN k + 1 ELSE k)
          BY <2>1, <5>1, QueueKeepsHeld DEF Inv
        <5> QED
          BY <5>2, <2>b, SizePositive DEF Slot, NumItems
      <4>2. NumItems' = IF IsFull THEN NumItems ELSE NumItems + 1
        BY <2>1, QueueCount DEF Inv
      <4> QED
        BY <4>1, <4>2
    <3>3. Contents' = Fifo!Newest(a)
      <4>1. CASE IsFull
        <5>1. Fifo!Newest(a) = Tail(a)
          BY <3>1, <2>a, <4>1, SizePositive DEF Fifo!Newest, IsFull, Slot
        <5>2. Tail(a) \in Seq(Data) /\ Len(Tail(a)) = NumItems
          <6>1. a # <<>>
            BY <3>1, <2>a, SizePositive DEF Slot
          <6> HIDE DEF a
          <6> QED
            BY <6>1, <3>1, <2>a, SizePositive DEF Slot
        <5>3. \A i \in 1 .. NumItems : Tail(a)[i] = a[i + 1]
          BY <3>1, <2>a, SizePositive DEF Slot
        <5>4. ASSUME NEW i \in 1 .. NumItems PROVE Contents'[i] = Tail(a)[i]
          <6>1. NumItems \in Nat /\ NumItems' = NumItems
            BY <2>a, <3>2, <4>1, SizePositive DEF Slot
          <6>2. Contents'[i] = IF i = NumItems THEN d ELSE Peek(i)
            BY <2>b, <3>2, <4>1, <6>1
          <6>3. Tail(a)[i] = a[i + 1]
            BY <5>3
          <6> HIDE DEF a
          <6>4. CASE i = NumItems
            BY <6>2, <6>3, <6>4, <3>1
          <6>5. CASE i # NumItems
            <7>1. i + 1 \in 1 .. NumItems
              BY <6>1, <6>5
            <7>2. a[i + 1] = Contents[i + 1] /\ Contents[i + 1] = Peek(i + 1 - 1)
              BY <7>1, <2>a, <3>1
            <7>3. i + 1 - 1 = i
              BY <6>1
            <7> QED
              BY <6>2, <6>3, <6>5, <7>2, <7>3
          <6> QED
            BY <6>4, <6>5
        <5> QED
          BY <5>1, <5>2, <5>4, <2>b, <3>2, <4>1
      <4>2. CASE ~IsFull
        <5>1. Fifo!Newest(a) = a
          BY <3>1, <2>a, <4>2, SizePositive DEF Fifo!Newest, IsFull, Slot
        <5>2. ASSUME NEW i \in 1 .. NumItems + 1 PROVE Contents'[i] = a[i]
          <6>1. NumItems \in Nat /\ NumItems' = NumItems + 1
            BY <2>a, <3>2, <4>2, SizePositive DEF Slot
          <6>2. Contents'[i] = IF i = NumItems + 1 THEN d ELSE Peek(i - 1)
            BY <2>b, <3>2, <4>2, <6>1
          <6>3. i # NumItems + 1 => i \in 1 .. NumItems
            BY <6>1
          <6> HIDE DEF a
          <6>4. CASE i = NumItems + 1
            BY <6>2, <6>4, <3>1
          <6>5. CASE i # NumItems + 1
            BY <6>2, <6>3, <6>5, <2>a, <3>1
          <6> QED
            BY <6>4, <6>5
        <5> QED
          BY <5>1, <5>2, <2>b, <3>1, <3>2, <4>2
      <4> QED
        BY <4>1, <4>2
    <3> QED
      BY <2>1, <3>3 DEF Queue, Fifo!Put
  <2>2. ASSUME Dequeue PROVE Fifo!Get
    <3>1. /\ NumItems > 0 /\ NumItems' = NumItems - 1 /\ out' = Peek(0)
          /\ \A i \in 0 .. NumItems' - 1 : Peek(i)' = Peek(i + 1)
      BY <2>2, DequeueKeepsHeld DEF Inv
    <3>2. Contents # <<>> /\ Head(Contents) = Peek(0)
      BY <2>a, <3>1, SizePositive DEF Slot
    <3>3. Contents' = Tail(Contents)
      <4>1. Tail(Contents) \in Seq(Data) /\ Len(Tail(Contents)) = NumItems - 1
        BY <2>a, <3>1, <3>2, SizePositive DEF Slot
      <4>2. ASSUME NEW i \in 1 .. NumItems - 1 PROVE Contents'[i] = Tail(Contents)[i]
        <5>1. Tail(Contents)[i] = Contents[i + 1]
          BY <2>a, <3>1, <3>2, SizePositive DEF Slot
        <5> QED
          BY <5>1, <2>a, <2>b, <3>1, SizePositive DEF Slot
      <4> QED
        BY <4>1, <4>2, <2>b, <3>1
    <3> QED
      BY <3>1, <3>2, <3>3 DEF Fifo!Get
  <2>3. ASSUME DequeueEmpty PROVE Fifo!GetNothing
    <3>1. NumItems = 0
      BY <2>3, MaskedSlot, SizePositive DEF DequeueEmpty, IsEmpty, NumItems, Inv, TypeOK, Slot
    <3>2. Contents = <<>>
      BY <3>1 DEF Contents
    <3>3. Contents' = Contents
      BY <2>3 DEF DequeueEmpty, Contents, NumItems, Peek
    <3> QED
      BY <2>3, <3>2, <3>3 DEF DequeueEmpty, Fifo!GetNothing
  <2>4. CASE UNCHANGED vars
    BY <2>4 DEF vars, Fifo!vars, Contents, NumItems, Peek
  <2> QED
    BY <2>1, <2>2, <2>3, <2>4 DEF Next, Fifo!Next
<1>3. Spec => []Inv
  BY Safe, PTL DEF Inv
<1> QED
  BY <1>1, <1>2, <1>3, PTL DEF Spec, IsFifo, Fifo!Spec
-----------------------------------------------------------------------------
\* The tool's table of engines.

\* What LVGL's thread has besides.
VARIABLES screen, press_timer, upc, doing, seen, fault

\* Both programs that have the table.
Program == INSTANCE AiLvgl

\* What TableIsTrue needs of the types: commands name slots, and the engines in
\* the table are some of those created.
Table ==
  /\ asyncq \in Seq(Command)
  /\ kinds \in Seq(Kind)
  /\ chain \in [Id -> [handle : 0 .. Len(kinds), type : Kind \cup {"none"}]]
  /\ open \subseteq 1 .. Len(kinds)

TableInv == Table /\ TableIsTrue

Entry(n) == [handle : 0 .. n, type : Kind \cup {"none"}]

\* A table is one slot by slot.
LEMMA SlotBySlot ==
  ASSUME asyncq' \in Seq(Command), kinds' \in Seq(Kind), open' \subseteq 1 .. Len(kinds'),
         chain' = [i \in Id |-> chain'[i]], \A i \in Id : chain'[i] \in Entry(Len(kinds'))
  PROVE  Table'
<1>1. chain' \in [Id -> Entry(Len(kinds'))]
  BY Zenon
<1> QED
  BY <1>1 DEF Table, Entry

LEMMA InitTable ==
  ASSUME Program!Init
  PROVE  TableInv
<1> USE DEF Unused, Used, TableIsTrue, Table
<1>1. asyncq = <<>> /\ loop = "running"
  BY DEF Program!Init, Program!ThreadsInit
<1>2. asyncq \in Seq(Command)
  BY <1>1
<1>3. CASE Program!TableInit
  <2>1. kinds = <<>> /\ open = {} /\ chain = [i \in Id |-> [handle |-> 0, type |-> "none"]]
    BY <1>3 DEF Program!TableInit, Program!Id, Program!Unused, Id
  <2>2. Table
    BY <1>2, <2>1
  <2>3. TableIsTrue
    BY <1>1, <2>1
  <2> QED
    BY <2>2, <2>3 DEF TableInv
<1>4. CASE Program!Started
  <2>1. kinds \in Seq(Kind) /\ Len(kinds) \in {0, 1} /\ (Len(kinds) = 1 => kinds[1] = "asr")
    <3>1. CASE kinds = <<>>
      BY <3>1
    <3>2. CASE kinds = <<"asr">>
      BY <3>2 DEF Kind
    <3> QED
      BY <1>4, <3>1, <3>2 DEF Program!Started
  <2>2. 0 \in Id
    BY AiToolAssumption DEF Id
  <2>3. open = 1 .. Len(kinds)
        /\ chain = [i \in Id |-> IF i = 0 THEN [handle |-> Len(kinds), type |-> "asr"]
                                        ELSE [handle |-> 0, type |-> "none"]]
    BY <1>4 DEF Program!Started, Program!Created, Program!Unused, Program!Id, Id
  <2>4. Table
    BY <1>2, <2>1, <2>3 DEF Kind
  <2>5. Used = IF Len(kinds) = 1 THEN {0} ELSE {}
    BY <2>1, <2>2, <2>3
  <2>6. open = {chain[i].handle : i \in Used}
    <3>1. CASE Len(kinds) = 1
      BY <2>2, <2>3, <2>5, <3>1
    <3>2. CASE Len(kinds) = 0
      BY <2>3, <2>5, <3>2
    <3> QED
      BY <2>1, <3>1, <3>2
  <2>7. TableIsTrue
    BY <1>1, <2>1, <2>3, <2>5, <2>6
  <2> QED
    BY <2>4, <2>7 DEF TableInv
<1> QED
  BY <1>3, <1>4 DEF Program!Init

\* The steps that leave the table alone and start no loop.
LEMMA TableKept ==
  ASSUME TableInv, UNCHANGED <<chain, open, kinds>>, asyncq' \in Seq(Command),
         loop' = loop \/ loop # "running"
  PROVE  TableInv'
<1>1. Table'
  BY DEF TableInv, Table
<1>2. Used' = Used
  BY DEF Used
<1>3. TableIsTrue'
  BY <1>2 DEF TableInv, TableIsTrue
<1> QED
  BY <1>1, <1>3 DEF TableInv

LEMMA CreateStep ==
  ASSUME TableInv, NEW kind \in Kind, Create(kind), loop = "running", loop' = loop,
         asyncq' \in Seq(Command)
  PROVE  TableInv'
<1>1. CASE UNCHANGED table
  BY <1>1, TableKept DEF table
<1>2. ASSUME NEW i \in Id, FirstFree(i),
             chain' = [chain EXCEPT ![i].type = kind], UNCHANGED <<open, kinds>>
      PROVE  TableInv'
  <2>1. /\ chain[i].handle = 0 /\ DOMAIN chain = Id /\ DOMAIN chain' = Id
        /\ chain'[i] = [chain[i] EXCEPT !.type = kind]
        /\ \A j \in Id : j # i => chain'[j] = chain[j]
    BY <1>2 DEF TableInv, Table, FirstFree
  <2>2. /\ chain'[i].handle = 0 /\ chain'[i] \in [handle : 0 .. Len(kinds), type : Kind \cup {"none"}]
    BY <2>1 DEF TableInv, Table
  <2>3. Used' = Used
    BY <2>1, <2>2 DEF Used
  <2>4. \A j \in Used : chain'[j] = chain[j]
    BY <2>1 DEF Used
  <2>5. Table'
    <3>1. kinds' \in Seq(Kind) /\ open' \subseteq 1 .. Len(kinds') /\ Len(kinds') = Len(kinds)
      BY <1>2 DEF TableInv, Table
    <3>2. \A j \in Id : chain'[j] \in Entry(Len(kinds))
      BY <2>1, <2>2 DEF TableInv, Table, Entry
    <3>3. chain' = [j \in Id |-> chain'[j]]
      BY <1>2 DEF TableInv, Table
    <3> QED
      BY <3>1, <3>2, <3>3, SlotBySlot
  <2>6. \A j \in Used' : chain'[j].handle \in open' /\ kinds'[chain'[j].handle] = chain'[j].type
    BY <1>2, <2>3, <2>4 DEF TableInv, TableIsTrue
  <2>7. \A j, k \in Used' : chain'[j].handle = chain'[k].handle => j = k
    BY <2>3, <2>4 DEF TableInv, TableIsTrue
  <2>8. open' = {chain'[j].handle : j \in Used'}
    BY <1>2, <2>3, <2>4 DEF TableInv, TableIsTrue
  <2> QED
    BY <2>5, <2>6, <2>7, <2>8 DEF TableInv, TableIsTrue
<1>3. ASSUME NEW i \in Id, FirstFree(i),
             kinds' = Append(kinds, kind), open' = open \cup {Len(kinds) + 1},
             chain' = [chain EXCEPT ![i] = [handle |-> Len(kinds) + 1, type |-> kind]]
      PROVE  TableInv'
  <2> DEFINE new == Len(kinds) + 1
  <2>1. /\ Len(kinds) \in Nat /\ Len(kinds') = new /\ kinds' \in Seq(Kind) /\ kinds'[new] = kind
        /\ \A k \in 1 .. Len(kinds) : kinds'[k] = kinds[k]
    BY <1>3 DEF TableInv, Table
  <2>2. /\ chain[i].handle = 0 /\ chain'[i] = [handle |-> new, type |-> kind]
        /\ \A j \in Id : j # i => chain'[j] = chain[j]
    BY <1>3 DEF TableInv, Table, FirstFree
  <2>3. \A j \in Id : chain[j].handle \in 0 .. Len(kinds)
    BY DEF TableInv, Table
  <2>4. Used' = Used \cup {i} /\ i \notin Used
    BY <2>1, <2>2 DEF Used
  <2>5. \A j \in Used : j # i /\ chain'[j] = chain[j] /\ chain[j].handle \in 1 .. Len(kinds)
    BY <2>1, <2>2, <2>3 DEF Used
  <2>6. Table'
    <3>1. \A j \in Id : chain[j] \in Entry(new)
      BY <2>1 DEF TableInv, Table, Entry
    <3>2. chain'[i] \in Entry(new)
      BY <2>1, <2>2 DEF Entry
    <3>3. \A j \in Id : chain'[j] \in Entry(new)
      BY <2>2, <3>1, <3>2
    <3>4. chain' = [j \in Id |-> chain'[j]]
      BY <1>3 DEF TableInv, Table
    <3>5. open' \subseteq 1 .. new
      <4>1. open \subseteq 1 .. Len(kinds)
        BY DEF TableInv, Table
      <4>2. 1 .. Len(kinds) \subseteq 1 .. new /\ new \in 1 .. new
        BY <2>1
      <4> QED
        BY <1>3, <4>1, <4>2
    <3> QED
      BY <2>1, <3>3, <3>4, <3>5, SlotBySlot
  <2>7. \A j \in Used' : chain'[j].handle \in open' /\ kinds'[chain'[j].handle] = chain'[j].type
    BY <1>3, <2>1, <2>2, <2>4, <2>5 DEF TableInv, TableIsTrue
  <2>8. \A j, k \in Used' : chain'[j].handle = chain'[k].handle => j = k
    BY <2>1, <2>2, <2>4, <2>5 DEF TableInv, TableIsTrue
  <2>9. open' = {chain'[j].handle : j \in Used'}
    <3>1. {chain'[j].handle : j \in Used'} = {chain'[j].handle : j \in Used} \cup {new}
      BY <2>2, <2>4
    <3>2. {chain'[j].handle : j \in Used} = {chain[j].handle : j \in Used}
      BY <2>5
    <3> QED
      BY <1>3, <3>1, <3>2 DEF TableInv, TableIsTrue
  <2> QED
    BY <2>6, <2>7, <2>8, <2>9 DEF TableInv, TableIsTrue
<1> QED
  BY <1>1, <1>2, <1>3 DEF Create

LEMMA CloseStep ==
  ASSUME TableInv, NEW id \in Id, Close(id), loop = "running", loop' = loop,
         asyncq' \in Seq(Command)
  PROVE  TableInv'
<1>1. CASE chain[id].handle = 0
  BY <1>1, TableKept DEF Close, table
<1>2. CASE chain[id].handle # 0
  <2>1. /\ open' = open \ {chain[id].handle} /\ kinds' = kinds
        /\ chain' = [chain EXCEPT ![id] = [handle |-> 0, type |-> "none"]]
    BY <1>2 DEF Close, Unused
  <2>2. /\ chain'[id].handle = 0
        /\ \A j \in Id : j # id => chain'[j] = chain[j]
    BY <2>1 DEF TableInv, Table
  <2>3. Used' = Used \ {id} /\ id \in Used
    BY <1>2, <2>2 DEF Used
  <2>4. \A j \in Used' : j \in Used /\ j # id /\ chain'[j] = chain[j]
    BY <2>2, <2>3 DEF Used
  <2>5. \A j, k \in Used : chain[j].handle = chain[k].handle => j = k
    BY DEF TableInv, TableIsTrue
  <2>6. Table'
    <3>1. kinds' \in Seq(Kind) /\ open' \subseteq 1 .. Len(kinds') /\ Len(kinds') = Len(kinds)
      BY <2>1 DEF TableInv, Table
    <3>2. Len(kinds) \in Nat /\ \A j \in Id : chain[j] \in Entry(Len(kinds))
      BY DEF TableInv, Table, Entry
    <3>3. chain' = [j \in Id |-> chain'[j]]
      BY <2>1 DEF TableInv, Table
    <3>4. chain'[id] = [handle |-> 0, type |-> "none"]
      BY <2>1 DEF TableInv, Table
    <3>5. chain'[id] \in Entry(Len(kinds))
      BY <3>2, <3>4 DEF Entry
    <3> QED
      BY <2>2, <3>1, <3>2, <3>3, <3>5, SlotBySlot
  <2>7. open' = {chain'[j].handle : j \in Used'}
    <3>1. {chain'[j].handle : j \in Used'} = {chain[j].handle : j \in Used \ {id}}
      BY <2>3, <2>4
    <3>2. {chain[j].handle : j \in Used \ {id}}
            = {chain[j].handle : j \in Used} \ {chain[id].handle}
      BY <2>3, <2>5
    <3> QED
      BY <2>1, <3>1, <3>2 DEF TableInv, TableIsTrue
  <2>8. \A j \in Used' : chain'[j].handle \in open' /\ kinds'[chain'[j].handle] = chain'[j].type
    BY <2>1, <2>4, <2>7 DEF TableInv, TableIsTrue
  <2>9. \A j, k \in Used' : chain'[j].handle = chain'[k].handle => j = k
    BY <2>4, <2>5
  <2> QED
    BY <2>6, <2>7, <2>8, <2>9 DEF TableInv, TableIsTrue
<1> QED
  BY <1>1, <1>2

LEMMA CloseAllStep ==
  ASSUME TableInv, CloseAll, asyncq' \in Seq(Command)
  PROVE  TableInv'
<1>1. /\ open' = open \ {chain[i].handle : i \in Used} /\ kinds' = kinds
      /\ chain' = [i \in Id |-> IF i \in Used THEN [handle |-> 0, type |-> "none"]
                                       ELSE chain[i]]
  BY DEF CloseAll, Unused
<1>2. open' = {}
  BY <1>1 DEF TableInv, TableIsTrue
<1>3. \A i \in Id : chain'[i].handle = 0
  BY <1>1 DEF Used
<1>4. Used' = {}
  BY <1>3 DEF Used
<1>5. Table'
  <2>1. kinds' \in Seq(Kind) /\ open' \subseteq 1 .. Len(kinds') /\ Len(kinds') = Len(kinds)
    BY <1>1, <1>2 DEF TableInv, Table
  <2>2. Len(kinds) \in Nat /\ \A j \in Id : chain[j] \in Entry(Len(kinds))
    BY DEF TableInv, Table, Entry
  <2>3. [handle |-> 0, type |-> "none"] \in Entry(Len(kinds))
    BY <2>2 DEF Entry
  <2>4. \A j \in Id : chain'[j] \in Entry(Len(kinds))
    BY <1>1, <2>2, <2>3
  <2>5. chain' = [j \in Id |-> chain'[j]]
    BY <1>1
  <2> QED
    BY <2>1, <2>4, <2>5, SlotBySlot
<1> QED
  BY <1>2, <1>4, <1>5 DEF TableInv, TableIsTrue

LEMMA ExecuteStep ==
  ASSUME TableInv, Execute
  PROVE  TableInv'
<1> DEFINE c == Head(asyncq)
<1>1. c \in Command /\ asyncq' \in Seq(Command) /\ loop = "running"
  BY DEF Execute, TableInv, Table
<1>2. /\ c.name \in {"create", "close", "finish", "q"}
      /\ c.name = "create" => c.kind \in Kind
      /\ c.name = "close" => c.id \in Id
  BY <1>1 DEF Command
<1>3. /\ c.name = "create" => Create(c.kind)
      /\ c.name = "close" => Close(c.id)
      /\ c.name = "finish" => Finish(c.id)
      /\ c.name = "q" => CloseAll
      /\ c.name # "q" => loop' = loop
  BY DEF Execute
<1> HIDE DEF c
<1>4. CASE c.name = "create"
  BY <1>1, <1>2, <1>3, <1>4, CreateStep
<1>5. CASE c.name = "close"
  BY <1>1, <1>2, <1>3, <1>5, CloseStep
<1>6. CASE c.name = "finish"
  BY <1>1, <1>3, <1>6, TableKept DEF Finish
<1>7. CASE c.name = "q"
  BY <1>1, <1>3, <1>7, CloseAllStep
<1> QED
  BY <1>2, <1>4, <1>5, <1>6, <1>7

\* Both programs carry the tool's commands out as AiTool has it.
LEMMA SameExecute == Program!Execute => Execute
<1> USE DEF Program!table, table, Program!text, text, Program!Unused, Unused, Program!Used, Used,
            Program!Id, Id
<1>1. ASSUME NEW kind PROVE Program!Create(kind) => Create(kind)
  BY DEF Program!Create, Create, Program!FirstFree, FirstFree
<1>2. ASSUME NEW id PROVE Program!Close(id) => Close(id)
  BY DEF Program!Close, Close
<1>3. ASSUME NEW id PROVE Program!Finish(id) => Finish(id)
  BY DEF Program!Finish, Finish
<1>4. Program!CloseAll => CloseAll
  BY DEF Program!CloseAll, CloseAll
<1> QED
  BY <1>1, <1>2, <1>3, <1>4 DEF Program!Execute, Execute

LEMMA TableStep ==
  ASSUME TableInv, [Program!Next]_(Program!vars)
  PROVE  TableInv'
<1> USE DEF Program!table, Program!text, Program!threads, Program!tool
<1>1. CASE Program!Execute
  BY <1>1, SameExecute, ExecuteStep
<1>2. CASE Program!Timer
  BY <1>2, TableKept DEF Program!Timer, TableInv, Table
<1>3. CASE Program!Callback
  <2>1. UNCHANGED <<chain, open, kinds, asyncq, loop>>
    BY <1>3 DEF Program!Callback, Program!Result, Program!Lock, Program!Free, Program!Strdup,
                Program!Unlock
  <2> QED
    BY <2>1, TableKept DEF TableInv, Table
<1>4. CASE Program!SendCommand
  <2>1. UNCHANGED <<chain, open, kinds, loop>> /\ asyncq' \in Seq(Command)
    BY <1>4 DEF Program!SendCommand, Program!Command, Command, Program!Kind, Kind, Program!Id, Id,
                TableInv, Table
  <2> QED
    BY <2>1, TableKept
<1>5. CASE Program!CompareSent \/ UNCHANGED Program!vars
  <2>1. UNCHANGED <<chain, open, kinds, asyncq, loop>>
    BY <1>5 DEF Program!CompareSent, Program!vars
  <2> QED
    BY <2>1, TableKept DEF TableInv, Table
<1>6. CASE \/ Program!Press \/ Program!Clear
           \/ \E callback \in {"tick", "release"} : Program!Enter(callback)
           \/ Program!UiThread
  <2>1. UNCHANGED <<chain, open, kinds, asyncq, loop>>
    BY <1>6 DEF Program!Press, Program!Clear, Program!Enter, Program!UiThread, Program!UiLock,
                Program!Read, Program!UiUnlock, Program!Show, Program!Request, Program!Finish
  <2> QED
    BY <2>1, TableKept DEF TableInv, Table
<1> QED
  BY <1>1, <1>2, <1>3, <1>4, <1>5, <1>6 DEF Program!Next, Program!LoopThread, Program!MainThread

\* Whatever is created, fails to be created, is closed and created again, for
\* every number of slots: the handle of a slot is an open engine of the slot's
\* type, in no other slot; no open engine is lost to the commands; and a quit
\* closes them all.
THEOREM TableStaysTrue == Program!Spec => []TableIsTrue
<1>1. Program!Init => TableInv
  BY InitTable
<1>2. TableInv /\ [Program!Next]_(Program!vars) => TableInv'
  BY TableStep
<1>3. TableInv => TableIsTrue
  BY DEF TableInv
<1> QED
  BY <1>1, <1>2, <1>3, PTL DEF Program!Spec
=============================================================================
