----------------------------- MODULE RingBuffer -----------------------------
(***************************************************************************)
(* utils/ai_ring_buffer.c: a ring of Size characters, Size a power of two, *)
(* read at tail_index and written at head_index.  One slot always stays    *)
(* unused: head_index = tail_index means empty, so at most Size - 1        *)
(* characters are held.  Queueing into a full ring gives up the oldest     *)
(* character.                                                              *)
(*                                                                         *)
(* The code masks with buffer_mask = Size - 1.  Since Size is a power of   *)
(* two that divides 2^w, i & (Size - 1) of a w-bit size_t is i % Size, also*)
(* where head_index - tail_index wraps below zero.                         *)
(***************************************************************************)
EXTENDS Integers, Sequences

CONSTANTS
  Size,     \* number of slots, buf_size of ai_ring_buffer_init
  Data,     \* the characters
  Garbage,  \* what the storage holds before anything is written
  Nothing   \* the answer of a read of an empty ring

\* ai_ring_buffer_init asserts the first conjunct.
ASSUME SizeAssumption ==
  /\ \E k \in 0 .. Size : Size = 2 ^ k
  /\ Size \in Nat \ {0}

VARIABLES
  buffer,      \* the storage, one character per slot
  head_index,  \* where the next character is written
  tail_index,  \* where the oldest character is read
  out          \* what the latest dequeue answered

vars == <<buffer, head_index, tail_index, out>>

Slot == 0 .. Size - 1

Masked(i) == i % Size

NumItems == Masked(head_index - tail_index)

IsEmpty == head_index = tail_index

IsFull == NumItems = Size - 1

\* The character at a distance i < NumItems from the oldest one.
Peek(i) == buffer[Masked(tail_index + i)]

-----------------------------------------------------------------------------
Init ==
  /\ buffer = [i \in Slot |-> Garbage]
  /\ head_index = 0
  /\ tail_index = 0
  /\ out = Nothing

\* Two slips this function invites: the tail of a full ring not advanced, and
\* the head advanced before the character is placed.
QueueKeepTail(d) ==
  /\ buffer' = [buffer EXCEPT ![head_index] = d]
  /\ head_index' = Masked(head_index + 1)
  /\ UNCHANGED <<tail_index, out>>

QueueAdvanceFirst(d) ==
  /\ tail_index' = IF IsFull THEN Masked(tail_index + 1) ELSE tail_index
  /\ head_index' = Masked(head_index + 1)
  /\ buffer' = [buffer EXCEPT ![head_index'] = d]
  /\ UNCHANGED out

Queue(d) ==
  /\ tail_index' = IF IsFull THEN Masked(tail_index + 1) ELSE tail_index
  /\ buffer' = [buffer EXCEPT ![head_index] = d]
  /\ head_index' = Masked(head_index + 1)
  /\ UNCHANGED out

Dequeue ==
  /\ ~IsEmpty
  /\ out' = buffer[tail_index]
  /\ tail_index' = Masked(tail_index + 1)
  /\ UNCHANGED <<buffer, head_index>>

DequeueEmpty ==
  /\ IsEmpty
  /\ out' = Nothing
  /\ UNCHANGED <<buffer, head_index, tail_index>>

Next == (\E d \in Data : Queue(d)) \/ Dequeue \/ DequeueEmpty

Spec == Init /\ [][Next]_vars

-----------------------------------------------------------------------------
\* Both indices stay inside the storage, whatever the mix of calls.
TypeOK ==
  /\ buffer \in [Slot -> Data \cup {Garbage}]
  /\ head_index \in Slot
  /\ tail_index \in Slot
  /\ out \in Data \cup {Nothing}

\* No reader ever sees storage that was not written: every slot between the
\* tail and the head holds a queued character (ai_ring_buffer_peek and
\* ai_ring_buffer_dequeue read those slots and no others).
HeldIsWritten == \A i \in 0 .. NumItems - 1 : Peek(i) \in Data

\* The ring implements the queue its users rely on: first in first out,
\* holding Size - 1 characters, giving up the oldest one when full.
Contents == [i \in 1 .. NumItems |-> Peek(i - 1)]

Fifo == INSTANCE BoundedFifo
          WITH Capacity <- Size - 1, q <- Contents, got <- out

IsFifo == Fifo!Spec
=============================================================================
