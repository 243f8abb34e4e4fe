----------------------------- MODULE SharedRing -----------------------------
(***************************************************************************)
(* A ring of utils/ai_ring_buffer.c between two threads that do not lock   *)
(* it: send_buffer of src/conversation/volc/ai_volc_conversation.c, which  *)
(* the user's loop fills and the WRITEABLE callback empties.  (The         *)
(* player's ring of ai_conversation.c has the same two parts.)             *)
(*                                                                         *)
(* Module RingBuffer takes every function as one step.  Here a step is one *)
(* access to what the threads share: the storage, head_index, tail_index.  *)
(* An increment loads the index in one step, with the access before it,    *)
(* and stores it in another.  Assumed: accesses take effect in program     *)
(* order, and a character or an index is read and stored whole.            *)
(*                                                                         *)
(* Characters are numbered as they are queued, from 1; 0 is storage that   *)
(* was never written.                                                      *)
(***************************************************************************)
EXTENDS Integers

CONSTANTS
  Size,      \* slots of the ring
  MaxChars,  \* bound on the characters queued
  MaxSend,   \* bound on the length of a message
  MaxFrame   \* what the consumer takes at once (VOLC_BUFFER_MAX_SIZE - LWS_PRE)

ASSUME SharedRingAssumption ==
  Size \in Nat \ {0} /\ MaxChars \in Nat /\ MaxSend \in Nat \ {0} /\ MaxFrame \in Nat \ {0}

VARIABLES
  buffer, head_index, tail_index,
  ppc,         \* where the producer is
  left,        \* characters of its message that are not queued yet
  clear,       \* characters it still has to clear
  pt,          \* the tail it has read
  cpc,         \* where the consumer is
  want,        \* characters it still has to dequeue
  ct,          \* the tail it has read
  data,        \* the character it has read
  \* What the properties need to remember.
  queued,      \* number of the latest character queued
  taken,       \* number of the latest character dequeued
  overflown    \* the producer has found the ring full, now or before

shared == <<buffer, head_index, tail_index>>
producer == <<ppc, left, clear, pt>>
consumer == <<cpc, want, ct, data>>
vars == <<shared, producer, consumer, queued, taken, overflown>>

Slot == 0 .. Size - 1

Masked(i) == i % Size

NumItems == Masked(head_index - tail_index)

IsFullLate == NumItems = Size

IsFull == NumItems = Size - 1

IsEmpty == head_index = tail_index

Init ==
  /\ buffer = [i \in Slot |-> 0] /\ head_index = 0 /\ tail_index = 0
  /\ ppc = "idle" /\ left = 0 /\ clear = 0 /\ pt = 0
  /\ cpc = "idle" /\ want = 0 /\ ct = 0 /\ data = 0
  /\ queued = 0 /\ taken = 0 /\ overflown = FALSE

-----------------------------------------------------------------------------
\* The producer: volc_conversation_send_json_message.

\* A full ring is relieved of as much as will be queued.
Send(len) ==
  /\ ppc = "idle" /\ queued + len <= MaxChars
  /\ left' = len
  /\ overflown' = (overflown \/ IsFull)
  /\ IF IsFull THEN clear' = len /\ ppc' = "clear" ELSE clear' = 0 /\ ppc' = "queue"
  /\ UNCHANGED <<shared, pt, consumer, queued, taken>>

\* ai_ring_buffer_clear_arr: ai_ring_buffer_dequeue on the producer's side.
ClearTest ==
  /\ ppc = "clear"
  /\ IF clear = 0 \/ IsEmpty
     THEN ppc' = "queue" /\ UNCHANGED pt
     ELSE ppc' = "clear_tail" /\ pt' = tail_index
  /\ UNCHANGED <<shared, left, clear, consumer, queued, taken, overflown>>

ClearTail ==
  /\ ppc = "clear_tail"
  /\ tail_index' = Masked(pt + 1)
  /\ clear' = clear - 1
  /\ ppc' = "clear"
  /\ UNCHANGED <<buffer, head_index, left, pt, consumer, queued, taken, overflown>>

\* ai_ring_buffer_queue: make room, place the character, advance the head.
QueueTest ==
  /\ ppc = "queue" /\ left > 0
  /\ pt' = tail_index
  /\ ppc' = IF IsFull THEN "drop" ELSE "place"
  /\ overflown' = (overflown \/ IsFull)
  /\ UNCHANGED <<shared, left, clear, consumer, queued, taken>>

Drop ==
  /\ ppc = "drop"
  /\ tail_index' = Masked(pt + 1)
  /\ ppc' = "place"
  /\ UNCHANGED <<buffer, head_index, left, clear, pt, consumer, queued, taken, overflown>>

Place ==
  /\ ppc = "place"
  /\ buffer' = [buffer EXCEPT ![head_index] = queued + 1]
  /\ ppc' = "advance"
  /\ UNCHANGED <<head_index, tail_index, left, clear, pt, consumer, queued, taken, overflown>>

Advance ==
  /\ ppc = "advance"
  /\ head_index' = Masked(head_index + 1)
  /\ queued' = queued + 1
  /\ left' = left - 1
  /\ ppc' = "queue"
  /\ UNCHANGED <<buffer, tail_index, clear, pt, consumer, taken, overflown>>

Sent ==
  /\ ppc = "queue" /\ left = 0
  /\ ppc' = "idle"
  /\ UNCHANGED <<shared, left, clear, pt, consumer, queued, taken, overflown>>

-----------------------------------------------------------------------------
\* The consumer: LWS_CALLBACK_CLIENT_WRITEABLE.

Writeable ==
  /\ cpc = "idle" /\ NumItems > 0
  /\ want' = IF NumItems > MaxFrame THEN MaxFrame ELSE NumItems
  /\ cpc' = "dequeue"
  /\ UNCHANGED <<shared, producer, ct, data, queued, taken, overflown>>

\* ai_ring_buffer_dequeue_arr: test, read the character, advance the tail.
DequeueTest ==
  /\ cpc = "dequeue"
  /\ cpc' = IF want = 0 \/ IsEmpty THEN "idle" ELSE "read"
  /\ UNCHANGED <<shared, producer, want, ct, data, queued, taken, overflown>>

Read ==
  /\ cpc = "read"
  /\ data' = buffer[tail_index]
  /\ ct' = tail_index
  /\ cpc' = "tail"
  /\ UNCHANGED <<shared, producer, want, queued, taken, overflown>>

AdvanceTail ==
  /\ cpc = "tail"
  /\ tail_index' = Masked(ct + 1)
  /\ taken' = data
  /\ want' = want - 1
  /\ cpc' = "dequeue"
  /\ UNCHANGED <<buffer, head_index, producer, ct, data, queued, overflown>>

-----------------------------------------------------------------------------
Producer ==
  \/ \E len \in 1 .. MaxSend : Send(len)
  \/ ClearTest \/ ClearTail \/ QueueTest \/ Drop \/ Place \/ Advance \/ Sent

Consumer == Writeable \/ DequeueTest \/ Read \/ AdvanceTail

Next == Producer \/ Consumer

Spec == Init /\ [][Next]_vars
-----------------------------------------------------------------------------
\* Every variable has its type; the indices stay inside the storage whatever
\* the threads do to each other.
TypeOK ==
  /\ buffer \in [Slot -> 0 .. queued + 1]
  /\ head_index \in Slot /\ tail_index \in Slot /\ pt \in Slot /\ ct \in Slot
  /\ ppc \in {"idle", "clear", "clear_tail", "queue", "drop", "place", "advance"}
  /\ cpc \in {"idle", "dequeue", "read", "tail"}
  /\ left \in Nat /\ clear \in Nat /\ want \in Nat
  /\ queued \in Nat /\ taken \in Nat /\ data \in Nat /\ overflown \in BOOLEAN

\* Without an overflow the two threads need no lock: the consumer gets the
\* characters in the order in which they were queued, each of them once, and
\* what it has not yet got is in the ring.  (After an overflow nothing of this
\* is left: the producer may pass the consumer between its test and its read,
\* which then reads a slot again or one never written.)
InOrder ==
  ~overflown =>
    /\ NumItems = queued - taken
    /\ cpc = "tail" => data = taken + 1
=============================================================================
