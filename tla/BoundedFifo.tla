---------------------------- MODULE BoundedFifo ----------------------------
(***************************************************************************)
(* What a user of utils/ai_ring_buffer.c is promised: a first-in first-out *)
(* queue of at most Capacity characters that never refuses a character and *)
(* forgets its oldest one instead when it is full.                         *)
(***************************************************************************)
EXTENDS Naturals, Sequences

CONSTANTS
  Capacity,  \* how many characters the queue can hold
  Data,      \* the characters
  Nothing    \* the answer of a read that found the queue empty

VARIABLES
  q,    \* the characters held, the oldest one first
  got   \* the answer of the latest read

vars == <<q, got>>

Init == q = <<>> /\ got = Nothing

(* The last Capacity characters of a sequence at most one character longer. *)
Newest(s) == IF Len(s) > Capacity THEN Tail(s) ELSE s

Put(d) == q' = Newest(Append(q, d)) /\ UNCHANGED got

Get == q # <<>> /\ got' = Head(q) /\ q' = Tail(q)

GetNothing == q = <<>> /\ got' = Nothing /\ UNCHANGED q

Next == (\E d \in Data : Put(d)) \/ Get \/ GetNothing

Spec == Init /\ [][Next]_vars
=============================================================================
