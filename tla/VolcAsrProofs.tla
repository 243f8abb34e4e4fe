---------------------------- MODULE VolcAsrProofs ----------------------------
(***************************************************************************)
(* Theorems about the recogniser's plugin, for every size of its ring, of  *)
(* a frame, of what the recorder writes and of a websocket fragment.       *)
(*                                                                         *)
(* Some of the invariants are inductive beside the types: the count of the *)
(* lws contexts, the parity of the audio ring, the fit of the reassembly   *)
(* buffer, the sender's wakeup.  That no message is torn needs more: where *)
(* a finish has thrown away the first half of a message, nothing may be    *)
(* received on that connection any more (Reassembling).  So does what the  *)
(* API relies on: a semaphore that was posted is the sign of a thread that *)
(* runs, and only is_closed or a failure ends it (Life).                   *)
(***************************************************************************)
EXTENDS VolcAsr, TLAPS

\* What is in the reassembly buffer is what the server has sent so far of a
\* message.
HoldsMessage == Len(recv_buf) = sending /\ (sending > 0 => IsWhole(recv_buf))

\* It is so whenever something may be received.
Reassembling ==
  /\ ~state => wsi = "none"
  /\ wsi = "connecting" => sending = 0 /\ recv_buf = <<>>
  /\ \/ HoldsMessage
     \/ wsi \in {"none", "dead"}
     \/ is_finished /\ tpc \in {"poll", "service"}
     \/ tpc \in {"exit", "cleanup", "gone"}
  /\ ~torn

\* The types these need.
Buffer == recv_buf \in Seq(Labels \cup {More}) /\ recv_buf_size \in Nat /\ sending \in Nat
Counts == contexts \in Int /\ lost \in Nat
Halves == odd \in BOOLEAN /\ cut \in BOOLEAN

Contexts == Counts /\ ContextsDestroyed
Ring == items \in 0 .. RingSize /\ Halves /\ EndsWithSample
Messages == Buffer /\ FragmentsFit /\ Reassembling

\* The engine's variables have their types.
Flags ==
  /\ is_running \in BOOLEAN /\ is_finished \in BOOLEAN /\ is_closed \in BOOLEAN
  /\ cb \in BOOLEAN /\ asyncq \in BOOLEAN /\ freed \in BOOLEAN /\ failed \in BOOLEAN
  /\ state \in BOOLEAN /\ armed \in BOOLEAN /\ torn \in BOOLEAN /\ fed \in BOOLEAN

Names ==
  /\ ipc \in {"wait", "ok", "failed"} /\ upc \in {"no", "half", "done"}
  /\ tpc \in {"new", "poll", "service", "serving", "tail", "ran", "exit", "cleanup", "gone"}
  /\ wsi \in {"none", "connecting", "open", "dead"}
  /\ fault \in {"none", "sem", "freed", "wsi", "no_state"}

Numbers == sem \in Nat /\ connects \in Nat

\* An engine that was handed out is ready, and its thread leaves the loop only
\* for a reason.
Life ==
  /\ tpc \notin {"new", "gone"} => asyncq
  /\ (sem > 0 \/ ipc = "ok") =>
       tpc # "new" /\ (tpc \in {"poll", "service", "serving", "tail"} => is_running)
  /\ freed => tpc = "gone"
  /\ is_closed => upc = "done"
  /\ tpc \in {"exit", "cleanup", "gone"} => failed \/ is_closed

\* seq tells what the connection has been sent.
Requests ==
  /\ seq \in 0 .. 2 /\ audio \in BOOLEAN
  /\ requests = (IF seq = 2 THEN 1 ELSE 0)
  /\ audio => seq = 2
  /\ wsi # "none" => seq # 0

Engine == Flags /\ Names /\ Numbers /\ Life /\ Requests /\ SenderAwake

IInv == Contexts /\ Ring /\ Messages /\ Engine

-----------------------------------------------------------------------------
\* What the ring holds after a write.
LEMMA QueueFits ==
  ASSUME items \in 0 .. RingSize, NEW len \in Chunks
  PROVE  /\ Room(len) \in Nat /\ Excess(len) \in Nat
         /\ Room(len) + len - Excess(len) \in 0 .. RingSize
         /\ len \in Nat /\ len % 2 = 0
<1>1. len \in 1 .. RingSize /\ len % 2 = 0 /\ RingSize \in Nat
  BY VolcAsrAssumption
<1>2. Room(len) \in 0 .. RingSize
  BY <1>1 DEF Room
<1> QED
  BY <1>1, <1>2 DEF Excess

\* The buffer after a fragment.
LEMMA GrownFits ==
  ASSUME recv_buf \in Seq(Labels \cup {More}), recv_buf_size \in Nat, sending \in Nat,
         NEW label \in Labels, NEW len \in 1 .. MaxPiece
  PROVE  /\ Grown(len) \in Nat
         /\ Received(label, len) \in Seq(Labels \cup {More})
         /\ Len(Received(label, len)) = Len(recv_buf) + len
         /\ FragmentsFit => Len(Received(label, len)) <= Grown(len)
<1>1. len \in Nat /\ len > 0
  BY VolcEngineAssumption
<1>2. Piece(label, len) \in Seq(Labels \cup {More}) /\ Len(Piece(label, len)) = len
  BY <1>1 DEF Piece
<1>3. Len(recv_buf) \in Nat
  OBVIOUS
<1>4. Grown(len) \in Nat
  BY <1>1, <1>3 DEF Grown, Remaining
<1>5. /\ Received(label, len) \in Seq(Labels \cup {More})
      /\ Len(Received(label, len)) = Len(recv_buf) + len
  BY <1>2 DEF Received
<1>6. FragmentsFit => Len(recv_buf) + len <= Grown(len)
  BY <1>1, <1>3 DEF FragmentsFit, Grown, Remaining
<1> QED
  BY <1>4, <1>5, <1>6

\* A message that has begun well goes on well.
LEMMA ReceivedIsWhole ==
  ASSUME recv_buf \in Seq(Labels \cup {More}), sending \in Nat, HoldsMessage,
         NEW label \in Labels, NEW len \in 1 .. MaxPiece
  PROVE  IsWhole(Received(label, len)) /\ Len(Received(label, len)) = sending + len
<1>1. len \in Nat /\ len > 0
  BY VolcEngineAssumption
<1>2. Piece(label, len) \in Seq(Labels \cup {More}) /\ Len(Piece(label, len)) = len
  BY <1>1 DEF Piece
<1>3. Len(Received(label, len)) = sending + len
  BY <1>1, <1>2 DEF Received, HoldsMessage
<1>4. \A i \in 1 .. sending + len :
        Received(label, len)[i] = IF i <= sending THEN recv_buf[i]
                                  ELSE Piece(label, len)[i - sending]
  BY <1>1, <1>2 DEF Received, HoldsMessage
<1>5. Received(label, len)[1] \in Labels
  <2>1. CASE sending = 0
    <3>1. Received(label, len)[1] = Piece(label, len)[1]
      BY <1>1, <1>4, <2>1
    <3> QED
      BY <3>1, <1>1, <2>1 DEF Piece
  <2>2. CASE sending > 0
    BY <1>1, <1>4, <2>2 DEF HoldsMessage, IsWhole
  <2> QED
    BY <2>1, <2>2
<1>6. ASSUME NEW i \in 2 .. sending + len
      PROVE  Received(label, len)[i] = More
  <2>1. CASE i <= sending
    <3>1. i \in 2 .. Len(recv_buf) /\ sending > 0
      BY <1>6, <2>1 DEF HoldsMessage
    <3> QED
      BY <3>1, <1>1, <1>4, <2>1 DEF HoldsMessage, IsWhole
  <2>2. CASE i > sending
    <3>1. i - sending \in 1 .. len /\ (sending = 0 => i - sending # 1)
      BY <1>1, <1>6, <2>2
    <3>2. Piece(label, len)[i - sending] = More
      BY <3>1 DEF Piece
    <3> QED
      BY <3>2, <1>1, <1>4, <2>2
  <2> QED
    BY <2>1, <2>2
<1> QED
  BY <1>3, <1>5, <1>6 DEF IsWhole

-----------------------------------------------------------------------------
\* What the steps do to the connection, to the buffer and to the ring.

\* The steps of the thread that serve nothing, and the calls that are no session's,
\* leave all of it alone.
LEMMA EngineStepsKeep ==
  ASSUME EngineSteps
  PROVE  /\ UNCHANGED <<state, contexts, lost, recv_buf, recv_buf_size, sending, torn>>
         /\ UNCHANGED <<items, odd, cut>>
         /\ wsi' = wsi \/ (wsi = "open" /\ wsi' = "dead")
<1> USE DEF EngineSteps, ring, connection, reassembly
<1>1. CASE InitReturns \/ InitTimesOut \/ ThreadStarts
  BY <1>1 DEF InitReturns, InitTimesOut, ThreadStarts
<1>2. CASE EngineThread
  BY <1>2 DEF EngineThread, EndPoll, NothingToServe, EndService, Tail_, Runs, ExitPosts
<1>3. CASE UsesFreedEngine \/ SetCallback \/ UninitAsr \/ UninitCloses
  BY <1>3 DEF UsesFreedEngine, SetCallback, UninitAsr, UninitForgets, UninitCloses
<1>4. CASE Closed
  BY <1>4 DEF Closed, Serving
<1> QED
  BY <1>1, <1>2, <1>3, <1>4

\* The thread takes the connection down with everything on it.
LEMMA DestroysAll ==
  ASSUME Destroys
  PROVE  /\ UNCHANGED <<lost, torn>> /\ state' = FALSE
         /\ contexts' = IF state THEN contexts - 1 ELSE contexts
         /\ \/ state /\ recv_buf' = <<>> /\ recv_buf_size' = 0 /\ sending' = 0 /\ wsi' = "none"
               /\ items' = 0 /\ odd' = FALSE /\ cut' = FALSE
            \/ ~state /\ UNCHANGED <<recv_buf, recv_buf_size, sending, items, odd, cut, wsi>>
<1> USE DEF Destroys, ring, connection, reassembly, NoConnection, EmptyRing, DestroyState
<1>1. CASE StopService
  BY <1>1 DEF StopService, Stopping
<1>2. CASE CleanUp
  BY <1>2 DEF CleanUp
<1> QED
  BY <1>1, <1>2

\* What lws reports leaves the context alone.
LEMMA ServiceKeepsContext ==
  ASSUME Service
  PROVE  UNCHANGED <<state, contexts, lost>>
<1> USE DEF connection
<1>1. CASE EstablishedAsr
  BY <1>1 DEF EstablishedAsr, Established
<1>2. CASE Writeable
  BY <1>2 DEF Writeable
<1>3. ASSUME NEW ends \in BOOLEAN, ConnectionErrorAsr(ends) \/ ServiceFailsAsr(ends)
      PROVE  UNCHANGED <<state, contexts, lost>>
  BY <1>3 DEF ConnectionErrorAsr, ConnectionError, ServiceFailsAsr, ServiceFails
<1>4. ASSUME NEW label, NEW len, ReceivePartAsr(label, len)
      PROVE  UNCHANGED <<state, contexts, lost>>
  BY <1>4 DEF ReceivePartAsr, ReceivePart
<1>5. ASSUME NEW label, NEW len, NEW ends, ReceiveLastAsr(label, len, ends)
      PROVE  UNCHANGED <<state, contexts, lost>>
  BY <1>5 DEF ReceiveLastAsr, ReceiveLast
<1> QED
  BY <1>1, <1>2, <1>3, <1>4, <1>5 DEF Service

-----------------------------------------------------------------------------
\* Contexts are made by a start, destroyed with the connection, and lost by the
\* start that overwrites the pointer to them.
LEMMA ContextsStep ==
  ASSUME Contexts, [Next]_vars
  PROVE  Contexts'
<1> USE DEF Contexts, Counts, ContextsDestroyed
<1>1. CASE EngineSteps
  BY <1>1, EngineStepsKeep
<1>2. CASE Destroys
  BY <1>2, DestroysAll
<1>3. CASE Start
  BY <1>3 DEF Start, Connect, Forget
<1>4. CASE StartFails
  BY <1>4 DEF StartFails, ConnectFails, Forget, connection
<1>5. CASE (\E len \in Chunks : WriteAudio(len)) \/ Finish
  BY <1>5 DEF WriteAudio, Finish, connection
<1>6. CASE Service
  BY <1>6, ServiceKeepsContext
<1>7. CASE UNCHANGED vars
  BY <1>7 DEF vars, engineVars, connection
<1> QED
  BY <1>1, <1>2, <1>3, <1>4, <1>5, <1>6, <1>7 DEF Next, Calls

-----------------------------------------------------------------------------
\* How a write changes the parity of the fill.
LEMMA Parity ==
  ASSUME NEW r \in Nat, NEW l \in Nat, NEW e \in Nat, l % 2 = 0, r + l - e \in Nat
  PROVE  (r + l - e) % 2 = 1 <=> ~(r % 2 = 1 <=> e % 2 = 1)
<1>1. /\ r = 2 * (r \div 2) + (r % 2) /\ r % 2 \in {0, 1} /\ r \div 2 \in Int
      /\ l = 2 * (l \div 2) /\ l \div 2 \in Int
      /\ e = 2 * (e \div 2) + (e % 2) /\ e % 2 \in {0, 1} /\ e \div 2 \in Int
  OBVIOUS
<1> DEFINE h == (r \div 2) + (l \div 2) - (e \div 2)
<1>2. h \in Int /\ r + l - e = 2 * h + (r % 2) - (e % 2)
  BY <1>1
<1> HIDE DEF h
<1>3. CASE r % 2 = e % 2
  <2>1. r + l - e = 2 * h
    BY <1>1, <1>2, <1>3
  <2>2. (2 * h) % 2 = 0
    BY <1>2
  <2> QED
    BY <1>1, <1>3, <2>1, <2>2
<1>4. CASE r % 2 = 1 /\ e % 2 = 0
  <2>1. r + l - e = 2 * h + 1
    BY <1>2, <1>4
  <2>2. (2 * h + 1) % 2 = 1
    BY <1>2
  <2> QED
    BY <1>4, <2>1, <2>2
<1>5. CASE r % 2 = 0 /\ e % 2 = 1
  <2>1. r + l - e = 2 * (h - 1) + 1
    BY <1>2, <1>5
  <2>2. (2 * (h - 1) + 1) % 2 = 1
    BY <1>2
  <2> QED
    BY <1>5, <2>1, <2>2
<1> QED
  BY <1>1, <1>3, <1>4, <1>5

\* A sample that an overflow tears is the oldest.
LEMMA QueueStep ==
  ASSUME Ring, NEW len \in Chunks, WriteAudio(len)
  PROVE  Ring'
<1> DEFINE torn_sample == Excess(len) % 2 = 1
<1>1. items' = Room(len) + len - Excess(len) /\ odd' = (odd # torn_sample) /\ cut' = cut
  BY DEF WriteAudio, Queue
<1>2. /\ Room(len) \in Nat /\ Excess(len) \in Nat /\ len \in Nat /\ len % 2 = 0
      /\ items' \in 0 .. RingSize /\ items \in Nat
  BY <1>1, QueueFits, VolcAsrAssumption DEF Ring
<1>3. Room(len) % 2 = items % 2
  BY <1>2 DEF Room, Ring
<1>4. items' % 2 = 1 <=> ~(items % 2 = 1 <=> torn_sample)
  <2>1. Room(len) + len - Excess(len) \in Nat
    BY <1>1, <1>2, VolcAsrAssumption
  <2>2. (Room(len) + len - Excess(len)) % 2 = 1 <=> ~(Room(len) % 2 = 1 <=> Excess(len) % 2 = 1)
    BY <1>2, <2>1, Parity
  <2> QED
    BY <1>1, <1>3, <2>2
<1>5. ~cut /\ (odd <=> items % 2 = 1) /\ odd \in BOOLEAN /\ cut \in BOOLEAN
  BY DEF Ring, Halves, EndsWithSample
<1>6. odd' <=> ~(odd <=> torn_sample)
  BY Zenon, <1>1, <1>5
<1>7. odd' \in BOOLEAN /\ cut' \in BOOLEAN /\ ~cut'
  BY Zenon, <1>1, <1>5
<1>8. odd' <=> items' % 2 = 1
  BY Zenon, <1>4, <1>5, <1>6
<1> QED
  BY Zenon, <1>2, <1>7, <1>8 DEF Ring, Halves, EndsWithSample

LEMMA RingStep ==
  ASSUME Ring, [Next]_vars
  PROVE  Ring'
<1> USE DEF Ring, Halves, EndsWithSample
<1>1. ASSUME UNCHANGED <<items, odd, cut>>
      PROVE  Ring'
  BY <1>1
<1>2. ASSUME items' = 0, odd' = FALSE, cut' = FALSE
      PROVE  Ring'
  <2>1. items' \in 0 .. RingSize /\ items' % 2 # 1
    BY <1>2, VolcAsrAssumption
  <2> QED
    BY Zenon, <1>2, <2>1
<1>3. CASE EngineSteps \/ Destroys
  BY <1>1, <1>2, <1>3, EngineStepsKeep, DestroysAll
<1>4. CASE Start \/ StartFails \/ Finish
  <2>1. UNCHANGED <<items, odd, cut>> \/ (items' = 0 /\ odd' = FALSE /\ cut' = FALSE)
    BY <1>4 DEF Start, StartFails, Finish, NewConnection, NoConnection, EmptyRing, Discard, ring
  <2> QED
    BY <1>1, <1>2, <2>1
<1>5. CASE \E len \in Chunks : WriteAudio(len)
  BY <1>5, QueueStep
<1>6. CASE Writeable
  <2>1. UNCHANGED <<odd, cut>>
        /\ (items' = items \/ (items >= FrameSize /\ items' = items - FrameSize))
    BY <1>6 DEF Writeable, InitialRequest, AudioMessage, ring
  <2>2. items' \in 0 .. RingSize /\ items' % 2 = items % 2
    BY <2>1, VolcAsrAssumption
  <2> QED
    BY <2>1, <2>2
<1>7. CASE EstablishedAsr
  BY <1>1, <1>7 DEF EstablishedAsr
<1>8. ASSUME NEW ends \in BOOLEAN, ConnectionErrorAsr(ends) \/ ServiceFailsAsr(ends)
      PROVE  Ring'
  BY <1>1, <1>2, <1>8 DEF ConnectionErrorAsr, ServiceFailsAsr, Answer, Discard, EmptyRing, ring
<1>9. ASSUME NEW label, NEW len, ReceivePartAsr(label, len)
      PROVE  Ring'
  BY <1>1, <1>9 DEF ReceivePartAsr, ring
<1>10. ASSUME NEW label, NEW len, NEW ends, ReceiveLastAsr(label, len, ends)
       PROVE  Ring'
  BY <1>1, <1>2, <1>10 DEF ReceiveLastAsr, Answer, Discard, EmptyRing, ring
<1>11. CASE UNCHANGED vars
  BY <1>1, <1>11 DEF vars, ring
<1> QED
  BY <1>3, <1>4, <1>5, <1>6, <1>7, <1>8, <1>9, <1>10, <1>11 DEF Next, Calls, Service

-----------------------------------------------------------------------------
\* What lws reports on an open connection finds a message, or nothing, in the
\* buffer: a finished one is destroyed before the next lws_service.
LEMMA OpenHoldsMessage ==
  ASSUME Messages, Serving, wsi = "open"
  PROVE  HoldsMessage
BY DEF Messages, Reassembling, Serving

\* A buffer that was emptied, and one that was left alone.
LEMMA Emptied ==
  ASSUME Buffer, FragmentsFit, recv_buf' = <<>>, recv_buf_size' \in Nat, sending' \in Nat
  PROVE  Buffer' /\ FragmentsFit' /\ (sending' = 0 => HoldsMessage')
<1>1. Len(recv_buf') = 0 /\ recv_buf' \in Seq(Labels \cup {More})
  BY SMT
<1> QED
  BY <1>1 DEF Buffer, FragmentsFit, HoldsMessage

LEMMA Kept ==
  ASSUME Buffer, FragmentsFit, UNCHANGED <<recv_buf, recv_buf_size, sending>>
  PROVE  Buffer' /\ FragmentsFit' /\ (HoldsMessage' <=> HoldsMessage)
BY DEF Buffer, FragmentsFit, HoldsMessage, IsWhole

\* The thread's round: from a finish to the destruction of the connection nothing
\* is received.
LEMMA RoundStep ==
  ASSUME Messages, EngineSteps
  PROVE  Messages'
<1>1. /\ UNCHANGED <<state, recv_buf, recv_buf_size, sending, torn>>
      /\ wsi' = wsi \/ (wsi = "open" /\ wsi' = "dead")
  BY EngineStepsKeep
<1>2. Buffer' /\ FragmentsFit' /\ (HoldsMessage' <=> HoldsMessage)
  BY <1>1, Kept DEF Messages
<1>3. \/ wsi' \in {"none", "dead"} \/ HoldsMessage'
      \/ is_finished' /\ tpc' \in {"poll", "service"}
      \/ tpc' \in {"exit", "cleanup", "gone"}
  <2> USE DEF Messages, Reassembling
  <2>1. CASE Closed
    BY <2>1 DEF Closed
  <2>2. CASE wsi \in {"none", "dead"}
    BY <1>1, <2>2
  <2>3. CASE HoldsMessage
    BY <1>2, <2>3
  <2>4. CASE is_finished /\ tpc \in {"poll", "service"} /\ wsi \notin {"none", "dead"}
    <3>1. state
      BY <2>4
    <3>2. CASE EngineThread
      BY <2>4, <3>1, <3>2 DEF EngineThread, EndPoll, NothingToServe, Stopping, EndService,
                              Tail_, Runs, ExitPosts, flags
    <3>3. CASE InitReturns \/ InitTimesOut \/ ThreadStarts
      BY <2>4, <3>3 DEF InitReturns, InitTimesOut, ThreadStarts, life, flags
    <3>4. CASE UsesFreedEngine \/ SetCallback \/ UninitAsr \/ UninitCloses
      BY <2>4, <3>4 DEF UsesFreedEngine, SetCallback, UninitAsr, UninitForgets, UninitCloses,
                        life, flags
    <3> QED
      BY <2>1, <3>2, <3>3, <3>4 DEF EngineSteps
  <2>5. CASE tpc \in {"exit", "cleanup", "gone"} /\ wsi \notin {"none", "dead"}
    <3>2. CASE EngineThread
      BY <2>5, <3>2 DEF EngineThread, EndPoll, NothingToServe, EndService, Tail_, LoopTest, Runs,
                        ExitPosts
    <3>3. CASE InitReturns \/ InitTimesOut \/ ThreadStarts
      BY <2>5, <3>3 DEF InitReturns, InitTimesOut, ThreadStarts
    <3>4. CASE UsesFreedEngine \/ SetCallback \/ UninitAsr \/ UninitCloses
      BY <2>5, <3>4 DEF UsesFreedEngine, SetCallback, UninitAsr, UninitForgets, UninitCloses, life
    <3> QED
      BY <2>1, <3>2, <3>3, <3>4 DEF EngineSteps
  <2> QED
    BY <2>2, <2>3, <2>4, <2>5
<1> QED
  BY <1>1, <1>2, <1>3 DEF Messages, Reassembling

LEMMA CallsStep ==
  ASSUME Messages, Calls \/ Destroys
  PROVE  Messages'
<1> USE DEF Messages
<1>1. CASE Start
  <2>1. /\ recv_buf' = <<>> /\ recv_buf_size' = 0 /\ sending' = 0
        /\ state' = TRUE /\ wsi' = "connecting" /\ torn' = torn
    BY <1>1 DEF Start, Connect
  <2>2. Buffer' /\ FragmentsFit' /\ HoldsMessage'
    BY <2>1, Emptied
  <2> QED
    BY <2>1, <2>2 DEF Reassembling
<1>2. CASE StartFails
  <2>1. CASE UNCHANGED <<connection, reassembly>>
    <3>1. UNCHANGED <<recv_buf, recv_buf_size, sending, torn, state, wsi, tpc, is_finished>>
      BY <1>2, <2>1 DEF StartFails, connection, reassembly, life, flags
    <3>2. Buffer' /\ FragmentsFit' /\ (HoldsMessage' <=> HoldsMessage)
      BY <3>1, Kept
    <3> QED
      BY <3>1, <3>2 DEF Reassembling
  <2>2. CASE ~UNCHANGED <<connection, reassembly>>
    <3>1. /\ recv_buf' = <<>> /\ recv_buf_size' = 0 /\ sending' = 0 /\ torn' = torn
          /\ wsi' = "none"
      BY <1>2, <2>2 DEF StartFails, ConnectFails
    <3>2. Buffer' /\ FragmentsFit'
      BY <3>1, Emptied
    <3> QED
      BY <3>1, <3>2 DEF Reassembling
  <2> QED
    BY <2>1, <2>2
<1>3. ASSUME NEW len \in Chunks, WriteAudio(len)
      PROVE  Messages'
  <2>1. UNCHANGED <<recv_buf, recv_buf_size, sending, torn, state, wsi, tpc, is_finished>>
    BY <1>3 DEF WriteAudio, connection, reassembly, life, flags
  <2>2. Buffer' /\ FragmentsFit' /\ (HoldsMessage' <=> HoldsMessage)
    BY <2>1, Kept
  <2> QED
    BY <2>1, <2>2 DEF Reassembling
<1>4. CASE Finish
  <2>1. /\ is_finished' = TRUE /\ tpc = "poll" /\ tpc' = tpc
        /\ UNCHANGED <<recv_buf_size, sending, torn, state, wsi>>
        /\ recv_buf' = <<>> \/ recv_buf' = recv_buf
    BY <1>4 DEF Finish, Handling, Discard, connection, reassembly, life
  <2>2. Buffer' /\ FragmentsFit'
    BY <2>1, Emptied, Kept DEF Buffer
  <2> QED
    BY <2>1, <2>2 DEF Reassembling
<1>5. CASE Destroys
  <2>1. /\ state' = FALSE /\ torn' = torn /\ wsi' = "none"
        /\ \/ recv_buf' = <<>> /\ recv_buf_size' = 0 /\ sending' = 0
           \/ UNCHANGED <<recv_buf, recv_buf_size, sending>>
    BY <1>5, DestroysAll DEF Reassembling
  <2>2. Buffer' /\ FragmentsFit'
    BY <2>1, Emptied, Kept
  <2> QED
    BY <2>1, <2>2 DEF Reassembling
<1> QED
  BY <1>1, <1>2, <1>3, <1>4, <1>5 DEF Calls

LEMMA ServiceStep ==
  ASSUME Messages, Service
  PROVE  Messages'
<1> USE DEF Messages
<1>1. CASE EstablishedAsr
  <2>1. /\ UNCHANGED <<recv_buf, recv_buf_size, sending, torn, state>>
        /\ wsi = "connecting" /\ wsi' = "open"
    BY <1>1 DEF EstablishedAsr, Established, reassembly
  <2>2. Buffer' /\ FragmentsFit' /\ HoldsMessage'
    BY <2>1, Emptied, Kept DEF Buffer, Reassembling
  <2> QED
    BY <2>1, <2>2 DEF Reassembling
<1>2. CASE Writeable
  <2>1. /\ UNCHANGED <<recv_buf, recv_buf_size, sending, torn, state, wsi>>
        /\ Serving /\ wsi = "open"
    BY <1>2 DEF Writeable, reassembly, connection
  <2>2. Buffer' /\ FragmentsFit' /\ HoldsMessage'
    BY <2>1, OpenHoldsMessage, Kept
  <2> QED
    BY <2>1, <2>2 DEF Reassembling
<1>3. ASSUME NEW ends \in BOOLEAN, ConnectionErrorAsr(ends)
      PROVE  Messages'
  <2>1. /\ UNCHANGED <<recv_buf_size, sending, torn, state>>
        /\ wsi = "connecting" /\ wsi' = "dead"
        /\ recv_buf' = <<>> \/ recv_buf' = recv_buf
    BY <1>3 DEF ConnectionErrorAsr, ConnectionError, Answer, Discard
  <2>2. Buffer' /\ FragmentsFit'
    BY <2>1, Emptied, Kept DEF Buffer
  <2> QED
    BY <2>1, <2>2 DEF Reassembling
<1>4. ASSUME NEW ends \in BOOLEAN, ServiceFailsAsr(ends)
      PROVE  Messages'
  <2>1. /\ UNCHANGED <<recv_buf_size, sending, torn, state, wsi>> /\ tpc' = "exit"
        /\ recv_buf' = <<>> \/ recv_buf' = recv_buf
    BY <1>4 DEF ServiceFailsAsr, ServiceFails, Answer, Discard, connection
  <2>2. Buffer' /\ FragmentsFit'
    BY <2>1, Emptied, Kept DEF Buffer
  <2> QED
    BY <2>1, <2>2 DEF Reassembling
<1>5. ASSUME NEW label \in Labels, NEW len \in 1 .. MaxPiece, ReceivePartAsr(label, len)
      PROVE  Messages'
  <2>1. /\ recv_buf_size' = Grown(len) /\ recv_buf' = Received(label, len)
        /\ sending' = sending + len /\ UNCHANGED <<torn, state, wsi>>
        /\ Serving /\ wsi = "open"
    BY <1>5 DEF ReceivePartAsr, ReceivePart, connection
  <2>2. len \in Nat
    BY VolcEngineAssumption
  <2>3. Buffer' /\ FragmentsFit'
    BY <2>1, <2>2, GrownFits DEF Buffer, FragmentsFit
  <2>4. HoldsMessage'
    BY <2>1, OpenHoldsMessage, ReceivedIsWhole DEF Buffer, HoldsMessage, IsWhole
  <2> QED
    BY <2>1, <2>3, <2>4 DEF Reassembling
<1>6. ASSUME NEW label \in Labels, NEW len \in 1 .. MaxPiece,
             NEW ends \in BOOLEAN,
             ReceiveLastAsr(label, len, ends)
      PROVE  Messages'
  <2>1. /\ recv_buf_size' = Grown(len) /\ recv_buf' = <<>> /\ sending' = 0
        /\ torn' = (torn \/ ~IsWhole(Received(label, len))) /\ UNCHANGED <<state, wsi>>
        /\ Serving /\ wsi = "open"
    BY <1>6 DEF ReceiveLastAsr, ReceiveLast, connection
  <2>2. ~torn'
    <3>1. IsWhole(Received(label, len))
      BY <2>1, OpenHoldsMessage, ReceivedIsWhole DEF Buffer
    <3> QED
      BY <2>1, <3>1 DEF Reassembling
  <2>3. Buffer' /\ FragmentsFit' /\ HoldsMessage'
    BY <2>1, GrownFits, Emptied DEF Buffer
  <2> QED
    BY <2>1, <2>2, <2>3 DEF Reassembling
<1> QED
  BY <1>1, <1>2, <1>3, <1>4, <1>5, <1>6 DEF Service

LEMMA MessagesStep ==
  ASSUME Messages, [Next]_vars
  PROVE  Messages'
<1>1. CASE UNCHANGED vars
  <2>1. UNCHANGED <<recv_buf, recv_buf_size, sending, torn, state, wsi, tpc, is_finished>>
    BY <1>1 DEF vars, engineVars, life, flags, connection, reassembly
  <2>2. Buffer' /\ FragmentsFit' /\ (HoldsMessage' <=> HoldsMessage)
    BY <2>1, Kept DEF Messages
  <2> QED
    BY <2>1, <2>2 DEF Messages, Reassembling
<1> QED
  BY <1>1, RoundStep, CallsStep, ServiceStep DEF Next

-----------------------------------------------------------------------------
\* What the calls and what lws reports leave alone of the engine.

LEMMA CallsFrame ==
  ASSUME Calls
  PROVE  /\ tpc = "poll" /\ UNCHANGED <<life, is_running, is_closed, cb, torn>>
         /\ is_finished' \in {is_finished, TRUE, FALSE} /\ state' \in {state, TRUE, FALSE}
         /\ armed' \in {armed, TRUE, FALSE} /\ fed' \in {fed, TRUE, FALSE}
         /\ wsi' \in {wsi, "none", "connecting"} /\ fault' \in {fault, "wsi"}
         /\ connects' \in {connects, connects + 1}
<1> USE DEF Handling
<1>1. CASE Start
  BY <1>1 DEF Start, Connect, NewConnection
<1>2. CASE StartFails
  <2>1. /\ tpc = "poll" /\ UNCHANGED <<life, is_running, is_finished, is_closed, cb>>
    BY <1>2 DEF StartFails, flags
  <2>2. fed' \in {fed, FALSE}
    BY <1>2 DEF StartFails, NoConnection, ring
  <2>3. /\ UNCHANGED torn /\ state' \in {state, FALSE} /\ armed' \in {armed, FALSE}
        /\ wsi' \in {wsi, "none"} /\ fault' \in {fault, "wsi"} /\ connects' = connects
    BY <1>2 DEF StartFails, ConnectFails, connection, reassembly
  <2> QED
    BY <2>1, <2>2, <2>3
<1>3. ASSUME NEW len \in Chunks, WriteAudio(len)
      PROVE  /\ tpc = "poll" /\ UNCHANGED <<life, flags, cb, connection, torn>>
             /\ armed' \in {armed, TRUE} /\ fed' = TRUE /\ fault' \in {fault, "wsi"}
  BY <1>3 DEF WriteAudio, Arm, reassembly
<1>4. CASE Finish
  <2>1. /\ tpc = "poll" /\ UNCHANGED <<life, is_running, is_closed, cb, connection, torn>>
        /\ is_finished' = TRUE /\ armed' \in {armed, TRUE} /\ fault' \in {fault, "wsi"}
        /\ fed' = fed
    BY <1>4 DEF Finish, Discard, Arm, reassembly, ring
  <2> QED
    BY <2>1 DEF connection
<1> QED
  BY <1>1, <1>2, <1>3, <1>4 DEF Calls, flags, connection

LEMMA ServiceFrame ==
  ASSUME Service
  PROVE  /\ Serving
         /\ UNCHANGED <<ipc, upc, sem, asyncq, freed, is_running, is_closed, cb, state, connects>>
         /\ (tpc' = "serving" /\ failed' = failed) \/ (tpc' = "exit" /\ failed' = TRUE)
         /\ is_finished' \in {is_finished, TRUE} /\ fault' \in {fault, "wsi"}
<1>1. CASE EstablishedAsr
  BY <1>1 DEF EstablishedAsr, Established, flags
<1>2. CASE Writeable
  BY <1>2 DEF Writeable, flags, connection
<1>3. ASSUME NEW ends \in BOOLEAN, ConnectionErrorAsr(ends)
      PROVE  /\ Serving
             /\ UNCHANGED <<ipc, upc, sem, asyncq, freed, is_running, is_closed, cb, state, connects>>
             /\ tpc' = "serving" /\ failed' = failed
             /\ is_finished' \in {is_finished, TRUE} /\ fault' = fault
  BY <1>3 DEF ConnectionErrorAsr, ConnectionError, Answer
<1>4. ASSUME NEW ends \in BOOLEAN, ServiceFailsAsr(ends)
      PROVE  /\ Serving
             /\ UNCHANGED <<ipc, upc, sem, asyncq, freed, is_running, is_closed, cb, state, connects>>
             /\ tpc' = "exit" /\ failed' = TRUE
             /\ is_finished' \in {is_finished, TRUE} /\ fault' \in {fault, "wsi"}
  BY <1>4 DEF ServiceFailsAsr, ServiceFails, Answer, Arm, connection
<1>5. ASSUME NEW label, NEW len, ReceivePartAsr(label, len)
      PROVE  /\ Serving
             /\ UNCHANGED <<ipc, upc, sem, asyncq, freed, is_running, is_closed, cb, state, connects>>
             /\ tpc' = "serving" /\ failed' = failed
             /\ UNCHANGED <<is_finished, fault>>
  BY <1>5 DEF ReceivePartAsr, ReceivePart, flags, connection
<1>6. ASSUME NEW label, NEW len, NEW ends, ReceiveLastAsr(label, len, ends)
      PROVE  /\ Serving
             /\ UNCHANGED <<ipc, upc, sem, asyncq, freed, is_running, is_closed, cb, state, connects>>
             /\ tpc' = "serving" /\ failed' = failed
             /\ is_finished' \in {is_finished, TRUE} /\ fault' \in {fault, "wsi"}
  BY <1>6 DEF ReceiveLastAsr, ReceiveLast, Answer, Arm, connection
<1> QED
  BY <1>1, <1>2, <1>3, <1>4, <1>5, <1>6 DEF Service

-----------------------------------------------------------------------------
\* The engine's life.

LEMMA NumbersStep ==
  ASSUME Flags, Numbers, [Next]_vars
  PROVE  Numbers'
<1>1. CASE EngineSteps
  <2>1. connects' = connects /\ sem' \in Nat
    <3> USE DEF EngineSteps, Numbers, life, connection
    <3>1. CASE InitReturns \/ InitTimesOut \/ ThreadStarts
      BY <3>1 DEF InitReturns, InitTimesOut, ThreadStarts
    <3>2. CASE EngineThread
      BY <3>2 DEF EngineThread, EndPoll, NothingToServe, EndService, Tail_, Runs, ExitPosts
    <3>3. CASE UsesFreedEngine \/ SetCallback \/ UninitAsr \/ UninitCloses \/ Closed
      BY <3>3 DEF UsesFreedEngine, SetCallback, UninitAsr, UninitForgets, UninitCloses, Closed
    <3> QED
      BY <1>1, <3>1, <3>2, <3>3
  <2> QED
    BY <2>1 DEF Numbers
<1>2. CASE Destroys
  BY <1>2 DEF Destroys, StopService, CleanUp, DestroyState, Numbers, life, connection
<1>3. CASE Calls
  BY <1>3, CallsFrame DEF Numbers, life
<1>4. CASE Service
  BY <1>4, ServiceFrame DEF Numbers
<1>5. CASE UNCHANGED vars
  BY <1>5 DEF vars, engineVars, life, connection, Numbers
<1> QED
  BY <1>1, <1>2, <1>3, <1>4, <1>5 DEF Next

LEMMA NamesStep ==
  ASSUME Names, [Next]_vars
  PROVE  Names'
<1> USE DEF Names, life, connection
<1>1. CASE EngineSteps
  <2>1. CASE InitReturns \/ InitTimesOut \/ ThreadStarts
    BY <2>1 DEF InitReturns, InitTimesOut, ThreadStarts
  <2>2. CASE EngineThread
    BY <2>2 DEF EngineThread, EndPoll, NothingToServe, EndService, Tail_, LoopTest, Runs, ExitPosts
  <2>3. CASE UsesFreedEngine \/ SetCallback \/ UninitAsr \/ UninitCloses \/ Closed
    BY <2>3 DEF UsesFreedEngine, SetCallback, UninitAsr, UninitForgets, UninitCloses, Closed
  <2> QED
    BY <1>1, <2>1, <2>2, <2>3 DEF EngineSteps
<1>2. CASE Destroys
  BY <1>2 DEF Destroys, StopService, CleanUp, DestroyState
<1>3. CASE Calls
  BY <1>3, CallsFrame
<1>4. CASE Service
  <2>1. wsi' \in {wsi, "open", "dead"}
    <3>1. CASE EstablishedAsr \/ Writeable
      BY <3>1 DEF EstablishedAsr, Established, Writeable
    <3>2. ASSUME NEW ends \in BOOLEAN, ConnectionErrorAsr(ends) \/ ServiceFailsAsr(ends)
          PROVE  wsi' \in {wsi, "dead"}
      BY <3>2 DEF ConnectionErrorAsr, ConnectionError, ServiceFailsAsr, ServiceFails
    <3>3. ASSUME NEW label, NEW len, ReceivePartAsr(label, len)
          PROVE  wsi' = wsi
      BY <3>3 DEF ReceivePartAsr, ReceivePart
    <3>4. ASSUME NEW label, NEW len, NEW ends, ReceiveLastAsr(label, len, ends)
          PROVE  wsi' = wsi
      BY <3>4 DEF ReceiveLastAsr, ReceiveLast
    <3> QED
      BY <1>4, <3>1, <3>2, <3>3, <3>4 DEF Service
  <2> QED
    BY <1>4, <2>1, ServiceFrame
<1>5. CASE UNCHANGED vars
  BY <1>5 DEF vars, engineVars
<1> QED
  BY <1>1, <1>2, <1>3, <1>4, <1>5 DEF Next

LEMMA FlagsStep ==
  ASSUME Flags, [Next]_vars
  PROVE  Flags'
<1> USE DEF Flags
<1>1. CASE EngineSteps
  <2> USE DEF life, flags, connection, reassembly
  <2>1. fed' = fed
    BY <1>1 DEF EngineSteps, ring
  <2>2. CASE InitReturns \/ InitTimesOut
    BY <2>1, <2>2 DEF InitReturns, InitTimesOut
  <2>3. CASE ThreadStarts
    <3>1. asyncq' \in {asyncq, TRUE} /\ freed' \in {freed, TRUE} /\ failed' \in {failed, TRUE}
      BY <2>3 DEF ThreadStarts
    <3>2. is_running' = FALSE /\ is_finished' = TRUE /\ is_closed' = FALSE
          /\ UNCHANGED <<cb, state, armed, torn>>
      BY <2>3 DEF ThreadStarts
    <3> QED
      BY <2>1, <3>1, <3>2
  <2>4. CASE EngineThread
    <3>1. is_running' \in {is_running, TRUE}
          /\ UNCHANGED <<is_finished, is_closed, cb, asyncq, freed, failed, state, armed, torn>>
      BY <2>4 DEF EngineThread, EndPoll, NothingToServe, EndService, Tail_, Runs, ExitPosts
    <3>2. is_running' \in BOOLEAN
      BY <3>1
    <3> QED
      BY <2>1, <3>1, <3>2
  <2>5. CASE UsesFreedEngine \/ SetCallback \/ UninitAsr \/ UninitCloses
    <3>1. cb' \in {cb, TRUE, FALSE} /\ is_closed' \in {is_closed, TRUE}
          /\ UNCHANGED <<is_running, is_finished, asyncq, freed, failed, state, armed, torn>>
      BY <2>5 DEF UsesFreedEngine, SetCallback, UninitAsr, UninitForgets, UninitCloses
    <3>2. cb' \in BOOLEAN
      BY <3>1
    <3>3. is_closed' \in BOOLEAN
      BY <3>1
    <3> QED
      BY <2>1, <3>1, <3>2, <3>3
  <2>6. CASE Closed
    BY <2>1, <2>6 DEF Closed
  <2> QED
    BY <1>1, <2>2, <2>3, <2>4, <2>5, <2>6 DEF EngineSteps
<1>2. CASE Destroys
  <2>1. /\ is_running' \in {is_running, FALSE} /\ freed' \in {freed, TRUE}
        /\ asyncq' \in {asyncq, FALSE} /\ state' \in {state, FALSE} /\ armed' \in {armed, FALSE}
        /\ UNCHANGED <<is_finished, is_closed, cb, failed, torn>>
    BY <1>2 DEF Destroys, StopService, CleanUp, DestroyState, flags, connection, reassembly
  <2>2. fed' \in {fed, FALSE}
    BY <1>2 DEF Destroys, NoConnection, ring
  <2>3. is_running' \in BOOLEAN /\ freed' \in BOOLEAN
    BY <2>1
  <2>4. asyncq' \in BOOLEAN /\ state' \in BOOLEAN
    BY <2>1
  <2>5. armed' \in BOOLEAN /\ fed' \in BOOLEAN
    BY <2>1, <2>2
  <2> QED
    BY <2>1, <2>3, <2>4, <2>5
<1>3. CASE Calls
  <2>1. is_finished' \in BOOLEAN /\ state' \in BOOLEAN
    BY <1>3, CallsFrame
  <2>2. armed' \in BOOLEAN /\ fed' \in BOOLEAN
    BY <1>3, CallsFrame
  <2>3. UNCHANGED <<is_running, is_closed, cb, torn, asyncq, freed, failed>>
    BY <1>3, CallsFrame DEF life
  <2> QED
    BY <2>1, <2>2, <2>3
<1>4. CASE Service
  <2>1. armed' \in BOOLEAN /\ fed' \in BOOLEAN /\ torn' \in BOOLEAN
    <3>1. CASE EstablishedAsr
      BY <3>1 DEF EstablishedAsr, Established, reassembly
    <3>2. CASE Writeable
      <4>1. armed' \in {TRUE, FALSE} /\ torn' = torn /\ fed' = fed
        BY <3>2 DEF Writeable, InitialRequest, AudioMessage, reassembly, ring
      <4> QED
        BY <4>1
    <3>3. ASSUME NEW ends \in BOOLEAN, ConnectionErrorAsr(ends) \/ ServiceFailsAsr(ends)
          PROVE  armed' \in {armed, TRUE, FALSE} /\ fed' = fed /\ torn' = torn
      BY <3>3 DEF ConnectionErrorAsr, ConnectionError, ServiceFailsAsr, ServiceFails, Arm, Answer,
                  Discard, ring
    <3>4. ASSUME NEW label, NEW len, ReceivePartAsr(label, len)
          PROVE  UNCHANGED <<armed, fed, torn>>
      BY <3>4 DEF ReceivePartAsr, ReceivePart, ring
    <3>5. ASSUME NEW label, NEW len, NEW ends,
                 ReceiveLastAsr(label, len, ends)
          PROVE  armed' \in BOOLEAN /\ fed' \in BOOLEAN /\ torn' \in BOOLEAN
      <4>1. armed' \in {armed, TRUE} /\ fed' = fed
        BY <3>5 DEF ReceiveLastAsr, Arm, Answer, Discard, ring
      <4>2. torn' = (torn \/ ~IsWhole(Received(label, len)))
        BY <3>5 DEF ReceiveLastAsr, ReceiveLast
      <4> QED
        BY <4>1, <4>2
    <3> QED
      BY <1>4, <3>1, <3>2, <3>3, <3>4, <3>5 DEF Service
  <2>2. failed' \in {failed, TRUE} /\ is_finished' \in {is_finished, TRUE}
        /\ UNCHANGED <<is_running, is_closed, cb, asyncq, freed, state>>
    BY <1>4, ServiceFrame
  <2> QED
    BY <2>1, <2>2
<1>5. CASE UNCHANGED vars
  BY <1>5 DEF vars, engineVars, life, flags, connection, reassembly, ring
<1> QED
  BY <1>1, <1>2, <1>3, <1>4, <1>5 DEF Next

\* The thread posts the semaphore that init waits for when it has been once
\* through its loop, and leaves the loop for is_closed or a failure only.
LEMMA LifeStep ==
  ASSUME Flags, Names, Numbers, Life, [Next]_vars
  PROVE  Life'
<1> USE DEF Life
<1>1. CASE EngineSteps
  <2>1. CASE InitReturns \/ InitTimesOut
    BY <2>1 DEF InitReturns, InitTimesOut, flags, Numbers
  <2>2. CASE ThreadStarts
    BY <2>2 DEF ThreadStarts
  <2>3. CASE EndPoll \/ NothingToServe \/ EndService \/ ExitPosts
    BY <2>3 DEF EndPoll, NothingToServe, EndService, ExitPosts, flags
  <2>4. CASE Tail_ /\ is_running
    BY <2>4 DEF Tail_, LoopTest, flags
  <2>5. CASE Tail_ /\ ~is_running
    BY <2>5 DEF Tail_, flags
  <2>6. CASE Runs
    BY <2>6 DEF Runs, LoopTest
  <2>7. CASE UsesFreedEngine \/ SetCallback
    BY <2>7 DEF UsesFreedEngine, SetCallback, life, flags
  <2>8. CASE UninitAsr
    BY <2>8 DEF UninitAsr, UninitForgets, Ready, flags
  <2>9. CASE UninitCloses
    BY <2>9 DEF UninitCloses
  <2>10. CASE Closed
    BY <2>10 DEF Closed, Serving, flags
  <2> QED
    BY <1>1, <2>1, <2>2, <2>3, <2>4, <2>5, <2>6, <2>7, <2>8, <2>9, <2>10
    DEF EngineSteps, EngineThread
<1>2. CASE Destroys
  <2>1. CASE StopService
    BY <2>1 DEF StopService, flags
  <2>2. CASE CleanUp
    BY <2>2 DEF CleanUp
  <2> QED
    BY <1>2, <2>1, <2>2 DEF Destroys
<1>3. CASE Calls
  BY <1>3, CallsFrame DEF life
<1>4. CASE Service
  <2>1. tpc \in {"service", "serving"}
    BY <1>4, ServiceFrame DEF Serving
  <2>2. UNCHANGED <<ipc, upc, sem, asyncq, freed, is_running, is_closed>>
    BY <1>4, ServiceFrame
  <2>3. CASE tpc' = "serving" /\ failed' = failed
    BY <2>1, <2>2, <2>3
  <2>4. CASE tpc' = "exit" /\ failed' = TRUE
    BY <2>1, <2>2, <2>4
  <2> QED
    BY <1>4, <2>3, <2>4, ServiceFrame
<1>5. CASE UNCHANGED vars
  BY <1>5 DEF vars, engineVars, life, flags
<1> QED
  BY <1>1, <1>2, <1>3, <1>4, <1>5 DEF Next

-----------------------------------------------------------------------------
\* What goes out on a connection.

LEMMA RequestsStep ==
  ASSUME Requests, [Next]_vars
  PROVE  Requests'
<1> USE DEF Requests
<1>1. ASSUME UNCHANGED sent, wsi' = wsi \/ wsi' = "none" \/ (wsi = "open" /\ wsi' = "dead")
      PROVE  Requests'
  BY <1>1 DEF sent
<1>0. ASSUME seq' \in {0, 1}, requests' = 0, audio' = FALSE, seq' # 0 \/ wsi' = "none"
      PROVE  Requests'
  <2>1. audio' \in BOOLEAN /\ ~audio'
    BY Zenon, <1>0
  <2>2. seq' \in 0 .. 2 /\ requests' = (IF seq' = 2 THEN 1 ELSE 0)
    BY <1>0
  <2> QED
    BY Zenon, <1>0, <2>1, <2>2
<1>2. CASE EngineSteps
  BY <1>1, <1>2, EngineStepsKeep DEF EngineSteps
<1>3. CASE Destroys
  <2>1. wsi' = "none" \/ wsi' = wsi
    BY <1>3, DestroysAll
  <2>2. UNCHANGED sent \/ (seq' = 0 /\ requests' = 0 /\ audio' = FALSE /\ wsi' = "none")
    BY <1>3, DestroysAll DEF Destroys, NoConnection
  <2> QED
    BY <1>0, <1>1, <2>1, <2>2
<1>4. CASE Start
  <2>1. seq' = 1 /\ requests' = 0 /\ audio' = FALSE
    BY <1>4 DEF Start, NewConnection
  <2>2. seq' \in {0, 1} /\ seq' # 0
    BY <2>1
  <2> QED
    BY Zenon, <1>0, <2>1, <2>2
<1>5. CASE StartFails
  <2>1. CASE UNCHANGED <<connection, reassembly>>
    BY <1>1, <1>5, <2>1 DEF StartFails, connection
  <2>2. CASE ~UNCHANGED <<connection, reassembly>>
    <3>1. wsi' = "none"
      BY <1>5, <2>2 DEF StartFails, ConnectFails
    <3>2. UNCHANGED sent \/ (seq' = 0 /\ requests' = 0 /\ audio' = FALSE)
      BY <1>5 DEF StartFails, NoConnection
    <3> QED
      BY <1>0, <1>1, <3>1, <3>2
  <2> QED
    BY <2>1, <2>2
<1>6. CASE (\E len \in Chunks : WriteAudio(len)) \/ Finish
  BY <1>1, <1>6 DEF WriteAudio, Finish, connection
<1>7. CASE EstablishedAsr
  BY <1>7 DEF EstablishedAsr, Established, sent
<1>8. CASE Writeable
  <2>1. wsi = "open" /\ wsi' = wsi
    BY <1>8 DEF Writeable, connection
  <2>2. CASE seq = 1 /\ InitialRequest
    BY <2>1, <2>2 DEF InitialRequest
  <2>3. CASE seq # 1 /\ AudioMessage
    BY <2>1, <2>3 DEF AudioMessage
  <2>4. CASE UNCHANGED sent
    BY <1>1, <2>1, <2>4
  <2> QED
    BY <1>8, <2>2, <2>3, <2>4 DEF Writeable
<1>9. ASSUME NEW ends \in BOOLEAN, ConnectionErrorAsr(ends) \/ ServiceFailsAsr(ends)
      PROVE  Requests'
  BY <1>9 DEF ConnectionErrorAsr, ConnectionError, ServiceFailsAsr, ServiceFails, connection, sent
<1>10. ASSUME NEW label, NEW len, ReceivePartAsr(label, len)
       PROVE  Requests'
  BY <1>1, <1>10 DEF ReceivePartAsr, ReceivePart, connection
<1>11. ASSUME NEW label, NEW len, NEW ends, ReceiveLastAsr(label, len, ends)
       PROVE  Requests'
  BY <1>1, <1>11 DEF ReceiveLastAsr, ReceiveLast, connection
<1>12. CASE UNCHANGED vars
  BY <1>1, <1>12 DEF vars, engineVars, connection
<1> QED
  BY <1>2, <1>3, <1>4, <1>5, <1>6, <1>7, <1>8, <1>9, <1>10, <1>11, <1>12
  DEF Next, Calls, Service

\* Whoever makes a frame wait, or a connection be open, asks lws to call back.
LEMMA AwakeStep ==
  ASSUME items \in Nat, SenderAwake, [Next]_vars
  PROVE  SenderAwake'
<1> USE DEF SenderAwake
<1>1. ASSUME UNCHANGED <<fed, seq, items>>,
             wsi' = wsi /\ armed' \in {armed, TRUE} /\ (~is_finished' => ~is_finished)
      PROVE  SenderAwake'
  <2>1. CASE armed' = armed
    BY <1>1, <2>1
  <2>2. CASE armed' = TRUE
    BY <2>2
  <2> QED
    BY <1>1, <2>1, <2>2
<1>2. ASSUME is_finished' \/ wsi' # "open" \/ ~fed' \/ armed'
      PROVE  SenderAwake'
  BY <1>2
<1>3. CASE EngineSteps
  <2>1. CASE Closed \/ ThreadStarts
    BY <1>2, <2>1 DEF Closed, ThreadStarts
  <2>2. CASE ~(Closed \/ ThreadStarts)
    <3>1. UNCHANGED <<fed, seq, items, wsi, armed, is_finished>>
      <4> USE DEF EngineSteps, ring, sent, flags, connection
      <4>1. CASE InitReturns \/ InitTimesOut
        BY <1>3, <4>1 DEF InitReturns, InitTimesOut
      <4>2. CASE EngineThread
        BY <1>3, <4>2 DEF EngineThread, EndPoll, NothingToServe, EndService, Tail_, Runs, ExitPosts
      <4>3. CASE UsesFreedEngine \/ SetCallback \/ UninitAsr \/ UninitCloses
        BY <1>3, <4>3 DEF UsesFreedEngine, SetCallback, UninitAsr, UninitForgets, UninitCloses
      <4> QED
        BY <1>3, <2>2, <4>1, <4>2, <4>3
    <3> QED
      BY <1>1, <3>1
  <2> QED
    BY <2>1, <2>2
<1>4. CASE Destroys
  <2>1. CASE state
    BY <1>2, <1>4, <2>1, DestroysAll
  <2>2. CASE ~state
    <3>1. UNCHANGED <<fed, seq, items, wsi, armed, is_finished>>
      BY <1>4, <2>2 DEF Destroys, StopService, Stopping, CleanUp, ring, sent, connection
    <3> QED
      BY <1>1, <3>1
  <2> QED
    BY <2>1, <2>2
<1>5. CASE Start
  BY <1>2, <1>5 DEF Start, Connect
<1>6. CASE StartFails
  <2>1. CASE UNCHANGED <<connection, armed>>
    <3>1. UNCHANGED <<fed, seq, items>>
      BY <1>6, <2>1 DEF StartFails, connection, ring, sent
    <3> QED
      BY <1>1, <1>6, <2>1, <3>1 DEF StartFails, connection, flags
  <2>2. CASE ~UNCHANGED <<connection, armed>>
    BY <1>2, <1>6, <2>2 DEF StartFails, ConnectFails
  <2> QED
    BY <2>1, <2>2
<1>7. ASSUME NEW len \in Chunks, WriteAudio(len)
      PROVE  SenderAwake'
  BY <1>2, <1>7 DEF WriteAudio, Arm, connection
<1>8. CASE Finish
  BY <1>2, <1>8 DEF Finish
<1>9. CASE EstablishedAsr
  BY <1>2, <1>9 DEF EstablishedAsr
<1>10. CASE Writeable
  <2>1. CASE armed'
    BY <1>2, <2>1
  <2>2. CASE seq # 1 /\ items < FrameSize /\ armed' = FALSE /\ UNCHANGED <<ring, sent>>
    BY <2>2, VolcAsrAssumption DEF ring, sent
  <2> QED
    BY <1>10, <2>1, <2>2 DEF Writeable, InitialRequest, AudioMessage
<1>11. ASSUME NEW ends \in BOOLEAN, ConnectionErrorAsr(ends)
       PROVE  SenderAwake'
  BY <1>2, <1>11 DEF ConnectionErrorAsr, ConnectionError
<1>12. ASSUME NEW ends \in BOOLEAN, ServiceFailsAsr(ends)
       PROVE  SenderAwake'
  <2>1. CASE ends
    BY <1>2, <1>12, <2>1 DEF ServiceFailsAsr, Answer
  <2>2. CASE ~ends
    BY <1>1, <1>12, <2>2 DEF ServiceFailsAsr, ServiceFails, Answer, ring, sent, connection
  <2> QED
    BY <2>1, <2>2
<1>13. ASSUME NEW label, NEW len, ReceivePartAsr(label, len)
       PROVE  SenderAwake'
  BY <1>1, <1>13 DEF ReceivePartAsr, ReceivePart, ring, sent, flags, connection
<1>14. ASSUME NEW label, NEW len, NEW ends \in BOOLEAN,
              ReceiveLastAsr(label, len, ends)
       PROVE  SenderAwake'
  <2>1. CASE ends
    BY <1>2, <1>14, <2>1 DEF ReceiveLastAsr, Answer
  <2>2. CASE ~ends
    BY <1>1, <1>14, <2>2 DEF ReceiveLastAsr, ReceiveLast, Answer, ring, sent, connection
  <2> QED
    BY <2>1, <2>2
<1>15. CASE UNCHANGED vars
  BY <1>1, <1>15 DEF vars, engineVars, ring, sent, flags, connection
<1> QED
  BY <1>3, <1>4, <1>5, <1>6, <1>7, <1>8, <1>9, <1>10, <1>11, <1>12, <1>13, <1>14, <1>15
  DEF Next, Calls, Service

LEMMA EngineStep ==
  ASSUME Engine, Ring, [Next]_vars
  PROVE  Engine'
<1>1. items \in Nat
  BY VolcAsrAssumption DEF Ring
<1> QED
  BY <1>1, FlagsStep, NamesStep, NumbersStep, LifeStep, RequestsStep, AwakeStep DEF Engine

-----------------------------------------------------------------------------
LEMMA InitIInv == Init => IInv
<1> SUFFICES ASSUME Init PROVE IInv
  OBVIOUS
<1> USE DEF Init, EngineInit
<1>1. Contexts
  BY DEF Contexts, Counts, ContextsDestroyed
<1>2. Ring
  <2>1. items \in 0 .. RingSize /\ items % 2 # 1
    BY VolcAsrAssumption
  <2> QED
    BY Zenon, <2>1 DEF Ring, Halves, EndsWithSample
<1>3. Messages
  <2>1. Len(recv_buf) = 0 /\ recv_buf \in Seq(Labels \cup {More})
    BY SMT
  <2> QED
    BY <2>1 DEF Messages, Buffer, FragmentsFit, Reassembling, HoldsMessage
<1>4. Engine
  <2>1. Flags
    BY Zenon DEF Flags
  <2>2. Names /\ Numbers
    BY DEF Names, Numbers
  <2>3. Life
    BY DEF Life
  <2>4. Requests
    <3>1. audio \in BOOLEAN /\ ~audio
      BY Zenon
    <3>2. seq \in 0 .. 2 /\ requests = (IF seq = 2 THEN 1 ELSE 0) /\ ~(wsi # "none")
      OBVIOUS
    <3> QED
      BY Zenon, <3>1, <3>2 DEF Requests
  <2>5. SenderAwake
    BY DEF SenderAwake
  <2> QED
    BY <2>1, <2>2, <2>3, <2>4, <2>5 DEF Engine
<1> QED
  BY <1>1, <1>2, <1>3, <1>4 DEF IInv

LEMMA Invariance == Spec => []IInv
<1>1. IInv /\ [Next]_vars => IInv'
  BY ContextsStep, RingStep, MessagesStep, EngineStep DEF IInv
<1> QED
  BY <1>1, InitIInv, PTL DEF Spec

\* Every lws context is destroyed by the time the engine is freed, on every way
\* out, but for those whose pointer a later start has overwritten.
THEOREM EveryContextDestroyed == Spec => []ContextsDestroyed
<1>1. IInv => ContextsDestroyed
  BY DEF IInv, Contexts
<1> QED
  BY <1>1, Invariance, PTL

\* An overflow costs the oldest audio only, for every odd size of the ring and
\* every even length the recorder writes: the ring ends with a whole sample, and
\* its fill tells whether it begins with one.
THEOREM SamplesStayWhole == Spec => []EndsWithSample
<1>1. IInv => EndsWithSample
  BY DEF IInv, Ring
<1> QED
  BY <1>1, Invariance, PTL

\* A message that is parsed is one whole message, however the server cuts it and
\* whenever the session is finished, and no fragment is copied beyond the end of
\* the buffer.
THEOREM MessagesStayWhole == Spec => []WholeMessages
<1>1. IInv => WholeMessages
  BY DEF IInv, Messages, Reassembling, WholeMessages
<1> QED
  BY <1>1, Invariance, PTL

\* Every variable has its type; get_env finds the queue of an engine that init
\* has handed out, and its thread runs; the thread frees it after uninit or a
\* failure only; a connection begins with one request, which no audio precedes;
\* and no frame waits for a callback that nobody has asked for.
THEOREM EngineIsUsable == Spec => []Inv
<1>1. IInv => TypeOK
  <2> SUFFICES ASSUME IInv PROVE TypeOK
    OBVIOUS
  <2>1. EngineTypeOK
    BY DEF IInv, Engine, Flags, Names, Numbers, Contexts, Counts, Messages, Buffer, EngineTypeOK
  <2>2. seq \in 0 .. 2 /\ requests \in Nat /\ audio \in BOOLEAN
    BY DEF IInv, Engine, Requests
  <2>3. items \in 0 .. RingSize /\ odd \in BOOLEAN /\ cut \in BOOLEAN /\ fed \in BOOLEAN
    BY DEF IInv, Ring, Halves, Engine, Flags
  <2> QED
    BY <2>1, <2>2, <2>3 DEF TypeOK
<1>2. IInv => ReadyWhenCreated /\ FreedAfterUninit
  BY DEF IInv, Engine, Life, ReadyWhenCreated, FreedAfterUninit
<1>3. IInv => RequestFirst
  BY DEF IInv, Engine, Requests, RequestFirst
<1>4. IInv => SenderAwake
  BY DEF IInv, Engine
<1>5. IInv => Inv
  BY <1>1, <1>2, <1>3, <1>4 DEF Inv
<1> QED
  BY <1>5, Invariance, PTL
=============================================================================
