------------------------------ MODULE VolcAsr ------------------------------
(***************************************************************************)
(* src/asr/volc/ai_volc.c: the recogniser's plugin.  Its thread, its       *)
(* connection and the reassembly of messages are those of VolcEngine; here *)
(* are its calls (start, write_audio, finish), the audio ring between them *)
(* and the WRITEABLE callback, and the order of what is sent.              *)
(*                                                                         *)
(* Audio is counted in bytes; a sample is two of them.  Of the ring only   *)
(* the fill matters, and which half of a sample its oldest and its newest  *)
(* byte are.  A frame and what the recorder writes are whole samples, but  *)
(* the ring holds an odd number of bytes (2^17 - 1): when it overflows it  *)
(* tears a sample.                                                         *)
(*                                                                         *)
(* Assumed of the recogniser: uninit comes when no session is open (what   *)
(* ClosedIsQuiet says in module Asr), and a callback is answered by finish *)
(* or by nothing.                                                          *)
(***************************************************************************)
EXTENDS VolcEngine

CONSTANTS
  RingSize,   \* bytes the ring can hold: VOLC_BUFFER_MAX_SIZE - 1
  FrameSize,  \* bytes of an audio message
  Chunks      \* lengths the recorder writes

ASSUME VolcAsrAssumption ==
  /\ RingSize \in Nat /\ RingSize % 2 = 1
  /\ FrameSize \in Nat \ {0} /\ FrameSize % 2 = 0
  /\ Chunks \subseteq {n \in 1 .. RingSize : n % 2 = 0}

VARIABLES
  seq,        \* 1 until the initial request is sent; 0 without a connection
  items,      \* bytes in the ring
  odd,        \* the oldest of them is the second half of a sample
  cut,        \* the newest of them is the first half of a sample
  \* What the properties need to remember.
  requests,   \* initial requests sent on this connection
  audio,      \* audio was sent on this connection
  fed         \* audio was written since the connection was established

ring == <<items, odd, cut, fed>>
sent == <<seq, requests, audio>>
vars == <<engineVars, ring, sent>>

Init ==
  /\ EngineInit
  /\ seq = 0 /\ items = 0 /\ odd = FALSE /\ requests = 0 /\ audio = FALSE
  /\ cut = FALSE /\ fed = FALSE

-----------------------------------------------------------------------------
\* The calls.

EmptyRing == items' = 0 /\ odd' = FALSE /\ cut' = FALSE

NewConnection ==
  /\ seq' = 1 /\ requests' = 0 /\ audio' = FALSE
  /\ EmptyRing /\ fed' = FALSE

NoConnection ==
  /\ seq' = 0 /\ requests' = 0 /\ audio' = FALSE
  /\ EmptyRing /\ fed' = FALSE

Start ==
  /\ Handling /\ is_running
  /\ Connect
  /\ NewConnection
  /\ is_finished' = FALSE
  /\ UNCHANGED <<life, is_running, is_closed, cb>>

StartFails ==
  /\ Handling /\ is_running
  /\ ConnectFails
  /\ IF state' = state THEN UNCHANGED <<ring, sent>> ELSE NoConnection
  /\ UNCHANGED <<life, flags, cb>>

\* The ring after len bytes were written to it: a full one is first relieved of
\* len bytes, and every byte that finds it full pushes the oldest one out.
Room(len) == IF items = RingSize THEN items - len ELSE items

Excess(len) ==
  IF Room(len) + len > RingSize THEN Room(len) + len - RingSize ELSE 0

\* A ring that refuses what does not fit.
QueueWhatFits(len) ==
  /\ items' = Room(len) + len - Excess(len)
  /\ cut' = (cut # (Excess(len) % 2 = 1))
  /\ UNCHANGED odd

Queue(len) ==
  /\ items' = Room(len) + len - Excess(len)
  /\ odd' = (odd # (Excess(len) % 2 = 1))
  /\ UNCHANGED cut

WriteAudioUnarmed(len) ==
  /\ Handling /\ state /\ ~is_finished
  /\ Queue(len)
  /\ fed' = TRUE
  /\ IF items = 0 THEN Arm ELSE UNCHANGED <<armed, fault>>
  /\ UNCHANGED <<life, flags, cb, connection, reassembly, sent>>

WriteAudio(len) ==
  /\ Handling /\ state /\ ~is_finished
  /\ Queue(len)
  /\ fed' = TRUE
  /\ Arm
  /\ UNCHANGED <<life, flags, cb, connection, reassembly, sent>>

\* What finish does to the ring and to an unfinished message.
Discard == EmptyRing /\ recv_buf' = <<>> /\ UNCHANGED fed

Finish ==
  /\ Handling
  /\ is_finished' = TRUE
  /\ IF state
     THEN Discard /\ Arm /\ UNCHANGED <<recv_buf_size, sending, torn>>
     ELSE UNCHANGED <<reassembly, armed, fault, ring>>
  /\ UNCHANGED <<life, is_running, is_closed, cb, connection, sent>>

-----------------------------------------------------------------------------
\* The websocket callback.

\* volc_send_initial_request: seq++, and the callback is asked for again.
InitialRequest ==
  /\ seq' = 2 /\ requests' = requests + 1 /\ armed' = TRUE
  /\ UNCHANGED <<audio, ring>>

\* volc_send_audio_data.
AudioMessage ==
  /\ items' = items - FrameSize
  /\ audio' = TRUE
  /\ armed' = TRUE
  /\ UNCHANGED <<seq, requests, odd, cut, fed>>

Writeable ==
  /\ Serving /\ wsi = "open" /\ armed
  /\ \/ seq = 1 /\ InitialRequest
     \/ seq # 1 /\ items >= FrameSize /\ AudioMessage
     \/ seq # 1 /\ items < FrameSize /\ armed' = FALSE /\ UNCHANGED <<ring, sent>>
  /\ tpc' = "serving"
  /\ UNCHANGED <<ipc, upc, sem, asyncq, freed, failed, flags, cb, connection, reassembly,
                 fault>>

\* A request to write that was made too early may be forgotten.
EstablishedAsr ==
  /\ Established
  /\ armed' \in {armed, FALSE}
  /\ fed' = FALSE
  /\ UNCHANGED <<items, odd, cut, sent>>

\* What the API makes of a report: nothing, or finish.
Answer(ends) ==
  IF ends THEN is_finished' = TRUE /\ Discard ELSE UNCHANGED <<is_finished, ring>>

ConnectionErrorAsr(ends) ==
  /\ ConnectionError(ends)
  /\ Answer(ends)
  /\ ends \/ UNCHANGED recv_buf
  /\ UNCHANGED sent

ServiceFailsAsr(ends) ==
  /\ ServiceFails(ends)
  /\ Answer(ends)
  /\ IF ends THEN Arm ELSE UNCHANGED <<recv_buf, armed, fault>>
  /\ UNCHANGED sent

ReceivePartAsr(label, len) ==
  /\ ReceivePart(label, len)
  /\ UNCHANGED <<armed, ring, sent>>

\* What is reported of it may make the API finish.
ReceiveLastAsr(label, len, ends) ==
  /\ ReceiveLast(label, len)
  /\ ends => cb /\ ~is_finished
  /\ Answer(ends)
  /\ IF ends THEN Arm ELSE UNCHANGED <<armed, fault>>
  /\ UNCHANGED sent

-----------------------------------------------------------------------------
UninitAsr == is_finished /\ UninitForgets

\* lws_context_destroy and volc_destroy_lws_state take the ring along.
Destroys ==
  /\ StopService \/ CleanUp
  /\ IF state THEN NoConnection ELSE UNCHANGED <<ring, sent>>

EngineSteps ==
  /\ \/ InitReturns \/ InitTimesOut \/ ThreadStarts \/ EngineThread
     \/ UsesFreedEngine \/ SetCallback \/ UninitAsr \/ UninitCloses \/ Closed
  /\ UNCHANGED <<ring, sent>>

Calls == Start \/ StartFails \/ (\E len \in Chunks : WriteAudio(len)) \/ Finish

Service ==
  \/ EstablishedAsr
  \/ Writeable
  \/ \E ends \in BOOLEAN : ConnectionErrorAsr(ends) \/ ServiceFailsAsr(ends)
  \/ \E label \in Labels, len \in 1 .. MaxPiece :
       ReceivePartAsr(label, len) \/ \E ends \in BOOLEAN : ReceiveLastAsr(label, len, ends)

Next == fault = "none" /\ (EngineSteps \/ Destroys \/ Calls \/ Service)

\* The thread keeps running.  Of the rest only uninit is bound to return, and a
\* socket that is open is writable again and again.
Thread ==
  /\ fault = "none"
  /\ \/ ThreadStarts /\ UNCHANGED <<ring, sent>>
     \/ EngineThread /\ UNCHANGED <<ring, sent>>
     \/ Destroys

Fairness ==
  /\ WF_vars(Thread)
  /\ WF_vars(fault = "none" /\ UninitCloses /\ UNCHANGED <<ring, sent>>)
  /\ SF_vars(fault = "none" /\ Writeable)

Spec == Init /\ [][Next]_vars

FairSpec == Spec /\ Fairness
-----------------------------------------------------------------------------
\* Every variable has its type.
TypeOK ==
  /\ EngineTypeOK
  /\ seq \in 0 .. 2 /\ items \in 0 .. RingSize
  /\ odd \in BOOLEAN /\ cut \in BOOLEAN /\ fed \in BOOLEAN
  /\ requests \in Nat /\ audio \in BOOLEAN

\* A message that is parsed is one whole message: no fragment of another one
\* is taken into it, also not when finish throws away the first half, and none
\* is copied beyond the end of the buffer.
WholeMessages == FragmentsFit /\ ~torn

\* The server hears of a recognition first what it is and then its audio: one
\* initial request on each connection, and no audio before it.
RequestFirst == requests <= 1 /\ (audio => requests = 1)

\* An overflow costs the oldest audio only: it may tear the sample at the old
\* end of the ring, but the ring ends with a whole sample, and its fill tells
\* whether it begins with one.
EndsWithSample == ~cut /\ (odd <=> items % 2 = 1)

\* No wakeup of the sender is lost: while a frame waits that was written to an
\* established connection, lws has been asked to call back.
SenderAwake ==
  wsi = "open" /\ fed /\ ~is_finished /\ (seq = 1 \/ items >= FrameSize) => armed

\* What holds of a recogniser's engine at any time, from its thread's start to
\* its end.
Inv == TypeOK /\ ReadyWhenCreated /\ FreedAfterUninit /\ RequestFirst /\ SenderAwake

\* Audio that waits for a connection that stays is sent.
AudioGoesOut ==
  (wsi = "open" /\ fed /\ items >= FrameSize /\ ~audio)
    ~> (audio \/ wsi # "open" \/ is_finished \/ failed \/ is_closed \/ fault # "none")
=============================================================================
