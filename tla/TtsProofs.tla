----------------------------- MODULE TtsProofs -----------------------------
(***************************************************************************)
(* Theorems about src/tts/ai_tts.c as module Tts models it, with and       *)
(* without a user loop, for every size of the ring and every bound.        *)
(*                                                                         *)
(* Four of the invariants need more than themselves: where a player is     *)
(* open and what a freed context is (Session), what waits behind the       *)
(* user's last call (CloseOrder), and what an engine looks like before its *)
(* first text and during it (First).                                       *)
(***************************************************************************)
EXTENDS Tts, TLAPS

Flags ==
  /\ cb \in BOOLEAN /\ is_send_finished \in BOOLEAN
  /\ handle \in BOOLEAN /\ connecting \in BOOLEAN /\ focus_handle \in BOOLEAN
  /\ buffer \in BOOLEAN /\ frame_buf \in BOOLEAN /\ data_end \in BOOLEAN
  /\ lws_state \in BOOLEAN /\ is_finished \in BOOLEAN
  /\ freed \in BOOLEAN /\ closeCalled \in BOOLEAN
  /\ reused \in BOOLEAN /\ mixed \in BOOLEAN /\ gone \in BOOLEAN

Names ==
  /\ state \in State
  /\ pipe \in {"none", "open", "stale"}
  /\ user_handle \in {"none", "open", "closing", "closed"}
  /\ event \in Event \cup {"none"}
  /\ fault \in {"none", "stop_null", "stale_pipe", "no_ring", "no_queue", "freed"}

Numbers ==
  /\ items \in 0 .. MaxItems
  /\ user_asyncq \in Nat /\ sessions \in Nat /\ audio \in Nat

Queue == asyncq \in Seq(Command)

\* The plugin serves a text on a connection only.
Served == ~is_finished => lws_state

\* A player is open in state START only, and the context is freed in state
\* CLOSE only.
Session ==
  /\ connecting => handle
  /\ handle => state = "START"
  /\ state = "CLOSE" <=> freed

\* The engine thread hears of the close when the user's loop is through with
\* its queue.
CloseOrder ==
  /\ \A i \in 1 .. Len(asyncq) :
       asyncq[i] = "close" => closeCalled /\ user_handle \in {"none", "closed"}
  /\ user_handle \in {"closing", "closed"} => closeCalled
  /\ freed => closeCalled /\ user_handle \in {"none", "closed"}

\* Before the first text there is nothing that audio could come from or go to;
\* until the second one a stale pipe is that of a text that is over.
First ==
  /\ sessions = 0 =>
       /\ ~lws_state /\ pipe = "none" /\ ~frame_buf /\ state # "START"
       /\ fault = "none" => state # "FINISH"
  /\ sessions <= 1 =>
       /\ ~reused /\ ~mixed /\ fault # "stale_pipe"
       /\ pipe = "stale" => state \in {"FINISH", "CLOSE"}

Types == Flags /\ Names /\ Numbers /\ Queue /\ Served

IInv ==
  /\ Types /\ Session /\ CloseOrder /\ First
  /\ EndedReleasesAll /\ AudioFlows

LEMMA TypesAreTypeOK == Types <=> TypeOK
BY DEF Types, Flags, Names, Numbers, Queue, Served, TypeOK

LEMMA InitHolds == Init => IInv
<1> SUFFICES ASSUME Init PROVE IInv
  OBVIOUS
<1>1. Flags
  BY DEF Init, Flags
<1>2. Names /\ Served
  BY DEF Init, Names, State, Served
<1>3. Numbers
  BY TtsAssumption DEF Init, Numbers
<1>4. Queue
  BY DEF Init, Queue
<1>5. Session /\ First /\ EndedReleasesAll /\ AudioFlows
  BY DEF Init, Session, First, EndedReleasesAll, AudioFlows
<1>6. CloseOrder
  BY DEF Init, CloseOrder
<1> QED
  BY <1>1, <1>2, <1>3, <1>4, <1>5, <1>6 DEF IInv, Types

-----------------------------------------------------------------------------
\* The queue of messages.

\* Most steps leave the queue and the two ends of its user alone.
LEMMA SameQueue ==
  ASSUME Queue, CloseOrder, UNCHANGED <<asyncq, user, freed>>
  PROVE  Queue' /\ CloseOrder'
BY DEF Queue, CloseOrder, user

\* A message put behind the others; a close only when the user's loop is through.
LEMMA PutMessage ==
  ASSUME Queue, CloseOrder, NEW c \in Command, asyncq' = Append(asyncq, c), freed' = freed,
         closeCalled => closeCalled', c = "close" => closeCalled' /\ user_handle' \in {"none", "closed"},
         user_handle' = user_handle \/ user_handle \in {"open", "closing"},
         user_handle' \in {"closing", "closed"} => closeCalled'
  PROVE  Queue' /\ CloseOrder'
<1>1. /\ asyncq \in Seq(Command) /\ asyncq' \in Seq(Command) /\ Len(asyncq) \in Nat
      /\ Len(asyncq') = Len(asyncq) + 1 /\ asyncq'[Len(asyncq) + 1] = c
      /\ \A i \in 1 .. Len(asyncq) : asyncq'[i] = asyncq[i]
  BY DEF Queue
<1>2. ASSUME NEW i \in 1 .. Len(asyncq'), asyncq'[i] = "close"
      PROVE  closeCalled' /\ user_handle' \in {"none", "closed"}
  <2>1. CASE i = Len(asyncq) + 1
    BY <1>1, <1>2, <2>1
  <2>2. CASE i # Len(asyncq) + 1
    <3>1. i \in 1 .. Len(asyncq) /\ asyncq[i] = "close"
      BY <1>1, <1>2, <2>2
    <3>2. closeCalled /\ user_handle \in {"none", "closed"}
      BY <3>1 DEF CloseOrder
    <3> QED
      BY <3>2
  <2> QED
    BY <2>1, <2>2
<1>3. freed' => closeCalled' /\ user_handle' \in {"none", "closed"}
  BY DEF CloseOrder
<1> QED
  BY <1>1, <1>2, <1>3 DEF Queue, CloseOrder

\* The close message, when the user's loop is through with its queue.
LEMMA PostClose ==
  ASSUME IInv, Post("close"), freed' = freed, closeCalled',
         user_handle' \in {"none", "closed"},
         user_handle' = user_handle \/ user_handle = "closing"
  PROVE  Queue' /\ CloseOrder'
<1>1. CASE gone
  BY <1>1 DEF Post, IInv, Types, Queue, CloseOrder
<1>2. CASE ~gone
  <2>1. asyncq' = Append(asyncq, "close") /\ "close" \in Command
    BY <1>2 DEF Post, Command
  <2> QED
    BY <2>1, PutMessage DEF IInv, Types
<1> QED
  BY <1>1, <1>2

\* A message taken from it.
LEMMA TakeMessage ==
  ASSUME Queue, CloseOrder, NEW c \in Command, Handle(c), user' = user
  PROVE  /\ Queue'
         /\ freed' = freed => CloseOrder'
         /\ c = "close" => CloseOrder'
<1>1. /\ asyncq \in Seq(Command) /\ asyncq # <<>> /\ asyncq' = Tail(asyncq) /\ asyncq[1] = c
  BY DEF Queue, Handle
<1>2. /\ asyncq' \in Seq(Command) /\ Len(asyncq) \in Nat /\ Len(asyncq) >= 1
      /\ Len(asyncq') = Len(asyncq) - 1
      /\ \A i \in 1 .. Len(asyncq') : asyncq'[i] = asyncq[i + 1]
  BY <1>1
<1>3. closeCalled' = closeCalled /\ user_handle' = user_handle
  BY DEF user
<1>4. ASSUME NEW i \in 1 .. Len(asyncq'), asyncq'[i] = "close"
      PROVE  closeCalled' /\ user_handle' \in {"none", "closed"}
  <2>1. i + 1 \in 1 .. Len(asyncq) /\ asyncq[i + 1] = "close"
    BY <1>2, <1>4
  <2> QED
    BY <2>1, <1>3 DEF CloseOrder
<1>5. c = "close" => closeCalled' /\ user_handle' \in {"none", "closed"}
  <2>1. 1 \in 1 .. Len(asyncq)
    BY <1>2
  <2> QED
    BY <2>1, <1>1, <1>3 DEF CloseOrder
<1> QED
  BY <1>2, <1>3, <1>4, <1>5 DEF Queue, CloseOrder

-----------------------------------------------------------------------------
\* The end of a text.

\* What ai_tts_finish_handler leaves behind.
Over ==
  /\ state' = "FINISH"
  /\ handle' = FALSE /\ connecting' = FALSE /\ focus_handle' = FALSE /\ buffer' = FALSE
  /\ is_finished' = TRUE
  /\ pipe' = pipe \/ (pipe = "open" /\ pipe' = "stale")
  /\ fault' \in {"none", "stop_null"}

LEMMA FinishHandlerEnds ==
  ASSUME Flags, Session, EndedReleasesAll, Turn, FinishHandler
  PROVE  Over
<1>1. CASE state = "FINISH"
  BY <1>1 DEF FinishHandler, Session, EndedReleasesAll, Turn, Over, player, Flags
<1>2. CASE state # "FINISH"
  BY <1>2 DEF FinishHandler, Turn, Over, Stop
<1> QED
  BY <1>1, <1>2

\* With its last event, or without one where nobody listens.
Told(e) ==
  \/ Listening /\ fault' = "none" /\ event' = e /\ is_send_finished' = TRUE
  \/ event' = event /\ is_send_finished' = is_send_finished

\* What all the steps that end a text have in common.
Ending(e) ==
  /\ Turn /\ EndSession(e)
  /\ frame_buf' = frame_buf \/ frame_buf' = FALSE
  /\ asyncq' = asyncq \/ Handle("stop")
  /\ gone' \in BOOLEAN
  /\ lws_state' = lws_state \/ lws_state' = FALSE
  /\ UNCHANGED <<cb, items, data_end, user, freed, past, audio, mixed>>

LEMMA EndSessionTells ==
  ASSUME user_asyncq \in Nat, NEW e, EndSession(e)
  PROVE  Told(e) /\ user_asyncq' \in Nat
BY DEF EndSession, Told, Send, SendNothing

\* Before the first text no last event is sent: the plugin would have crashed.
LEMMA EndingAnswers ==
  ASSUME IInv, NEW e, Ending(e), sessions = 0
  PROVE  fault' = "stop_null"
<1>1. fault = "none" /\ state # "FINISH" /\ ~lws_state
  BY DEF Ending, Turn, IInv, First
<1> QED
  BY <1>1 DEF Ending, EndSession, FinishHandler, Stop

LEMMA EndingKeeps ==
  ASSUME IInv, NEW e \in {"complete", "error"}, Ending(e)
  PROVE  IInv'
<1>1. Over
  BY FinishHandlerEnds DEF IInv, Types, Ending, EndSession
<1>2. Told(e) /\ user_asyncq' \in Nat
  BY EndSessionTells DEF IInv, Types, Numbers, Ending
<1>3. UNCHANGED <<cb, items, data_end, user_handle, closeCalled, freed,
                  sessions, reused, audio, mixed>>
  BY DEF Ending, user, past
<1>4. Flags'
  <2>1. is_send_finished' \in BOOLEAN
    BY <1>2 DEF Told, IInv, Types, Flags
  <2>2. frame_buf' \in BOOLEAN
    BY DEF Ending, IInv, Types, Flags
  <2>3. lws_state' \in BOOLEAN
    BY DEF Ending, IInv, Types, Flags
  <2>4. gone' \in BOOLEAN
    BY DEF Ending
  <2> QED
    BY <1>1, <1>3, <2>1, <2>2, <2>3, <2>4 DEF Over, IInv, Types, Flags
<1>5. Names'
  BY <1>1, <1>2, <1>3 DEF Over, Told, IInv, Types, Names, State, Event
<1>6. Numbers' /\ Served'
  BY <1>1, <1>2, <1>3 DEF Over, IInv, Types, Numbers, Served
<1>7. Queue' /\ CloseOrder'
  <2>1. CASE asyncq' = asyncq
    BY <2>1, <1>3, SameQueue DEF user, IInv, Types
  <2>2. CASE Handle("stop")
    <3>1. "stop" \in Command
      BY DEF Command
    <3> QED
      BY <2>2, <3>1, <1>3, TakeMessage DEF user, IInv, Types
  <2> QED
    BY <2>1, <2>2 DEF Ending
<1>8. Session'
  BY <1>1, <1>3 DEF Over, Ending, Turn, IInv, Session
<1>9. First'
  <2>1. sessions = 0 => fault' = "stop_null"
    BY EndingAnswers
  <2>2. sessions = 0 => ~frame_buf' /\ ~lws_state'
    BY DEF Ending, IInv, First
  <2> QED
    BY <1>1, <1>3, <2>1, <2>2 DEF Over, IInv, First
<1>10. EndedReleasesAll' /\ AudioFlows'
  BY <1>1 DEF Over, EndedReleasesAll, AudioFlows
<1> QED
  BY <1>4, <1>5, <1>6, <1>7, <1>8, <1>9, <1>10 DEF IInv, Types

LEMMA EndingSteps ==
  ASSUME IInv
  PROVE  /\ StopL => Ending("complete")
         /\ FocusLost => Ending("complete")
         /\ PlayerError \/ EngineError => Ending("error")
         /\ PrepareFails /\ Listening => Ending("error")
         /\ WriteDone /\ Drained => Ending("complete")
         /\ ServiceFails /\ Listening => Ending("error")
<1>0. gone \in BOOLEAN
  BY DEF IInv, Types, Flags
<1>1. StopL => Ending("complete")
  BY <1>0 DEF StopL, Handle, Ending
<1>2. FocusLost => Ending("complete")
  BY <1>0 DEF FocusLost, Ending
<1>3. PlayerError \/ EngineError => Ending("error")
  BY <1>0 DEF PlayerError, EngineError, Serving, Ending
<1>4. PrepareFails /\ Listening => Ending("error")
  BY <1>0 DEF PrepareFails, Ending
<1>5. WriteDone /\ Drained => Ending("complete")
  BY <1>0 DEF WriteDone, Ending
<1>6. ServiceFails /\ Listening => Ending("error")
  BY DEF ServiceFails, Serving, Ending
<1> QED
  BY <1>1, <1>2, <1>3, <1>4, <1>5, <1>6

-----------------------------------------------------------------------------
\* The other steps keep the invariant, one lemma for each.

LEMMA UserKeeps ==
  ASSUME IInv, (\E c \in Command \ {"close"} : Call(c)) \/ Close \/ UserQueueClosed \/ UserCallback
  PROVE  IInv'
<1>1. /\ UNCHANGED <<state, cb, is_send_finished, player, focus_handle, ring, plugin, freed,
                     past, audio, event, mixed>>
      /\ fault' = fault \/ (fault = "none" /\ fault' = "no_queue")
  BY DEF Call, Close, UserQueueClosed, UserCallback, user, Post
<1>2. /\ closeCalled' \in BOOLEAN /\ user_asyncq' \in Nat
      /\ user_handle' \in {"none", "open", "closing", "closed"}
  <2>1. /\ closeCalled \in BOOLEAN /\ user_asyncq \in Nat
        /\ user_handle \in {"none", "open", "closing", "closed"}
    BY DEF IInv, Types, Flags, Names, Numbers
  <2>2. ASSUME NEW c \in Command \ {"close"}, Call(c)
        PROVE  UNCHANGED <<closeCalled, user_asyncq, user_handle>>
    BY <2>2 DEF Call, user
  <2>3. CASE Close
    BY <2>1, <2>3 DEF Close
  <2>4. CASE UserQueueClosed
    BY <2>1, <2>4 DEF UserQueueClosed
  <2>5. CASE UserCallback
    BY <2>1, <2>5 DEF UserCallback, user
  <2> QED
    BY <2>1, <2>2, <2>3, <2>4, <2>5
<1>3. Flags'
  BY <1>1, <1>2 DEF player, ring, plugin, past, IInv, Types, Flags
<1>4. Names' /\ Numbers' /\ Served'
  BY <1>1, <1>2 DEF player, ring, plugin, past, IInv, Types, Names, Numbers, Served
<1>5. Queue' /\ CloseOrder'
  <2>1. ASSUME NEW c \in Command \ {"close"}, Call(c) PROVE Queue' /\ CloseOrder'
    <3>1. Post(c) /\ UNCHANGED <<user, freed>>
      BY <2>1 DEF Call
    <3>2. CASE gone
      BY <3>1, <3>2, SameQueue DEF Post, IInv, Types
    <3>3. CASE ~gone
      BY <3>1, <3>3, PutMessage DEF Post, user, IInv, Types, CloseOrder
    <3> QED
      BY <3>2, <3>3
  <2>2. CASE Close
    <3>1. CASE UserLoop
      <4>1. /\ ~closeCalled /\ closeCalled' = TRUE /\ user_handle' = "closing"
            /\ asyncq' = asyncq /\ freed' = freed
        BY <2>2, <3>1 DEF Close
      <4> QED
        BY <4>1 DEF IInv, Types, Queue, CloseOrder
    <3>2. CASE ~UserLoop
      <4>1. /\ closeCalled' = TRUE /\ user_handle' = "none" /\ user_handle = "none"
            /\ Post("close") /\ freed' = freed
        BY <2>2, <3>2 DEF Close, UserLoop
      <4> QED
        BY <4>1, PostClose
    <3> QED
      BY <3>1, <3>2
  <2>3. CASE UserQueueClosed
    <3>1. /\ user_handle = "closing" /\ user_handle' = "closed"
          /\ Post("close") /\ UNCHANGED <<closeCalled, freed>>
      BY <2>3 DEF UserQueueClosed
    <3>2. closeCalled
      BY <3>1 DEF IInv, CloseOrder
    <3> QED
      BY <3>1, <3>2, PostClose
  <2>4. CASE UserCallback
    BY <2>4, SameQueue DEF UserCallback, IInv, Types
  <2> QED
    BY <2>1, <2>2, <2>3, <2>4
<1>6. Session' /\ First'
  BY <1>1 DEF player, ring, plugin, past, IInv, Session, First
<1>7. EndedReleasesAll' /\ AudioFlows'
  BY <1>1 DEF player, ring, plugin, IInv, EndedReleasesAll, AudioFlows
<1> QED
  BY <1>3, <1>4, <1>5, <1>6, <1>7 DEF IInv, Types

\* Handlers that only look at their message.
LEMMA ListenerKeeps ==
  ASSUME IInv, SetListenerL \/ SpeakIgnored
  PROVE  IInv'
<1>1. /\ UNCHANGED <<state, is_send_finished, player, focus_handle, ring, plugin, user_asyncq,
                     user, freed, past, audio, event, mixed, fault>>
      /\ cb' \in BOOLEAN
  BY DEF SetListenerL, SpeakIgnored, IInv, Types, Flags
<1>2. PICK c \in {"listen", "unlisten", "speak"} : Handle(c)
  BY DEF SetListenerL, SpeakIgnored
<1>3. Flags'
  BY <1>1 DEF player, ring, plugin, user, past, IInv, Types, Flags
<1>4. Names' /\ Numbers' /\ Served'
  BY <1>1 DEF player, ring, plugin, user, past, IInv, Types, Names, Numbers, Served
<1>5. Queue' /\ CloseOrder'
  BY <1>1, <1>2, TakeMessage DEF Command, IInv, Types
<1>6. Session' /\ First'
  BY <1>1 DEF player, ring, plugin, past, IInv, Session, First
<1>7. EndedReleasesAll' /\ AudioFlows'
  BY <1>1 DEF player, ring, plugin, IInv, EndedReleasesAll, AudioFlows
<1> QED
  BY <1>3, <1>4, <1>5, <1>6, <1>7 DEF IInv, Types

\* A text is accepted, and may then be played or not.
LEMMA SpeakKeeps ==
  ASSUME IInv, SpeakPluginFails \/ SpeakPlayerFails \/ SpeakSucceeds
  PROVE  IInv'
<1>1. /\ Handle("speak") /\ state # "START" /\ state' = "START"
      /\ is_send_finished' = FALSE /\ data_end' = FALSE
      /\ sessions' = sessions + 1 /\ audio' = 0 /\ mixed' = FALSE
      /\ UNCHANGED <<cb, buffer, items, frame_buf, user_handle, closeCalled, freed, fault, pipe,
                     gone>>
  BY DEF SpeakPluginFails, SpeakPlayerFails, SpeakSucceeds, SpeakSession, PluginSpeaks, user,
     player, plugin
<1>2. ~handle /\ ~connecting
  BY <1>1 DEF IInv, Session
<1>3. \/ UNCHANGED <<handle, connecting, focus_handle, lws_state, is_finished>> /\ reused' = FALSE
      \/ /\ UNCHANGED <<handle, connecting>>
         /\ focus_handle' \in BOOLEAN
         /\ reused' = lws_state /\ lws_state' = TRUE /\ is_finished' = FALSE
      \/ /\ handle' = TRUE /\ connecting' = TRUE
         /\ focus_handle' \in BOOLEAN
         /\ reused' = lws_state /\ lws_state' = TRUE /\ is_finished' = FALSE
  BY DEF SpeakPluginFails, SpeakPlayerFails, SpeakSucceeds, PluginSpeaks, player, plugin
<1>4. event' \in Event \cup {"none"} /\ user_asyncq' \in Nat
  BY DEF SpeakPluginFails, SpeakPlayerFails, SpeakSucceeds, Send, SendNothing, Event,
     IInv, Types, Names, Numbers
<1>5. Flags'
  <2>1. gone' \in BOOLEAN /\ is_finished' \in BOOLEAN
    BY <1>1, <1>3 DEF IInv, Types, Flags
  <2>2. lws_state' \in BOOLEAN /\ reused' \in BOOLEAN
    BY <1>3 DEF IInv, Types, Flags
  <2>3. handle' \in BOOLEAN /\ connecting' \in BOOLEAN /\ focus_handle' \in BOOLEAN
    BY <1>3 DEF IInv, Types, Flags
  <2>4. /\ UNCHANGED <<cb, buffer, frame_buf, freed, closeCalled>>
        /\ is_send_finished' = FALSE /\ data_end' = FALSE /\ mixed' = FALSE
    BY <1>1
  <2> QED
    BY <2>1, <2>2, <2>3, <2>4 DEF IInv, Types, Flags
<1>6. Names' /\ Numbers' /\ Served'
  BY <1>1, <1>3, <1>4 DEF State, IInv, Types, Names, Numbers, Served
<1>7. Queue' /\ CloseOrder'
  <2>1. "speak" \in Command
    BY DEF Command
  <2> QED
    BY <1>1, <2>1, TakeMessage DEF user, IInv, Types
<1>8. Session'
  BY <1>1, <1>2, <1>3 DEF Handle, Turn, IInv, Session
<1>9. First'
  <2>1. fault = "none" /\ sessions \in Nat
    BY <1>1 DEF Handle, Turn, IInv, Types, Numbers
  <2>2. sessions' # 0
    BY <1>1, <2>1
  <2>3. ASSUME sessions' <= 1
        PROVE  ~reused' /\ ~mixed' /\ fault' # "stale_pipe" /\ pipe' # "stale"
    <3>1. sessions = 0
      BY <1>1, <2>1, <2>3
    <3>2. ~lws_state /\ pipe = "none"
      BY <3>1 DEF IInv, First
    <3> QED
      BY <1>1, <1>3, <2>1, <3>2
  <2> QED
    BY <2>2, <2>3 DEF First
<1>10. EndedReleasesAll' /\ AudioFlows'
  BY <1>1 DEF IInv, EndedReleasesAll, AudioFlows
<1> QED
  BY <1>5, <1>6, <1>7, <1>8, <1>9, <1>10 DEF IInv, Types

LEMMA CloseKeeps ==
  ASSUME IInv, CloseL
  PROVE  IInv'
<1>1. /\ Handle("close") /\ "close" \in Command
      /\ state' = "CLOSE" /\ freed' = TRUE
      /\ handle' = FALSE /\ connecting' = FALSE /\ focus_handle' = FALSE /\ buffer' = FALSE
      /\ pipe' = pipe \/ (pipe = "open" /\ pipe' = "stale")
      /\ UNCHANGED <<cb, is_send_finished, items, frame_buf, data_end, lws_state, is_finished,
                     gone, user_asyncq, user_handle, closeCalled, sessions, reused, audio, event,
                     mixed, fault>>
  <2>1. "close" \in Command
    BY DEF Command
  <2>2. pipe' = pipe \/ (pipe = "open" /\ pipe' = "stale")
    BY DEF CloseL
  <2> QED
    BY <2>1, <2>2 DEF CloseL, plugin, user, past
<1>2. Flags'
  BY <1>1 DEF IInv, Types, Flags
<1>3. Names' /\ Numbers' /\ Served'
  BY <1>1 DEF State, IInv, Types, Names, Numbers, Served
<1>4. Queue' /\ CloseOrder'
  BY <1>1, TakeMessage DEF user, IInv, Types
<1>5. Session' /\ First' /\ EndedReleasesAll' /\ AudioFlows'
  BY <1>1 DEF IInv, Session, First, EndedReleasesAll, AudioFlows
<1> QED
  BY <1>2, <1>3, <1>4, <1>5 DEF IInv, Types

-----------------------------------------------------------------------------
\* The steps of the audio: they leave the text and its player as they are.

\* What a step may do to the ring and to the write in flight.
AudioStep ==
  /\ UNCHANGED <<state, cb, is_send_finished, handle, focus_handle, lws_state, is_finished,
                 gone, asyncq, user_handle, closeCalled, freed, sessions, reused>>
  /\ connecting' = connecting \/ connecting' = FALSE
  /\ buffer' = buffer \/ (buffer' = TRUE /\ ~is_finished)
  /\ frame_buf' \in BOOLEAN /\ data_end' \in BOOLEAN
  /\ sessions = 0 => ~frame_buf'
  /\ Numbers'
  /\ event' \in Event \cup {"none"}
  /\ mixed' = mixed \/ (mixed' = TRUE /\ reused)
  /\ pipe' = pipe \/ (connecting /\ pipe' = "open")
  /\ \/ fault' \in {"none", "no_ring"}
     \/ fault' = "stale_pipe" /\ pipe = "stale" /\ buffer'
  /\ AudioFlows'

LEMMA AudioStepKeeps ==
  ASSUME IInv, Turn, AudioStep
  PROVE  IInv'
<1>1. Flags'
  <2>1. buffer' \in BOOLEAN /\ connecting' \in BOOLEAN
    BY DEF AudioStep, IInv, Types, Flags
  <2>2. mixed' \in BOOLEAN
    BY DEF AudioStep, IInv, Types, Flags
  <2>3. /\ frame_buf' \in BOOLEAN /\ data_end' \in BOOLEAN
        /\ UNCHANGED <<cb, is_send_finished, handle, focus_handle, lws_state, is_finished>>
        /\ UNCHANGED <<closeCalled, freed, reused, gone>>
    BY DEF AudioStep
  <2> QED
    BY <2>1, <2>2, <2>3 DEF IInv, Types, Flags
<1>2. Names' /\ Served'
  BY DEF AudioStep, IInv, Types, Names, Served
<1>3. Queue' /\ CloseOrder'
  BY SameQueue DEF AudioStep, user, IInv, Types
<1>4. Session' /\ EndedReleasesAll'
  BY DEF AudioStep, IInv, Session, EndedReleasesAll
<1>5. First'
  <2>1. state # "CLOSE"
    BY DEF Turn, IInv, Session
  <2>2. state = "FINISH" => ~buffer'
    BY DEF AudioStep, IInv, EndedReleasesAll
  <2>3. connecting => state = "START"
    BY DEF IInv, Session
  <2>4. ASSUME sessions' = 0
        PROVE  /\ ~lws_state' /\ pipe' = "none" /\ ~frame_buf' /\ state' # "START"
               /\ fault' = "none" => state' # "FINISH"
    BY <2>3, <2>4 DEF AudioStep, Turn, IInv, First
  <2>5. ASSUME sessions' <= 1
        PROVE  /\ ~reused' /\ ~mixed' /\ fault' # "stale_pipe"
               /\ pipe' = "stale" => state' \in {"FINISH", "CLOSE"}
    <3>1. /\ sessions <= 1 /\ ~reused /\ ~mixed
          /\ pipe = "stale" => state = "FINISH"
      BY <2>1, <2>5 DEF AudioStep, IInv, First
    <3> QED
      BY <2>2, <3>1 DEF AudioStep
  <2> QED
    BY <2>4, <2>5 DEF First
<1> QED
  BY <1>1, <1>2, <1>3, <1>4, <1>5 DEF AudioStep, IInv, Types

\* After ai_tts_write_buf a write is in flight wherever one could begin.
LEMMA WriteBufFlows ==
  ASSUME Turn, NEW n \in 0 .. MaxItems, NEW idle \in BOOLEAN, WriteBuf(n, idle)
  PROVE  /\ items' \in 0 .. MaxItems /\ frame_buf' \in BOOLEAN
         /\ AudioFlows'
         /\ fault' = "none" \/ (fault' = "stale_pipe" /\ pipe' = "stale" /\ buffer')
<1>1. MaxItems \in Nat
  BY TtsAssumption
<1>2. CASE pipe' # "none" /\ buffer' /\ n > 0 /\ idle
  BY <1>1, <1>2 DEF WriteBuf, Turn, AudioFlows
<1>3. CASE ~(pipe' # "none" /\ buffer' /\ n > 0 /\ idle)
  <2>1. items' = n /\ fault' = "none" /\ frame_buf' = ~idle
    BY <1>3 DEF WriteBuf, Turn
  <2> QED
    BY <1>3, <2>1 DEF AudioFlows
<1> QED
  BY <1>2, <1>3

\* The ring holds what it can hold.
LEMMA QueuedFits ==
  ASSUME items \in 0 .. MaxItems
  PROVE  Queued(items) \in 1 .. MaxItems
BY TtsAssumption DEF Queued

LEMMA ConnectedKeeps ==
  ASSUME IInv, PlayerConnected
  PROVE  IInv'
<1>1. /\ Turn /\ connecting /\ connecting' = FALSE /\ pipe' = "open" /\ buffer' = buffer
      /\ WriteBuf(items, ~frame_buf)
      /\ UNCHANGED <<state, cb, is_send_finished, handle, focus_handle, data_end, lws_state,
                     is_finished, gone, asyncq, user_asyncq, user_handle, closeCalled, freed,
                     sessions, reused, audio, event, mixed>>
  BY DEF PlayerConnected, plugin, user, past
<1>2. /\ items' \in 0 .. MaxItems /\ frame_buf' \in BOOLEAN /\ AudioFlows' /\ fault' = "none"
  BY <1>1, WriteBufFlows DEF IInv, Types, Numbers
<1>3. sessions # 0
  BY <1>1 DEF IInv, Session, First
<1>4. Numbers' /\ data_end' \in BOOLEAN /\ event' \in Event \cup {"none"}
  BY <1>1, <1>2 DEF IInv, Types, Numbers, Flags, Names
<1>5. AudioStep
  BY <1>1, <1>2, <1>3, <1>4 DEF AudioStep
<1> QED
  BY <1>1, <1>5, AudioStepKeeps

LEMMA WriteDoneKeeps ==
  ASSUME IInv, WriteDone, ~Drained
  PROVE  IInv'
<1>1. /\ Turn /\ frame_buf
      /\ WriteBuf(items, TRUE)
      /\ UNCHANGED <<state, cb, is_send_finished, handle, connecting, pipe, focus_handle, buffer,
                     data_end, lws_state, is_finished, gone, asyncq, user_asyncq, user_handle,
                     closeCalled, freed, sessions, reused, audio, event, mixed>>
  BY DEF WriteDone, SendNothing, player, user, past
<1>2. /\ items' \in 0 .. MaxItems /\ frame_buf' \in BOOLEAN /\ AudioFlows'
      /\ fault' = "none" \/ (fault' = "stale_pipe" /\ pipe' = "stale" /\ buffer')
  BY <1>1, WriteBufFlows DEF IInv, Types, Numbers
<1>3. sessions # 0
  BY <1>1 DEF IInv, First
<1>4. Numbers' /\ data_end' \in BOOLEAN /\ event' \in Event \cup {"none"}
  BY <1>1, <1>2 DEF IInv, Types, Numbers, Flags, Names
<1>5. AudioStep
  BY <1>1, <1>2, <1>3, <1>4 DEF AudioStep
<1> QED
  BY <1>1, <1>5, AudioStepKeeps

LEMMA EngineAudioKeeps ==
  ASSUME IInv, NEW old \in BOOLEAN, EngineAudio(old)
  PROVE  IInv'
<1>1. /\ Turn /\ lws_state /\ ~is_finished /\ pipe' = pipe /\ buffer' = TRUE
      /\ UNCHANGED <<state, cb, is_send_finished, handle, connecting, focus_handle, data_end,
                     lws_state, is_finished, gone, asyncq, user_handle, closeCalled, freed, sessions,
                     reused>>
      /\ audio' = audio + 1
  BY DEF EngineAudio, Serving, plugin, user, past
<1>2. mixed' = mixed \/ (mixed' = TRUE /\ reused)
  BY DEF EngineAudio, IInv, Types, Flags
<1>3. sessions # 0
  BY <1>1 DEF IInv, First
<1>4. /\ items' \in 0 .. MaxItems /\ frame_buf' \in BOOLEAN /\ AudioFlows'
      /\ fault' = "none" \/ (fault' = "stale_pipe" /\ pipe' = "stale" /\ buffer')
  <2>1. CASE buffer /\ items > 0
    <3>1. items' = Queued(items) /\ UNCHANGED <<frame_buf, fault>>
      BY <2>1 DEF EngineAudio
    <3>2. AudioFlows'
      BY <1>1, <2>1, <3>1 DEF IInv, AudioFlows
    <3>3. items' \in 0 .. MaxItems
      BY <3>1, QueuedFits DEF IInv, Types, Numbers
    <3>4. frame_buf' \in BOOLEAN
      BY <3>1 DEF IInv, Types, Flags
    <3>5. fault' = "none"
      BY <1>1, <3>1 DEF Turn
    <3> QED
      BY <3>2, <3>3, <3>4, <3>5
  <2>2. CASE ~(buffer /\ items > 0)
    <3>1. WriteBuf(1, ~frame_buf)
      BY <2>2 DEF EngineAudio
    <3>2. 1 \in 0 .. MaxItems
      BY TtsAssumption
    <3>3. (~frame_buf) \in BOOLEAN
      OBVIOUS
    <3> QED
      BY <1>1, <3>1, <3>2, <3>3, WriteBufFlows
  <2> QED
    BY <2>1, <2>2
<1>5. event' \in Event \cup {"none"} /\ user_asyncq' \in Nat
  BY DEF EngineAudio, Send, Event, IInv, Types, Numbers
<1>6. Numbers' /\ data_end' \in BOOLEAN
  BY <1>1, <1>4, <1>5 DEF IInv, Types, Numbers, Flags
<1>7. AudioStep
  BY <1>1, <1>2, <1>3, <1>4, <1>5, <1>6 DEF AudioStep
<1> QED
  BY <1>1, <1>7, AudioStepKeeps

LEMMA EngineDataEndKeeps ==
  ASSUME IInv, EngineDataEnd
  PROVE  IInv'
<1>1. /\ Turn /\ lws_state /\ ~is_finished /\ UNCHANGED <<pipe, buffer>> /\ data_end' = TRUE
      /\ UNCHANGED <<state, cb, is_send_finished, handle, connecting, focus_handle, lws_state,
                     is_finished, gone, asyncq, user_asyncq, user_handle, closeCalled, freed, sessions,
                     reused, event, mixed>>
      /\ audio' = audio + 1
  BY DEF EngineDataEnd, Serving, plugin, user, past
<1>2. sessions # 0
  BY <1>1 DEF IInv, First
<1>3. /\ items' \in 0 .. MaxItems /\ frame_buf' \in BOOLEAN /\ AudioFlows'
      /\ \/ fault' \in {"none", "no_ring"}
         \/ fault' = "stale_pipe" /\ pipe' = "stale" /\ buffer'
  <2>1. CASE ~buffer
    <3>1. fault' = "no_ring" /\ UNCHANGED <<items, frame_buf>>
      BY <2>1 DEF EngineDataEnd
    <3>2. items' \in 0 .. MaxItems
      BY <3>1 DEF IInv, Types, Numbers
    <3>3. frame_buf' \in BOOLEAN
      BY <3>1 DEF IInv, Types, Flags
    <3> QED
      BY <3>1, <3>2, <3>3 DEF AudioFlows
  <2>2. CASE buffer /\ pipe # "none" /\ ~frame_buf /\ items > 0
    <3>1. /\ frame_buf' = TRUE /\ items' = 1
          /\ fault' = IF pipe = "stale" THEN "stale_pipe" ELSE fault
      BY <2>2 DEF EngineDataEnd
    <3> QED
      BY <1>1, <2>2, <3>1, TtsAssumption DEF AudioFlows, Turn
  <2>3. CASE buffer /\ ~(pipe # "none" /\ ~frame_buf /\ items > 0)
    <3>1. WriteBuf(Queued(items), ~frame_buf)
      BY <2>3 DEF EngineDataEnd
    <3>2. Queued(items) \in 0 .. MaxItems
      BY QueuedFits DEF IInv, Types, Numbers
    <3>3. (~frame_buf) \in BOOLEAN
      OBVIOUS
    <3> QED
      BY <1>1, <3>1, <3>2, <3>3, WriteBufFlows
  <2> QED
    BY <2>1, <2>2, <2>3
<1>4. Numbers' /\ event' \in Event \cup {"none"}
  BY <1>1, <1>3 DEF IInv, Types, Numbers, Names
<1>5. AudioStep
  BY <1>1, <1>2, <1>3, <1>4 DEF AudioStep
<1> QED
  BY <1>1, <1>5, AudioStepKeeps

-----------------------------------------------------------------------------
\* What is left: a failed player or a failed service without a listener, the end
\* of a write on a freed context, and the plugin's thread that destroys its
\* connection.
LEMMA OthersKeep ==
  ASSUME IInv, \/ (PrepareFails /\ ~Listening) \/ (ServiceFails /\ ~Listening)
               \/ WriteDoneFreed \/ PluginStopped \/ UNCHANGED vars
  PROVE  IInv'
<1>1. /\ UNCHANGED <<state, cb, is_send_finished, handle, focus_handle, pipe>>
      /\ UNCHANGED <<ring, asyncq, user_asyncq, user, freed, past, audio, event, mixed>>
  BY DEF PrepareFails, ServiceFails, SendNothing, WriteDoneFreed, PluginStopped, vars, player,
     plugin, ring
<1>2. connecting' = connecting \/ connecting' = FALSE
  BY DEF PrepareFails, ServiceFails, WriteDoneFreed, PluginStopped, vars, player
<1>3. \/ lws_state' = lws_state /\ is_finished' = is_finished
      \/ lws_state' = FALSE /\ is_finished' = is_finished /\ is_finished
      \/ lws_state' = FALSE /\ is_finished' = TRUE
  BY DEF PrepareFails, ServiceFails, WriteDoneFreed, PluginStopped, vars, plugin
<1>4. fault' = fault \/ (freed /\ frame_buf /\ fault' = "freed")
  BY DEF PrepareFails, ServiceFails, WriteDoneFreed, PluginStopped, vars
<1>12. gone' = gone \/ gone' = TRUE
  BY DEF PrepareFails, ServiceFails, WriteDoneFreed, PluginStopped, vars, plugin
<1>5. Flags'
  <2>1. connecting' \in BOOLEAN
    BY <1>2 DEF IInv, Types, Flags
  <2>2. lws_state' \in BOOLEAN
    BY <1>3 DEF IInv, Types, Flags
  <2>3. is_finished' \in BOOLEAN
    BY <1>3 DEF IInv, Types, Flags
  <2>4. gone' \in BOOLEAN
    BY <1>12 DEF IInv, Types, Flags
  <2> QED
    BY <1>1, <2>1, <2>2, <2>3, <2>4 DEF ring, user, past, IInv, Types, Flags
<1>6. Names' /\ Numbers'
  BY <1>1, <1>4 DEF ring, user, past, IInv, Types, Names, Numbers
<1>7. Served'
  BY <1>1, <1>3 DEF IInv, Types, Served
<1>8. Queue' /\ CloseOrder'
  BY <1>1, SameQueue DEF IInv, Types
<1>9. Session'
  BY <1>1, <1>2 DEF IInv, Session
<1>10. First'
  BY <1>1, <1>3, <1>4 DEF ring, past, IInv, First
<1>11. EndedReleasesAll' /\ AudioFlows'
  BY <1>1, <1>3, <1>4 DEF ring, IInv, EndedReleasesAll, AudioFlows
<1> QED
  BY <1>5, <1>6, <1>7, <1>8, <1>9, <1>10, <1>11 DEF IInv, Types

LEMMA NextKeeps ==
  ASSUME IInv, [Next]_vars
  PROVE  IInv'
<1>1. CASE (\E c \in Command \ {"close"} : Call(c)) \/ Close \/ UserQueueClosed \/ UserCallback
  BY <1>1, UserKeeps
<1>2. CASE MessageHandler
  <2>1. CASE StopL
    BY <2>1, EndingSteps, EndingKeeps
  <2> QED
    BY <1>2, <2>1, ListenerKeeps, SpeakKeeps, CloseKeeps DEF MessageHandler, SpeakL
<1>3. CASE PlayerConnected
  BY <1>3, ConnectedKeeps
<1>4. CASE PlayerError \/ FocusLost
  BY <1>4, EndingSteps, EndingKeeps
<1>5. CASE PrepareFails
  <2>1. CASE Listening
    BY <1>5, <2>1, EndingSteps, EndingKeeps
  <2>2. CASE ~Listening
    BY <1>5, <2>2, OthersKeep
  <2> QED
    BY <2>1, <2>2
<1>6. CASE WriteDone
  <2>1. CASE Drained
    BY <1>6, <2>1, EndingSteps, EndingKeeps
  <2>2. CASE ~Drained
    BY <1>6, <2>2, WriteDoneKeeps
  <2> QED
    BY <2>1, <2>2
<1>7. CASE WriteDoneFreed \/ PluginStopped \/ UNCHANGED vars
  BY <1>7, OthersKeep
<1>8. CASE Plugin
  <2>1. CASE \E old \in BOOLEAN : EngineAudio(old)
    BY <2>1, EngineAudioKeeps
  <2>2. CASE EngineDataEnd
    BY <2>2, EngineDataEndKeeps
  <2>3. CASE EngineError
    BY <2>3, EndingSteps, EndingKeeps
  <2>4. CASE ServiceFails
    BY <2>4, EndingSteps, EndingKeeps, OthersKeep
  <2> QED
    BY <1>8, <2>1, <2>2, <2>3, <2>4 DEF Plugin
<1> QED
  BY <1>1, <1>2, <1>3, <1>4, <1>5, <1>6, <1>7, <1>8 DEF Next

LEMMA Invariance == Spec => []IInv
<1> QED
  BY InitHolds, NextKeeps, PTL DEF Spec

-----------------------------------------------------------------------------
\* The types, the ring's capacity among them, and the order in which a
\* synthesiser ends: the context, which the user's queue is a part of, is freed
\* by ai_tts_close_handler when the user's loop is through with that queue.
THEOREM TypesAndEnd == Spec => []Inv
<1>1. IInv => Inv
  BY TypesAreTypeOK DEF IInv, Inv, FreedAfterUserQueue, CloseOrder, UserLoop
<1> QED
  BY <1>1, Invariance, PTL

\* However a text ends, by ai_tts_finish_handler from whatever callback, it
\* holds no player, no focus, no storage of the ring and no started plugin.
THEOREM TextsRelease == Spec => []EndedReleasesAll
<1>1. IInv => EndedReleasesAll
  BY DEF IInv
<1> QED
  BY <1>1, Invariance, PTL

\* Where audio waits and there is a pipe, a write is in flight, whichever of
\* the three callers of ai_tts_write_buf came last.
THEOREM AudioNeverStalls == Spec => []AudioFlows
<1>1. IInv => AudioFlows
  BY DEF IInv
<1> QED
  BY <1>1, Invariance, PTL

\* An engine's first text plays its own audio into its own player's pipe.
THEOREM FirstTextStaysClean == Spec => []FirstTextIsClean
<1>1. IInv => FirstTextIsClean
  BY DEF IInv, First, FirstTextIsClean
<1> QED
  BY <1>1, Invariance, PTL

-----------------------------------------------------------------------------
\* Step by step, a synthesiser does what its listener is promised.

ListenerStep == [Listener!Next]_(Listener!vars)

\* A step that the listener does not see.
LEMMA QuietIsListenerStep ==
  ASSUME UNCHANGED <<sessions, is_send_finished, event>>
  PROVE  ListenerStep
BY DEF ListenerStep, ListenerPhase, Listener!vars

\* A text of whose end the listener was not told yet is open.
LEMMA OpenPhase ==
  ASSUME Listening, sessions # 0
  PROVE  ListenerPhase = "open"
BY DEF Listening, ListenerPhase

LEMMA EndingIsListenerStep ==
  ASSUME IInv, NEW e \in {"complete", "error"}, Ending(e)
  PROVE  ListenerStep
<1>1. Told(e) /\ sessions' = sessions
  BY EndSessionTells DEF Ending, past, IInv, Types, Numbers
<1>2. CASE event' = event /\ is_send_finished' = is_send_finished
  BY <1>1, <1>2, QuietIsListenerStep
<1>3. CASE Listening /\ fault' = "none" /\ event' = e /\ is_send_finished' = TRUE
  <2>1. sessions # 0
    BY <1>3, EndingAnswers
  <2>2. ListenerPhase = "open"
    BY <1>3, <2>1, OpenPhase
  <2>3. ListenerPhase' = "idle"
    BY <1>3 DEF ListenerPhase
  <2> QED
    BY <1>3, <2>2, <2>3 DEF ListenerStep, Listener!Next, Listener!End
<1> QED
  BY <1>1, <1>2, <1>3 DEF Told

LEMMA SpeakIsListenerStep ==
  ASSUME IInv, SpeakPluginFails \/ SpeakPlayerFails \/ SpeakSucceeds
  PROVE  ListenerStep
<1>1. sessions' = sessions + 1 /\ is_send_finished' = FALSE
  BY DEF SpeakPluginFails, SpeakPlayerFails, SpeakSucceeds, SpeakSession
<1>2. event' \in {event, "start"}
  BY DEF SpeakPluginFails, SpeakPlayerFails, SpeakSucceeds, Send, SendNothing
<1>3. sessions' # 0
  BY <1>1 DEF IInv, Types, Numbers
<1>4. ListenerPhase' = "open"
  BY <1>1, <1>3 DEF ListenerPhase
<1> QED
  BY <1>2, <1>4 DEF ListenerStep, Listener!Next, Listener!Open

LEMMA AudioIsListenerStep ==
  ASSUME IInv, NEW old \in BOOLEAN, EngineAudio(old)
  PROVE  ListenerStep
<1>1. Listening /\ lws_state /\ event' = "data" /\ UNCHANGED <<sessions, is_send_finished>>
  BY DEF EngineAudio, Serving, Send, past
<1>2. ListenerPhase = "open"
  BY <1>1, OpenPhase DEF IInv, First
<1>3. UNCHANGED ListenerPhase
  BY <1>1 DEF ListenerPhase
<1> QED
  BY <1>1, <1>2, <1>3 DEF ListenerStep, Listener!Next, Listener!Report

\* The steps that neither tell the listener anything nor begin a text.
LEMMA QuietSteps ==
  ASSUME \/ (\E c \in Command \ {"close"} : Call(c)) \/ Close \/ UserQueueClosed \/ UserCallback
         \/ SetListenerL \/ SpeakIgnored \/ CloseL \/ PlayerConnected
         \/ PrepareFails /\ ~Listening
         \/ ServiceFails /\ ~Listening
         \/ WriteDone /\ ~Drained
         \/ WriteDoneFreed \/ EngineDataEnd \/ PluginStopped \/ UNCHANGED vars
  PROVE  ListenerStep
<1>1. CASE (\E c \in Command \ {"close"} : Call(c)) \/ Close \/ UserQueueClosed \/ UserCallback
  BY <1>1, QuietIsListenerStep DEF Call, Close, UserQueueClosed, UserCallback, past
<1>2. CASE SetListenerL \/ SpeakIgnored \/ CloseL
  BY <1>2, QuietIsListenerStep DEF SetListenerL, SpeakIgnored, CloseL, past
<1>3. CASE PlayerConnected \/ (PrepareFails /\ ~Listening)
  BY <1>3, QuietIsListenerStep DEF PlayerConnected, PrepareFails, SendNothing, past
<1>4. CASE (WriteDone /\ ~Drained) \/ WriteDoneFreed
  BY <1>4, QuietIsListenerStep DEF WriteDone, WriteDoneFreed, SendNothing, past
<1>5. CASE EngineDataEnd \/ PluginStopped \/ (ServiceFails /\ ~Listening)
  BY <1>5, QuietIsListenerStep DEF EngineDataEnd, PluginStopped, ServiceFails, SendNothing, past
<1>6. CASE UNCHANGED vars
  BY <1>6, QuietIsListenerStep DEF vars, past
<1> QED
  BY <1>1, <1>2, <1>3, <1>4, <1>5, <1>6

LEMMA StepIsListenerStep ==
  ASSUME IInv, [Next]_vars
  PROVE  ListenerStep
<1>1. CASE \/ StopL \/ FocusLost \/ PlayerError \/ EngineError
           \/ (PrepareFails /\ Listening) \/ (WriteDone /\ Drained)
           \/ (ServiceFails /\ Listening)
  BY <1>1, EndingSteps, EndingIsListenerStep
<1>2. CASE SpeakPluginFails \/ SpeakPlayerFails \/ SpeakSucceeds
  BY <1>2, SpeakIsListenerStep
<1>3. CASE \E old \in BOOLEAN : EngineAudio(old)
  BY <1>3, AudioIsListenerStep
<1> QED
  BY <1>1, <1>2, <1>3, QuietSteps DEF Next, MessageHandler, SpeakL, Plugin

\* The synthesiser implements the listener's contract: a text is answered once
\* at most, and nothing is reported between two texts.
THEOREM Implements == Spec => IsListener
<1>1. Init => Listener!Init
  BY DEF Init, Listener!Init, ListenerPhase
<1>2. IInv /\ [Next]_vars => [Listener!Next]_(Listener!vars)
  BY StepIsListenerStep DEF ListenerStep
<1> QED
  BY <1>1, <1>2, Invariance, PTL DEF Spec, IsListener, Listener!Spec
=============================================================================
