-------------------------------- MODULE Tts --------------------------------
(***************************************************************************)
(* src/tts/ai_tts.c: a speech synthesiser, with what it sees of its plugin *)
(* src/tts/volc/ai_volc_tts.c.                                             *)
(*                                                                         *)
(* The parties are those of module Asr.  The audio of a text goes from the *)
(* plugin's callback through a ring buffer to the pipe of a media player,  *)
(* at most one uv_write at a time (frame_buf), and the end of that write   *)
(* starts the next one.                                                    *)
(*                                                                         *)
(* The ring is counted in chunks: how many it holds is what the code looks *)
(* at.  Code that dereferences NULL, or uses memory that was given back,   *)
(* has no defined behaviour: fault says which, and nothing is modelled     *)
(* beyond it.                                                              *)
(*                                                                         *)
(* Assumed of the media library: a prepared player answers once, with its  *)
(* pipe or an error; closing a player closes its pipe, whose pending write *)
(* is then answered too; an abandoned focus request reports nothing.       *)
(* Assumed of the user: ai_tts_close is the last call on a context.        *)
(*                                                                         *)
(* The plugin's thread is the engine thread.  When lws_service fails it    *)
(* reports the error, leaves its loop and frees the queue of messages:     *)
(* from then on nothing of this module runs on it any more (gone).  What   *)
(* the media library still answers while the thread closes the handles of  *)
(* its loop is left out; no event can come of it, the text being ended or  *)
(* without a listener.                                                     *)
(***************************************************************************)
EXTENDS Integers, Sequences, FiniteSets

CONSTANTS
  MaxItems,     \* how many chunks the ring holds
  MaxAudio,     \* bound on the chunks and sentence ends sent for one text
  MaxSessions,  \* bound on the texts
  MaxPending    \* bound on the messages waiting in a queue

ASSUME TtsAssumption ==
  /\ MaxItems \in Nat \ {0}
  /\ MaxAudio \in Nat /\ MaxSessions \in Nat /\ MaxPending \in Nat

VARIABLES
  state,             \* ctx->state, a tts_state_t
  cb,                \* ctx->cb # NULL
  is_send_finished,
  handle,            \* ctx->handle # NULL: a player is open
  connecting,        \* the player has not answered media_uv_player_prepare yet
  focus_handle,      \* ctx->focus_handle # NULL
  pipe,              \* ctx->pipe: "none", "open", or "stale", of a closed player
  buffer,            \* ctx->buffer.buffer # NULL: the ring has its storage
  items,             \* chunks between the ring's indices
  frame_buf,         \* ctx->frame_buf # NULL: a write is in flight
  data_end,
  lws_state,         \* the plugin's ctx->state # NULL: there is a connection
  is_finished,       \* the plugin's
  gone,              \* the engine thread has left its loop, and freed asyncq
  asyncq,            \* messages to the engine thread
  user_asyncq,       \* number of events queued for the user's loop
  user_handle,       \* that queue's handle: "open", "closing", "closed", or
                     \* "none": no loop came with tts_init_params_t
  freed,             \* the context was freed
  \* What the properties need to remember.
  sessions,          \* texts accepted
  audio,             \* chunks and sentence ends received for the latest text
  event,             \* the latest event sent to the listener
  closeCalled,       \* the user has called ai_tts_close
  reused,            \* the latest text went to the connection of an earlier one
  mixed,             \* audio of an earlier text was taken for that of the latest
  fault              \* "none", or the undefined behaviour that was reached

player == <<handle, connecting, pipe>>
ring == <<buffer, items, frame_buf, data_end>>
plugin == <<lws_state, is_finished, gone>>
user == <<user_handle, closeCalled>>
past == <<sessions, reused>>
vars == <<state, cb, is_send_finished, player, focus_handle, ring, plugin, asyncq,
          user_asyncq, user, freed, past, audio, event, mixed, fault>>

\* ctx->user_loop # NULL.
UserLoop == user_handle # "none"

State == {"INIT", "START", "FINISH", "CLOSE"}
Command == {"listen", "unlisten", "speak", "stop", "close"}
Event == {"start", "data", "complete", "error"}

Init ==
  /\ state = "INIT" /\ cb = FALSE /\ is_send_finished = FALSE
  /\ handle = FALSE /\ connecting = FALSE /\ focus_handle = FALSE /\ pipe = "none"
  /\ buffer = FALSE /\ items = 0 /\ frame_buf = FALSE /\ data_end = FALSE
  /\ lws_state = FALSE /\ is_finished = TRUE /\ gone = FALSE
  /\ asyncq = <<>> /\ user_asyncq = 0 /\ user_handle \in {"none", "open"} /\ freed = FALSE
  /\ sessions = 0 /\ audio = 0 /\ event = "none" /\ closeCalled = FALSE
  /\ reused = FALSE /\ mixed = FALSE /\ fault = "none"

-----------------------------------------------------------------------------
\* The user's calls.

\* uv_async_queue_send.  ctx->asyncq is kept when the thread frees the queue.
Post(c) ==
  IF gone
  THEN fault' = (IF fault = "none" THEN "no_queue" ELSE fault) /\ UNCHANGED asyncq
  ELSE asyncq' = Append(asyncq, c) /\ UNCHANGED fault

Waiting(c) == Cardinality({i \in 1 .. Len(asyncq) : asyncq[i] = c})

Call(c) ==
  /\ ~closeCalled /\ Len(asyncq) < MaxPending
  /\ c = "speak" => sessions + Waiting("speak") < MaxSessions
  /\ Post(c)
  /\ UNCHANGED <<state, cb, is_send_finished, player, focus_handle, ring, plugin,
                 user_asyncq, user, freed, past, audio, event, mixed>>

\* ai_tts_close: with a user loop, its queue is closed before the engine thread
\* hears of it.
CloseHasty ==
  /\ ~closeCalled /\ closeCalled' = TRUE
  /\ Post("close")
  /\ user_handle' = IF UserLoop THEN "closing" ELSE user_handle
  /\ UNCHANGED <<state, cb, is_send_finished, player, focus_handle, ring, plugin,
                 user_asyncq, freed, past, audio, event, mixed>>

Close ==
  /\ ~closeCalled /\ closeCalled' = TRUE
  /\ IF UserLoop
     THEN user_handle' = "closing" /\ UNCHANGED <<asyncq, fault>>
     ELSE Post("close") /\ UNCHANGED user_handle
  /\ UNCHANGED <<state, cb, is_send_finished, player, focus_handle, ring, plugin,
                 user_asyncq, freed, past, audio, event, mixed>>

\* ai_tts_uvasyncq_close_cb, on the user's loop.
UserQueueClosed ==
  /\ user_handle = "closing" /\ user_handle' = "closed"
  /\ Post("close")
  /\ UNCHANGED <<state, cb, is_send_finished, player, focus_handle, ring, plugin,
                 user_asyncq, closeCalled, freed, past, audio, event, mixed>>

\* ai_tts_callback_l, on the user's loop; a queue that is closing delivers no more.
UserCallback ==
  /\ user_asyncq > 0 /\ user_handle = "open"
  /\ user_asyncq' = user_asyncq - 1
  /\ UNCHANGED <<state, cb, is_send_finished, player, focus_handle, ring, plugin,
                 asyncq, user, freed, past, audio, event, mixed, fault>>

-----------------------------------------------------------------------------
\* Helpers of the engine thread's handlers.

Turn == ~freed /\ ~gone /\ fault = "none"

Handle(c) ==
  /\ Turn
  /\ asyncq # <<>> /\ Head(asyncq) = c
  /\ asyncq' = Tail(asyncq)

\* ai_tts_voice_callback goes on past its two early returns.
Listening == cb /\ ~is_send_finished /\ state # "CLOSE"

Send(e) ==
  /\ event' = e
  /\ user_asyncq' = IF UserLoop THEN user_asyncq + 1 ELSE user_asyncq

SendNothing == UNCHANGED <<event, user_asyncq>>

\* volc_tts_stop looks at ctx->state->conn_state before it looks at ctx->state.
Stop == /\ is_finished' = TRUE
        /\ fault' = IF lws_state THEN fault ELSE "stop_null"

FinishHandlerKeepRing ==
  IF state = "FINISH"
  THEN UNCHANGED <<state, player, focus_handle, buffer, is_finished, fault>>
  ELSE /\ state' = "FINISH"
       /\ handle' = FALSE /\ connecting' = FALSE
       /\ pipe' = IF pipe = "open" THEN "stale" ELSE pipe
       /\ focus_handle' = FALSE
       /\ UNCHANGED buffer
       /\ Stop

\* ai_tts_finish_handler.  ctx->pipe is left as it is: it is the media library
\* that closes what it points to.
FinishHandler ==
  IF state = "FINISH"
  THEN UNCHANGED <<state, player, focus_handle, buffer, is_finished, fault>>
  ELSE /\ state' = "FINISH"
       /\ handle' = FALSE /\ connecting' = FALSE
       /\ pipe' = IF pipe = "open" THEN "stale" ELSE pipe
       /\ focus_handle' = FALSE
       /\ buffer' = FALSE
       /\ Stop

EndSessionTwice(e) ==
  /\ FinishHandler
  /\ UNCHANGED is_send_finished
  /\ IF Listening /\ fault' = "none" THEN Send(e) ELSE SendNothing

\* ai_tts_finish_handler and then ai_tts_voice_callback with the last event.
EndSession(e) ==
  /\ FinishHandler
  /\ IF Listening /\ fault' = "none"
     THEN Send(e) /\ is_send_finished' = TRUE
     ELSE SendNothing /\ UNCHANGED is_send_finished

\* ai_tts_write_buf, on a ring of n chunks; idle: no write is in flight.
WriteBuf(n, idle) ==
  LET writes == pipe' # "none" /\ buffer' /\ n > 0 /\ idle IN
  /\ frame_buf' = (writes \/ ~idle)
  /\ items' = IF writes THEN 0 ELSE n
  /\ fault' = IF writes /\ pipe' = "stale" THEN "stale_pipe" ELSE fault

\* Queueing into a full ring gives up its oldest characters.
Queued(n) == IF n < MaxItems THEN n + 1 ELSE n

-----------------------------------------------------------------------------
\* Message handlers.

SetListenerL ==
  /\ \/ Handle("listen") /\ cb' = TRUE
     \/ Handle("unlisten") /\ cb' = FALSE
  /\ UNCHANGED <<state, is_send_finished, player, focus_handle, ring, plugin,
                 user_asyncq, user, freed, past, audio, event, mixed, fault>>

\* A text in state START is ignored.
SpeakIgnored ==
  /\ Handle("speak") /\ state = "START"
  /\ UNCHANGED <<state, cb, is_send_finished, player, focus_handle, ring, plugin,
                 user_asyncq, user, freed, past, audio, event, mixed, fault>>

\* What every other text does before anything can fail.
SpeakSession ==
  /\ Handle("speak") /\ state # "START"
  /\ state' = "START"
  /\ is_send_finished' = FALSE
  /\ data_end' = FALSE
  /\ sessions' = sessions + 1
  /\ audio' = 0 /\ mixed' = FALSE
  /\ UNCHANGED <<cb, buffer, items, frame_buf, user, freed, fault>>

\* plugin->speak failed: an empty text, or no connection.
SpeakPluginFails ==
  /\ SpeakSession
  /\ reused' = FALSE
  /\ SendNothing
  /\ UNCHANGED <<player, focus_handle, plugin>>

\* plugin->speak: a connection that was not destroyed yet is used again.
PluginSpeaks ==
  /\ reused' = lws_state
  /\ lws_state' = TRUE
  /\ is_finished' = FALSE
  /\ UNCHANGED gone

\* No focus, no player, or a player that could not be set up and was closed.
\* (ctx->handle is NULL here: a player is open in state START only.)
SpeakPlayerFails ==
  /\ SpeakSession
  /\ PluginSpeaks
  /\ focus_handle' \in BOOLEAN
  /\ SendNothing
  /\ UNCHANGED player

SpeakSucceeds ==
  /\ SpeakSession
  /\ PluginSpeaks
  /\ focus_handle' \in BOOLEAN
  /\ handle' = TRUE /\ connecting' = TRUE
  /\ IF cb THEN Send("start") ELSE SendNothing
  /\ UNCHANGED pipe

StopL ==
  /\ Handle("stop")
  /\ EndSession("complete")
  /\ UNCHANGED <<cb, items, frame_buf, data_end, lws_state, gone, user, freed, past,
                 audio, mixed>>

\* ai_tts_close_handler frees the context, whatever is still going on.
CloseLBetweenTexts ==
  /\ Handle("close")
  /\ IF state = "START"
     THEN UNCHANGED <<state, freed, player, focus_handle, buffer>>
     ELSE /\ state' = "CLOSE" /\ freed' = TRUE
          /\ UNCHANGED <<player, focus_handle, buffer>>
  /\ UNCHANGED <<cb, is_send_finished, items, frame_buf, data_end, plugin, user_asyncq,
                 user, past, audio, event, mixed, fault>>

CloseL ==
  /\ Handle("close")
  /\ state' = "CLOSE" /\ freed' = TRUE
  /\ handle' = FALSE /\ connecting' = FALSE /\ focus_handle' = FALSE /\ buffer' = FALSE
  /\ pipe' = IF pipe = "open" THEN "stale" ELSE pipe
  /\ UNCHANGED <<cb, is_send_finished, items, frame_buf, data_end, plugin, user_asyncq,
                 user, past, audio, event, mixed, fault>>

-----------------------------------------------------------------------------
\* Media callbacks.

\* media_player_prepare_connect_cb.
PlayerConnectedIdle ==
  /\ Turn /\ connecting
  /\ connecting' = FALSE
  /\ pipe' = "open"
  /\ UNCHANGED <<state, cb, is_send_finished, handle, focus_handle, ring, plugin,
                 asyncq, user_asyncq, user, freed, past, audio, event, mixed, fault>>

PlayerConnected ==
  /\ Turn /\ connecting
  /\ connecting' = FALSE
  /\ pipe' = "open"
  /\ UNCHANGED buffer
  /\ WriteBuf(items, ~frame_buf)
  /\ UNCHANGED <<state, cb, is_send_finished, handle, focus_handle, data_end, plugin,
                 asyncq, user_asyncq, user, freed, past, audio, event, mixed>>

\* The prepare failed: reported to a listener, if there is one.
PrepareFails ==
  /\ Turn /\ connecting
  /\ IF Listening
     THEN EndSession("error")
     ELSE /\ connecting' = FALSE
          /\ SendNothing
          /\ UNCHANGED <<state, is_send_finished, handle, pipe, focus_handle, buffer,
                         is_finished, fault>>
  /\ UNCHANGED <<cb, items, frame_buf, data_end, lws_state, gone, asyncq, user, freed,
                 past, audio, mixed>>

\* ret < 0 in the open, start or event callback: ai_tts_send_error.
PlayerError ==
  /\ Turn /\ handle /\ Listening
  /\ EndSession("error")
  /\ UNCHANGED <<cb, items, frame_buf, data_end, lws_state, gone, asyncq, user, freed,
                 past, audio, mixed>>

FocusLost ==
  /\ Turn /\ focus_handle
  /\ EndSession("complete")
  /\ UNCHANGED <<cb, items, frame_buf, data_end, lws_state, gone, asyncq, user, freed,
                 past, audio, mixed>>

\* media_player_write_cb: the session is complete, or the next write starts.
Drained == data_end /\ items = 0

WriteDoneForgets ==
  /\ Turn /\ frame_buf
  /\ frame_buf' = FALSE
  /\ IF Drained
     THEN EndSession("complete")
     ELSE /\ SendNothing
          /\ UNCHANGED <<state, is_send_finished, player, focus_handle, buffer,
                         is_finished, fault>>
  /\ UNCHANGED <<items, cb, data_end, lws_state, gone, asyncq, user, freed, past, audio, mixed>>

WriteDone ==
  /\ Turn /\ frame_buf
  /\ IF Drained
     THEN EndSession("complete") /\ frame_buf' = FALSE /\ UNCHANGED items
     ELSE /\ UNCHANGED <<state, is_send_finished, player, focus_handle, buffer,
                         is_finished>>
          /\ WriteBuf(items, TRUE)
          /\ SendNothing
  /\ UNCHANGED <<cb, data_end, lws_state, gone, asyncq, user, freed, past, audio, mixed>>

\* The same callback, on a context that ai_tts_close_handler has freed.
WriteDoneFreed ==
  /\ freed /\ frame_buf /\ fault = "none"
  /\ fault' = "freed"
  /\ UNCHANGED <<state, cb, is_send_finished, player, focus_handle, ring, plugin,
                 asyncq, user_asyncq, user, freed, past, audio, event, mixed>>

-----------------------------------------------------------------------------
\* The plugin's callbacks into ai_tts_voice_callback, while it is started.

Serving == Turn /\ lws_state /\ ~is_finished

\* A chunk of audio; old: it belongs to an earlier text, whose connection the
\* latest one went to.
EngineAudio(old) ==
  /\ Serving /\ Listening
  /\ old => reused
  /\ audio < MaxAudio /\ user_asyncq < MaxPending
  /\ audio' = audio + 1
  /\ mixed' = (mixed \/ old)
  /\ UNCHANGED pipe
  /\ buffer' = TRUE
  /\ IF buffer /\ items > 0
     THEN items' = Queued(items) /\ UNCHANGED <<frame_buf, fault>>
     ELSE WriteBuf(1, ~frame_buf)
  /\ Send("data")
  /\ UNCHANGED <<state, cb, is_send_finished, handle, connecting, focus_handle,
                 data_end, plugin, asyncq, user, freed, past>>

\* The end of a sentence: silence is queued behind the audio.  No listener is
\* told, and a ring without storage is written to as well.
EngineDataEnd ==
  /\ Serving /\ Listening
  /\ audio < MaxAudio
  /\ audio' = audio + 1
  /\ data_end' = TRUE
  /\ UNCHANGED <<pipe, buffer>>
  /\ IF ~buffer
     THEN fault' = "no_ring" /\ UNCHANGED <<items, frame_buf>>
     ELSE IF pipe # "none" /\ ~frame_buf /\ items > 0
     THEN /\ frame_buf' = TRUE
          /\ items' = 1
          /\ fault' = IF pipe = "stale" THEN "stale_pipe" ELSE fault
     ELSE WriteBuf(Queued(items), ~frame_buf)
  /\ UNCHANGED <<state, cb, is_send_finished, handle, connecting, focus_handle, plugin,
                 asyncq, user_asyncq, user, freed, past, event, mixed>>

\* An error answer, or a connection that could not be made.
EngineError ==
  /\ Serving /\ Listening
  /\ EndSession("error")
  /\ UNCHANGED <<cb, items, frame_buf, data_end, lws_state, gone, asyncq, user, freed,
                 past, audio, mixed>>

\* lws_service has failed: the listener is told as of any error, and the thread
\* leaves its loop, destroys the connection and frees the queue with what waits
\* in it.
ServiceFails ==
  /\ Serving
  /\ IF Listening
     THEN EndSession("error")
     ELSE /\ SendNothing
          /\ is_finished' = TRUE
          /\ UNCHANGED <<state, is_send_finished, player, focus_handle, buffer, fault>>
  /\ gone' = TRUE /\ lws_state' = FALSE
  /\ UNCHANGED <<cb, items, frame_buf, data_end, asyncq, user, freed, past, audio,
                 mixed>>

\* volc_tts_uvloop_thread, between two rounds of callbacks: the connection of a
\* finished text is destroyed.
PluginStopped ==
  /\ Turn /\ lws_state /\ is_finished
  /\ lws_state' = FALSE
  /\ UNCHANGED <<state, cb, is_send_finished, player, focus_handle, ring, is_finished,
                 gone, asyncq, user_asyncq, user, freed, past, audio, event, mixed, fault>>

-----------------------------------------------------------------------------
SpeakL == SpeakIgnored \/ SpeakPluginFails \/ SpeakPlayerFails \/ SpeakSucceeds

MessageHandler == SetListenerL \/ SpeakL \/ StopL \/ CloseL

Plugin == (\E old \in BOOLEAN : EngineAudio(old)) \/ EngineDataEnd \/ EngineError \/ ServiceFails

Next ==
  \/ \E c \in Command \ {"close"} : Call(c)
  \/ Close \/ UserQueueClosed \/ UserCallback
  \/ MessageHandler
  \/ PlayerConnected \/ PrepareFails \/ PlayerError \/ FocusLost
  \/ WriteDone \/ WriteDoneFreed
  \/ Plugin \/ PluginStopped

\* The engine thread handles its messages until it leaves its loop, the user's
\* loop keeps running, a prepared player answers and a write ends; nothing is
\* asked of the user, of the server or of the network.
Fairness ==
  /\ WF_vars(MessageHandler)
  /\ WF_vars(UserQueueClosed \/ UserCallback)
  /\ WF_vars(PlayerConnected \/ PrepareFails)
  /\ WF_vars(WriteDone)

Spec == Init /\ [][Next]_vars

FairSpec == Spec /\ Fairness
-----------------------------------------------------------------------------
\* Every variable has its type, and the plugin is started only on a connection.
TypeOK ==
  /\ state \in State
  /\ cb \in BOOLEAN /\ is_send_finished \in BOOLEAN
  /\ handle \in BOOLEAN /\ connecting \in BOOLEAN /\ focus_handle \in BOOLEAN
  /\ pipe \in {"none", "open", "stale"}
  /\ buffer \in BOOLEAN /\ items \in 0 .. MaxItems
  /\ frame_buf \in BOOLEAN /\ data_end \in BOOLEAN
  /\ lws_state \in BOOLEAN /\ is_finished \in BOOLEAN
  /\ ~is_finished => lws_state
  /\ gone \in BOOLEAN
  /\ asyncq \in Seq(Command) /\ user_asyncq \in Nat
  /\ user_handle \in {"none", "open", "closing", "closed"} /\ freed \in BOOLEAN
  /\ sessions \in Nat /\ audio \in Nat
  /\ event \in Event \cup {"none"} /\ closeCalled \in BOOLEAN
  /\ reused \in BOOLEAN /\ mixed \in BOOLEAN
  /\ fault \in {"none", "stop_null", "stale_pipe", "no_ring", "no_queue", "freed"}

\* A text that is over, in whatever way, has given back the player, the audio
\* focus, the ring's storage and the server's attention.
EndedReleasesAll ==
  state \in {"INIT", "FINISH"} =>
    ~handle /\ ~focus_handle /\ ~buffer /\ is_finished

\* Audio never waits for nothing: where there is a pipe to write it to, a write
\* is in flight, whose end takes the next chunk.
AudioFlows ==
  fault = "none" /\ ~freed /\ buffer /\ items > 0 /\ pipe # "none" => frame_buf

\* The context, of which the user's queue is a part, is not freed before the
\* user's loop is through with that queue.
FreedAfterUserQueue == freed /\ UserLoop => user_handle = "closed"

\* What holds of a synthesiser at any time: the types, which the ring's capacity
\* is part of, and the order in which its end comes.
Inv == TypeOK /\ FreedAfterUserQueue

\* What a closed player or an earlier text has left behind is met by a later
\* text at the earliest: the first text of an engine writes to its own player
\* only and plays its own audio only.
FirstTextIsClean == sessions <= 1 => ~mixed /\ fault # "stale_pipe"

\* What the listener can tell of the state of a synthesiser.
ListenerPhase == IF sessions = 0 \/ is_send_finished THEN "idle" ELSE "open"

Listener == INSTANCE TtsListener WITH phase <- ListenerPhase

\* The listener gets what TtsListener promises.
IsListener == Listener!Spec

\* A text whose audio has all arrived comes to its end, if its player has given
\* or still gives an answer and as long as there is a listener: no write is
\* forgotten and no end overlooked.
DataEndEnds ==
  (state = "START" /\ data_end /\ (connecting \/ pipe = "open")) ~>
    (state # "START" \/ ~cb \/ fault # "none")

\* A close frees the context, whatever text is going on and in whatever order
\* the player, the server and the user's loop go on with it, as long as there is
\* an engine thread: one that a failure of lws_service has ended hears of no
\* close, even of one that waits in its queue, and the context is lost.
CloseFrees == closeCalled ~> (freed \/ gone \/ fault # "none")

-----------------------------------------------------------------------------
\* What the plugin says of stop and does not keep: "state is NULL" is an answer,
\* not a crash.
StopWithoutConnection == fault # "stop_null"
=============================================================================
