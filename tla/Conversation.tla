---------------------------- MODULE Conversation ----------------------------
(***************************************************************************)
(* src/conversation/ai_conversation.c: a spoken conversation, a recorder   *)
(* and a player around a conversation plugin.                              *)
(*                                                                         *)
(* Unlike the other two engines this one runs its message handlers and     *)
(* media callbacks on the user's loop.  The engine thread of the plugin    *)
(* only calls conversation_engine_event_cb, which puts audio into the      *)
(* player's ring and an event on the user's queue.  The first write of a   *)
(* context is started by that thread, every later one by the end of the    *)
(* write before.                                                           *)
(*                                                                         *)
(* Audio comes in chunks of different lengths; a unit stands for the bytes *)
(* of it that the lengths, the frame of a uv_write and the ring are        *)
(* multiples of, and units are numbered in the order in which the ring     *)
(* takes them.  Code that uses memory that was given back, a closed pipe   *)
(* or a NULL connection has no defined behaviour: fault says which, and    *)
(* nothing is modelled beyond it.                                          *)
(*                                                                         *)
(* Assumed of the media library: a prepared player answers at most once;   *)
(* closing a player closes its pipe, whose pending write is then answered. *)
(* Assumed of the plugin: events come from a connection, which start makes *)
(* and which may end by itself; finish and cancel write to it.             *)
(* Assumed of the user: ai_conversation_close is the last call.            *)
(***************************************************************************)
EXTENDS Integers, Sequences

CONSTANTS
  MaxItems,    \* how many units the ring holds
  FrameSize,   \* how many units one write takes at most: 4096 bytes
  Lengths,     \* the lengths, in units, of the chunks the server sends
  MaxAudio,    \* bound on the units the server sends before its last chunk
  MaxStarts,   \* bound on the starts
  MaxPending   \* bound on the messages waiting in a queue

ASSUME ConversationAssumption ==
  /\ MaxItems \in Nat \ {0} /\ FrameSize \in Nat \ {0}
  /\ Lengths \subseteq Nat \ {0}
  /\ MaxAudio \in Nat /\ MaxStarts \in Nat /\ MaxPending \in Nat

VARIABLES
  state,         \* ctx->state; is_closed is set with "CLOSE" and only then
  closing,       \* what the close handler has before it: "uninit", "release"
  cb,            \* ctx->cb # NULL
  recorder,      \* ctx->recorder_handle # NULL
  player,        \* ctx->player_handle # NULL
  focus,         \* ctx->focus_handle # NULL
  connecting,    \* the player has not answered media_uv_player_prepare yet
  player_pipe,   \* "none", "open", or "stale", of a closed player
  buffer,        \* the units in the player's ring
  has_buffer,    \* ctx->buffer.buffer # NULL
  write_data,    \* ctx->write_req.data # NULL
  writes,        \* uv_writes of frame_buf in flight
  connected,     \* the plugin has a connection (volc: wsi # NULL)
  leaving,       \* the plugin was freed before its thread was through
  asyncq,        \* messages to the handlers
  user_asyncq,   \* number of events queued for the listener
  user_handle,   \* that queue's handle: "open", "closing"
  freed,         \* the context was freed
  \* What the properties need to remember.
  recorders,     \* recorders opened and not closed
  players,       \* players opened and not closed
  focuses,       \* focus requests granted and not abandoned
  failed,        \* some start has failed
  starts,        \* starts handled
  queued,        \* the latest unit a ring took
  sent,          \* units that writes took, and all that came before the ring
  lost,          \* units of the ring overwritten by later ones
  dropped,       \* units refused by a full ring or without a player
  closeCalled,   \* the user has called ai_conversation_close
  fault          \* "none", or the undefined behaviour that was reached

media == <<recorder, player, focus, recorders, players, focuses>>
pipe == <<connecting, player_pipe>>
ring == <<buffer, has_buffer, queued, sent, lost>>
writer == <<write_data, writes>>
plugin == <<connected, leaving>>
user == <<user_asyncq, user_handle>>
past == <<failed, starts, closeCalled>>
vars == <<state, closing, cb, media, pipe, ring, writer, plugin, asyncq, user, freed, past,
          dropped, fault>>

State == {"INIT", "START", "CLOSE"}
Command == {"listen", "start", "finish", "cancel", "close"}

Init ==
  /\ state = "INIT" /\ closing = "no" /\ cb = FALSE
  /\ recorder = FALSE /\ player = FALSE /\ focus = FALSE
  /\ recorders = 0 /\ players = 0 /\ focuses = 0
  /\ connecting = FALSE /\ player_pipe = "none"
  /\ buffer = <<>> /\ has_buffer = FALSE /\ queued = 0 /\ sent = 0 /\ lost = 0
  /\ write_data = FALSE /\ writes = 0
  /\ connected = FALSE /\ leaving = FALSE
  /\ asyncq = <<>> /\ user_asyncq = 0 /\ user_handle = "open" /\ freed = FALSE
  /\ failed = FALSE /\ starts = 0 /\ closeCalled = FALSE
  /\ dropped = 0 /\ fault = "none"

-----------------------------------------------------------------------------
\* The user's calls: each allocates a message and returns.

Waiting(c) == Len(SelectSeq(asyncq, LAMBDA m : m = c))

Call(c) ==
  /\ ~closeCalled /\ Len(asyncq) < MaxPending
  /\ c = "start" => starts + Waiting("start") < MaxStarts
  /\ asyncq' = Append(asyncq, c)
  /\ closeCalled' = (c = "close")
  /\ UNCHANGED <<state, closing, cb, media, pipe, ring, writer, plugin, user, freed, failed,
                 starts, dropped, fault>>

-----------------------------------------------------------------------------
\* Helpers.

Turn == ~freed /\ fault = "none"

\* The user's loop is through with the handler before.
LoopTurn == Turn /\ closing = "no"

Handle(c) ==
  /\ LoopTurn
  /\ asyncq # <<>> /\ Head(asyncq) = c
  /\ asyncq' = Tail(asyncq)
  /\ UNCHANGED closeCalled

\* 1 if a handle is there, 0 if it is NULL.
Held(h) == IF h THEN 1 ELSE 0

\* conversation_engine_event_cb, as far as the event itself goes: the plugin
\* knows the callback from the moment the context has a listener.
Post(n) == user_asyncq' = IF cb THEN user_asyncq + n ELSE user_asyncq

\* The units that one write takes of the units b.
Frame(b) == IF Len(b) > FrameSize THEN FrameSize ELSE Len(b)

\* uv_write of the oldest of the units b, n writes being in flight without it.
Write(b, n) ==
  /\ buffer' = SubSeq(b, Frame(b) + 1, Len(b))
  /\ sent' = sent + Frame(b)
  /\ write_data' = TRUE
  /\ writes' = n + 1
  /\ fault' = IF player_pipe = "stale" THEN "stale_pipe" ELSE fault

\* media_uv_recorder_close and media_uv_player_close, where there is a handle.
\* player_pipe is left as it is: it is the media library that closes it.
CloseMedia ==
  /\ recorder' = FALSE /\ recorders' = recorders - Held(recorder)
  /\ player' = FALSE /\ players' = players - Held(player)
  /\ connecting' = FALSE
  /\ player_pipe' = IF player /\ player_pipe = "open" THEN "stale" ELSE player_pipe

-----------------------------------------------------------------------------
\* Message handlers.

SetListener ==
  /\ Handle("listen")
  /\ cb' = TRUE
  /\ UNCHANGED <<state, closing, media, pipe, ring, writer, plugin, user, freed, failed,
                 starts, dropped, fault>>

RequestFocus(granted) ==
  /\ focus' = granted
  /\ focuses' = focuses + Held(granted)

\* ai_conversation_init_recorder, unless there is a recorder from before.
InitRecorderAgain ==
  /\ recorder' = TRUE /\ recorders' = recorders + 1
  /\ \E granted \in BOOLEAN : RequestFocus(granted)

InitRecorder ==
  \/ /\ recorder
     /\ UNCHANGED <<recorder, recorders, focus, focuses>>
  \/ /\ ~recorder
     /\ recorder' = TRUE /\ recorders' = recorders + 1
     /\ \E granted \in BOOLEAN : RequestFocus(granted)

\* The ring of a new player: empty.
InitRing ==
  /\ buffer' = <<>> /\ has_buffer' = TRUE
  /\ sent' = queued /\ lost' = 0
  /\ UNCHANGED queued

\* ai_conversation_init_player, unless there is a player from before.
InitPlayer ==
  \/ /\ player
     /\ UNCHANGED <<player, players, connecting, ring>>
  \/ /\ ~player
     /\ player' = TRUE /\ players' = players + 1
     /\ connecting' = TRUE
     /\ InitRing

StartSucceeds ==
  /\ Handle("start")
  /\ starts' = starts + 1
  /\ InitRecorder
  /\ InitPlayer
  /\ connected' = TRUE
  /\ state' = "START"
  /\ UNCHANGED <<closing, cb, player_pipe, writer, leaving, user, freed, failed, dropped,
                 fault>>

\* The failed label: recorder and player are closed, the focus is not.
StartFails ==
  /\ Handle("start")
  /\ starts' = starts + 1
  /\ failed' = TRUE
  /\ CloseMedia
  /\ UNCHANGED <<state, closing, cb, writer, leaving, user, freed, dropped, fault>>

\* The focus was refused and given back.
StartDenied ==
  /\ StartFails
  /\ ~recorder
  /\ RequestFocus(FALSE)
  /\ UNCHANGED <<ring, connected>>

\* A failure after the focus.
StartFailsLater ==
  /\ StartFails
  /\ IF recorder
     THEN UNCHANGED <<focus, focuses>>
     ELSE \E granted \in BOOLEAN : RequestFocus(granted)

\* No recorder, or no player.
StartWithoutMedia ==
  /\ StartFailsLater
  /\ ~(recorder /\ player)
  /\ UNCHANGED <<ring, connected>>

\* The plugin has no connection, or the recorder or the player did not start.
StartRefused ==
  /\ StartFailsLater
  /\ connected' \in {connected, TRUE}
  /\ IF player THEN UNCHANGED ring ELSE InitRing

\* plugin->finish or plugin->cancel, which ask for the connection to become
\* writable whether or not there is one.
Finish ==
  /\ Handle("finish") \/ Handle("cancel")
  /\ fault' = IF state # "CLOSE" /\ ~connected THEN "null_wsi" ELSE fault
  /\ UNCHANGED <<state, closing, cb, media, pipe, ring, writer, plugin, user, freed, failed,
                 starts, dropped>>

\* conversation_plugin_uninit.  The plugin's thread has left its loop when it
\* returns, and has destroyed its connection, which reports a stop, or has
\* still to do so.
Uninit ==
  /\ connected' = FALSE
  /\ leaving' \in {FALSE, connected}
  /\ Post(Held(connected /\ ~leaving'))

\* conversation_close_async.
CloseAsyncNot == UNCHANGED user_handle

CloseAsync == user_handle' = "closing"

\* The ring is freed before the plugin is given back.
CloseLFreesRing ==
  /\ Handle("close")
  /\ state' = "CLOSE"
  /\ closing' = "uninit"
  /\ has_buffer' = FALSE
  /\ UNCHANGED <<cb, media, pipe, buffer, queued, sent, lost, writer, plugin, user, freed,
                 failed, starts, dropped, fault>>

\* conversation_message_close_handler in three steps, as the plugin's thread
\* goes on until the second one: the state is set, the plugin is given back,
\* and then all that it may have used.
CloseL ==
  /\ Handle("close")
  /\ state' = "CLOSE"
  /\ closing' = "uninit"
  /\ UNCHANGED <<cb, media, pipe, ring, writer, plugin, user, freed, failed, starts,
                 dropped, fault>>

CloseUninit ==
  /\ Turn /\ closing = "uninit"
  /\ closing' = "release"
  /\ Uninit
  /\ UNCHANGED <<state, cb, media, pipe, ring, writer, asyncq, user_handle, freed, past,
                 dropped, fault>>

CloseRelease ==
  /\ Turn /\ closing = "release"
  /\ closing' = "no"
  /\ CloseMedia
  /\ focus' = FALSE /\ focuses' = focuses - Held(focus)
  /\ has_buffer' = FALSE
  /\ CloseAsync
  /\ UNCHANGED <<state, cb, buffer, queued, sent, lost, writer, plugin, asyncq,
                 user_asyncq, freed, past, dropped, fault>>

\* conversation_uvasyncq_close_cb.
UserQueueClosed ==
  /\ LoopTurn /\ user_handle = "closing"
  /\ freed' = TRUE
  /\ UNCHANGED <<state, closing, cb, media, pipe, ring, writer, plugin, asyncq, user, past,
                 dropped, fault>>

\* conversation_message_cb_handler; a queue that is closing delivers no more.
UserCallback ==
  /\ LoopTurn /\ user_handle = "open" /\ user_asyncq > 0
  /\ user_asyncq' = user_asyncq - 1
  /\ UNCHANGED <<state, closing, cb, media, pipe, ring, writer, plugin, asyncq, user_handle,
                 freed, past, dropped, fault>>

-----------------------------------------------------------------------------
\* Media callbacks.

\* media_player_prepare_connect_cb; a failure is only logged.
PlayerConnected ==
  /\ LoopTurn /\ connecting
  /\ connecting' = FALSE
  /\ player_pipe' \in {"open", player_pipe}
  /\ UNCHANGED <<state, closing, cb, media, ring, writer, plugin, asyncq, user, freed, past,
                 dropped, fault>>

\* write_audio_data_cb: the next write, unless this one failed or the ring is
\* empty.  A frame is taken from the ring even when the write has failed.
WriteDoneDequeues(ok) ==
  /\ LoopTurn /\ writes > 0
  /\ IF buffer = <<>> THEN writes' = writes - 1 /\ UNCHANGED <<buffer, sent, write_data, fault>>
     ELSE IF ~ok THEN /\ writes' = writes - 1
                      /\ buffer' = SubSeq(buffer, Frame(buffer) + 1, Len(buffer))
                      /\ UNCHANGED <<sent, write_data, fault>>
     ELSE Write(buffer, writes - 1)
  /\ UNCHANGED <<state, closing, cb, media, pipe, has_buffer, queued, lost, plugin,
                 asyncq, user, freed, past, dropped>>

WriteDone(ok) ==
  /\ LoopTurn /\ writes > 0
  /\ \/ /\ ok /\ buffer # <<>> /\ has_buffer
        /\ Write(buffer, writes - 1)
     \/ /\ ok /\ buffer # <<>> /\ ~has_buffer
        /\ fault' = "no_ring"
        /\ UNCHANGED <<buffer, sent, writer>>
     \/ /\ ~ok \/ buffer = <<>>
        /\ writes' = writes - 1
        /\ UNCHANGED <<buffer, sent, write_data, fault>>
  /\ UNCHANGED <<state, closing, cb, media, pipe, has_buffer, queued, lost, plugin,
                 asyncq, user, freed, past, dropped>>

\* What freed memory does not stop: the user's loop, which keeps the handle of
\* the queue that conversation_uvasyncq_close_cb frees without a uv_close, and
\* the callbacks of a write or of a focus request that was overwritten, on the
\* context; the plugin's thread, which still has its connection to destroy, on
\* the plugin's state.
LateCallback ==
  /\ fault = "none"
  /\ freed \/ leaving
  /\ fault' = "freed"
  /\ UNCHANGED <<state, closing, cb, media, pipe, ring, writer, plugin, asyncq, user,
                 freed, past, dropped>>

\* ai_conversation_focus_callback calls ai_conversation_finish.
FocusLost ==
  /\ LoopTurn /\ focuses > 0
  /\ state # "CLOSE" /\ Len(asyncq) < MaxPending
  /\ asyncq' = Append(asyncq, "finish")
  /\ UNCHANGED <<state, closing, cb, media, pipe, ring, writer, plugin, user, freed, past,
                 dropped, fault>>

-----------------------------------------------------------------------------
\* The plugin's thread.

\* ai_ring_buffer_is_full: not one unit more.
Full == Len(buffer) = MaxItems

\* The next units of audio, in a chunk of the given length.
Chunk(length) == [i \in 1 .. length |-> queued + i]

\* ai_ring_buffer_queue_arr puts one after the other into the ring, which
\* overwrites its oldest when it is full: what is left of the units b, and how
\* many are not.
Overwritten(b) == IF Len(b) > MaxItems THEN Len(b) - MaxItems ELSE 0

Latest(b) == SubSeq(b, Overwritten(b) + 1, Len(b))

PlayAudioAlways(length) ==
  IF player_pipe = "none" \/ Full
  THEN /\ dropped' = dropped + length
       /\ UNCHANGED <<buffer, queued, sent, lost, writer, fault>>
  ELSE /\ queued' = queued + length
       /\ UNCHANGED dropped
       /\ lost' = lost + Overwritten(buffer \o Chunk(length))
       /\ Write(Latest(buffer \o Chunk(length)), writes)

\* ai_conversation_play_audio: without a player, or if the ring is full to the
\* last, the chunk is refused; else all of it is queued, whether or not it
\* fits.  A write is started if write_req.data was never set.
PlayAudio(length) ==
  IF player_pipe = "none" \/ Full
  THEN /\ dropped' = dropped + length
       /\ UNCHANGED <<buffer, queued, sent, lost, writer, fault>>
  ELSE /\ queued' = queued + length
       /\ UNCHANGED dropped
       /\ lost' = lost + Overwritten(buffer \o Chunk(length))
       /\ IF write_data
          THEN /\ buffer' = Latest(buffer \o Chunk(length))
               /\ UNCHANGED <<sent, writer, fault>>
          ELSE Write(Latest(buffer \o Chunk(length)), writes)

EngineAudio(length) ==
  /\ Turn /\ connected /\ cb
  /\ queued + dropped < MaxAudio /\ user_asyncq < MaxPending
  /\ PlayAudio(length)
  /\ Post(1)
  /\ UNCHANGED <<state, closing, cb, media, pipe, has_buffer, plugin, asyncq, user_handle,
                 freed, past>>

\* Any other event; ends: the connection is closed or has failed.
EngineEvent(ends) ==
  /\ Turn /\ connected /\ user_asyncq < MaxPending
  /\ connected' = ~ends
  /\ Post(1)
  /\ UNCHANGED <<state, closing, cb, media, pipe, ring, writer, leaving, asyncq,
                 user_handle, freed, past, dropped, fault>>

-----------------------------------------------------------------------------
StartL == StartSucceeds \/ StartDenied \/ StartWithoutMedia \/ StartRefused

MessageHandler == SetListener \/ StartL \/ Finish \/ CloseL \/ CloseUninit \/ CloseRelease

Next ==
  \/ \E c \in Command : Call(c)
  \/ MessageHandler
  \/ UserQueueClosed \/ UserCallback
  \/ PlayerConnected \/ FocusLost
  \/ \E ok \in BOOLEAN : WriteDone(ok)
  \/ LateCallback
  \/ \E length \in Lengths : EngineAudio(length)
  \/ \E ends \in BOOLEAN : EngineEvent(ends)

\* The user's loop runs its messages and its close callback; nothing is asked
\* of the user, of the media library or of the server.
Fairness ==
  /\ WF_vars(MessageHandler)
  /\ WF_vars(UserQueueClosed)

Spec == Init /\ [][Next]_vars

FairSpec == Spec /\ Fairness
-----------------------------------------------------------------------------
\* Every variable has its type.
TypeOK ==
  /\ state \in State /\ closing \in {"no", "uninit", "release"} /\ cb \in BOOLEAN
  /\ recorder \in BOOLEAN /\ player \in BOOLEAN /\ focus \in BOOLEAN
  /\ recorders \in Nat /\ players \in Nat /\ focuses \in Nat
  /\ connecting \in BOOLEAN /\ player_pipe \in {"none", "open", "stale"}
  /\ buffer \in Seq(Nat) /\ Len(buffer) <= MaxItems
  /\ has_buffer \in BOOLEAN /\ queued \in Nat /\ sent \in Nat /\ lost \in Nat
  /\ write_data \in BOOLEAN /\ writes \in Nat
  /\ connected \in BOOLEAN /\ leaving \in BOOLEAN
  /\ asyncq \in Seq(Command) /\ user_asyncq \in Nat
  /\ user_handle \in {"open", "closing"} /\ freed \in BOOLEAN
  /\ failed \in BOOLEAN /\ starts \in Nat /\ closeCalled \in BOOLEAN
  /\ dropped \in Nat
  /\ fault \in {"none", "stale_pipe", "no_ring", "null_wsi", "freed"}

\* Two threads start writes, and there is one write_req and one frame_buf: a
\* write never begins while another one is in flight, so that a frame is not
\* overwritten before it is out.
OneWrite == writes <= 1

\* Whoever starts the writes, and however little of a chunk fits: the ring
\* holds the latest units in the order in which they came, and all that a ring
\* ever took was written once, waits in it, or was overwritten by later audio;
\* what is played has no repetition and no gap but those of an overflow.
PlaysInOrder ==
  /\ queued = sent + lost + Len(buffer)
  /\ \A i \in 1 .. Len(buffer) : buffer[i] = sent + lost + i

\* The close handler has run to its end.
Closed == state = "CLOSE" /\ closing = "no"

\* A conversation that was started any number of times, always with success,
\* and was then closed has given back every recorder, player and focus.
CloseGivesBack ==
  Closed /\ ~failed => recorders = 0 /\ players = 0 /\ focuses = 0 /\ ~has_buffer

\* The plugin does not touch the player's ring once it was freed: the close
\* handler gives the plugin back before the ring, and the engine thread, which
\* puts audio into the ring until then, has no connection afterwards.
NoAudioWithoutRing == connected /\ player_pipe # "none" => has_buffer

\* What holds of a conversation at any time: the types, which the ring's
\* capacity is part of, and that the plugin has a ring to write to.
Inv == TypeOK /\ NoAudioWithoutRing

\* A close is always carried out.
CloseFrees == closeCalled ~> (freed \/ fault # "none")

-----------------------------------------------------------------------------
\* What a comment says of play_audio and the code does not keep: if no write is
\* in progress one is started, so that audio never waits beside an idle pipe.
AudioNeverWaits ==
  fault = "none" /\ state # "CLOSE" /\ player_pipe = "open" /\ buffer # <<>> =>
    writes > 0
=============================================================================
