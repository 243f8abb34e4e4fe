-------------------------------- MODULE Asr --------------------------------
(***************************************************************************)
(* src/asr/ai_asr.c: a speech recogniser.                                  *)
(*                                                                         *)
(* Three parties share one asr_context_t:                                  *)
(*   - the user, whose API calls only put a message on ctx->asyncq;        *)
(*   - the engine thread, which runs the handlers of those messages, the   *)
(*     callbacks of the media recorder and of the audio focus, and the     *)
(*     callbacks of the recognition plugin, each to its end before the     *)
(*     next one starts;                                                    *)
(*   - the user's loop, which receives the events (ctx->user_asyncq) and   *)
(*     destroys the context after the closed event.  Without a user loop   *)
(*     the engine thread does both itself.                                 *)
(*                                                                         *)
(* Assumed of the media library: an opened recorder reports errors only    *)
(* until media_uv_recorder_close, which answers later, once, through       *)
(* media_recorder_close_cb; an abandoned focus request reports nothing.    *)
(* Assumed of the plugin: between start and finish it may report results,  *)
(* completion and errors (volc_callback_bigasr), and nothing otherwise.    *)
(* Assumed of the user: ai_asr_close is the last call on a context, which  *)
(* is how ai_tool.c uses the interface.                                    *)
(***************************************************************************)
EXTENDS Integers, Sequences, FiniteSets

CONSTANTS
  Texts,        \* the texts a result may carry
  NoText,       \* the empty last_result of a new session
  MaxSessions,  \* bound on the sessions started and the starts waiting
  MaxPending    \* bound on the messages waiting in a queue

ASSUME AsrAssumption ==
  /\ NoText \notin Texts
  /\ MaxSessions \in Nat
  /\ MaxPending \in Nat

VARIABLES
  user_loop,         \* ctx->user_loop # NULL: a loop came with asr_init_params_t
  state,             \* ctx->state, an asr_state_t
  cb,                \* ctx->cb # NULL
  is_send_finished,
  is_closed,
  handle,            \* ctx->handle # NULL: a recorder is open
  focus_handle,      \* ctx->focus_handle # NULL: the audio focus is held
  last_result,
  last_result_time,  \* ctx->last_result_time # 0
  engine,            \* the plugin is started (volc: !is_finished)
  closing,           \* recorders closed whose close callback is outstanding
  pc,                \* "loop", or "close_cb": inside media_recorder_close_cb,
                     \* after ai_asr_close_handler
  asyncq,            \* messages to the engine thread
  user_asyncq,       \* events to the user's loop
  life,              \* of the context: "alive", "uv_close", "freed"
  \* What the properties need to remember.
  starts,            \* sessions started
  closeCalled,       \* the user has called ai_asr_close
  event,             \* the latest event sent to the listener
  closes,            \* closed events sent, at most two counted
  told,              \* the texts sent in this session
  overlapped,        \* some session started while an earlier recorder was
                     \* still closing
  recorded           \* the latest start, if any, got as far as a recorder

media == <<handle, focus_handle, closing>>
silence == <<last_result, last_result_time, told>>
user == <<closeCalled, cb>>
vars == <<user_loop, state, cb, is_send_finished, is_closed, handle, focus_handle,
          last_result, last_result_time, engine, closing, pc, asyncq,
          user_asyncq, life, starts, closeCalled, event, closes, told,
          overlapped, recorded>>

\* What at most a start changes.
session == <<user_loop, starts, overlapped, recorded>>

State == {"INIT", "START", "FINISH", "CANCEL", "CLOSE"}
Event == {"start", "result", "complete", "error", "closed"}
Command == {"listen", "unlisten", "start", "finish", "cancel", "close"}

Init ==
  /\ user_loop \in BOOLEAN
  /\ state = "INIT" /\ is_closed = TRUE
  /\ cb = FALSE /\ is_send_finished = FALSE
  /\ handle = FALSE /\ focus_handle = FALSE /\ closing = 0
  /\ last_result = NoText /\ last_result_time = FALSE /\ told = {}
  /\ engine = FALSE /\ pc = "loop" /\ life = "alive"
  /\ asyncq = <<>> /\ user_asyncq = <<>>
  /\ starts = 0 /\ closeCalled = FALSE /\ event = "none" /\ closes = 0
  /\ overlapped = FALSE /\ recorded = TRUE

-----------------------------------------------------------------------------
\* The user's calls: each allocates a message and returns.

Waiting(c) == Cardinality({i \in 1 .. Len(asyncq) : asyncq[i] = c})

Call(c) ==
  /\ ~closeCalled
  /\ Len(asyncq) < MaxPending
  /\ c = "start" => starts + Waiting("start") < MaxSessions
  /\ asyncq' = Append(asyncq, c)
  /\ closeCalled' = (c = "close")
  /\ UNCHANGED <<state, cb, is_send_finished, is_closed, media, silence, engine,
                 pc, user_asyncq, life, event, closes, session>>

-----------------------------------------------------------------------------
\* Helpers of the engine thread's handlers.

\* The engine thread takes its next callback.  A context that was freed has no
\* behaviour the C standard defines, so nothing is modelled beyond.
Turn == pc = "loop" /\ life # "freed"

Handle(c) ==
  /\ Turn
  /\ asyncq # <<>> /\ Head(asyncq) = c
  /\ asyncq' = Tail(asyncq)
  /\ UNCHANGED <<closeCalled, pc>>

\* ai_asr_voice_callback goes on past its two early returns.
Listening(s) == cb /\ ~is_send_finished /\ s # "CLOSE"

\* ai_asr_send_callback of events other than closed: queued for the user's
\* loop, or delivered on the spot.
Send(es) ==
  /\ user_asyncq' = IF user_loop THEN user_asyncq \o es ELSE user_asyncq
  /\ event' = es[Len(es)]
  /\ UNCHANGED <<life, closes>>

SendNothing == UNCHANGED <<user_asyncq, event, life, closes>>

FinishHandlerKeepFocus ==
  /\ closing' = IF handle THEN closing + 1 ELSE closing
  /\ handle' = FALSE
  /\ engine' = FALSE
  /\ UNCHANGED focus_handle

FinishHandler ==
  /\ closing' = IF handle THEN closing + 1 ELSE closing
  /\ handle' = FALSE
  /\ focus_handle' = FALSE
  /\ engine' = FALSE

\* ai_asr_voice_callback(voice_event_complete or voice_event_error), with the
\* events `first` that the same run of the plugin's callback already sent.
EndSessionTwice(first, e) ==
  /\ FinishHandler
  /\ UNCHANGED is_send_finished
  /\ Send(Append(first, e))

EndSession(first, e) ==
  /\ FinishHandler
  /\ is_send_finished' = TRUE
  /\ Send(Append(first, e))

\* ai_asr_close_handler: the closed event; without a user loop its delivery
\* destroys the context before the handler returns.
CloseHandler ==
  /\ user_asyncq' = IF user_loop THEN Append(user_asyncq, "closed") ELSE user_asyncq
  /\ life' = IF user_loop THEN life ELSE "freed"
  /\ closes' = IF closes < 2 THEN closes + 1 ELSE closes
  /\ event' = "closed"

-----------------------------------------------------------------------------
\* Message handlers.

SetListenerL ==
  /\ \/ Handle("listen") /\ cb' = TRUE
     \/ Handle("unlisten") /\ cb' = FALSE
  /\ SendNothing
  /\ UNCHANGED <<state, is_send_finished, is_closed, media, silence, engine, session>>

\* A start in state START is ignored.
StartIgnored ==
  /\ Handle("start") /\ state = "START"
  /\ SendNothing
  /\ UNCHANGED <<state, cb, is_send_finished, is_closed, media, silence, engine, session>>

\* What every other start does before anything can fail.
StartSessionKeepText ==
  /\ Handle("start") /\ state # "START"
  /\ state' = "START"
  /\ is_send_finished' = FALSE
  /\ is_closed' = FALSE
  /\ told' = {}
  /\ overlapped' = (overlapped \/ closing > 0)
  /\ starts' = starts + 1
  /\ UNCHANGED <<cb, user_loop, last_result, last_result_time>>

StartSessionKeepClosed ==
  /\ Handle("start") /\ state # "START"
  /\ state' = "START"
  /\ is_send_finished' = FALSE
  /\ last_result' = NoText /\ last_result_time' = FALSE /\ told' = {}
  /\ overlapped' = (overlapped \/ closing > 0)
  /\ starts' = starts + 1
  /\ UNCHANGED <<cb, user_loop, is_closed>>

StartSession ==
  /\ Handle("start") /\ state # "START"
  /\ state' = "START"
  /\ is_send_finished' = FALSE
  /\ is_closed' = FALSE
  /\ last_result' = NoText /\ last_result_time' = FALSE /\ told' = {}
  /\ overlapped' = (overlapped \/ closing > 0)
  /\ starts' = starts + 1
  /\ UNCHANGED <<cb, user_loop>>

\* plugin->start failed: the recorder to close is NULL.
StartPluginFails ==
  /\ StartSession
  /\ recorded' = FALSE
  /\ SendNothing
  /\ UNCHANGED <<media, engine>>

\* ai_asr_init_recorder: focus refused (and given back), or no recorder.  The
\* handler returns without the clean-up of its failed label.
StartRecorderDenied ==
  /\ StartSession
  /\ engine' = TRUE
  /\ focus_handle' \in BOOLEAN
  /\ recorded' = FALSE
  /\ SendNothing
  /\ UNCHANGED <<handle, closing>>

\* listen, prepare or start of the recorder failed: it is closed again.
StartRecorderFails ==
  /\ StartSession
  /\ engine' = TRUE
  /\ focus_handle' \in BOOLEAN
  /\ closing' = closing + 1
  /\ recorded' = TRUE
  /\ SendNothing
  /\ UNCHANGED handle

StartSucceeds ==
  /\ StartSession
  /\ engine' = TRUE
  /\ focus_handle' \in BOOLEAN
  /\ handle' = TRUE
  /\ recorded' = TRUE
  /\ IF cb THEN Send(<<"start">>) ELSE SendNothing
  /\ UNCHANGED closing

FinishL ==
  /\ Handle("finish")
  /\ IF state # "START"
     THEN /\ SendNothing
          /\ UNCHANGED <<state, is_send_finished, media, engine>>
     ELSE /\ state' = "FINISH"
          /\ \/ Listening(state') /\ EndSession(<<>>, "complete")
             \/ /\ ~Listening(state')
                /\ FinishHandler
                /\ SendNothing
                /\ UNCHANGED is_send_finished
  /\ UNCHANGED <<cb, is_closed, silence, session>>

CancelL ==
  /\ Handle("cancel")
  /\ IF state # "START"
     THEN UNCHANGED <<state, is_send_finished, media, engine>>
     ELSE /\ state' = "CANCEL"
          /\ is_send_finished' = TRUE
          /\ FinishHandler
  /\ SendNothing
  /\ UNCHANGED <<cb, is_closed, silence, session>>

\* A close is ignored in state START.  Otherwise the closed event goes out now,
\* or, with a recorder still closing, from its close callback.
CloseLHasty ==
  /\ Handle("close")
  /\ IF state \in {"CLOSE", "START"}
     THEN SendNothing /\ UNCHANGED <<state, is_closed>>
     ELSE state' = "CLOSE" /\ CloseHandler /\ UNCHANGED is_closed
  /\ UNCHANGED <<cb, is_send_finished, media, silence, engine, session>>

CloseL ==
  /\ Handle("close")
  /\ IF state \in {"CLOSE", "START"}
     THEN SendNothing /\ UNCHANGED <<state, is_closed>>
     ELSE /\ state' = "CLOSE"
          /\ IF is_closed THEN CloseHandler ELSE SendNothing
          /\ is_closed' = TRUE
  /\ UNCHANGED <<cb, is_send_finished, media, silence, engine, session>>

-----------------------------------------------------------------------------
\* Media callbacks.

\* media_recorder_close_cb.  ai_asr_close_handler, when it is called, is a
\* step of its own: the closed event is out before the callback touches the
\* context again.
RecorderClosedForget ==
  /\ Turn /\ closing > 0
  /\ closing' = closing - 1
  /\ IF is_closed
     THEN CloseHandler /\ pc' = "close_cb"
     ELSE SendNothing /\ UNCHANGED pc
  /\ UNCHANGED <<is_closed, state, is_send_finished, handle, focus_handle,
                 silence, engine, asyncq, user, session>>

RecorderClosed ==
  /\ Turn /\ closing > 0
  /\ closing' = closing - 1
  /\ IF is_closed
     THEN CloseHandler /\ pc' = "close_cb"
     ELSE SendNothing /\ UNCHANGED pc
  /\ is_closed' = TRUE
  /\ UNCHANGED <<state, is_send_finished, handle, focus_handle, silence, engine,
                 asyncq, user, session>>

\* The rest of it, ctx->is_closed = true on a context that may be gone.
RecorderClosedReturns ==
  /\ pc = "close_cb" /\ life # "freed"
  /\ pc' = "loop"
  /\ UNCHANGED <<state, cb, is_send_finished, is_closed, media, silence, engine,
                 asyncq, user_asyncq, life, closeCalled, event, closes,
                 session>>

\* ret < 0 in the open, start, prepare or event callback: ai_asr_send_error.
RecorderError ==
  /\ Turn /\ handle /\ Listening(state)
  /\ EndSession(<<>>, "error")
  /\ UNCHANGED <<state, is_closed, silence, pc, asyncq, user, session>>

FocusLost ==
  /\ Turn /\ focus_handle
  /\ IF Listening(state)
     THEN EndSession(<<>>, "complete")
     ELSE FinishHandler /\ SendNothing /\ UNCHANGED is_send_finished
  /\ UNCHANGED <<state, is_closed, silence, pc, asyncq, user, session>>

-----------------------------------------------------------------------------
\* Plugin callbacks, while it is started.

\* A result text repeated for longer than silence_timeout ends the session.
\* The clock is left open: a repeated text may or may not have lasted.
Repeats(t) == last_result = t /\ last_result_time

\* lasted: the repetition has gone on for longer than the timeout;
\* completed: the server marked this result as the last one.
EngineResult(t, lasted, completed) ==
  /\ Turn /\ engine /\ Listening(state)
  /\ Len(user_asyncq) < MaxPending
  /\ lasted => Repeats(t)
  /\ \/ /\ lasted
        /\ EndSession(<<>>, "complete")
        /\ UNCHANGED silence
     \/ /\ ~lasted
        /\ told' = told \cup {t}
        /\ last_result' = t
        /\ last_result_time' = TRUE
        /\ IF completed
           THEN EndSession(<<"result">>, "complete")
           ELSE /\ Send(<<"result">>)
                /\ UNCHANGED <<is_send_finished, media, engine>>
  /\ UNCHANGED <<state, is_closed, pc, asyncq, user, session>>

\* A completion without a text, an error answer, a failed connection.
EngineEnd(e) ==
  /\ Turn /\ engine /\ Listening(state)
  /\ EndSession(<<>>, e)
  /\ UNCHANGED <<state, is_closed, silence, pc, asyncq, user, session>>

-----------------------------------------------------------------------------
\* The user's loop.

\* ai_asr_callback_l; after the closed event the queue's handle is closed.
UserCallback ==
  /\ user_loop /\ life = "alive" /\ user_asyncq # <<>>
  /\ user_asyncq' = Tail(user_asyncq)
  /\ life' = IF Head(user_asyncq) = "closed" THEN "uv_close" ELSE life
  /\ UNCHANGED <<state, cb, is_send_finished, is_closed, media, silence, engine,
                 pc, asyncq, closeCalled, event, closes, session>>

\* ai_asr_uvasyncq_close_cb and ai_asr_destroy_engine.
Destroy ==
  /\ life = "uv_close"
  /\ life' = "freed"
  /\ UNCHANGED <<state, cb, is_send_finished, is_closed, media, silence, engine,
                 pc, asyncq, user_asyncq, closeCalled, event, closes,
                 session>>

-----------------------------------------------------------------------------
StartL == \/ StartIgnored \/ StartPluginFails \/ StartRecorderDenied
          \/ StartRecorderFails \/ StartSucceeds

MessageHandler == SetListenerL \/ StartL \/ FinishL \/ CancelL \/ CloseL

Plugin ==
  \/ \E t \in Texts, lasted, completed \in BOOLEAN : EngineResult(t, lasted, completed)
  \/ \E e \in {"complete", "error"} : EngineEnd(e)

Next ==
  \/ \E c \in Command : Call(c)
  \/ MessageHandler
  \/ RecorderClosed \/ RecorderClosedReturns
  \/ RecorderError \/ FocusLost
  \/ Plugin
  \/ UserCallback \/ Destroy

\* Both loops keep running and the media library answers every close; nothing
\* is asked of the user, of the server or of the recorder.
Fairness ==
  /\ WF_vars(MessageHandler)
  /\ WF_vars(RecorderClosed \/ RecorderClosedReturns)
  /\ WF_vars(UserCallback \/ Destroy)

Spec == Init /\ [][Next]_vars

FairSpec == Spec /\ Fairness
-----------------------------------------------------------------------------
\* Every variable has its type; and never are more recorders closing than
\* sessions were started, so none is closed twice.
TypeOK ==
  /\ user_loop \in BOOLEAN
  /\ state \in State
  /\ cb \in BOOLEAN /\ is_send_finished \in BOOLEAN /\ is_closed \in BOOLEAN
  /\ handle \in BOOLEAN /\ focus_handle \in BOOLEAN /\ engine \in BOOLEAN
  /\ last_result \in Texts \cup {NoText} /\ last_result_time \in BOOLEAN
  /\ told \subseteq Texts
  /\ starts \in Nat /\ closing \in 0 .. starts
  /\ pc \in {"loop", "close_cb"}
  /\ asyncq \in Seq(Command) /\ user_asyncq \in Seq(Event)
  /\ life \in {"alive", "uv_close", "freed"}
  /\ closeCalled \in BOOLEAN
  /\ event \in Event \cup {"none"} /\ closes \in 0 .. 2
  /\ overlapped \in BOOLEAN /\ recorded \in BOOLEAN

\* A session that is over, in whatever way (user, server, network, recorder,
\* focus), has given back the microphone, the audio focus and the connection.
EndedReleasesAll ==
  is_send_finished \/ state # "START" => ~handle /\ ~focus_handle /\ ~engine

\* The silence timeout measures repetitions within one session: the text it
\* compares with is one this session has sent.
SilenceWithinSession == last_result_time => last_result \in told

\* The context is destroyed only at the user's request, and at most once: the
\* closed event answers the call of ai_asr_close and goes out once.  (Unless a
\* session was started before the recorder of an earlier one had closed: the
\* two recorders share is_closed, and the second to close is then taken for a
\* request.)
ClosedOnRequest ==
  ~overlapped => closes = 0 \/ (closes = 1 /\ closeCalled /\ state = "CLOSE")

\* Once the closed event is out, which lets another thread free the context,
\* nothing is left that would call back into it on the engine thread.
ClosedIsQuiet ==
  ~overlapped /\ closes > 0 =>
    closing = 0 /\ asyncq = <<>> /\ ~handle /\ ~focus_handle /\ ~engine

\* What the listener can tell of the state of a recogniser.
ListenerPhase ==
  IF overlapped THEN "void"
  ELSE IF closes > 0 THEN "closed"
  ELSE IF state = "START" /\ ~is_send_finished THEN "open"
  ELSE "idle"

Listener == INSTANCE AsrListener WITH phase <- ListenerPhase

\* The listener gets what AsrListener promises: in particular one last event
\* per session at most, no event between sessions, none after closed.
IsListener == Listener!Spec

\* A close that is accepted destroys the context, if the latest session got as
\* far as a recorder.
AcceptedCloseDestroys == (state = "CLOSE" /\ recorded) ~> (life = "freed")
=============================================================================
