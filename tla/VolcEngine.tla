----------------------------- MODULE VolcEngine -----------------------------
(***************************************************************************)
(* What the plugins of the recogniser and of the synthesiser have in       *)
(* common, line by line: src/asr/volc/ai_volc.c, whose lines are the ones  *)
(* named for this module, and src/tts/volc/ai_volc_tts.c.  Modules VolcAsr *)
(* and VolcTts add what each does with its connection.                     *)
(*                                                                         *)
(* A thread is created by init, which waits for it one second; it runs the *)
(* loop on which the API's messages are handled, serves the websocket, and *)
(* frees the engine in the end.  tpc is where it is:                       *)
(*   "new"      created;                                                   *)
(*   "poll"     inside uv_run: the API's handlers run;                     *)
(*   "service"  before lws_service, or the destruction of the connection;  *)
(*   "serving"  inside lws_service, which has called back already;         *)
(*   "tail"     the rest of the round;  "ran"  between its two lines;      *)
(*   "exit"     out of the loop;  "cleanup"  after the last sem_post;      *)
(*   "gone"     returned.                                                  *)
(*                                                                         *)
(* Assumed of libwebsockets: it calls back from lws_service and from       *)
(* lws_client_connect_via_info that fails.  (What it may still report from *)
(* lws_context_destroy finds a session that is over, or no ctx->cb, and    *)
(* changes nothing.)                                                       *)
(* A request to write made before the connection is established may be     *)
(* forgotten; a connection that has failed or was closed is freed, and the *)
(* pointer to it (wsi = "dead") may not be used any more.                  *)
(* Assumed of the API: it uses the engine after init has succeeded and     *)
(* before it calls uninit, passes what media_uv and its user ask for, and  *)
(* may end a session when it is told something, but not one it has ended   *)
(* (ai_asr.c:415, ai_tts.c:418).                                           *)
(*                                                                         *)
(* Code that uses memory that was given back has no defined behaviour:     *)
(* fault says which, and nothing is modelled beyond it.                    *)
(***************************************************************************)
EXTENDS Integers, Sequences

CONSTANTS
  MaxStarts,   \* bound on the connections made
  MaxPiece,    \* bound on the length of a websocket fragment
  MaxMessage,  \* bound on the length of a message
  Labels,      \* what a message of the server may be
  More         \* any byte of it but the first

ASSUME VolcEngineAssumption ==
  /\ MaxStarts \in Nat
  /\ MaxPiece \in Nat \ {0} /\ MaxMessage \in Nat \ {0}
  /\ More \notin Labels

VARIABLES
  ipc,          \* init: "wait", in sem_timedwait, "ok" or "failed"
  upc,          \* uninit: "no", not called, "half" or "done"
  tpc,          \* the thread
  sem,          \* ctx->sem
  is_running, is_finished, is_closed,
  cb,           \* ctx->cb # NULL
  asyncq,       \* ctx->asyncq is initialised
  freed,        \* ctx was freed
  state,        \* ctx->state # NULL, and with it ctx->state->lws_ctx
  wsi,          \* the connection of ctx->state: "none", "connecting", "open", "dead"
  armed,        \* lws will call back when it can write to it
  recv_buf,     \* what lies between recv_buf and recv_buf_ptr: for the first
                \* byte of a message its label, for the others More
  recv_buf_size,
  sending,      \* bytes the server has sent of an unfinished message
  \* What the properties need to remember.
  connects,     \* connections made
  contexts,     \* lws contexts that exist
  lost,         \* those of them that ctx->state no longer leads to
  failed,       \* lws_service, or the start of the thread, has failed
  torn,         \* something else than one whole message was parsed
  fault         \* "none", or the undefined behaviour that was reached

flags == <<is_running, is_finished, is_closed>>
connection == <<state, wsi, connects, contexts, lost>>
reassembly == <<recv_buf, recv_buf_size, sending, torn>>
life == <<ipc, upc, tpc, sem, asyncq, freed, failed>>
engineVars == <<life, flags, cb, connection, armed, reassembly, fault>>

EngineInit ==
  /\ ipc = "wait" /\ upc = "no" /\ tpc = "new" /\ sem = 0
  /\ is_running = FALSE /\ is_finished = FALSE /\ is_closed = FALSE
  /\ cb = FALSE /\ asyncq = FALSE /\ freed = FALSE
  /\ state = FALSE /\ wsi = "none" /\ armed = FALSE
  /\ recv_buf = <<>> /\ recv_buf_size = 0 /\ sending = 0
  /\ connects = 0 /\ contexts = 0 /\ lost = 0 /\ failed = FALSE
  /\ torn = FALSE /\ fault = "none"

-----------------------------------------------------------------------------
\* init, on the thread that creates the engine.

InitReturns ==
  /\ ipc = "wait" /\ sem > 0
  /\ ipc' = "ok" /\ sem' = sem - 1
  /\ UNCHANGED <<upc, tpc, asyncq, freed, failed, flags, cb, connection, armed,
                 reassembly, fault>>

\* The caller gives up the engine: nobody will use it, or call uninit.
InitTimesOut ==
  /\ ipc = "wait" /\ ipc' = "failed"
  /\ UNCHANGED <<upc, tpc, sem, asyncq, freed, failed, flags, cb, connection, armed,
                 reassembly, fault>>

-----------------------------------------------------------------------------
\* The thread.

\* volc_init_data, and the loop with its queue, or one of them fails.  Without
\* a loop the thread returns and nothing is freed; without a queue it frees the
\* engine, and the semaphore init may be waiting for.
ThreadStarts ==
  /\ tpc = "new"
  /\ is_running' = FALSE /\ is_finished' = TRUE /\ is_closed' = FALSE
  /\ \/ /\ asyncq' = TRUE /\ tpc' = "poll"
        /\ UNCHANGED <<freed, failed, fault>>
     \/ /\ tpc' = "gone" /\ failed' = TRUE
        /\ UNCHANGED <<asyncq, freed, fault>>
     \/ /\ tpc' = "gone" /\ failed' = TRUE /\ freed' = TRUE
        /\ fault' = IF ipc = "wait" THEN "sem" ELSE fault
        /\ UNCHANGED asyncq
  /\ UNCHANGED <<ipc, upc, sem, cb, connection, armed, reassembly>>

\* uv_run has no more handlers to run.
EndPoll ==
  /\ tpc = "poll" /\ tpc' = "service"
  /\ UNCHANGED <<ipc, upc, sem, asyncq, freed, failed, flags, cb, connection, armed,
                 reassembly, fault>>

\* volc_destroy_lws_state, after lws_context_destroy.
DestroyState ==
  /\ state' = FALSE /\ wsi' = "none" /\ armed' = FALSE
  /\ contexts' = contexts - 1
  /\ recv_buf' = <<>> /\ recv_buf_size' = 0 /\ sending' = 0
  /\ UNCHANGED <<connects, lost, torn>>

\* volc_destroy_lws_state alone.
DestroyStateOnly ==
  /\ state' = FALSE /\ wsi' = "none" /\ armed' = FALSE
  /\ recv_buf' = <<>> /\ recv_buf_size' = 0 /\ sending' = 0
  /\ UNCHANGED <<contexts, connects, lost, torn>>

StoppingOpen == is_finished /\ state /\ wsi = "open"

Stopping == is_finished /\ state

StopService ==
  /\ tpc = "service" /\ Stopping
  /\ tpc' = "tail"
  /\ DestroyState
  /\ UNCHANGED <<ipc, upc, sem, asyncq, freed, failed, flags, cb, fault>>

NothingToServe ==
  /\ tpc = "service" /\ ~Stopping
  /\ tpc' = "tail"
  /\ UNCHANGED <<ipc, upc, sem, asyncq, freed, failed, flags, cb, connection, armed,
                 reassembly, fault>>

EndService ==
  /\ tpc = "serving" /\ tpc' = "tail"
  /\ UNCHANGED <<ipc, upc, sem, asyncq, freed, failed, flags, cb, connection, armed,
                 reassembly, fault>>

LoopTestOpen == "poll"

LoopTest == IF is_closed THEN "exit" ELSE "poll"

Tail_ ==
  /\ tpc = "tail"
  /\ IF is_running
     THEN tpc' = LoopTest /\ UNCHANGED sem
     ELSE tpc' = "ran" /\ sem' = sem + 1
  /\ UNCHANGED <<ipc, upc, asyncq, freed, failed, flags, cb, connection, armed,
                 reassembly, fault>>

Runs ==
  /\ tpc = "ran"
  /\ is_running' = TRUE
  /\ tpc' = LoopTest
  /\ UNCHANGED <<ipc, upc, sem, asyncq, freed, failed, is_finished, is_closed, cb,
                 connection, armed, reassembly, fault>>

ExitPosts ==
  /\ tpc = "exit"
  /\ tpc' = "cleanup" /\ sem' = sem + 1
  /\ UNCHANGED <<ipc, upc, asyncq, freed, failed, flags, cb, connection, armed,
                 reassembly, fault>>

\* The connection, the handles, the queue and volc_destroy_data.
CleanUpKeepContext ==
  /\ tpc = "cleanup"
  /\ tpc' = "gone" /\ freed' = TRUE /\ asyncq' = FALSE /\ is_running' = FALSE
  /\ IF state THEN DestroyStateOnly ELSE UNCHANGED <<connection, armed, reassembly>>
  /\ UNCHANGED <<ipc, upc, sem, failed, is_finished, is_closed, cb, fault>>

CleanUp ==
  /\ tpc = "cleanup"
  /\ tpc' = "gone" /\ freed' = TRUE /\ asyncq' = FALSE /\ is_running' = FALSE
  /\ IF state THEN DestroyState ELSE UNCHANGED <<connection, armed, reassembly>>
  /\ UNCHANGED <<ipc, upc, sem, failed, is_finished, is_closed, cb, fault>>

-----------------------------------------------------------------------------
\* The API's calls.  They are messages to the thread, handled inside uv_run.

Ready == ipc = "ok" /\ upc = "no"
Handling == tpc = "poll" /\ Ready

\* The application puts a message on the queue of an engine that the thread has
\* freed: the API keeps its pointers to both.
UsesFreedEngine ==
  /\ Ready /\ freed
  /\ fault' = "freed"
  /\ UNCHANGED <<life, flags, cb, connection, armed, reassembly>>

SetCallback ==
  /\ Handling
  /\ cb' = TRUE
  /\ UNCHANGED <<life, flags, connection, armed, reassembly, fault>>

UninitClosesFirst ==
  /\ Ready /\ upc' = "half"
  /\ is_closed' = TRUE
  /\ UNCHANGED <<ipc, tpc, sem, asyncq, freed, failed, is_running, is_finished, cb,
                 connection, armed, reassembly, fault>>

\* uninit is called by the loop of the API's user, if it has one: the thread
\* may see the one assignment and not yet the other.
UninitForgets ==
  /\ Ready /\ upc' = "half"
  /\ cb' = FALSE
  /\ UNCHANGED <<ipc, tpc, sem, asyncq, freed, failed, flags, connection, armed, reassembly,
                 fault>>

UninitCloses ==
  /\ upc = "half" /\ upc' = "done"
  /\ is_closed' = TRUE
  /\ fault' = IF freed THEN "freed" ELSE fault
  /\ UNCHANGED <<ipc, tpc, sem, asyncq, freed, failed, is_running, is_finished, cb,
                 connection, armed, reassembly>>

-----------------------------------------------------------------------------
\* lws_callback_on_writable(ctx->state->wsi).
Arm ==
  IF wsi \in {"connecting", "open"}
  THEN armed' = TRUE /\ UNCHANGED fault
  ELSE fault' = "wsi" /\ UNCHANGED armed

\* volc_create_websocket_connection.  A connection there was is not looked at.
Forget == lost' = IF state THEN lost + 1 ELSE lost

Connect ==
  /\ connects < MaxStarts
  /\ connects' = connects + 1
  /\ contexts' = contexts + 1
  /\ Forget
  /\ state' = TRUE /\ wsi' = "connecting" /\ armed' = FALSE
  /\ recv_buf' = <<>> /\ recv_buf_size' = 0 /\ sending' = 0
  /\ UNCHANGED <<torn, fault>>

\* No context; or no connection, and then libwebsockets may have reported that
\* to a callback, in which the API finishes with a connection that has no wsi.
ConnectFails ==
  \/ UNCHANGED <<connection, armed, reassembly, fault>>
  \/ /\ Forget
     /\ state' = FALSE /\ wsi' = "none" /\ armed' = FALSE
     /\ recv_buf' = <<>> /\ recv_buf_size' = 0 /\ sending' = 0
     /\ fault' \in {fault, IF cb THEN "wsi" ELSE fault}
     /\ UNCHANGED <<connects, contexts, torn>>

-----------------------------------------------------------------------------
\* What lws_service reports to the callback.

\* One lws_service may report several things: what the first callback has made
\* of is_finished does not keep it from the next.
Serving == tpc = "serving" \/ (tpc = "service" /\ ~is_finished /\ state)

Established ==
  /\ Serving /\ wsi = "connecting"
  /\ wsi' = "open"
  /\ tpc' = "serving"
  /\ UNCHANGED <<ipc, upc, sem, asyncq, freed, failed, flags, cb, state, connects, contexts,
                 lost, reassembly, fault>>

\* LWS_CALLBACK_CLIENT_CLOSED and its like change nothing.
Closed ==
  /\ Serving /\ wsi = "open"
  /\ wsi' = "dead" /\ armed' = FALSE
  /\ tpc' = "serving"
  /\ UNCHANGED <<ipc, upc, sem, asyncq, freed, failed, flags, cb, state, connects, contexts,
                 lost, reassembly, fault>>

\* LWS_CALLBACK_CLIENT_CONNECTION_ERROR; ends: the API finishes.
ConnectionError(ends) ==
  /\ Serving /\ wsi = "connecting"
  /\ ends => cb /\ ~is_finished
  /\ wsi' = "dead" /\ armed' = FALSE
  /\ tpc' = "serving"
  /\ UNCHANGED <<ipc, upc, sem, asyncq, freed, failed, is_running, is_closed, cb, state,
                 connects, contexts, lost, recv_buf_size, sending, torn, fault>>

\* lws_service returns an error, which is reported: out of the loop.
ServiceFails(ends) ==
  /\ Serving
  /\ ends => cb /\ ~is_finished
  /\ failed' = TRUE
  /\ tpc' = "exit"
  /\ UNCHANGED <<ipc, upc, sem, asyncq, freed, is_running, is_closed, cb, connection,
                 recv_buf_size, sending, torn>>

-----------------------------------------------------------------------------
\* LWS_CALLBACK_CLIENT_RECEIVE: fragments are put one behind the other until
\* the final one; what has come by then is parsed.

Remaining == IF recv_buf_size <= 0 THEN 0 ELSE recv_buf_size - Len(recv_buf)

Grown(len) ==
  IF recv_buf_size = 0 \/ Remaining < len THEN recv_buf_size + len ELSE recv_buf_size

\* The next len bytes of a message that is, or has begun as, a label.
Piece(label, len) ==
  [i \in 1 .. len |-> IF sending = 0 /\ i = 1 THEN label ELSE More]

IsWhole(bytes) == bytes[1] \in Labels /\ \A i \in 2 .. Len(bytes) : bytes[i] = More

Received(label, len) == recv_buf \o Piece(label, len)

ReceivePart(label, len) ==
  /\ Serving /\ wsi = "open" /\ sending + len < MaxMessage
  /\ recv_buf_size' = Grown(len)
  /\ recv_buf' = Received(label, len)
  /\ sending' = sending + len
  /\ tpc' = "serving"
  /\ UNCHANGED <<ipc, upc, sem, asyncq, freed, failed, flags, cb, connection, torn,
                 fault>>

ReceiveLastNoReset(label, len) ==
  /\ Serving /\ wsi = "open" /\ sending + len <= MaxMessage
  /\ recv_buf_size' = Grown(len)
  /\ recv_buf' = Received(label, len)
  /\ torn' = (torn \/ ~IsWhole(Received(label, len)))
  /\ sending' = 0
  /\ tpc' = "serving"
  /\ UNCHANGED <<ipc, upc, sem, asyncq, freed, failed, is_running, is_closed, cb,
                 connection>>

\* What the parsed bytes make of ctx, and what the API does when it is told, is
\* left to the plugin.
ReceiveLast(label, len) ==
  /\ Serving /\ wsi = "open" /\ sending + len <= MaxMessage
  /\ recv_buf_size' = Grown(len)
  /\ recv_buf' = <<>>
  /\ torn' = (torn \/ ~IsWhole(Received(label, len)))
  /\ sending' = 0
  /\ tpc' = "serving"
  /\ UNCHANGED <<ipc, upc, sem, asyncq, freed, failed, is_running, is_closed, cb,
                 connection>>

-----------------------------------------------------------------------------
EngineThread ==
  \/ EndPoll \/ NothingToServe \/ EndService \/ Tail_ \/ Runs \/ ExitPosts

EngineTypeOK ==
  /\ ipc \in {"wait", "ok", "failed"} /\ upc \in {"no", "half", "done"}
  /\ tpc \in {"new", "poll", "service", "serving", "tail", "ran", "exit", "cleanup", "gone"}
  /\ sem \in Nat
  /\ is_running \in BOOLEAN /\ is_finished \in BOOLEAN /\ is_closed \in BOOLEAN
  /\ cb \in BOOLEAN /\ asyncq \in BOOLEAN /\ freed \in BOOLEAN /\ state \in BOOLEAN
  /\ wsi \in {"none", "connecting", "open", "dead"} /\ armed \in BOOLEAN
  /\ recv_buf \in Seq(Labels \cup {More}) /\ recv_buf_size \in Nat /\ sending \in Nat
  /\ connects \in Nat /\ contexts \in Int /\ lost \in Nat
  /\ failed \in BOOLEAN /\ torn \in BOOLEAN
  /\ fault \in {"none", "sem", "freed", "wsi", "no_state"}

\* An engine that init has handed out is ready for the API: get_env finds the
\* queue, and no start is refused because the thread does not run yet.
ReadyWhenCreated ==
  ipc = "ok" /\ tpc # "gone" => asyncq /\ (tpc = "poll" => is_running)

\* Every lws context is destroyed by the time the engine is freed, on every way
\* out, but for those whose pointer a later start has overwritten.
ContextsDestroyed == contexts = lost + (IF state THEN 1 ELSE 0)

\* The thread frees the engine at the end of uninit, and at no other time
\* unless lws_service or the thread's own start has failed: uninit never writes
\* to, and the API never queues a message for, an engine that is gone.
FreedAfterUninit == freed /\ ~failed => upc = "done"

\* The reassembly buffer holds what is copied into it.
FragmentsFit == Len(recv_buf) <= recv_buf_size

\* The connection of a session that is over is given back by the thread, whoever
\* ended it and wherever the thread was: in a handler, in the middle of an
\* lws_service, before the connection was established or after it was lost.  Only
\* another start, or speak, keeps it.
FinishedIsDestroyed == (is_finished /\ state) ~> (~state \/ ~is_finished \/ fault # "none")

\* Once uninit has returned, or lws_service has failed, the engine is freed.
ClosedIsFreed == (tpc # "new" /\ (is_closed \/ tpc = "exit")) ~> (freed \/ fault # "none")
=============================================================================
