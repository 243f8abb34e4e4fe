-------------------------- MODULE VolcConversation --------------------------
(***************************************************************************)
(* src/conversation/volc/ai_volc_conversation.c: the conversation plugin,  *)
(* an engine that two threads share without a lock.                        *)
(*                                                                         *)
(* The user's loop calls start, write_audio, finish, cancel and uninit;    *)
(* upc says where in such a call it is.  The engine's thread runs          *)
(* volc_conversation_uvloop_thread, and in it lws_service and the          *)
(* websocket callback; epc says where it is.  Between two steps the other  *)
(* thread may change any field; a websocket callback is one step.          *)
(*                                                                         *)
(* The send ring is counted in messages: what the code looks at is whether *)
(* it is empty and whether it is full.  Events that change no field of the *)
(* engine (audio, texts) are left out.  Code that uses memory, a context,  *)
(* a connection or a semaphore that was given back has no defined          *)
(* behaviour: fault says which, and nothing is modelled beyond it.         *)
(*                                                                         *)
(* Assumed of the server: a connection's first message is session.created; *)
(* after it anything may come.  Assumed of the user: uninit is the last    *)
(* call.                                                                   *)
(***************************************************************************)
EXTENDS Integers, Sequences

CONSTANTS
  MaxQueue,   \* messages that fit into the send ring
  MaxSend,    \* messages that fit into one frame
  MaxStarts,  \* bound on the starts
  MaxCalls    \* bound on the other calls that send

ASSUME VolcConversationAssumption ==
  /\ MaxQueue \in Nat \ {0} /\ MaxSend \in Nat \ {0}
  /\ MaxStarts \in Nat /\ MaxCalls \in Nat

VARIABLES
  state,          \* engine->state
  is_finished, is_closed, is_running,
  auto_next_round,
  sem,            \* the semaphore's value; -1: destroyed
  lws_context,    \* "none", "live", or "dead": destroyed but not yet NULL
  wsi,            \* "none", "live", or "dead", of a connection that is gone
  conn,           \* what lws knows: "none", "connecting", "up"
  session,        \* the server has created a session on that connection
  requested,      \* a writable callback was asked for
  send,           \* messages in send_buffer
  todo,           \* what the call in progress has still to send
  upc, epc,
  freed,          \* uninit has returned and the engine was freed
  \* What the properties need to remember.
  contexts,       \* lws contexts created and not destroyed
  owed,           \* a message was queued for the connection, and not all is sent
  asked,          \* a start came after the last finish, cancel or uninit
  starts, calls,  \* calls made
  fault           \* "none", or the undefined behaviour that was reached

flags == <<is_finished, is_closed, is_running, auto_next_round>>
context == <<lws_context, contexts>>
link == <<conn, session, requested, owed>>
bounds == <<starts, calls>>
shared == <<state, flags, sem, context, wsi, link>>
others == <<send, todo, freed, asked, bounds>>
vars == <<shared, others, upc, epc, fault>>

State == {"DISCONNECTED", "CONNECTING", "CONNECTED", "SESSION_CREATED", "LISTENING",
          "PROCESSING", "SPEAKING", "ERROR"}
Message == {"audio", "commit", "create", "cancel"}

\* volc_conversation_init has created the thread and waits for it; the thread has
\* done nothing yet.
Init ==
  /\ state = "DISCONNECTED"
  /\ is_finished = FALSE /\ is_closed = FALSE /\ is_running = FALSE
  /\ auto_next_round \in BOOLEAN
  /\ sem = 0 /\ lws_context = "none" /\ wsi = "none" /\ contexts = 0
  /\ conn = "none" /\ session = FALSE /\ requested = FALSE /\ owed = FALSE
  /\ send = 0 /\ todo = <<>>
  /\ upc = "create" /\ epc = "begin" /\ freed = FALSE
  /\ asked = FALSE /\ starts = 0 /\ calls = 0 /\ fault = "none"

-----------------------------------------------------------------------------
\* Helpers.

User(p, q) == fault = "none" /\ ~freed /\ upc = p /\ upc' = q /\ UNCHANGED epc

Thread(p, q) == fault = "none" /\ ~freed /\ epc = p /\ epc' = q /\ UNCHANGED upc

\* The connection is gone, and what was asked of it.
Disconnect == conn' = "none" /\ session' = FALSE /\ requested' = FALSE /\ owed' = FALSE

\* lws_context_destroy of engine->lws_context, with the callbacks it makes for a
\* connection.  Under a thread that serves the context, or for the second time, it
\* is a fault; NULL is ignored.
DestroyContext(served) ==
  IF lws_context = "none"
  THEN UNCHANGED <<state, context, wsi, link, fault>>
  ELSE /\ fault' = IF lws_context = "dead" \/ served THEN "context" ELSE fault
       /\ lws_context' = "dead"
       /\ contexts' = contexts - 1
       /\ Disconnect
       /\ wsi' = IF conn # "none" THEN "none" ELSE wsi
       /\ state' \in CASE conn = "up" -> {"DISCONNECTED"}
                       [] conn = "connecting" -> {state, "ERROR"}
                       [] OTHER -> {state}

\* sem_post.
Post == /\ sem' = IF sem >= 0 THEN sem + 1 ELSE sem
        /\ fault' = IF sem >= 0 THEN fault ELSE "sem"

-----------------------------------------------------------------------------
\* The user's loop.

\* The sem_wait of volc_conversation_create_thread.
Created ==
  /\ User("create", "idle")
  /\ sem > 0 /\ sem' = sem - 1
  /\ UNCHANGED <<state, flags, context, wsi, link, others, fault>>

\* volc_conversation_start.
Start ==
  /\ User("idle", "ensure")
  /\ starts < MaxStarts /\ starts' = starts + 1
  /\ is_finished' = FALSE
  /\ asked' = TRUE
  /\ UNCHANGED <<state, is_closed, is_running, auto_next_round, sem, context, wsi,
                 link, send, todo, freed, calls, fault>>

\* volc_conversation_connect_websocket: there is a connection, it is reused.
Reuse ==
  /\ User("ensure", "idle")
  /\ lws_context # "none" /\ wsi # "none"
  /\ UNCHANGED <<shared, others, fault>>

\* There is the context of an earlier connection.
CleanUpNot ==
  /\ User("ensure", "connect")
  /\ wsi = "none"
  /\ UNCHANGED <<shared, others, fault>>

CleanUp ==
  /\ User("ensure", "forget")
  /\ lws_context # "none" /\ wsi = "none"
  /\ DestroyContext(epc = "service")
  /\ UNCHANGED <<flags, sem, others>>

NothingToClean ==
  /\ User("ensure", "connect")
  /\ lws_context = "none"
  /\ UNCHANGED <<shared, others, fault>>

\* lws_context = NULL and wsi = NULL, after a destruction.
ForgetContext ==
  /\ lws_context' = "none" /\ wsi' = "none"
  /\ UNCHANGED <<state, flags, sem, contexts, link, others, fault>>

Forget == User("forget", "connect") /\ ForgetContext

NewContext ==
  /\ User("connect", "dial")
  /\ lws_context' = "live" /\ contexts' = contexts + 1
  /\ UNCHANGED <<state, flags, sem, wsi, link, others, fault>>

NoContext ==
  /\ User("connect", "idle")
  /\ UNCHANGED <<shared, others, fault>>

\* lws_client_connect_via_info has begun a connection.
Dial ==
  /\ User("dial", "assign")
  /\ fault' = IF lws_context = "live" THEN fault ELSE "context"
  /\ conn' = "connecting" /\ session' = FALSE /\ requested' = FALSE /\ owed' = FALSE
  /\ UNCHANGED <<state, flags, sem, context, wsi, others>>

\* It has failed, and may have said so to the websocket callback.
DialFails ==
  /\ User("dial", "undial")
  /\ fault' = IF lws_context = "live" THEN fault ELSE "context"
  /\ state' \in {state, "ERROR"}
  /\ wsi' = "none"
  /\ UNCHANGED <<flags, sem, context, link, others>>

Undial ==
  /\ User("undial", "unforget")
  /\ DestroyContext(epc = "service")
  /\ UNCHANGED <<flags, sem, others>>

Unforget ==
  /\ User("unforget", "idle")
  /\ lws_context' = "none"
  /\ UNCHANGED <<state, flags, sem, wsi, contexts, link, others, fault>>

\* engine->wsi is assigned, when the connection may be gone already; and then it
\* is read again, which takes a connection that went in between for a failure.
AssignWsi ==
  /\ User("assign", "dialled")
  /\ wsi' = IF conn = "none" THEN "dead" ELSE "live"
  /\ UNCHANGED <<state, flags, sem, context, link, others, fault>>

CheckWsi ==
  /\ User("dialled", IF wsi = "none" THEN "undial" ELSE "connecting")
  /\ UNCHANGED <<shared, others, fault>>

\* state = CONNECTING, whatever the thread has made of it since.
ConnectingNot ==
  /\ User("connecting", "idle")
  /\ UNCHANGED <<shared, others, fault>>

Connecting ==
  /\ User("connecting", "idle")
  /\ state' = "CONNECTING"
  /\ UNCHANGED <<flags, sem, context, wsi, link, others, fault>>

\* volc_conversation_write_audio, up to its early returns.
WriteAudio ==
  /\ User("idle", "queue")
  /\ calls < MaxCalls /\ calls' = calls + 1
  /\ ~is_finished /\ ~is_closed
  /\ state \in {"SESSION_CREATED", "LISTENING"}
  /\ todo' = <<"audio">>
  /\ UNCHANGED <<shared, send, freed, asked, starts, fault>>

\* volc_conversation_finish.
FinishNot ==
  /\ User("idle", "processing")
  /\ calls < MaxCalls /\ calls' = calls + 1
  /\ asked' = FALSE
  /\ todo' = <<"commit", "create">>
  /\ UNCHANGED <<shared, send, freed, starts, fault>>

Finish ==
  /\ User("idle", "processing")
  /\ calls < MaxCalls /\ calls' = calls + 1
  /\ is_finished' = TRUE
  /\ asked' = FALSE
  /\ todo' = <<"commit", "create">>
  /\ UNCHANGED <<state, is_closed, is_running, auto_next_round, sem, context, wsi,
                 link, send, freed, starts, fault>>

Processing ==
  /\ User("processing", "queue")
  /\ state' = "PROCESSING"
  /\ UNCHANGED <<flags, sem, context, wsi, link, others, fault>>

\* volc_conversation_cancel.
Cancel ==
  /\ User("idle", "queue")
  /\ calls < MaxCalls /\ calls' = calls + 1
  /\ is_finished' = TRUE
  /\ asked' = FALSE
  /\ todo' = <<"cancel">>
  /\ UNCHANGED <<state, is_closed, is_running, auto_next_round, sem, context, wsi,
                 link, send, freed, starts, fault>>

\* volc_conversation_send_json_message.  A full ring gives up its oldest message.
Queued(n) == IF n < MaxQueue THEN n + 1 ELSE n

QueueMessage ==
  /\ User("queue", "wake")
  /\ send' = Queued(send)
  /\ owed' = (owed \/ conn = "up")
  /\ UNCHANGED <<state, flags, sem, context, wsi, conn, session, requested, todo,
                 freed, asked, bounds, fault>>

\* lws_callback_on_writable(engine->wsi), and the return to the caller.
AfterWake ==
  CASE Tail(todo) # <<>> -> "queue"
    [] todo = <<"audio">> -> "compare"
    [] OTHER -> "idle"

Wake ==
  /\ User("wake", AfterWake)
  /\ todo' = Tail(todo)
  /\ requested' = TRUE
  /\ fault' = IF wsi = "live" THEN fault ELSE "wsi"
  /\ UNCHANGED <<state, flags, sem, context, wsi, conn, session, owed, send, freed,
                 asked, bounds>>

\* The end of write_audio: state == SESSION_CREATED, and then state = LISTENING.
Compare ==
  /\ User("compare", IF state = "SESSION_CREATED" THEN "listen" ELSE "idle")
  /\ UNCHANGED <<shared, others, fault>>

Listen ==
  /\ User("listen", "idle")
  /\ state' = "LISTENING"
  /\ UNCHANGED <<flags, sem, context, wsi, link, others, fault>>

\* volc_conversation_uninit.
Uninit ==
  /\ User("idle", "join")
  /\ is_finished' = TRUE /\ is_closed' = TRUE
  /\ asked' = FALSE
  /\ UNCHANGED <<state, is_running, auto_next_round, sem, context, wsi, link, send,
                 todo, freed, bounds, fault>>

\* volc_conversation_destroy_thread: the thread is waited for if it runs.
Join ==
  /\ User("join", IF is_running THEN "wait" ELSE "joined")
  /\ UNCHANGED <<shared, others, fault>>

Wait ==
  /\ User("wait", "joined")
  /\ sem > 0 /\ sem' = sem - 1
  /\ UNCHANGED <<state, flags, context, wsi, link, others, fault>>

DestroySem ==
  /\ User("joined", "close")
  /\ sem' = -1
  /\ UNCHANGED <<state, flags, context, wsi, link, others, fault>>

\* lws_close_reason.
CloseWsi ==
  /\ User("close", "context")
  /\ wsi' = "none"
  /\ fault' = IF wsi = "dead" THEN "wsi" ELSE fault
  /\ UNCHANGED <<state, flags, sem, context, link, others>>

CloseContext ==
  /\ User("context", "free")
  /\ DestroyContext(epc = "service")
  /\ UNCHANGED <<flags, sem, others>>

\* lws_context = NULL; conversation_plugin_uninit then frees the engine.
Free ==
  /\ User("free", "idle")
  /\ freed' = TRUE
  /\ UNCHANGED <<shared, send, todo, asked, bounds, fault>>

-----------------------------------------------------------------------------
\* The engine's thread: volc_conversation_uvloop_thread.

\* uv_loop_init and uv_async_queue_init.
ThreadStarts ==
  /\ Thread("begin", "top")
  /\ UNCHANGED <<shared, others, fault>>

\* One of them fails: the thread returns, past the sem_post after the loop.
ThreadFails ==
  /\ Thread("begin", "failed")
  /\ is_running' = FALSE
  /\ UNCHANGED <<state, is_finished, is_closed, auto_next_round, sem, context, wsi,
                 link, others, fault>>

\* The condition of the loop.
Round ==
  /\ Thread("top", IF is_closed THEN "end" ELSE "check")
  /\ UNCHANGED <<shared, others, fault>>

\* Into lws_service, if there is a context.
Service ==
  /\ Thread("check", IF lws_context # "none" THEN "service" ELSE "mark")
  /\ ~is_closed
  /\ fault' = IF lws_context = "dead" THEN "context" ELSE fault
  /\ UNCHANGED <<shared, others>>

\* Closed in the meantime: the context goes.
ServiceStopped ==
  /\ Thread("check", "drop")
  /\ is_closed /\ lws_context # "none"
  /\ DestroyContext(FALSE)
  /\ UNCHANGED <<flags, sem, others>>

ServiceSkipped ==
  /\ Thread("check", "mark")
  /\ is_closed /\ lws_context = "none"
  /\ UNCHANGED <<shared, others, fault>>

Drop == Thread("drop", "end") /\ ForgetContext

ServiceReturns ==
  /\ Thread("service", "mark")
  /\ UNCHANGED <<shared, others, fault>>

ServiceFails ==
  /\ Thread("service", "end")
  /\ UNCHANGED <<shared, others, fault>>

\* The first round tells create_thread, and only then sets is_running.
Mark ==
  /\ Thread("mark", IF is_running THEN "top" ELSE "run")
  /\ IF is_running THEN UNCHANGED <<sem, fault>> ELSE Post
  /\ UNCHANGED <<state, flags, context, wsi, link, others>>

Run ==
  /\ Thread("run", "top")
  /\ is_running' = TRUE
  /\ UNCHANGED <<state, is_finished, is_closed, auto_next_round, sem, context, wsi,
                 link, others, fault>>

\* After the loop: uninit may go on, and the thread cleans up.
LeaveNot ==
  /\ Thread("end", "clean")
  /\ UNCHANGED <<shared, others, fault>>

Leave ==
  /\ Thread("end", "clean")
  /\ Post
  /\ UNCHANGED <<state, flags, context, wsi, link, others>>

Clean ==
  /\ Thread("clean", IF lws_context = "none" THEN "out" ELSE "null")
  /\ DestroyContext(FALSE)
  /\ UNCHANGED <<flags, sem, others>>

CleanForget == Thread("null", "out") /\ ForgetContext

Out ==
  /\ Thread("out", "done")
  /\ is_running' = FALSE
  /\ UNCHANGED <<state, is_finished, is_closed, auto_next_round, sem, context, wsi,
                 link, others, fault>>

\* The engine was freed under the thread.
ThreadUsesFreed ==
  /\ fault = "none" /\ freed /\ epc \notin {"done", "failed"}
  /\ fault' = "freed"
  /\ UNCHANGED <<shared, send, todo, upc, epc, freed, asked, bounds>>

-----------------------------------------------------------------------------
\* volc_conversation_websocket_callback, called by lws_service.

Established ==
  /\ Thread("service", "service") /\ conn = "connecting"
  /\ conn' = "up"
  /\ state' = "CONNECTED"
  /\ UNCHANGED <<flags, sem, context, wsi, session, requested, owed, others, fault>>

\* volc_conversation_process_server_message.
SessionCreated ==
  /\ Thread("service", "service") /\ conn = "up" /\ ~session
  /\ session' = TRUE
  /\ state' = "SESSION_CREATED"
  /\ UNCHANGED <<flags, sem, context, wsi, conn, requested, owed, others, fault>>

\* input_audio_buffer.committed, response.created, error.
ServerMessage(s) ==
  /\ Thread("service", "service") /\ session
  /\ state' = s
  /\ UNCHANGED <<flags, sem, context, wsi, link, others, fault>>

ResponseDone ==
  /\ Thread("service", "service") /\ session
  /\ state' = "SESSION_CREATED"
  /\ is_finished' = (is_finished /\ ~auto_next_round)
  /\ UNCHANGED <<is_closed, is_running, auto_next_round, sem, context, wsi, link,
                 others, fault>>

ConnectionError ==
  /\ Thread("service", "service") /\ conn = "connecting"
  /\ Disconnect
  /\ wsi' = "none"
  /\ state' = "ERROR"
  /\ UNCHANGED <<flags, sem, context, others, fault>>

Closed ==
  /\ Thread("service", "service") /\ conn = "up"
  /\ Disconnect
  /\ wsi' = "none"
  /\ state' = "DISCONNECTED"
  /\ UNCHANGED <<flags, sem, context, others, fault>>

\* What is queued goes out as one frame, and what does not fit into it later.
Sent == IF send < MaxSend THEN send ELSE MaxSend

WriteableOnce ==
  /\ Thread("service", "service") /\ conn = "up" /\ requested
  /\ requested' = FALSE
  /\ send' = send - Sent
  /\ owed' = (owed /\ send' > 0)
  /\ UNCHANGED <<state, flags, sem, context, wsi, conn, session, todo, freed, asked,
                 bounds, fault>>

Writeable ==
  /\ Thread("service", "service") /\ conn = "up" /\ requested
  /\ send' = send - Sent
  /\ requested' = (send' > 0)
  /\ owed' = (owed /\ send' > 0)
  /\ UNCHANGED <<state, flags, sem, context, wsi, conn, session, todo, freed, asked,
                 bounds, fault>>

\* lws_write fails: what was taken is lost, and the connection is closed.
WriteFails ==
  /\ Thread("service", "service") /\ conn = "up" /\ requested /\ send > 0
  /\ send' = send - Sent
  /\ Disconnect
  /\ wsi' = "none"
  /\ state' = "DISCONNECTED"
  /\ UNCHANGED <<flags, sem, context, todo, freed, asked, bounds, fault>>

-----------------------------------------------------------------------------
\* A call that goes on, and one that begins.
Connect == Reuse \/ CleanUp \/ NothingToClean \/ Forget \/ NewContext \/ NoContext \/ Dial
             \/ DialFails \/ Undial \/ Unforget \/ AssignWsi \/ CheckWsi \/ Connecting

SendMessage == Processing \/ QueueMessage \/ Wake \/ Compare \/ Listen

Close == Join \/ Wait \/ DestroySem \/ CloseWsi \/ CloseContext \/ Free

GoOn == Created \/ Connect \/ SendMessage \/ Close

Begin == Start \/ WriteAudio \/ Finish \/ Cancel \/ Uninit

Loop == ThreadStarts \/ ThreadFails \/ Round \/ Service \/ ServiceStopped \/ ServiceSkipped \/ Drop \/ ServiceReturns
          \/ ServiceFails \/ Mark \/ Run \/ Leave \/ Clean \/ CleanForget \/ Out

Callback == Established \/ SessionCreated \/ ResponseDone \/ ConnectionError \/ Closed
              \/ Writeable \/ WriteFails
              \/ \E s \in {"PROCESSING", "SPEAKING", "ERROR"} : ServerMessage(s)

Next == Begin \/ GoOn \/ Loop \/ Callback \/ ThreadUsesFreed

\* Both threads go on, and the socket of a connection is writable again and
\* again; nothing is asked of the user or of the server.
Fairness ==
  /\ WF_vars(GoOn)
  /\ WF_vars(Loop)
  /\ SF_vars(Writeable \/ WriteFails)

Spec == Init /\ [][Next]_vars

FairSpec == Spec /\ Fairness
-----------------------------------------------------------------------------
UserPc == {"create", "idle", "ensure", "forget", "connect", "dial", "undial",
           "unforget", "assign", "dialled", "connecting", "processing", "queue", "wake",
           "compare", "listen", "join", "wait", "joined", "close", "context", "free"}
ThreadPc == {"begin", "failed", "top", "check", "service", "drop", "mark", "run", "end", "clean", "null",
             "out", "done"}

\* Every variable has its type.
TypeOK ==
  /\ state \in State
  /\ is_finished \in BOOLEAN /\ is_closed \in BOOLEAN /\ is_running \in BOOLEAN
  /\ auto_next_round \in BOOLEAN
  /\ sem \in -1 .. 2
  /\ lws_context \in {"none", "live", "dead"} /\ wsi \in {"none", "live", "dead"}
  /\ conn \in {"none", "connecting", "up"}
  /\ session \in BOOLEAN /\ requested \in BOOLEAN /\ owed \in BOOLEAN
  /\ send \in 0 .. MaxQueue /\ todo \in Seq(Message)
  /\ upc \in UserPc /\ epc \in ThreadPc
  /\ freed \in BOOLEAN /\ contexts \in Int /\ asked \in BOOLEAN
  /\ starts \in Nat /\ calls \in Nat
  /\ fault \in {"none", "wsi", "context", "sem", "freed"}

\* Audio on its way into the send ring.
QueuesAudio == upc = "queue" /\ Head(todo) = "audio"

\* Audio is queued only for a connection on which the server has created a
\* session: the state that write_audio goes by may have been overwritten by
\* either thread, but never says so of a connection that is younger.
AudioInSession == QueuesAudio => session \/ conn = "none"

\* Unless rounds follow each other by themselves, no audio is queued between a
\* finish, cancel or uninit and the next start, whatever the server answers.
AudioIsAsked == QueuesAudio /\ ~auto_next_round => asked

\* Every lws context that was created and not destroyed is the one the engine
\* points to: starts over dead connections leak none.
NoLeak ==
  fault = "none" => contexts = IF lws_context = "live" THEN 1 ELSE 0

\* Every call returns, whatever way the thread leaves its loop: init and uninit
\* do not wait for a semaphore that nobody posts.  The exception is an init whose
\* thread could not make its loop or its queue: it was told nothing, and waits
\* for ever.
CallsReturn == (upc # "idle") ~> (upc = "idle" \/ fault # "none" \/ epc = "failed")

\* What is queued for a connection is sent on it while it lasts: no wakeup is
\* lost between the thread that queues and the thread that sends.
QueuedIsSent == owed ~> (~owed \/ freed \/ fault # "none")
=============================================================================
