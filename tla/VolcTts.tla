------------------------------ MODULE VolcTts ------------------------------
(***************************************************************************)
(* src/tts/volc/ai_volc_tts.c: the synthesiser's plugin.  Its thread, its  *)
(* connection and the reassembly of messages are those of VolcEngine; here *)
(* are its calls (speak, stop), the handshake its connection goes through  *)
(* (conn_state), the text that waits for it, and the server at the other   *)
(* end.                                                                    *)
(*                                                                         *)
(* Texts are numbered.  A message of the server is an answer of the        *)
(* handshake or an event that is reported to the synthesiser (audio, the   *)
(* end of a sentence, an error: see module Tts) or to nobody; what the     *)
(* middle of a message says when it is taken for a message is left open.   *)
(*                                                                         *)
(* Assumed of the synthesiser: it stops whatever it has spoken before it   *)
(* speaks again, and calls uninit on the engine thread (module Tts).       *)
(* Assumed of the server: it answers each request of the handshake once,   *)
(* in their order, or never.                                               *)
(***************************************************************************)
EXTENDS VolcEngine

CONSTANT MaxTexts  \* bound on the texts spoken

ASSUME VolcTtsAssumption ==
  /\ MaxTexts \in Nat
  /\ Labels = {"connection_started", "session_started", "event"}

VARIABLES
  conn_state,   \* ctx->state->conn_state
  cache_text,   \* the text in ctx->cache_text: 0 if it is empty
  allocated,    \* ctx->cache_text # NULL
  \* What the properties need to remember.
  asked,        \* the answers the server owes to the handshake
  texts,        \* texts accepted
  spoken,       \* the latest text sent on the connection, or 0
  again,        \* speak has reused the connection of a text that was stopped
  unconnected   \* a speak has failed for want of a connection

text == <<cache_text, allocated, texts, unconnected>>
wire == <<conn_state, asked, spoken, again>>
vars == <<engineVars, text, wire>>

ConnState == {"none", "start_connection", "connection_started", "start_session",
              "session_started"}

Init ==
  /\ EngineInit
  /\ conn_state = "none" /\ cache_text = 0 /\ allocated = FALSE
  /\ asked = <<>> /\ texts = 0 /\ spoken = 0 /\ again = FALSE /\ unconnected = FALSE

-----------------------------------------------------------------------------
\* The calls.

NoWire == conn_state' = "none" /\ asked' = <<>> /\ spoken' = 0 /\ again' = FALSE

Cache == cache_text' = texts' /\ allocated' = TRUE

\* What every accepted speak does first.
Accept ==
  /\ Handling /\ is_running /\ is_finished /\ texts < MaxTexts
  /\ texts' = texts + 1
  /\ Cache

SpeakNewAlways ==
  /\ Accept
  /\ Connect
  /\ NoWire
  /\ is_finished' = FALSE
  /\ UNCHANGED <<life, is_running, is_closed, cb, unconnected>>

\* (The callback that a new connection asks for is asked for once more when it
\* is established.)
SpeakNew ==
  /\ Accept /\ ~state
  /\ Connect
  /\ NoWire
  /\ is_finished' = FALSE
  /\ UNCHANGED <<life, is_running, is_closed, cb, unconnected>>

\* A connection there is is taken as it is.
SpeakAgain ==
  /\ Accept /\ state
  /\ is_finished' = FALSE
  /\ again' = TRUE
  /\ Arm
  /\ UNCHANGED <<life, is_running, is_closed, cb, connection, reassembly,
                 conn_state, asked, spoken, unconnected>>

SpeakFails ==
  /\ Accept /\ ~state
  /\ ConnectFails
  /\ unconnected' = TRUE
  /\ UNCHANGED <<life, flags, cb, wire>>

\* What stop does to a connection there is.
CutOff ==
  /\ is_finished' = TRUE
  /\ conn_state' = "none"
  /\ cache_text' = 0 /\ allocated' = FALSE
  /\ recv_buf' = <<>>
  /\ UNCHANGED <<asked, spoken, again, texts, unconnected>>

Stop ==
  /\ Handling
  /\ IF state
     THEN CutOff /\ Arm /\ UNCHANGED <<recv_buf_size, sending, torn>>
     ELSE /\ is_finished' = TRUE /\ fault' = "no_state"
          /\ UNCHANGED <<reassembly, armed, text, wire>>
  /\ UNCHANGED <<life, is_running, is_closed, cb, connection>>

\* tts_plugin_uninit, from ai_tts_close_handler on this same thread.
Uninit ==
  /\ Handling
  /\ upc' = "done" /\ cb' = FALSE /\ is_closed' = TRUE
  /\ UNCHANGED <<ipc, tpc, sem, asyncq, freed, failed, is_running, is_finished, connection,
                 armed, reassembly, fault, text, wire>>

-----------------------------------------------------------------------------
\* The websocket callback.

\* One message goes out and the callback is asked for again.
SendRequest(answer) == asked' = Append(asked, answer) /\ armed' = TRUE

StartConnection ==
  /\ conn_state = "none"
  /\ SendRequest("connection_started")
  /\ conn_state' = "start_connection"
  /\ UNCHANGED <<spoken, again, text>>

StartSessionSure ==
  /\ conn_state = "connection_started"
  /\ SendRequest("session_started")
  /\ conn_state' = "session_started"
  /\ UNCHANGED <<spoken, again, text>>

StartSession ==
  /\ conn_state = "connection_started"
  /\ SendRequest("session_started")
  /\ conn_state' = "start_session"
  /\ UNCHANGED <<spoken, again, text>>

\* volc_tts_send_text.
SendText ==
  /\ conn_state = "session_started" /\ cache_text # 0 /\ ~is_finished
  /\ spoken' = cache_text /\ cache_text' = 0
  /\ armed' = TRUE
  /\ UNCHANGED <<conn_state, asked, again, allocated, texts, unconnected>>

NothingToSend ==
  /\ \/ conn_state \in {"start_connection", "start_session"}
     \/ conn_state = "session_started" /\ (cache_text = 0 \/ is_finished)
  /\ armed' = FALSE
  /\ UNCHANGED <<wire, text>>

Writeable ==
  /\ Serving /\ wsi = "open" /\ armed
  /\ StartConnection \/ StartSession \/ SendText \/ NothingToSend
  /\ tpc' = "serving"
  /\ UNCHANGED <<ipc, upc, sem, asyncq, freed, failed, flags, cb, connection, reassembly,
                 fault>>

EstablishedTts ==
  /\ Established
  /\ armed' = TRUE
  /\ UNCHANGED <<wire, text>>

\* What the API makes of a report: nothing, or stop.
AnswerTts(ends) ==
  IF ends THEN CutOff ELSE UNCHANGED <<is_finished, wire, text>>

ConnectionErrorTts(ends) ==
  /\ ConnectionError(ends)
  /\ AnswerTts(ends)
  /\ ends \/ UNCHANGED recv_buf

ServiceFailsTts(ends) ==
  /\ ServiceFails(ends)
  /\ AnswerTts(ends)
  /\ IF ends THEN Arm ELSE UNCHANGED <<recv_buf, armed, fault>>

\* What the server may begin to send: the answer it owes, or an event.
Sends(label) == sending = 0 => label = "event" \/ (asked # <<>> /\ label = Head(asked))

Owed(label) == IF sending = 0 /\ label # "event" THEN Tail(asked) ELSE asked

\* After every fragment the callback is asked for.
ReceivePartTts(label, len) ==
  /\ Sends(label)
  /\ ReceivePart(label, len)
  /\ asked' = Owed(label)
  /\ armed' = TRUE
  /\ UNCHANGED <<conn_state, spoken, again, text>>

\* What the bytes are parsed as.
Parsed(bytes) == IF IsWhole(bytes) THEN {bytes[1]} ELSE Labels

\* volc_tts_parse_response moves the handshake on; or it finds an event, which
\* may be reported and make the API stop.
HandshakeSilent(answer) ==
  /\ answer # "event"
  /\ conn_state' = answer
  /\ UNCHANGED <<armed, is_finished, spoken, again, text>>

Handshake(answer) ==
  /\ answer # "event"
  /\ conn_state' = answer
  /\ armed' = TRUE
  /\ UNCHANGED <<is_finished, spoken, again, text>>

EventReported(ends) ==
  /\ ends => cb /\ ~is_finished
  /\ is_finished' = (is_finished \/ ends)
  /\ IF ends
     THEN conn_state' = "none" /\ cache_text' = 0 /\ allocated' = FALSE
     ELSE UNCHANGED <<conn_state, cache_text, allocated>>
  /\ armed' = TRUE
  /\ UNCHANGED <<spoken, again, texts, unconnected>>

ReceiveLastTts(label, len) ==
  /\ Sends(label)
  /\ ReceiveLast(label, len)
  /\ asked' = Owed(label)
  /\ \E parsed \in Parsed(Received(label, len)) :
       \/ Handshake(parsed)
       \/ parsed = "event" /\ \E ends \in BOOLEAN : EventReported(ends)
  /\ UNCHANGED fault

-----------------------------------------------------------------------------
\* The thread: lws_context_destroy and volc_tts_destroy_lws_state take the
\* text along, if there is a connection.
Destroys ==
  /\ StopService \/ CleanUp
  /\ IF state
     THEN NoWire /\ cache_text' = 0 /\ allocated' = FALSE
     ELSE UNCHANGED <<wire, cache_text, allocated>>
  /\ UNCHANGED <<texts, unconnected>>

\* volc_tts_init.
Create == (InitReturns \/ InitTimesOut) /\ UNCHANGED <<wire, text>>

\* volc_tts_uvloop_thread.
Thread ==
  \/ (ThreadStarts \/ EngineThread) /\ UNCHANGED <<wire, text>>
  \/ Destroys

Calls ==
  \/ (UsesFreedEngine \/ SetCallback) /\ UNCHANGED <<wire, text>>
  \/ SpeakNew \/ SpeakAgain \/ SpeakFails \/ Stop \/ Uninit

\* volc_tts_callback_bigtts.
Callback ==
  \/ EstablishedTts
  \/ Writeable
  \/ Closed /\ UNCHANGED <<wire, text>>
  \/ \E ends \in BOOLEAN : ConnectionErrorTts(ends) \/ ServiceFailsTts(ends)
  \/ \E label \in Labels, len \in 1 .. MaxPiece :
       ReceivePartTts(label, len) \/ ReceiveLastTts(label, len)

Next == fault = "none" /\ (Create \/ Thread \/ Calls \/ Callback)

\* The thread keeps running, and a socket that is open is writable again and
\* again; nothing is asked of the server or of the API.
Fairness ==
  /\ WF_vars(fault = "none" /\ Thread)
  /\ SF_vars(fault = "none" /\ Writeable)

Spec == Init /\ [][Next]_vars

FairSpec == Spec /\ Fairness
-----------------------------------------------------------------------------
\* Every variable has its type.
TypeOK ==
  /\ EngineTypeOK
  /\ conn_state \in ConnState
  /\ texts \in 0 .. MaxTexts /\ cache_text \in 0 .. texts /\ spoken \in 0 .. texts
  /\ allocated \in BOOLEAN /\ (cache_text # 0 => allocated)
  /\ again \in BOOLEAN /\ unconnected \in BOOLEAN
  /\ asked \in Seq(Labels)

\* There is never a second connection: a text either finds the one of the text
\* before or that one is destroyed, whatever the order of stop, speak, errors
\* and the end of the thread; and none is left when the engine is freed.
OneContext == contexts = (IF state THEN 1 ELSE 0)

\* On a connection that serves one text this goes out only while the server owes
\* no answer to the handshake: what has been asked of it was answered, however the
\* answers were cut and mixed with events.  (A connection that is used again
\* repeats the handshake, and a late answer to the first one may then be taken for
\* an answer to the second.)
TextAfterHandshake == [][spoken' \notin {spoken, 0} /\ ~again => asked = <<>>]_vars

\* A text is sent once, however often lws can write.
SentOnce == spoken # 0 => cache_text # spoken

\* No wakeup of the sender is lost: whenever it is the client's turn in the
\* handshake, or a text waits for its end, lws has been asked to call back.
SenderAwake ==
  wsi = "open" /\ ~is_finished
    /\ (conn_state \in {"none", "connection_started"} \/ (conn_state = "session_started" /\ cache_text # 0))
  => armed

\* What is parsed is one whole message, unless a stop has cut one off and its
\* connection is used again.
WholeUnlessReused == [][torn' # torn => again]_vars

\* The engine frees its text; only one whose connection failed may be left.
TextFreed == freed /\ allocated => unconnected

\* What holds of a synthesiser's engine at any time.
Inv == TypeOK /\ OneContext /\ SentOnce /\ SenderAwake /\ TextFreed

\* Once the session is started a text goes out, unless the connection, the engine
\* or the service ends, or the handshake is thrown back: by a stop, or on a
\* connection used again by a late answer or the rest of a torn message.
TextGoesOut ==
  (wsi = "open" /\ conn_state = "session_started" /\ cache_text # 0)
    ~> (cache_text = 0 \/ conn_state # "session_started" \/ wsi # "open" \/ failed \/ is_closed
          \/ fault # "none")
=============================================================================
