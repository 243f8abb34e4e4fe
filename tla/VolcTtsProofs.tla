---------------------------- MODULE VolcTtsProofs ----------------------------
(***************************************************************************)
(* Theorems about the synthesiser's plugin, for every length of a message  *)
(* and of a websocket fragment and every number of texts.                  *)
(*                                                                         *)
(* That a text waits for the whole handshake rests on what the server owes *)
(* at each conn_state (Handshaking), which in turn rests on the messages   *)
(* being whole (Reassembling): the answer that moves conn_state on is the  *)
(* one that has come.  Both hold of a connection until it is used again,   *)
(* and of one that was stopped until it is destroyed.                      *)
(***************************************************************************)
EXTENDS VolcTts, TLAPS

\* The variables have their types.
Flags ==
  /\ is_running \in BOOLEAN /\ is_finished \in BOOLEAN /\ is_closed \in BOOLEAN
  /\ cb \in BOOLEAN /\ asyncq \in BOOLEAN /\ freed \in BOOLEAN /\ failed \in BOOLEAN
  /\ state \in BOOLEAN /\ armed \in BOOLEAN /\ torn \in BOOLEAN
  /\ allocated \in BOOLEAN /\ again \in BOOLEAN /\ unconnected \in BOOLEAN

Names ==
  /\ ipc \in {"wait", "ok", "failed"} /\ upc \in {"no", "half", "done"}
  /\ tpc \in {"new", "poll", "service", "serving", "tail", "ran", "exit", "cleanup", "gone"}
  /\ wsi \in {"none", "connecting", "open", "dead"} /\ conn_state \in ConnState
  /\ fault \in {"none", "sem", "freed", "wsi", "no_state"}

Numbers ==
  /\ sem \in Nat /\ connects \in Nat /\ lost \in Nat
  /\ contexts \in Int /\ OneContext

Texts ==
  /\ texts \in 0 .. MaxTexts /\ cache_text \in 0 .. texts /\ spoken \in 0 .. texts
  /\ SentOnce

Buffer ==
  /\ recv_buf \in Seq(Labels \cup {More}) /\ recv_buf_size \in Nat /\ sending \in Nat
  /\ asked \in Seq(Labels)

\* The text is the engine's or the connection's; whoever ends the one or the
\* other gives it back.
Memory ==
  /\ cache_text # 0 => allocated
  /\ allocated /\ ~state => unconnected
  /\ freed => tpc = "gone"
  /\ tpc \in {"new", "gone"} => ~state

\* What is in the reassembly buffer is what the server has sent so far of a
\* message.
HoldsMessage == Len(recv_buf) = sending /\ (sending > 0 => IsWhole(recv_buf))

\* It is so whenever something may be received.
Reassembling ==
  /\ ~state => wsi = "none"
  /\ wsi = "connecting" => sending = 0 /\ recv_buf = <<>>
  /\ \/ again \/ HoldsMessage
     \/ wsi \in {"none", "dead"}
     \/ is_finished /\ tpc \in {"poll", "service"}
     \/ tpc \in {"exit", "cleanup", "gone"}

\* An answer has come in part; the answer the client waits for.
Begun == sending > 0 /\ recv_buf[1] # "event"
Due == IF conn_state = "start_connection" THEN "connection_started" ELSE "session_started"
Awaited == conn_state \in {"start_connection", "start_session"}

\* The server owes the answer that conn_state waits for, and nothing else.
Handshaking ==
  wsi \in {"connecting", "open"} /\ ~again /\ ~is_finished =>
    IF Awaited
    THEN (Begun /\ recv_buf[1] = Due /\ asked = <<>>) \/ (~Begun /\ asked = <<Due>>)
    ELSE ~Begun /\ asked = <<>>

Types == Flags /\ Names /\ Numbers /\ Texts /\ Buffer

IInv == Types /\ Memory /\ Reassembling /\ Handshaking /\ SenderAwake

LEMMA LabelsAre == Labels = {"connection_started", "session_started", "event"}
BY VolcTtsAssumption

-----------------------------------------------------------------------------
\* What a step leaves alone.

\* The steps of the thread that serve nothing, and the calls that are not about
\* a text.
Quiet ==
  /\ \/ InitReturns \/ InitTimesOut \/ ThreadStarts \/ EngineThread
     \/ UsesFreedEngine \/ SetCallback \/ Uninit
  /\ UNCHANGED <<wire, text>>

Talk == SpeakNew \/ SpeakAgain \/ SpeakFails \/ Stop

LEMMA NextCases ==
  ASSUME [Next]_vars
  PROVE  Quiet \/ Destroys \/ Talk \/ Callback \/ UNCHANGED vars
<1>1. CASE Create
  BY <1>1 DEF Create, Quiet
<1>2. CASE Thread
  BY <1>2 DEF Thread, Quiet
<1>3. CASE Calls
  <2>1. Uninit => UNCHANGED <<wire, text>>
    BY DEF Uninit
  <2> QED
    BY <1>3, <2>1 DEF Calls, Quiet, Talk
<1> QED
  BY <1>1, <1>2, <1>3 DEF Next

LEMMA QuietFrame ==
  ASSUME Quiet
  PROVE  /\ UNCHANGED <<state, wsi, connects, contexts, lost, armed>>
         /\ UNCHANGED <<recv_buf, recv_buf_size, sending, torn>>
         /\ UNCHANGED <<conn_state, asked, spoken, again, cache_text, allocated, texts, unconnected>>
         /\ is_finished' = is_finished \/ (tpc = "new" /\ is_finished' = TRUE)
<1>1. UNCHANGED <<conn_state, asked, spoken, again, cache_text, allocated, texts, unconnected>>
  BY DEF Quiet, wire, text
<1> USE DEF flags, connection, reassembly
<1>2. CASE InitReturns \/ InitTimesOut
  BY <1>1, <1>2 DEF InitReturns, InitTimesOut
<1>3. CASE ThreadStarts
  BY <1>1, <1>3 DEF ThreadStarts
<1>4. CASE EngineThread
  BY <1>1, <1>4 DEF EngineThread, EndPoll, NothingToServe, EndService, Tail_, Runs, ExitPosts
<1>5. CASE UsesFreedEngine \/ SetCallback \/ Uninit
  BY <1>1, <1>5 DEF UsesFreedEngine, SetCallback, Uninit
<1> QED
  BY <1>2, <1>3, <1>4, <1>5 DEF Quiet

\* The destruction of a connection takes everything on it along.
LEMMA DestroysFrame ==
  ASSUME Destroys
  PROVE  /\ tpc \in {"service", "cleanup"} /\ state' = FALSE
         /\ UNCHANGED <<connects, lost, fault, ipc, upc, sem, torn, failed, texts, unconnected>>
         /\ UNCHANGED <<is_finished, is_closed, cb>>
         /\ is_running' \in {is_running, FALSE} /\ asyncq' \in {asyncq, FALSE}
         /\ (tpc' = "tail" /\ freed' = freed) \/ (tpc' = "gone" /\ freed' = TRUE)
         /\ \/ /\ state /\ wsi' = "none" /\ armed' = FALSE /\ contexts' = contexts - 1
               /\ recv_buf' = <<>> /\ recv_buf_size' = 0 /\ sending' = 0
               /\ conn_state' = "none" /\ asked' = <<>> /\ spoken' = 0 /\ again' = FALSE
               /\ cache_text' = 0 /\ allocated' = FALSE
            \/ /\ ~state /\ UNCHANGED <<wsi, armed, contexts, recv_buf, recv_buf_size, sending>>
               /\ UNCHANGED <<conn_state, asked, spoken, again, cache_text, allocated>>
<1> USE DEF Destroys, DestroyState, NoWire, wire, flags, connection, reassembly
<1>1. CASE StopService
  BY <1>1 DEF StopService, Stopping
<1>2. CASE CleanUp
  <2>1. /\ tpc = "cleanup" /\ tpc' = "gone" /\ freed' = TRUE /\ asyncq' = FALSE
        /\ is_running' = FALSE
        /\ UNCHANGED <<ipc, upc, sem, failed, is_finished, is_closed, cb, fault>>
        /\ UNCHANGED <<texts, unconnected>>
    BY <1>2 DEF CleanUp
  <2>2. CASE state
    BY <1>2, <2>1, <2>2 DEF CleanUp
  <2>3. CASE ~state
    <3>1. UNCHANGED <<connection, armed, reassembly, wire, cache_text, allocated>>
      BY <1>2, <2>3 DEF CleanUp
    <3>2. state' = FALSE
      BY <1>2, <2>3 DEF CleanUp, DestroyState
    <3> QED
      BY <2>1, <2>3, <3>1, <3>2
  <2> QED
    BY <2>2, <2>3
<1> QED
  BY <1>1, <1>2

\* What a speak and a stop do to the engine.
LEMMA TalkFrame ==
  ASSUME Talk
  PROVE  /\ tpc = "poll" /\ UNCHANGED <<life, is_running, is_closed, cb, torn>>
         /\ is_finished' \in {is_finished, TRUE, FALSE} /\ state' \in {state, TRUE, FALSE}
         /\ armed' \in {armed, TRUE, FALSE} /\ again' \in {again, TRUE, FALSE}
         /\ wsi' \in {wsi, "none", "connecting"} /\ fault' \in {fault, "wsi", "no_state"}
         /\ conn_state' \in {conn_state, "none"} /\ asked' \in {asked, <<>>}
         /\ connects' \in {connects, connects + 1}
         /\ allocated' \in {allocated, TRUE, FALSE} /\ unconnected' \in {unconnected, TRUE}
<1> USE DEF Handling
<1>1. CASE SpeakNew
  BY <1>1 DEF SpeakNew, Accept, Cache, Connect, NoWire
<1>2. CASE SpeakAgain
  <2>1. /\ tpc = "poll" /\ UNCHANGED <<life, is_running, is_closed, cb, connection, reassembly>>
        /\ is_finished' = FALSE /\ again' = TRUE /\ allocated' = TRUE
        /\ UNCHANGED <<conn_state, asked, unconnected>>
    BY <1>2 DEF SpeakAgain, Accept, Cache
  <2>2. armed' \in {armed, TRUE} /\ fault' \in {fault, "wsi"}
    BY <1>2 DEF SpeakAgain, Arm
  <2> QED
    BY <2>1, <2>2 DEF connection, reassembly
<1>3. CASE SpeakFails
  <2>1. /\ tpc = "poll" /\ UNCHANGED <<life, is_running, is_finished, is_closed, cb>>
        /\ allocated' = TRUE /\ unconnected' = TRUE /\ UNCHANGED <<conn_state, asked, again>>
    BY <1>3 DEF SpeakFails, Accept, Cache, flags, wire
  <2>2. /\ UNCHANGED <<torn, connects>> /\ state' \in {state, FALSE} /\ armed' \in {armed, FALSE}
        /\ wsi' \in {wsi, "none"} /\ fault' \in {fault, "wsi"}
    BY <1>3 DEF SpeakFails, ConnectFails, connection, reassembly
  <2> QED
    BY <2>1, <2>2
<1>4. CASE Stop
  <2>1. /\ tpc = "poll" /\ UNCHANGED <<life, is_running, is_closed, cb, connection, torn>>
        /\ is_finished' = TRUE
    BY <1>4 DEF Stop, CutOff, reassembly
  <2>2. /\ armed' \in {armed, TRUE} /\ fault' \in {fault, "wsi", "no_state"}
        /\ conn_state' \in {conn_state, "none"} /\ allocated' \in {allocated, FALSE}
        /\ UNCHANGED <<asked, again, unconnected>>
    BY <1>4 DEF Stop, CutOff, Arm, text, wire
  <2> QED
    BY <2>1, <2>2 DEF connection
<1> QED
  BY <1>1, <1>2, <1>3, <1>4 DEF Talk

\* What lws and what the synthesiser makes of it.
LEMMA CallbackFrame ==
  ASSUME Callback
  PROVE  /\ Serving
         /\ UNCHANGED <<ipc, upc, sem, asyncq, freed, is_running, is_closed, cb>>
         /\ UNCHANGED <<state, connects, contexts, lost, again, texts, unconnected>>
         /\ (tpc' = "serving" /\ failed' = failed) \/ (tpc' = "exit" /\ failed' = TRUE)
         /\ fault' \in {fault, "wsi"}
<1> USE DEF flags, connection, wire, text
<1>1. CASE EstablishedTts \/ (Closed /\ UNCHANGED <<wire, text>>)
  BY <1>1 DEF EstablishedTts, Established, Closed
<1>2. CASE Writeable
  BY <1>2 DEF Writeable, StartConnection, StartSession, SendText, NothingToSend
<1>3. ASSUME NEW ends \in BOOLEAN, ConnectionErrorTts(ends)
      PROVE  /\ Serving
             /\ UNCHANGED <<ipc, upc, sem, asyncq, freed, is_running, is_closed, cb>>
             /\ UNCHANGED <<state, connects, contexts, lost, again, texts, unconnected>>
             /\ tpc' = "serving" /\ failed' = failed /\ fault' = fault
  BY <1>3 DEF ConnectionErrorTts, ConnectionError, AnswerTts, CutOff
<1>4. ASSUME NEW ends \in BOOLEAN, ServiceFailsTts(ends)
      PROVE  /\ Serving
             /\ UNCHANGED <<ipc, upc, sem, asyncq, freed, is_running, is_closed, cb>>
             /\ UNCHANGED <<state, connects, contexts, lost, again, texts, unconnected>>
             /\ tpc' = "exit" /\ failed' = TRUE /\ fault' \in {fault, "wsi"}
  BY <1>4 DEF ServiceFailsTts, ServiceFails, AnswerTts, CutOff, Arm
<1>5. ASSUME NEW label, NEW len, ReceivePartTts(label, len)
      PROVE  /\ Serving
             /\ UNCHANGED <<ipc, upc, sem, asyncq, freed, is_running, is_closed, cb>>
             /\ UNCHANGED <<state, connects, contexts, lost, again, texts, unconnected>>
             /\ tpc' = "serving" /\ failed' = failed /\ UNCHANGED <<fault>>
  BY <1>5 DEF ReceivePartTts, ReceivePart
<1>6. ASSUME NEW label, NEW len, ReceiveLastTts(label, len)
      PROVE  /\ Serving
             /\ UNCHANGED <<ipc, upc, sem, asyncq, freed, is_running, is_closed, cb>>
             /\ UNCHANGED <<state, connects, contexts, lost, again, texts, unconnected>>
             /\ tpc' = "serving" /\ failed' = failed /\ fault' = fault
  <2>1. /\ Serving
        /\ UNCHANGED <<ipc, upc, sem, asyncq, freed, is_running, is_closed, cb>>
        /\ UNCHANGED <<state, connects, contexts, lost>>
        /\ tpc' = "serving" /\ failed' = failed /\ fault' = fault
    BY <1>6 DEF ReceiveLastTts, ReceiveLast
  <2>2. PICK parsed \in Parsed(Received(label, len)) :
          \/ Handshake(parsed)
          \/ parsed = "event" /\ \E ends \in BOOLEAN : EventReported(ends)
    BY <1>6 DEF ReceiveLastTts
  <2>3. UNCHANGED <<again, texts, unconnected>>
    BY <2>2 DEF Handshake, EventReported
  <2> QED
    BY <2>1, <2>3
<1> QED
  BY <1>1, <1>2, <1>3, <1>4, <1>5, <1>6 DEF Callback

\* What is parsed is one of the three kinds of message.
LEMMA ParsedIsLabel ==
  ASSUME NEW bytes, NEW parsed \in Parsed(bytes)
  PROVE  parsed \in {"connection_started", "session_started", "event"}
BY LabelsAre DEF Parsed, IsWhole

LEMMA CallbackText ==
  ASSUME Callback
  PROVE  \/ UNCHANGED <<cache_text, spoken, allocated>>
         \/ cache_text' = 0 /\ allocated' = FALSE /\ spoken' = spoken
         \/ cache_text # 0 /\ cache_text' = 0 /\ spoken' = cache_text /\ allocated' = allocated
<1> USE DEF wire, text
<1>1. CASE EstablishedTts \/ (Closed /\ UNCHANGED <<wire, text>>)
  BY <1>1 DEF EstablishedTts
<1>2. CASE Writeable
  BY <1>2 DEF Writeable, StartConnection, StartSession, SendText, NothingToSend
<1>3. ASSUME NEW ends \in BOOLEAN, ConnectionErrorTts(ends) \/ ServiceFailsTts(ends)
      PROVE  \/ UNCHANGED <<cache_text, spoken, allocated>>
             \/ cache_text' = 0 /\ allocated' = FALSE /\ spoken' = spoken
  BY <1>3 DEF ConnectionErrorTts, ServiceFailsTts, AnswerTts, CutOff
<1>4. ASSUME NEW label, NEW len, ReceivePartTts(label, len)
      PROVE  UNCHANGED <<cache_text, spoken, allocated>>
  BY <1>4 DEF ReceivePartTts
<1>5. ASSUME NEW label, NEW len, ReceiveLastTts(label, len)
      PROVE  \/ UNCHANGED <<cache_text, spoken, allocated>>
             \/ cache_text' = 0 /\ allocated' = FALSE /\ spoken' = spoken
  BY <1>5 DEF ReceiveLastTts, Handshake, EventReported
<1> QED
  BY <1>1, <1>2, <1>3, <1>4, <1>5 DEF Callback

LEMMA CallbackNames ==
  ASSUME Callback
  PROVE  /\ wsi' \in {wsi, "open", "dead"}
         /\ conn_state' \in {conn_state} \cup ConnState
<1> USE DEF wire, connection, ConnState
<1>1. CASE EstablishedTts \/ (Closed /\ UNCHANGED <<wire, text>>)
  BY <1>1 DEF EstablishedTts, Established, Closed
<1>2. CASE Writeable
  BY <1>2 DEF Writeable, StartConnection, StartSession, SendText, NothingToSend
<1>3. ASSUME NEW ends \in BOOLEAN, ConnectionErrorTts(ends) \/ ServiceFailsTts(ends)
      PROVE  wsi' \in {wsi, "dead"} /\ conn_state' \in {conn_state, "none"}
  BY <1>3 DEF ConnectionErrorTts, ConnectionError, ServiceFailsTts, ServiceFails, AnswerTts, CutOff
<1>4. ASSUME NEW label, NEW len, ReceivePartTts(label, len)
      PROVE  wsi' = wsi /\ conn_state' = conn_state
  BY <1>4 DEF ReceivePartTts, ReceivePart
<1>5. ASSUME NEW label, NEW len, ReceiveLastTts(label, len)
      PROVE  wsi' = wsi /\ conn_state' \in {conn_state, "none", "connection_started", "session_started"}
  <2>1. wsi' = wsi
    BY <1>5 DEF ReceiveLastTts, ReceiveLast
  <2>2. PICK parsed \in Parsed(Received(label, len)) :
          \/ Handshake(parsed)
          \/ parsed = "event" /\ \E ends \in BOOLEAN : EventReported(ends)
    BY <1>5 DEF ReceiveLastTts
  <2>3. CASE Handshake(parsed)
    BY <2>1, <2>3, ParsedIsLabel DEF Handshake
  <2>4. CASE \E ends \in BOOLEAN : EventReported(ends)
    BY <2>1, <2>4 DEF EventReported
  <2> QED
    BY <2>2, <2>3, <2>4
<1> QED
  BY <1>1, <1>2, <1>3, <1>4, <1>5 DEF Callback

LEMMA CallbackFlags ==
  ASSUME Flags, Callback
  PROVE  armed' \in BOOLEAN /\ is_finished' \in BOOLEAN /\ torn' \in BOOLEAN
<1> USE DEF Flags, flags, reassembly
<1>1. CASE EstablishedTts
  BY <1>1 DEF EstablishedTts, Established
<1>2. CASE Closed /\ UNCHANGED <<wire, text>>
  BY <1>2 DEF Closed
<1>3. CASE Writeable
  <2>1. armed' = TRUE \/ armed' = FALSE
    BY <1>3 DEF Writeable, StartConnection, StartSession, SendRequest, SendText, NothingToSend
  <2>2. is_finished' = is_finished /\ torn' = torn
    BY <1>3 DEF Writeable
  <2> QED
    BY <2>1, <2>2
<1>4. ASSUME NEW ends \in BOOLEAN, ConnectionErrorTts(ends) \/ ServiceFailsTts(ends)
      PROVE  armed' \in BOOLEAN /\ is_finished' \in BOOLEAN /\ torn' \in BOOLEAN
  <2>1. is_finished' = is_finished \/ is_finished' = TRUE
    BY <1>4 DEF ConnectionErrorTts, ServiceFailsTts, AnswerTts, CutOff
  <2>2. armed' = armed \/ armed' = TRUE \/ armed' = FALSE
    BY <1>4 DEF ConnectionErrorTts, ConnectionError, ServiceFailsTts, Arm
  <2>3. torn' = torn
    BY <1>4 DEF ConnectionErrorTts, ConnectionError, ServiceFailsTts, ServiceFails
  <2>4. is_finished' \in BOOLEAN
    BY <2>1
  <2>5. armed' \in BOOLEAN
    BY <2>2
  <2> QED
    BY <2>3, <2>4, <2>5
<1>5. ASSUME NEW label, NEW len, ReceivePartTts(label, len)
      PROVE  armed' = TRUE /\ is_finished' = is_finished /\ torn' = torn
  BY <1>5 DEF ReceivePartTts, ReceivePart
<1>6. ASSUME NEW label, NEW len, ReceiveLastTts(label, len)
      PROVE  armed' = TRUE /\ is_finished' \in BOOLEAN /\ torn' \in BOOLEAN
  <2>1. torn' = (torn \/ ~IsWhole(Received(label, len)))
    BY <1>6 DEF ReceiveLastTts, ReceiveLast
  <2>2. torn' \in BOOLEAN
    BY <2>1
  <2>3. PICK parsed \in Parsed(Received(label, len)) :
          \/ Handshake(parsed)
          \/ parsed = "event" /\ \E ends \in BOOLEAN : EventReported(ends)
    BY <1>6 DEF ReceiveLastTts
  <2>4. CASE Handshake(parsed)
    BY <2>2, <2>4 DEF Handshake
  <2>5. ASSUME NEW ends \in BOOLEAN, EventReported(ends)
        PROVE  armed' = TRUE /\ is_finished' \in BOOLEAN
    <3>1. armed' = TRUE /\ is_finished' = (is_finished \/ ends)
      BY <2>5 DEF EventReported
    <3> QED
      BY <3>1
  <2> QED
    BY <2>2, <2>3, <2>4, <2>5
<1> QED
  BY <1>1, <1>2, <1>3, <1>4, <1>5, <1>6 DEF Callback

-----------------------------------------------------------------------------
\* The types.

LEMMA FlagsStep ==
  ASSUME Flags, [Next]_vars
  PROVE  Flags'
<1> USE DEF Flags
<1>1. CASE Quiet
  <2>1. UNCHANGED <<state, armed, torn, allocated, again, unconnected>>
    BY <1>1, QuietFrame
  <2>2. is_finished' \in BOOLEAN
    BY <1>1, QuietFrame
  <2> USE DEF life, flags
  <2>3. CASE InitReturns \/ InitTimesOut
    BY <2>1, <2>3 DEF InitReturns, InitTimesOut
  <2>4. CASE ThreadStarts
    <3>1. asyncq' \in BOOLEAN /\ failed' \in BOOLEAN
      BY <2>4 DEF ThreadStarts
    <3>2. freed' \in BOOLEAN
      BY <2>4 DEF ThreadStarts
    <3>3. is_running' = FALSE /\ is_closed' = FALSE /\ cb' = cb
      BY <2>4 DEF ThreadStarts
    <3> QED
      BY <2>1, <2>2, <3>1, <3>2, <3>3
  <2>5. CASE EngineThread
    <3>1. (is_running' = is_running \/ is_running' = TRUE)
          /\ UNCHANGED <<is_closed, cb, asyncq, freed, failed>>
      BY <2>5 DEF EngineThread, EndPoll, NothingToServe, EndService, Tail_, Runs, ExitPosts
    <3>2. is_running' \in BOOLEAN
      BY <3>1
    <3> QED
      BY <2>1, <2>2, <3>1, <3>2
  <2>6. CASE UsesFreedEngine \/ SetCallback
    <3>1. (cb' = cb \/ cb' = TRUE) /\ UNCHANGED <<is_running, is_closed, asyncq, freed, failed>>
      BY <2>6 DEF UsesFreedEngine, SetCallback
    <3>2. cb' \in BOOLEAN
      BY <3>1
    <3> QED
      BY <2>1, <2>2, <3>1, <3>2
  <2>7. CASE Uninit
    BY <2>1, <2>2, <2>7 DEF Uninit
  <2> QED
    BY <1>1, <2>3, <2>4, <2>5, <2>6, <2>7 DEF Quiet
<1>2. CASE Destroys
  <2>1. is_running' \in BOOLEAN /\ asyncq' \in BOOLEAN
    BY <1>2, DestroysFrame
  <2>2. freed' \in BOOLEAN /\ state' \in BOOLEAN
    BY <1>2, DestroysFrame
  <2>3. UNCHANGED <<is_finished, is_closed, cb, failed, torn, unconnected>>
    BY <1>2, DestroysFrame
  <2>4. armed' \in BOOLEAN
    BY <1>2, DestroysFrame
  <2>5. again' \in BOOLEAN
    BY <1>2, DestroysFrame
  <2>6. allocated' \in BOOLEAN
    BY <1>2, DestroysFrame
  <2> QED
    BY <2>1, <2>2, <2>3, <2>4, <2>5, <2>6
<1>3. CASE Talk
  <2>1. is_finished' \in BOOLEAN /\ state' \in BOOLEAN
    BY <1>3, TalkFrame
  <2>2. armed' \in BOOLEAN /\ again' \in BOOLEAN
    BY <1>3, TalkFrame
  <2>3. allocated' \in BOOLEAN /\ unconnected' \in BOOLEAN
    BY <1>3, TalkFrame
  <2>4. UNCHANGED <<is_running, is_closed, cb, torn, asyncq, freed, failed>>
    BY <1>3, TalkFrame DEF life
  <2> QED
    BY <2>1, <2>2, <2>3, <2>4
<1>4. CASE Callback
  <2>1. armed' \in BOOLEAN /\ is_finished' \in BOOLEAN /\ torn' \in BOOLEAN
    BY <1>4, CallbackFlags
  <2>2. allocated' \in BOOLEAN
    BY <1>4, CallbackText
  <2>3. failed' \in BOOLEAN
    BY <1>4, CallbackFrame
  <2>4. UNCHANGED <<is_running, is_closed, cb, asyncq, freed, state, again, unconnected>>
    BY <1>4, CallbackFrame
  <2> QED
    BY <2>1, <2>2, <2>3, <2>4
<1>5. CASE UNCHANGED vars
  BY <1>5 DEF vars, engineVars, life, flags, connection, reassembly, text, wire
<1> QED
  BY <1>1, <1>2, <1>3, <1>4, <1>5, NextCases

LEMMA NamesStep ==
  ASSUME Names, [Next]_vars
  PROVE  Names'
<1> USE DEF Names
<1>1. CASE Quiet
  <2>1. wsi' = wsi /\ conn_state' = conn_state
    BY <1>1, QuietFrame
  <2> USE DEF life
  <2>2. CASE InitReturns \/ InitTimesOut \/ ThreadStarts
    BY <2>1, <2>2 DEF InitReturns, InitTimesOut, ThreadStarts
  <2>3. CASE EngineThread
    BY <2>1, <2>3 DEF EngineThread, EndPoll, NothingToServe, EndService, Tail_, LoopTest, Runs,
                      ExitPosts
  <2>4. CASE UsesFreedEngine \/ SetCallback \/ Uninit
    BY <2>1, <2>4 DEF UsesFreedEngine, SetCallback, Uninit
  <2> QED
    BY <1>1, <2>2, <2>3, <2>4 DEF Quiet
<1>2. CASE Destroys
  BY <1>2, DestroysFrame DEF ConnState
<1>3. CASE Talk
  BY <1>3, TalkFrame DEF life, ConnState
<1>4. CASE Callback
  BY <1>4, CallbackFrame, CallbackNames
<1>5. CASE UNCHANGED vars
  BY <1>5 DEF vars, engineVars, life, connection, wire
<1> QED
  BY <1>1, <1>2, <1>3, <1>4, <1>5, NextCases

\* What a speak and a stop do to the connection and to the text.
LEMMA TalkText ==
  ASSUME Talk
  PROVE  /\ \/ UNCHANGED <<state, contexts, lost>>
            \/ ~state /\ state' = TRUE /\ contexts' = contexts + 1 /\ lost' = lost
            \/ ~state /\ state' = FALSE /\ UNCHANGED <<contexts, lost>>
         /\ \/ /\ texts < MaxTexts /\ texts' = texts + 1 /\ cache_text' = texts'
               /\ allocated' = TRUE /\ (spoken' = spoken \/ spoken' = 0)
               /\ state' \/ unconnected'
            \/ /\ texts' = texts /\ spoken' = spoken /\ UNCHANGED <<state, unconnected>>
               /\ (cache_text' = 0 /\ allocated' = FALSE) \/ UNCHANGED <<cache_text, allocated>>
<1> USE DEF Forget, connection
<1>1. CASE SpeakNew
  BY <1>1 DEF SpeakNew, Accept, Cache, Connect, NoWire
<1>2. CASE SpeakAgain
  BY <1>2 DEF SpeakAgain, Accept, Cache
<1>3. CASE SpeakFails
  BY <1>3 DEF SpeakFails, Accept, Cache, ConnectFails, wire
<1>4. CASE Stop
  BY <1>4 DEF Stop, CutOff, text, wire
<1> QED
  BY <1>1, <1>2, <1>3, <1>4 DEF Talk

LEMMA NumbersStep ==
  ASSUME Flags, Numbers, [Next]_vars
  PROVE  Numbers'
<1> USE DEF Numbers, OneContext
<1>1. CASE Quiet
  <2>1. UNCHANGED <<state, contexts, lost, connects>>
    BY <1>1, QuietFrame
  <2>2. sem' \in Nat
    <3> USE DEF life
    <3>1. CASE InitReturns \/ InitTimesOut \/ ThreadStarts
      BY <3>1 DEF InitReturns, InitTimesOut, ThreadStarts
    <3>2. CASE EngineThread
      BY <3>2 DEF EngineThread, EndPoll, NothingToServe, EndService, Tail_, Runs, ExitPosts
    <3>3. CASE UsesFreedEngine \/ SetCallback \/ Uninit
      BY <3>3 DEF UsesFreedEngine, SetCallback, Uninit
    <3> QED
      BY <1>1, <3>1, <3>2, <3>3 DEF Quiet
  <2> QED
    BY <2>1, <2>2
<1>2. CASE Destroys
  <2>1. state' = FALSE /\ UNCHANGED <<sem, connects, lost>>
        /\ ((state /\ contexts' = contexts - 1) \/ (~state /\ contexts' = contexts))
    BY <1>2, DestroysFrame
  <2>2. CASE state
    BY <2>1, <2>2
  <2>3. CASE ~state
    BY <2>1, <2>3
  <2> QED
    BY <2>2, <2>3
<1>3. CASE Talk
  <2>1. sem' \in Nat /\ connects' \in Nat
    BY <1>3, TalkFrame DEF life
  <2>2. lost' \in Nat /\ contexts' \in Int /\ contexts' = (IF state' THEN 1 ELSE 0)
    <3>1. CASE UNCHANGED <<state, contexts, lost>>
      BY <3>1
    <3>2. CASE ~state /\ state' = TRUE /\ contexts' = contexts + 1 /\ lost' = lost
      BY <3>2
    <3>3. CASE ~state /\ state' = FALSE /\ UNCHANGED <<contexts, lost>>
      BY <3>3
    <3> QED
      BY <1>3, <3>1, <3>2, <3>3, TalkText
  <2> QED
    BY <2>1, <2>2
<1>4. CASE Callback
  BY <1>4, CallbackFrame
<1>5. CASE UNCHANGED vars
  BY <1>5 DEF vars, engineVars, life, connection
<1> QED
  BY <1>1, <1>2, <1>3, <1>4, <1>5, NextCases

\* A text is sent at most once.
LEMMA TextsStep ==
  ASSUME Texts, [Next]_vars
  PROVE  Texts'
<1> USE DEF Texts, SentOnce
<1>1. MaxTexts \in Nat
  BY VolcTtsAssumption
<1>2. ASSUME UNCHANGED <<texts, cache_text, spoken>> PROVE Texts'
  BY <1>2
<1>3. CASE Quiet
  BY <1>2, <1>3, QuietFrame
<1>4. CASE Destroys
  <2>1. texts' = texts
        /\ (UNCHANGED <<cache_text, spoken>> \/ (cache_text' = 0 /\ spoken' = 0))
    BY <1>4, DestroysFrame
  <2> QED
    BY <1>1, <2>1
<1>5. CASE Talk
  <2>1. \/ /\ texts < MaxTexts /\ texts' = texts + 1 /\ cache_text' = texts'
           /\ spoken' = spoken \/ spoken' = 0
        \/ texts' = texts /\ spoken' = spoken /\ (cache_text' = 0 \/ cache_text' = cache_text)
    BY <1>5, TalkText
  <2> QED
    BY <1>1, <2>1
<1>6. CASE Callback
  <2>1. texts' = texts
    BY <1>6, CallbackFrame
  <2>2. \/ UNCHANGED <<cache_text, spoken>>
        \/ cache_text' = 0 /\ spoken' = spoken
        \/ cache_text # 0 /\ cache_text' = 0 /\ spoken' = cache_text
    BY <1>6, CallbackText
  <2> QED
    BY <1>1, <2>1, <2>2
<1>7. CASE UNCHANGED vars
  BY <1>2, <1>7 DEF vars, text, wire
<1> QED
  BY <1>3, <1>4, <1>5, <1>6, <1>7, NextCases

LEMMA MemoryStep ==
  ASSUME Flags, Memory, [Next]_vars
  PROVE  Memory'
<1> USE DEF Memory
<1>1. ASSUME UNCHANGED <<cache_text, allocated, state, unconnected>>,
             freed' => tpc' = "gone", tpc' \in {"new", "gone"} => tpc \in {"new", "gone"}
      PROVE  Memory'
  BY <1>1
<1>2. CASE Quiet
  <2>1. UNCHANGED <<cache_text, allocated, state, unconnected>>
    BY <1>2, QuietFrame
  <2>2. (freed' => tpc' = "gone") /\ (tpc' \in {"new", "gone"} => tpc \in {"new", "gone"})
    <3>1. CASE InitReturns \/ InitTimesOut \/ ThreadStarts
      BY <3>1 DEF InitReturns, InitTimesOut, ThreadStarts
    <3>2. CASE EngineThread
      BY <3>2 DEF EngineThread, EndPoll, NothingToServe, EndService, Tail_, LoopTest, Runs,
                  ExitPosts
    <3>3. CASE UsesFreedEngine \/ SetCallback \/ Uninit
      BY <3>3 DEF UsesFreedEngine, SetCallback, Uninit, life
    <3> QED
      BY <1>2, <3>1, <3>2, <3>3 DEF Quiet
  <2> QED
    BY <1>1, <2>1, <2>2
<1>3. CASE Destroys
  <2>1. /\ tpc \in {"service", "cleanup"} /\ state' = FALSE /\ unconnected' = unconnected
        /\ (tpc' = "tail" /\ freed' = freed) \/ (tpc' = "gone" /\ freed' = TRUE)
    BY <1>3, DestroysFrame
  <2>2. (cache_text' = 0 /\ allocated' = FALSE) \/ (~state /\ UNCHANGED <<cache_text, allocated>>)
    BY <1>3, DestroysFrame
  <2>3. (cache_text' # 0 => allocated') /\ (allocated' => unconnected')
    BY <2>1, <2>2
  <2> QED
    BY <2>1, <2>3
<1>4. CASE Talk
  <2>1. tpc = "poll" /\ tpc' = tpc /\ freed' = freed
    BY <1>4, TalkFrame DEF life
  <2>2. CASE allocated' = TRUE /\ (state' \/ unconnected')
    BY <2>1, <2>2
  <2>3. CASE cache_text' = 0 /\ allocated' = FALSE /\ UNCHANGED <<state, unconnected>>
    BY <2>1, <2>3
  <2>4. CASE UNCHANGED <<cache_text, allocated, state, unconnected>>
    BY <1>1, <2>1, <2>4
  <2> QED
    BY <1>4, <2>2, <2>3, <2>4, TalkText
<1>5. CASE Callback
  <2>1. /\ tpc \in {"service", "serving"} /\ tpc' \in {"serving", "exit"} /\ freed' = freed
        /\ UNCHANGED <<state, unconnected>>
    BY <1>5, CallbackFrame DEF Serving
  <2>2. CASE UNCHANGED <<cache_text, allocated>>
    BY <2>1, <2>2
  <2>3. CASE cache_text' = 0 /\ allocated' = FALSE
    BY <2>1, <2>3
  <2>4. CASE cache_text' = 0 /\ allocated' = allocated
    BY <2>1, <2>4
  <2> QED
    BY <1>5, <2>2, <2>3, <2>4, CallbackText
<1>6. CASE UNCHANGED vars
  BY <1>1, <1>6 DEF vars, engineVars, life, connection, text
<1> QED
  BY <1>2, <1>3, <1>4, <1>5, <1>6, NextCases

\* Whoever makes it the client's turn asks lws to call back.
LEMMA AwakeStep ==
  ASSUME SenderAwake, [Next]_vars
  PROVE  SenderAwake'
<1> USE DEF SenderAwake
<1>1. ASSUME UNCHANGED <<wsi, armed, conn_state, cache_text>>, ~is_finished' => ~is_finished
      PROVE  SenderAwake'
  BY <1>1
<1>2. ASSUME is_finished' \/ wsi' # "open" \/ armed'
      PROVE  SenderAwake'
  BY <1>2
<1>3. CASE Quiet
  BY <1>1, <1>3, QuietFrame
<1>4. CASE Destroys
  <2>1. is_finished' = is_finished
        /\ (wsi' = "none" \/ UNCHANGED <<wsi, armed, conn_state, cache_text>>)
    BY <1>4, DestroysFrame
  <2> QED
    BY <1>1, <1>2, <2>1
<1>5. CASE SpeakNew
  BY <1>2, <1>5 DEF SpeakNew, Connect
<1>6. CASE SpeakAgain
  BY <1>2, <1>6 DEF SpeakAgain, Arm, connection
<1>7. CASE SpeakFails
  BY <1>2, <1>7 DEF SpeakFails, Accept, flags
<1>8. CASE Stop
  BY <1>2, <1>8 DEF Stop, CutOff
<1>9. CASE EstablishedTts \/ (Closed /\ UNCHANGED <<wire, text>>)
  BY <1>2, <1>9 DEF EstablishedTts, Closed
<1>10. CASE Writeable
  <2>1. CASE StartConnection \/ StartSession \/ SendText
    BY <1>2, <2>1 DEF StartConnection, StartSession, SendRequest, SendText
  <2>2. CASE NothingToSend
    BY <1>10, <2>2 DEF Writeable, NothingToSend, wire, text, flags
  <2> QED
    BY <1>10, <2>1, <2>2 DEF Writeable
<1>11. ASSUME NEW ends \in BOOLEAN, ConnectionErrorTts(ends)
       PROVE  SenderAwake'
  BY <1>2, <1>11 DEF ConnectionErrorTts, ConnectionError
<1>12. ASSUME NEW ends \in BOOLEAN, ServiceFailsTts(ends)
       PROVE  SenderAwake'
  <2>1. CASE ends
    BY <1>2, <1>12, <2>1 DEF ServiceFailsTts, AnswerTts, CutOff
  <2>2. CASE ~ends
    BY <1>1, <1>12, <2>2 DEF ServiceFailsTts, ServiceFails, AnswerTts, wire, text, connection
  <2> QED
    BY <2>1, <2>2
<1>13. ASSUME NEW label, NEW len, ReceivePartTts(label, len) \/ ReceiveLastTts(label, len)
       PROVE  SenderAwake'
  BY <1>2, <1>13 DEF ReceivePartTts, ReceiveLastTts, Handshake, EventReported
<1>14. CASE UNCHANGED vars
  BY <1>1, <1>14 DEF vars, engineVars, flags, connection, text, wire
<1> QED
  BY <1>3, <1>4, <1>5, <1>6, <1>7, <1>8, <1>9, <1>10, <1>11, <1>12, <1>13, <1>14, NextCases
  DEF Talk, Callback

-----------------------------------------------------------------------------
\* The reassembly of messages.

\* A message that has begun well goes on well, and as the message it has begun.
LEMMA ReceivedIsWhole ==
  ASSUME Buffer, HoldsMessage, NEW label \in Labels, NEW len \in 1 .. MaxPiece
  PROVE  /\ Received(label, len) \in Seq(Labels \cup {More})
         /\ Len(Received(label, len)) = sending + len
         /\ IsWhole(Received(label, len))
         /\ Received(label, len)[1] = IF sending = 0 THEN label ELSE recv_buf[1]
<1>1. len \in Nat /\ len > 0
  BY VolcEngineAssumption
<1>2. Piece(label, len) \in Seq(Labels \cup {More}) /\ Len(Piece(label, len)) = len
  BY <1>1 DEF Piece
<1>3. /\ recv_buf \in Seq(Labels \cup {More}) /\ sending \in Nat
      /\ Len(recv_buf) = sending /\ (sending > 0 => IsWhole(recv_buf))
  BY DEF Buffer, HoldsMessage
<1>4. /\ Received(label, len) \in Seq(Labels \cup {More})
      /\ Len(Received(label, len)) = sending + len
  BY <1>2, <1>3 DEF Received
<1>5. \A i \in 1 .. sending + len :
        Received(label, len)[i] = IF i <= sending THEN recv_buf[i]
                                  ELSE Piece(label, len)[i - sending]
  BY <1>1, <1>2, <1>3 DEF Received
<1>6. /\ Received(label, len)[1] = IF sending = 0 THEN label ELSE recv_buf[1]
      /\ Received(label, len)[1] \in Labels
  <2>1. CASE sending = 0
    <3>1. Received(label, len)[1] = Piece(label, len)[1]
      BY <1>1, <1>5, <2>1
    <3> QED
      BY <3>1, <1>1, <2>1 DEF Piece
  <2>2. CASE sending > 0
    BY <1>1, <1>3, <1>5, <2>2 DEF IsWhole
  <2> QED
    BY <1>3, <2>1, <2>2
<1>7. ASSUME NEW i \in 2 .. sending + len
      PROVE  Received(label, len)[i] = More
  <2>1. CASE i <= sending
    <3>1. i \in 2 .. Len(recv_buf) /\ sending > 0
      BY <1>3, <1>7, <2>1
    <3> QED
      BY <3>1, <1>1, <1>3, <1>5, <2>1 DEF IsWhole
  <2>2. CASE i > sending
    <3>1. i - sending \in 1 .. len /\ (sending = 0 => i - sending # 1)
      BY <1>1, <1>3, <1>7, <2>2
    <3>2. Piece(label, len)[i - sending] = More
      BY <3>1 DEF Piece
    <3> QED
      BY <3>2, <1>1, <1>3, <1>5, <2>2
  <2> QED
    BY <1>3, <2>1, <2>2
<1> QED
  BY <1>4, <1>6, <1>7 DEF IsWhole

\* What a speak and a stop make of the buffer.
LEMMA TalkBuffer ==
  ASSUME Talk
  PROVE  /\ recv_buf' = recv_buf \/ recv_buf' = <<>>
         /\ recv_buf_size' = recv_buf_size \/ recv_buf_size' = 0
         /\ sending' = sending \/ sending' = 0
<1> USE DEF reassembly
<1>1. CASE SpeakNew \/ SpeakAgain
  BY <1>1 DEF SpeakNew, SpeakAgain, Connect
<1>2. CASE SpeakFails
  BY <1>2 DEF SpeakFails, ConnectFails
<1>3. CASE Stop
  BY <1>3 DEF Stop, CutOff
<1> QED
  BY <1>1, <1>2, <1>3 DEF Talk

LEMMA BufferStep ==
  ASSUME Buffer, [Next]_vars
  PROVE  Buffer'
<1> USE DEF Buffer
<1>1. <<>> \in Seq(Labels \cup {More}) /\ <<>> \in Seq(Labels)
  OBVIOUS
<1>0. ASSUME recv_buf' = recv_buf \/ recv_buf' = <<>>,
             recv_buf_size' = recv_buf_size \/ recv_buf_size' = 0,
             sending' = sending \/ sending' = 0, asked' = asked \/ asked' = <<>>
      PROVE  Buffer'
  <2>1. recv_buf' \in Seq(Labels \cup {More})
    BY Zenon, <1>0, <1>1
  <2>2. asked' \in Seq(Labels)
    BY Zenon, <1>0, <1>1
  <2>3. recv_buf_size' \in Nat /\ sending' \in Nat
    BY <1>0
  <2> QED
    BY <2>1, <2>2, <2>3
<1>2. CASE Quiet
  BY <1>2, QuietFrame
<1>3. CASE Destroys
  <2>1. /\ recv_buf' = recv_buf \/ recv_buf' = <<>>
        /\ recv_buf_size' = recv_buf_size \/ recv_buf_size' = 0
        /\ sending' = sending \/ sending' = 0
        /\ asked' = asked \/ asked' = <<>>
    BY <1>3, DestroysFrame
  <2> QED
    BY Zenon, <1>0, <2>1
<1>4. CASE Talk
  <2>1. asked' = asked \/ asked' = <<>>
    BY <1>4, TalkFrame
  <2> QED
    BY Zenon, <1>0, <1>4, <2>1, TalkBuffer
<1>5. CASE EstablishedTts \/ (Closed /\ UNCHANGED <<wire, text>>)
  BY <1>5 DEF EstablishedTts, Established, Closed, reassembly, wire
<1>6. CASE Writeable
  <2>1. UNCHANGED <<recv_buf, recv_buf_size, sending>>
    BY <1>6 DEF Writeable, reassembly
  <2>2. asked' \in Seq(Labels)
    <3>1. CASE StartConnection
      BY <3>1, LabelsAre DEF StartConnection, SendRequest
    <3>2. CASE StartSession
      BY <3>2, LabelsAre DEF StartSession, SendRequest
    <3>3. CASE SendText \/ NothingToSend
      BY <3>3 DEF SendText, NothingToSend, wire
    <3> QED
      BY <1>6, <3>1, <3>2, <3>3 DEF Writeable
  <2> QED
    BY <2>1, <2>2
<1>7. ASSUME NEW ends \in BOOLEAN, ConnectionErrorTts(ends) \/ ServiceFailsTts(ends)
      PROVE  Buffer'
  <2>1. recv_buf' = <<>> \/ recv_buf' = recv_buf
    BY <1>7 DEF ConnectionErrorTts, ServiceFailsTts, AnswerTts, CutOff
  <2>2. UNCHANGED <<recv_buf_size, sending, asked>>
    BY <1>7 DEF ConnectionErrorTts, ConnectionError, ServiceFailsTts, ServiceFails, AnswerTts,
                CutOff, wire
  <2> QED
    BY <1>1, <2>1, <2>2
<1>8. ASSUME NEW label \in Labels, NEW len \in 1 .. MaxPiece,
             ReceivePartTts(label, len) \/ ReceiveLastTts(label, len)
      PROVE  Buffer'
  <2>1. len \in Nat /\ Len(recv_buf) \in Nat
    BY VolcEngineAssumption
  <2>2. /\ recv_buf_size' = Grown(len)
        /\ (recv_buf' = Received(label, len) /\ sending' = sending + len)
             \/ (recv_buf' = <<>> /\ sending' = 0)
        /\ asked' = Owed(label) /\ Sends(label)
    BY <1>8 DEF ReceivePartTts, ReceivePart, ReceiveLastTts, ReceiveLast
  <2>3. recv_buf_size' \in Nat
    BY <2>1, <2>2 DEF Grown, Remaining
  <2>4. Received(label, len) \in Seq(Labels \cup {More})
    <3>1. Piece(label, len) \in Seq(Labels \cup {More})
      BY <2>1 DEF Piece
    <3> QED
      BY <3>1 DEF Received
  <2>5. asked' \in Seq(Labels)
    BY <2>2 DEF Owed, Sends
  <2>6. sending' \in Nat
    BY <2>1, <2>2
  <2>7. recv_buf' \in Seq(Labels \cup {More})
    BY Zenon, <1>1, <2>2, <2>4
  <2> QED
    BY <2>3, <2>5, <2>6, <2>7
<1>9. CASE UNCHANGED vars
  BY <1>9 DEF vars, engineVars, reassembly, wire
<1> QED
  BY <1>2, <1>3, <1>4, <1>5, <1>6, <1>7, <1>8, <1>9, NextCases DEF Callback

\* What lws reports of an open connection finds a message, or nothing, in the
\* buffer.
LEMMA OpenHoldsMessage ==
  ASSUME Reassembling, Serving, wsi = "open"
  PROVE  again \/ HoldsMessage
BY DEF Reassembling, Serving

LEMMA EmptyHolds ==
  ASSUME recv_buf' = <<>>, sending' = 0
  PROVE  HoldsMessage'
<1>1. Len(recv_buf') = 0
  BY SMT
<1> QED
  BY <1>1 DEF HoldsMessage

LEMMA ReassemblingStep ==
  ASSUME Buffer, Reassembling, [Next]_vars
  PROVE  Reassembling'
<1> USE DEF Reassembling
<1>1. ASSUME UNCHANGED <<recv_buf, sending>>
      PROVE  HoldsMessage' <=> HoldsMessage
  BY <1>1 DEF HoldsMessage, IsWhole
<1>2. CASE Quiet
  <2>1. /\ UNCHANGED <<state, wsi, recv_buf, sending, again>>
        /\ is_finished' = is_finished \/ (tpc = "new" /\ is_finished' = TRUE)
    BY <1>2, QuietFrame
  <2>2. \/ again' \/ HoldsMessage' \/ wsi' \in {"none", "dead"}
        \/ is_finished' /\ tpc' \in {"poll", "service"}
        \/ tpc' \in {"exit", "cleanup", "gone"}
    <3>1. CASE again \/ HoldsMessage \/ wsi \in {"none", "dead"}
      BY <1>1, <2>1, <3>1
    <3>2. CASE is_finished /\ tpc \in {"poll", "service"} /\ wsi \notin {"none", "dead"}
      <4>1. state
        BY <3>2
      <4>2. CASE InitReturns \/ InitTimesOut \/ ThreadStarts
        BY <2>1, <3>2, <4>2 DEF InitReturns, InitTimesOut, ThreadStarts
      <4>3. CASE EngineThread
        BY <2>1, <3>2, <4>1, <4>3 DEF EngineThread, EndPoll, NothingToServe, Stopping, EndService,
                                 Tail_, Runs, ExitPosts
      <4>4. CASE UsesFreedEngine \/ SetCallback \/ Uninit
        BY <2>1, <3>2, <4>4 DEF UsesFreedEngine, SetCallback, Uninit, life
      <4> QED
        BY <1>2, <4>2, <4>3, <4>4 DEF Quiet
    <3>3. CASE tpc \in {"exit", "cleanup", "gone"}
      <4>2. CASE InitReturns \/ InitTimesOut \/ ThreadStarts
        BY <3>3, <4>2 DEF InitReturns, InitTimesOut, ThreadStarts
      <4>3. CASE EngineThread
        BY <3>3, <4>3 DEF EngineThread, EndPoll, NothingToServe, EndService, Tail_, Runs, ExitPosts
      <4>4. CASE UsesFreedEngine \/ SetCallback \/ Uninit
        BY <3>3, <4>4 DEF UsesFreedEngine, SetCallback, Uninit, life
      <4> QED
        BY <1>2, <4>2, <4>3, <4>4 DEF Quiet
    <3> QED
      BY <3>1, <3>2, <3>3
  <2> QED
    BY <2>1, <2>2
<1>3. CASE Destroys
  <2>1. state' = FALSE /\ wsi' = "none"
    BY <1>3, DestroysFrame
  <2> QED
    BY <2>1
<1>4. CASE SpeakNew
  <2>1. state' = TRUE /\ recv_buf' = <<>> /\ sending' = 0
    BY <1>4 DEF SpeakNew, Connect
  <2> QED
    BY <2>1, EmptyHolds
<1>5. CASE SpeakAgain
  <2>1. again' = TRUE /\ UNCHANGED <<state, wsi, recv_buf, sending>>
    BY <1>5 DEF SpeakAgain, connection, reassembly
  <2> QED
    BY <2>1
<1>6. CASE SpeakFails
  <2>1. wsi' = "none"
    BY <1>6 DEF SpeakFails, ConnectFails, connection
  <2> QED
    BY <2>1
<1>7. CASE Stop
  <2>1. /\ is_finished' = TRUE /\ tpc' = "poll" /\ UNCHANGED <<state, wsi, sending>>
        /\ recv_buf' = recv_buf \/ recv_buf' = <<>>
    BY <1>7 DEF Stop, Handling, CutOff, connection, reassembly, life
  <2> QED
    BY <2>1
<1>8. CASE EstablishedTts
  <2>1. wsi = "connecting" /\ wsi' = "open" /\ UNCHANGED <<state, recv_buf, sending>>
    BY <1>8 DEF EstablishedTts, Established, reassembly
  <2> QED
    BY <2>1, EmptyHolds
<1>9. CASE Closed
  BY <1>9 DEF Closed
<1>10. CASE Writeable
  <2>1. Serving /\ wsi = "open" /\ UNCHANGED <<state, wsi, recv_buf, sending>>
    BY <1>10 DEF Writeable, connection, reassembly
  <2>2. again' = again
    BY <1>10, CallbackFrame DEF Callback
  <2> QED
    BY <1>1, <2>1, <2>2, OpenHoldsMessage
<1>11. ASSUME NEW ends \in BOOLEAN, ConnectionErrorTts(ends) \/ ServiceFailsTts(ends)
       PROVE  Reassembling'
  <2>1. CASE ConnectionErrorTts(ends)
    BY <2>1 DEF ConnectionErrorTts, ConnectionError
  <2>2. CASE ServiceFailsTts(ends)
    <3>1. tpc' = "exit" /\ UNCHANGED <<state, wsi, sending>> /\ (recv_buf' = recv_buf \/ recv_buf' = <<>>)
      BY <2>2 DEF ServiceFailsTts, ServiceFails, AnswerTts, CutOff, connection
    <3> QED
      BY <3>1
  <2> QED
    BY <1>11, <2>1, <2>2
<1>12. ASSUME NEW label \in Labels, NEW len \in 1 .. MaxPiece, ReceivePartTts(label, len)
       PROVE  Reassembling'
  <2>1. /\ recv_buf' = Received(label, len) /\ sending' = sending + len
        /\ UNCHANGED <<state, wsi, again>> /\ Serving /\ wsi = "open"
    BY <1>12 DEF ReceivePartTts, ReceivePart, connection
  <2>2. again \/ HoldsMessage'
    BY <2>1, OpenHoldsMessage, ReceivedIsWhole DEF HoldsMessage, IsWhole
  <2> QED
    BY <2>1, <2>2
<1>13. ASSUME NEW label \in Labels, NEW len \in 1 .. MaxPiece, ReceiveLastTts(label, len)
       PROVE  Reassembling'
  <2>1. recv_buf' = <<>> /\ sending' = 0 /\ UNCHANGED <<state, wsi>>
    BY <1>13 DEF ReceiveLastTts, ReceiveLast, connection
  <2> QED
    BY <2>1, EmptyHolds
<1>14. CASE UNCHANGED vars
  <2>1. UNCHANGED <<state, wsi, recv_buf, sending, again, is_finished, tpc>>
    BY <1>14 DEF vars, engineVars, life, flags, connection, reassembly, wire
  <2> QED
    BY <1>1, <2>1
<1> QED
  BY <1>2, <1>3, <1>4, <1>5, <1>6, <1>7, <1>8, <1>9, <1>10, <1>11, <1>12, <1>13, <1>14, NextCases
  DEF Talk, Callback

-----------------------------------------------------------------------------
\* The handshake.

\* The first fragment of an answer is of the one that is due.
LEMMA FirstIsDue ==
  ASSUME Handshaking, wsi = "open", ~again, ~is_finished,
         NEW label, Sends(label), sending = 0, label # "event"
  PROVE  Awaited /\ label = Due /\ Owed(label) = <<>>
<1>1. asked # <<>> /\ label = Head(asked) /\ ~Begun
  BY DEF Sends, Begun
<1>2. Awaited /\ asked = <<Due>>
  BY <1>1 DEF Handshaking
<1>3. Head(<<Due>>) = Due /\ Tail(<<Due>>) = <<>>
  OBVIOUS
<1> QED
  BY <1>1, <1>2, <1>3 DEF Owed

LEMMA HandshakingStep ==
  ASSUME Buffer, Reassembling, Handshaking, [Next]_vars
  PROVE  Handshaking'
<1>1. ASSUME UNCHANGED <<conn_state, asked, again, sending, recv_buf>>,
             wsi' \in {"connecting", "open"} => wsi \in {"connecting", "open"},
             ~is_finished' => ~is_finished
      PROVE  Handshaking'
  BY <1>1 DEF Handshaking, Begun, Due, Awaited
<1>2. ASSUME is_finished' \/ again' \/ wsi' \notin {"connecting", "open"}
      PROVE  Handshaking'
  BY <1>2 DEF Handshaking
<1>3. CASE Quiet
  <2>1. UNCHANGED <<conn_state, asked, again, sending, recv_buf, wsi>>
    BY <1>3, QuietFrame
  <2>2. CASE is_finished' = is_finished
    <3>1. ~is_finished' => ~is_finished
      BY <2>2, Zenon
    <3> QED
      BY <1>1, <2>1, <3>1
  <2>3. CASE is_finished' = TRUE
    <3>1. is_finished'
      BY <2>3, Zenon
    <3> QED
      BY <1>2, <3>1, Zenon
  <2>4. (is_finished' = is_finished) \/ (is_finished' = TRUE)
    BY <1>3, QuietFrame
  <2> QED
    BY <2>2, <2>3, <2>4, Zenon
<1>4. CASE Destroys
  <2>1. wsi' = "none"
    BY <1>4, DestroysFrame DEF Reassembling
  <2> QED
    BY <1>2, <2>1
<1>5. CASE SpeakNew
  <2>1. conn_state' = "none" /\ asked' = <<>> /\ sending' = 0
    BY <1>5 DEF SpeakNew, Connect, NoWire
  <2> QED
    BY <2>1 DEF Handshaking, Begun, Awaited
<1>6. CASE SpeakAgain
  BY <1>2, <1>6 DEF SpeakAgain
<1>7. CASE SpeakFails
  <2>1. is_finished'
    BY <1>7 DEF SpeakFails, Accept, flags
  <2> QED
    BY <1>2, <2>1
<1>8. CASE Stop
  BY <1>2, <1>8 DEF Stop, CutOff
<1>9. CASE EstablishedTts \/ (Closed /\ UNCHANGED <<wire, text>>)
  <2>1. /\ UNCHANGED <<conn_state, asked, again, sending, recv_buf, is_finished>>
        /\ wsi' \in {"connecting", "open"} => wsi \in {"connecting", "open"}
    BY <1>9 DEF EstablishedTts, Established, Closed, wire, flags, reassembly
  <2> QED
    BY <1>1, <2>1
<1>10. CASE Writeable
  <2>1. UNCHANGED <<sending, recv_buf, is_finished, wsi>> /\ wsi = "open"
    BY <1>10 DEF Writeable, flags, connection, reassembly
  <2>2. again' = again
    BY <1>10, CallbackFrame DEF Callback
  <2>3. CASE again \/ is_finished
    BY <1>2, <2>1, <2>2, <2>3
  <2>4. ASSUME ~again, ~is_finished, ~Awaited, NEW answer,
               asked' = Append(asked, answer), Awaited', answer = Due'
        PROVE  Handshaking'
    <3>1. ~Begun /\ asked = <<>>
      BY <2>1, <2>4 DEF Handshaking
    <3>2. Append(<<>>, answer) = <<answer>>
      OBVIOUS
    <3>3. ~Begun' /\ asked' = <<Due'>>
      BY <2>1, <2>4, <3>1, <3>2 DEF Begun
    <3> QED
      BY <2>4, <3>3 DEF Handshaking
  <2>5. CASE StartConnection /\ ~again /\ ~is_finished
    <3>1. ~Awaited /\ Awaited' /\ "connection_started" = Due'
          /\ asked' = Append(asked, "connection_started")
      BY <2>5 DEF StartConnection, SendRequest, Awaited, Due
    <3> QED
      BY <2>4, <2>5, <3>1
  <2>6. CASE StartSession /\ ~again /\ ~is_finished
    <3>1. ~Awaited /\ Awaited' /\ "session_started" = Due'
          /\ asked' = Append(asked, "session_started")
      BY <2>6 DEF StartSession, SendRequest, Awaited, Due
    <3> QED
      BY <2>4, <2>6, <3>1
  <2>7. CASE SendText \/ NothingToSend
    <3>1. UNCHANGED <<conn_state, asked>>
      BY <2>7 DEF SendText, NothingToSend, wire
    <3> QED
      BY <1>1, <2>1, <2>2, <3>1
  <2> QED
    BY <1>10, <2>3, <2>5, <2>6, <2>7 DEF Writeable
<1>11. ASSUME NEW ends \in BOOLEAN, ConnectionErrorTts(ends)
       PROVE  Handshaking'
  BY <1>2, <1>11 DEF ConnectionErrorTts, ConnectionError
<1>12. ASSUME NEW ends \in BOOLEAN, ServiceFailsTts(ends)
       PROVE  Handshaking'
  <2>1. CASE ends
    BY <1>2, <1>12, <2>1 DEF ServiceFailsTts, AnswerTts, CutOff
  <2>2. CASE ~ends
    <3>1. UNCHANGED <<conn_state, asked, again, sending, recv_buf, wsi, is_finished>>
      BY <1>12, <2>2 DEF ServiceFailsTts, ServiceFails, AnswerTts, wire, connection
    <3> QED
      BY <1>1, <3>1
  <2> QED
    BY <2>1, <2>2
<1>13. ASSUME NEW label \in Labels, NEW len \in 1 .. MaxPiece, ReceivePartTts(label, len)
       PROVE  Handshaking'
  <2>1. /\ recv_buf' = Received(label, len) /\ sending' = sending + len
        /\ asked' = Owed(label) /\ Sends(label)
        /\ UNCHANGED <<wsi, again, conn_state, is_finished>> /\ Serving /\ wsi = "open"
    BY <1>13 DEF ReceivePartTts, ReceivePart, connection, flags
  <2>2. CASE again \/ is_finished
    BY <1>2, <2>1, <2>2
  <2>3. CASE ~again /\ ~is_finished
    <3>1. HoldsMessage
      BY <2>1, <2>3, OpenHoldsMessage
    <3>2. sending' > 0 /\ sending \in Nat
      <4>1. len \in Nat /\ len > 0
        BY VolcEngineAssumption
      <4> QED
        BY <2>1, <4>1 DEF Buffer
    <3>3. recv_buf'[1] = IF sending = 0 THEN label ELSE recv_buf[1]
      BY <2>1, <3>1, ReceivedIsWhole
    <3>4. Awaited' = Awaited /\ Due' = Due
      BY <2>1 DEF Awaited, Due
    <3>5. CASE sending = 0 /\ label # "event"
      <4>1. Awaited /\ label = Due /\ asked' = <<>>
        BY <2>1, <2>3, <3>5, FirstIsDue
      <4>2. Begun' /\ recv_buf'[1] = Due'
        BY <3>2, <3>3, <3>4, <3>5, <4>1 DEF Begun
      <4> QED
        BY <3>4, <4>1, <4>2 DEF Handshaking
    <3>6. CASE sending # 0 \/ label = "event"
      <4>1. asked' = asked
        BY <2>1, <3>6 DEF Owed
      <4>2. CASE sending = 0
        <5>1. ~Begun /\ ~Begun'
          BY <3>3, <3>6, <4>2 DEF Begun
        <5> QED
          BY <2>1, <2>3, <3>4, <4>1, <5>1 DEF Handshaking
      <4>3. CASE sending # 0
        <5>1. recv_buf'[1] = recv_buf[1] /\ (Begun' <=> Begun)
          BY <3>2, <3>3, <4>3 DEF Begun
        <5> QED
          BY <2>1, <2>3, <3>4, <4>1, <5>1 DEF Handshaking
      <4> QED
        BY <4>2, <4>3
    <3> QED
      BY <3>5, <3>6
  <2> QED
    BY <2>2, <2>3
<1>14. ASSUME NEW label \in Labels, NEW len \in 1 .. MaxPiece, ReceiveLastTts(label, len)
       PROVE  Handshaking'
  <2>1. /\ sending' = 0 /\ asked' = Owed(label) /\ Sends(label)
        /\ UNCHANGED <<wsi, again>> /\ Serving /\ wsi = "open"
    BY <1>14, CallbackFrame DEF ReceiveLastTts, ReceiveLast, connection, Callback
  <2>2. PICK parsed \in Parsed(Received(label, len)) :
          \/ Handshake(parsed)
          \/ parsed = "event" /\ \E ends \in BOOLEAN : EventReported(ends)
    BY <1>14 DEF ReceiveLastTts
  <2>3. CASE again \/ is_finished'
    BY <1>2, <2>1, <2>3
  <2>4. CASE ~again /\ ~is_finished'
    <3>1. ~is_finished
      BY <2>2, <2>4 DEF Handshake, EventReported
    <3>2. HoldsMessage /\ ~Begun'
      BY <2>1, <2>4, OpenHoldsMessage DEF Begun
    <3>3. parsed = IF sending = 0 THEN label ELSE recv_buf[1]
      BY <2>2, <3>2, ReceivedIsWhole DEF Parsed
    <3>4. sending \in Nat
      BY DEF Buffer
    <3>5. CASE Handshake(parsed)
      <4>1. parsed # "event" /\ conn_state' = parsed
        BY <3>5 DEF Handshake
      <4>2. ~Awaited'
        BY <2>2, <4>1, ParsedIsLabel DEF Awaited
      <4>3. asked' = <<>>
        <5>1. CASE sending = 0
          BY <2>1, <2>4, <3>1, <3>3, <4>1, <5>1, FirstIsDue
        <5>2. CASE sending # 0
          <6>1. Begun /\ asked' = asked
            BY <2>1, <3>3, <3>4, <4>1, <5>2 DEF Begun, Owed
          <6> QED
            BY <2>1, <2>4, <3>1, <6>1 DEF Handshaking
        <5> QED
          BY <5>1, <5>2
      <4> QED
        BY <3>2, <4>2, <4>3 DEF Handshaking
    <3>6. CASE parsed = "event" /\ \E ends \in BOOLEAN : EventReported(ends)
      <4>1. conn_state' = conn_state
        BY <2>4, <3>6 DEF EventReported
      <4>2. ~Begun /\ asked' = asked
        BY <2>1, <3>3, <3>6 DEF Begun, Owed
      <4>3. Awaited' = Awaited /\ Due' = Due
        BY <4>1 DEF Awaited, Due
      <4> QED
        BY <2>1, <2>4, <3>1, <3>2, <4>2, <4>3 DEF Handshaking
    <3> QED
      BY <2>2, <3>5, <3>6
  <2> QED
    BY <2>1, <2>3, <2>4
<1>15. CASE UNCHANGED vars
  <2>1. UNCHANGED <<conn_state, asked, again, sending, recv_buf, wsi, is_finished>>
    BY <1>15 DEF vars, engineVars, flags, connection, reassembly, wire
  <2> QED
    BY <1>1, <2>1
<1> QED
  BY <1>3, <1>4, <1>5, <1>6, <1>7, <1>8, <1>9, <1>10, <1>11, <1>12, <1>13, <1>14, <1>15, NextCases
  DEF Talk, Callback

-----------------------------------------------------------------------------
LEMMA InitHolds == Init => IInv
<1> SUFFICES ASSUME Init PROVE IInv
  OBVIOUS
<1> USE DEF Init, EngineInit
<1>1. Flags
  BY Zenon DEF Flags
<1>2. Names /\ Texts
  BY VolcTtsAssumption DEF Names, ConnState, Texts, SentOnce
<1>3. Numbers
  BY DEF Numbers, OneContext
<1>4. Buffer
  <2>1. <<>> \in Seq(Labels \cup {More}) /\ <<>> \in Seq(Labels)
    OBVIOUS
  <2> QED
    BY <2>1 DEF Buffer
<1>5. Memory /\ SenderAwake
  BY DEF Memory, SenderAwake
<1>6. Reassembling
  BY DEF Reassembling
<1>7. Handshaking
  BY DEF Handshaking
<1> QED
  BY <1>1, <1>2, <1>3, <1>4, <1>5, <1>6, <1>7 DEF IInv, Types

LEMMA NextKeeps == IInv /\ [Next]_vars => IInv'
BY FlagsStep, NamesStep, NumbersStep, TextsStep, BufferStep, MemoryStep, ReassemblingStep,
   HandshakingStep, AwakeStep DEF IInv, Types

LEMMA Invariance == Spec => []IInv
<1> QED
  BY InitHolds, NextKeeps, PTL DEF Spec

\* Every variable has its type; there is one lws context, and one text on its
\* way, which goes out once; the sender is woken for whatever is its turn; and
\* the engine's end leaves no text but one that found no connection.
THEOREM SpeaksOnOneConnection == Spec => []Inv
<1>1. IInv => TypeOK
  <2> SUFFICES ASSUME IInv PROVE TypeOK
    OBVIOUS
  <2>1. EngineTypeOK
    BY DEF IInv, Types, Flags, Names, Numbers, Buffer, EngineTypeOK
  <2>2. /\ conn_state \in ConnState
        /\ texts \in 0 .. MaxTexts /\ cache_text \in 0 .. texts /\ spoken \in 0 .. texts
        /\ asked \in Seq(Labels)
    BY DEF IInv, Types, Names, Texts, Buffer
  <2>3. /\ allocated \in BOOLEAN /\ (cache_text # 0 => allocated)
        /\ again \in BOOLEAN /\ unconnected \in BOOLEAN
    BY DEF IInv, Types, Flags, Memory
  <2> QED
    BY <2>1, <2>2, <2>3 DEF TypeOK
<1>2. IInv => TextFreed
  BY DEF IInv, Memory, TextFreed
<1>3. IInv => OneContext /\ SentOnce /\ SenderAwake
  BY DEF IInv, Types, Numbers, Texts
<1>4. IInv => Inv
  BY <1>1, <1>2, <1>3 DEF Inv
<1> QED
  BY <1>4, Invariance, PTL

\* On a connection that serves one text this goes out only while the server owes
\* no answer to what was asked of it, however the answers were cut into fragments
\* and mixed with events, and whatever was stopped before.
THEOREM TextWaitsForHandshake == Spec => TextAfterHandshake
<1>1. ASSUME IInv, [Next]_vars, spoken' \notin {spoken, 0}, ~again
      PROVE  asked = <<>>
  <2>1. CASE Quiet \/ Destroys \/ Talk \/ UNCHANGED vars
    <3>1. spoken' \in {spoken, 0}
      BY <2>1, QuietFrame, DestroysFrame, TalkText DEF vars, wire
    <3> QED
      BY <1>1, <3>1
  <2>2. CASE Writeable
    <3>1. wsi = "open"
      BY <2>2 DEF Writeable
    <3>2. conn_state = "session_started" /\ ~is_finished
      BY <1>1, <2>2 DEF Writeable, StartConnection, StartSession, SendText, NothingToSend, wire
    <3>3. ~Awaited
      BY <3>2 DEF Awaited
    <3> QED
      BY <1>1, <3>1, <3>2, <3>3 DEF IInv, Handshaking
  <2>3. CASE EstablishedTts \/ (Closed /\ UNCHANGED <<wire, text>>)
    BY <1>1, <2>3 DEF EstablishedTts, wire
  <2>4. ASSUME NEW ends \in BOOLEAN, ConnectionErrorTts(ends) \/ ServiceFailsTts(ends)
        PROVE  spoken' = spoken
    BY <2>4 DEF ConnectionErrorTts, ServiceFailsTts, AnswerTts, CutOff, wire
  <2>5. ASSUME NEW label, NEW len, ReceivePartTts(label, len) \/ ReceiveLastTts(label, len)
        PROVE  spoken' = spoken
    BY <2>5 DEF ReceivePartTts, ReceiveLastTts, Handshake, EventReported
  <2> QED
    BY <1>1, <2>1, <2>2, <2>3, <2>4, <2>5, NextCases DEF Callback
<1> QED
  BY <1>1, Invariance, PTL DEF Spec, TextAfterHandshake

\* A message that is parsed is whole unless a stop has cut one off and the
\* connection is used again.
THEOREM MessagesStayWhole == Spec => WholeUnlessReused
<1>1. ASSUME IInv, [Next]_vars, torn' # torn
      PROVE  again
  <2>1. CASE Quiet \/ Destroys \/ Talk \/ UNCHANGED vars
    <3>1. torn' = torn
      BY <2>1, QuietFrame, DestroysFrame, TalkFrame DEF vars, engineVars, reassembly
    <3> QED
      BY <1>1, <3>1
  <2>2. ASSUME NEW label \in Labels, NEW len \in 1 .. MaxPiece, ReceiveLastTts(label, len)
        PROVE  again
    <3>1. torn' = (torn \/ ~IsWhole(Received(label, len))) /\ Serving /\ wsi = "open"
      BY <2>2 DEF ReceiveLastTts, ReceiveLast
    <3>2. ASSUME HoldsMessage PROVE FALSE
      <4>1. IsWhole(Received(label, len))
        BY <1>1, <3>2, ReceivedIsWhole DEF IInv, Types
      <4>2. torn \in BOOLEAN
        BY <1>1 DEF IInv, Types, Flags
      <4> QED
        BY <1>1, <3>1, <4>1, <4>2
    <3> QED
      BY <1>1, <3>1, <3>2, OpenHoldsMessage DEF IInv
  <2>3. CASE EstablishedTts \/ (Closed /\ UNCHANGED <<wire, text>>) \/ Writeable
    BY <1>1, <2>3 DEF EstablishedTts, Established, Closed, Writeable, reassembly
  <2>4. ASSUME NEW ends \in BOOLEAN, ConnectionErrorTts(ends) \/ ServiceFailsTts(ends)
        PROVE  torn' = torn
    BY <2>4 DEF ConnectionErrorTts, ConnectionError, ServiceFailsTts, ServiceFails
  <2>5. ASSUME NEW label, NEW len, ReceivePartTts(label, len)
        PROVE  torn' = torn
    BY <2>5 DEF ReceivePartTts, ReceivePart
  <2> QED
    BY <1>1, <2>1, <2>2, <2>3, <2>4, <2>5, NextCases DEF Callback
<1> QED
  BY <1>1, Invariance, PTL DEF Spec, WholeUnlessReused
=============================================================================
