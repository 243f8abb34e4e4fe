----------------------- MODULE VolcConversationProofs -----------------------
(***************************************************************************)
(* Theorems about src/conversation/volc/ai_volc_conversation.c as module   *)
(* VolcConversation models it, whatever the bounds and the sizes of the    *)
(* send ring and of a frame, with and without auto_next_round; and at the  *)
(* end about the base64 coders of module Base64, which the audio of its    *)
(* messages goes through, for data of every length.                        *)
(***************************************************************************)
EXTENDS VolcConversation, Base64, TLAPS

\* What a call may still have to send.
Todo ==
  /\ todo \in {<<>>, <<"audio">>, <<"commit", "create">>, <<"create">>, <<"cancel">>}
  /\ upc \in {"queue", "wake"} => todo # <<>>
  /\ upc = "processing" => todo = <<"commit", "create">>

\* TypeOK is not inductive: that the semaphore is posted twice at most needs the
\* places at which the thread posts it.
Posts ==
  /\ sem >= -1
  /\ epc \in {"begin", "top", "check", "service", "drop", "mark", "end"} =>
       sem <= 1 /\ (~is_running => sem <= 0)
  /\ epc = "run" => sem <= 1
  /\ sem <= 2

Flags ==
  /\ is_finished \in BOOLEAN /\ is_closed \in BOOLEAN /\ is_running \in BOOLEAN
  /\ auto_next_round \in BOOLEAN
  /\ session \in BOOLEAN /\ requested \in BOOLEAN /\ owed \in BOOLEAN
  /\ freed \in BOOLEAN /\ asked \in BOOLEAN

Numbers ==
  /\ sem \in Int /\ contexts \in Int
  /\ send \in 0 .. MaxQueue
  /\ starts \in Nat /\ calls \in Nat

Names ==
  /\ state \in State
  /\ lws_context \in {"none", "live", "dead"} /\ wsi \in {"none", "live", "dead"}
  /\ conn \in {"none", "connecting", "up"}
  /\ upc \in UserPc /\ epc \in ThreadPc
  /\ fault \in {"none", "wsi", "context", "sem", "freed"}

TypeInv == Flags /\ Numbers /\ Names /\ Todo /\ Posts

\* Who may set lws_context to NULL, and where there is a connection.  Until the
\* threads have met over a context, one of them at a time has destroyed it and
\* has still to forget it.
Owned ==
  fault = "none" =>
    /\ conn # "none" => lws_context = "live"
    /\ upc \in {"forget", "connect", "unforget", "free"} => lws_context # "live"
    /\ upc = "connect" => lws_context = "none"
    /\ epc \in {"drop", "null"} =>
         lws_context = "dead" /\ upc \notin {"forget", "unforget", "free"}
    /\ upc = "dial" => conn = "none"
    /\ upc = "dialled" /\ conn # "none" => wsi = "live"

Accepting == state \in {"SESSION_CREATED", "LISTENING"}

\* The state may say of a connection that is being dialled that it accepts
\* audio: what write_audio has written over the end of the one before.  But then
\* start has still to write CONNECTING, and no audio can be written meanwhile.
Sessions ==
  /\ Accepting /\ upc \notin {"assign", "dialled", "connecting"} =>
       session \/ conn = "none"
  /\ upc = "listen" => session \/ conn = "none"
  /\ AudioInSession

\* An engine that was never started, finished or cancelled.
Untouched ==
  /\ lws_context = "none" /\ conn = "none" /\ ~session
  /\ state = "DISCONNECTED"
  /\ upc \in {"create", "idle"}

Rounds ==
  /\ ~auto_next_round /\ ~is_finished => asked \/ Untouched
  /\ AudioIsAsked

Inv == TypeInv /\ Owned /\ NoLeak /\ Sessions /\ Rounds

-----------------------------------------------------------------------------
\* The inductive types say what TypeOK says.
LEMMA TypeInvImpliesTypeOK == TypeInv => TypeOK
<1> SUFFICES ASSUME TypeInv PROVE TypeOK
  OBVIOUS
<1>1. sem \in -1 .. 2
  BY DEF TypeInv, Numbers, Posts
<1>2. todo \in Seq(Message)
  <2>1. todo \in {<<>>, <<"audio">>, <<"commit", "create">>, <<"create">>, <<"cancel">>}
    BY DEF TypeInv, Todo
  <2>2. {"audio", "commit", "create", "cancel"} = Message
    BY DEF Message
  <2>3. CASE todo = <<"audio">> BY <2>2, <2>3
  <2>4. CASE todo = <<"commit", "create">> BY <2>2, <2>4
  <2>5. CASE todo = <<"create">> BY <2>2, <2>5
  <2>6. CASE todo = <<"cancel">> BY <2>2, <2>6
  <2>7. CASE todo = <<>> BY <2>7
  <2> QED
    BY <2>1, <2>3, <2>4, <2>5, <2>6, <2>7
<1> QED
  BY <1>1, <1>2 DEF TypeInv, Flags, Numbers, Names, TypeOK

\* They hold of an engine that was just made.
LEMMA TypeInvInit == Init => TypeInv
<1> SUFFICES ASSUME Init PROVE TypeInv
  OBVIOUS
<1>1. Flags
  BY DEF Init, Flags
<1>2. Numbers
  BY VolcConversationAssumption DEF Init, Numbers
<1>3. Names
  BY DEF Init, Names, State, UserPc, ThreadPc
<1>4. Todo
  BY DEF Init, Todo
<1>5. Posts
  BY DEF Init, Posts
<1> QED
  BY <1>1, <1>2, <1>3, <1>4, <1>5 DEF TypeInv

-----------------------------------------------------------------------------
\* The types, step by step.

\* What is left of a call's messages when one was sent.
LEMMA TailTodo ==
  ASSUME todo # <<>>,
         todo \in {<<>>, <<"audio">>, <<"commit", "create">>, <<"create">>, <<"cancel">>}
  PROVE  Tail(todo) \in {<<>>, <<"create">>}
<1>1. CASE todo = <<"audio">> BY <1>1
<1>2. CASE todo = <<"commit", "create">> BY <1>2
<1>3. CASE todo = <<"create">> BY <1>3
<1>4. CASE todo = <<"cancel">> BY <1>4
<1> QED
  BY <1>1, <1>2, <1>3, <1>4

\* Every step leaves the flags Booleans.
LEMMA FlagsStep ==
  ASSUME TypeInv, [Next]_vars
  PROVE  Flags'
<1> USE DEF TypeInv, Flags, shared, others, flags, context, link, bounds
<1>1. CASE Begin
  BY <1>1 DEF Begin, Start, WriteAudio, Finish, Cancel, Uninit
<1>2. CASE Connect
  <2>1. CASE CleanUp
    BY <2>1 DEF CleanUp, DestroyContext, Disconnect
  <2>5. CASE Undial
    BY <2>5 DEF Undial, DestroyContext, Disconnect
  <2>2. CASE Dial \/ DialFails
    BY <2>2 DEF Dial, DialFails
  <2>6. CASE NewContext \/ AssignWsi \/ Connecting
    BY <2>6 DEF NewContext, AssignWsi, Connecting
  <2>3. CASE Forget \/ Unforget
    BY <2>3 DEF Forget, ForgetContext, Unforget
  <2>4. CASE Reuse \/ NothingToClean \/ NoContext \/ CheckWsi
    BY <2>4 DEF Reuse, NothingToClean, NoContext, CheckWsi
  <2> QED
    BY <1>2, <2>1, <2>2, <2>3, <2>4, <2>5, <2>6 DEF Connect
<1>3. CASE SendMessage
  <2>1. CASE Processing \/ Compare \/ Listen
    BY <2>1 DEF Processing, Compare, Listen
  <2>2. CASE QueueMessage
    BY <2>2 DEF QueueMessage, Queued
  <2>3. CASE Wake
    BY <2>3 DEF Wake, AfterWake
  <2> QED
    BY <1>3, <2>1, <2>2, <2>3 DEF SendMessage
<1>4. CASE Close
  <2>1. CASE Join \/ Wait \/ DestroySem
    BY <2>1 DEF Join, Wait, DestroySem
  <2>3. CASE CloseWsi
    BY <2>3 DEF CloseWsi
  <2>4. CASE Free
    BY <2>4 DEF Free
  <2>2. CASE CloseContext
    BY <2>2 DEF CloseContext, DestroyContext, Disconnect
  <2> QED
    BY <1>4, <2>1, <2>2, <2>3, <2>4 DEF Close
<1>5. CASE Loop
  <2>1. CASE Run \/ Out \/ ThreadFails
    BY <2>1 DEF Run, Out, ThreadFails
  <2>2. CASE ServiceStopped \/ Clean
    BY <2>2 DEF ServiceStopped, Clean, DestroyContext, Disconnect
  <2>3. CASE ThreadStarts \/ Round \/ Service \/ ServiceSkipped \/ ServiceReturns \/
             ServiceFails
    BY <2>3 DEF ThreadStarts, Round, Service, ServiceSkipped, ServiceReturns, ServiceFails
  <2>4. CASE Drop \/ CleanForget \/ Mark \/ Leave
    BY <2>4 DEF Drop, CleanForget, ForgetContext, Mark, Leave
  <2> QED
    BY <1>5, <2>1, <2>2, <2>3, <2>4 DEF Loop
<1>6. CASE Callback
  <2>1. CASE Established \/ SessionCreated
    BY <2>1 DEF Established, SessionCreated
  <2>5. CASE ConnectionError \/ Closed \/ WriteFails
    BY <2>5 DEF ConnectionError, Closed, WriteFails, Disconnect
  <2>2. CASE \E s \in {"PROCESSING", "SPEAKING", "ERROR"} : ServerMessage(s)
    BY <2>2 DEF ServerMessage
  <2>3. CASE ResponseDone
    BY <2>3 DEF ResponseDone
  <2>4. CASE Writeable
    <3>1. requested' \in BOOLEAN /\ owed' \in BOOLEAN
      BY <2>4 DEF Writeable
    <3>2. UNCHANGED <<flags, session, freed, asked>>
      BY <2>4 DEF Writeable
    <3> QED
      BY <3>1, <3>2
  <2> QED
    BY <1>6, <2>1, <2>2, <2>3, <2>4, <2>5 DEF Callback
<1>7. CASE Created
  BY <1>7 DEF Created
<1>8. CASE ThreadUsesFreed
  BY <1>8 DEF ThreadUsesFreed
<1>9. CASE UNCHANGED vars
  BY <1>9 DEF vars
<1> QED
  BY <1>1, <1>2, <1>3, <1>4, <1>5, <1>6, <1>7, <1>8, <1>9 DEF Next, GoOn

\* A full ring drops its oldest message, and a frame takes no more than there is.
LEMMA NumbersStep ==
  ASSUME TypeInv, [Next]_vars
  PROVE  Numbers'
<1> USE DEF TypeInv, Numbers, shared, others, flags, context, link, bounds
<1>1. CASE Begin
  BY <1>1, VolcConversationAssumption DEF Begin, Start, WriteAudio, Finish, Cancel,
     Uninit
<1>2. CASE Connect
  BY <1>2, VolcConversationAssumption DEF Connect, Reuse, CleanUp, NothingToClean,
     Forget, ForgetContext, NewContext, NoContext, Dial, DialFails, Undial, Unforget,
     AssignWsi, CheckWsi, Connecting, DestroyContext, Disconnect
<1>3. CASE SendMessage
  BY <1>3, VolcConversationAssumption DEF SendMessage, Processing, QueueMessage,
     Queued, Wake, AfterWake, Compare, Listen
<1>4. CASE Close
  BY <1>4, VolcConversationAssumption DEF Close, Join, Wait, DestroySem, CloseWsi,
     CloseContext, Free, DestroyContext, Disconnect
<1>5. CASE Loop
  BY <1>5, VolcConversationAssumption DEF Loop, ThreadStarts, ThreadFails, Round,
     Service, ServiceStopped, ServiceSkipped, Drop, ForgetContext, ServiceReturns,
     ServiceFails, Mark, Post, Run, Leave, Clean, CleanForget, Out, DestroyContext, Disconnect
<1>6. CASE Callback
  BY <1>6, VolcConversationAssumption DEF Callback, Established, SessionCreated,
     ResponseDone, ConnectionError, Closed, Writeable, Sent, WriteFails,
     ServerMessage, Disconnect
<1>7. CASE Created
  BY <1>7, VolcConversationAssumption DEF Created
<1>8. CASE ThreadUsesFreed
  BY <1>8, VolcConversationAssumption DEF ThreadUsesFreed
<1>9. CASE UNCHANGED vars
  BY <1>9, VolcConversationAssumption DEF vars
<1> QED
  BY <1>1, <1>2, <1>3, <1>4, <1>5, <1>6, <1>7, <1>8, <1>9 DEF Next, GoOn

\* The states, the pointers and both threads' places stay in their sets.
LEMMA NamesStep ==
  ASSUME TypeInv, [Next]_vars
  PROVE  Names'
<1> USE DEF TypeInv, Names, State, UserPc, ThreadPc, User, Thread, shared, others,
            flags, context, link, bounds
<1>1. CASE Begin
  BY <1>1 DEF Begin, Start, WriteAudio, Finish, Cancel, Uninit
<1>2. CASE Connect
  BY <1>2 DEF Connect, Reuse, CleanUp, NothingToClean, Forget, ForgetContext,
     NewContext, NoContext, Dial, DialFails, Undial, Unforget, AssignWsi, CheckWsi,
     Connecting, DestroyContext, Disconnect
<1>3. CASE SendMessage
  BY <1>3 DEF SendMessage, Processing, QueueMessage, Queued, Wake, AfterWake, Compare,
     Listen
<1>4. CASE Close
  BY <1>4 DEF Close, Join, Wait, DestroySem, CloseWsi, CloseContext, Free,
     DestroyContext, Disconnect
<1>5. CASE Loop
  BY <1>5 DEF Loop, ThreadStarts, ThreadFails, Round, Service, ServiceStopped,
     ServiceSkipped, Drop,
     ForgetContext, ServiceReturns, ServiceFails, Mark, Post, Run, Leave, Clean,
     CleanForget, Out, DestroyContext, Disconnect
<1>6. CASE Callback
  BY <1>6 DEF Callback, Established, SessionCreated, ResponseDone, ConnectionError,
     Closed, Writeable, Sent, WriteFails, ServerMessage, Disconnect
<1>7. CASE Created
  BY <1>7 DEF Created
<1>8. CASE ThreadUsesFreed
  BY <1>8 DEF ThreadUsesFreed
<1>9. CASE UNCHANGED vars
  BY <1>9 DEF vars
<1> QED
  BY <1>1, <1>2, <1>3, <1>4, <1>5, <1>6, <1>7, <1>8, <1>9 DEF Next, GoOn

\* finish alone has two messages to send; the others have one.
LEMMA TodoStep ==
  ASSUME TypeInv, [Next]_vars
  PROVE  Todo'
<1> USE DEF TypeInv, Todo, User, Thread, shared, others, flags, context, link,
            bounds
<1>1. CASE Begin
  BY <1>1 DEF Begin, Start, WriteAudio, Finish, Cancel, Uninit
<1>2. CASE Connect
  BY <1>2 DEF Connect, Reuse, CleanUp, NothingToClean, Forget, ForgetContext,
     NewContext, NoContext, Dial, DialFails, Undial, Unforget, AssignWsi, CheckWsi,
     Connecting, DestroyContext, Disconnect
<1>3. CASE SendMessage
  <2>1. CASE Processing \/ QueueMessage \/ Compare \/ Listen
    BY <2>1 DEF Processing, QueueMessage, Compare, Listen
  <2>2. CASE Wake
    <3>1. todo # <<>> /\ upc' \in {"queue", "compare", "idle"} /\ todo' = Tail(todo)
      BY <2>2 DEF Wake, AfterWake
    <3>2. upc' = "queue" => Tail(todo) # <<>>
      BY <2>2 DEF Wake, AfterWake
    <3> QED
      BY <3>1, <3>2, TailTodo
  <2> QED
    BY <1>3, <2>1, <2>2 DEF SendMessage
<1>4. CASE Close
  BY <1>4 DEF Close, Join, Wait, DestroySem, CloseWsi, CloseContext, Free,
     DestroyContext, Disconnect
<1>5. CASE Loop
  BY <1>5 DEF Loop, ThreadStarts, ThreadFails, Round, Service, ServiceStopped,
     ServiceSkipped, Drop,
     ForgetContext, ServiceReturns, ServiceFails, Mark, Post, Run, Leave, Clean,
     CleanForget, Out, DestroyContext, Disconnect
<1>6. CASE Callback
  BY <1>6 DEF Callback, Established, SessionCreated, ResponseDone, ConnectionError,
     Closed, Writeable, Sent, WriteFails, ServerMessage, Disconnect
<1>7. CASE Created
  BY <1>7 DEF Created
<1>8. CASE ThreadUsesFreed
  BY <1>8 DEF ThreadUsesFreed
<1>9. CASE UNCHANGED vars
  BY <1>9 DEF vars
<1> QED
  BY <1>1, <1>2, <1>3, <1>4, <1>5, <1>6, <1>7, <1>8, <1>9 DEF Next, GoOn

\* The thread posts once in its first round and once after its loop.
LEMMA PostsStep ==
  ASSUME TypeInv, [Next]_vars
  PROVE  Posts'
<1> USE DEF TypeInv, Numbers, Posts, User, Thread, shared, others, flags, context,
            link, bounds
<1>1. CASE Begin
  BY <1>1 DEF Begin, Start, WriteAudio, Finish, Cancel, Uninit
<1>2. CASE Connect
  BY <1>2 DEF Connect, Reuse, CleanUp, NothingToClean, Forget, ForgetContext,
     NewContext, NoContext, Dial, DialFails, Undial, Unforget, AssignWsi, CheckWsi,
     Connecting, DestroyContext, Disconnect
<1>3. CASE SendMessage
  BY <1>3 DEF SendMessage, Processing, QueueMessage, Queued, Wake, AfterWake, Compare,
     Listen
<1>4. CASE Close
  BY <1>4 DEF Close, Join, Wait, DestroySem, CloseWsi, CloseContext, Free,
     DestroyContext, Disconnect
<1>5. CASE Loop
  BY <1>5 DEF Loop, ThreadStarts, ThreadFails, Round, Service, ServiceStopped,
     ServiceSkipped, Drop,
     ForgetContext, ServiceReturns, ServiceFails, Mark, Post, Run, Leave, Clean,
     CleanForget, Out, DestroyContext, Disconnect
<1>6. CASE Callback
  BY <1>6 DEF Callback, Established, SessionCreated, ResponseDone, ConnectionError,
     Closed, Writeable, Sent, WriteFails, ServerMessage, Disconnect
<1>7. CASE Created
  BY <1>7 DEF Created
<1>8. CASE ThreadUsesFreed
  BY <1>8 DEF ThreadUsesFreed
<1>9. CASE UNCHANGED vars
  BY <1>9 DEF vars
<1> QED
  BY <1>1, <1>2, <1>3, <1>4, <1>5, <1>6, <1>7, <1>8, <1>9 DEF Next, GoOn

\* The five together.
LEMMA TypeInvStep == TypeInv /\ [Next]_vars => TypeInv'
BY FlagsStep, NumbersStep, NamesStep, TodoStep, PostsStep DEF TypeInv

-----------------------------------------------------------------------------
\* The context and the connection.

\* Between a destruction and its NULL the other thread runs into a fault.
LEMMA OwnedStep ==
  ASSUME TypeInv, Owned, [Next]_vars
  PROVE  Owned'
<1> USE DEF TypeInv, Names, Owned, User, Thread, shared, others, flags, context,
            link, bounds
<1>1. CASE Begin \/ SendMessage
  BY <1>1 DEF Begin, Start, WriteAudio, Finish, Cancel, Uninit, SendMessage,
     Processing, QueueMessage, Wake, AfterWake, Compare, Listen
<1>2. CASE Reuse \/ NothingToClean \/ NoContext \/ Connecting \/ CheckWsi \/ Join \/
          Wait \/ DestroySem \/ Free \/ Created
  BY <1>2 DEF Reuse, NothingToClean, NoContext, Connecting, CheckWsi, Join, Wait,
     DestroySem, Free, Created
<1>3. CASE CleanUp \/ Undial \/ CloseContext
  BY <1>3 DEF CleanUp, Undial, CloseContext, DestroyContext, Disconnect
<1>4. CASE Forget \/ Unforget
  BY <1>4 DEF Forget, Unforget, ForgetContext
<1>5. CASE NewContext
  BY <1>5 DEF NewContext
<1>6. CASE Dial \/ DialFails
  BY <1>6 DEF Dial, DialFails
<1>7. CASE AssignWsi \/ CloseWsi
  BY <1>7 DEF AssignWsi, CloseWsi
<1>8. CASE ThreadStarts \/ ThreadFails \/ Round \/ Service \/ ServiceSkipped \/
          ServiceReturns \/ ServiceFails \/ Mark \/ Run \/ Leave \/ Out
  BY <1>8 DEF ThreadStarts, ThreadFails, Round, Service, ServiceSkipped, ServiceReturns,
     ServiceFails, Mark, Run, Leave, Out, Post
<1>9. CASE ServiceStopped \/ Clean
  BY <1>9 DEF ServiceStopped, Clean, DestroyContext, Disconnect
<1>10. CASE Drop \/ CleanForget
  BY <1>10 DEF Drop, CleanForget, ForgetContext
<1>11. CASE ConnectionError \/ Closed \/ WriteFails
  BY <1>11 DEF ConnectionError, Closed, WriteFails, Disconnect
<1>12. CASE Established \/ SessionCreated \/ ResponseDone \/ Writeable \/ \E s \in
          {"PROCESSING", "SPEAKING", "ERROR"} : ServerMessage(s)
  BY <1>12 DEF Established, SessionCreated, ResponseDone, Writeable, ServerMessage
<1>13. CASE ThreadUsesFreed \/ UNCHANGED vars
  BY <1>13 DEF ThreadUsesFreed, vars
<1> QED
  BY <1>1, <1>2, <1>3, <1>4, <1>5, <1>6, <1>7, <1>8, <1>9, <1>10, <1>11, <1>12, <1>13
     DEF Next, GoOn, Connect, Close, Loop, Callback

\* Who destroys the context is the one to forget it, and nothing else takes it away.
LEMMA NoLeakStep ==
  ASSUME TypeInv, Owned, NoLeak, [Next]_vars
  PROVE  NoLeak'
<1> USE DEF TypeInv, Names, Numbers, Owned, NoLeak, User, Thread, shared, others,
            flags, context, link, bounds
<1>1. CASE Begin \/ SendMessage
  BY <1>1 DEF Begin, Start, WriteAudio, Finish, Cancel, Uninit, SendMessage,
     Processing, QueueMessage, Wake, Compare, Listen
<1>2. CASE Reuse \/ NothingToClean \/ NoContext \/ Connecting \/ CheckWsi \/ Join \/
          Wait \/ DestroySem \/ Free \/ Created \/ Dial \/ DialFails \/ AssignWsi \/
          CloseWsi
  BY <1>2 DEF Reuse, NothingToClean, NoContext, Connecting, CheckWsi, Join, Wait,
     DestroySem, Free, Created, Dial, DialFails, AssignWsi, CloseWsi
<1>3. CASE CleanUp \/ Undial \/ CloseContext
  BY <1>3 DEF CleanUp, Undial, CloseContext, DestroyContext, Disconnect
<1>4. CASE Forget \/ Unforget
  BY <1>4 DEF Forget, Unforget, ForgetContext
<1>5. CASE NewContext
  BY <1>5 DEF NewContext
<1>6. CASE ThreadStarts \/ ThreadFails \/ Round \/ Service \/ ServiceSkipped \/
          ServiceReturns \/ ServiceFails \/ Mark \/ Run \/ Leave \/ Out
  BY <1>6 DEF ThreadStarts, ThreadFails, Round, Service, ServiceSkipped, ServiceReturns,
     ServiceFails, Mark, Run, Leave, Out, Post
<1>7. CASE ServiceStopped \/ Clean
  BY <1>7 DEF ServiceStopped, Clean, DestroyContext, Disconnect
<1>8. CASE Drop \/ CleanForget
  BY <1>8 DEF Drop, CleanForget, ForgetContext
<1>9. CASE Established \/ SessionCreated \/ ResponseDone \/ ConnectionError \/
          Closed \/ Writeable \/ WriteFails \/ \E s \in {"PROCESSING", "SPEAKING",
          "ERROR"} : ServerMessage(s)
  BY <1>9 DEF Established, SessionCreated, ResponseDone, ConnectionError, Closed,
     Writeable, WriteFails, ServerMessage
<1>10. CASE ThreadUsesFreed \/ UNCHANGED vars
  BY <1>10 DEF ThreadUsesFreed, vars
<1> QED
  BY <1>1, <1>2, <1>3, <1>4, <1>5, <1>6, <1>7, <1>8, <1>9, <1>10 DEF Next, GoOn,
     Connect, Close, Loop, Callback

-----------------------------------------------------------------------------
\* Audio.

\* A message that is not a call's first is no audio.
LEMMA NoAudioAgain ==
  ASSUME TypeInv, SendMessage
  PROVE  ~QueuesAudio'
<1>1. CASE Processing
  <2>1. todo' = <<"commit", "create">>
    BY <1>1 DEF Processing, User, others, TypeInv, Todo
  <2> QED
    BY <2>1 DEF QueuesAudio
<1>2. CASE Wake
  <2>1. todo # <<>> /\ todo' = Tail(todo) /\ (upc' = "queue" => Tail(todo) # <<>>)
    BY <1>2 DEF Wake, User, AfterWake, TypeInv, Todo
  <2>2. upc' = "queue" => todo' = <<"create">>
    BY <2>1, TailTodo DEF TypeInv, Todo
  <2> QED
    BY <2>2 DEF QueuesAudio
<1>3. CASE QueueMessage \/ Compare \/ Listen
  BY <1>3 DEF QueueMessage, Compare, Listen, User, QueuesAudio
<1> QED
  BY <1>1, <1>2, <1>3 DEF SendMessage

\* CONNECTING is written before the call of start returns.
LEMMA SessionsStep ==
  ASSUME TypeInv, Owned, Sessions, [Next]_vars
  PROVE  Sessions'
<1> USE DEF TypeInv, Names, Owned, Sessions, Accepting, AudioInSession, QueuesAudio,
            User, Thread, shared, others, flags, context, link, bounds
<1>1. CASE Begin
  BY <1>1 DEF Begin, Start, WriteAudio, Finish, Cancel, Uninit
<1>2. CASE SendMessage
  <2>1. upc \in {"processing", "queue", "wake", "compare", "listen"}
        /\ upc' \in {"idle", "queue", "wake", "compare", "listen"}
    BY <1>2 DEF SendMessage, Processing, QueueMessage, Wake, AfterWake, Compare, Listen
  <2>2. UNCHANGED <<session, conn>>
    BY <1>2 DEF SendMessage, Processing, QueueMessage, Wake, Compare, Listen
  <2>3. \/ state' \in {state, "PROCESSING"} /\ upc' # "listen"
        \/ upc = "listen"
        \/ state = "SESSION_CREATED"
    BY <1>2 DEF SendMessage, Processing, QueueMessage, Wake, AfterWake, Compare, Listen
  <2>4. ~QueuesAudio'
    BY <1>2, NoAudioAgain
  <2> QED
    BY <2>1, <2>2, <2>3, <2>4
<1>3. CASE Reuse \/ NothingToClean \/ NoContext \/ Connecting \/ CheckWsi \/ Join \/
          Wait \/ DestroySem \/ Free \/ Created
  BY <1>3 DEF Reuse, NothingToClean, NoContext, Connecting, CheckWsi, Join, Wait,
     DestroySem, Free, Created
<1>4. CASE CleanUp \/ Undial \/ CloseContext
  BY <1>4 DEF CleanUp, Undial, CloseContext, DestroyContext, Disconnect
<1>5. CASE Forget \/ Unforget
  BY <1>5 DEF Forget, Unforget, ForgetContext
<1>6. CASE NewContext
  BY <1>6 DEF NewContext
<1>7. CASE Dial \/ DialFails \/ AssignWsi \/ CloseWsi
  BY <1>7 DEF Dial, DialFails, AssignWsi, CloseWsi
<1>8. CASE ThreadStarts \/ ThreadFails \/ Round \/ Service \/ ServiceSkipped \/
          ServiceReturns \/ ServiceFails \/ Mark \/ Run \/ Leave \/ Out
  BY <1>8 DEF ThreadStarts, ThreadFails, Round, Service, ServiceSkipped, ServiceReturns,
     ServiceFails, Mark, Run, Leave, Out, Post
<1>9. CASE ServiceStopped \/ Clean
  BY <1>9 DEF ServiceStopped, Clean, DestroyContext, Disconnect
<1>10. CASE Drop \/ CleanForget
  BY <1>10 DEF Drop, CleanForget, ForgetContext
<1>11. CASE ConnectionError \/ Closed \/ WriteFails
  BY <1>11 DEF ConnectionError, Closed, WriteFails, Disconnect
<1>12. CASE Established \/ SessionCreated \/ ResponseDone \/ Writeable \/ \E s \in
          {"PROCESSING", "SPEAKING", "ERROR"} : ServerMessage(s)
  BY <1>12 DEF Established, SessionCreated, ResponseDone, Writeable, ServerMessage
<1>13. CASE ThreadUsesFreed \/ UNCHANGED vars
  BY <1>13 DEF ThreadUsesFreed, vars
<1> QED
  BY <1>1, <1>2, <1>3, <1>4, <1>5, <1>6, <1>7, <1>8, <1>9, <1>10, <1>11, <1>12, <1>13
     DEF Next, GoOn, Connect, Close, Loop, Callback

\* Untouched keeps write_audio out, and response.done leaves is_finished alone.
LEMMA RoundsStep ==
  ASSUME TypeInv, Rounds, [Next]_vars
  PROVE  Rounds'
<1> USE DEF TypeInv, Names, Flags, Rounds, Untouched, AudioIsAsked, QueuesAudio,
            User, Thread, shared, others, flags, context, link, bounds
<1>1. CASE Begin
  BY <1>1 DEF Begin, Start, WriteAudio, Finish, Cancel, Uninit
<1>2. CASE SendMessage
  <2>1. UNCHANGED <<auto_next_round, is_finished, asked>>
    BY <1>2 DEF SendMessage, Processing, QueueMessage, Wake, Compare, Listen
  <2>2. ~Untouched
    BY <1>2 DEF SendMessage, Processing, QueueMessage, Wake, Compare, Listen
  <2>3. ~QueuesAudio'
    BY <1>2, NoAudioAgain
  <2> QED
    BY <2>1, <2>2, <2>3
<1>3. CASE Reuse \/ NothingToClean \/ NoContext \/ Connecting \/ CheckWsi \/ Join \/
          Wait \/ DestroySem \/ Free \/ Created
  BY <1>3 DEF Reuse, NothingToClean, NoContext, Connecting, CheckWsi, Join, Wait,
     DestroySem, Free, Created
<1>4. CASE CleanUp \/ Undial \/ CloseContext
  BY <1>4 DEF CleanUp, Undial, CloseContext, DestroyContext, Disconnect
<1>5. CASE Forget \/ Unforget
  BY <1>5 DEF Forget, Unforget, ForgetContext
<1>6. CASE NewContext
  BY <1>6 DEF NewContext
<1>7. CASE Dial \/ DialFails \/ AssignWsi \/ CloseWsi
  BY <1>7 DEF Dial, DialFails, AssignWsi, CloseWsi
<1>8. CASE ThreadStarts \/ ThreadFails \/ Round \/ Service \/ ServiceSkipped \/
          ServiceReturns \/ ServiceFails \/ Mark \/ Run \/ Leave \/ Out
  BY <1>8 DEF ThreadStarts, ThreadFails, Round, Service, ServiceSkipped, ServiceReturns,
     ServiceFails, Mark, Run, Leave, Out, Post
<1>9. CASE ServiceStopped \/ Clean
  BY <1>9 DEF ServiceStopped, Clean, DestroyContext, Disconnect
<1>10. CASE Drop \/ CleanForget
  BY <1>10 DEF Drop, CleanForget, ForgetContext
<1>11. CASE ConnectionError \/ Closed \/ WriteFails
  BY <1>11 DEF ConnectionError, Closed, WriteFails, Disconnect
<1>12. CASE Established \/ SessionCreated \/ ResponseDone \/ Writeable \/ \E s \in
          {"PROCESSING", "SPEAKING", "ERROR"} : ServerMessage(s)
  BY <1>12 DEF Established, SessionCreated, ResponseDone, Writeable, ServerMessage
<1>13. CASE ThreadUsesFreed \/ UNCHANGED vars
  BY <1>13 DEF ThreadUsesFreed, vars
<1> QED
  BY <1>1, <1>2, <1>3, <1>4, <1>5, <1>6, <1>7, <1>8, <1>9, <1>10, <1>11, <1>12, <1>13
     DEF Next, GoOn, Connect, Close, Loop, Callback

-----------------------------------------------------------------------------
\* The invariant holds at first, ...
LEMMA InvInit == Init => Inv
<1> SUFFICES ASSUME Init PROVE Inv
  OBVIOUS
<1>1. TypeInv
  BY TypeInvInit
<1>2. Owned /\ NoLeak
  BY DEF Init, Owned, NoLeak
<1>3. Sessions
  BY DEF Init, Sessions, Accepting, AudioInSession, QueuesAudio
<1>4. Rounds
  BY DEF Init, Rounds, Untouched, AudioIsAsked, QueuesAudio
<1> QED
  BY <1>1, <1>2, <1>3, <1>4 DEF Inv

\* ... every step keeps it, ...
LEMMA InvStep == Inv /\ [Next]_vars => Inv'
BY TypeInvStep, OwnedStep, NoLeakStep, SessionsStep, RoundsStep DEF Inv

\* ... and so it always holds.
LEMMA InvHolds == Spec => []Inv
<1> QED
  BY InvInit, InvStep, PTL DEF Spec

\* Every variable has its type; of the semaphore of create_thread and
\* destroy_thread this says that it never counts more than two posts.
THEOREM TypeCorrect == Spec => []TypeOK
<1>1. Inv => TypeOK
  BY TypeInvImpliesTypeOK DEF Inv
<1> QED
  BY InvHolds, <1>1, PTL

\* Audio is queued only for a connection on which the server has created a
\* session, although write_audio goes by engine->state, which
\* connect_websocket, write_audio and the callback all write without a lock.
THEOREM AudioOnlyInSession == Spec => []AudioInSession
<1>1. Inv => AudioInSession
  BY DEF Inv, Sessions
<1> QED
  BY InvHolds, <1>1, PTL

\* Without auto_next_round, no audio is queued between a finish, cancel or
\* uninit and the next start, whatever the server answers meanwhile.
THEOREM AudioOnlyIfAsked == Spec => []AudioIsAsked
<1>1. Inv => AudioIsAsked
  BY DEF Inv, Rounds
<1> QED
  BY InvHolds, <1>1, PTL

\* Every lws context that connect_websocket created and nobody destroyed is the
\* one lws_context points to, until the two threads have met over a context.
THEOREM NoContextLeaks == Spec => []NoLeak
<1>1. Inv => NoLeak
  BY DEF Inv
<1> QED
  BY InvHolds, <1>1, PTL

-----------------------------------------------------------------------------
\* The base64 coders.  A sequence of bytes that is not empty:
Data == {d \in Seq(Byte) : Len(d) > 0}

-----------------------------------------------------------------------------
\* Numbers to the base 64 and 256.

LEMMA Split64 ==
  ASSUME NEW t \in Nat
  PROVE  /\ t \div 64 \in Nat /\ t % 64 \in Nat /\ t % 64 < 64
         /\ t = (t \div 64) * 64 + (t % 64)
BY SMT

LEMMA Shifts ==
  ASSUME NEW t \in Nat
  PROVE  /\ t \div 4096 = (t \div 64) \div 64
         /\ t \div 262144 = ((t \div 64) \div 64) \div 64
         /\ t \div 65536 = (t \div 256) \div 256
BY SMT

LEMMA Low256 ==
  ASSUME NEW a \in Nat, NEW b \in Nat, b < 256
  PROVE  (a * 256 + b) \div 256 = a /\ (a * 256 + b) % 256 = b
BY SMT

LEMMA Low64 ==
  ASSUME NEW a \in Nat
  PROVE  (a * 64) \div 64 = a /\ (a * 64) % 64 = 0
BY SMT

\* Four letters hold 24 bits.
LEMMA FourDigits ==
  ASSUME NEW t \in Nat, t < 16777216
  PROVE  /\ \A k \in 1 .. 4 : Digits(t)[k] \in Sextet
         /\ Digits(t)[1] * 262144 + Digits(t)[2] * 4096 + Digits(t)[3] * 64 + Digits(t)[4] = t
<1> DEFINE q1 == t \div 64
           q2 == q1 \div 64
           q3 == q2 \div 64
<1>1. /\ Digits(t)[1] = q3 % 64 /\ Digits(t)[2] = q2 % 64
      /\ Digits(t)[3] = q1 % 64 /\ Digits(t)[4] = t % 64
  BY SMT, Shifts DEF Digits
<1>2. q1 \in Nat /\ t % 64 \in Nat /\ t % 64 < 64 /\ t = q1 * 64 + (t % 64)
  BY SMT, Split64
<1> HIDE DEF q1
<1>3. q2 \in Nat /\ q1 % 64 \in Nat /\ q1 % 64 < 64 /\ q1 = q2 * 64 + (q1 % 64)
  BY SMT, <1>2, Split64
<1> HIDE DEF q2
<1>4. q3 \in Nat /\ q2 % 64 \in Nat /\ q2 % 64 < 64 /\ q2 = q3 * 64 + (q2 % 64)
  BY SMT, <1>3, Split64
<1> HIDE DEF q3
<1>5. q3 < 64
  BY SMT, <1>2, <1>3, <1>4
<1>6. q3 % 64 = q3
  BY SMT, <1>4, <1>5
<1>7. q3 * 262144 + (q2 % 64) * 4096 + (q1 % 64) * 64 + (t % 64) = t
  BY SMT, <1>2, <1>3, <1>4
<1> QED
  BY SMT, <1>1, <1>2, <1>3, <1>4, <1>5, <1>6, <1>7 DEF Sextet

\* Three bytes are those 24 bits.
LEMMA ThreeBytes ==
  ASSUME NEW a \in Byte, NEW b \in Byte, NEW c \in Byte, NEW t,
         t = a * 65536 + b * 256 + c
  PROVE  /\ t \in Nat /\ t < 16777216
         /\ t \div 65536 = a /\ (t \div 256) % 256 = b /\ t % 256 = c
<1>1. a \in Nat /\ b \in Nat /\ c \in Nat /\ a < 256 /\ b < 256 /\ c < 256
  BY SMT DEF Byte
<1>2. t \in Nat /\ t < 16777216 /\ t = (a * 256 + b) * 256 + c
  BY SMT, <1>1
<1>3. t \div 256 = a * 256 + b /\ t % 256 = c
  BY SMT, <1>1, <1>2, Low256
<1>4. (a * 256 + b) \div 256 = a /\ (a * 256 + b) % 256 = b
  BY SMT, <1>1, Low256
<1>5. t \div 65536 = (t \div 256) \div 256
  BY SMT, <1>2, Shifts
<1>6. t \div 65536 = a /\ (t \div 256) % 256 = b
  BY SMT, <1>3, <1>4, <1>5
<1> QED
  BY SMT, <1>2, <1>3, <1>6

\* Where the last byte, or the last two, are missing the last letters are zero.
LEMMA ZeroLetters ==
  ASSUME NEW a \in Byte, NEW b \in Byte
  PROVE  /\ Digits(a * 65536 + b * 256 + 0)[4] = 0
         /\ b = 0 => Digits(a * 65536 + b * 256 + 0)[3] = 0
<1>1. a \in Nat /\ b \in Nat
  BY SMT DEF Byte
<1>2. a * 1024 + b * 4 \in Nat /\ (a * 1024 + b * 4) * 64 = a * 65536 + b * 256 + 0
  BY SMT, <1>1
<1>3. (a * 65536 + b * 256 + 0) % 64 = 0
  BY SMT, <1>2, Low64
<1>4. b = 0 => ((a * 65536 + b * 256 + 0) \div 64) % 64 = 0
  BY SMT, <1>1
<1> QED
  BY SMT, <1>3, <1>4 DEF Digits

-----------------------------------------------------------------------------
\* Where the letters of a group stand.
LEMMA Places ==
  ASSUME NEW g \in Nat, NEW k \in 1 .. 4
  PROVE  ((4 * g + k) - 1) \div 4 = g /\ (((4 * g + k) - 1) % 4) + 1 = k
BY SMT

\* The groups of data, and what of them is data.
LEMMA GroupOfData ==
  ASSUME NEW data \in Data, NEW g \in Groups(Len(data))
  PROVE  /\ g \in Nat /\ Len(data) \in Nat /\ 3 * g + 1 <= Len(data)
         /\ OutputLength(Len(data)) \in Nat /\ 4 * g + 4 <= OutputLength(Len(data))
         /\ Len(data) <= 3 * g + 3 => OutputLength(Len(data)) = 4 * g + 4
         /\ Len(data) > 3 * g + 3 => OutputLength(Len(data)) >= 4 * g + 8
         /\ \A k \in 1 .. 3 : Octet(data, 3 * g + k) \in Byte
         /\ Triple(data, g) \in Nat /\ Triple(data, g) < 16777216
<1>1. Len(data) \in Nat /\ Len(data) > 0 /\ \A i \in 1 .. Len(data) : data[i] \in Byte
  BY SMT DEF Data
<1>2. g \in Nat /\ g <= (Len(data) + 2) \div 3 - 1
  BY SMT, <1>1 DEF Groups
<1>3. \A k \in 1 .. 3 : Octet(data, 3 * g + k) \in Byte
  <2>1. 0 \in Byte
    BY SMT DEF Byte
  <2>2. \A k \in 1 .. 3 : 3 * g + k \in Nat /\ 3 * g + k >= 1
    BY SMT, <1>2
  <2> QED
    BY SMT, <1>1, <2>1, <2>2 DEF Octet
<1>4. Triple(data, g) \in Nat /\ Triple(data, g) < 16777216
  BY SMT, <1>3, ThreeBytes DEF Triple
<1> DEFINE m == (Len(data) + 2) \div 3
<1>5. m \in Nat /\ g + 1 <= m /\ 3 * m <= Len(data) + 2 /\ Len(data) <= 3 * m
  BY SMT, <1>1, <1>2
<1>6. OutputLength(Len(data)) = 4 * m
  BY SMT DEF OutputLength
<1> HIDE DEF m
<1>7. OutputLength(Len(data)) \in Nat /\ 4 * g + 4 <= OutputLength(Len(data))
  BY SMT, <1>2, <1>5, <1>6
<1>8. /\ 3 * g + 1 <= Len(data)
      /\ Len(data) <= 3 * g + 3 => OutputLength(Len(data)) = 4 * g + 4
      /\ Len(data) > 3 * g + 3 => OutputLength(Len(data)) >= 4 * g + 8
  BY SMT, <1>1, <1>2, <1>5, <1>6
<1> QED
  BY SMT, <1>1, <1>2, <1>3, <1>4, <1>7, <1>8

\* The letter k of group g, as the plugin encodes it: the padding is that of
\* the last group.
LEMMA EncodedLetter ==
  ASSUME NEW data \in Data, NEW g \in Groups(Len(data)), NEW k \in 1 .. 4
  PROVE  Encode(data)[4 * g + k] = IF \/ 3 * g + 1 = Len(data) /\ k > 2
                                      \/ 3 * g + 2 = Len(data) /\ k > 3
                                   THEN Pad
                                   ELSE Digits(Triple(data, g))[k]
<1> DEFINE n == Len(data)
           out == OutputLength(n)
<1>1. /\ g \in Nat /\ n \in Nat /\ 3 * g + 1 <= n /\ out \in Nat /\ 4 * g + 4 <= out
      /\ n <= 3 * g + 3 => out = 4 * g + 4
      /\ n > 3 * g + 3 => out >= 4 * g + 8
  BY SMT, GroupOfData
<1>2. 4 * g + k \in 1 .. out
  BY SMT, <1>1
<1>3. Encode(data)[4 * g + k] = IF 4 * g + k > out - Padding(n) THEN Pad ELSE Digits(Triple(data, g))[k]
  BY SMTT(30), <1>1, <1>2, Places DEF Encode
<1>4. Padding(n) \in 0 .. 2
      /\ (n = 3 * g + 1 => Padding(n) = 2) /\ (n = 3 * g + 2 => Padding(n) = 1)
      /\ (n = 3 * g + 3 => Padding(n) = 0)
  BY SMT, <1>1 DEF Padding
<1>5. 4 * g + k > out - Padding(n) <=> (3 * g + 1 = n /\ k > 2) \/ (3 * g + 2 = n /\ k > 3)
  <2> HIDE DEF n, out
  <2> QED
    BY SMT, <1>1, <1>4
<1> QED
  BY SMT, <1>3, <1>5

\* As utils/base64.c does: the third and the fourth are padding in every group.
LEMMA UtilsEncodedLetter ==
  ASSUME NEW data \in Data, NEW g \in Groups(Len(data)), NEW k \in 1 .. 4
  PROVE  UtilsEncode(data)[4 * g + k] = IF k > 2 THEN Pad ELSE Digits(Triple(data, g))[k]
<1>1. /\ g \in Nat /\ Len(data) \in Nat
      /\ OutputLength(Len(data)) \in Nat /\ 4 * g + 4 <= OutputLength(Len(data))
  BY SMT, GroupOfData
<1>2. 4 * g + k \in 1 .. OutputLength(Len(data))
  BY SMT, <1>1
<1> QED
  BY SMTT(30), <1>1, <1>2, Places DEF UtilsEncode

-----------------------------------------------------------------------------
\* What the reference decoder makes of a group without padding, with one and
\* with two letters of it.
LEMMA DecodeFour ==
  ASSUME NEW p \in Sextet, NEW q \in Sextet, NEW r \in Sextet, NEW s \in Sextet,
         NEW t, t = p * 262144 + q * 4096 + r * 64 + s
  PROVE  UtilsDecodeGroup(<<p, q, r, s>>) = <<t \div 65536, (t \div 256) % 256, t % 256>>
<1>1. p # Pad /\ q # Pad /\ r # Pad /\ s # Pad
  BY SMT DEF Sextet, Pad
<1> QED
  BY SMT, <1>1 DEF UtilsDecodeGroup

LEMMA DecodeThree ==
  ASSUME NEW p \in Sextet, NEW q \in Sextet, NEW r \in Sextet,
         NEW t, t = p * 262144 + q * 4096 + r * 64 + 0
  PROVE  UtilsDecodeGroup(<<p, q, r, Pad>>) = <<t \div 65536, (t \div 256) % 256>>
<1>1. p # Pad /\ q # Pad /\ r # Pad
  BY SMT DEF Sextet, Pad
<1> QED
  BY SMT, <1>1 DEF UtilsDecodeGroup

LEMMA DecodeTwo ==
  ASSUME NEW p \in Sextet, NEW q \in Sextet,
         NEW t, t = p * 262144 + q * 4096 + 0 * 64 + 0
  PROVE  UtilsDecodeGroup(<<p, q, Pad, Pad>>) = <<t \div 65536>>
<1>1. p # Pad /\ q # Pad
  BY SMT DEF Sextet, Pad
<1> QED
  BY SMT, <1>1 DEF UtilsDecodeGroup

\* The first byte needs no more than the first two letters.
LEMMA FirstTwoLetters ==
  ASSUME NEW t \in Nat, t < 16777216
  PROVE  (Digits(t)[1] * 262144 + Digits(t)[2] * 4096 + 0 * 64 + 0) \div 65536 = t \div 65536
<1> DEFINE sum == Digits(t)[1] * 262144 + Digits(t)[2] * 4096
           low == Digits(t)[3] * 64 + Digits(t)[4]
<1>0. \A k \in 1 .. 4 : Digits(t)[k] \in Sextet
  BY SMT, FourDigits
<1>1. \A k \in 1 .. 4 : Digits(t)[k] \in Nat /\ Digits(t)[k] < 64
  BY SMT, <1>0 DEF Sextet
<1>2. sum + low = t
  BY SMT, <1>1, FourDigits
<1>3. sum = (Digits(t)[1] * 64 + Digits(t)[2]) * 4096 /\ low \in Nat /\ low < 4096
  BY SMT, <1>1
<1> DEFINE x == Digits(t)[1] * 64 + Digits(t)[2]
<1>4. x \in Nat /\ sum = x * 4096 /\ sum = Digits(t)[1] * 262144 + Digits(t)[2] * 4096 + 0 * 64 + 0
  BY SMT, <1>1, <1>3
<1> HIDE DEF sum, low, x
<1>5. (x * 4096 + low) \div 65536 = (x * 4096) \div 65536
  BY SMT, <1>3, <1>4
<1> QED
  BY SMT, <1>2, <1>4, <1>5

-----------------------------------------------------------------------------
\* What the plugin encodes of a recording is what was recorded: the reference
\* decoder gives back every byte of every group, and nothing else, also of the
\* last group, whatever the length.
THEOREM EncodeKeepsAudio ==
  \A data \in Data : \A g \in Groups(Len(data)) :
    UtilsDecodeGroup(Group(Encode(data), g)) = BytesOf(data, g)
<1> SUFFICES ASSUME NEW data \in Data, NEW g \in Groups(Len(data))
             PROVE  UtilsDecodeGroup(Group(Encode(data), g)) = BytesOf(data, g)
  OBVIOUS
<1> DEFINE t == Triple(data, g)
           a == Octet(data, 3 * g + 1)
           b == Octet(data, 3 * g + 2)
           c == Octet(data, 3 * g + 3)
           D(k) == Digits(t)[k]
<1>1. /\ g \in Nat /\ Len(data) \in Nat /\ 3 * g + 1 <= Len(data)
      /\ a \in Byte /\ b \in Byte /\ c \in Byte /\ t \in Nat /\ t < 16777216
  BY SMT, GroupOfData
<1>2. t = a * 65536 + b * 256 + c
  BY SMT DEF Triple
<1>3. t \div 65536 = a /\ (t \div 256) % 256 = b /\ t % 256 = c
  BY SMT, <1>1, <1>2, ThreeBytes
<1>4. D(1) \in Sextet /\ D(2) \in Sextet /\ D(3) \in Sextet /\ D(4) \in Sextet
  BY SMT, <1>1, FourDigits
<1>5. D(1) * 262144 + D(2) * 4096 + D(3) * 64 + D(4) = t
  BY SMT, <1>1, FourDigits
<1>6. /\ a = data[3 * g + 1]
      /\ b = IF 3 * g + 1 = Len(data) THEN 0 ELSE data[3 * g + 2]
      /\ c = IF 3 * g + 1 = Len(data) \/ 3 * g + 2 = Len(data) THEN 0 ELSE data[3 * g + 3]
  BY SMT, <1>1 DEF Octet
<1>7. CASE 3 * g + 1 = Len(data)
  <2>1. Group(Encode(data), g) = <<D(1), D(2), Pad, Pad>>
    BY SMT, <1>1, <1>7, EncodedLetter DEF Group
  <2>2. UtilsDecodeGroup(<<D(1), D(2), Pad, Pad>>)
          = <<(D(1) * 262144 + D(2) * 4096 + 0 * 64 + 0) \div 65536>>
    BY SMT, <1>4, DecodeTwo
  <2>3. (D(1) * 262144 + D(2) * 4096 + 0 * 64 + 0) \div 65536 = data[3 * g + 1]
    BY SMTT(30), <1>1, <1>3, <1>6, FirstTwoLetters
  <2> QED
    BY SMT, <1>1, <1>7, <2>1, <2>2, <2>3 DEF BytesOf
<1>8. CASE 3 * g + 2 = Len(data)
  <2>1. Group(Encode(data), g) = <<D(1), D(2), D(3), Pad>>
    BY SMT, <1>1, <1>8, EncodedLetter DEF Group
  <2>2. D(4) = 0
    BY SMT, <1>1, <1>2, <1>6, <1>8, ZeroLetters
  <2>3. D(1) * 262144 + D(2) * 4096 + D(3) * 64 + 0 = t
    BY SMT, <1>5, <2>2
  <2>4. UtilsDecodeGroup(<<D(1), D(2), D(3), Pad>>) = <<t \div 65536, (t \div 256) % 256>>
    BY SMT, <1>4, <2>3, DecodeThree
  <2>5. a = data[3 * g + 1] /\ b = data[3 * g + 2]
    BY SMT, <1>1, <1>6, <1>8
  <2> QED
    BY SMTT(30), <1>1, <1>3, <1>8, <2>1, <2>4, <2>5 DEF BytesOf
<1>9. CASE 3 * g + 1 # Len(data) /\ 3 * g + 2 # Len(data)
  <2>1. Group(Encode(data), g) = <<D(1), D(2), D(3), D(4)>>
    BY SMT, <1>1, <1>9, EncodedLetter DEF Group
  <2>2. UtilsDecodeGroup(<<D(1), D(2), D(3), D(4)>>)
          = <<t \div 65536, (t \div 256) % 256, t % 256>>
    BY SMT, <1>4, <1>5, DecodeFour
  <2>3. a = data[3 * g + 1] /\ b = data[3 * g + 2] /\ c = data[3 * g + 3]
    BY SMT, <1>6, <1>9
  <2> QED
    BY SMT, <1>3, <1>9, <2>1, <2>2, <2>3 DEF BytesOf
<1> QED
  BY <1>7, <1>8, <1>9

\* What the plugin makes of the audio of a response has the right length, for
\* data of every length, and, as its comment at line 586 admits, nothing of the
\* content: every response is played as silence.
THEOREM DecodeIsSilence ==
  \A data \in Data : Decode(Encode(data)) = [i \in 1 .. Len(data) |-> 0]
<1> SUFFICES ASSUME NEW data \in Data
             PROVE  DecodedLength(Encode(data)) = Len(data)
  BY DEF Decode
<1> DEFINE n == Len(data)
           m == (n + 2) \div 3
           g == m - 1
<1>1. n \in Nat /\ n > 0
  BY SMT DEF Data
<1>2. m \in Nat /\ m > 0 /\ 3 * m <= n + 2 /\ n <= 3 * m
  BY SMT, <1>1
<1>3. g \in Groups(n) /\ g \in Nat
  BY SMT, <1>2 DEF Groups
<1>4. Len(Encode(data)) = 4 * m
  BY SMT, <1>2 DEF Encode, OutputLength
<1>5. (4 * m) \div 4 = m
  BY SMT, <1>2
<1>6. 4 * g + 4 = 4 * m /\ 4 * g + 3 = 4 * m - 1
  BY SMT, <1>2
<1>7. \A k \in 1 .. 4 : Digits(Triple(data, g))[k] # Pad
  <2>1. Triple(data, g) \in Nat /\ Triple(data, g) < 16777216
    BY SMT, <1>3, GroupOfData
  <2>2. \A k \in 1 .. 4 : Digits(Triple(data, g))[k] \in Sextet
    BY SMT, <2>1, FourDigits
  <2>3. Pad \notin Sextet
    BY SMT DEF Sextet, Pad
  <2> QED
    BY Zenon, <2>2, <2>3
<1>8. /\ Encode(data)[4 * m] = Pad <=> (3 * g + 1 = n \/ 3 * g + 2 = n)
      /\ Encode(data)[4 * m - 1] = Pad <=> 3 * g + 1 = n
  <2>1. Encode(data)[4 * g + 4] = Pad <=> (3 * g + 1 = n \/ 3 * g + 2 = n)
    BY SMTT(30), <1>3, <1>7, EncodedLetter
  <2>2. Encode(data)[4 * g + 3] = Pad <=> 3 * g + 1 = n
    BY SMTT(30), <1>3, <1>7, EncodedLetter
  <2> QED
    BY SMTT(30), <1>6, <2>1, <2>2
<1>9. DecodedLength(Encode(data)) = m * 3 - (IF Encode(data)[4 * m] = Pad THEN 1 ELSE 0)
                                          - (IF Encode(data)[4 * m - 1] = Pad THEN 1 ELSE 0)
  BY SMT, <1>4, <1>5 DEF DecodedLength
<1> HIDE DEF m, n
<1>10. \/ n = 3 * m /\ 3 * g + 1 # n /\ 3 * g + 2 # n
       \/ n = 3 * m - 1 /\ 3 * g + 1 # n /\ 3 * g + 2 = n
       \/ n = 3 * m - 2 /\ 3 * g + 1 = n
  BY SMT, <1>1, <1>2
<1>11. DecodedLength(Encode(data)) = n
  BY SMT, <1>1, <1>2, <1>8, <1>9, <1>10
<1> QED
  BY SMT, <1>11 DEF n

\* base64_encode of utils/base64.c keeps one byte of three: the test for the
\* padding compares with the length what never exceeds it.
THEOREM UtilsEncodeKeepsFirst ==
  \A data \in Data : \A g \in Groups(Len(data)) :
    UtilsDecodeGroup(Group(UtilsEncode(data), g)) = <<data[3 * g + 1]>>
<1> SUFFICES ASSUME NEW data \in Data, NEW g \in Groups(Len(data))
             PROVE  UtilsDecodeGroup(Group(UtilsEncode(data), g)) = <<data[3 * g + 1]>>
  OBVIOUS
<1> DEFINE t == Triple(data, g)
           D(k) == Digits(t)[k]
<1>1. /\ g \in Nat /\ Len(data) \in Nat /\ 3 * g + 1 <= Len(data)
      /\ \A k \in 1 .. 3 : Octet(data, 3 * g + k) \in Byte
      /\ t \in Nat /\ t < 16777216
  BY SMT, GroupOfData
<1>2. t \div 65536 = Octet(data, 3 * g + 1)
  BY SMT, <1>1, ThreeBytes DEF Triple
<1>3. Octet(data, 3 * g + 1) = data[3 * g + 1]
  BY SMT, <1>1 DEF Octet
<1>4. D(1) \in Sextet /\ D(2) \in Sextet /\ D(3) \in Sextet /\ D(4) \in Sextet
  BY SMT, <1>1, FourDigits
<1>5. Group(UtilsEncode(data), g) = <<D(1), D(2), Pad, Pad>>
  BY SMT, <1>1, UtilsEncodedLetter DEF Group
<1>6. UtilsDecodeGroup(<<D(1), D(2), Pad, Pad>>)
        = <<(D(1) * 262144 + D(2) * 4096 + 0 * 64 + 0) \div 65536>>
  BY SMT, <1>4, DecodeTwo
<1>7. (D(1) * 262144 + D(2) * 4096 + 0 * 64 + 0) \div 65536 = t \div 65536
  BY SMT, <1>1, FirstTwoLetters
<1> QED
  BY SMT, <1>2, <1>3, <1>5, <1>6, <1>7
=============================================================================
