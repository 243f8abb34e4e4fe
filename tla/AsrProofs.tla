----------------------------- MODULE AsrProofs -----------------------------
(***************************************************************************)
(* Theorems about src/asr/ai_asr.c as module Asr models it, for every set  *)
(* of texts, with and without a user loop, and whatever the bounds.        *)
(***************************************************************************)
EXTENDS Asr, TLAPS

\* An open recorder will need one close more.
Open == IF handle THEN 1 ELSE 0

\* TypeOK is not inductive: that no recorder is closed twice needs the open
\* one to be counted with those that are closing.
Counts == starts \in Nat /\ closing \in Nat /\ closing + Open <= starts

Types ==
  /\ user_loop \in BOOLEAN
  /\ state \in State
  /\ cb \in BOOLEAN /\ is_send_finished \in BOOLEAN /\ is_closed \in BOOLEAN
  /\ handle \in BOOLEAN /\ focus_handle \in BOOLEAN /\ engine \in BOOLEAN
  /\ last_result \in Texts \cup {NoText} /\ last_result_time \in BOOLEAN
  /\ told \subseteq Texts
  /\ pc \in {"loop", "close_cb"}
  /\ asyncq \in Seq(Command) /\ user_asyncq \in Seq(Event)
  /\ life \in {"alive", "uv_close", "freed"}
  /\ closeCalled \in BOOLEAN
  /\ event \in Event \cup {"none"} /\ closes \in 0 .. 2
  /\ overlapped \in BOOLEAN /\ recorded \in BOOLEAN

TypeInv == Types /\ Counts

LEMMA TypeInvImpliesTypeOK == TypeInv => TypeOK
<1> SUFFICES ASSUME TypeInv PROVE TypeOK
  OBVIOUS
<1>1. closing \in 0 .. starts /\ starts \in Nat
  BY DEF TypeInv, Counts, Open
<1> QED
  BY <1>1 DEF TypeInv, Types, TypeOK

\* The user's last call is ai_asr_close: nothing waits behind it, and once its
\* handler has run nothing waits at all.
CloseIsLast ==
  /\ \A i \in 1 .. Len(asyncq) :
       asyncq[i] = "close" => closeCalled /\ i = Len(asyncq)
  /\ state = "CLOSE" => closeCalled /\ asyncq = <<>>

\* How ai_asr_close_l and media_recorder_close_cb share is_closed.  Before the
\* close, a set flag means that no recorder is open or closing; after it, that
\* the callback of the one recorder that is still closing sends the closed
\* event.
Handshake ==
  ~overlapped =>
    /\ closing + Open <= 1
    /\ is_closed /\ state # "CLOSE" => closing = 0 /\ ~handle
    /\ closes > 0 => closes = 1 /\ state = "CLOSE" /\ closing = 0

Inv ==
  /\ TypeInv
  /\ EndedReleasesAll
  /\ SilenceWithinSession
  /\ CloseIsLast
  /\ Handshake

-----------------------------------------------------------------------------
\* Taking a message leaves a queue of messages, and keeps the close last.
LEMMA TakeMessage ==
  ASSUME Types, CloseIsLast, NEW c \in Command, Handle(c)
  PROVE  /\ asyncq' \in Seq(Command)
         /\ \A i \in 1 .. Len(asyncq') :
              asyncq'[i] = "close" => closeCalled' /\ i = Len(asyncq')
         /\ state # "CLOSE"
         /\ c = "close" => closeCalled' /\ asyncq' = <<>>
<1>1. /\ asyncq \in Seq(Command) /\ asyncq # <<>>
      /\ asyncq' = Tail(asyncq) /\ closeCalled' = closeCalled
      /\ asyncq[1] = c
  BY DEF Handle, Types
<1>2. /\ asyncq' \in Seq(Command) /\ Len(asyncq') = Len(asyncq) - 1
      /\ \A i \in 1 .. Len(asyncq') : asyncq'[i] = asyncq[i + 1]
  BY <1>1
<1>3. Len(asyncq) \in Nat /\ Len(asyncq) >= 1
  BY <1>1
<1>4. ASSUME NEW i \in 1 .. Len(asyncq'), asyncq'[i] = "close"
      PROVE  closeCalled' /\ i = Len(asyncq')
  <2>1. i + 1 \in 1 .. Len(asyncq) /\ asyncq[i + 1] = "close"
    BY <1>2, <1>3, <1>4
  <2>2. closeCalled /\ i + 1 = Len(asyncq)
    BY <2>1 DEF CloseIsLast
  <2> QED
    BY <2>2, <1>1, <1>2, <1>3
<1>5. state # "CLOSE"
  BY <1>1 DEF CloseIsLast
<1>6. ASSUME c = "close" PROVE closeCalled' /\ asyncq' = <<>>
  <2>1. 1 \in 1 .. Len(asyncq) /\ asyncq[1] = "close"
    BY <1>1, <1>3, <1>6
  <2>2. closeCalled /\ Len(asyncq) = 1
    BY <2>1 DEF CloseIsLast
  <2> QED
    BY <2>2, <1>1, <1>2, <1>3
<1> QED
  BY <1>2, <1>4, <1>5, <1>6

\* The handlers that leave the state and the message queue alone keep the
\* close last.
LEMMA SameQueueCloseIsLast ==
  ASSUME CloseIsLast, UNCHANGED <<asyncq, closeCalled, state>>
  PROVE  CloseIsLast'
BY DEF CloseIsLast

-----------------------------------------------------------------------------
\* What the helpers do to the queue of events.

LEMMA SendType ==
  ASSUME Types, NEW es \in Seq(Event), es # <<>>, Send(es)
  PROVE  /\ user_asyncq' \in Seq(Event)
         /\ event' \in Event
         /\ life' = life /\ closes' = closes
BY DEF Send, Types

LEMMA EndSessionType ==
  ASSUME Types, NEW first \in Seq(Event), NEW e \in Event, EndSession(first, e)
  PROVE  /\ user_asyncq' \in Seq(Event)
         /\ event' = e
         /\ life' = life /\ closes' = closes
         /\ is_send_finished' = TRUE
<1>1. /\ Append(first, e) \in Seq(Event) /\ Append(first, e) # <<>>
      /\ Append(first, e)[Len(Append(first, e))] = e
  OBVIOUS
<1> HIDE DEF Event
<1> QED
  BY <1>1, SendType DEF EndSession, Send

CloseHandlerGives ==
  /\ user_asyncq' \in Seq(Event)
  /\ event' \in Event
  /\ life' \in {"alive", "uv_close", "freed"}
  /\ closes' \in 0 .. 2
  /\ closes = 0 => closes' = 1

LEMMA CloseHandlerType ==
  ASSUME Types, CloseHandler
  PROVE  CloseHandlerGives
<1>1. "closed" \in Event
  BY DEF Event
<1>2. user_asyncq' \in Seq(Event)
  BY <1>1 DEF CloseHandler, Types
<1> QED
  BY <1>1, <1>2 DEF CloseHandler, CloseHandlerGives, Types

\* Giving everything back: every recorder is still counted.
FinishHandlerGives ==
  /\ handle' = FALSE /\ focus_handle' = FALSE /\ engine' = FALSE
  /\ closing' \in Nat
  /\ closing' + Open' = closing + Open
  /\ closing' > 0 => closing > 0 \/ handle

LEMMA FinishHandlerFrees ==
  ASSUME TypeInv, FinishHandler
  PROVE  FinishHandlerGives
<1> USE DEF TypeInv, Counts, FinishHandler, FinishHandlerGives, Open
<1>1. CASE handle
  <2>1. closing' = closing + 1 /\ Open = 1 /\ Open' = 0
    BY <1>1
  <2> QED
    BY <2>1, <1>1
<1>2. CASE ~handle
  BY <1>2
<1> QED
  BY <1>1, <1>2

\* Finishing a session hands its recorder over to the close callback.
LEMMA HandshakeAfterFinish ==
  ASSUME TypeInv, EndedReleasesAll, Handshake, FinishHandlerGives,
         state' = state \/ (state # "CLOSE" /\ state' # "CLOSE"),
         UNCHANGED <<overlapped, is_closed, closes>>
  PROVE  Handshake'
<1> SUFFICES ASSUME ~overlapped PROVE Handshake'
  BY DEF Handshake
<1>1. /\ closing \in Nat /\ closing' \in Nat
      /\ Open' = 0
      /\ closing' = closing + Open
      /\ closing + Open <= 1
  <2>1. closing \in Nat /\ closing' \in Nat /\ closing' + Open' = closing + Open
    BY DEF TypeInv, Counts, FinishHandlerGives
  <2>2. Open' = 0
    BY DEF FinishHandlerGives, Open
  <2>3. closing + Open <= 1
    BY DEF Handshake
  <2> QED
    BY <2>1, <2>2, <2>3
<1>2. ASSUME is_closed', state' # "CLOSE" PROVE closing' = 0 /\ ~handle'
  <2>1. is_closed /\ state # "CLOSE"
    BY <1>2
  <2>2. closing = 0 /\ ~handle
    BY <2>1 DEF Handshake
  <2>3. Open = 0
    BY <2>2 DEF Open
  <2>4. closing' = 0
    BY <2>2, <2>3, <1>1
  <2>5. ~handle'
    BY DEF FinishHandlerGives
  <2> QED
    BY <2>4, <2>5
<1>3. ASSUME closes' > 0 PROVE closes' = 1 /\ state' = "CLOSE" /\ closing' = 0
  BY <1>1, <1>3 DEF Handshake, FinishHandlerGives, EndedReleasesAll
<1> QED
  BY <1>1, <1>2, <1>3 DEF Handshake

-----------------------------------------------------------------------------
\* The invariant is inductive: one lemma per action, one step per conjunct.

LEMMA CallKeeps ==
  ASSUME Inv, NEW c \in Command, Call(c)
  PROVE  Inv'
<1>1. /\ asyncq \in Seq(Command)
      /\ asyncq' = Append(asyncq, c) /\ ~closeCalled
      /\ closeCalled' = (c = "close")
  BY DEF Call, Inv, TypeInv, Types
<1>2. asyncq' \in Seq(Command)
  BY <1>1
<1>3. Types'
  BY <1>1, <1>2 DEF Call, Inv, TypeInv, Types, media, silence, session
<1>4. Counts' /\ EndedReleasesAll' /\ SilenceWithinSession' /\ Handshake'
  BY DEF Call, Inv, TypeInv, Counts, EndedReleasesAll,
     SilenceWithinSession, Handshake, Open, media, silence, session
<1>5. CloseIsLast'
  <2>1. ASSUME NEW i \in 1 .. Len(asyncq'), asyncq'[i] = "close"
        PROVE  closeCalled' /\ i = Len(asyncq')
    <3>1. Len(asyncq') = Len(asyncq) + 1 /\ Len(asyncq) \in Nat
      BY <1>1
    <3>2. ASSUME i \in 1 .. Len(asyncq) PROVE FALSE
      <4>1. asyncq[i] = "close"
        BY <1>1, <2>1, <3>2
      <4> QED
        BY <4>1, <3>2, <1>1 DEF Inv, CloseIsLast
    <3>3. i = Len(asyncq) + 1
      BY <3>1, <3>2
    <3>4. asyncq'[i] = c
      BY <1>1, <3>3
    <3> QED
      BY <1>1, <2>1, <3>1, <3>3, <3>4
  <2>2. state' # "CLOSE"
    BY <1>1 DEF Call, Inv, CloseIsLast
  <2> QED
    BY <2>1, <2>2 DEF CloseIsLast
<1> QED
  BY <1>3, <1>4, <1>5 DEF Inv, TypeInv

LEMMA SetListenerKeeps ==
  ASSUME Inv, SetListenerL
  PROVE  Inv'
<1>1. PICK c \in {"listen", "unlisten"} : Handle(c)
  BY DEF SetListenerL
<1>2. /\ asyncq' \in Seq(Command)
      /\ \A i \in 1 .. Len(asyncq') :
           asyncq'[i] = "close" => closeCalled' /\ i = Len(asyncq')
      /\ state # "CLOSE"
  <2>1. c \in Command
    BY DEF Command
  <2> QED
    BY <1>1, <2>1, TakeMessage DEF Inv, TypeInv
<1>3. cb' \in BOOLEAN
  BY DEF SetListenerL
<1>11. Types'
  BY <1>1, <1>2, <1>3
     DEF SetListenerL, Handle, SendNothing, media, silence, session, Inv, TypeInv, Types
<1>12. Counts'
  BY <1>1, <1>2
     DEF SetListenerL, Handle, SendNothing, media, silence, session, Inv, TypeInv, Counts, Open
<1>13. EndedReleasesAll'
  BY <1>1, <1>2
     DEF SetListenerL, Handle, SendNothing, media, silence, session, Inv, EndedReleasesAll
<1>14. SilenceWithinSession'
  BY <1>1, <1>2
     DEF SetListenerL, Handle, SendNothing, media, silence, session, Inv, SilenceWithinSession
<1>15. CloseIsLast'
  BY <1>1, <1>2
     DEF SetListenerL, Handle, SendNothing, media, silence, session, Inv, CloseIsLast
<1>16. Handshake'
  BY <1>1, <1>2
     DEF SetListenerL, Handle, SendNothing, media, silence, session, Inv, TypeInv, Types, Counts, EndedReleasesAll, Handshake, Open
<1> QED
  BY <1>11, <1>12, <1>13, <1>14, <1>15, <1>16 DEF Inv, TypeInv

LEMMA StartKeeps ==
  ASSUME Inv, StartL
  PROVE  Inv'
<1>1. Handle("start")
  BY DEF StartL, StartIgnored, StartPluginFails, StartRecorderDenied,
     StartRecorderFails, StartSucceeds, StartSession
<1>2. /\ asyncq' \in Seq(Command)
      /\ \A i \in 1 .. Len(asyncq') :
           asyncq'[i] = "close" => closeCalled' /\ i = Len(asyncq')
      /\ state # "CLOSE"
  <2>1. "start" \in Command
    BY DEF Command
  <2> QED
    BY <1>1, <2>1, TakeMessage DEF Inv, TypeInv
<1>3. CASE StartIgnored
  <2>11. Types'
    BY <1>2, <1>3
       DEF StartIgnored, Handle, SendNothing, media, silence, session, Inv, TypeInv, Types
  <2>12. Counts'
    BY <1>2, <1>3
       DEF StartIgnored, Handle, SendNothing, media, silence, session, Inv, TypeInv, Counts, Open
  <2>13. EndedReleasesAll'
    BY <1>2, <1>3
       DEF StartIgnored, Handle, SendNothing, media, silence, session, Inv, EndedReleasesAll
  <2>14. SilenceWithinSession'
    BY <1>2, <1>3
       DEF StartIgnored, Handle, SendNothing, media, silence, session, Inv, SilenceWithinSession
  <2>15. CloseIsLast'
    BY <1>2, <1>3
       DEF StartIgnored, Handle, SendNothing, media, silence, session, Inv, CloseIsLast
  <2>16. Handshake'
    BY <1>2, <1>3
       DEF StartIgnored, Handle, SendNothing, media, silence, session, Inv, TypeInv, Types, Counts, EndedReleasesAll, Handshake, Open
  <2> QED
    BY <2>11, <2>12, <2>13, <2>14, <2>15, <2>16 DEF Inv, TypeInv
<1>4. ASSUME StartSession
      PROVE  /\ state' = "START" /\ ~is_send_finished' /\ ~is_closed'
             /\ starts' = starts + 1 /\ overlapped' = (overlapped \/ closing > 0)
             /\ ~handle /\ ~focus_handle /\ ~engine
             /\ closes > 0 => overlapped
  BY <1>2, <1>4 DEF StartSession, Inv, EndedReleasesAll, Handshake
<1>5. CASE StartPluginFails
  <2>1. StartSession
    BY <1>5 DEF StartPluginFails
  <2>11. Types'
    BY ZenonT(60), <1>2, <1>4, <1>5, <2>1
       DEF StartPluginFails, StartSession, Handle, SendNothing, media, Inv, TypeInv, Types, State
  <2>12. Counts'
    BY <1>2, <1>4, <1>5, <2>1
       DEF StartPluginFails, StartSession, Handle, SendNothing, media, Inv, TypeInv, Counts, Open
  <2>13. EndedReleasesAll'
    BY <1>2, <1>4, <1>5, <2>1
       DEF StartPluginFails, StartSession, Handle, SendNothing, media, Inv, EndedReleasesAll
  <2>14. SilenceWithinSession'
    BY <1>2, <1>4, <1>5, <2>1
       DEF StartPluginFails, StartSession, Handle, SendNothing, media, Inv, SilenceWithinSession
  <2>15. CloseIsLast'
    BY <1>2, <1>4, <1>5, <2>1
       DEF StartPluginFails, StartSession, Handle, SendNothing, media, Inv, CloseIsLast
  <2>16. Handshake'
    BY <1>2, <1>4, <1>5, <2>1
       DEF StartPluginFails, StartSession, Handle, SendNothing, media, Inv, TypeInv, Types, Counts, EndedReleasesAll, Handshake, Open
  <2> QED
    BY <2>11, <2>12, <2>13, <2>14, <2>15, <2>16 DEF Inv, TypeInv
<1>6. CASE StartRecorderDenied
  <2>1. StartSession
    BY <1>6 DEF StartRecorderDenied
  <2>11. Types'
    BY ZenonT(60), <1>2, <1>4, <1>6, <2>1
       DEF StartRecorderDenied, StartSession, Handle, SendNothing, Inv, TypeInv, Types, State
  <2>12. Counts'
    BY <1>2, <1>4, <1>6, <2>1
       DEF StartRecorderDenied, StartSession, Handle, SendNothing, Inv, TypeInv, Counts, Open
  <2>13. EndedReleasesAll'
    BY <1>2, <1>4, <1>6, <2>1
       DEF StartRecorderDenied, StartSession, Handle, SendNothing, Inv, EndedReleasesAll
  <2>14. SilenceWithinSession'
    BY <1>2, <1>4, <1>6, <2>1
       DEF StartRecorderDenied, StartSession, Handle, SendNothing, Inv, SilenceWithinSession
  <2>15. CloseIsLast'
    BY <1>2, <1>4, <1>6, <2>1
       DEF StartRecorderDenied, StartSession, Handle, SendNothing, Inv, CloseIsLast
  <2>16. Handshake'
    BY <1>2, <1>4, <1>6, <2>1
       DEF StartRecorderDenied, StartSession, Handle, SendNothing, Inv, TypeInv, Types, Counts, EndedReleasesAll, Handshake, Open
  <2> QED
    BY <2>11, <2>12, <2>13, <2>14, <2>15, <2>16 DEF Inv, TypeInv
<1>7. CASE StartRecorderFails
  <2>1. StartSession
    BY <1>7 DEF StartRecorderFails
  <2>11. Types'
    BY ZenonT(60), <1>2, <1>4, <1>7, <2>1
       DEF StartRecorderFails, StartSession, Handle, SendNothing, Inv, TypeInv, Types, State
  <2>12. Counts'
    BY <1>2, <1>4, <1>7, <2>1
       DEF StartRecorderFails, StartSession, Handle, SendNothing, Inv, TypeInv, Counts, Open
  <2>13. EndedReleasesAll'
    BY <1>2, <1>4, <1>7, <2>1
       DEF StartRecorderFails, StartSession, Handle, SendNothing, Inv, EndedReleasesAll
  <2>14. SilenceWithinSession'
    BY <1>2, <1>4, <1>7, <2>1
       DEF StartRecorderFails, StartSession, Handle, SendNothing, Inv, SilenceWithinSession
  <2>15. CloseIsLast'
    BY <1>2, <1>4, <1>7, <2>1
       DEF StartRecorderFails, StartSession, Handle, SendNothing, Inv, CloseIsLast
  <2>16. Handshake'
    <3>1. ASSUME ~overlapped' PROVE closing' = 1 /\ Open' = 0
      <4>1. ~(closing > 0)
        BY <1>4, <2>1, <3>1
      <4>2. closing \in Nat
        BY DEF Inv, TypeInv, Counts
      <4>3. closing = 0
        BY <4>1, <4>2
      <4>4. closing' = closing + 1
        BY <1>7 DEF StartRecorderFails
      <4>5. ~handle'
        BY <1>4, <2>1, <1>7 DEF StartRecorderFails
      <4>6. Open' = 0
        BY <4>5 DEF Open
      <4> QED
        BY <4>3, <4>4, <4>6
    <3>2. ~is_closed' /\ overlapped => overlapped'
      BY <1>4, <2>1
    <3> QED
      BY <3>1, <3>2, <1>4, <1>7, <2>1 DEF StartRecorderFails, SendNothing, Handshake
  <2> QED
    BY <2>11, <2>12, <2>13, <2>14, <2>15, <2>16 DEF Inv, TypeInv
<1>8. CASE StartSucceeds
  <2>1. StartSession
    BY <1>8 DEF StartSucceeds
  <2>2. /\ user_asyncq' \in Seq(Event) /\ event' \in Event \cup {"none"}
        /\ life' = life /\ closes' = closes
    <3>1. <<"start">> \in Seq(Event) /\ <<"start">> # <<>>
      BY DEF Event
    <3> QED
      BY <1>8, <3>1, SendType DEF StartSucceeds, SendNothing, Inv, TypeInv, Types
  <2>11. Types'
    BY ZenonT(60), <1>2, <1>4, <1>8, <2>1, <2>2
       DEF StartSucceeds, StartSession, Handle, Inv, TypeInv, Types, State
  <2>12. Counts'
    BY <1>2, <1>4, <1>8, <2>1, <2>2
       DEF StartSucceeds, StartSession, Handle, Inv, TypeInv, Counts, Open
  <2>13. EndedReleasesAll'
    BY <1>2, <1>4, <1>8, <2>1, <2>2
       DEF StartSucceeds, StartSession, Handle, Inv, EndedReleasesAll
  <2>14. SilenceWithinSession'
    BY <1>2, <1>4, <1>8, <2>1, <2>2
       DEF StartSucceeds, StartSession, Handle, Inv, SilenceWithinSession
  <2>15. CloseIsLast'
    BY <1>2, <1>4, <1>8, <2>1, <2>2
       DEF StartSucceeds, StartSession, Handle, Inv, CloseIsLast
  <2>16. Handshake'
    <3>1. ASSUME ~overlapped' PROVE closing' = 0 /\ Open' = 1
      <4>1. ~(closing > 0)
        BY <1>4, <2>1, <3>1
      <4>2. closing \in Nat
        BY DEF Inv, TypeInv, Counts
      <4>3. closing = 0
        BY <4>1, <4>2
      <4>4. closing' = closing
        BY <1>8 DEF StartSucceeds
      <4>5. handle'
        BY <1>4, <2>1, <1>8 DEF StartSucceeds
      <4>6. Open' = 1
        BY <4>5 DEF Open
      <4> QED
        BY <4>3, <4>4, <4>6
    <3>2. ~is_closed' /\ overlapped => overlapped'
      BY <1>4, <2>1
    <3> QED
      BY <3>1, <3>2, <1>4, <2>1, <2>2 DEF Handshake
  <2> QED
    BY <2>11, <2>12, <2>13, <2>14, <2>15, <2>16 DEF Inv, TypeInv
<1> QED
  BY <1>3, <1>5, <1>6, <1>7, <1>8 DEF StartL

LEMMA FinishKeeps ==
  ASSUME Inv, FinishL
  PROVE  Inv'
<1>1. Handle("finish")
  BY DEF FinishL
<1>2. /\ asyncq' \in Seq(Command)
      /\ \A i \in 1 .. Len(asyncq') :
           asyncq'[i] = "close" => closeCalled' /\ i = Len(asyncq')
      /\ state # "CLOSE"
  <2>1. "finish" \in Command
    BY DEF Command
  <2> QED
    BY <1>1, <2>1, TakeMessage DEF Inv, TypeInv
<1>3. CASE state # "START"
  <2>11. Types'
    BY <1>2, <1>3
       DEF FinishL, Handle, SendNothing, media, silence, session, Inv, TypeInv, Types
  <2>12. Counts'
    BY <1>2, <1>3
       DEF FinishL, Handle, SendNothing, media, silence, session, Inv, TypeInv, Counts, Open
  <2>13. EndedReleasesAll'
    BY <1>2, <1>3
       DEF FinishL, Handle, SendNothing, media, silence, session, Inv, EndedReleasesAll
  <2>14. SilenceWithinSession'
    BY <1>2, <1>3
       DEF FinishL, Handle, SendNothing, media, silence, session, Inv, SilenceWithinSession
  <2>15. CloseIsLast'
    BY <1>2, <1>3
       DEF FinishL, Handle, SendNothing, media, silence, session, Inv, CloseIsLast
  <2>16. Handshake'
    BY <1>2, <1>3
       DEF FinishL, Handle, SendNothing, media, silence, session, Inv, TypeInv, Types, Counts, EndedReleasesAll, Handshake, Open
  <2> QED
    BY <2>11, <2>12, <2>13, <2>14, <2>15, <2>16 DEF Inv, TypeInv
<1>4. CASE state = "START"
  <2>1. /\ FinishHandler
        /\ user_asyncq' \in Seq(Event) /\ event' \in Event \cup {"none"}
        /\ life' = life /\ closes' = closes
        /\ is_send_finished' \in BOOLEAN
    <3>1. CASE EndSession(<<>>, "complete")
      <4>1. <<>> \in Seq(Event) /\ "complete" \in Event
        BY DEF Event
      <4> QED
        BY <3>1, <4>1, EndSessionType DEF EndSession, Inv, TypeInv
    <3>2. CASE FinishHandler /\ SendNothing /\ UNCHANGED is_send_finished
      BY <3>2 DEF SendNothing, Inv, TypeInv, Types
    <3> QED
      BY <1>4, <3>1, <3>2 DEF FinishL
  <2>2. state' = "FINISH"
    BY <1>4 DEF FinishL
  <2>3. FinishHandlerGives
    BY <2>1, FinishHandlerFrees DEF Inv, FinishHandlerGives
  <2>11. Types'
    BY ZenonT(60), <2>1, <2>2, <2>3, <1>2
       DEF FinishL, Handle, FinishHandlerGives, silence, session, Inv, TypeInv, Types, State
  <2>12. Counts'
    BY <2>1, <2>2, <2>3, <1>2
       DEF FinishL, Handle, FinishHandlerGives, silence, session, Inv, TypeInv, Counts, Open
  <2>13. EndedReleasesAll'
    BY <2>1, <2>2, <2>3, <1>2
       DEF FinishL, Handle, FinishHandlerGives, silence, session, Inv, EndedReleasesAll
  <2>14. SilenceWithinSession'
    BY <2>1, <2>2, <2>3, <1>2
       DEF FinishL, Handle, FinishHandlerGives, silence, session, Inv, SilenceWithinSession
  <2>15. CloseIsLast'
    BY <2>1, <2>2, <2>3, <1>2
       DEF FinishL, Handle, FinishHandlerGives, silence, session, Inv, CloseIsLast
  <2>16. Handshake'
    BY <2>1, <2>2, <2>3, <1>2, HandshakeAfterFinish DEF FinishL, session, Inv, TypeInv
  <2> QED
    BY <2>11, <2>12, <2>13, <2>14, <2>15, <2>16 DEF Inv, TypeInv
<1> QED
  BY <1>3, <1>4

LEMMA CancelKeeps ==
  ASSUME Inv, CancelL
  PROVE  Inv'
<1>1. Handle("cancel")
  BY DEF CancelL
<1>2. /\ asyncq' \in Seq(Command)
      /\ \A i \in 1 .. Len(asyncq') :
           asyncq'[i] = "close" => closeCalled' /\ i = Len(asyncq')
      /\ state # "CLOSE"
  <2>1. "cancel" \in Command
    BY DEF Command
  <2> QED
    BY <1>1, <2>1, TakeMessage DEF Inv, TypeInv
<1>3. CASE state # "START"
  <2>11. Types'
    BY <1>2, <1>3
       DEF CancelL, Handle, SendNothing, media, silence, session, Inv, TypeInv, Types
  <2>12. Counts'
    BY <1>2, <1>3
       DEF CancelL, Handle, SendNothing, media, silence, session, Inv, TypeInv, Counts, Open
  <2>13. EndedReleasesAll'
    BY <1>2, <1>3
       DEF CancelL, Handle, SendNothing, media, silence, session, Inv, EndedReleasesAll
  <2>14. SilenceWithinSession'
    BY <1>2, <1>3
       DEF CancelL, Handle, SendNothing, media, silence, session, Inv, SilenceWithinSession
  <2>15. CloseIsLast'
    BY <1>2, <1>3
       DEF CancelL, Handle, SendNothing, media, silence, session, Inv, CloseIsLast
  <2>16. Handshake'
    BY <1>2, <1>3
       DEF CancelL, Handle, SendNothing, media, silence, session, Inv, TypeInv, Types, Counts, EndedReleasesAll, Handshake, Open
  <2> QED
    BY <2>11, <2>12, <2>13, <2>14, <2>15, <2>16 DEF Inv, TypeInv
<1>4. CASE state = "START"
  <2>1. FinishHandlerGives
    BY <1>4, FinishHandlerFrees DEF CancelL, Inv, FinishHandlerGives
  <2>11. Types'
    BY ZenonT(60), <2>1, <1>2, <1>4
       DEF CancelL, Handle, SendNothing, FinishHandlerGives, silence, session, Inv, TypeInv, Types, State
  <2>12. Counts'
    BY <2>1, <1>2, <1>4
       DEF CancelL, Handle, SendNothing, FinishHandlerGives, silence, session, Inv, TypeInv, Counts, Open
  <2>13. EndedReleasesAll'
    BY <2>1, <1>2, <1>4
       DEF CancelL, Handle, SendNothing, FinishHandlerGives, silence, session, Inv, EndedReleasesAll
  <2>14. SilenceWithinSession'
    BY <2>1, <1>2, <1>4
       DEF CancelL, Handle, SendNothing, FinishHandlerGives, silence, session, Inv, SilenceWithinSession
  <2>15. CloseIsLast'
    BY <2>1, <1>2, <1>4
       DEF CancelL, Handle, SendNothing, FinishHandlerGives, silence, session, Inv, CloseIsLast
  <2>16. Handshake'
    BY <2>1, <1>2, <1>4, HandshakeAfterFinish DEF CancelL, SendNothing, session, Inv, TypeInv
  <2> QED
    BY <2>11, <2>12, <2>13, <2>14, <2>15, <2>16 DEF Inv, TypeInv
<1> QED
  BY <1>3, <1>4

LEMMA CloseKeeps ==
  ASSUME Inv, CloseL
  PROVE  Inv'
<1>1. Handle("close")
  BY DEF CloseL
<1>2. /\ asyncq' \in Seq(Command) /\ asyncq' = <<>> /\ closeCalled'
      /\ state # "CLOSE"
  <2>1. "close" \in Command
    BY DEF Command
  <2> QED
    BY <1>1, <2>1, TakeMessage DEF Inv, TypeInv
<1>3. CASE state = "START"
  <2>11. Types'
    BY <1>2, <1>3
       DEF CloseL, Handle, SendNothing, media, silence, session, Inv, TypeInv, Types
  <2>12. Counts'
    BY <1>2, <1>3
       DEF CloseL, Handle, SendNothing, media, silence, session, Inv, TypeInv, Counts, Open
  <2>13. EndedReleasesAll'
    BY <1>2, <1>3
       DEF CloseL, Handle, SendNothing, media, silence, session, Inv, EndedReleasesAll
  <2>14. SilenceWithinSession'
    BY <1>2, <1>3
       DEF CloseL, Handle, SendNothing, media, silence, session, Inv, SilenceWithinSession
  <2>15. CloseIsLast'
    BY <1>2, <1>3
       DEF CloseL, Handle, SendNothing, media, silence, session, Inv, CloseIsLast
  <2>16. Handshake'
    BY <1>2, <1>3
       DEF CloseL, Handle, SendNothing, media, silence, session, Inv, TypeInv, Types, Counts, EndedReleasesAll, Handshake, Open
  <2> QED
    BY <2>11, <2>12, <2>13, <2>14, <2>15, <2>16 DEF Inv, TypeInv
<1>4. CASE state # "START" /\ is_closed
  <2>1. CloseHandler
    BY <1>2, <1>4 DEF CloseL
  <2>2. CloseHandlerGives
    BY <2>1, CloseHandlerType DEF Inv, TypeInv, CloseHandlerGives
  <2>11. Types'
    BY ZenonT(60), <1>2, <1>4, <2>2
       DEF CloseL, Handle, CloseHandlerGives, media, silence, session, Inv, TypeInv, Types, State
  <2>12. Counts'
    BY <1>2, <1>4, <2>2
       DEF CloseL, Handle, CloseHandlerGives, media, silence, session, Inv, TypeInv, Counts, Open
  <2>13. EndedReleasesAll'
    BY <1>2, <1>4, <2>2
       DEF CloseL, Handle, CloseHandlerGives, media, silence, session, Inv, EndedReleasesAll
  <2>14. SilenceWithinSession'
    BY <1>2, <1>4, <2>2
       DEF CloseL, Handle, CloseHandlerGives, media, silence, session, Inv, SilenceWithinSession
  <2>15. CloseIsLast'
    BY <1>2, <1>4, <2>2
       DEF CloseL, Handle, CloseHandlerGives, media, silence, session, Inv, CloseIsLast
  <2>16. Handshake'
    <3>1. ~overlapped => closing = 0 /\ ~handle /\ closes = 0
      BY <1>2, <1>4 DEF Inv, TypeInv, Types, Handshake
    <3>2. closing' = closing /\ handle' = handle /\ state' = "CLOSE" /\ overlapped' = overlapped
      BY <1>2, <1>4 DEF CloseL, media, session
    <3> QED
      BY <3>1, <3>2, <2>2 DEF CloseHandlerGives, Handshake, Open
  <2> QED
    BY <2>11, <2>12, <2>13, <2>14, <2>15, <2>16 DEF Inv, TypeInv
<1>5. CASE state # "START" /\ ~is_closed
  <2>1. /\ state' = "CLOSE" /\ is_closed' = TRUE
        /\ SendNothing
    BY <1>2, <1>5 DEF CloseL
  <2>11. Types'
    BY <1>2, <2>1
       DEF CloseL, Handle, SendNothing, media, silence, session, Inv, TypeInv, Types, State
  <2>12. Counts'
    BY <1>2, <1>5
       DEF CloseL, Handle, SendNothing, media, silence, session, Inv, TypeInv, Counts, Open
  <2>13. EndedReleasesAll'
    BY <1>2, <1>5
       DEF CloseL, Handle, SendNothing, media, silence, session, Inv, EndedReleasesAll
  <2>14. SilenceWithinSession'
    BY <1>2, <1>5
       DEF CloseL, Handle, SendNothing, media, silence, session, Inv, SilenceWithinSession
  <2>15. CloseIsLast'
    BY <1>2, <1>5
       DEF CloseL, Handle, SendNothing, media, silence, session, Inv, CloseIsLast
  <2>16. Handshake'
    BY <1>2, <1>5
       DEF CloseL, Handle, SendNothing, media, silence, session, Inv, TypeInv, Types, Counts, EndedReleasesAll, Handshake, Open
  <2> QED
    BY <2>11, <2>12, <2>13, <2>14, <2>15, <2>16 DEF Inv, TypeInv
<1> QED
  BY <1>3, <1>4, <1>5

LEMMA RecorderClosedKeeps ==
  ASSUME Inv, RecorderClosed
  PROVE  Inv'
<1>1. CASE is_closed
  <2>1. CloseHandler
    BY <1>1 DEF RecorderClosed
  <2>2. CloseHandlerGives
    BY <2>1, CloseHandlerType DEF Inv, TypeInv, CloseHandlerGives
  <2>11. Types'
    BY ZenonT(60), <1>1, <2>2
       DEF RecorderClosed, CloseHandlerGives, silence, user, session, Inv, TypeInv, Types
  <2>12. Counts'
    BY <1>1, <2>2
       DEF RecorderClosed, CloseHandlerGives, silence, user, session, Inv, TypeInv, Counts, Open
  <2>13. EndedReleasesAll'
    BY <1>1, <2>2
       DEF RecorderClosed, CloseHandlerGives, silence, user, session, Inv, EndedReleasesAll
  <2>14. SilenceWithinSession'
    BY <1>1, <2>2
       DEF RecorderClosed, CloseHandlerGives, silence, user, session, Inv, SilenceWithinSession
  <2>15. CloseIsLast'
    BY <1>1, <2>2
       DEF RecorderClosed, CloseHandlerGives, silence, user, session, Inv, CloseIsLast
  <2>16. Handshake'
    BY <1>1, <2>2
       DEF RecorderClosed, CloseHandlerGives, silence, user, session, Inv, TypeInv, Types, Counts, EndedReleasesAll, Handshake, Open
  <2> QED
    BY <2>11, <2>12, <2>13, <2>14, <2>15, <2>16 DEF Inv, TypeInv
<1>2. CASE ~is_closed
  <2>11. Types'
    BY <1>2
       DEF RecorderClosed, SendNothing, silence, user, session, Inv, TypeInv, Types
  <2>12. Counts'
    BY <1>2
       DEF RecorderClosed, SendNothing, silence, user, session, Inv, TypeInv, Counts, Open
  <2>13. EndedReleasesAll'
    BY <1>2
       DEF RecorderClosed, SendNothing, silence, user, session, Inv, EndedReleasesAll
  <2>14. SilenceWithinSession'
    BY <1>2
       DEF RecorderClosed, SendNothing, silence, user, session, Inv, SilenceWithinSession
  <2>15. CloseIsLast'
    BY <1>2
       DEF RecorderClosed, SendNothing, silence, user, session, Inv, CloseIsLast
  <2>16. Handshake'
    BY <1>2
       DEF RecorderClosed, SendNothing, silence, user, session, Inv, TypeInv, Types, Counts, EndedReleasesAll, Handshake, Open
  <2> QED
    BY <2>11, <2>12, <2>13, <2>14, <2>15, <2>16 DEF Inv, TypeInv
<1> QED
  BY <1>1, <1>2

LEMMA RecorderClosedReturnsKeeps ==
  ASSUME Inv, RecorderClosedReturns
  PROVE  Inv'
<1>11. Types'
  BY DEF RecorderClosedReturns, media, silence, session, Inv, TypeInv, Types
<1>12. Counts'
  BY DEF RecorderClosedReturns, media, silence, session, Inv, TypeInv, Counts, Open
<1>13. EndedReleasesAll'
  BY DEF RecorderClosedReturns, media, silence, session, Inv, EndedReleasesAll
<1>14. SilenceWithinSession'
  BY DEF RecorderClosedReturns, media, silence, session, Inv, SilenceWithinSession
<1>15. CloseIsLast'
  BY DEF RecorderClosedReturns, media, silence, session, Inv, CloseIsLast
<1>16. Handshake'
  BY DEF RecorderClosedReturns, media, silence, session, Inv, TypeInv, Types, Counts, EndedReleasesAll, Handshake, Open
<1> QED
  BY <1>11, <1>12, <1>13, <1>14, <1>15, <1>16 DEF Inv, TypeInv

\* Every other way a session ends leaves the rest of the context alone.
LEMMA EndKeeps ==
  ASSUME Inv,
         FinishHandler,
         is_send_finished' = TRUE \/ is_send_finished' = is_send_finished,
         user_asyncq' \in Seq(Event), event' \in Event \cup {"none"},
         last_result' \in Texts \cup {NoText}, last_result_time' \in BOOLEAN,
         told' \subseteq Texts, SilenceWithinSession',
         UNCHANGED <<state, cb, is_closed, pc, asyncq, life, closeCalled, closes, session>>
  PROVE  Inv'
<1>1. FinishHandlerGives
  BY FinishHandlerFrees DEF Inv, FinishHandlerGives
<1>11. Types'
  BY ZenonT(60), <1>1
     DEF FinishHandlerGives, session, Inv, TypeInv, Types
<1>12. Counts'
  BY <1>1
     DEF FinishHandlerGives, session, Inv, TypeInv, Counts, Open
<1>13. EndedReleasesAll'
  BY <1>1
     DEF FinishHandlerGives, session, Inv, EndedReleasesAll
<1>14. SilenceWithinSession'
  BY <1>1
     DEF FinishHandlerGives, session, Inv, SilenceWithinSession
<1>15. CloseIsLast'
  BY <1>1
     DEF FinishHandlerGives, session, Inv, CloseIsLast
<1>16. Handshake'
  BY <1>1, HandshakeAfterFinish DEF session, Inv, TypeInv
<1> QED
  BY <1>11, <1>12, <1>13, <1>14, <1>15, <1>16 DEF Inv, TypeInv

LEMMA MediaKeeps ==
  ASSUME Inv, RecorderError \/ FocusLost
  PROVE  Inv'
<1>1. CASE \E e \in {"complete", "error"} : EndSession(<<>>, e)
  <2>1. PICK e \in {"complete", "error"} : EndSession(<<>>, e)
    BY <1>1
  <2>2. <<>> \in Seq(Event) /\ e \in Event
    BY DEF Event
  <2>3. /\ user_asyncq' \in Seq(Event) /\ event' \in Event \cup {"none"}
        /\ life' = life /\ closes' = closes /\ is_send_finished' = TRUE
    BY <2>1, <2>2, EndSessionType DEF Inv, TypeInv
  <2> QED
    <3>1. /\ last_result' \in Texts \cup {NoText} /\ last_result_time' \in BOOLEAN
          /\ told' \subseteq Texts /\ SilenceWithinSession'
          /\ UNCHANGED <<state, cb, is_closed, pc, asyncq, closeCalled, session>>
      BY DEF RecorderError, FocusLost, silence, user, Inv, TypeInv, Types, SilenceWithinSession
    <3> QED
      BY <2>1, <2>3, <3>1, EndKeeps DEF EndSession
<1>2. CASE FinishHandler /\ SendNothing /\ UNCHANGED is_send_finished
  BY <1>2, EndKeeps DEF RecorderError, FocusLost, SendNothing, silence, user, session,
     Inv, TypeInv, Types, SilenceWithinSession
<1> QED
  BY <1>1, <1>2 DEF RecorderError, FocusLost

LEMMA PluginKeeps ==
  ASSUME Inv, Plugin
  PROVE  Inv'
<1>1. ASSUME NEW e \in {"complete", "error"}, EngineEnd(e) PROVE Inv'
  <2>1. <<>> \in Seq(Event) /\ e \in Event
    BY DEF Event
  <2>2. EndSession(<<>>, e)
    BY <1>1 DEF EngineEnd
  <2>3. /\ user_asyncq' \in Seq(Event) /\ event' \in Event \cup {"none"}
        /\ life' = life /\ closes' = closes /\ is_send_finished' = TRUE
    BY <2>1, <2>2, EndSessionType DEF Inv, TypeInv
  <2> QED
    BY <1>1, <2>2, <2>3, EndKeeps DEF EngineEnd, EndSession, silence, user, session,
       Inv, TypeInv, Types, SilenceWithinSession
<1>2. ASSUME NEW t \in Texts, NEW lasted \in BOOLEAN, NEW completed \in BOOLEAN,
             EngineResult(t, lasted, completed)
      PROVE  Inv'
  <2>1. /\ <<>> \in Seq(Event) /\ <<"result">> \in Seq(Event) /\ <<"result">> # <<>>
        /\ "complete" \in Event
    BY DEF Event
  <2>2. CASE lasted \/ completed
    <3>1. PICK first \in {<<>>, <<"result">>} : EndSession(first, "complete")
      BY <1>2, <2>2 DEF EngineResult
    <3>2. /\ user_asyncq' \in Seq(Event) /\ event' \in Event \cup {"none"}
          /\ life' = life /\ closes' = closes /\ is_send_finished' = TRUE
      BY <2>1, <3>1, EndSessionType DEF Inv, TypeInv
    <3>3. /\ last_result' \in Texts \cup {NoText} /\ last_result_time' \in BOOLEAN
          /\ told' \subseteq Texts /\ SilenceWithinSession'
      <4>1. CASE lasted /\ UNCHANGED silence
        BY <4>1 DEF silence, Inv, TypeInv, Types, SilenceWithinSession
      <4>2. CASE told' = told \cup {t} /\ last_result' = t /\ last_result_time' = TRUE
        BY <4>2 DEF Inv, TypeInv, Types, SilenceWithinSession
      <4> QED
        BY <1>2, <4>1, <4>2 DEF EngineResult
    <3> QED
      BY <1>2, <3>1, <3>2, <3>3, EndKeeps DEF EngineResult, EndSession, user, session
  <2>3. CASE ~lasted /\ ~completed
    <3>1. /\ user_asyncq' \in Seq(Event) /\ event' \in Event
          /\ life' = life /\ closes' = closes
      BY <1>2, <2>1, <2>3, SendType DEF EngineResult, Inv, TypeInv
    <3>11. Types'
      <4>1. /\ last_result' \in Texts \cup {NoText} /\ last_result_time' \in BOOLEAN
            /\ told' \subseteq Texts
        BY <1>2, <2>3 DEF EngineResult, Inv, TypeInv, Types
      <4>2. /\ UNCHANGED <<media, user, session>>
            /\ UNCHANGED <<state, is_closed, engine, pc, asyncq, is_send_finished>>
        BY <1>2, <2>3 DEF EngineResult
      <4> QED
        BY <3>1, <4>1, <4>2 DEF media, user, session, Inv, TypeInv, Types
    <3>12. Counts'
      BY <1>2, <2>3, <3>1
         DEF EngineResult, media, user, session, Inv, TypeInv, Counts, Open
    <3>13. EndedReleasesAll'
      BY <1>2, <2>3, <3>1
         DEF EngineResult, media, user, session, Inv, EndedReleasesAll
    <3>14. SilenceWithinSession'
      BY <1>2, <2>3, <3>1
         DEF EngineResult, media, user, session, Inv, SilenceWithinSession
    <3>15. CloseIsLast'
      BY <1>2, <2>3, <3>1
         DEF EngineResult, media, user, session, Inv, CloseIsLast
    <3>16. Handshake'
      BY <1>2, <2>3, <3>1
         DEF EngineResult, media, user, session, Inv, TypeInv, Types, Counts, EndedReleasesAll, Handshake, Open
    <3> QED
      BY <3>11, <3>12, <3>13, <3>14, <3>15, <3>16 DEF Inv, TypeInv
  <2> QED
    BY <1>2, <2>2, <2>3
<1> QED
  BY <1>1, <1>2 DEF Plugin

LEMMA UserKeeps ==
  ASSUME Inv, UserCallback \/ Destroy
  PROVE  Inv'
<1>1. user_asyncq' \in Seq(Event)
  <2>1. user_asyncq \in Seq(Event)
    BY DEF Inv, TypeInv, Types
  <2>2. CASE UserCallback
    <3>1. user_asyncq # <<>> /\ user_asyncq' = Tail(user_asyncq)
      BY <2>2 DEF UserCallback
    <3> QED
      BY <2>1, <3>1
  <2>3. CASE Destroy
    BY <2>1, <2>3 DEF Destroy
  <2> QED
    BY <2>2, <2>3
<1>11. Types'
  BY <1>1
     DEF UserCallback, Destroy, media, silence, session, Inv, TypeInv, Types
<1>12. Counts'
  BY <1>1
     DEF UserCallback, Destroy, media, silence, session, Inv, TypeInv, Counts, Open
<1>13. EndedReleasesAll'
  BY <1>1
     DEF UserCallback, Destroy, media, silence, session, Inv, EndedReleasesAll
<1>14. SilenceWithinSession'
  <2>1. UNCHANGED silence
    BY DEF UserCallback, Destroy
  <2> QED
    BY <2>1 DEF silence, Inv, SilenceWithinSession
<1>15. CloseIsLast'
  BY <1>1
     DEF UserCallback, Destroy, media, silence, session, Inv, CloseIsLast
<1>16. Handshake'
  BY <1>1
     DEF UserCallback, Destroy, media, silence, session, Inv, TypeInv, Types, Counts, EndedReleasesAll, Handshake, Open
<1> QED
  BY <1>11, <1>12, <1>13, <1>14, <1>15, <1>16 DEF Inv, TypeInv

-----------------------------------------------------------------------------
LEMMA InitInv == Init => Inv
<1> SUFFICES ASSUME Init PROVE Inv
  OBVIOUS
<1>1. Types
  <2>1. asyncq \in Seq(Command) /\ user_asyncq \in Seq(Event)
    BY DEF Init
  <2>2. /\ state \in State /\ pc \in {"loop", "close_cb"}
        /\ life \in {"alive", "uv_close", "freed"}
        /\ event \in Event \cup {"none"}
        /\ last_result \in Texts \cup {NoText} /\ told \subseteq Texts
    BY DEF Init, State
  <2>3. closes \in 0 .. 2
    BY DEF Init
  <2>4. /\ cb \in BOOLEAN /\ is_send_finished \in BOOLEAN /\ is_closed \in BOOLEAN
        /\ handle \in BOOLEAN /\ focus_handle \in BOOLEAN /\ engine \in BOOLEAN
        /\ last_result_time \in BOOLEAN /\ closeCalled \in BOOLEAN /\ user_loop \in BOOLEAN
        /\ overlapped \in BOOLEAN /\ recorded \in BOOLEAN
    BY DEF Init
  <2> QED
    BY <2>1, <2>2, <2>3, <2>4 DEF Types
<1>2. Counts /\ EndedReleasesAll /\ SilenceWithinSession /\ Handshake
  BY DEF Init, Counts, Open, EndedReleasesAll, SilenceWithinSession, Handshake
<1>3. CloseIsLast
  BY DEF Init, CloseIsLast
<1> QED
  BY <1>1, <1>2, <1>3 DEF Inv, TypeInv

LEMMA NextInv == Inv /\ [Next]_vars => Inv'
<1> SUFFICES ASSUME Inv, [Next]_vars PROVE Inv'
  OBVIOUS
<1>1. ASSUME UNCHANGED vars PROVE Inv'
  BY <1>1 DEF vars, Inv, TypeInv, Types, Counts, Open, EndedReleasesAll,
     SilenceWithinSession, CloseIsLast, Handshake
<1> QED
  BY <1>1, CallKeeps, SetListenerKeeps, StartKeeps, FinishKeeps, CancelKeeps, CloseKeeps,
     RecorderClosedKeeps, RecorderClosedReturnsKeeps, MediaKeeps, PluginKeeps, UserKeeps
     DEF Next, MessageHandler

LEMMA Invariance == Spec => []Inv
BY InitInv, NextInv, PTL DEF Spec

\* Every variable keeps its type, and no recorder is closed twice.
THEOREM TypeCorrect == Spec => []TypeOK
<1>1. Inv => TypeOK
  BY TypeInvImpliesTypeOK DEF Inv
<1> QED
  BY <1>1, Invariance, PTL

\* A session that is over holds no microphone, no audio focus, no connection.
THEOREM SessionsRelease == Spec => []EndedReleasesAll
<1>1. Inv => EndedReleasesAll
  BY DEF Inv
<1> QED
  BY <1>1, Invariance, PTL

\* The silence timeout never compares with a text of an earlier session.
THEOREM SilenceIsLocal == Spec => []SilenceWithinSession
<1>1. Inv => SilenceWithinSession
  BY DEF Inv
<1> QED
  BY <1>1, Invariance, PTL

\* The closed event answers ai_asr_close and goes out once, as long as no
\* session starts while an earlier recorder is closing.
THEOREM ClosedIsRequested == Spec => []ClosedOnRequest
<1>1. Inv => ClosedOnRequest
  BY DEF Inv, TypeInv, Types, Handshake, CloseIsLast, ClosedOnRequest
<1> QED
  BY <1>1, Invariance, PTL

\* When the closed event is out, no callback into the context is outstanding.
THEOREM ClosedQuiets == Spec => []ClosedIsQuiet
<1>1. Inv => ClosedIsQuiet
  BY DEF Inv, Handshake, CloseIsLast, EndedReleasesAll, ClosedIsQuiet
<1> QED
  BY <1>1, Invariance, PTL

-----------------------------------------------------------------------------
\* The recogniser implements AsrListener.

ListenerStep == [Listener!Next]_(Listener!vars)

\* The state facts the mapping needs, for a context whose promise is not void.
LEMMA PhaseFacts ==
  ASSUME Inv, ~overlapped
  PROVE  /\ closes > 0 <=> ListenerPhase = "closed"
         /\ state # "CLOSE" => closes = 0
         /\ handle \/ focus_handle \/ engine => ListenerPhase = "open"
         /\ state # "START" /\ closes = 0 => ListenerPhase = "idle"
<1>1. closes \in {0, 1, 2}
  BY DEF Inv, TypeInv, Types
<1>2. state # "CLOSE" => closes = 0
  BY <1>1 DEF Inv, Handshake
<1>3. handle \/ focus_handle \/ engine => state = "START" /\ ~is_send_finished
  BY DEF Inv, EndedReleasesAll
<1>4. closes = 0 => ~(closes > 0)
  OBVIOUS
<1> QED
  BY <1>1, <1>2, <1>3, <1>4 DEF ListenerPhase

\* An ended session: nothing but its last event is seen.
LEMMA EndIsListenerStep ==
  ASSUME Inv, ~overlapped, ListenerPhase = "open", ~overlapped',
         closes' = closes, state' # "START" \/ is_send_finished',
         event' \in {event, "complete", "error"}
  PROVE  ListenerStep
<1>1. ~(closes > 0)
  BY DEF ListenerPhase
<1>2. ListenerPhase' = "idle"
  BY <1>1 DEF ListenerPhase
<1> QED
  BY <1>2 DEF ListenerStep, Listener!Next, Listener!End, Listener!Drop

\* Nothing that the listener can see.
LEMMA QuietIsListenerStep ==
  ASSUME UNCHANGED <<ListenerPhase, event>>
  PROVE  ListenerStep
BY DEF ListenerStep, Listener!vars

\* The closed event.
LEMMA CloseIsListenerStep ==
  ASSUME Inv, ~overlapped, ~overlapped', ListenerPhase = "idle", CloseHandler
  PROVE  ListenerStep
<1>1. closes = 0 \/ closes = 1 \/ closes = 2
  BY DEF Inv, TypeInv, Types
<1>2. closes' > 0
  BY <1>1 DEF CloseHandler
<1>3. ListenerPhase' = "closed" /\ event' = "closed"
  BY <1>2 DEF ListenerPhase, CloseHandler
<1> QED
  BY <1>3 DEF ListenerStep, Listener!Next, Listener!Close

LEMMA StartIsListenerStep ==
  ASSUME Inv, ~overlapped, StartL
  PROVE  ListenerStep
<1>1. CASE StartIgnored
  <2>1. UNCHANGED <<ListenerPhase, event>>
    BY <1>1 DEF StartIgnored, ListenerPhase, SendNothing, session
  <2> QED
    BY <2>1, QuietIsListenerStep
<1>2. ASSUME StartSession, closes' = closes, event' \in {event, "start"}
      PROVE  ListenerStep
  <2>1. state # "START" /\ Handle("start") /\ state' = "START" /\ ~is_send_finished'
    BY <1>2 DEF StartSession
  <2>2. "start" \in Command
    BY DEF Command
  <2>3. state # "CLOSE"
    BY <2>1, <2>2, TakeMessage DEF Inv, TypeInv
  <2>4. closes = 0 /\ ListenerPhase = "idle"
    BY <2>1, <2>3, PhaseFacts
  <2>5. ~(closes' > 0)
    BY <1>2, <2>4
  <2>6. ListenerPhase' \in {"open", "void"}
    BY <2>1, <2>5 DEF ListenerPhase
  <2> QED
    BY <1>2, <2>4, <2>6 DEF ListenerStep, Listener!Next, Listener!Open, Listener!Void
<1>3. CASE StartPluginFails \/ StartRecorderDenied \/ StartRecorderFails
  BY <1>2, <1>3 DEF StartPluginFails, StartRecorderDenied, StartRecorderFails, SendNothing
<1>4. CASE StartSucceeds
  <2>1. <<"start">>[Len(<<"start">>)] = "start"
    OBVIOUS
  <2>2. closes' = closes /\ event' \in {event, "start"}
    BY <1>4, <2>1 DEF StartSucceeds, SendNothing, Send
  <2> QED
    BY <1>2, <1>4, <2>2 DEF StartSucceeds
<1> QED
  BY <1>1, <1>3, <1>4 DEF StartL

LEMMA FinishIsListenerStep ==
  ASSUME Inv, ~overlapped, FinishL \/ CancelL
  PROVE  ListenerStep
<1>1. ~overlapped'
  BY DEF FinishL, CancelL, session
<1>2. CASE state # "START"
  <2>1. UNCHANGED <<ListenerPhase, event>>
    BY <1>2 DEF FinishL, CancelL, ListenerPhase, SendNothing, session
  <2> QED
    BY <2>1, QuietIsListenerStep
<1>3. CASE state = "START"
  <2>1. state' # "START"
    BY <1>3 DEF FinishL, CancelL
  <2>2. <<>> \in Seq(Event) /\ "complete" \in Event
    BY DEF Event
  <2>3. closes' = closes /\ event' \in {event, "complete"}
    BY <1>3, <2>2, EndSessionType DEF FinishL, CancelL, SendNothing, Inv, TypeInv
  <2>4. CASE is_send_finished
    <3>1. event' = event
      BY <1>3, <2>4 DEF FinishL, CancelL, SendNothing, Listening
    <3>2. UNCHANGED ListenerPhase
      BY <1>1, <2>1, <2>3, <2>4 DEF ListenerPhase
    <3> QED
      BY <3>1, <3>2, QuietIsListenerStep
  <2>5. CASE ~is_send_finished
    <3>1. closes = 0
      BY <1>3, PhaseFacts
    <3>2. ListenerPhase = "open"
      BY <1>3, <2>5, <3>1 DEF ListenerPhase
    <3> QED
      BY <1>1, <2>1, <2>3, <3>2, EndIsListenerStep
  <2> QED
    BY <2>4, <2>5 DEF Inv, TypeInv, Types
<1> QED
  BY <1>2, <1>3

LEMMA ClosingIsListenerStep ==
  ASSUME Inv, ~overlapped, CloseL \/ RecorderClosed
  PROVE  ListenerStep
<1>1. ~overlapped' /\ overlapped' = overlapped
  BY DEF CloseL, RecorderClosed, session
<1>2. CASE CloseL
  <2>1. CASE state \in {"CLOSE", "START"}
    <3>1. UNCHANGED <<ListenerPhase, event>>
      BY <1>2, <2>1 DEF CloseL, ListenerPhase, SendNothing, session
    <3> QED
      BY <3>1, QuietIsListenerStep
  <2>2. CASE state \notin {"CLOSE", "START"}
    <3>1. closes = 0 /\ ListenerPhase = "idle"
      BY <2>2, PhaseFacts
    <3>2. CASE is_closed
      BY <1>1, <1>2, <2>2, <3>1, <3>2, CloseIsListenerStep DEF CloseL
    <3>3. CASE ~is_closed
      <4>1. state' = "CLOSE" /\ closes' = closes /\ event' = event
        BY <1>2, <2>2, <3>3 DEF CloseL, SendNothing
      <4>2. ~(closes' > 0)
        BY <3>1, <4>1
      <4>3. ListenerPhase' = "idle"
        BY <1>1, <4>1, <4>2 DEF ListenerPhase
      <4> QED
        BY <3>1, <4>1, <4>3, QuietIsListenerStep
    <3> QED
      BY <3>2, <3>3
  <2> QED
    BY <2>1, <2>2
<1>3. CASE RecorderClosed
  <2>1. CASE is_closed
    <3>1. closing # 0
      BY <1>3 DEF RecorderClosed
    <3>2. state = "CLOSE"
      BY <2>1, <3>1 DEF Inv, Handshake
    <3>3. ~(closes > 0)
      BY <3>1 DEF Inv, Handshake
    <3>4. ListenerPhase = "idle"
      BY <3>2, <3>3 DEF ListenerPhase
    <3> QED
      BY <1>1, <1>3, <2>1, <3>4, CloseIsListenerStep DEF RecorderClosed
  <2>2. CASE ~is_closed
    <3>1. UNCHANGED <<ListenerPhase, event>>
      BY <1>1, <1>3, <2>2 DEF RecorderClosed, ListenerPhase, SendNothing
    <3> QED
      BY <3>1, QuietIsListenerStep
  <2> QED
    BY <2>1, <2>2
<1> QED
  BY <1>2, <1>3

\* What the media library and the plugin report of an open session.
LEMMA ReportIsListenerStep ==
  ASSUME Inv, ~overlapped, RecorderError \/ FocusLost \/ Plugin
  PROVE  ListenerStep
<1>1. /\ ListenerPhase = "open" /\ ~overlapped' /\ UNCHANGED <<state, overlapped>>
  BY PhaseFacts DEF RecorderError, FocusLost, Plugin, EngineResult, EngineEnd, session
<1>2. <<>> \in Seq(Event) /\ <<"result">> \in Seq(Event)
      /\ "complete" \in Event /\ "error" \in Event
  BY DEF Event
<1>3. ASSUME NEW first \in {<<>>, <<"result">>}, NEW e \in {"complete", "error"},
             EndSession(first, e)
      PROVE  ListenerStep
  <2>1. first \in Seq(Event) /\ e \in Event
    BY <1>2
  <2>2. event' = e /\ closes' = closes /\ is_send_finished' = TRUE
    BY <1>3, <2>1, EndSessionType DEF Inv, TypeInv
  <2> QED
    BY <1>1, <2>2, EndIsListenerStep
<1>4. CASE RecorderError
  BY <1>3, <1>4 DEF RecorderError
<1>5. CASE FocusLost
  <2>1. CASE Listening(state)
    BY <1>3, <1>5, <2>1 DEF FocusLost
  <2>2. CASE ~Listening(state)
    <3>1. UNCHANGED <<ListenerPhase, event>>
      BY <1>1, <1>5, <2>2 DEF FocusLost, ListenerPhase, SendNothing
    <3> QED
      BY <3>1, QuietIsListenerStep
  <2> QED
    BY <2>1, <2>2
<1>6. CASE Plugin
  <2>1. ASSUME NEW e \in {"complete", "error"}, EngineEnd(e) PROVE ListenerStep
    BY <1>3, <2>1 DEF EngineEnd
  <2>2. ASSUME NEW t \in Texts, NEW lasted \in BOOLEAN, NEW completed \in BOOLEAN,
               EngineResult(t, lasted, completed)
        PROVE  ListenerStep
    <3>1. CASE EndSession(<<>>, "complete") \/ EndSession(<<"result">>, "complete")
      BY <1>3, <3>1
    <3>2. CASE Send(<<"result">>) /\ UNCHANGED is_send_finished
      <4>1. <<"result">>[Len(<<"result">>)] = "result"
        OBVIOUS
      <4>2. event' = "result" /\ closes' = closes
        BY <3>2, <4>1 DEF Send
      <4>3. UNCHANGED ListenerPhase
        BY <1>1, <3>2, <4>2 DEF ListenerPhase
      <4> QED
        BY <1>1, <4>2, <4>3 DEF ListenerStep, Listener!Next, Listener!Report
    <3> QED
      BY <2>2, <3>1, <3>2 DEF EngineResult
  <2> QED
    BY <1>6, <2>1, <2>2 DEF Plugin
<1> QED
  BY <1>4, <1>5, <1>6

LEMMA StepIsListenerStep ==
  ASSUME Inv, [Next]_vars
  PROVE  ListenerStep
<1>1. ASSUME ~StartL PROVE UNCHANGED overlapped
  BY <1>1 DEF Next, MessageHandler, Plugin, vars, Call, SetListenerL, FinishL, CancelL,
     CloseL, RecorderClosed, RecorderClosedReturns, RecorderError, FocusLost,
     EngineResult, EngineEnd, UserCallback, Destroy, session
<1>2. CASE overlapped
  <2>1. overlapped'
    BY <1>1, <1>2 DEF StartL, StartIgnored, StartPluginFails, StartRecorderDenied,
       StartRecorderFails, StartSucceeds, StartSession, session
  <2>2. ListenerPhase = "void" /\ ListenerPhase' = "void"
    BY <1>2, <2>1 DEF ListenerPhase
  <2> QED
    BY <2>2 DEF ListenerStep, Listener!Next, Listener!Void
<1>3. CASE ~overlapped
  <2>1. CASE \/ UNCHANGED vars \/ (\E c \in Command : Call(c)) \/ SetListenerL
             \/ RecorderClosedReturns \/ UserCallback \/ Destroy
    <3>1. UNCHANGED <<state, is_send_finished, closes, overlapped, event>>
      BY <2>1 DEF vars, Call, SetListenerL, SendNothing, RecorderClosedReturns,
         UserCallback, Destroy, session
    <3>2. UNCHANGED <<ListenerPhase, event>>
      BY <3>1 DEF ListenerPhase
    <3> QED
      BY <3>2, QuietIsListenerStep
  <2> QED
    BY <1>3, <2>1, StartIsListenerStep, FinishIsListenerStep, ClosingIsListenerStep,
       ReportIsListenerStep DEF Next, MessageHandler
<1> QED
  BY <1>2, <1>3 DEF Inv, TypeInv, Types

\* The recogniser implements the listener's contract.
THEOREM Implements == Spec => IsListener
<1>1. Init => Listener!Init
  <2>1. ASSUME Init PROVE ListenerPhase = "idle" /\ event = "none"
    <3>1. ~overlapped /\ ~(closes > 0) /\ state # "START" /\ event = "none"
      BY <2>1 DEF Init
    <3> QED
      BY <3>1 DEF ListenerPhase
  <2> QED
    BY <2>1 DEF Listener!Init
<1>2. Inv /\ [Next]_vars => [Listener!Next]_(Listener!vars)
  BY StepIsListenerStep DEF ListenerStep
<1> QED
  BY <1>1, <1>2, Invariance, PTL DEF Spec, IsListener, Listener!Spec
=============================================================================
