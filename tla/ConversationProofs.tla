------------------------- MODULE ConversationProofs -------------------------
(***************************************************************************)
(* Theorems about src/conversation/ai_conversation.c as module             *)
(* Conversation models it, for every size of the ring and every bound.     *)
(*                                                                         *)
(* Order and the single writer are inductive as soon as one knows that     *)
(* write_req.data is set for good with the first write (OneWriter).  That  *)
(* a close gives everything back rests on the count of what is held        *)
(* (Counted) and on the close being the last message that changes anything *)
(* (CloseIsLast, Ended).                                                   *)
(***************************************************************************)
EXTENDS Conversation, TLAPS

Flags ==
  /\ cb \in BOOLEAN /\ recorder \in BOOLEAN /\ player \in BOOLEAN /\ focus \in BOOLEAN
  /\ connecting \in BOOLEAN /\ has_buffer \in BOOLEAN /\ write_data \in BOOLEAN
  /\ connected \in BOOLEAN /\ leaving \in BOOLEAN
  /\ freed \in BOOLEAN /\ failed \in BOOLEAN /\ closeCalled \in BOOLEAN

Names ==
  /\ state \in State /\ closing \in {"no", "uninit", "release"}
  /\ player_pipe \in {"none", "open", "stale"}
  /\ user_handle \in {"open", "closing"}
  /\ fault \in {"none", "stale_pipe", "no_ring", "null_wsi", "freed"}

Numbers ==
  /\ recorders \in Nat /\ players \in Nat /\ focuses \in Nat
  /\ writes \in Nat /\ user_asyncq \in Nat
  /\ starts \in Nat /\ dropped \in Nat

Ring ==
  /\ buffer \in Seq(Nat) /\ Len(buffer) <= MaxItems
  /\ queued \in Nat /\ sent \in Nat /\ lost \in Nat

Queue == asyncq \in Seq(Command)

Types == Flags /\ Names /\ Numbers /\ Ring /\ Queue

\* What is held is counted; only a start that failed leaves more behind.
Counted ==
  /\ recorders = Held(recorder) /\ players = Held(player)
  /\ focuses >= Held(focus)
  /\ ~failed => focuses = Held(focus) /\ (focus => recorder)

\* A player comes with its ring, which outlives it.
RingKept ==
  /\ connecting => player
  /\ player \/ (player_pipe # "none" /\ ~Closed) => has_buffer

\* What ai_conversation_close_handler has given back is not taken again: the
\* plugin's connection with the second step, everything else with the last.
Ended ==
  /\ state = "CLOSE" => closeCalled
  /\ closing # "no" => state = "CLOSE"
  /\ state = "CLOSE" /\ closing # "uninit" => ~connected
  /\ Closed => ~recorder /\ ~player /\ ~focus /\ ~connecting /\ ~has_buffer
  /\ freed \/ user_handle = "closing" => Closed

\* Behind the user's last call only a lost focus puts a message.
CloseIsLast ==
  /\ \A i \in 1 .. Len(asyncq) :
       asyncq[i] = "close" =>
         closeCalled /\ \A j \in i + 1 .. Len(asyncq) : asyncq[j] = "finish"
  /\ state = "CLOSE" => \A j \in 1 .. Len(asyncq) : asyncq[j] = "finish"

\* The engine thread writes once; every later write is begun by the end of the
\* one before.
OneWriter == OneWrite /\ (writes > 0 => write_data)

IInv ==
  /\ Types /\ Counted /\ RingKept /\ Ended /\ CloseIsLast
  /\ OneWriter /\ PlaysInOrder

LEMMA TypesAreTypeOK == Types <=> TypeOK
BY DEF Types, Flags, Names, Numbers, Ring, Queue, TypeOK

LEMMA InitHolds == Init => IInv
<1> SUFFICES ASSUME Init PROVE IInv
  OBVIOUS
<1>1. Flags
  BY DEF Init, Flags
<1>2. Names
  BY DEF Init, Names, State
<1>3. Numbers
  BY DEF Init, Numbers
<1>4. Ring /\ Queue
  BY ConversationAssumption DEF Init, Ring, Queue
<1>5. Counted /\ RingKept /\ Ended
  BY DEF Init, Counted, Held, RingKept, Ended, Closed
<1>6. CloseIsLast
  BY DEF Init, CloseIsLast
<1>7. OneWriter /\ PlaysInOrder
  BY DEF Init, OneWriter, OneWrite, PlaysInOrder
<1> QED
  BY <1>1, <1>2, <1>3, <1>4, <1>5, <1>6, <1>7 DEF IInv, Types

-----------------------------------------------------------------------------
\* The queue of messages.

LEMMA SameQueue ==
  ASSUME Queue, CloseIsLast, UNCHANGED <<asyncq, closeCalled>>,
         state' = "CLOSE" => state = "CLOSE"
  PROVE  Queue' /\ CloseIsLast'
BY DEF Queue, CloseIsLast

LEMMA PutMessage ==
  ASSUME Queue, CloseIsLast, NEW c \in Command, asyncq' = Append(asyncq, c), state' = state,
         closeCalled => closeCalled', c = "close" => closeCalled',
         c = "finish" \/ (~closeCalled /\ state # "CLOSE")
  PROVE  Queue' /\ CloseIsLast'
<1>1. /\ asyncq \in Seq(Command) /\ asyncq' \in Seq(Command) /\ Len(asyncq) \in Nat
      /\ Len(asyncq') = Len(asyncq) + 1 /\ asyncq'[Len(asyncq) + 1] = c
      /\ \A i \in 1 .. Len(asyncq) : asyncq'[i] = asyncq[i]
  BY DEF Queue
<1>2. ASSUME NEW i \in 1 .. Len(asyncq'), asyncq'[i] = "close"
      PROVE  closeCalled' /\ \A j \in i + 1 .. Len(asyncq') : asyncq'[j] = "finish"
  <2>1. CASE i = Len(asyncq) + 1
    BY <1>1, <1>2, <2>1
  <2>2. CASE i # Len(asyncq) + 1
    <3>1. i \in 1 .. Len(asyncq) /\ asyncq[i] = "close"
      BY <1>1, <1>2, <2>2
    <3>2. closeCalled /\ \A j \in i + 1 .. Len(asyncq) : asyncq[j] = "finish"
      BY <3>1 DEF CloseIsLast
    <3>3. c = "finish"
      BY <3>2
    <3>4. ASSUME NEW j \in i + 1 .. Len(asyncq') PROVE asyncq'[j] = "finish"
      <4>1. j \in i + 1 .. Len(asyncq) \/ j = Len(asyncq) + 1
        BY <1>1, <3>1
      <4>2. ASSUME j \in i + 1 .. Len(asyncq) PROVE j \in 1 .. Len(asyncq)
        BY <1>1, <3>1, <4>2
      <4> QED
        BY <1>1, <3>2, <3>3, <4>1, <4>2
    <3> QED
      BY <3>2, <3>4
  <2> QED
    BY <2>1, <2>2
<1>3. ASSUME state' = "CLOSE", NEW j \in 1 .. Len(asyncq') PROVE asyncq'[j] = "finish"
  <2>1. c = "finish" /\ state = "CLOSE"
    BY <1>3
  <2>2. j \in 1 .. Len(asyncq) \/ j = Len(asyncq) + 1
    BY <1>1, <1>3
  <2> QED
    BY <1>1, <2>1, <2>2 DEF CloseIsLast
<1> QED
  BY <1>1, <1>2, <1>3 DEF Queue, CloseIsLast

LEMMA TakeMessage ==
  ASSUME Queue, CloseIsLast, NEW c \in Command, Handle(c)
  PROVE  /\ Queue' /\ closeCalled' = closeCalled /\ LoopTurn
         /\ state = "CLOSE" => c = "finish"
         /\ c = "close" => closeCalled
         /\ c = "close" \/ (state' = "CLOSE" => state = "CLOSE") => CloseIsLast'
<1>1. /\ asyncq \in Seq(Command) /\ asyncq # <<>> /\ asyncq' = Tail(asyncq) /\ asyncq[1] = c
      /\ closeCalled' = closeCalled /\ LoopTurn
  BY DEF Queue, Handle
<1>2. /\ asyncq' \in Seq(Command) /\ Len(asyncq) \in Nat /\ Len(asyncq) >= 1
      /\ Len(asyncq') = Len(asyncq) - 1
      /\ \A i \in 1 .. Len(asyncq') : asyncq'[i] = asyncq[i + 1]
  BY <1>1
<1>3. 1 \in 1 .. Len(asyncq)
  BY <1>2
<1>4. ASSUME NEW i \in 1 .. Len(asyncq'), asyncq'[i] = "close"
      PROVE  closeCalled' /\ \A j \in i + 1 .. Len(asyncq') : asyncq'[j] = "finish"
  <2>1. i + 1 \in 1 .. Len(asyncq) /\ asyncq[i + 1] = "close"
    BY <1>2, <1>4
  <2>2. closeCalled /\ \A j \in i + 2 .. Len(asyncq) : asyncq[j] = "finish"
    <3>1. closeCalled /\ \A j \in (i + 1) + 1 .. Len(asyncq) : asyncq[j] = "finish"
      BY <2>1 DEF CloseIsLast
    <3> QED
      BY <3>1
  <2>3. ASSUME NEW j \in i + 1 .. Len(asyncq') PROVE asyncq'[j] = "finish"
    <3>1. j \in 1 .. Len(asyncq') /\ j + 1 \in i + 2 .. Len(asyncq)
      BY <1>2, <1>4, <2>3
    <3> QED
      BY <1>2, <2>2, <3>1
  <2> QED
    BY <1>1, <2>2, <2>3
<1>5. state = "CLOSE" => c = "finish"
  BY <1>1, <1>3 DEF CloseIsLast
<1>6. c = "close" => closeCalled
  BY <1>1, <1>3 DEF CloseIsLast
<1>7. ASSUME c = "close" \/ state = "CLOSE", NEW j \in 1 .. Len(asyncq')
      PROVE  asyncq'[j] = "finish"
  <2>1. j + 1 \in 2 .. Len(asyncq) /\ j + 1 \in 1 .. Len(asyncq)
    BY <1>2, <1>7
  <2>2. CASE c = "close"
    <3>1. \A k \in 1 + 1 .. Len(asyncq) : asyncq[k] = "finish"
      BY <1>1, <1>3, <2>2 DEF CloseIsLast
    <3> QED
      BY <1>2, <2>1, <3>1
  <2>3. CASE state = "CLOSE"
    BY <1>2, <2>1, <2>3 DEF CloseIsLast
  <2> QED
    BY <1>7, <2>2, <2>3
<1> QED
  BY <1>1, <1>2, <1>4, <1>5, <1>6, <1>7 DEF Queue, CloseIsLast

-----------------------------------------------------------------------------
\* The ring and the writes that drain it.

LEMMA SameRing ==
  ASSUME Ring, PlaysInOrder, UNCHANGED <<buffer, queued, sent, lost>>
  PROVE  Ring' /\ PlaysInOrder'
BY DEF Ring, PlaysInOrder

LEMMA EmptyRing ==
  ASSUME Ring, InitRing
  PROVE  Ring' /\ PlaysInOrder' /\ has_buffer'
<1>1. /\ buffer' = <<>> /\ sent' = queued /\ lost' = 0 /\ queued' = queued /\ has_buffer'
  BY DEF InitRing
<1>2. MaxItems \in Nat /\ queued \in Nat
  BY ConversationAssumption DEF Ring
<1>3. Len(buffer') = 0
  BY <1>1
<1> QED
  BY <1>1, <1>2, <1>3 DEF Ring, PlaysInOrder

LEMMA SameWriter ==
  ASSUME OneWriter, UNCHANGED writer
  PROVE  OneWriter'
BY DEF OneWriter, OneWrite, writer

\* What is left of a sequence whose first n elements are gone.
LEMMA Rest ==
  ASSUME NEW b \in Seq(Nat), NEW n \in 0 .. Len(b)
  PROVE  /\ SubSeq(b, n + 1, Len(b)) \in Seq(Nat)
         /\ Len(SubSeq(b, n + 1, Len(b))) = Len(b) - n
         /\ \A i \in 1 .. Len(b) - n : SubSeq(b, n + 1, Len(b))[i] = b[n + i]
<1>1. Len(b) \in Nat /\ n \in Nat /\ n <= Len(b) /\ n + 1 \in Nat
  OBVIOUS
<1>2. SubSeq(b, n + 1, Len(b)) = [i \in 1 .. Len(b) - n |-> b[n + i]]
  <2>1. SubSeq(b, n + 1, Len(b)) = [i \in 1 .. Len(b) - (n + 1) + 1 |-> b[n + 1 + i - 1]]
    BY <1>1
  <2>2. Len(b) - (n + 1) + 1 = Len(b) - n
    BY <1>1
  <2> QED
    BY <1>1, <2>1, <2>2
<1>3. ASSUME NEW i \in 1 .. Len(b) - n PROVE b[n + i] \in Nat
  <2>1. n + i \in 1 .. Len(b)
    BY <1>1, <1>3
  <2> QED
    BY <2>1
<1> QED
  BY <1>1, <1>2, <1>3

\* The units b, of which the latest is q, follow one another.
Follow(b, q) == \A i \in 1 .. Len(b) : b[i] = q - Len(b) + i

LEMMA RestFollows ==
  ASSUME NEW b \in Seq(Nat), NEW q \in Nat, NEW n \in 0 .. Len(b), Follow(b, q)
  PROVE  Follow(SubSeq(b, n + 1, Len(b)), q)
<1>1. Len(b) \in Nat /\ n \in Nat /\ n <= Len(b)
  OBVIOUS
<1>2. ASSUME NEW i \in 1 .. Len(b) - n
      PROVE  SubSeq(b, n + 1, Len(b))[i] = q - (Len(b) - n) + i
  <2>1. n + i \in 1 .. Len(b)
    BY <1>1, <1>2
  <2>2. b[n + i] = q - Len(b) + (n + i)
    BY <2>1 DEF Follow
  <2>3. SubSeq(b, n + 1, Len(b))[i] = b[n + i]
    BY Rest, <1>2
  <2> QED
    BY <1>1, <2>2, <2>3
<1>3. Len(SubSeq(b, n + 1, Len(b))) = Len(b) - n
  BY Rest
<1> QED
  BY <1>2, <1>3 DEF Follow

LEMMA FollowIsOrder ==
  ASSUME Ring
  PROVE  PlaysInOrder <=> (queued = sent + lost + Len(buffer) /\ Follow(buffer, queued))
<1>1. Len(buffer) \in Nat /\ queued \in Nat /\ sent \in Nat /\ lost \in Nat
  BY DEF Ring
<1>2. ASSUME queued = sent + lost + Len(buffer), NEW i \in 1 .. Len(buffer)
      PROVE  queued - Len(buffer) + i = sent + lost + i
  BY <1>1, <1>2
<1>3. ASSUME queued = sent + lost + Len(buffer)
      PROVE  Follow(buffer, queued) <=> \A i \in 1 .. Len(buffer) : buffer[i] = sent + lost + i
  BY <1>2, <1>3 DEF Follow
<1> QED
  BY <1>3 DEF PlaysInOrder

\* The ring with a chunk behind what it holds, before anything is overwritten.
LEMMA ChunkFollows ==
  ASSUME Ring, PlaysInOrder, NEW length \in Lengths
  PROVE  /\ buffer \o Chunk(length) \in Seq(Nat)
         /\ Len(buffer \o Chunk(length)) = Len(buffer) + length
         /\ Len(buffer) \in Nat /\ length \in Nat /\ length > 0
         /\ Follow(buffer \o Chunk(length), queued + length)
<1> DEFINE c == Chunk(length)
           b == buffer \o c
<1>1. /\ buffer \in Seq(Nat) /\ Len(buffer) \in Nat /\ queued \in Nat
      /\ Follow(buffer, queued)
  BY FollowIsOrder DEF Ring
<1>2. length \in Nat /\ length > 0
  BY ConversationAssumption
<1>3. c \in Seq(Nat) /\ Len(c) = length /\ \A i \in 1 .. length : c[i] = queued + i
  BY <1>1, <1>2 DEF Chunk
<1> HIDE DEF c
<1>4. /\ b \in Seq(Nat) /\ Len(b) = Len(buffer) + length
      /\ \A i \in 1 .. Len(buffer) : b[i] = buffer[i]
      /\ \A i \in Len(buffer) + 1 .. Len(buffer) + length : b[i] = c[i - Len(buffer)]
  <2>1. b \in Seq(Nat)
    BY <1>1, <1>3
  <2>2. Len(b) = Len(buffer) + Len(c)
    BY <1>1, <1>3
  <2>3. ASSUME NEW i \in 1 .. Len(buffer) PROVE b[i] = buffer[i]
    BY <1>1, <1>3, <2>3
  <2>4. ASSUME NEW i \in Len(buffer) + 1 .. Len(buffer) + length
        PROVE  b[i] = c[i - Len(buffer)]
    BY <1>1, <1>2, <1>3, <2>4
  <2> QED
    BY <1>3, <2>1, <2>2, <2>3, <2>4
<1> HIDE DEF b
<1>5. ASSUME NEW i \in 1 .. Len(b) PROVE b[i] = queued + length - Len(b) + i
  <2>1. CASE i <= Len(buffer)
    <3>1. i \in 1 .. Len(buffer)
      BY <1>1, <1>2, <1>4, <1>5, <2>1
    <3>2. b[i] = queued - Len(buffer) + i
      BY <1>1, <1>4, <3>1 DEF Follow
    <3> QED
      BY <1>1, <1>2, <1>4, <1>5, <3>2
  <2>2. CASE ~(i <= Len(buffer))
    <3>1. i \in Len(buffer) + 1 .. Len(buffer) + length /\ i - Len(buffer) \in 1 .. length
      BY <1>1, <1>2, <1>4, <1>5, <2>2
    <3>2. b[i] = queued + (i - Len(buffer))
      BY <1>3, <1>4, <3>1
    <3> QED
      BY <1>1, <1>2, <1>4, <1>5, <3>2
  <2> QED
    BY <2>1, <2>2
<1>6. Follow(b, queued + length)
  BY <1>1, <1>2, <1>4, <1>5 DEF Follow
<1> QED
  BY <1>1, <1>2, <1>4, <1>6 DEF b, c

\* What is overwritten is the oldest, and the rest fits.
LEMMA LatestFollows ==
  ASSUME NEW b \in Seq(Nat), NEW q \in Nat, Follow(b, q), Len(b) > 0
  PROVE  /\ Latest(b) \in Seq(Nat) /\ Latest(b) # <<>> /\ Len(Latest(b)) <= MaxItems
         /\ Overwritten(b) \in Nat /\ Overwritten(b) + Len(Latest(b)) = Len(b)
         /\ Follow(Latest(b), q)
<1>1. Len(b) \in Nat /\ MaxItems \in Nat /\ MaxItems > 0
  BY ConversationAssumption
<1>2. Overwritten(b) \in 0 .. Len(b) - 1 /\ Len(b) - Overwritten(b) <= MaxItems
  BY <1>1 DEF Overwritten
<1>3. Overwritten(b) \in 0 .. Len(b) /\ Overwritten(b) \in Nat
  BY <1>1, <1>2
<1>4. Latest(b) \in Seq(Nat) /\ Len(Latest(b)) = Len(b) - Overwritten(b)
  BY <1>3, Rest DEF Latest
<1>5. Latest(b) # <<>>
  BY <1>1, <1>2, <1>4
<1>6. Follow(Latest(b), q)
  BY <1>3, RestFollows DEF Latest
<1>7. Overwritten(b) + Len(Latest(b)) = Len(b) /\ Len(Latest(b)) <= MaxItems
  BY <1>1, <1>2, <1>3, <1>4
<1> QED
  BY <1>3, <1>4, <1>5, <1>6, <1>7

\* What the writes took, what was lost and what waits add up to what came.
LEMMA TakenSum ==
  ASSUME NEW came \in Nat, NEW took \in Nat, NEW gone \in Nat, NEW held \in Nat,
         NEW k \in Nat, came = took + gone + held
  PROVE  came = (took + k) + gone + (held - k)
OBVIOUS

LEMMA Places ==
  ASSUME NEW c \in Seq(Nat), NEW came \in Nat, NEW took \in Nat, NEW gone \in Nat,
         came = took + gone + Len(c), Follow(c, came)
  PROVE  \A i \in 1 .. Len(c) : c[i] = took + gone + i
<1>1. ASSUME NEW i \in 1 .. Len(c) PROVE c[i] = took + gone + i
  <2>1. PICK h \in Nat : h = Len(c)
    OBVIOUS
  <2>2. c[i] = came - h + i /\ came = took + gone + h /\ i \in Nat
    BY <2>1 DEF Follow
  <2> QED
    BY <2>2
<1> QED
  BY <1>1

\* The write of the oldest units leaves the rest in order.
LEMMA WriteInOrder ==
  ASSUME Ring, NEW b \in Seq(Nat), b # <<>>, Len(b) <= MaxItems, NEW n \in Nat, Write(b, n),
         queued' \in Nat, lost' \in Nat, queued' = sent + lost' + Len(b), Follow(b, queued')
  PROVE  Ring' /\ PlaysInOrder'
<1>1. /\ MaxItems \in Nat /\ sent \in Nat /\ FrameSize \in Nat /\ Len(b) \in Nat
      /\ queued' \in Nat /\ lost' \in Nat
  BY ConversationAssumption DEF Ring
<1>2. Frame(b) \in 0 .. Len(b)
  BY <1>1 DEF Frame
<1>3. PICK n0 \in 0 .. Len(b) : buffer' = SubSeq(b, n0 + 1, Len(b)) /\ sent' = sent + n0
  BY <1>2 DEF Write
<1>4. buffer' \in Seq(Nat) /\ Len(buffer') = Len(b) - n0
  BY <1>3, Rest
<1>5. /\ n0 \in Nat /\ n0 <= Len(b) /\ sent' \in Nat
      /\ Len(buffer') \in Nat /\ Len(buffer') <= MaxItems
  <2>1. Len(b) <= MaxItems
    OBVIOUS
  <2>2. n0 \in Nat /\ n0 <= Len(b)
    BY <1>1
  <2> QED
    BY <1>1, <1>3, <1>4, <2>1, <2>2
<1>6. Ring'
  BY <1>1, <1>4, <1>5 DEF Ring
<1>7. queued' = sent' + lost' + Len(buffer')
  <2>1. queued' = (sent + n0) + lost' + (Len(b) - n0)
    BY <1>1, <1>5, TakenSum
  <2> QED
    BY <1>3, <1>4, <2>1
<1>8. Follow(buffer', queued')
  BY <1>1, <1>3, RestFollows
<1>9. \A i \in 1 .. Len(buffer') : buffer'[i] = sent' + lost' + i
  <2>1. PICK c \in Seq(Nat), q \in Nat, t \in Nat, o \in Nat :
          c = buffer' /\ q = queued' /\ t = sent' /\ o = lost'
    BY <1>1, <1>4, <1>5
  <2>2. q = t + o + Len(c) /\ Follow(c, q)
    BY <1>7, <1>8, <2>1
  <2>3. \A i \in 1 .. Len(c) : c[i] = t + o + i
    BY <2>2, Places
  <2> QED
    BY <2>1, <2>3
<1> QED
  BY <1>6, <1>7, <1>9 DEF PlaysInOrder

-----------------------------------------------------------------------------
\* What the actions do, one lemma each.

LEMMA CallKeeps ==
  ASSUME IInv, NEW c \in Command, Call(c)
  PROVE  IInv'
<1>1. /\ ~closeCalled /\ asyncq' = Append(asyncq, c) /\ closeCalled' = (c = "close")
      /\ UNCHANGED <<state, closing, cb, media, pipe, ring, writer, plugin, user, freed, failed,
                     starts, dropped, fault>>
  BY DEF Call
<1>2. Flags'
  <2>1. (c = "close") \in BOOLEAN
    OBVIOUS
  <2> QED
    BY <1>1, <2>1 DEF IInv, Types, Flags, media, pipe, ring, writer, plugin
<1>3. Names' /\ Numbers'
  BY <1>1 DEF IInv, Types, Names, Numbers, media, pipe, writer, user
<1>4. Ring' /\ PlaysInOrder'
  BY <1>1, SameRing DEF IInv, Types, ring
<1>5. state # "CLOSE"
  BY <1>1 DEF IInv, Ended, Closed
<1>6. Queue' /\ CloseIsLast'
  BY <1>1, <1>5, PutMessage DEF IInv, Types
<1>7. Counted' /\ RingKept'
  BY <1>1 DEF IInv, Counted, Held, RingKept, media, pipe, ring, Closed
<1>8. Ended'
  BY <1>1, <1>5 DEF IInv, Ended, user, Closed
<1>9. OneWriter'
  BY <1>1, SameWriter DEF IInv
<1> QED
  BY <1>2, <1>3, <1>4, <1>6, <1>7, <1>8, <1>9 DEF IInv, Types

LEMMA SetListenerKeeps ==
  ASSUME IInv, SetListener
  PROVE  IInv'
<1>1. /\ Handle("listen") /\ cb' = TRUE
      /\ UNCHANGED <<state, closing, media, pipe, ring, writer, plugin, user, freed, failed, starts,
                     dropped, fault>>
  BY DEF SetListener
<1>2. Queue' /\ CloseIsLast' /\ closeCalled' = closeCalled
  BY <1>1, TakeMessage DEF IInv, Types, Command
<1>3. Flags'
  BY <1>1, <1>2 DEF IInv, Types, Flags, media, pipe, ring, writer, plugin
<1>4. Names' /\ Numbers'
  BY <1>1 DEF IInv, Types, Names, Numbers, media, pipe, writer, user
<1>5. Ring' /\ PlaysInOrder'
  BY <1>1, SameRing DEF IInv, Types, ring
<1>6. Counted' /\ RingKept'
  BY <1>1 DEF IInv, Counted, Held, RingKept, media, pipe, ring, Closed
<1>7. Ended'
  BY <1>1, <1>2 DEF IInv, Ended, media, pipe, ring, plugin, user, Closed
<1>8. OneWriter'
  BY <1>1, SameWriter DEF IInv
<1> QED
  BY <1>2, <1>3, <1>4, <1>5, <1>6, <1>7, <1>8 DEF IInv, Types

LEMMA FinishKeeps ==
  ASSUME IInv, Finish
  PROVE  IInv'
<1>1. /\ Handle("finish") \/ Handle("cancel")
      /\ fault' \in {"null_wsi", fault}
      /\ UNCHANGED <<state, closing, cb, media, pipe, ring, writer, plugin, user, freed, failed,
                     starts, dropped>>
  BY DEF Finish
<1>2. Queue' /\ CloseIsLast' /\ closeCalled' = closeCalled
  <2>1. PICK c \in Command : Handle(c)
    BY <1>1 DEF Command
  <2> QED
    BY <1>1, <2>1, TakeMessage DEF IInv, Types
<1>3. Flags'
  BY <1>1, <1>2 DEF IInv, Types, Flags, media, pipe, ring, writer, plugin
<1>4. Names' /\ Numbers'
  BY <1>1 DEF IInv, Types, Names, Numbers, media, pipe, writer, user
<1>5. Ring' /\ PlaysInOrder'
  BY <1>1, SameRing DEF IInv, Types, ring
<1>6. Counted' /\ RingKept'
  BY <1>1 DEF IInv, Counted, Held, RingKept, media, pipe, ring, Closed
<1>7. Ended'
  BY <1>1, <1>2 DEF IInv, Ended, media, pipe, ring, plugin, user, Closed
<1>8. OneWriter'
  BY <1>1, SameWriter DEF IInv
<1> QED
  BY <1>2, <1>3, <1>4, <1>5, <1>6, <1>7, <1>8 DEF IInv, Types

\* A start that fails closes the recorder and the player, whatever it had done.
LEMMA StartFailsKeeps ==
  ASSUME IInv, StartFails, UNCHANGED ring \/ InitRing,
         connected' \in BOOLEAN, focus' \in BOOLEAN, focuses' \in Nat, focuses' >= Held(focus')
  PROVE  IInv'
<1>1. /\ Handle("start") /\ starts' = starts + 1 /\ failed' = TRUE /\ CloseMedia
      /\ UNCHANGED <<state, closing, cb, writer, leaving, user, freed, dropped, fault>>
  BY DEF StartFails
<1>2. Queue' /\ CloseIsLast' /\ closeCalled' = closeCalled /\ state # "CLOSE"
  BY <1>1, TakeMessage DEF IInv, Types, Command
<1>3. Ring' /\ PlaysInOrder' /\ (has_buffer' \/ has_buffer' = has_buffer)
  <2>1. CASE InitRing
    BY <2>1, EmptyRing DEF IInv, Types
  <2>2. CASE UNCHANGED ring
    BY <2>2, SameRing DEF IInv, Types, ring
  <2> QED
    BY <2>1, <2>2
<1>4. Flags'
  <2>1. has_buffer' \in BOOLEAN
    BY DEF IInv, Types, Flags, ring, InitRing
  <2> QED
    BY <1>1, <1>2, <2>1 DEF IInv, Types, Flags, CloseMedia, writer
<1>5. Names'
  BY <1>1 DEF IInv, Types, Names, CloseMedia, user
<1>6. recorders' = 0 /\ players' = 0 /\ ~recorder' /\ ~player' /\ ~connecting'
  BY <1>1 DEF IInv, Counted, CloseMedia, Held
<1>7. Numbers'
  BY <1>1, <1>6 DEF IInv, Types, Numbers, writer, user
<1>8. Counted'
  BY <1>1, <1>6 DEF IInv, Counted, Held
<1>9. RingKept'
  <2>1. player_pipe' # "none" => player_pipe # "none"
    BY <1>1 DEF CloseMedia
  <2> QED
    BY <1>2, <1>3, <1>6, <2>1 DEF IInv, RingKept, Closed
<1>10. Ended'
  BY <1>1, <1>2 DEF IInv, Ended, user, Closed
<1>11. OneWriter'
  BY <1>1, SameWriter DEF IInv
<1> QED
  BY <1>2, <1>3, <1>4, <1>5, <1>7, <1>8, <1>9, <1>10, <1>11 DEF IInv, Types

LEMMA FocusRequested ==
  ASSUME IInv, NEW granted \in BOOLEAN, RequestFocus(granted), ~recorder
  PROVE  /\ focus' = granted /\ focus' \in BOOLEAN /\ focuses' \in Nat
         /\ focuses' >= Held(focus')
         /\ ~failed => focuses' = Held(focus')
<1>1. focus' = granted /\ focuses' = focuses + Held(granted)
  BY DEF RequestFocus
<1>2. focuses \in Nat /\ focus \in BOOLEAN
  BY DEF IInv, Types, Numbers, Flags
<1>3. ~failed => focuses = 0
  BY <1>2 DEF IInv, Counted, Held
<1> QED
  BY <1>1, <1>2, <1>3 DEF Held

LEMMA StartDeniedKeeps ==
  ASSUME IInv, StartDenied
  PROVE  IInv'
<1>1. StartFails /\ ~recorder /\ RequestFocus(FALSE) /\ UNCHANGED ring /\ connected' = connected
  BY DEF StartDenied
<1>2. focus' \in BOOLEAN /\ focuses' \in Nat /\ focuses' >= Held(focus')
  BY <1>1, FocusRequested
<1>3. connected' \in BOOLEAN
  BY <1>1 DEF IInv, Types, Flags
<1> QED
  BY <1>1, <1>2, <1>3, StartFailsKeeps

LEMMA StartFailsLaterFocus ==
  ASSUME IInv, StartFailsLater
  PROVE  StartFails /\ focus' \in BOOLEAN /\ focuses' \in Nat /\ focuses' >= Held(focus')
<1>1. StartFails
  BY DEF StartFailsLater
<1>2. CASE recorder
  BY <1>1, <1>2 DEF StartFailsLater, IInv, Types, Flags, Numbers, Counted
<1>3. CASE ~recorder
  <2>1. PICK granted \in BOOLEAN : RequestFocus(granted)
    BY <1>3 DEF StartFailsLater
  <2> QED
    BY <1>1, <1>3, <2>1, FocusRequested
<1> QED
  BY <1>2, <1>3

LEMMA StartWithoutMediaKeeps ==
  ASSUME IInv, StartWithoutMedia
  PROVE  IInv'
<1>1. StartFailsLater /\ UNCHANGED ring /\ connected' = connected
  BY DEF StartWithoutMedia
<1>2. connected' \in BOOLEAN
  BY <1>1 DEF IInv, Types, Flags
<1> QED
  BY <1>1, <1>2, StartFailsLaterFocus, StartFailsKeeps

LEMMA StartRefusedKeeps ==
  ASSUME IInv, StartRefused
  PROVE  IInv'
<1>1. StartFailsLater /\ connected' \in {connected, TRUE} /\ (UNCHANGED ring \/ InitRing)
  BY DEF StartRefused
<1>2. connected' \in BOOLEAN
  BY <1>1 DEF IInv, Types, Flags
<1> QED
  BY <1>1, <1>2, StartFailsLaterFocus, StartFailsKeeps

LEMMA StartSucceedsKeeps ==
  ASSUME IInv, StartSucceeds
  PROVE  IInv'
<1>1. /\ Handle("start") /\ starts' = starts + 1 /\ InitRecorder /\ InitPlayer
      /\ connected' = TRUE /\ state' = "START"
      /\ UNCHANGED <<closing, cb, player_pipe, writer, leaving, user, freed, failed, dropped,
                     fault>>
  BY DEF StartSucceeds
<1>2. /\ Queue' /\ CloseIsLast' /\ closeCalled' = closeCalled /\ state # "CLOSE"
      /\ closing = "no"
  BY <1>1, TakeMessage DEF IInv, Types, Command, LoopTurn
<1>3. /\ recorder' = TRUE /\ recorders' = 1
      /\ focus' \in BOOLEAN /\ focuses' \in Nat /\ focuses' >= Held(focus')
      /\ ~failed => focuses' = Held(focus')
  <2>1. CASE recorder
    BY <1>1, <2>1 DEF InitRecorder, IInv, Types, Flags, Numbers, Counted, Held
  <2>2. CASE ~recorder
    <3>1. recorder' = TRUE /\ recorders' = recorders + 1
      BY <1>1, <2>2 DEF InitRecorder
    <3>2. PICK granted \in BOOLEAN : RequestFocus(granted)
      BY <1>1, <2>2 DEF InitRecorder
    <3>3. recorders' = 1
      BY <2>2, <3>1 DEF IInv, Counted, Held
    <3> QED
      BY <2>2, <3>1, <3>2, <3>3, FocusRequested
  <2> QED
    BY <2>1, <2>2
<1>4. /\ player' = TRUE /\ players' = 1 /\ connecting' \in BOOLEAN
      /\ Ring' /\ PlaysInOrder' /\ has_buffer' = TRUE
  <2>1. CASE player
    <3>1. UNCHANGED <<player, players, connecting, ring>>
      BY <1>1, <2>1 DEF InitPlayer
    <3>2. Ring' /\ PlaysInOrder'
      BY <3>1, SameRing DEF IInv, Types, ring
    <3>3. player = TRUE /\ has_buffer = TRUE /\ connecting \in BOOLEAN
      BY <2>1 DEF IInv, Types, Flags, RingKept, Closed
    <3>4. players = 1
      BY <2>1 DEF IInv, Counted, Held
    <3> QED
      BY <3>1, <3>2, <3>3, <3>4 DEF ring
  <2>2. CASE ~player
    <3>1. player' = TRUE /\ players' = players + 1 /\ connecting' = TRUE /\ InitRing
      BY <1>1, <2>2 DEF InitPlayer
    <3>2. Ring' /\ PlaysInOrder'
      BY <3>1, EmptyRing DEF IInv, Types
    <3>3. players' = 1
      BY <2>2, <3>1 DEF IInv, Counted, Held
    <3> QED
      BY <3>1, <3>2, <3>3 DEF InitRing
  <2> QED
    BY <2>1, <2>2
<1>5. Flags'
  BY <1>1, <1>2, <1>3, <1>4 DEF IInv, Types, Flags, writer
<1>6. Names'
  BY <1>1 DEF IInv, Types, Names, State, user
<1>7. Numbers'
  BY <1>1, <1>3, <1>4 DEF IInv, Types, Numbers, writer, user
<1>8. Counted'
  BY <1>1, <1>3, <1>4 DEF Counted, Held
<1>9. RingKept' /\ Ended'
  <2>1. ~freed /\ user_handle # "closing"
    BY <1>2 DEF IInv, Ended, Closed
  <2> QED
    BY <1>1, <1>2, <1>4, <2>1 DEF RingKept, Ended, user, Closed
<1>10. OneWriter'
  BY <1>1, SameWriter DEF IInv
<1> QED
  BY <1>2, <1>4, <1>5, <1>6, <1>7, <1>8, <1>9, <1>10 DEF IInv, Types

LEMMA CloseLKeeps ==
  ASSUME IInv, CloseL
  PROVE  IInv'
<1>1. /\ Handle("close") /\ state' = "CLOSE" /\ closing' = "uninit"
      /\ UNCHANGED <<cb, media, pipe, ring, writer, plugin, user, freed, failed, starts,
                     dropped, fault>>
  BY DEF CloseL
<1>2. /\ Queue' /\ CloseIsLast' /\ closeCalled' = closeCalled /\ closeCalled
      /\ state # "CLOSE"
  BY <1>1, TakeMessage DEF IInv, Types, Command
<1>3. Flags'
  BY <1>1, <1>2 DEF IInv, Types, Flags, media, pipe, ring, writer, plugin
<1>4. Names' /\ Numbers'
  BY <1>1 DEF IInv, Types, Names, State, Numbers, media, pipe, writer, user
<1>5. Ring' /\ PlaysInOrder'
  BY <1>1, SameRing DEF IInv, Types, ring
<1>6. Counted'
  BY <1>1 DEF IInv, Counted, Held, media
<1>7. RingKept'
  BY <1>1, <1>2 DEF IInv, RingKept, Closed, media, pipe, ring
<1>8. Ended'
  BY <1>1, <1>2 DEF IInv, Ended, Closed, user
<1>9. OneWriter'
  BY <1>1, SameWriter DEF IInv
<1> QED
  BY <1>2, <1>3, <1>4, <1>5, <1>6, <1>7, <1>8, <1>9 DEF IInv, Types

LEMMA CloseUninitKeeps ==
  ASSUME IInv, CloseUninit
  PROVE  IInv'
<1>1. /\ Turn /\ closing = "uninit" /\ closing' = "release" /\ Uninit
      /\ UNCHANGED <<state, cb, media, pipe, ring, writer, asyncq, user_handle, freed, past,
                     dropped, fault>>
  BY DEF CloseUninit
<1>2. Queue' /\ CloseIsLast'
  BY <1>1, SameQueue DEF IInv, Types, past
<1>3. Ring' /\ PlaysInOrder'
  BY <1>1, SameRing DEF IInv, Types, ring
<1>4. connected' = FALSE /\ leaving' \in BOOLEAN
  BY <1>1 DEF Uninit, IInv, Types, Flags
<1>5. user_asyncq' \in Nat
  <2>1. user_asyncq' \in {user_asyncq, user_asyncq + Held(connected /\ ~leaving')}
    BY <1>1 DEF Uninit, Post
  <2>2. Held(connected /\ ~leaving') \in Nat
    BY DEF Held
  <2> QED
    BY <2>1, <2>2 DEF IInv, Types, Numbers
<1>6. Flags'
  BY <1>1, <1>4 DEF IInv, Types, Flags, media, pipe, ring, writer, past
<1>7. Names' /\ Numbers'
  BY <1>1, <1>5 DEF IInv, Types, Names, Numbers, media, pipe, writer, past
<1>8. Counted'
  BY <1>1 DEF IInv, Counted, Held, media, past
<1>9. RingKept'
  BY <1>1 DEF IInv, RingKept, Closed, media, pipe, ring
<1>10. Ended'
  BY <1>1, <1>4 DEF IInv, Ended, Closed, past
<1>11. OneWriter'
  BY <1>1, SameWriter DEF IInv
<1> QED
  BY <1>2, <1>3, <1>6, <1>7, <1>8, <1>9, <1>10, <1>11 DEF IInv, Types

LEMMA CloseReleaseKeeps ==
  ASSUME IInv, CloseRelease
  PROVE  IInv'
<1>1. /\ Turn /\ closing = "release" /\ closing' = "no" /\ CloseMedia
      /\ focus' = FALSE /\ focuses' = focuses - Held(focus) /\ has_buffer' = FALSE
      /\ user_handle' = "closing"
      /\ UNCHANGED <<state, cb, buffer, queued, sent, lost, writer, plugin, asyncq,
                     user_asyncq, freed, past, dropped, fault>>
  BY DEF CloseRelease, CloseAsync
<1>2. state = "CLOSE" /\ closeCalled /\ ~connected
  BY <1>1 DEF IInv, Ended, Closed
<1>3. Queue' /\ CloseIsLast'
  BY <1>1, SameQueue DEF IInv, Types, past
<1>4. Ring' /\ PlaysInOrder'
  BY <1>1, SameRing DEF IInv, Types
<1>5. /\ recorders' = 0 /\ players' = 0 /\ recorder' = FALSE /\ player' = FALSE
      /\ connecting' = FALSE
  BY <1>1 DEF IInv, Counted, CloseMedia, Held
<1>6. focuses' \in Nat /\ (~failed => focuses' = 0)
  BY <1>1 DEF IInv, Types, Flags, Numbers, Counted, Held
<1>7. Flags'
  BY <1>1, <1>5 DEF IInv, Types, Flags, writer, plugin, past
<1>8. Names'
  BY <1>1 DEF IInv, Types, Names, State, CloseMedia
<1>9. Numbers'
  BY <1>1, <1>5, <1>6 DEF IInv, Types, Numbers, writer, past
<1>10. Counted'
  BY <1>1, <1>5, <1>6 DEF Counted, Held, past
<1>11. RingKept' /\ Ended'
  BY <1>1, <1>2, <1>5 DEF RingKept, Ended, Closed, plugin, past
<1>12. OneWriter'
  BY <1>1, SameWriter DEF IInv
<1> QED
  BY <1>3, <1>4, <1>7, <1>8, <1>9, <1>10, <1>11, <1>12 DEF IInv, Types

\* Steps that leave recorder, player and ring alone.
LEMMA QuietKeeps ==
  ASSUME IInv,
         UNCHANGED <<state, closing, cb, media, ring, writer, asyncq, user_handle, past, dropped>>,
         connecting' \in {connecting, FALSE}, player_pipe' \in {player_pipe, "open"},
         player_pipe' # player_pipe => player,
         connected' \in {connected, FALSE}, leaving' = leaving,
         user_asyncq' \in Nat, freed' \in BOOLEAN, freed' => Closed,
         fault' \in {fault, "freed"}
  PROVE  IInv'
<1>1. Queue' /\ CloseIsLast'
  BY SameQueue DEF IInv, Types, past
<1>2. Ring' /\ PlaysInOrder'
  BY SameRing DEF IInv, Types, ring
<1>3. Flags'
  <2>1. connecting' \in BOOLEAN
    BY DEF IInv, Types, Flags
  <2>2. connected' \in BOOLEAN
    BY DEF IInv, Types, Flags
  <2>3. /\ cb' \in BOOLEAN /\ recorder' \in BOOLEAN /\ player' \in BOOLEAN
        /\ focus' \in BOOLEAN /\ has_buffer' \in BOOLEAN /\ write_data' \in BOOLEAN
        /\ leaving' \in BOOLEAN /\ failed' \in BOOLEAN /\ closeCalled' \in BOOLEAN
    BY DEF IInv, Types, Flags, media, ring, writer, past
  <2> QED
    BY <2>1, <2>2, <2>3 DEF Flags
<1>4. Names' /\ Numbers'
  BY DEF IInv, Types, Names, Numbers, media, writer, past
<1>5. Counted'
  BY DEF IInv, Counted, Held, media, past
<1>6. RingKept'
  <2>1. player' = player /\ has_buffer' = has_buffer /\ state' = state
    BY DEF media, ring
  <2>2. connecting' => player
    BY DEF IInv, RingKept, Closed
  <2>3. player => has_buffer
    BY DEF IInv, RingKept, Closed
  <2>4. player_pipe # "none" /\ ~Closed => has_buffer
    BY DEF IInv, RingKept, Closed
  <2>5. player_pipe' # "none" /\ ~Closed => has_buffer
    BY <2>3, <2>4
  <2>6. Closed' <=> Closed
    BY DEF Closed
  <2> QED
    BY <2>1, <2>2, <2>3, <2>5, <2>6 DEF RingKept, Closed
<1>7. Ended'
  <2>1. /\ recorder' = recorder /\ player' = player /\ focus' = focus
        /\ has_buffer' = has_buffer /\ state' = state /\ closeCalled' = closeCalled
    BY DEF media, ring, past
  <2>2. Closed' <=> Closed
    BY DEF Closed
  <2>3. Closed => ~recorder /\ ~player /\ ~focus /\ ~connecting' /\ ~has_buffer
    BY DEF IInv, Ended, Closed
  <2>4. state = "CLOSE" /\ closing # "uninit" => ~connected'
    BY DEF IInv, Ended, Closed
  <2>5. /\ state = "CLOSE" => closeCalled
        /\ closing # "no" => state = "CLOSE"
        /\ user_handle = "closing" => Closed
    BY DEF IInv, Ended, Closed
  <2> QED
    BY <2>1, <2>2, <2>3, <2>4, <2>5 DEF Ended, Closed
<1>8. OneWriter'
  BY SameWriter DEF IInv
<1> QED
  BY <1>1, <1>2, <1>3, <1>4, <1>5, <1>6, <1>7, <1>8 DEF IInv, Types

LEMMA UserQueueClosedKeeps ==
  ASSUME IInv, UserQueueClosed
  PROVE  IInv'
<1>1. Closed
  BY DEF UserQueueClosed, IInv, Ended
<1> QED
  BY <1>1, QuietKeeps DEF UserQueueClosed, IInv, Types, Numbers, pipe, plugin, user

LEMMA UserCallbackKeeps ==
  ASSUME IInv, UserCallback
  PROVE  IInv'
<1>1. user_asyncq' \in Nat
  BY DEF UserCallback, IInv, Types, Numbers
<1>2. freed' \in BOOLEAN /\ (freed' => Closed)
  BY DEF UserCallback, IInv, Types, Flags, Ended, Closed
<1> QED
  BY <1>1, <1>2, QuietKeeps DEF UserCallback, pipe, plugin

LEMMA LateCallbackKeeps ==
  ASSUME IInv, LateCallback
  PROVE  IInv'
<1>1. freed' \in BOOLEAN /\ (freed' => Closed)
  BY DEF LateCallback, IInv, Types, Flags, Ended, Closed
<1>2. user_asyncq' \in Nat
  BY DEF LateCallback, IInv, Types, Numbers, user
<1> QED
  BY <1>1, <1>2, QuietKeeps DEF LateCallback, pipe, plugin, user

LEMMA PlayerConnectedKeeps ==
  ASSUME IInv, PlayerConnected
  PROVE  IInv'
<1>1. freed' \in BOOLEAN /\ (freed' => Closed)
  BY DEF PlayerConnected, IInv, Types, Flags, Ended, Closed
<1>2. user_asyncq' \in Nat
  BY DEF PlayerConnected, IInv, Types, Numbers, user
<1>3. player
  BY DEF PlayerConnected, IInv, RingKept, Closed
<1> QED
  BY <1>1, <1>2, <1>3, QuietKeeps DEF PlayerConnected, plugin, user

LEMMA EngineEventKeeps ==
  ASSUME IInv, NEW ends \in BOOLEAN, EngineEvent(ends)
  PROVE  IInv'
<1>1. freed' \in BOOLEAN /\ (freed' => Closed)
  BY DEF EngineEvent, IInv, Types, Flags, Ended, Closed
<1>2. user_asyncq' \in Nat
  BY DEF EngineEvent, Post, IInv, Types, Numbers
<1>3. connected' \in {connected, FALSE}
  BY DEF EngineEvent
<1> QED
  BY <1>1, <1>2, <1>3, QuietKeeps DEF EngineEvent, pipe

LEMMA StutterKeeps ==
  ASSUME IInv, UNCHANGED vars
  PROVE  IInv'
<1>1. freed' \in BOOLEAN /\ (freed' => Closed)
  BY DEF vars, IInv, Types, Flags, Ended, Closed
<1>2. user_asyncq' \in Nat
  BY DEF vars, user, IInv, Types, Numbers
<1> QED
  BY <1>1, <1>2, QuietKeeps DEF vars, pipe, plugin, user

LEMMA FocusLostKeeps ==
  ASSUME IInv, FocusLost
  PROVE  IInv'
<1>1. /\ asyncq' = Append(asyncq, "finish")
      /\ UNCHANGED <<state, closing, cb, media, pipe, ring, writer, plugin, user, freed, past,
                     dropped, fault>>
  BY DEF FocusLost
<1>2. Queue' /\ CloseIsLast'
  BY <1>1, PutMessage DEF IInv, Types, Command, past
<1>3. Flags'
  BY <1>1 DEF IInv, Types, Flags, media, pipe, ring, writer, plugin, past
<1>4. Names' /\ Numbers'
  BY <1>1 DEF IInv, Types, Names, Numbers, media, pipe, writer, user, past
<1>5. Ring' /\ PlaysInOrder'
  BY <1>1, SameRing DEF IInv, Types, ring
<1>6. Counted' /\ RingKept'
  BY <1>1 DEF IInv, Counted, Held, RingKept, media, pipe, ring, past, Closed
<1>7. Ended'
  BY <1>1 DEF IInv, Ended, media, pipe, ring, plugin, user, past, Closed
<1>8. OneWriter'
  BY <1>1, SameWriter DEF IInv
<1> QED
  BY <1>2, <1>3, <1>4, <1>5, <1>6, <1>7, <1>8 DEF IInv, Types

\* Steps that touch nothing but the ring's chunks and the writes.
LEMMA WritingKeeps ==
  ASSUME IInv, Ring' /\ PlaysInOrder', OneWriter',
         UNCHANGED <<state, closing, cb, media, pipe, has_buffer, plugin, asyncq, user_handle, freed,
                     past>>,
         write_data' \in BOOLEAN, writes' \in Nat, user_asyncq' \in Nat, dropped' \in Nat,
         fault' \in {fault, "stale_pipe", "no_ring"}
  PROVE  IInv'
<1>1. Queue' /\ CloseIsLast'
  BY SameQueue DEF IInv, Types, past
<1>2. Flags'
  BY DEF IInv, Types, Flags, media, pipe, plugin, past
<1>3. Names' /\ Numbers'
  BY DEF IInv, Types, Names, Numbers, media, pipe, past
<1>4. Counted'
  BY DEF IInv, Counted, Held, media, past
<1>5. RingKept'
  BY DEF IInv, RingKept, media, pipe, Closed
<1>6. Ended'
  BY DEF IInv, Ended, media, pipe, plugin, past, Closed
<1> QED
  BY <1>1, <1>2, <1>3, <1>4, <1>5, <1>6 DEF IInv, Types

\* What a write leaves of the writer, if none is in flight beside it.
LEMMA WriteIsOne ==
  ASSUME NEW b, Write(b, 0)
  PROVE  /\ OneWriter' /\ write_data' \in BOOLEAN /\ writes' \in Nat
         /\ fault' \in {fault, "stale_pipe", "no_ring"}
BY DEF Write, OneWriter, OneWrite

LEMMA WriteDoneKeeps ==
  ASSUME IInv, NEW ok \in BOOLEAN, WriteDone(ok)
  PROVE  IInv'
<1>1. /\ writes > 0
      /\ UNCHANGED <<state, closing, cb, media, pipe, has_buffer, queued, lost, plugin, asyncq,
                     user, freed, past, dropped>>
  BY DEF WriteDone
<1>2. writes = 1 /\ write_data = TRUE
  BY <1>1 DEF IInv, Types, Flags, Numbers, OneWriter, OneWrite
<1>3. user_asyncq' \in Nat /\ dropped' \in Nat
  BY <1>1 DEF IInv, Types, Numbers, user
<1>4. Ring /\ PlaysInOrder
  BY DEF IInv, Types
<1>5. CASE buffer # <<>> /\ Write(buffer, writes - 1)
  <2>1. Write(buffer, 0)
    BY <1>2, <1>5
  <2>2. Ring' /\ PlaysInOrder'
    <3>1. /\ buffer \in Seq(Nat) /\ Len(buffer) <= MaxItems /\ queued' \in Nat
          /\ lost' \in Nat /\ queued' = queued /\ lost' = lost
      BY <1>1, <1>4 DEF Ring
    <3>2. queued = sent + lost + Len(buffer) /\ Follow(buffer, queued)
      BY <1>4, FollowIsOrder
    <3> QED
      BY <1>4, <1>5, <2>1, <3>1, <3>2, WriteInOrder
  <2> QED
    BY <1>1, <1>3, <2>1, <2>2, WriteIsOne, WritingKeeps DEF user
<1>6. CASE fault' = "no_ring" /\ UNCHANGED <<buffer, sent, writer>>
  <2>1. Ring' /\ PlaysInOrder'
    BY <1>1, <1>4, <1>6, SameRing
  <2>2. OneWriter' /\ write_data' \in BOOLEAN /\ writes' \in Nat
    BY <1>2, <1>6, SameWriter DEF IInv, writer
  <2> QED
    BY <1>1, <1>3, <1>6, <2>1, <2>2, WritingKeeps DEF user
<1>7. CASE writes' = writes - 1 /\ UNCHANGED <<buffer, sent, write_data, fault>>
  <2>1. Ring' /\ PlaysInOrder'
    BY <1>1, <1>4, <1>7, SameRing
  <2>2. OneWriter' /\ write_data' \in BOOLEAN /\ writes' \in Nat
    BY <1>2, <1>7 DEF OneWriter, OneWrite
  <2> QED
    BY <1>1, <1>3, <1>7, <2>1, <2>2, WritingKeeps DEF user
<1> QED
  BY <1>5, <1>6, <1>7 DEF WriteDone

LEMMA EngineAudioKeeps ==
  ASSUME IInv, NEW length \in Lengths, EngineAudio(length)
  PROVE  IInv'
<1>1. /\ PlayAudio(length) /\ Post(1)
      /\ UNCHANGED <<state, closing, cb, media, pipe, has_buffer, plugin, asyncq, user_handle,
                     freed, past>>
  BY DEF EngineAudio
<1>2. user_asyncq' \in Nat
  BY <1>1 DEF Post, IInv, Types, Numbers
<1>3. Ring /\ PlaysInOrder
  BY DEF IInv, Types
<1>4. /\ writes \in Nat /\ dropped \in Nat /\ write_data \in BOOLEAN /\ queued \in Nat
      /\ sent \in Nat /\ lost \in Nat /\ length \in Nat
  BY ConversationAssumption DEF IInv, Types, Flags, Numbers, Ring
<1>5. CASE dropped' = dropped + length /\ UNCHANGED <<buffer, queued, sent, lost, writer, fault>>
  <2>1. Ring' /\ PlaysInOrder'
    BY <1>3, <1>5, SameRing
  <2>2. OneWriter' /\ write_data' \in BOOLEAN /\ writes' \in Nat /\ dropped' \in Nat
    BY <1>4, <1>5, SameWriter DEF IInv, writer
  <2> QED
    BY <1>1, <1>2, <1>5, <2>1, <2>2, WritingKeeps
<1> DEFINE b == buffer \o Chunk(length)
           l == Latest(b)
<1>6. CASE /\ queued' = queued + length /\ dropped' = dropped
           /\ lost' = lost + Overwritten(b)
           /\ IF write_data
              THEN buffer' = l /\ UNCHANGED <<sent, writer, fault>>
              ELSE Write(l, writes)
  <2>1. queued' \in Nat /\ dropped' \in Nat
    BY <1>4, <1>6
  <2>2. /\ b \in Seq(Nat) /\ Len(b) = Len(buffer) + length /\ Len(b) > 0
        /\ Len(buffer) \in Nat /\ Follow(b, queued')
    BY <1>3, <1>6, ChunkFollows
  <2>3. queued = sent + lost + Len(buffer)
    BY <1>3, FollowIsOrder
  <2> HIDE DEF b
  <2>4. /\ l \in Seq(Nat) /\ l # <<>> /\ Len(l) <= MaxItems /\ Follow(l, queued')
        /\ Overwritten(b) \in Nat /\ Overwritten(b) + Len(l) = Len(b)
    BY <2>1, <2>2, LatestFollows
  <2> HIDE DEF l
  <2>5. lost' \in Nat /\ queued' = sent + lost' + Len(l)
    <3>1. PICK o \in Nat : o = Overwritten(b)
      BY <2>4
    <3>2. lost' = lost + o /\ queued' = queued + length /\ Len(l) \in Nat
      BY <1>6, <2>4, <3>1
    <3>3. o + Len(l) = Len(buffer) + length
      BY <2>2, <2>4, <3>1
    <3> QED
      BY <1>4, <2>2, <2>3, <3>2, <3>3
  <2>6. CASE write_data
    <3>1. buffer' = l /\ sent' = sent /\ UNCHANGED <<writer, fault>>
      BY <1>6, <2>6
    <3>2. Ring'
      BY <1>4, <2>1, <2>4, <2>5, <3>1 DEF Ring
    <3>3. ASSUME NEW i \in 1 .. Len(l) PROVE l[i] = sent + lost' + i
      <4>1. l[i] = queued' - Len(l) + i
        BY <2>4 DEF Follow
      <4> QED
        BY <1>4, <2>4, <2>5, <4>1
    <3>4. PlaysInOrder'
      BY <2>5, <3>1, <3>3 DEF PlaysInOrder
    <3>5. OneWriter' /\ write_data' \in BOOLEAN /\ writes' \in Nat
      BY <1>4, <3>1, SameWriter DEF IInv, writer
    <3> QED
      BY <1>1, <1>2, <2>1, <3>1, <3>2, <3>4, <3>5, WritingKeeps
  <2>7. CASE ~write_data
    <3>1. writes = 0
      BY <1>4, <2>7 DEF IInv, OneWriter
    <3>2. Write(l, 0)
      BY <1>6, <2>7, <3>1
    <3>3. Ring' /\ PlaysInOrder'
      BY <1>3, <2>1, <2>4, <2>5, <3>2, WriteInOrder
    <3>4. /\ OneWriter' /\ write_data' \in BOOLEAN /\ writes' \in Nat
          /\ fault' \in {fault, "stale_pipe", "no_ring"}
      BY <3>2, WriteIsOne
    <3> QED
      BY <1>1, <1>2, <2>1, <3>3, <3>4, WritingKeeps
  <2> QED
    BY <2>6, <2>7
<1> QED
  BY <1>1, <1>5, <1>6 DEF PlayAudio

-----------------------------------------------------------------------------
LEMMA NextKeeps == IInv /\ [Next]_vars => IInv'
<1> SUFFICES ASSUME IInv, [Next]_vars PROVE IInv'
  OBVIOUS
<1>1. ASSUME NEW c \in Command, Call(c) PROVE IInv'
  BY <1>1, CallKeeps
<1>2. CASE MessageHandler
  BY <1>2, SetListenerKeeps, FinishKeeps, StartSucceedsKeeps, StartDeniedKeeps,
     StartWithoutMediaKeeps, StartRefusedKeeps, CloseLKeeps, CloseUninitKeeps,
     CloseReleaseKeeps DEF MessageHandler, StartL
<1>3. CASE UserQueueClosed \/ UserCallback
  BY <1>3, UserQueueClosedKeeps, UserCallbackKeeps
<1>4. CASE PlayerConnected \/ FocusLost
  BY <1>4, PlayerConnectedKeeps, FocusLostKeeps
<1>5. ASSUME NEW ok \in BOOLEAN, WriteDone(ok) PROVE IInv'
  BY <1>5, WriteDoneKeeps
<1>6. CASE LateCallback \/ \E length \in Lengths : EngineAudio(length)
  BY <1>6, LateCallbackKeeps, EngineAudioKeeps
<1>7. ASSUME NEW ends \in BOOLEAN, EngineEvent(ends) PROVE IInv'
  BY <1>7, EngineEventKeeps
<1>8. CASE UNCHANGED vars
  BY <1>8, StutterKeeps
<1> QED
  BY <1>1, <1>2, <1>3, <1>4, <1>5, <1>6, <1>7, <1>8 DEF Next

LEMMA Invariance == Spec => []IInv
<1> QED
  BY InitHolds, NextKeeps, PTL DEF Spec

\* Every variable has its type, the ring never holds more than its capacity,
\* and as long as the plugin has a connection and there is a pipe to write to
\* the engine thread finds a ring: play_audio never meets the ring that
\* ai_conversation_close_handler freed.
THEOREM TypesAndRing == Spec => []Inv
<1>1. IInv => Inv
  <2>1. ASSUME IInv PROVE NoAudioWithoutRing
    BY <2>1 DEF IInv, Types, Flags, Ended, RingKept, NoAudioWithoutRing, Closed
  <2> QED
    BY <2>1, TypesAreTypeOK DEF Inv, IInv
<1> QED
  BY <1>1, Invariance, PTL

\* Although the engine thread and the user's loop both begin writes of the one
\* write_req and frame_buf, the thread does so only while write_req.data is
\* NULL and the end of a write begins the rest: two are never in flight.
THEOREM WritesAreOne == Spec => []OneWrite
<1>1. IInv => OneWrite
  BY DEF IInv, OneWriter
<1> QED
  BY <1>1, Invariance, PTL

\* Whatever stops, fails, overflows and starts again: the units in a player's
\* ring are the latest ones, in the order in which they came, and every unit a
\* ring took was written once, waits in it or was overwritten in it.
THEOREM PlayedInOrder == Spec => []PlaysInOrder
<1>1. IInv => PlaysInOrder
  BY DEF IInv
<1> QED
  BY <1>1, Invariance, PTL

\* A conversation none of whose starts failed holds no recorder, player, focus
\* or ring from the close handler on, through all later messages and callbacks.
THEOREM ClosedHoldsNothing == Spec => []CloseGivesBack
<1>1. IInv => CloseGivesBack
  BY DEF IInv, Types, Flags, Counted, Held, Ended, CloseGivesBack, Closed
<1> QED
  BY <1>1, Invariance, PTL
=============================================================================
