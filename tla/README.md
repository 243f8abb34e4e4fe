# A verification project for the AI framework (speech recognition, speech synthesis, conversation)

The repository is a C framework for NuttX/Vela.  It offers three engines to an
application (`ai_asr.h`, `ai_tts.h`, `ai_conversation.h`), each of which joins
a media recorder or player, an audio focus and a cloud service behind a plugin.
What makes it hard is not computation.  It is that every engine is shared by two
or three threads, that every operation is asynchronous (the media library
answers later, the server answers or not, events travel through queues), and
that a session may be ended by five parties at once.  This directory holds TLA+
models of that control, TLC configurations that check them on small instances,
and proofs for every value of the constants.

## 1. Inventory

| component | source | state | operations | status |
|---|---|---|---|---|
| ring buffer | `utils/ai_ring_buffer.[ch]` | storage, `head_index`, `tail_index` | queue, dequeue, peek, array forms, clear | modelled, on one thread and between two; proved |
| recogniser | `src/asr/ai_asr.c` | `asr_context_t`: state, listener, recorder, focus, last text, close flags | set_listener, start, finish, cancel, close; recorder, focus and plugin callbacks | modelled and proved |
| synthesiser | `src/tts/ai_tts.c` | `tts_context_t`: state, listener, player, pipe, ring, write in flight, end flags | set_listener, speak, stop, close; player, write, focus and plugin callbacks | modelled and proved |
| recognition plugin | `src/asr/volc/ai_volc.c` | connection, audio ring, reassembly buffer, thread flags | init, start, write_audio, finish, uninit; websocket callbacks; thread | modelled and proved |
| synthesis plugin | `src/tts/volc/ai_volc_tts.c` | connection and its handshake, waiting text, thread flags | init, speak, stop, uninit; websocket callbacks; thread | modelled and proved |
| conversation | `src/conversation/ai_conversation.c` | recorder, player, focus, two queues, player ring, one `uv_write_t` | set_listener, start, finish, cancel, close; player, write, focus and plugin callbacks | modelled and proved |
| conversation plugin | `src/conversation/volc/ai_volc_conversation.c` | connection, protocol state, send ring, thread flags | init, start, write_audio, finish, cancel, uninit; websocket callbacks; thread | modelled and proved |
| tool | `ai_tool.c` | table of engines, command queue, one shared result under a mutex | commands, recogniser's callback, quit | the commands that change the table, both threads, the callback; the table proved |
| screen | `ai_lvgl.c` | a button timer, the text it shows | the callbacks of its two buttons | modelled, with the tool it is linked to |
| base64 | `utils/base64.c`, and the coders inside the conversation plugin | none | encode, decode | described and proved |
| plugin registries | `src/*/plugin/*.c` | none | allocate and init, uninit and free | not modelled |
| XiaoAi plugin | `src/asr/xiaoai/ai_xiaoai.c` | a closed library's handle | as `ai_volc.c` | not modelled |
| fonts | `fonts/mic.c` | none | none | not modelled |

### How the parts interact

*Recogniser and synthesiser.*  The API functions allocate a message and put it
on a queue (`ctx->asyncq`) that the **engine thread** of the plugin serves.  That
thread runs everything else: message handlers, callbacks of the media library,
callbacks of the audio focus and the websocket callbacks, one after the other,
each to its end.  Events for the application go through a second queue
(`ctx->user_asyncq`) to the **user's loop** if one was passed at creation, and are
delivered directly by the engine thread otherwise.  The end of an engine's life
crosses the threads once more: the recogniser sends a `closed` event and is freed
on the user's loop; the synthesiser closes its user queue on the user's loop and
is then freed by the engine thread.

*Conversation.*  Here messages, media callbacks and API calls run on the
**user's** loop, and the engine thread runs only the websocket, but calls
straight into the conversation (`conversation_engine_event_cb`, which queues
audio into the player's ring) and shares the plugin's state and send ring with
`write_audio`.  Nothing is locked.

*Tool and screen.*  `ai_tool.c` and `ai_lvgl.c` are the applications.  Each has a
main thread (commands, or LVGL's callbacks) and the loop thread on which the
engines' events are delivered; the recogniser's text goes from one to the other
by a global pointer and a mutex.

### What is hard

Concurrency: the two loops on one context, the close handshake between the
recorder's callback and the close message, the reuse of a connection whose
destruction is pending.  Ordering: a session's end is found by the server, the
silence clock, the media library, the focus and the user in any order.  Partial
failure: focus, plugin and recorder or player are taken one by one.  Liveness:
writes to the player chain themselves, and one missed link ends the audio.
`PROJECT.json` lists these places line by line under `hazards`, each with the
properties that would notice it going wrong.

### What makes each component correct

* ring buffer: it is a bounded queue that gives up its oldest character when full;
* recogniser, synthesiser: resources are given back on every path; the
  listener sees well-formed sessions with one last event; every accepted close
  frees the context, nothing else does, and nothing uses it afterwards; audio
  flows as long as there is some and its end is noticed; what belongs to one
  session does not leak into the next;
* conversation: the same, and the player's ring and the send ring survive their
  two threads;
* plugins: the thread, its flags and its memory begin and end in the right
  order whatever fails; audio is sent only in a session.

## 2. The modules

| module | stands for |
|---|---|
| `BoundedFifo` | what a ring buffer promises: a sequence of at most `Capacity` characters |
| `RingBuffer` | `ai_ring_buffer.c`: storage, masked indices, overwriting; implements `BoundedFifo` by reading the characters between tail and head |
| `SharedRing` | the same file between two threads that do not lock it, one access to storage or index at a time |
| `AsrListener` | what an application may expect of a recogniser's events |
| `Asr` | `ai_asr.c`; implements `AsrListener` |
| `TtsListener` | what an application may expect of a synthesiser's events |
| `Tts` | `ai_tts.c`, with what it sees of its plugin; implements `TtsListener` |
| `VolcEngine` | what the recogniser's and the synthesiser's plugins have in common, line by line: the engine thread and its flags, init and uninit, the life of a websocket, the reassembly of messages |
| `VolcAsr` | `ai_volc.c`: `VolcEngine` and start, write_audio, finish, the audio ring, the initial request |
| `VolcTts` | `ai_volc_tts.c`: `VolcEngine` and speak, stop, the handshake, the waiting text, and the server at the other end |
| `Conversation` | `ai_conversation.c`: the player's side, the handlers, and what the plugin's thread does to them |
| `VolcConversation` | `ai_volc_conversation.c`: the user's loop and the engine's thread on one engine, without a lock |
| `AiTool` | `ai_tool.c`: the table of engines, the commands, both threads, the recogniser's callback |
| `AiLvgl` | `ai_lvgl.c`: LVGL's thread, on top of `AiTool`, whose loop thread and callback it shares |
| `Base64` | the base64 coders, group by group |
| `RingAndTableProofs` | theorems about `RingBuffer`, and about the table of engines of `AiTool` and `AiLvgl` |
| `VolcConversationProofs` | theorems about `VolcConversation`, and about the coders of `Base64`, part of which are the plugin's own |
| `SharedRingProofs`, `AsrProofs`, `TtsProofs`, `VolcAsrProofs`, `VolcTtsProofs`, `ConversationProofs` | theorems about the module each is named after |

### State and actions

The variables have the names of the fields they model
(`state`, `is_closed`, `is_send_finished`, `handle`, `frame_buf`, `data_end`, ...).  A
pointer of which the code only asks whether it is NULL is a Boolean; `asyncq` is
the sequence of waiting messages.  A second group of variables, marked in each
module, exists for the properties only (`starts`, `mixed`, `torn`, ...) and guards
nothing but the bounds.

There is one action per message handler and per outcome of it (`StartSucceeds`,
`StartPluginFails`, `StartRecorderDenied`, `StartRecorderFails`), one per
callback, one for the user's calls, and one for each step of the user's loop.
A handler is one atomic step, because the thread that runs it runs nothing else,
except where another thread can see it half done: `media_recorder_close_cb` is
split in two after it has sent the `closed` event, since the user's loop may free
the context before the callback's last assignment.

In `Conversation` the handlers and media callbacks are steps of the user's loop,
and `EngineAudio` and `EngineEvent` are steps of the plugin's thread, which come between
any two of them.  Within `ai_conversation_play_audio` and `write_audio_data_cb` the
ring is read and written in one step; how the two threads meet inside the
ring's functions is the subject of `SharedRing`.  The server's chunks have several
lengths; the ring counts in units and numbers them, so that a lost, repeated or
reordered one is seen.  A chunk is refused only when the ring is full to the last unit;
otherwise all of it is queued, and what does not fit overwrites the oldest units, as the
code does.  The close handler is three steps (`CloseL`: the state; `CloseUninit`: the plugin;
`CloseRelease`: media, focus, ring, queue), since the plugin's thread goes on until the
second.  A start is an action for success and one
for each way in which what it has done before it fails differs (`StartDenied`,
`StartWithoutMedia`, `StartRefused`).  The recorder is a handle only: its pipe and
`read_buffer_cb` pass audio on to the plugin's `write_audio`, which is in
`VolcConversation`.

`VolcConversation` is finer: `upc` and `epc` are the places in the code at which the
user's loop and the engine's thread are, and each action goes from one place to the
next, so that every read and write of a shared field that matters is a step of its
own (`Compare` and `Listen` are the two halves of one `if`).  A websocket callback is one
step.  `conn`, `session` and `requested` are what lws and the server know of the
connection; `lws_context` and `wsi` are what the engine points to, and may point to
something that is gone (`"dead"`).  The send ring is a number of messages.

In `VolcEngine` the API's calls are messages that the engine's own thread handles
inside `uv_run`, so they are one step each; `tpc` is the place of the thread in its
round (`uv_run`, `lws_service`, the first-round post of the semaphore, the test of
`is_closed`, the clean-up), and init, in another thread, waits or gives up in between.
`uninit` of the recogniser runs on the user's loop and is two steps (`UninitForgets`,
`UninitCloses`); that of the synthesiser runs on the engine thread and is one.  One
`lws_service` may make several callbacks (`tpc = "serving"`), and what the first of them
does to `is_finished` does not keep the others away.  A callback that reports may be
answered by the API with finish or stop in the same step (`ends`).  The bytes in the
reassembly buffer are kept one by one, the first byte of a message with a label and
the others as `More`: whether what is parsed is one whole message can then be read
from the buffer.  `VolcAsr` counts the audio ring in bytes and remembers of its oldest and
newest byte which half of a sample they are.  `VolcTts` has the server's side of the
handshake (`asked`: the answers it owes).

`SharedRing` gives each access to the storage, `head_index` or `tail_index` a step, with
`ppc` and `cpc` as the places of producer and consumer; an increment is a load and a
store.

In `AiTool` a command is carried out in one step between two callbacks, and the
callback is taken apart where LVGL's thread can come in between (`Lock`, `Free`, `Strdup`,
`Unlock`); the same holds of LVGL's callbacks in `AiLvgl`.  One run covers both programs:
the variable `screen` says which of them runs.

`Tts` has of its plugin what the API sees: the connection and `gone`, which says that the engine
thread has left its loop because `lws_service` failed (`ServiceFails`).  A thread that is gone
handles no message any more, and a message sent to it goes to a queue that was freed (fault
`no_queue`).  `VolcConversation` begins with the thread: it starts, or it cannot make its loop or
its queue (`ThreadFails`), and then nobody posts the semaphore that init waits for.

Abstractions.  Texts are model values or numbers; audio is counted in bytes in `VolcAsr`, in units of
which a frame, a chunk and the ring are multiples in `Conversation`, and in chunks in `Tts`, where
every chunk is one write; the silence clock is a choice, allowed only where the code compares the
clock at all; formats, headers, JSON, session ids, widgets and logging are left out.
Memory exhaustion is not modelled, nor is an application that uses an engine after
closing it.

Undefined behaviour.  Where the code dereferences NULL, writes to a closed
pipe, or uses memory that was given back, `fault` records which, and nothing is
modelled beyond it; every property speaks of the executions before.

| fault | in | what happens |
|---|---|---|
| `no_queue` | `Tts` | a call puts a message on the queue of an engine thread that is gone |
| `no_ring` | `Conversation` | a write that ends after the close takes the next frame from a ring that was freed |
| `null_wsi` | `Conversation` | finish or cancel without a connection |
| `freed` | `Tts`, `Conversation`, `VolcConversation`, `VolcAsr`, `VolcTts` | a callback, a thread, a call or the user's loop uses an engine, a context or a handle that was freed |
| `wsi` | `VolcConversation`, `VolcAsr`, `VolcTts` | a connection that is gone or was never there is passed to lws |
| `context` | `VolcConversation` | an lws context is destroyed twice, or under the thread that serves it |
| `sem` | `VolcConversation`, `VolcAsr`, `VolcTts` | a semaphore is destroyed or freed while somebody may wait for it |
| `no_state` | `VolcTts` | stop without a connection |
| `null`, `freed` | `AiLvgl` | LVGL is given NULL, or a text that was freed |

Where the recogniser's context is freed under a callback the
state `life = "freed" /\ pc = "close_cb"` is reached, and no action follows.

### Assumptions about code that is not in the repository

* Media library: an opened recorder or player may report errors until it is
  closed; `media_uv_recorder_close` is answered later, once, by its callback;
  a prepared player answers once, with a pipe or an error; closing a player
  closes its pipe; an abandoned focus request reports nothing more.
* libuv: queues are first-in first-out, a handle that is being closed delivers no
  more messages and its close callback runs.
* libwebsockets: it calls back from `lws_service`, which does not block, and from a
  connect that fails at once (what it may still report from `lws_context_destroy` finds a
  session that is over, or no callback, and changes nothing); a request to write made before the connection is
  established may be forgotten; a connection that failed or was closed is freed, so
  that the pointer the plugins keep to it dangles.
* Server: may send anything or nothing at any time while the plugin serves it; the
  synthesis server answers each request of the handshake once, in order, or never.
* The API towards its plugin: it uses the engine between a successful init and uninit,
  and ends a session once.  Both are what `Asr` and `Tts` show of `ai_asr.c` and
  `ai_tts.c`; the composition is by these assumptions, not by a joint run.
* Memory: accesses of a thread take effect in program order, and an index, a pointer or
  a flag is read and written whole.  (The code uses plain variables.)
* Application: makes any calls in any order, `close` last (as `ai_tool.c` does).

## 3. The runs

| run | question | bounds |
|---|---|---|
| `ring_buffer` | does the ring never show storage that was not written, and does it implement `BoundedFifo`? | 8 slots, 2 characters: every position of both indices, every fill and every overflow |
| `shared_ring` | do producer and consumer need a lock while nothing overflows? | a ring of 4, messages of 1 to 3, frames of 2, 9 characters: both indices go round twice, messages are longer and shorter than frames |
| `asr` | do sessions give back what they took, does the silence clock stay in its session, is the closed event an answer, sent once, that leaves nothing behind it, do the events obey `AsrListener`, and does an accepted close free the context? | 2 texts (equal and different results in a row), 2 sessions (a second one over the closing of the first), 2 messages per queue, both with and without a user loop |
| `tts` | the same for the synthesiser, and: does audio flow, is the end of a text noticed, does every close free the context after its user queue, unless the engine thread is gone? | a ring of 2 chunks and 3 chunks or ends per text (so it overflows), 2 texts (a second one on the connection, the pipe and the flags of the first), one waiting message, both with and without a user loop |
| `volc_asr` | is an engine ready when init hands it out and freed only after uninit, are its lws contexts destroyed, is what is parsed one whole message, is audio sent after the request, woken up for, and cut at whole samples, is the connection of a session that is over given back? | 2 connections (the second over the first in any state), messages of at most 3 bytes in fragments of at most 2 (one, two or three fragments, a buffer that grows and one that is large enough), a ring of 5 bytes, frames and writes of 2 (it overflows, and holds two frames and a half) |
| `volc_tts` | the same for the synthesiser's plugin, with the handshake: is there never a second connection, does a text go out once, never while the server owes an answer to the handshake, does it go out, and is the connection of a stopped text given back? | 2 connections, 2 texts (on one connection or two), fragments as above, every label a server message can have |
| `conversation` | is there ever more than one write, is audio written in order and without gaps but those of an overflow, does a close give everything back and does it happen, does the plugin's thread meet a freed ring? | a ring of 3 units, frames of 2, chunks of 1 and 3 (one fits exactly, overwrites a part, finds the ring full or is refused; a frame takes a part of the ring), 4 units before the last chunk, 3 starts (one that fails between two that do not), 2 messages per queue |
| `volc_conversation` | is audio queued only in a session and only in a round that was asked for, does a start over a dead connection leak its context, does every call return whatever way the thread ends once it has started, is a wakeup of the sender lost? | 2 starts (the second over the dead or living connection of the first), 3 calls that send, a ring of 2 messages of which a frame takes 1 (it overflows, and leaves a rest), both values of `auto_next_round` |
| `ai_lvgl` | do the commands keep the table of engines true, and does the screen's thread always get the mutex? | 2 slots and 3 engines (a full table, a slot used again), 2 waiting commands (one behind a `q`), 2 results (the first locks, the second does not) |
| `tts_stop_crash` | violated: is `ai_tts_stop` safe without a connection? | 2 texts |
| `conversation_stall` | violated: is a write started whenever there is audio and none is in progress? | 1 start, 3 units |
| `screen_text_freed` | violated: does the mutex protect the text that is shown? | as `ai_lvgl` |

Two sessions, texts or connections are enough for what one can leave to the next:
every variable one hands on is a flag or a counter, and the
third finds the same values as the second.  The proofs of section 5 do
not depend on the bounds.  `CHECK_DEADLOCK FALSE` is set because an engine that was
freed, or an application that has nothing more to say, stops.

`ClosedOnRequest`, `ClosedIsQuiet` and the phases of `AsrListener` exclude
overlapping sessions (`overlapped`): two of them share `is_closed`, see "What the models
show besides".  `TextAfterHandshake` and `WholeUnlessReused` exclude a connection that a
text has taken over from a stopped one (`again`).  `CloseGivesBack` excludes conversations
in which a start failed: `failed:` in `conversation_message_start_handler` closes recorder
and player but keeps the focus request, which the next start overwrites.
`CloseFrees` of `Tts` ends with an engine thread that is gone, and `CallsReturn` with one that could
not start: see below.  `InOrder` ends
with the first overflow.  The others name in their own text what ends their promise
(a connection that closes, a service that fails).

### Findings

1. `tts_stop_crash`: `volc_tts_stop` reads `ctx->state->conn_state` before it tests
   `ctx->state` for NULL.
2. `conversation_stall`: `ai_conversation_play_audio` takes `write_req.data` for "a
   write is in progress", but `write_audio_data_cb` never resets it.  After the ring has
   drained once, or a write has failed, no write is started again and the rest of
   the conversation's audio stays in the ring.
3. `screen_text_freed`: the screen reads the pointer to the text under the mutex and
   uses it after the unlock; the recogniser's callback frees the text, from the second
   result on without taking the mutex at all.

### What the models show besides

These behaviours are in the models, as the code has them; no comment, document or test
of the repository says otherwise, so no run is listed for them, and the properties above
say what holds nevertheless.

* `ai_asr.c`: a close in state START returns without doing anything (line 650), also
  when the session that set the state has ended by itself; `is_closed` means both "a close
  waits" and "the recorder has closed", so two recorders that close at once destroy an
  engine nobody closed (203); it is written after the event whose handling frees the
  context (205).
* `ai_tts.c`: a close frees the context that holds the request of a write in flight (287);
  the end of the first sentence is taken for the end of all audio (plugin, 263).  When `lws_service` fails the plugin's thread reports an error, leaves its loop and frees
  the queue (`ai_volc_tts.c` 842-881): a close after that is a message to a freed queue, and the
  context is never freed.  `Asr` leaves this path to `VolcAsr` (`UsesFreedEngine`): there the close is never
  accepted, and once one is accepted the session is over and `lws_service` is not called any more.
* `ai_conversation.c`: `ai_conversation_play_audio` refuses audio only if the ring is exactly full (896);
  a chunk that does not fit overwrites the oldest audio that waits (901).
  `conversation_uvasyncq_close_cb` frees `ctx->asyncq` (530), the active handle of a queue on the
  user's loop that was never passed to `uv_close`; the user's loop keeps it (fault `freed`).
* `ai_volc_tts.c`: a text spoken right after a stop reuses the stopped text's connection, in
  handshake state NONE, and takes its late audio and answers (1004); the text of a speak whose
  connection failed is not freed.
* Both plugins: `ctx->state->wsi` dangles after the server has closed the connection (fault
  `wsi`); a thread whose queue cannot be initialised frees the engine while init waits on its
  semaphore (`sem`); after a failed `lws_service` the engine is freed under the API (`freed`);
  an init that times out leaves its thread running, and `uv_loop_init` failing leaks the engine.
* `ai_volc.c`: a finish and a start in one round of the thread overwrite `ctx->state`, and the
  old lws context is lost (`lost`); the final frame that would tell the server of the end is
  never sent; after the first overflow the ring begins with half a sample.
* `ai_volc_conversation.c`: if `uv_loop_init` (920) or `uv_async_queue_init` (930) fails the thread ends without
  posting the semaphore, and init waits for ever (1024); the semaphore is posted before the clean-up (970), so that both
  threads destroy one context; start destroys a context that is being served (747); CONNECTING is
  written after the connection may have failed (791); ERROR stays when a connection is
  used again (501); the send ring outlives its connection (287) and is sent without regard to
  message boundaries (254), and every fragment that arrives is parsed as a message (243).
* A ring between two threads may, once it has overflowed during a dequeue, give out
  characters twice or ones that were never written.
* `ai_tool.c`: the main thread compares the command it has sent with `q` after the loop thread may
  have freed it (703) and may miss its own quit; a command after `q` is interpreted with the queue's
  data pointing elsewhere (626); `speak` passes any handle to `ai_tts_speak`.  `ai_lvgl.c`: a release before
  any result passes NULL to LVGL; the last text stays and is shown again by a press after a clear.
* Base64: see section 5.

### Fairness

`FairSpec` of the recogniser and the synthesiser asks that the engine thread handles a waiting message
(in `Tts` as long as that thread is there), that the user's loop runs its queue and its close callbacks, that the media
library answers a close or a prepare, and (synthesiser) that a write ends.  The
first two are what `uv_run` in the thread's loop and in the application's loop do;
the others are the contract of the media library and of libuv.  The
conversation asks only for the first two, which are both steps of the user's loop
(`MessageHandler`, with the three steps of a close).
The conversation's plugin asks that both threads go on (`GoOn`: a call that has begun, `Loop`: the
thread outside callbacks, which includes that `lws_service` returns) and, strongly,
that a connection's socket is writable again and again: lws reports it in a round
of the loop, and between rounds the callback is not enabled.  `VolcAsr` and `VolcTts` ask the same
of their thread and of an open socket, and `VolcAsr` that an uninit that has begun returns.
`AiLvgl` asks that both threads run on in what they have begun.
Nothing is asked of the application, the server, the recorder's errors or the focus.

## 4. Mutants

For every property of a passing run `PROJECT.json` names a mutated definition,
defined next to the original (`FinishHandlerKeepFocus`, `CloseLHasty`,
`CleanUpKeepContext`, `WriteAudioUnarmed`, ...), that changes the code's behaviour as a plausible bug
would; with it the property fails under the same configuration.

## 5. The proofs

`RingAndTableProofs`, for every `Size` that is a power of two in the sense of
`RingBufferAssumption`:

* `Safe`: `Spec => [](TypeOK /\ HeldIsWritten)`.
* `Implements`: `Spec => IsFifo`, the refinement of `BoundedFifo`.  The step that
  matters is the overwriting one: a full ring advances the tail past the
  character that the head is about to reach, and the mapped sequence loses its
  first element and gains a last one.

and, for every number of slots and of engines, `TableStaysTrue`: `Program!Spec => []TableIsTrue`,
where `Program` is `AiLvgl`, both programs that have the table.  The invariant adds the types the
table needs and that the commands in the queue name its slots; there is one lemma per command, and
every other step of the three threads leaves the table alone.

`AsrProofs`, for every set of texts, every bound, with and without a user loop:

* `TypeCorrect`, `SessionsRelease`, `SilenceIsLocal`, `ClosedIsRequested`,
  `ClosedQuiets`: the safety properties of the run `asr` as theorems.
* `Implements`: `Spec => IsListener`.

None of the closing properties is inductive.  The invariant `Inv` adds

* `Counts`: open and closing recorders together are at most the sessions started
  (no recorder is closed twice);
* `CloseIsLast`: the close message is the last one in the queue, and once it has
  been handled the queue is empty, because nothing is called after close;
* `Handshake`: without overlapping sessions at most one recorder is open or
  closing; before the close a set `is_closed` means there is none; and once the
  closed event is out there is none.

`Handshake` is the argument the code leaves unsaid: of `ai_asr_close_l` and
`media_recorder_close_cb`, whichever comes second sees the flag and sends the
event.  The refinement maps `state`, `is_send_finished`, `closes` and `overlapped`
to the phase a listener can be in and proves, action by action, that each step is
an event the phase allows or a stutter.

`TtsProofs`, for every size of the ring and every bound, with and without a user loop: `TypesAndEnd`,
`TextsRelease`, `AudioNeverStalls`, `FirstTextStaysClean`, and `Implements`: `Spec => IsListener`, that is,
every safety property of the run `tts`.  They rest on each other and on

* `Session`: a player is open in state START only, a pipe is being connected only while there is a
  player, and the context is freed in state CLOSE and nowhere else;
* `CloseOrder`: the engine thread hears of the close when the user's loop is through with its queue;
* `First`: before the first text there is no connection, pipe or frame in flight; until the second one
  nothing is reused, and a stale pipe belongs to a text that is over.

`First` is what separates the first text of an engine from the later ones, which may write to the pipe of
a closed player or play audio of the text before: nothing of it survives the second `speak`.

`ConversationProofs`, for every size of the ring and of a frame, all lengths of the chunks and every bound: `TypesAndRing`, `WritesAreOne`,
`PlayedInOrder` and `ClosedHoldsNothing`, every safety property of the run `conversation`.

* `OneWriter`: `write_req.data` is set by the first write and never reset, so that `play_audio` on the engine
  thread begins one write at most and every later one is begun by the end of the one before;
* `RingKept`: a player comes with its ring, and after the player is gone a pipe that is left goes with a
  ring until the close handler's last step;
* `Counted`: what the context points to is what it holds, recorder by recorder, player by player, focus by
  focus, as long as no start has failed;
* `CloseIsLast` and `Ended`: behind the close message only a lost focus puts one, `finish`, which finds nothing;
  the connection is gone before the ring is, and what the handler has given back is not taken again.

`VolcConversationProofs`, for every size of the send ring and of a frame, every
bound, with and without `auto_next_round`: `TypeCorrect`, `AudioOnlyInSession`,
`AudioOnlyIfAsked` and `NoContextLeaks`, the safety properties of the run `volc_conversation`
as theorems.  Two threads share the engine without a lock, so the invariant `Inv`
says what each may rely on while the other runs:

* `Todo` and `Posts` strengthen the types: what a call has still to send, and at which
  places of the thread the semaphore has been posted how often;
* `Owned`: as long as the threads have not met over a context, the one that has
  destroyed it is the one that sets `lws_context` to NULL, and a connection exists
  only in a live context;
* `Sessions`: a `state` that accepts audio means a session on the current connection
  or no connection.  This fails between `lws_client_connect_via_info` and the
  assignment of `CONNECTING`, where `write_audio` may have left `LISTENING` of an
  earlier connection; but there the user's loop is inside `start` and writes no audio;
* `Rounds`: without `auto_next_round`, an engine that is not finished was asked for by
  a start, or is one that nobody has started yet and whose state accepts no audio.

`SharedRingProofs`, for every size of the ring, of a message and of a frame: `IndicesStay`
(both indices stay inside the storage whatever the threads do to each other) and
`NoLockNeeded` (the invariant of the run `shared_ring`).  That the consumer gets the
characters in order is not inductive.  `Consistent` adds where the characters held lie
(`Layout`: one behind the other from the tail to the head), that the producer does not
move the tail (`ProducerStays`), and what each thread may rely on between two of its accesses
(`Knowledge`: the producer that the slot at the head is free, the consumer that there is
a character at the tail and that it has read it).  The lemmas at the beginning are the
arithmetic of the modulus.

`VolcAsrProofs`, for every size of the audio ring, of a frame, of what the recorder writes and of a
fragment: `EngineIsUsable` (`Inv`), `EveryContextDestroyed`, `SamplesStayWhole` and `MessagesStayWhole`,
every safety property of the run `volc_asr`.  Contexts are inductive with their types, and
samples by the parity of what an overflow drops.  The others are not inductive:

* `Reassembling`: a finish throws away the first half of a message, and what comes next would be parsed
  as a message.  It never comes: whenever something may be received the buffer holds what the server has
  sent of a message so far, unless the session was finished and the thread is between its handlers and the
  destruction of the connection;
* `Life`: where the thread may be once its semaphore was posted or init has succeeded, and that it
  leaves its loop after uninit or a failure only;
* `Requests`: `seq` tells what the connection has been sent, and audio has the request before it.

`VolcTtsProofs`, for every size of a fragment and every bound: `SpeaksOnOneConnection` (`Inv`),
`TextWaitsForHandshake` and `MessagesStayWhole`, every safety property of the run `volc_tts`.
`Reassembling` is as above, until a connection is used again.  `Handshaking` ties the two ends of a
connection together, until it is used again: when `conn_state` waits for an answer, the server owes that one
and no other, or has sent a part of it, which is in the buffer; otherwise it owes none.  So an answer that
arrives is the answer to the latest request, and the text goes out after the second one.  `Memory` says
whose the text is and who frees it.

`VolcConversationProofs` also has the theorems about `Base64`, for data of every length and group by group:

* `EncodeKeepsAudio`: what the conversation plugin encodes of a recording is what was recorded;
  the reference decoder (that of `utils/base64.c`) gives back every byte, also of a last group of
  one or two;
* `DecodeIsSilence`: what the plugin makes of the audio of a response has the right length and
  is all zeros; its comment at line 583 calls it a placeholder;
* `UtilsEncodeKeepsFirst`: `base64_encode` of `utils/base64.c` keeps one byte of three, because it
  compares `i` with a length that `i` never exceeds and so takes the third and fourth letter of
  every group for padding.  Nothing calls it.

These definitions are not part of a run: they have no states.  Their theorems were checked on
small data with TLC before they were proved.

Only model-checked: the liveness properties (`AcceptedCloseDestroys`, `DataEndEnds`,
`CloseFrees`, `CallsReturn`, `QueuedIsSent`, `ClosedIsFreed`, `FinishedIsDestroyed`, `AudioGoesOut`, `TextGoesOut`,
`ScreenGoesOn`), which need fairness and ENABLED, out of the prover's reach.  Every other property of
the passing runs is a theorem.

## 6. Plan

Done: all modules of section 2, and every safety property of every passing run as a theorem.

To be proved next: what is left of the promises that section 3 says end with an overlap, a failed start or
a connection used again.

Not composed: `Asr` with `VolcAsr`, `Tts` with `VolcTts`, and `Conversation` with `VolcConversation`.  Each pair
is joined by stated assumptions; a joint run is out of reach at bounds at which the
interesting cases of both still happen (`Tts` alone has 260 279 states, `VolcTts` 324 262 and `Conversation` 808 180).

### Not modelled

* Plugin registries: a table lookup, an allocation and two calls; nothing that steps could get in
  the wrong order.  What a failed init leaves behind is in `VolcEngine`.
* XiaoAi plugin: no configuration of the repository selects it, and it wraps a closed library.
* `ai_tool.c`: start, speak, cancel and is_busy only pass on to an engine; commands after a quit.
* Base64: blanks, letters outside the table, and empty texts.
* Fonts, widgets, formats, JSON, headers, URLs and logging.
