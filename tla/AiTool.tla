------------------------------- MODULE AiTool -------------------------------
(***************************************************************************)
(* src/ai_tool.c: the table of engines that the commands work on, the loop *)
(* thread that carries them out and runs the recogniser's callback, and    *)
(* the main thread that reads them.  src/ai_lvgl.c is linked to the same   *)
(* table, loop thread and callback: see module AiLvgl.                     *)
(*                                                                         *)
(* An engine is open from its creation to the call of its close, whatever  *)
(* becomes of it afterwards; a text is the number of the result it came    *)
(* from, and only the latest one can be allocated.                         *)
(***************************************************************************)
EXTENDS Integers, Sequences

CONSTANTS
  MaxChain,    \* AITOOL_MAX_CHAIN: slots of the table
  MaxEngines,  \* bound on the engines created
  MaxPending,  \* bound on the commands in the queue
  MaxResults   \* bound on the results of the recogniser

ASSUME AiToolAssumption == MaxChain \in Nat \ {0} /\ MaxEngines \in Nat

VARIABLES
  chain,                \* per slot: the engine's handle, 0 for NULL, and its type
  asr_first_work_cost,  \* is not 0
  result, allocated,    \* global_asr_result.result, and the text that is not freed
  mutex,                \* asr_result_mutex: who holds it
  lpc,                  \* where the loop thread is in aitool_asr_callback
  asyncq,               \* commands sent and not carried out
  loop,                 \* "running", "quitting" (the timer is set) or "ended"
  mpc,                  \* main: "reads", "sent_q" (before its strcmp) or "joins"
  \* What is not state of the program.
  open,                 \* the engines that are open
  kinds,                \* the kinds of the engines created, in order
  results               \* results that have come

table == <<chain, asr_first_work_cost, open, kinds>>
text == <<result, allocated, mutex, lpc, results>>
threads == <<asyncq, loop, mpc>>
tool == <<table, text, threads>>

Id == 0 .. MaxChain - 1

Kind == {"asr", "tts", "conversation"}

Created == 1 .. Len(kinds)

Unused == [handle |-> 0, type |-> "none"]

TableInit == chain = [i \in Id |-> Unused] /\ open = {} /\ kinds = <<>>

ThreadsInit ==
  /\ asr_first_work_cost = FALSE
  /\ result = 0 /\ allocated = 0 /\ mutex = "free" /\ lpc = "loop" /\ results = 0
  /\ asyncq = <<>> /\ loop = "running" /\ mpc = "reads"

-----------------------------------------------------------------------------
\* The commands.

FirstFree(i) == chain[i].handle = 0 /\ \A j \in 0 .. i - 1 : chain[j].handle # 0

\* The create commands: a failed creation leaves its type in the slot.
Create(kind) ==
  \/ (\A i \in Id : chain[i].handle # 0) /\ UNCHANGED table
  \/ \E i \in Id :
       /\ FirstFree(i)
       /\ \/ /\ Len(kinds) < MaxEngines
             /\ kinds' = Append(kinds, kind)
             /\ open' = open \cup {Len(kinds) + 1}
             /\ chain' = [chain EXCEPT ![i] = [handle |-> Len(kinds) + 1, type |-> kind]]
          \/ /\ chain' = [chain EXCEPT ![i].type = kind]
             /\ UNCHANGED <<open, kinds>>
       /\ UNCHANGED asr_first_work_cost

\* The close of an unused slot does nothing.  (No close returns -1000.)
Close(id) ==
  IF chain[id].handle = 0 THEN UNCHANGED table
  ELSE /\ open' = open \ {chain[id].handle}
       /\ chain' = [chain EXCEPT ![id] = Unused]
       /\ asr_first_work_cost' = FALSE
       /\ UNCHANGED kinds

Finish(id) ==
  /\ asr_first_work_cost' = IF chain[id].handle = 0 THEN asr_first_work_cost ELSE FALSE
  /\ UNCHANGED <<chain, open, kinds>>

Used == {i \in Id : chain[i].handle # 0}

CloseAllButLast ==
  /\ open' = open \ {chain[i].handle : i \in Used \ {MaxChain - 1}}
  /\ chain' = [i \in Id |-> IF i \in Used /\ i # MaxChain - 1 THEN Unused ELSE chain[i]]
  /\ asr_first_work_cost' = IF Used = {} THEN asr_first_work_cost ELSE FALSE
  /\ UNCHANGED kinds

\* Every engine in the table is closed.
CloseAll ==
  /\ open' = open \ {chain[i].handle : i \in Used}
  /\ chain' = [i \in Id |-> IF i \in Used THEN Unused ELSE chain[i]]
  /\ asr_first_work_cost' = IF Used = {} THEN asr_first_work_cost ELSE FALSE
  /\ UNCHANGED kinds

Command ==
  [name : {"create"}, kind : Kind] \cup [name : {"close", "finish"}, id : Id]
    \cup [name : {"q"}]

\* aitool_uvasyncq_cb, between two callbacks.  A quit makes the queue's data
\* point elsewhere: what a command would do after it is not modelled.
Execute ==
  /\ lpc = "loop" /\ loop = "running" /\ asyncq # <<>>
  /\ asyncq' = Tail(asyncq)
  /\ LET c == Head(asyncq) IN
       /\ c.name = "create" => Create(c.kind)
       /\ c.name = "close" => Close(c.id)
       /\ c.name = "finish" => Finish(c.id)
       /\ c.name = "q" => CloseAll
       /\ loop' = IF c.name = "q" THEN "quitting" ELSE loop
  /\ UNCHANGED <<text, mpc>>

\* aitool_timer_callback closes every handle, which ends the loop.
Timer ==
  /\ lpc = "loop" /\ loop = "quitting"
  /\ loop' = "ended"
  /\ UNCHANGED <<table, text, asyncq, mpc>>

-----------------------------------------------------------------------------
\* The main thread: what it sends belongs to the loop thread, which frees it.

SendCommand ==
  /\ mpc = "reads" /\ loop # "ended" /\ Len(asyncq) < MaxPending
  /\ \E c \in Command :
       /\ asyncq' = Append(asyncq, c)
       /\ mpc' = IF c.name = "q" THEN "sent_q" ELSE "reads"
  /\ UNCHANGED <<table, text, loop>>

\* strcmp(buffer, "q"): a freed buffer may hold anything.
CompareSent ==
  /\ mpc = "sent_q"
  /\ IF asyncq # <<>> THEN mpc' = "joins" ELSE mpc' \in {"joins", "reads"}
  /\ UNCHANGED <<table, text, asyncq, loop>>

-----------------------------------------------------------------------------
\* aitool_asr_callback for asr_event_result, on the loop thread.

\* Only the first text after a finish or close is stored under the mutex.
Result(isText) ==
  /\ lpc = "loop" /\ loop # "ended" /\ results < MaxResults
  /\ \E e \in Created : kinds[e] = "asr"
  /\ results' = results + 1
  /\ lpc' = IF isText /\ ~asr_first_work_cost THEN "lock" ELSE "free"
  /\ asr_first_work_cost' = (asr_first_work_cost \/ isText)
  /\ UNCHANGED <<chain, open, kinds, result, allocated, mutex, threads>>

Lock ==
  /\ lpc = "lock" /\ mutex = "free"
  /\ mutex' = "loop" /\ lpc' = "free"
  /\ UNCHANGED <<table, result, allocated, results, threads>>

Free ==
  /\ lpc = "free"
  /\ allocated' = 0 /\ lpc' = "strdup"
  /\ UNCHANGED <<table, result, mutex, results, threads>>

Strdup ==
  /\ lpc = "strdup"
  /\ allocated' = results /\ result' = results /\ lpc' = "unlock"
  /\ UNCHANGED <<table, mutex, results, threads>>

\* To unlock what another thread holds releases it or fails.
Unlocked(thread) ==
  mutex' \in IF mutex \in {thread, "free"} THEN {"free"} ELSE {mutex, "free"}

UnlockNever ==
  /\ lpc = "unlock"
  /\ lpc' = "loop"
  /\ UNCHANGED <<table, result, allocated, mutex, results, threads>>

\* Every result unlocks, also one that did not lock.
Unlock ==
  /\ lpc = "unlock"
  /\ Unlocked("loop") /\ lpc' = "loop"
  /\ UNCHANGED <<table, result, allocated, results, threads>>

-----------------------------------------------------------------------------
Callback == (\E isText \in BOOLEAN : Result(isText)) \/ Lock \/ Free \/ Strdup \/ Unlock

LoopThread == Execute \/ Timer \/ Callback

MainThread == SendCommand \/ CompareSent

-----------------------------------------------------------------------------
\* The table is what the commands go by: every handle in it is an open engine
\* of the type that the slot says, no engine is in two slots, and every open
\* engine is in one, so that a command can reach it.  A quit leaves none open.
TableIsTrue ==
  /\ \A i \in Used : chain[i].handle \in open /\ kinds[chain[i].handle] = chain[i].type
  /\ \A i, j \in Used : chain[i].handle = chain[j].handle => i = j
  /\ open = {chain[i].handle : i \in Used}
  /\ loop # "running" => open = {}
=============================================================================
