------------------------------- MODULE AiLvgl -------------------------------
(***************************************************************************)
(* src/ai_lvgl.c: a screen with a button that is held while one speaks and *)
(* one that clears the text.  It uses the loop thread and the recogniser's *)
(* callback of src/ai_tool.c, its main thread is LVGL's, and the text goes *)
(* from one to the other by way of global_asr_result.                      *)
(*                                                                         *)
(* The two programs share their loop thread and are checked together: the  *)
(* variable screen says which of them runs.                                *)
(***************************************************************************)
EXTENDS AiTool

VARIABLES
  screen,       \* ai_lvgl runs, not ai_tool
  press_timer,  \* is not NULL
  upc,          \* where LVGL's thread is in a callback
  doing,        \* the callback it is in
  seen,         \* asr_result_text
  fault         \* what went wrong when the text was shown

ui == <<press_timer, upc, doing, seen, fault>>
vars == <<tool, screen, ui>>

\* main creates a recogniser, which may fail, before there are any callbacks.
Started ==
  /\ kinds \in {<<>>, <<"asr">>} /\ open = Created
  /\ chain = [i \in Id |-> IF i = 0 THEN [handle |-> Len(kinds), type |-> "asr"] ELSE Unused]

Init ==
  /\ screen \in BOOLEAN
  /\ IF screen THEN Started ELSE TableInit
  /\ ThreadsInit
  /\ press_timer = FALSE /\ upc = "idle" /\ doing = "none" /\ seen = 0 /\ fault = "none"

-----------------------------------------------------------------------------
\* LVGL's thread, which is the main thread of the program.

\* key_press_cb
Press ==
  /\ screen /\ upc = "idle"
  /\ press_timer' = TRUE
  /\ UNCHANGED <<tool, screen, upc, doing, seen, fault>>

\* press_timer_cb, every 30 ms while the button is held, or key_release_cb.
Enter(callback) ==
  /\ screen /\ upc = "idle" /\ press_timer
  /\ upc' = "lock" /\ doing' = callback
  /\ UNCHANGED <<tool, screen, press_timer, seen, fault>>

\* clear_text_cb: the text itself stays where it is.
Clear ==
  /\ screen /\ upc = "idle"
  /\ Finish(0)
  /\ UNCHANGED <<text, threads, screen, ui>>

UiLock ==
  /\ upc = "lock" /\ mutex = "free"
  /\ mutex' = "ui" /\ upc' = "read"
  /\ UNCHANGED <<table, result, allocated, lpc, results, threads, screen, press_timer, doing, seen, fault>>

Read ==
  /\ upc = "read"
  /\ seen' = result /\ upc' = "unlock"
  /\ UNCHANGED <<tool, screen, press_timer, doing, fault>>

UiUnlock ==
  /\ upc = "unlock"
  /\ Unlocked("ui") /\ upc' = "show"
  /\ UNCHANGED <<table, result, allocated, lpc, results, threads, screen, press_timer, doing, seen, fault>>

\* lv_textarea_set_text.  The tick has a text of its own for NULL, the release
\* has not.
Show ==
  /\ upc = "show"
  /\ upc' = "request"
  /\ fault' = IF seen # allocated /\ seen # 0 THEN "freed"
              ELSE IF seen = 0 /\ doing = "release" THEN "null" ELSE fault
  /\ UNCHANGED <<tool, screen, press_timer, doing, seen>>

\* The tick starts the recogniser, also one that is started already; the
\* release finishes it and ends the ticks.
Request ==
  /\ upc = "request"
  /\ upc' = "idle"
  /\ IF doing = "release" THEN Finish(0) /\ press_timer' = FALSE ELSE UNCHANGED <<table, press_timer>>
  /\ UNCHANGED <<text, threads, screen, doing, seen, fault>>

-----------------------------------------------------------------------------
UiThread == UiLock \/ Read \/ UiUnlock \/ Show \/ Request

Next ==
  \/ LoopThread /\ UNCHANGED <<screen, ui>>
  \/ ~screen /\ MainThread /\ UNCHANGED <<screen, ui>>
  \/ Press \/ Clear \/ (\E callback \in {"tick", "release"} : Enter(callback)) \/ UiThread

Spec == Init /\ [][Next]_vars

\* Both threads run on in what they have begun; nothing makes a result, a
\* command or a finger come.
FairSpec ==
  /\ Spec
  /\ WF_vars((Lock \/ Free \/ Strdup \/ Unlock \/ Execute \/ Timer) /\ UNCHANGED <<screen, ui>>)
  /\ WF_vars(UiThread)
-----------------------------------------------------------------------------
\* LVGL's thread, on which the whole screen depends, gets the mutex whenever it
\* waits for it, although results unlock it that have not locked it.
ScreenGoesOn == (upc = "lock") ~> (upc # "lock")

-----------------------------------------------------------------------------
\* What the comments say of the mutex and the code does not keep, "Locking to
\* protect global variables": the text that is shown has not been freed.
TextIsProtected == fault # "freed"
=============================================================================
