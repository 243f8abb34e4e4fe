---------------------------- MODULE AsrListener ----------------------------
(***************************************************************************)
(* What the listener of a speech recogniser is promised (include/ai_asr.h, *)
(* asr_event_t): the events of a session arrive while the session is open, *)
(* a session has at most one last event, complete or error, and nothing    *)
(* follows the closed event.  A session may also be dropped silently: it   *)
(* was cancelled, or it ended while no listener was set.                   *)
(*                                                                         *)
(* The promise has one condition, which the interface leaves to its user:  *)
(* a session that starts while the recorder of an earlier one is still     *)
(* closing voids it.                                                       *)
(***************************************************************************)
VARIABLES
  phase,  \* "idle", "open", "closed" or "void"
  event   \* the latest event sent

vars == <<phase, event>>

Init == phase = "idle" /\ event = "none"

\* A session opens, with its start event or (no listener, or the recorder
\* failed) without one.
Open ==
  /\ phase = "idle"
  /\ phase' = "open"
  /\ event' \in {event, "start"}

Report ==
  /\ phase = "open"
  /\ event' = "result"
  /\ UNCHANGED phase

End ==
  /\ phase = "open"
  /\ phase' = "idle"
  /\ event' \in {"complete", "error"}

Drop ==
  /\ phase = "open"
  /\ phase' = "idle"
  /\ UNCHANGED event

Close ==
  /\ phase = "idle"
  /\ phase' = "closed"
  /\ event' = "closed"

Void ==
  /\ phase \in {"idle", "void"}
  /\ phase' = "void"

Next == Open \/ Report \/ End \/ Drop \/ Close \/ Void

Spec == Init /\ [][Next]_vars
=============================================================================
