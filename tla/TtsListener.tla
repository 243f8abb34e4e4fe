---------------------------- MODULE TtsListener ----------------------------
(***************************************************************************)
(* What the listener of a speech synthesiser is promised (include/ai_tts.h,*)
(* tts_event_t): a text is answered by at most one last event, complete or *)
(* error, and between two texts nothing is reported.                       *)
(*                                                                         *)
(* A text that was stopped while no listener was set stays unanswered: a   *)
(* later stop may answer it, or the next text takes its place.             *)
(***************************************************************************)
VARIABLES
  phase,  \* "idle" or "open"
  event   \* the latest event sent

vars == <<phase, event>>

Init == phase = "idle" /\ event = "none"

\* A text is accepted, with its start event or (no listener, or it could not
\* be played) without one.
Open ==
  /\ phase' = "open"
  /\ event' \in {event, "start"}

Report ==
  /\ phase = "open"
  /\ event' = "data"
  /\ UNCHANGED phase

End ==
  /\ phase = "open"
  /\ phase' = "idle"
  /\ event' \in {"complete", "error"}

Next == Open \/ Report \/ End

Spec == Init /\ [][Next]_vars
=============================================================================
