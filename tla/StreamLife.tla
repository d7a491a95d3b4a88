----------------------------- MODULE StreamLife -----------------------------
(***************************************************************************)
(* What a streaming endpoint promises the endpoint that owns it: it        *)
(* connects at most once, closes at most once, and stops for good, so that *)
(* the owner gets exactly one NN_SOFI_STOPPED and may then free it.  It    *)
(* aborts the process in one case: the poller held an event of it when it  *)
(* stopped.  Sofi implements it; Bofi and Cofi build on it.                *)
(***************************************************************************)
EXTENDS StreamPhases

VARIABLES phase,
          late      \* is there an event to come after the stop

Init == phase = "connecting" /\ late = FALSE

Advance ==
    /\ phase \in Phases /\ phase' \in Follows(phase)
    /\ late' => phase' = "stopped"

LateEvent == phase = "stopped" /\ late /\ phase' = "aborted" /\ UNCHANGED late

Spec == Init /\ [][Advance \/ LateEvent]_<<phase, late>>
=============================================================================
