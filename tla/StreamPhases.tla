---------------------------- MODULE StreamPhases ----------------------------
(***************************************************************************)
(* The phases of a streaming endpoint as its owner, bofi.c or cofi.c,      *)
(* distinguishes them: started, connected, being shut down, and stopped,   *)
(* which is when NN_SOFI_STOPPED has been raised and waits for the owner.  *)
(***************************************************************************)

Phases == {"connecting", "active", "closing", "stopped"}

(* The phases an endpoint may enter next.                                   *)
Follows(p) == CASE p = "connecting" -> {"active", "closing", "stopped"}
                [] p = "active"     -> {"closing"}
                [] p = "closing"    -> {"stopped"}
                [] OTHER            -> {}

(* The phases nn_sofi_stop may leave an endpoint in: the FSM stops once, a  *)
(* second stop does nothing, and one that is quiet stops without delay.     *)
AfterStop(p) == IF p \in {"connecting", "active"} THEN Follows(p) \ {"active"} ELSE {p}
=============================================================================
