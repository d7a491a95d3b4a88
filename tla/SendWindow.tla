----------------------------- MODULE SendWindow -----------------------------
(***************************************************************************)
(* What the sending half promises to nanomsg, without saying how: a window *)
(* of slots.  While the connection is up a message is accepted only on a   *)
(* slot no other message has, and the window is writable exactly when a    *)
(* slot is left.  Once closing, slots only empty.                          *)
(***************************************************************************)
CONSTANT Slots

VARIABLES phase, inflight, writable

windowVars == <<phase, inflight, writable>>

Init ==
    /\ phase = "CONNECTING"
    /\ inflight = {}
    /\ writable = FALSE

Open ==
    /\ phase = "CONNECTING"
    /\ phase' = "ACTIVE"
    /\ writable' = TRUE
    /\ UNCHANGED inflight

Accept(s) ==
    /\ phase = "ACTIVE"
    /\ writable
    /\ s \notin inflight
    /\ inflight' = inflight \cup {s}
    /\ writable' = (inflight' # Slots)
    /\ UNCHANGED phase

Finish(s) ==
    /\ phase = "ACTIVE"
    /\ s \in inflight
    /\ inflight' = inflight \ {s}
    /\ writable' = TRUE
    /\ UNCHANGED phase

(* Closing begins in any phase, and slots may empty in the same step.       *)
Close ==
    /\ phase' = "CLOSING"
    /\ inflight' \subseteq inflight
    /\ writable' \in BOOLEAN

Next ==
    \/ Open
    \/ \E s \in Slots : Accept(s) \/ Finish(s)
    \/ Close

Spec == Init /\ [][Next]_windowVars
=============================================================================
