-------------------------------- MODULE Cofi --------------------------------
(***************************************************************************)
(* The connecting endpoint (cofi.c): one streaming endpoint, made anew for *)
(* each attempt, and a timer that waits between attempts.  Init is the     *)
(* endpoint as nn_cofi_create hands it to nn_fsm_start.                    *)
(***************************************************************************)
EXTENDS StreamPhases

CONSTANT Faults     \* what may go wrong, each of it once (a bound): INIT or CONNECT
                    \* in nn_cofi_start_connecting, LATE or DEADLOCK (see Bofi)

VARIABLES
    state,      \* "IDLE", "ACTIVE", "RETRYING", "STOPPING_BACKOFF", "STOPPING"
    fsm,        \* "IDLE", "ACTIVE", "STOPPING", "STOPPED"; "DESTROYED" by
                \* nn_cofi_destroy; "BAD_SOURCE": aborted by nn_fsm_bad_source;
                \* "BAD_STATE", "DEADLOCKED": see Bofi
    sofi,       \* phase of the streaming endpoint, "idle" while there is none
    retry,      \* the backoff timer: "IDLE", "ACTIVE", "STOPPING"
    failed      \* history: what has gone wrong

vars == <<state, fsm, sofi, retry, failed>>

Init ==
    /\ state = "IDLE" /\ fsm = "IDLE" /\ sofi = "idle" /\ retry = "IDLE" /\ failed = {}

TypeOK ==
    /\ state \in {"IDLE", "ACTIVE", "RETRYING", "STOPPING_BACKOFF", "STOPPING"}
    /\ fsm \in {"IDLE", "ACTIVE", "STOPPING", "STOPPED", "DESTROYED", "BAD_SOURCE",
               "BAD_STATE", "DEADLOCKED"}
    /\ sofi \in Phases \cup {"idle"}
    /\ retry \in {"IDLE", "ACTIVE", "STOPPING"}
    /\ failed \subseteq Faults

(* The STOP action of nn_cofi_shutdown: with no streaming endpoint to stop, *)
(* the STOP action falls through to the test of the event's source.  s and  *)
(* timer are the endpoint and the backoff timer before it.                  *)
StopAction(s, timer) ==
    /\ state' = "STOPPING"
    /\ retry' = IF timer = "ACTIVE" THEN "STOPPING" ELSE timer
    /\ IF s = "idle" THEN fsm' = "BAD_SOURCE" /\ sofi' = s
       ELSE fsm' = "STOPPING" /\ sofi' \in AfterStop(s)

(* nn_cofi_start_connecting.                                                *)
StartConnecting ==
    /\ state' = "ACTIVE" /\ fsm' = "ACTIVE" /\ sofi' = "connecting"
    /\ UNCHANGED failed

(* The calls it makes.                                                      *)
ConnectFaults == Faults \cap {"INIT", "CONNECT"}

(* It fails: its endpoint never ran, and stays unreleased.                  *)
StartConnectingFails(call) ==
    /\ call \in Faults \ failed
    /\ failed' = failed \cup {call}

(* nn_fsm_start.                                                            *)
Start == fsm = "IDLE" /\ StartConnecting /\ UNCHANGED retry

StartFails(call) ==
    /\ fsm = "IDLE" /\ StartConnectingFails(call) /\ StopAction(sofi, retry)

(* As in Bofi: nanomsg ignores a stop inside the START handler.             *)
StartIgnored(call) ==
    /\ fsm = "IDLE" /\ StartConnectingFails(call)
    /\ fsm' = "ACTIVE"
    /\ UNCHANGED <<state, sofi, retry>>

DisconnectedUntimed ==
    /\ state = "ACTIVE" /\ fsm = "ACTIVE" /\ sofi = "stopped"
    /\ state' = "RETRYING" /\ sofi' = "idle"
    /\ UNCHANGED <<fsm, retry, failed>>

(* NN_SOFI_STOPPED while active: the endpoint is reaped.                    *)
Disconnected ==
    /\ state = "ACTIVE" /\ fsm = "ACTIVE" /\ sofi = "stopped"
    /\ state' = "RETRYING" /\ sofi' = "idle" /\ retry' = "ACTIVE"
    /\ UNCHANGED <<fsm, failed>>

BackoffTimeoutUnstopped ==
    /\ state = "RETRYING" /\ fsm = "ACTIVE" /\ retry = "ACTIVE"
    /\ state' = "STOPPING_BACKOFF"
    /\ UNCHANGED <<fsm, sofi, retry, failed>>

(* NN_BACKOFF_TIMEOUT.                                                      *)
BackoffTimeout ==
    /\ state = "RETRYING" /\ fsm = "ACTIVE" /\ retry = "ACTIVE"
    /\ state' = "STOPPING_BACKOFF" /\ retry' = "STOPPING"
    /\ UNCHANGED <<fsm, sofi, failed>>

(* NN_BACKOFF_STOPPED: the next attempt.                                    *)
BackoffStopped ==
    /\ state = "STOPPING_BACKOFF" /\ fsm = "ACTIVE" /\ retry = "STOPPING"
    /\ \/ StartConnecting /\ retry' = "IDLE"
       \/ \E call \in ConnectFaults : StartConnectingFails(call) /\ StopAction(sofi, "IDLE")

(* NN_SOFI_STOPPED while stopping: both are idle now.                       *)
SofiStopped ==
    /\ fsm = "STOPPING" /\ sofi = "stopped"
    /\ sofi' = "idle"
    /\ fsm' = IF retry = "IDLE" THEN "STOPPED" ELSE "STOPPING"
    /\ UNCHANGED <<state, retry, failed>>

(* The streaming endpoint goes on by itself.                                *)
SofiAdvances(p) ==
    /\ sofi \in Phases /\ p \in Follows(sofi)
    /\ fsm \in {"ACTIVE", "STOPPING"}
    /\ sofi' = p
    /\ UNCHANGED <<state, fsm, retry, failed>>

(* nn_cofi_stop.                                                            *)
Stop == fsm = "ACTIVE" /\ StopAction(sofi, retry) /\ UNCHANGED failed

(* As in Bofi: the late event of a stream that has stopped, and the wait    *)
(* for the poller.                                                          *)
LateEvent ==
    /\ fsm \in {"ACTIVE", "STOPPING"} /\ sofi = "stopped" /\ "LATE" \in Faults \ failed
    /\ failed' = failed \cup {"LATE"}
    /\ fsm' = "BAD_STATE"
    /\ UNCHANGED <<state, sofi, retry>>

Deadlock ==
    /\ fsm \in {"ACTIVE", "STOPPING"} /\ sofi # "idle" /\ "DEADLOCK" \in Faults
    /\ fsm' = "DEADLOCKED"
    /\ UNCHANGED <<state, sofi, retry, failed>>

(* nn_cofi_destroy; nanomsg's nn_backoff_term asserts that the timer is idle.*)
Destroy ==
    /\ fsm = "STOPPED"
    /\ fsm' = "DESTROYED"
    /\ UNCHANGED <<state, sofi, retry, failed>>

Next ==
    \/ Start \/ Disconnected \/ BackoffTimeout \/ BackoffStopped
    \/ \E call \in ConnectFaults : StartFails(call) \/ StartIgnored(call)
    \/ \E p \in Phases : SofiAdvances(p)
    \/ SofiStopped \/ Stop \/ LateEvent \/ Deadlock \/ Destroy

Spec == Init /\ [][Next]_vars

-----------------------------------------------------------------------------
(* The state says what the endpoint waits for, so that every event finds    *)
(* the state that expects it: the timer runs only while retrying, there is  *)
(* a streaming endpoint exactly while the state is ACTIVE, and none of the  *)
(* two is left when the endpoint has stopped.                               *)
ConnectorInStep ==
    /\ fsm = "ACTIVE" =>
         /\ state = "ACTIVE" <=> sofi # "idle"
         /\ state = "RETRYING" <=> retry = "ACTIVE"
         /\ state = "STOPPING_BACKOFF" <=> retry = "STOPPING"
    /\ fsm = "STOPPING" => sofi # "idle" /\ retry = "IDLE"
    /\ fsm \in {"STOPPED", "DESTROYED"} => sofi = "idle" /\ retry = "IDLE"
=============================================================================
