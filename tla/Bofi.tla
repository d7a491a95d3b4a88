-------------------------------- MODULE Bofi --------------------------------
(***************************************************************************)
(* The bound endpoint (bofi.c): a passive endpoint that is closed and      *)
(* opened again for each connection request, the streaming endpoints       *)
(* accepted so far, and the table of offsets that keeps their memory keys  *)
(* apart.  A streaming endpoint is what StreamPhases says, which Sofi      *)
(* implements.                                                             *)
(*                                                                         *)
(* Each action is one call of nn_bofi_handler or nn_bofi_shutdown, with    *)
(* everything it calls: a critical error runs the STOP action before the   *)
(* handler returns.  Init is the endpoint as nn_bofi_create hands it to    *)
(* nn_fsm_start.                                                           *)
(***************************************************************************)
EXTENDS Integers, StreamPhases, MrKeys

CONSTANTS
    Sofis,          \* bound: streaming endpoints that exist at the same time
    Faults          \* what may go wrong, each of it once (a bound)

(* The calls nn_bofi_start_accepting makes.  INIT and ACCEPT are those of a *)
(* new stream; EQ is an event of the passive endpoint other than a request; *)
(* LATE an event read before the stop of what it belongs to and fed after;  *)
(* DEADLOCK a wait for the poller that itself waits for the context.        *)
OpenFaults == {"PEP", "QUEUE", "BIND", "LISTEN"}

VARIABLES
    state,              \* "IDLE", "ACTIVE", "STOPPING"
    fsm,                \* of nanomsg: "IDLE", "ACTIVE", "STOPPING", "STOPPED";
                        \* "DESTROYED" by nn_bofi_destroy; "ABORTED" or, by an
                        \* event after the stop, "BAD_STATE": the process is gone;
                        \* "DEADLOCKED": its poller and the context's holder wait
    pep,                \* what the pointer points to: "NULL", "OPEN", "LISTENING", "FREED"
    peps,               \* passive endpoints open in libfabric
    worker,             \* is the worker started
    queued, read,       \* a FI_CONNREQ in the event queue; in the hands of the poller
    sofi_offsets, sofi_offsets_size,    \* the offsets marked as used; the table's size
    phase, offset,      \* of each streaming endpoint; "none" if it is not on the list
    failed              \* history: what has gone wrong

pepVars == <<pep, peps, worker>>
tableVars == <<sofi_offsets, sofi_offsets_size, offset>>
vars == <<state, fsm, pepVars, queued, read, tableVars, phase, failed>>

Init ==
    /\ state = "IDLE" /\ fsm = "IDLE"
    /\ pep = "NULL" /\ peps = 0 /\ worker = FALSE
    /\ queued = FALSE /\ read = FALSE
    /\ sofi_offsets = {} /\ sofi_offsets_size = offset_slots
    /\ phase = [s \in Sofis |-> "none"] /\ offset = [s \in Sofis |-> 0]
    /\ failed = {}

sofis == {s \in Sofis : phase[s] # "none"}

TypeOK ==
    /\ state \in {"IDLE", "ACTIVE", "STOPPING"}
    /\ fsm \in {"IDLE", "ACTIVE", "STOPPING", "STOPPED", "DESTROYED", "ABORTED",
               "BAD_STATE", "DEADLOCKED"}
    /\ pep \in {"NULL", "OPEN", "LISTENING", "FREED"} /\ peps \in Int
    /\ worker \in BOOLEAN /\ queued \in BOOLEAN /\ read \in BOOLEAN
    /\ sofi_offsets_size \in Nat /\ sofi_offsets \subseteq 0 .. sofi_offsets_size - 1
    /\ phase \in [Sofis -> Phases \cup {"none"}] /\ offset \in [Sofis -> Nat]
    /\ failed \subseteq Faults

MayFail(call) == call \in Faults \ failed

-----------------------------------------------------------------------------
FreeOffsets == (0 .. sofi_offsets_size - 1) \ sofi_offsets

NewOffsetUnmarked(o) ==
    /\ o \in FreeOffsets /\ \A p \in FreeOffsets : o <= p
    /\ UNCHANGED <<sofi_offsets, sofi_offsets_size>>

(* nn_bofi_new_sofi_offset: the first free entry, or the first of the new   *)
(* ones, which is not marked.                                               *)
NewSofiOffset(o) ==
    \/ /\ o \in FreeOffsets /\ \A p \in FreeOffsets : o <= p
       /\ sofi_offsets' = sofi_offsets \cup {o}
       /\ UNCHANGED sofi_offsets_size
    \/ /\ FreeOffsets = {} /\ o = sofi_offsets_size
       /\ sofi_offsets_size' = sofi_offsets_size + offset_slots
       /\ UNCHANGED sofi_offsets

(* nn_sofi_stop of every endpoint on the list.                              *)
StopAll(streams) ==
    /\ phase' \in [Sofis -> Phases \cup {"none"}]
    /\ \A s \in Sofis : phase'[s] \in AfterStop(streams[s])

NobodyLeft(streams) == \A s \in Sofis : streams[s] = "none"

StopActionUnwaited(p, open, streams) ==
    /\ state' = "STOPPING" /\ pep' = "FREED" /\ peps' = open - 1 /\ queued' = FALSE
    /\ StopAll(streams)
    /\ fsm' = "STOPPED"

(* The STOP action of nn_bofi_shutdown with the pointer at p: closing a     *)
(* passive endpoint that is not there ends the process.                     *)
StopAction(p, open, streams) ==
    /\ state' = "STOPPING"
    /\ \/ /\ p \in {"OPEN", "LISTENING"}
          /\ pep' = "FREED" /\ peps' = open - 1
          /\ queued' = FALSE
          /\ StopAll(streams)
          /\ fsm' = IF NobodyLeft(streams) THEN "STOPPED" ELSE "STOPPING"
       \/ /\ p \in {"NULL", "FREED"}
          /\ pep' = p /\ peps' = open
          /\ fsm' = "ABORTED"
          /\ phase' = streams /\ UNCHANGED queued

(* Where ofi_passive_endpoint_open and ofi_cm_listen leave the pointer, old *)
(* before, and how many passive endpoints they leave open: a queue that     *)
(* cannot be opened or bound leaves the endpoint open, and a failed bind    *)
(* does not even reset the pointer.                                         *)
PepAfter(rc, old) == CASE rc = "OK"     -> "LISTENING"
                       [] rc = "LISTEN" -> "OPEN"
                       [] rc = "BIND"   -> old
                       [] OTHER         -> "NULL"

OpenAfter(rc, open) == IF rc = "PEP" THEN open ELSE open + 1

(* nn_bofi_start_accepting, and the critical error its caller makes of a    *)
(* failure.                                                                 *)
StartAccepting(rc, old, open, streams) ==
    \/ /\ rc = "OK"
       /\ state' = "ACTIVE" /\ fsm' = "ACTIVE"
       /\ pep' = "LISTENING" /\ peps' = open + 1 /\ worker' = TRUE
       /\ queued' = FALSE
       /\ phase' = streams
    \/ /\ rc \in OpenFaults
       /\ worker' = FALSE
       /\ StopAction(PepAfter(rc, old), OpenAfter(rc, open), streams)

(* An outcome of nn_bofi_start_accepting, after the failure of call.        *)
Outcome(rc, calls) ==
    /\ rc = "OK" \/ (rc \in OpenFaults /\ MayFail(rc))
    /\ failed' = failed \cup calls \cup ({rc} \ {"OK"})

-----------------------------------------------------------------------------
(* nn_fsm_start.                                                            *)
Start(rc) ==
    /\ fsm = "IDLE"
    /\ Outcome(rc, {})
    /\ StartAccepting(rc, "NULL", 0, phase)
    /\ UNCHANGED <<read, tableVars>>

(* nanomsg's FSM counts as active only once the START handler has returned: *)
(* a stop inside the handler is ignored, and the endpoint stays idle.       *)
StartIgnored(rc) ==
    /\ fsm = "IDLE"
    /\ Outcome(rc, {}) /\ rc # "OK"
    /\ fsm' = "ACTIVE"
    /\ pep' = PepAfter(rc, "NULL") /\ peps' = OpenAfter(rc, 0) /\ worker' = FALSE
    /\ UNCHANGED <<state, queued, read, tableVars, phase>>

(* A connection request reaches the event queue of the passive endpoint;    *)
(* the poller reads it and waits for the context.                           *)
RequestArrives ==
    /\ pep = "LISTENING" /\ fsm = "ACTIVE" /\ ~queued
    /\ queued' = TRUE
    /\ UNCHANGED <<state, fsm, pepVars, read, tableVars, phase, failed>>

RequestRead ==
    /\ worker /\ fsm = "ACTIVE" /\ queued /\ ~read
    /\ queued' = FALSE /\ read' = TRUE
    /\ UNCHANGED <<state, fsm, pepVars, tableVars, phase, failed>>

(* FI_CONNREQ: nn_sofi_init and nn_sofi_start_accept succeed.  The passive  *)
(* endpoint is closed, with the requests in its queue, and opened anew.     *)
(* Streaming endpoints differ in nothing but their name: a new one takes    *)
(* the first that is free.                                                  *)
Accept(s, o, rc) ==
    /\ state = "ACTIVE" /\ fsm = "ACTIVE" /\ read
    /\ phase[s] = "none" /\ s = CHOOSE t \in Sofis : phase[t] = "none"
    /\ NewSofiOffset(o)
    /\ offset' = [offset EXCEPT ![s] = o]
    /\ Outcome(rc, {})
    /\ StartAccepting(rc, "FREED", peps - 1, [phase EXCEPT ![s] = "connecting"])
    /\ read' = FALSE

RejectKeepsPep(o, rc) ==
    /\ state = "ACTIVE" /\ fsm = "ACTIVE" /\ read
    /\ MayFail("ACCEPT")
    /\ NewSofiOffset(o)
    /\ Outcome(rc, {"ACCEPT"})
    /\ StartAccepting(rc, pep, peps, phase)
    /\ read' = FALSE
    /\ UNCHANGED offset

(* nn_sofi_start_accept fails: the endpoint is freed and its offset stays   *)
(* marked.                                                                  *)
Reject(o, rc) ==
    /\ state = "ACTIVE" /\ fsm = "ACTIVE" /\ read
    /\ MayFail("ACCEPT")
    /\ NewSofiOffset(o)
    /\ Outcome(rc, {"ACCEPT"})
    /\ StartAccepting(rc, "FREED", peps - 1, phase)
    /\ read' = FALSE
    /\ UNCHANGED offset

(* The rejection reads eq_cm->info, which ofi_active_endpoint_open has      *)
(* freed: Reject, if nothing comes of it, or the end of the process.        *)
RejectFreed(o) ==
    /\ state = "ACTIVE" /\ fsm = "ACTIVE" /\ read
    /\ MayFail("ACCEPT")
    /\ NewSofiOffset(o)
    /\ failed' = failed \cup {"ACCEPT"}
    /\ fsm' = "ABORTED" /\ read' = FALSE
    /\ UNCHANGED <<state, pepVars, queued, offset, phase>>

(* nn_sofi_init fails: nn_bofi_reap_sofi erases the endpoint from a list it *)
(* is not on, which nanomsg's list asserts against.                         *)
InitFails(o) ==
    /\ state = "ACTIVE" /\ fsm = "ACTIVE" /\ read
    /\ MayFail("INIT")
    /\ NewSofiOffset(o)
    /\ failed' = failed \cup {"INIT"}
    /\ fsm' = "ABORTED" /\ read' = FALSE
    /\ UNCHANGED <<state, pepVars, queued, offset, phase>>

(* Any other event of the passive endpoint, an error above all, reaches     *)
(* nn_fsm_bad_action.                                                       *)
PassiveError ==
    /\ state = "ACTIVE" /\ fsm = "ACTIVE" /\ worker /\ ~read
    /\ MayFail("EQ")
    /\ failed' = failed \cup {"EQ"}
    /\ fsm' = "ABORTED"
    /\ UNCHANGED <<state, pepVars, queued, read, tableVars, phase>>

(* nn_bofi_reap_sofi; the offset of nobody is 0.                            *)
ReapSofi(s) ==
    /\ sofi_offsets' = sofi_offsets \ {offset[s]}
    /\ phase' = [phase EXCEPT ![s] = "none"]
    /\ offset' = [offset EXCEPT ![s] = 0]
    /\ UNCHANGED sofi_offsets_size

SofiStoppedFirst(s) ==
    /\ fsm \in {"ACTIVE", "STOPPING"}
    /\ phase[s] = "stopped"
    /\ ReapSofi(s)
    /\ fsm' = IF fsm = "STOPPING" THEN "STOPPED" ELSE fsm
    /\ UNCHANGED <<state, pepVars, queued, read, failed>>

SofiStoppedUnnoticed(s) ==
    /\ fsm \in {"ACTIVE", "STOPPING"}
    /\ phase[s] = "stopped"
    /\ ReapSofi(s)
    /\ UNCHANGED <<state, fsm, pepVars, queued, read, failed>>

(* NN_SOFI_STOPPED, while active and while stopping.                        *)
SofiStopped(s) ==
    /\ fsm \in {"ACTIVE", "STOPPING"}
    /\ phase[s] = "stopped"
    /\ ReapSofi(s)
    /\ fsm' = IF fsm = "STOPPING" /\ NobodyLeft(phase') THEN "STOPPED" ELSE fsm
    /\ UNCHANGED <<state, pepVars, queued, read, failed>>

(* A streaming endpoint goes on by itself.                                  *)
SofiAdvances(s, p) ==
    /\ fsm \in {"ACTIVE", "STOPPING"}
    /\ phase[s] # "none" /\ p \in Follows(phase[s])
    /\ phase' = [phase EXCEPT ![s] = p]
    /\ UNCHANGED <<state, fsm, pepVars, queued, read, tableVars, failed>>

(* nn_bofi_stop.                                                            *)
Stop ==
    /\ fsm = "ACTIVE"
    /\ StopAction(pep, peps, phase)
    /\ UNCHANGED <<worker, read, tableVars, failed>>

(* A request the poller had read when the endpoint was stopped is fed to an *)
(* FSM that knows no such event, or that has been freed.                    *)
LateRequest ==
    /\ fsm \in {"STOPPING", "STOPPED", "DESTROYED"} /\ read
    /\ fsm' = "BAD_STATE"
    /\ UNCHANGED <<state, pepVars, queued, read, tableVars, phase, failed>>

(* Likewise another event of the passive endpoint, or one of a stream that  *)
(* has stopped: the abort, if anything comes of it.  It comes after the     *)
(* stream is reaped, but what happens between makes no difference to it.    *)
LateEvent ==
    /\ \/ fsm \in {"ACTIVE", "STOPPING"} /\ \E s \in Sofis : phase[s] = "stopped"
       \/ fsm \in {"STOPPING", "STOPPED"} /\ worker /\ ~read
    /\ MayFail("LATE")
    /\ failed' = failed \cup {"LATE"}
    /\ fsm' = "BAD_STATE"
    /\ UNCHANGED <<state, pepVars, queued, read, tableVars, phase>>

(* A stream that ends, or is opened or closed, makes its process wait for   *)
(* the poller, while the poller waits for the context (OfiwPool).           *)
Deadlock ==
    /\ fsm \in {"ACTIVE", "STOPPING", "STOPPED"} /\ worker /\ "DEADLOCK" \in Faults
    /\ fsm' = "DEADLOCKED"
    /\ UNCHANGED <<state, pepVars, queued, read, tableVars, phase, failed>>

(* nn_bofi_destroy; nn_list_term asserts that the list is empty.            *)
Destroy ==
    /\ fsm = "STOPPED"
    /\ fsm' = IF sofis = {} THEN "DESTROYED" ELSE "ABORTED"
    /\ worker' = FALSE
    /\ UNCHANGED <<state, pep, peps, queued, read, tableVars, phase, failed>>

Offsets == 0 .. sofi_offsets_size

Next ==
    \/ \E rc \in OpenFaults \cup {"OK"} :
          \/ Start(rc)
          \/ StartIgnored(rc)
          \/ \E s \in Sofis, o \in Offsets : Accept(s, o, rc)
          \/ \E o \in Offsets : Reject(o, rc)
    \/ \E o \in Offsets : RejectFreed(o) \/ InitFails(o)
    \/ RequestArrives \/ RequestRead
    \/ \E s \in Sofis : SofiStopped(s)
    \/ \E s \in Sofis, p \in Phases : SofiAdvances(s, p)
    \/ PassiveError \/ Stop \/ LateRequest \/ LateEvent \/ Deadlock \/ Destroy

Spec == Init /\ [][Next]_vars

-----------------------------------------------------------------------------
(* No two streaming endpoints register memory under the same key of the     *)
(* domain they share, as long as the table of offsets has not grown: later  *)
(* offsets are given out without being marked (bofi.c:125-133).             *)
KeysExclusive ==
    sofi_offsets_size = offset_slots =>
        \A s, t \in sofis : s # t => Keys(offset[s]) \cap Keys(offset[t]) = {}

(* An active endpoint can be reached: it has one passive endpoint, which    *)
(* listens and whose events are read, however many requests it accepted or  *)
(* rejected; a stopping endpoint has none.  Failed opens leave more behind. *)
ListensWhileActive ==
    /\ state = "ACTIVE" /\ fsm = "ACTIVE" => pep = "LISTENING" /\ peps = 1 /\ worker
    /\ fsm \in {"STOPPING", "STOPPED", "DESTROYED"} => pep = "FREED" /\ peps = 0

(* What brings the process down.  An active endpoint: one of five calls     *)
(* that failed, for they leave a pointer that is closed again or freed      *)
(* memory in use, or an event of the passive endpoint that is no request.   *)
(* An event fed too late: a request read before the stop, or one held when  *)
(* a stream or the passive endpoint stopped.  Nothing else does: no order   *)
(* of requests, accepts, stops and streams that end by themselves, nor a    *)
(* passive endpoint that cannot listen.                                     *)
FailsAsKnown ==
    /\ fsm = "ABORTED" => failed \cap {"PEP", "QUEUE", "BIND", "INIT", "ACCEPT", "EQ"} # {}
    /\ fsm = "BAD_STATE" => "LATE" \in failed \/ (read /\ state = "STOPPING")
=============================================================================
