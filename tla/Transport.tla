------------------------------ MODULE Transport ------------------------------
(***************************************************************************)
(* A bound endpoint (Bofi) and a connecting endpoint (Cofi) in two         *)
(* processes, the libfabric objects each process holds (OfiApi), and the   *)
(* network between them: the connector's current attempt, from fi_connect  *)
(* to the listener's event queue, its poller, and a streaming endpoint.    *)
(***************************************************************************)
EXTENDS Integers, MrKeys

CONSTANTS Sofis,    \* see Bofi
          Faults    \* what may go wrong, each of it once in each process

VARIABLES
    b_state, b_fsm, pep, peps, worker, queued, read, sofi_offsets,
    sofi_offsets_size, phase, offset, b_failed,     \* see Bofi
    c_state, c_fsm, sofi, retry, c_failed,          \* see Cofi
    b_fabrics, b_domains, c_fabrics, c_domains,     \* see OfiApi
    others,     \* is there a request of another connector still to come (a bound)
    attempt     \* the connector's attempt: "none", "sent", "queued", "read",
                \* "lost" on the way, or the streaming endpoint that accepted it

B == INSTANCE Bofi WITH
        state <- b_state, fsm <- b_fsm, failed <- b_failed,
        Faults <- Faults \cap {"PEP", "QUEUE", "BIND", "LISTEN", "INIT", "ACCEPT", "EQ",
                              "LATE", "DEADLOCK"}
C == INSTANCE Cofi WITH
        state <- c_state, fsm <- c_fsm, failed <- c_failed,
        Faults <- Faults \cap {"INIT", "CONNECT", "LATE", "DEADLOCK"}
BR == INSTANCE OfiApi WITH fabrics <- b_fabrics, domains <- b_domains
CR == INSTANCE OfiApi WITH fabrics <- c_fabrics, domains <- c_domains

bVars == <<b_state, b_fsm, pep, peps, worker, queued, read, sofi_offsets,
           sofi_offsets_size, phase, offset, b_failed>>
cVars == <<c_state, c_fsm, sofi, retry, c_failed>>
bObjects == <<b_fabrics, b_domains>>
cObjects == <<c_fabrics, c_domains>>
vars == <<bVars, cVars, bObjects, cObjects, others, attempt>>

Init ==
    /\ B!Init /\ C!Init /\ BR!Init /\ CR!Init
    /\ others = TRUE /\ attempt = "none"

ListenerAlone == UNCHANGED <<cVars, cObjects, others>>
ConnectorAlone == UNCHANGED <<bVars, bObjects, others>>

Rc == B!OpenFaults \cup {"OK"}

-----------------------------------------------------------------------------
(* nn_ofi_bind, nn_ofi_connect.                                             *)
Bind ==
    /\ b_fabrics = 0 /\ BR!OpenBoth
    /\ \E rc \in Rc : B!Start(rc) \/ B!StartIgnored(rc)
    /\ ListenerAlone /\ UNCHANGED attempt

BindFails ==
    /\ b_fsm = "IDLE" /\ "DOMAIN" \in Faults /\ b_fabrics = 0
    /\ BR!OpenFabricOnly
    /\ ListenerAlone /\ UNCHANGED <<bVars, attempt>>

Connect ==
    /\ c_fabrics = 0 /\ CR!OpenBoth
    /\ \/ C!Start /\ attempt' = "sent"
       \/ \E call \in C!ConnectFaults :
             (C!StartFails(call) \/ C!StartIgnored(call)) /\ UNCHANGED attempt
    /\ ConnectorAlone

ConnectFails ==
    /\ c_fsm = "IDLE" /\ "DOMAIN" \in Faults /\ c_fabrics = 0
    /\ CR!OpenFabricOnly
    /\ ConnectorAlone /\ UNCHANGED <<cVars, attempt>>

(* nn_ofi_term, once nanomsg has no endpoint left.                          *)
TermListener ==
    /\ b_fsm \in {"IDLE", "DESTROYED"} /\ b_fabrics > 0
    /\ BR!Term
    /\ ListenerAlone /\ UNCHANGED <<bVars, attempt>>

TermConnector ==
    /\ c_fsm \in {"IDLE", "DESTROYED"} /\ c_fabrics > 0
    /\ CR!Term
    /\ ConnectorAlone /\ UNCHANGED <<cVars, attempt>>

-----------------------------------------------------------------------------
(* The network.                                                             *)

(* What a step of the listener does to the attempt: a request it drops from *)
(* its queue, or has read when its process ends, is lost.                   *)
AttemptFollows ==
    /\ attempt' = IF \/ attempt = "queued" /\ ~queued' /\ read = read'
                     \/ attempt = "read" /\ ~read'
                  THEN "lost" ELSE attempt

RequestArrives ==
    /\ attempt = "sent" /\ B!RequestArrives
    /\ attempt' = "queued"
    /\ ListenerAlone /\ UNCHANGED bObjects

(* A request of a connector of which nothing else is modelled.              *)
RequestOfAnother ==
    /\ others /\ B!RequestArrives
    /\ others' = FALSE
    /\ UNCHANGED <<cVars, bObjects, cObjects, attempt>>

RequestRead ==
    /\ B!RequestRead
    /\ attempt' = IF attempt = "queued" THEN "read" ELSE attempt
    /\ ListenerAlone /\ UNCHANGED bObjects

(* A request that finds nobody listening.                                   *)
RequestLost ==
    /\ attempt = "sent" /\ (pep # "LISTENING" \/ b_fsm # "ACTIVE")
    /\ attempt' = "lost"
    /\ UNCHANGED <<bVars, cVars, bObjects, cObjects, others>>

(* The connector's endpoint hears that its attempt failed.                  *)
Refused ==
    /\ attempt = "lost"
    /\ sofi = "connecting"
    /\ \E p \in {"closing", "stopped"} : C!SofiAdvances(p)
    /\ attempt' = "none"
    /\ ConnectorAlone /\ UNCHANGED cObjects

(* FI_CONNECTED on either side.                                             *)
ConnectorConnected ==
    /\ attempt \in Sofis /\ sofi = "connecting"
    /\ C!SofiAdvances("active")
    /\ ConnectorAlone /\ UNCHANGED <<cObjects, attempt>>

ListenerConnected(s) ==
    /\ phase[s] = "connecting"
    /\ B!SofiAdvances(s, "active")
    /\ ListenerAlone /\ UNCHANGED <<bObjects, attempt>>

Joined(s) == attempt = s /\ sofi \in {"connecting", "active"} /\ c_fsm # "BAD_STATE"

PeerGone ==
    \/ b_fsm \in {"ABORTED", "BAD_STATE"}
    \/ attempt \in Sofis /\ phase[attempt] \notin {"connecting", "active"}

(* FI_SHUTDOWN, or an error on the event queue: the other side is gone.     *)
ConnectorDisconnected ==
    /\ sofi \in {"connecting", "active"} /\ PeerGone
    /\ \E p \in {"closing", "stopped"} : C!SofiAdvances(p)
    /\ attempt' = "none"
    /\ ConnectorAlone /\ UNCHANGED cObjects

ListenerDisconnected(s) ==
    /\ phase[s] \in {"connecting", "active"} /\ ~Joined(s)
    /\ \E p \in {"closing", "stopped"} : B!SofiAdvances(s, p)
    /\ ListenerAlone /\ UNCHANGED <<bObjects, attempt>>

(* The keepalive, or an error of its own, ends a connected endpoint.        *)
ConnectorBreaks ==
    /\ sofi = "active"
    /\ C!SofiAdvances("closing")
    /\ attempt' = "none"
    /\ ConnectorAlone /\ UNCHANGED cObjects

ListenerBreaks(s) ==
    /\ phase[s] = "active"
    /\ B!SofiAdvances(s, "closing")
    /\ ListenerAlone /\ UNCHANGED <<bObjects, attempt>>

-----------------------------------------------------------------------------
(* Events of the listener.                                                  *)
Accept(s) ==
    /\ \E o \in B!Offsets, rc \in Rc : B!Accept(s, o, rc)
    /\ attempt' = CASE attempt = "read"   -> s
                    [] attempt = "queued" -> "lost"
                    [] OTHER              -> attempt
    /\ ListenerAlone /\ UNCHANGED bObjects

Reject ==
    /\ \E o \in B!Offsets :
          \/ \E rc \in Rc : B!Reject(o, rc)
          \/ B!RejectFreed(o)
          \/ B!InitFails(o)
    /\ attempt' = IF attempt \in {"read", "queued"} THEN "lost" ELSE attempt
    /\ ListenerAlone /\ UNCHANGED bObjects

ListenerStreamEnds(s) ==
    /\ B!SofiAdvances(s, "stopped") /\ phase[s] = "closing"
    /\ ListenerAlone /\ UNCHANGED <<bObjects, attempt>>

ListenerReaps(s) ==
    /\ B!SofiStopped(s)
    /\ ListenerAlone /\ UNCHANGED <<bObjects, attempt>>

ListenerStop ==
    /\ B!Stop
    /\ AttemptFollows
    /\ ListenerAlone /\ UNCHANGED bObjects

(* What ends the listener's process, or stops it for good.                  *)
ListenerFails ==
    /\ B!PassiveError \/ B!LateRequest \/ B!LateEvent \/ B!Deadlock
    /\ ListenerAlone /\ UNCHANGED <<bObjects, attempt>>

ListenerDestroy ==
    /\ B!Destroy /\ BR!DomainClose
    /\ ListenerAlone /\ UNCHANGED attempt

(* Events of the connector; when its endpoint is stopped, so is its attempt.*)
ConnectorReaps ==
    /\ C!Disconnected \/ C!SofiStopped
    /\ ConnectorAlone /\ UNCHANGED <<cObjects, attempt>>

ConnectorStreamEnds ==
    /\ C!SofiAdvances("stopped") /\ sofi = "closing"
    /\ ConnectorAlone /\ UNCHANGED <<cObjects, attempt>>

ConnectorTimeout ==
    /\ C!BackoffTimeout
    /\ ConnectorAlone /\ UNCHANGED <<cObjects, attempt>>

ConnectorRetries ==
    /\ C!BackoffStopped
    /\ attempt' = IF sofi' = "connecting" THEN "sent" ELSE "none"
    /\ ConnectorAlone /\ UNCHANGED cObjects

ConnectorStop ==
    /\ C!Stop
    /\ attempt' = "none"
    /\ ConnectorAlone /\ UNCHANGED cObjects

ConnectorFails ==
    /\ C!LateEvent \/ C!Deadlock
    /\ ConnectorAlone /\ UNCHANGED <<cObjects, attempt>>

ConnectorDestroy ==
    /\ C!Destroy /\ CR!DomainClose
    /\ ConnectorAlone /\ UNCHANGED attempt

Next ==
    \/ Bind \/ BindFails \/ Connect \/ ConnectFails
    \/ RequestArrives \/ RequestOfAnother \/ RequestRead \/ RequestLost \/ Refused
    \/ ConnectorConnected \/ ConnectorDisconnected \/ ConnectorBreaks
    \/ \E s \in Sofis :
          \/ ListenerConnected(s) \/ ListenerDisconnected(s) \/ ListenerBreaks(s)
          \/ Accept(s) \/ ListenerStreamEnds(s) \/ ListenerReaps(s)
    \/ Reject \/ ListenerStop \/ ListenerFails \/ ListenerDestroy
    \/ ConnectorReaps \/ ConnectorStreamEnds \/ ConnectorTimeout
    \/ ConnectorRetries \/ ConnectorStop \/ ConnectorFails \/ ConnectorDestroy
    \/ TermListener \/ TermConnector

Spec == Init /\ [][Next]_vars

(* The connector's process goes on with the one thing it has to do next.    *)
ConnectorGoesOn ==
    Refused \/ ConnectorDisconnected \/ ConnectorReaps \/ ConnectorTimeout
      \/ ConnectorRetries \/ ConnectorDestroy

(* The pollers and nanomsg's workers run, the network delivers or reports,  *)
(* and nanomsg destroys an endpoint that has stopped.  An accepted          *)
(* connection may break before the connector has seen FI_CONNECTED, but not *)
(* every time.  Nobody need bind, connect or stop, and a stream that closes *)
(* need not end: one whose peer is gone with a send in transit, or one with *)
(* its flush delayed, does not (Sofi).                                      *)
Fairness ==
    /\ WF_vars(RequestArrives \/ RequestLost) /\ WF_vars(RequestRead)
    /\ WF_vars(Reject \/ \E s \in Sofis : Accept(s))
    /\ SF_vars(ConnectorConnected) /\ WF_vars(ConnectorGoesOn)
    /\ WF_vars(ListenerDestroy)
    /\ \A s \in Sofis :
          WF_vars(ListenerDisconnected(s)) /\ WF_vars(ListenerReaps(s))

FairSpec == Spec /\ Fairness

-----------------------------------------------------------------------------
(* No two streaming endpoints of the listener share a memory key while the  *)
(* table of offsets has not grown; see Bofi.                                *)
KeysExclusive == B!KeysExclusive

(* The listener has one passive endpoint, listening, while it is active and *)
(* none once it is being stopped; see Bofi.                                 *)
ListensWhileActive == B!ListensWhileActive

(* What brings the listener's process down, and nothing else; see Bofi.     *)
FailsAsKnown == B!FailsAsKnown

(* The connector's state says whether its stream, its timer or neither is   *)
(* there; see Cofi.                                                         *)
ConnectorInStep == C!ConnectorInStep

(* Libfabric objects outlive their users: while an endpoint has streaming   *)
(* endpoints its domain is open, while it has passive endpoints its fabric  *)
(* is, and nn_ofi_term leaves nothing open.                                 *)
ObjectsOutliveUsers ==
    /\ B!sofis # {} => b_domains = 1
    /\ sofi # "idle" => c_domains = 1
    /\ peps > 0 \/ b_domains > 0 => b_fabrics > 0
    /\ c_domains > 0 => c_fabrics > 0
    /\ b_domains \in {0, 1} /\ c_domains \in {0, 1}

(* A stream that closes and never ends.                                     *)
ConnectorHangs == <>[](sofi = "closing")
ListenerHangs(s) == <>[](phase[s] = "closing")

(* As long as the listener listens and the connector is not stopped, the    *)
(* connector connects, however often requests are dropped with a passive    *)
(* endpoint, are refused, or connections break.  Only a close that hangs    *)
(* keeps it from that: its own (NN_SOFI_STOPPED never comes, cofi.c:        *)
(* 372-385), or those of all the streams the listener may have.             *)
Connects ==
    \/ b_fsm = "ACTIVE" /\ b_state = "ACTIVE" /\ c_fsm = "ACTIVE" /\ c_state # "IDLE" ~>
          sofi = "active" \/ b_fsm # "ACTIVE" \/ c_fsm # "ACTIVE"
    \/ ConnectorHangs
    \/ \A s \in Sofis : ListenerHangs(s)

(* An endpoint that is being stopped is destroyed, after each of its        *)
(* streaming endpoints, unless one of these hangs in its close, an event    *)
(* the poller had read brings the process down (bofi.c:339, ofiw.c:287), or *)
(* the wait for the poller never ends (ofiw.c:543-545).                     *)
StopCompletes ==
    /\ \/ b_fsm = "STOPPING" ~> b_fsm \in {"DESTROYED", "BAD_STATE", "DEADLOCKED"}
       \/ \E s \in Sofis : ListenerHangs(s)
    /\ \/ c_fsm = "STOPPING" ~> c_fsm \in {"DESTROYED", "BAD_STATE", "DEADLOCKED"}
       \/ ConnectorHangs
=============================================================================
