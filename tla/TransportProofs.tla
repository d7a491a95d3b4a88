--------------------------- MODULE TransportProofs ---------------------------
(***************************************************************************)
(* The connector alone is always in step with its stream and its timer.    *)
(* The listener and the connector of Transport behave as Bofi and Cofi     *)
(* say, so that what is proved of these holds of the composition; and the  *)
(* libfabric objects of each process outlive their users.                  *)
(***************************************************************************)
EXTENDS Transport, TLAPS

PB == INSTANCE BofiProofs WITH
        state <- b_state, fsm <- b_fsm, failed <- b_failed,
        Faults <- Faults \cap {"PEP", "QUEUE", "BIND", "LISTEN", "INIT", "ACCEPT", "EQ",
                              "LATE", "DEADLOCK"}

-----------------------------------------------------------------------------
(* Refinement: each step of the composition is one of the listener's, or    *)
(* leaves the listener alone; the same for the connector.                   *)

LEMMA ListenerSteps == [Next]_vars => [B!Next]_(B!vars)
<1> SUFFICES ASSUME [Next]_vars PROVE B!Next \/ UNCHANGED bVars
  BY DEF bVars, B!vars, B!pepVars, B!tableVars
<1>1. CASE Bind
  BY <1>1 DEF Bind, Rc, B!Next
<1>2. CASE RequestArrives \/ RequestOfAnother \/ RequestRead
  BY <1>2 DEF RequestArrives, RequestOfAnother, RequestRead, B!Next
<1>3. ASSUME NEW s \in Sofis,
             ListenerConnected(s) \/ ListenerDisconnected(s) \/ ListenerBreaks(s) \/ ListenerStreamEnds(s)
      PROVE  B!Next
  BY <1>3 DEF ListenerConnected, ListenerDisconnected, ListenerBreaks, ListenerStreamEnds,
     B!Next, B!Phases
<1>4. ASSUME NEW s \in Sofis, Accept(s) \/ ListenerReaps(s)
      PROVE  B!Next
  BY <1>4 DEF Accept, ListenerReaps, Rc, B!Next
<1>5. CASE Reject
  BY <1>5 DEF Reject, Rc, B!Next
<1>6. CASE ListenerStop \/ ListenerFails \/ ListenerDestroy
  BY <1>6 DEF ListenerStop, ListenerFails, ListenerDestroy, B!Next
<1>7. CASE \/ BindFails \/ TermListener \/ RequestLost
           \/ Connect \/ ConnectFails \/ Refused \/ ConnectorConnected \/ ConnectorDisconnected
           \/ ConnectorBreaks \/ ConnectorReaps \/ ConnectorStreamEnds \/ ConnectorTimeout
           \/ ConnectorRetries \/ ConnectorStop \/ ConnectorFails \/ ConnectorDestroy
           \/ TermConnector \/ UNCHANGED vars
  BY <1>7 DEF BindFails, TermListener, RequestLost, Connect, ConnectFails, Refused,
     ConnectorConnected, ConnectorDisconnected, ConnectorBreaks, ConnectorReaps,
     ConnectorStreamEnds, ConnectorTimeout, ConnectorRetries, ConnectorStop,
     ConnectorFails, ConnectorDestroy, TermConnector, ConnectorAlone, vars
<1> QED BY <1>1, <1>2, <1>3, <1>4, <1>5, <1>6, <1>7 DEF Next

LEMMA ConnectorSteps == [Next]_vars => [C!Next]_(C!vars)
<1> SUFFICES ASSUME [Next]_vars PROVE C!Next \/ UNCHANGED cVars
  BY DEF cVars, C!vars
<1>1. CASE Connect
  <2>1. ASSUME NEW call \in C!ConnectFaults, C!StartFails(call) \/ C!StartIgnored(call)
        PROVE  C!Next
    BY <2>1 DEF C!Next, C!StartFails, C!StartIgnored, C!StartConnectingFails
  <2> QED BY <1>1, <2>1 DEF Connect, C!Next
<1>2. CASE Refused \/ ConnectorConnected \/ ConnectorDisconnected \/ ConnectorBreaks \/ ConnectorStreamEnds
  BY <1>2 DEF Refused, ConnectorConnected, ConnectorDisconnected, ConnectorBreaks,
     ConnectorStreamEnds, C!Next, C!Phases
<1>3. CASE \/ ConnectorReaps \/ ConnectorTimeout \/ ConnectorRetries \/ ConnectorStop
           \/ ConnectorFails \/ ConnectorDestroy
  BY <1>3 DEF ConnectorReaps, ConnectorTimeout, ConnectorRetries, ConnectorStop,
     ConnectorFails, ConnectorDestroy, C!Next
<1>4. ASSUME NEW s \in Sofis,
             \/ ListenerConnected(s) \/ ListenerDisconnected(s) \/ ListenerBreaks(s)
             \/ ListenerStreamEnds(s) \/ Accept(s) \/ ListenerReaps(s)
      PROVE  UNCHANGED cVars
  BY <1>4 DEF ListenerConnected, ListenerDisconnected, ListenerBreaks, ListenerStreamEnds,
     Accept, ListenerReaps, ListenerAlone
<1>5. CASE \/ Bind \/ BindFails \/ ConnectFails \/ RequestArrives \/ RequestOfAnother
           \/ RequestRead \/ RequestLost \/ Reject \/ ListenerStop \/ ListenerFails
           \/ ListenerDestroy \/ TermListener \/ TermConnector \/ UNCHANGED vars
  BY <1>5 DEF Bind, BindFails, ConnectFails, RequestArrives, RequestOfAnother, RequestRead,
     RequestLost, Reject, ListenerStop, ListenerFails, ListenerDestroy, TermListener,
     TermConnector, ListenerAlone, vars
<1> QED BY <1>1, <1>2, <1>3, <1>4, <1>5 DEF Next

(* The listener of the composition is a Bofi.                               *)
THEOREM ListenerIsBofi == Spec => B!Spec
<1>1. Init => B!Init
  BY DEF Init
<1> QED BY <1>1, ListenerSteps, PTL DEF Spec, B!Spec

(* The connector of the composition is a Cofi.                              *)
THEOREM ConnectorIsCofi == Spec => C!Spec
<1>1. Init => C!Init
  BY DEF Init
<1> QED BY <1>1, ConnectorSteps, PTL DEF Spec, C!Spec

-----------------------------------------------------------------------------
(* The connector alone: Cofi is always in the state its next event expects, *)
(* whichever of its calls may fail.                                         *)

(* An endpoint that has not started has no stream and no timer.             *)
ConnectorFresh == c_fsm = "IDLE" => c_state = "IDLE" /\ sofi = "idle" /\ retry = "IDLE"

ConnectorFaults == Faults \cap {"INIT", "CONNECT", "LATE", "DEADLOCK"}

ConnectorInv == C!TypeOK /\ ConnectorFresh /\ C!ConnectorInStep

LEMMA FollowsPhases ==
    ASSUME NEW p \in C!Phases
    PROVE  C!Follows(p) \subseteq C!Phases /\ C!AfterStop(p) \subseteq C!Phases
  BY DEF C!Follows, C!AfterStop, C!Phases

(* The STOP action leaves a stream that stops, and no timer but one that is *)
(* being stopped; without a stream it ends the process.                     *)
LEMMA ConnectorStopAction ==
    ASSUME NEW s \in C!Phases \cup {"idle"}, NEW timer \in {"IDLE", "ACTIVE", "STOPPING"},
           C!StopAction(s, timer)
    PROVE  /\ c_state' = "STOPPING" /\ retry' \in {"IDLE", "STOPPING"}
           /\ timer = "IDLE" => retry' = "IDLE"
           /\ \/ s = "idle" /\ sofi' = "idle" /\ c_fsm' = "BAD_SOURCE"
              \/ s # "idle" /\ sofi' \in C!Phases /\ c_fsm' = "STOPPING"
<1>1. CASE s = "idle"
  BY <1>1 DEF C!StopAction
<1>2. CASE s # "idle"
  <2>1. C!AfterStop(s) \subseteq C!Phases
    BY <1>2, FollowsPhases
  <2> QED BY <1>2, <2>1 DEF C!StopAction
<1> QED BY <1>1, <1>2

LEMMA ConnectorInitInv == C!Init => ConnectorInv
  BY DEF C!Init, ConnectorInv, C!TypeOK, ConnectorFresh, C!ConnectorInStep, C!Phases

LEMMA ConnectorStepInv ==
    ASSUME ConnectorInv, [C!Next]_(C!vars)
    PROVE  ConnectorInv'
<1> USE DEF ConnectorFaults, ConnectorInv, C!TypeOK, ConnectorFresh, C!ConnectorInStep
<1> "idle" \notin C!Phases /\ "connecting" \in C!Phases /\ "stopped" \in C!Phases
  BY DEF C!Phases
<1> C!ConnectFaults \subseteq ConnectorFaults
  BY DEF C!ConnectFaults
<1>1. CASE C!Start
  BY <1>1 DEF C!Start, C!StartConnecting
<1>2. ASSUME NEW call \in C!ConnectFaults, C!StartFails(call) PROVE ConnectorInv'
  <2>1. C!StopAction("idle", "IDLE") /\ c_failed' = c_failed \cup {call}
    BY <1>2 DEF C!StartFails, C!StartConnectingFails
  <2>2. c_state' = "STOPPING" /\ retry' = "IDLE" /\ sofi' = "idle" /\ c_fsm' = "BAD_SOURCE"
    BY <2>1 DEF C!StopAction
  <2> QED BY <2>1, <2>2
<1>3. ASSUME NEW call \in C!ConnectFaults, C!StartIgnored(call) PROVE ConnectorInv'
  BY <1>3 DEF C!StartIgnored, C!StartConnectingFails
<1>4. CASE C!Disconnected
  BY <1>4 DEF C!Disconnected
<1>5. CASE C!BackoffTimeout
  BY <1>5 DEF C!BackoffTimeout
<1>6. CASE C!BackoffStopped
  <2>1. CASE C!StartConnecting /\ retry' = "IDLE"
    BY <1>6, <2>1 DEF C!BackoffStopped, C!StartConnecting
  <2>2. CASE \E call \in C!ConnectFaults : C!StartConnectingFails(call) /\ C!StopAction(sofi, "IDLE")
    <3>1. C!StopAction("idle", "IDLE") /\ c_failed' \subseteq ConnectorFaults
      BY <1>6, <2>2 DEF C!BackoffStopped, C!StartConnectingFails
    <3>2. c_state' = "STOPPING" /\ retry' = "IDLE" /\ sofi' = "idle" /\ c_fsm' = "BAD_SOURCE"
      BY <3>1 DEF C!StopAction
    <3> QED BY <3>1, <3>2
  <2> QED BY <1>6, <2>1, <2>2 DEF C!BackoffStopped
<1>7. CASE C!SofiStopped
  BY <1>7 DEF C!SofiStopped
<1>8. ASSUME NEW p \in C!Phases, C!SofiAdvances(p) PROVE ConnectorInv'
  BY <1>8 DEF C!SofiAdvances
<1>9. CASE C!Stop
  <2>1. /\ c_fsm = "ACTIVE" /\ C!StopAction(sofi, retry) /\ UNCHANGED c_failed
    BY <1>9 DEF C!Stop
  <2>2. CASE sofi = "idle"
    <3>1. /\ c_state' = "STOPPING" /\ retry' \in {"IDLE", "STOPPING"}
          /\ sofi' = "idle" /\ c_fsm' = "BAD_SOURCE"
      BY <2>1, <2>2, ConnectorStopAction
    <3> QED BY <2>1, <3>1
  <2>3. CASE sofi # "idle"
    <3>1. retry = "IDLE"
      BY <2>1, <2>3
    <3>2. c_state' = "STOPPING" /\ retry' = "IDLE" /\ sofi' \in C!Phases /\ c_fsm' = "STOPPING"
      BY <2>1, <2>3, <3>1, ConnectorStopAction
    <3> QED BY <2>1, <3>2
  <2> QED BY <2>2, <2>3
<1>10. CASE C!Destroy
  BY <1>10 DEF C!Destroy
<1>11. CASE UNCHANGED C!vars
  BY <1>11 DEF C!vars
<1>12. CASE C!LateEvent
  BY <1>12 DEF C!LateEvent
<1>13. CASE C!Deadlock
  BY <1>13 DEF C!Deadlock
<1> QED BY <1>1, <1>2, <1>3, <1>4, <1>5, <1>6, <1>7, <1>8, <1>9, <1>10, <1>11, <1>12, <1>13 DEF C!Next

LEMMA ConnectorInvBoth == ConnectorInv => C!TypeOK /\ C!ConnectorInStep
  BY DEF ConnectorInv

(* The connecting endpoint keeps its types.                                 *)
THEOREM CofiTypeCorrect == C!Spec => []C!TypeOK
  BY ConnectorInvBoth, ConnectorInitInv, ConnectorStepInv, PTL DEF C!Spec

(* Every event of the stream or of the timer finds the state that expects   *)
(* it, and an endpoint that has stopped has neither (cofi.c:250-469).       *)
THEOREM CofiInStep == C!Spec => []C!ConnectorInStep
  BY ConnectorInvBoth, ConnectorInitInv, ConnectorStepInv, PTL DEF C!Spec

-----------------------------------------------------------------------------
(* The invariants proved of Bofi and Cofi hold of the composition.          *)

LEMMA SameListener ==
    (B!Init => PB!Init) /\ ([B!Next]_(B!vars) => [PB!Next]_(PB!vars))
<1>1. B!Init => PB!Init
  BY DEF B!Init, PB!Init
<1>2. [B!Next]_(B!vars) => [PB!Next]_(PB!vars)
  BY DEF B!Next, PB!Next, B!vars, PB!vars, B!pepVars, PB!pepVars, B!tableVars, PB!tableVars,
     B!Start, PB!Start, B!StartIgnored, PB!StartIgnored, B!Accept, PB!Accept,
     B!Reject, PB!Reject, B!RejectFreed, PB!RejectFreed, B!InitFails, PB!InitFails,
     B!RequestArrives, PB!RequestArrives, B!RequestRead, PB!RequestRead,
     B!SofiStopped, PB!SofiStopped, B!SofiAdvances, PB!SofiAdvances, B!Stop, PB!Stop,
     B!LateRequest, PB!LateRequest, B!PassiveError, PB!PassiveError,
     B!LateEvent, PB!LateEvent, B!Deadlock, PB!Deadlock, B!Destroy, PB!Destroy, B!Offsets, PB!Offsets,
     B!Outcome, PB!Outcome, B!OpenFaults, PB!OpenFaults, B!MayFail, PB!MayFail,
     B!StartAccepting, PB!StartAccepting, B!StopAction, PB!StopAction,
     B!PepAfter, PB!PepAfter, B!OpenAfter, PB!OpenAfter, B!StopAll, PB!StopAll,
     B!NobodyLeft, PB!NobodyLeft, B!AfterStop, PB!AfterStop, B!Follows, PB!Follows,
     B!Phases, PB!Phases, B!ReapSofi, PB!ReapSofi, B!NewSofiOffset, PB!NewSofiOffset,
     B!FreeOffsets, PB!FreeOffsets, B!sofis, PB!sofis
<1> QED BY <1>1, <1>2

(* What BofiProofs proves, with its assumptions on the constants discharged.*)
LEMMA ListenerInit == PB!Init => PB!Inv
  BY PB!InitInv, SlotsPositive, QueuesFitPage
  DEF NN_SOFI_MRM_SEND_KEY, PB!NN_SOFI_MRM_SEND_KEY, NN_SOFI_MRM_RECV_KEY,
      PB!NN_SOFI_MRM_RECV_KEY, NN_SOFI_MRM_KEY_PAGE_SIZE, PB!NN_SOFI_MRM_KEY_PAGE_SIZE

LEMMA ListenerStep ==
    ASSUME PB!Inv, [PB!Next]_(PB!vars)
    PROVE  PB!Inv'
  BY PB!StepInv, SlotsPositive, QueuesFitPage
  DEF NN_SOFI_MRM_SEND_KEY, PB!NN_SOFI_MRM_SEND_KEY, NN_SOFI_MRM_RECV_KEY,
      PB!NN_SOFI_MRM_RECV_KEY, NN_SOFI_MRM_KEY_PAGE_SIZE, PB!NN_SOFI_MRM_KEY_PAGE_SIZE

LEMMA ListenerKeys == PB!Inv => PB!KeysExclusive
  BY PB!InvKeys, SlotsPositive, QueuesFitPage
  DEF NN_SOFI_MRM_SEND_KEY, PB!NN_SOFI_MRM_SEND_KEY, NN_SOFI_MRM_RECV_KEY,
      PB!NN_SOFI_MRM_RECV_KEY, NN_SOFI_MRM_KEY_PAGE_SIZE, PB!NN_SOFI_MRM_KEY_PAGE_SIZE

LEMMA ListenerOthers == PB!Inv => PB!ListensWhileActive /\ PB!FailsAsKnown
  BY PB!InvOthers, SlotsPositive, QueuesFitPage
  DEF NN_SOFI_MRM_SEND_KEY, PB!NN_SOFI_MRM_SEND_KEY, NN_SOFI_MRM_RECV_KEY,
      PB!NN_SOFI_MRM_RECV_KEY, NN_SOFI_MRM_KEY_PAGE_SIZE, PB!NN_SOFI_MRM_KEY_PAGE_SIZE

Inv == PB!Inv /\ ConnectorInv

LEMMA InitInv == Init => Inv
  BY SameListener, ListenerInit, ConnectorInitInv DEF Init, Inv

LEMMA StepInv ==
    ASSUME Inv, [Next]_vars
    PROVE  Inv'
<1>1. PB!Inv'
  BY ListenerSteps, SameListener, ListenerStep DEF Inv
<1>2. ConnectorInv'
  BY ConnectorSteps, ConnectorStepInv DEF Inv
<1> QED BY <1>1, <1>2 DEF Inv

LEMMA InvListener == Inv => KeysExclusive /\ ListensWhileActive /\ FailsAsKnown
<1> SUFFICES ASSUME Inv PROVE KeysExclusive /\ ListensWhileActive /\ FailsAsKnown
  OBVIOUS
<1>1. PB!KeysExclusive
  BY ListenerKeys DEF Inv
<1>2. PB!ListensWhileActive /\ PB!FailsAsKnown
  BY ListenerOthers DEF Inv
<1>3. KeysExclusive
  BY <1>1 DEF KeysExclusive, B!KeysExclusive, PB!KeysExclusive, B!sofis, PB!sofis,
     B!Keys, PB!Keys, B!AuxKeys, PB!AuxKeys, B!SendKeys, PB!SendKeys, B!RecvKeys, PB!RecvKeys,
     B!Page, PB!Page, B!NN_SOFI_MRM_AUX_KEY, PB!NN_SOFI_MRM_AUX_KEY,
     B!NN_SOFI_MRM_SEND_KEY, PB!NN_SOFI_MRM_SEND_KEY, B!NN_SOFI_MRM_RECV_KEY,
     PB!NN_SOFI_MRM_RECV_KEY, B!NN_SOFI_MRM_KEY_PAGE_SIZE, PB!NN_SOFI_MRM_KEY_PAGE_SIZE
<1>4. ListensWhileActive /\ FailsAsKnown
  BY <1>2 DEF ListensWhileActive, B!ListensWhileActive, PB!ListensWhileActive,
     FailsAsKnown, B!FailsAsKnown, PB!FailsAsKnown
<1> QED BY <1>3, <1>4

LEMMA InvConnector == Inv => ConnectorInStep
  BY ConnectorInvBoth DEF Inv, ConnectorInStep

(* No two streams of the listener share a memory key (bofi.c:109-144).      *)
THEOREM KeysAreExclusive == Spec => []KeysExclusive
  BY InitInv, StepInv, InvListener, PTL DEF Spec

(* The listener listens while it is active (bofi.c:150-182, 459-480).       *)
THEOREM ActiveListens == Spec => []ListensWhileActive
  BY InitInv, StepInv, InvListener, PTL DEF Spec

(* Three things bring the listener's process down and no others: one of     *)
(* five failed calls or an event on the passive endpoint that is no request *)
(* abort an active endpoint (bofi.c:150-182, 384-491), and an event fed too *)
(* late ends the process (bofi.c:339, ofiw.c:272-289).                      *)
THEOREM OnlyKnownFailures == Spec => []FailsAsKnown
  BY InitInv, StepInv, InvListener, PTL DEF Spec

(* The connector is in step with its stream and its timer (cofi.c:250-469). *)
THEOREM AlwaysInStep == Spec => []ConnectorInStep
  BY InitInv, StepInv, InvConnector, PTL DEF Spec

-----------------------------------------------------------------------------
(* The objects of libfabric: a process that has an endpoint between start   *)
(* and destruction has its domain and its fabric; an endpoint that is not   *)
(* there has no streams and no passive endpoints.                           *)

Running(fsm) == fsm \in {"ACTIVE", "STOPPING", "STOPPED"}

ListenerObjects ==
    /\ B!sofis # {} => b_domains = 1
    /\ peps > 0 \/ b_domains > 0 => b_fabrics > 0
    /\ b_domains \in {0, 1}
    /\ Running(b_fsm) => b_domains = 1
    /\ b_fsm \in {"IDLE", "DESTROYED"} => b_domains = 0

ConnectorObjects ==
    /\ sofi # "idle" => c_domains = 1
    /\ c_domains > 0 => c_fabrics > 0
    /\ c_domains \in {0, 1}
    /\ Running(c_fsm) => c_domains = 1
    /\ c_fsm \in {"IDLE", "DESTROYED"} => c_domains = 0

ObjectInv == Inv /\ ListenerObjects /\ ConnectorObjects

(* What the invariants of Bofi and Cofi say of an endpoint that is not      *)
(* there.                                                                   *)
LEMMA ListenerGone ==
    ASSUME Inv
    PROVE  /\ b_fsm \in {"IDLE", "STOPPED", "DESTROYED"} => B!sofis = {}
           /\ b_fsm \in {"IDLE", "DESTROYED"} => peps = 0
<1>1. b_fsm \in {"IDLE", "STOPPED", "DESTROYED"} => \A s \in Sofis : phase[s] = "none"
  BY DEF Inv, PB!Inv, PB!Known, PB!NobodyLeft
<1>2. b_fsm \in {"IDLE", "DESTROYED"} => peps = 0
  BY DEF Inv, PB!Inv, PB!Passive, PB!ListensWhileActive
<1> QED BY <1>1, <1>2 DEF B!sofis

LEMMA ConnectorGone ==
    ASSUME Inv
    PROVE  c_fsm \in {"IDLE", "STOPPED", "DESTROYED"} => sofi = "idle"
  BY DEF Inv, ConnectorInv, ConnectorFresh, C!ConnectorInStep

LEMMA Fsms ==
    ASSUME Inv
    PROVE  /\ b_fsm \in {"IDLE", "ACTIVE", "STOPPING", "STOPPED", "DESTROYED", "ABORTED",
                        "BAD_STATE", "DEADLOCKED"}
           /\ c_fsm \in {"IDLE", "ACTIVE", "STOPPING", "STOPPED", "DESTROYED", "BAD_SOURCE",
                        "BAD_STATE", "DEADLOCKED"}
  BY DEF Inv, PB!Inv, PB!TypeOK, ConnectorInv, C!TypeOK

(* A step of an endpoint that is neither created nor destroyed in it leaves *)
(* its objects alone: such an endpoint was running, or its process is gone. *)
LEMMA ListenerKeepsObjects ==
    ASSUME ListenerObjects, UNCHANGED bObjects, Running(b_fsm),
           b_fsm' \notin {"IDLE", "DESTROYED"}
    PROVE  ListenerObjects'
  BY DEF ListenerObjects, bObjects

LEMMA ConnectorKeepsObjects ==
    ASSUME ConnectorObjects, UNCHANGED cObjects, Running(c_fsm),
           c_fsm' \notin {"IDLE", "DESTROYED"}
    PROVE  ConnectorObjects'
  BY DEF ConnectorObjects, cObjects

LEMMA ListenerUntouched ==
    ASSUME ListenerObjects, UNCHANGED <<bVars, bObjects>>
    PROVE  ListenerObjects'
  BY DEF ListenerObjects, bVars, bObjects, B!sofis, Running

LEMMA ConnectorUntouched ==
    ASSUME ConnectorObjects, UNCHANGED <<cVars, cObjects>>
    PROVE  ConnectorObjects'
  BY DEF ConnectorObjects, cVars, cObjects, Running

LEMMA AcceptingRuns ==
    ASSUME NEW rc, NEW old, NEW open, NEW streams, B!StartAccepting(rc, old, open, streams)
    PROVE  b_fsm' \notin {"IDLE", "DESTROYED"}
  BY DEF B!StartAccepting, B!StopAction

LEMMA ListenerRuns ==
    ASSUME \/ B!RequestArrives \/ B!Stop
           \/ \E s \in Sofis, o \in B!Offsets, rc \in Rc : B!Accept(s, o, rc)
           \/ \E o \in B!Offsets, rc \in Rc : B!Reject(o, rc)
           \/ \E o \in B!Offsets : B!RejectFreed(o) \/ B!InitFails(o)
           \/ \E s \in Sofis : B!SofiStopped(s)
           \/ \E s \in Sofis, p \in B!Phases : B!SofiAdvances(s, p)
    PROVE  Running(b_fsm) /\ b_fsm' \notin {"IDLE", "DESTROYED"}
<1> USE DEF Running
<1>1. CASE B!RequestArrives \/ \E s \in Sofis, p \in B!Phases : B!SofiAdvances(s, p)
  BY <1>1 DEF B!RequestArrives, B!SofiAdvances
<1>2. CASE B!Stop
  BY <1>2 DEF B!Stop, B!StopAction
<1>3. CASE \E s \in Sofis, o \in B!Offsets, rc \in Rc : B!Accept(s, o, rc)
  BY <1>3, AcceptingRuns DEF B!Accept
<1>4. CASE \E o \in B!Offsets, rc \in Rc : B!Reject(o, rc)
  BY <1>4, AcceptingRuns DEF B!Reject
<1>5. CASE \E o \in B!Offsets : B!RejectFreed(o) \/ B!InitFails(o)
  BY <1>5 DEF B!RejectFreed, B!InitFails
<1>6. CASE \E s \in Sofis : B!SofiStopped(s)
  BY <1>6 DEF B!SofiStopped
<1> QED BY <1>1, <1>2, <1>3, <1>4, <1>5, <1>6

(* The steps that are not the listener's own, and those of the listener.    *)
LEMMA ListenerObjectsStep ==
    ASSUME Inv, Inv', ListenerObjects, [Next]_vars
    PROVE  ListenerObjects'
<1>1. CASE Bind
  <2>1. b_fsm = "IDLE" /\ b_fsm' \notin {"IDLE", "DESTROYED"}
    BY <1>1, AcceptingRuns DEF Bind, B!Start, B!StartIgnored
  <2>2. b_fabrics' = 1 /\ b_domains' = 1
    BY <1>1, <2>1 DEF Bind, BR!OpenBoth, ListenerObjects
  <2> QED BY <2>1, <2>2 DEF ListenerObjects
<1>2. CASE BindFails
  <2>1. b_fsm = "IDLE" /\ b_fabrics' = 1 /\ b_domains' = b_domains /\ UNCHANGED bVars
    BY <1>2 DEF BindFails, BR!OpenFabricOnly
  <2> QED BY <2>1 DEF ListenerObjects, bVars, B!sofis, Running
<1>3. CASE TermListener
  <2>1. /\ b_fsm \in {"IDLE", "DESTROYED"} /\ UNCHANGED bVars
        /\ b_fabrics' = 0 /\ b_domains' = 0
    BY <1>3 DEF TermListener, BR!Term
  <2> QED BY <2>1, ListenerGone DEF ListenerObjects, bVars, B!sofis, Running
<1>4. CASE RequestArrives \/ RequestOfAnother
  BY <1>4, ListenerRuns, ListenerKeepsObjects DEF RequestArrives, RequestOfAnother
<1>5. CASE RequestRead
  BY <1>5 DEF RequestRead, B!RequestRead, B!pepVars, bObjects, ListenerObjects, B!sofis, Running
<1>6. ASSUME NEW s \in Sofis,
             ListenerConnected(s) \/ ListenerDisconnected(s) \/ ListenerBreaks(s) \/ ListenerStreamEnds(s)
      PROVE  ListenerObjects'
  <2>1. UNCHANGED bObjects /\ \E p \in B!Phases : B!SofiAdvances(s, p)
    BY <1>6 DEF ListenerConnected, ListenerDisconnected, ListenerBreaks, ListenerStreamEnds, B!Phases
  <2> QED BY <2>1, ListenerRuns, ListenerKeepsObjects
<1>7. ASSUME NEW s \in Sofis, Accept(s) \/ ListenerReaps(s)
      PROVE  ListenerObjects'
  BY <1>7, ListenerRuns, ListenerKeepsObjects DEF Accept, ListenerReaps
<1>8. CASE Reject
  <2>1. UNCHANGED bObjects
    BY <1>8 DEF Reject
  <2>2. \/ \E o \in B!Offsets, rc \in Rc : B!Reject(o, rc)
        \/ \E o \in B!Offsets : B!RejectFreed(o) \/ B!InitFails(o)
    BY <1>8 DEF Reject
  <2> QED BY <2>1, <2>2, ListenerRuns, ListenerKeepsObjects
<1>9. CASE ListenerStop
  BY <1>9, ListenerRuns, ListenerKeepsObjects DEF ListenerStop
<1>10. CASE ListenerFails
  <2>1. UNCHANGED <<peps, phase, bObjects>> /\ b_fsm' \in {"ABORTED", "BAD_STATE", "DEADLOCKED"}
    BY <1>10 DEF ListenerFails, B!PassiveError, B!LateRequest, B!LateEvent, B!Deadlock, B!pepVars
  <2> QED BY <2>1 DEF ListenerObjects, bObjects, B!sofis, Running
<1>11. CASE ListenerDestroy
  <2>1. /\ b_fsm = "STOPPED" /\ b_domains' = b_domains - 1 /\ UNCHANGED <<b_fabrics, peps, phase>>
        /\ b_fsm' \in {"DESTROYED", "ABORTED"}
    BY <1>11 DEF ListenerDestroy, B!Destroy, BR!DomainClose
  <2>2. B!sofis' = {}
    BY <2>1, ListenerGone DEF B!sofis
  <2>3. b_domains = 1 /\ b_fabrics > 0
    BY <2>1 DEF ListenerObjects, Running
  <2> QED BY <2>1, <2>2, <2>3 DEF ListenerObjects, Running
<1>12. CASE \/ RequestLost \/ Connect \/ ConnectFails \/ Refused \/ ConnectorConnected
            \/ ConnectorDisconnected \/ ConnectorBreaks \/ ConnectorReaps \/ ConnectorStreamEnds
            \/ ConnectorTimeout \/ ConnectorRetries \/ ConnectorStop \/ ConnectorFails
            \/ ConnectorDestroy \/ TermConnector \/ UNCHANGED vars
  BY <1>12, ListenerUntouched
  DEF RequestLost, Connect, ConnectFails, Refused, ConnectorConnected, ConnectorDisconnected,
      ConnectorBreaks, ConnectorReaps, ConnectorStreamEnds, ConnectorTimeout, ConnectorRetries,
      ConnectorStop, ConnectorFails, ConnectorDestroy, TermConnector, ConnectorAlone, vars
<1> QED BY <1>1, <1>2, <1>3, <1>4, <1>5, <1>6, <1>7, <1>8, <1>9, <1>10, <1>11, <1>12 DEF Next

LEMMA ConnectorRuns ==
    ASSUME \/ C!Disconnected \/ C!BackoffTimeout \/ C!BackoffStopped \/ C!SofiStopped \/ C!Stop
           \/ C!LateEvent \/ C!Deadlock
           \/ \E p \in C!Phases : C!SofiAdvances(p)
    PROVE  Running(c_fsm) /\ c_fsm' \notin {"IDLE", "DESTROYED"}
<1> USE DEF Running
<1>1. CASE \/ C!Disconnected \/ C!BackoffTimeout \/ C!SofiStopped \/ C!LateEvent \/ C!Deadlock
           \/ \E p \in C!Phases : C!SofiAdvances(p)
  BY <1>1 DEF C!Disconnected, C!BackoffTimeout, C!SofiStopped, C!LateEvent, C!Deadlock, C!SofiAdvances
<1>2. CASE C!BackoffStopped \/ C!Stop
  BY <1>2 DEF C!BackoffStopped, C!Stop, C!StartConnecting, C!StopAction
<1> QED BY <1>1, <1>2

LEMMA ConnectorObjectsStep ==
    ASSUME Inv, Inv', ConnectorObjects, [Next]_vars
    PROVE  ConnectorObjects'
<1>1. CASE Connect
  <2>1. c_fsm = "IDLE" /\ c_fsm' \notin {"IDLE", "DESTROYED"}
    BY <1>1 DEF Connect, C!Start, C!StartConnecting, C!StartFails, C!StartIgnored, C!StopAction
  <2>2. c_fabrics' = 1 /\ c_domains' = 1
    BY <1>1, <2>1 DEF Connect, CR!OpenBoth, ConnectorObjects
  <2> QED BY <2>1, <2>2 DEF ConnectorObjects
<1>2. CASE ConnectFails
  <2>1. c_fabrics' = 1 /\ c_domains' = c_domains /\ UNCHANGED cVars
    BY <1>2 DEF ConnectFails, CR!OpenFabricOnly
  <2> QED BY <2>1 DEF ConnectorObjects, cVars, Running
<1>3. CASE TermConnector
  <2>1. /\ c_fsm \in {"IDLE", "DESTROYED"} /\ UNCHANGED cVars
        /\ c_fabrics' = 0 /\ c_domains' = 0
    BY <1>3 DEF TermConnector, CR!Term
  <2> QED BY <2>1, ConnectorGone DEF ConnectorObjects, cVars, Running
<1>4. CASE Refused \/ ConnectorConnected \/ ConnectorDisconnected \/ ConnectorBreaks \/ ConnectorStreamEnds
  <2>1. UNCHANGED cObjects /\ \E p \in C!Phases : C!SofiAdvances(p)
    BY <1>4 DEF Refused, ConnectorConnected, ConnectorDisconnected, ConnectorBreaks,
       ConnectorStreamEnds, C!Phases
  <2> QED BY <2>1, ConnectorRuns, ConnectorKeepsObjects
<1>5. CASE ConnectorReaps \/ ConnectorTimeout \/ ConnectorRetries \/ ConnectorStop \/ ConnectorFails
  BY <1>5, ConnectorRuns, ConnectorKeepsObjects
  DEF ConnectorReaps, ConnectorTimeout, ConnectorRetries, ConnectorStop, ConnectorFails
<1>6. CASE ConnectorDestroy
  <2>1. /\ c_fsm = "STOPPED" /\ c_fsm' = "DESTROYED" /\ c_domains' = c_domains - 1
        /\ UNCHANGED <<c_fabrics, sofi>>
    BY <1>6 DEF ConnectorDestroy, C!Destroy, CR!DomainClose
  <2> QED BY <2>1, ConnectorGone DEF ConnectorObjects, Running
<1>7. ASSUME NEW s \in Sofis,
             \/ ListenerConnected(s) \/ ListenerDisconnected(s) \/ ListenerBreaks(s)
             \/ ListenerStreamEnds(s) \/ Accept(s) \/ ListenerReaps(s)
      PROVE  ConnectorObjects'
  BY <1>7, ConnectorUntouched
  DEF ListenerConnected, ListenerDisconnected, ListenerBreaks, ListenerStreamEnds,
      Accept, ListenerReaps, ListenerAlone
<1>8. CASE \/ Bind \/ BindFails \/ RequestArrives \/ RequestOfAnother \/ RequestRead
           \/ RequestLost \/ Reject \/ ListenerStop \/ ListenerFails \/ ListenerDestroy
           \/ TermListener \/ UNCHANGED vars
  BY <1>8, ConnectorUntouched
  DEF Bind, BindFails, RequestArrives, RequestOfAnother, RequestRead, RequestLost, Reject,
      ListenerStop, ListenerFails, ListenerDestroy, TermListener, ListenerAlone, vars
<1> QED BY <1>1, <1>2, <1>3, <1>4, <1>5, <1>6, <1>7, <1>8 DEF Next

(* A domain is never closed under a streaming endpoint, nor a fabric under  *)
(* a passive endpoint or a domain (ofi.c:90-141, ofiapi.c:197-345).         *)
THEOREM ObjectsAreSafe == Spec => []ObjectsOutliveUsers
<1>1. Init => ObjectInv
  <2> SUFFICES ASSUME Init PROVE ListenerObjects /\ ConnectorObjects
    BY InitInv DEF ObjectInv
  <2> QED
    BY DEF Init, B!Init, C!Init, BR!Init, CR!Init, ListenerObjects, ConnectorObjects,
       B!sofis, Running
<1>2. ObjectInv /\ [Next]_vars => ObjectInv'
  BY StepInv, ListenerObjectsStep, ConnectorObjectsStep DEF ObjectInv
<1>3. ObjectInv => ObjectsOutliveUsers
  BY DEF ObjectInv, ListenerObjects, ConnectorObjects, ObjectsOutliveUsers
<1> QED BY <1>1, <1>2, <1>3, PTL DEF Spec
=============================================================================
