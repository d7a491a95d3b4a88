----------------------------- MODULE SofiProofs ------------------------------
(***************************************************************************)
(* The streaming endpoint, for queues and timeouts of every size and       *)
(* whatever goes wrong.                                                    *)
(*                                                                         *)
(* First, each event of the endpoint is an event of a half or leaves the   *)
(* half alone, so the halves behave as their own modules say and the       *)
(* invariants of EgressProofs and IngressProofs hold inside the endpoint.  *)
(* With them the invariant of the FSM and its timers is inductive: what    *)
(* the FSM decides by (is a half empty, does a message wait) is a fact of  *)
(* a half.  Last, the FSM only goes forward, one phase at a time, which is *)
(* the refinement of StreamLife that Bofi and Cofi are built on.           *)
(***************************************************************************)
EXTENDS Sofi, TLAPS

EP == INSTANCE EgressProofs
IP == INSTANCE IngressProofs

LEMMA EgressStep == [Next]_vars => [E!Next]_(E!vars)
<1> SUFFICES ASSUME [Next]_vars PROVE [E!Next]_(E!vars)
  OBVIOUS
<1> USE DEF E!vars, E!egressVars, E!sharedVars, egressVars
(* Events of the sending half.                                              *)
<1>1. CASE \E rc \in PostResults : Connected(rc)
  BY <1>1 DEF Connected, E!Next
<1>2. CASE Send
  BY <1>2 DEF Send, E!Next
<1>3. CASE SendFails
  BY <1>3 DEF SendFails, E!Next
<1>4. ASSUME NEW c \in E!Ctx, TxCompleted(c) \/ TxDiscarded(c) \/ TxError(c)
                              \/ TxErrorWhileClosing(c)
      PROVE  E!Next
  <2>1. E!TxDone(c)
    BY <1>4 DEF TxCompleted, TxDiscarded, TxError, TxErrorWhileClosing, E!TxDone
  <2> QED BY <2>1 DEF E!Next
(* Events that stop both halves.                                            *)
<1>5. ASSUME NEW failed \in BOOLEAN, E!Stop(failed) PROVE E!Next
  BY <1>5 DEF E!Next
<1>6. CASE \/ \E b \in I!Buf : RxError(b)
           \/ Disconnected \/ KeepaliveExpired \/ Stop
  BY <1>5, <1>6 DEF RxError, Disconnected, KeepaliveExpired, Stop, StopBoth
<1>7. CASE KeepaliveTick
  BY <1>5, <1>7 DEF KeepaliveTick, StopBoth, BothSides
<1>8. CASE EqError
  BY <1>5, <1>8 DEF EqError, StopBoth, BothSides
(* Events the sending half does not see.                                    *)
<1>9. CASE \/ \E b \in I!Buf, rc \in PostResults : RxArrived(b, rc)
           \/ \E b \in I!Buf : RxDiscarded(b)
           \/ \E b \in I!Buf : AppFree(b)
           \/ \E rc \in PostResults : Fetch(rc)
  BY <1>9 DEF RxArrived, RxDiscarded, AppFree, Fetch, ReceiveSide, I!RxMessage,
       I!RxKeepalive, I!RxDiscarded, I!AppFree, I!Fetch, I!sharedVars
<1>10. CASE \/ ClosedByPeer \/ KeepaliveStopped \/ ShutdownTimeout \/ ShutdownStopped
           \/ LateEvent
  BY <1>10 DEF ClosedByPeer, KeepaliveStopped, ShutdownTimeout, ShutdownStopped,
       LateEvent, BothSides
<1>11. CASE UNCHANGED vars
  BY <1>11 DEF vars
<1> QED BY <1>1, <1>2, <1>3, <1>4, <1>6, <1>7, <1>8, <1>9, <1>10, <1>11 DEF Next

LEMMA IngressStep == [Next]_vars => [I!Next]_(I!vars)
<1> SUFFICES ASSUME [Next]_vars PROVE [I!Next]_(I!vars)
  OBVIOUS
<1> USE DEF I!vars, I!ingressVars, I!listVars, I!sharedVars, ingressVars
(* Events of the receiving half.                                            *)
<1>1. CASE \E rc \in PostResults : Connected(rc)
  BY <1>1 DEF Connected, I!Next
<1>2. CASE \E b \in I!Buf, rc \in PostResults : RxArrived(b, rc)
  BY <1>2 DEF RxArrived, I!Next
<1>3. CASE \/ \E b \in I!Buf : RxError(b)
           \/ \E b \in I!Buf : RxDiscarded(b)
           \/ \E b \in I!Buf : AppFree(b)
  BY <1>3 DEF RxError, RxDiscarded, AppFree, I!Next
<1>4. CASE \E rc \in PostResults : Fetch(rc)
  BY <1>4 DEF Fetch, I!Next
(* Events that stop both halves.                                            *)
<1>5. ASSUME NEW failed \in BOOLEAN, I!Stop(failed) PROVE I!Next
  BY <1>5 DEF I!Next
<1>6. CASE \/ SendFails \/ \E c \in E!Ctx : TxError(c)
           \/ Disconnected \/ KeepaliveExpired \/ Stop
  BY <1>5, <1>6 DEF SendFails, TxError, Disconnected, KeepaliveExpired, Stop, StopBoth
<1>7. CASE KeepaliveTick
  BY <1>5, <1>7 DEF KeepaliveTick, StopBoth, BothSides
<1>8. CASE EqError
  BY <1>5, <1>8 DEF EqError, StopBoth, BothSides
(* Events the receiving half does not see.                                  *)
<1>9. CASE Send \/ \E c \in E!Ctx : TxCompleted(c) \/ TxDiscarded(c)
                                     \/ TxErrorWhileClosing(c)
  BY <1>9 DEF Send, TxCompleted, TxDiscarded, TxErrorWhileClosing, SendSide, E!Send,
       E!SendWhileClosing, E!TxCompleted, E!TxDiscarded, E!TxErrorWhileClosing,
       E!sharedVars
<1>10. CASE \/ ClosedByPeer \/ KeepaliveStopped \/ ShutdownTimeout \/ ShutdownStopped
           \/ LateEvent
  BY <1>10 DEF ClosedByPeer, KeepaliveStopped, ShutdownTimeout, ShutdownStopped,
       LateEvent, BothSides
<1>11. CASE UNCHANGED vars
  BY <1>11 DEF vars
<1> QED BY <1>1, <1>2, <1>3, <1>4, <1>6, <1>7, <1>8, <1>9, <1>10, <1>11 DEF Next

(* The sending half inside the endpoint is the sending half of Egress.      *)
THEOREM EndpointContainsEgress == Spec => EgressHalf
<1>1. Init => E!Init
  BY DEF Init
<1> QED BY <1>1, EgressStep, PTL DEF Spec, EgressHalf, E!Spec

(* The receiving half inside the endpoint is the receiving half of Ingress. *)
THEOREM EndpointContainsIngress == Spec => IngressHalf
<1>1. Init => I!Init
  BY DEF Init
<1> QED BY <1>1, IngressStep, PTL DEF Spec, IngressHalf, I!Spec

(* No event of the endpoint, whatever fails in it, disturbs either half.    *)
THEOREM EndpointIsBothHalves == Spec => HalvesBehave
  BY EndpointContainsEgress, EndpointContainsIngress, PTL DEF HalvesBehave

-----------------------------------------------------------------------------
(* EgressProofs and IngressProofs speak of the halves the endpoint has.     *)
LEMMA SameEgress ==
    (E!Init => EP!Init) /\ ([E!Next]_(E!vars) => [EP!Next]_(EP!vars))
<1>1. E!Init => EP!Init
  BY DEF E!Init, EP!Init, E!EgressInit, EP!EgressInit, E!RingInit, EP!RingInit,
     E!Pos, EP!Pos
<1>2. [E!Next]_(E!vars) => [EP!Next]_(EP!vars)
  BY DEF E!Next, EP!Next, E!vars, EP!vars, E!egressVars, EP!egressVars,
     E!sharedVars, EP!sharedVars, E!Connected, EP!Connected,
     E!ConnectFails, EP!ConnectFails, E!Send, EP!Send, E!SendStaged, EP!SendStaged,
     E!SendFails, EP!SendFails, E!SendWhileClosing, EP!SendWhileClosing,
     E!TxDone, EP!TxDone, E!TxCompleted, EP!TxCompleted, E!Completed, EP!Completed,
     E!TxDiscarded, EP!TxDiscarded, E!TxError, EP!TxError,
     E!TxErrorWhileClosing, EP!TxErrorWhileClosing, E!Stop, EP!Stop,
     E!FlushEgress, EP!FlushEgress, E!FlushedBy, EP!FlushedBy,
     E!PostContext, EP!PostContext, E!ReleaseContext, EP!ReleaseContext,
     E!HasFreeContext, EP!HasFreeContext, E!egress_ctx_head, EP!egress_ctx_head,
     E!MarkBusy, EP!MarkBusy, E!MarkFree, EP!MarkFree, E!Ctx, EP!Ctx, E!Pos, EP!Pos,
     E!Cardinality, EP!Cardinality
<1> QED BY <1>1, <1>2

LEMMA SameIngress ==
    (I!Init => IP!Init) /\ ([I!Next]_(I!vars) => [IP!Next]_(IP!vars))
<1>1. I!Init => IP!Init
  BY DEF I!Init, IP!Init, I!IngressInit, IP!IngressInit, I!Buf, IP!Buf
<1>2. [I!Next]_(I!vars) => [IP!Next]_(IP!vars)
  BY DEF I!Next, IP!Next, I!vars, IP!vars, I!ingressVars, IP!ingressVars,
     I!listVars, IP!listVars, I!sharedVars, IP!sharedVars,
     I!Connected, IP!Connected, I!RxMessage, IP!RxMessage,
     I!RxKeepalive, IP!RxKeepalive, I!Fetch, IP!Fetch, I!AppFree, IP!AppFree,
     I!RxError, IP!RxError, I!RxDiscarded, IP!RxDiscarded, I!Stop, IP!Stop,
     I!StopFlush, IP!StopFlush, I!Flush, IP!Flush, I!SetLists, IP!SetLists,
     I!Lists, IP!Lists, I!Taken, IP!Taken, I!MarkFree, IP!MarkFree,
     I!MarkPopulated, IP!MarkPopulated, I!Posted, IP!Posted,
     I!PostReturn, IP!PostReturn, I!Notify, IP!Notify, I!PostLater, IP!PostLater,
     I!FetchFlags, IP!FetchFlags, I!Rest, IP!Rest, I!Buf, IP!Buf
<1> QED BY <1>1, <1>2

(* What the proofs of the halves establish of the endpoint's variables.     *)
HalvesInv == EP!EgressInv /\ IP!IngressInv

LEMMA HalvesInitially == Init => HalvesInv
<1>1. EP!Init => EP!EgressInv
  BY EP!InitInv, QueuesAssumption DEF QueuesAssumption
<1>2. IP!Init => IP!IngressInv
  BY IP!InitIngressInv, QueuesAssumption DEF QueuesAssumption
<1> QED BY <1>1, <1>2, SameEgress, SameIngress DEF Init, HalvesInv

LEMMA HalvesStep == HalvesInv /\ [Next]_vars => HalvesInv'
<1>1. EP!EgressInv /\ [EP!Next]_(EP!vars) => EP!EgressInv'
  BY EP!StepInv, QueuesAssumption DEF QueuesAssumption
<1>2. IP!IngressInv /\ [IP!Next]_(IP!vars) => IP!IngressInv'
  BY IP!NextIngressInv, QueuesAssumption DEF QueuesAssumption
<1> QED BY <1>1, <1>2, EgressStep, IngressStep, SameEgress, SameIngress DEF HalvesInv

(* The part of it the endpoint relies on.                                   *)
Halves ==
    /\ state \in {"CONNECTING", "ACTIVE", "CLOSING"}
    /\ E!egress_empty => mr_handle = {}
    /\ ~error => mr_handle = tx_posted
    /\ pipe_in = "IDLE" => ingress_buf_pop # <<>>
    /\ state = "CONNECTING" =>
          E!egress_empty /\ I!ingress_empty /\ ingress_flags = {}
    /\ state = "CLOSING" => ingress_buf_busy = {}

LEMMA HalvesInvImplies == HalvesInv => Halves
<1> SUFFICES ASSUME HalvesInv PROVE Halves
  OBVIOUS
<1>1. EP!egress_empty => mr_handle = {}
  BY EP!EmptyMeansFree, QueuesAssumption DEF QueuesAssumption, HalvesInv
<1>2. /\ state \in {"CONNECTING", "ACTIVE", "CLOSING"}
      /\ ~error => mr_handle = tx_posted
      /\ state = "CONNECTING" => stageout_counter = tx_queue
  BY DEF HalvesInv, EP!EgressInv, EP!TypeOK, EP!HeldWhileInTransit
<1>3. /\ pipe_in = "IDLE" => ingress_buf_pop # <<>>
      /\ state = "CONNECTING" => IP!ingress_empty /\ ingress_flags = {}
      /\ state = "CLOSING" => ingress_buf_busy = {}
  BY IP!IngressInvFacts, QueuesAssumption DEF QueuesAssumption, HalvesInv
<1> QED BY <1>1, <1>2, <1>3
        DEF Halves, E!egress_empty, EP!egress_empty, I!ingress_empty, IP!ingress_empty

-----------------------------------------------------------------------------
(* The inductive invariant.  In each state of the FSM the socket and the    *)
(* timers are where the next event expects them; in particular the shutdown *)
(* timer runs only while draining or closing, when all else is quiet, and   *)
(* is never found idle there, or the end of nn_sofi_shutdown would abort.   *)
(* What the poller still holds matters only once the FSM has stopped.       *)
Endpoint ==
    /\ fsm = "RUNNING" => read = FALSE
    /\ fsm = "ABORTED" => read = TRUE
    /\ state = "CONNECTING" =>
          /\ fsm = "RUNNING" /\ socket_state = "CONNECTING"
          /\ timer_keepalive = "IDLE" /\ timer_shutdown = "IDLE"
    /\ state = "ACTIVE" =>
          /\ fsm = "RUNNING" /\ socket_state = "CONNECTED"
          /\ timer_keepalive # "IDLE" /\ timer_shutdown = "IDLE"
    /\ state = "CLOSING" =>
          /\ timer_keepalive # "ACTIVE" /\ socket_state # "CONNECTING"
          /\ socket_state = "CONNECTED" => timer_shutdown = "IDLE"
          /\ socket_state = "CLOSED" => timer_shutdown # "ACTIVE"
          /\ socket_state \in {"DRAINING", "CLOSING"} => timer_shutdown # "IDLE"
          /\ socket_state \in {"DRAINING", "CLOSING"} \/ fsm # "RUNNING" =>
                E!egress_empty /\ I!ingress_empty /\ timer_keepalive = "IDLE"
          /\ fsm # "RUNNING" => socket_state = "CLOSED" /\ timer_shutdown = "IDLE"

SofiInv == TypeOK /\ Endpoint /\ Halves

(* What the end of nn_sofi_shutdown may be reached with.                    *)
Reached(sock, timer) ==
    /\ sock \in {"CONNECTING", "CONNECTED", "DRAINING", "CLOSING", "CLOSED"}
    /\ timer \in {"IDLE", "ACTIVE", "STOPPING"}
    /\ sock = "CONNECTING" => Quiet(timer)
    /\ sock = "CONNECTED" => timer = "IDLE"
    /\ sock = "CLOSED" => timer # "ACTIVE"
    /\ sock \in {"DRAINING", "CLOSING"} =>
          /\ timer # "IDLE"
          /\ E!egress_empty' /\ I!ingress_empty' /\ timer_keepalive' = "IDLE"

LEMMA ShutdownEnds ==
    ASSUME TypeOK, fsm = "RUNNING", state' = "CLOSING",
           timer_keepalive' \in {"IDLE", "STOPPING"},
           ticks_in' \in 0 .. KEEPALIVE_IN_TICKS,
           ticks_out' \in 0 .. KEEPALIVE_OUT_TICKS,
           NEW sock, NEW timer, Reached(sock, timer), CloseIfQuiet(sock, timer)
    PROVE  TypeOK' /\ Endpoint'
<1>1. CASE Quiet(timer)
  <2>1. sock \in {"CONNECTING", "CONNECTED", "CLOSED"}
    BY <1>1 DEF Reached, Quiet
  <2>2. E!egress_empty' /\ I!ingress_empty' /\ timer_keepalive' = "IDLE" /\ timer = "IDLE"
    BY <1>1 DEF Quiet
  <2>3. \/ /\ sock = "CONNECTED" /\ socket_state' = "DRAINING"
           /\ timer_shutdown' = "ACTIVE" /\ fsm' = "RUNNING" /\ read' = FALSE
        \/ /\ sock \in {"CONNECTING", "CLOSED"} /\ socket_state' = "CLOSED"
           /\ timer_shutdown' = "IDLE" /\ fsm' = "STOPPED" /\ read' \in BOOLEAN
    BY <1>1, <2>1, <2>2 DEF CloseIfQuiet
  <2> QED BY <2>2, <2>3 DEF TypeOK, Endpoint
<1>2. CASE ~Quiet(timer)
  <2>1. socket_state' = sock /\ timer_shutdown' = timer /\ fsm' = "RUNNING" /\ read' = FALSE
    BY <1>2 DEF CloseIfQuiet, Reached
  <2> QED BY <1>2, <2>1 DEF Reached, TypeOK, Endpoint
<1> QED BY <1>1, <1>2

(* The STOP action, in the two states it can be taken in.                   *)
LEMMA StopEnds ==
    ASSUME SofiInv, Halves', fsm = "RUNNING", state # "CLOSING", state' = "CLOSING",
           ticks_in' \in 0 .. KEEPALIVE_IN_TICKS,
           ticks_out' \in 0 .. KEEPALIVE_OUT_TICKS,
           NEW sock, NEW keepalive,
           \/ sock = "CONNECTING" /\ keepalive = "IDLE" /\ E!egress_empty' /\ I!ingress_empty'
           \/ sock \in {"CONNECTED", "CLOSED"} /\ keepalive \in {"ACTIVE", "STOPPING"},
           StopWith(sock, keepalive)
    PROVE  TypeOK' /\ Endpoint'
<1>1. timer_shutdown = "IDLE"
  BY DEF SofiInv, Endpoint, Halves
<1>2. timer_keepalive' = (IF keepalive = "IDLE" THEN "IDLE" ELSE "STOPPING")
  BY DEF StopWith, StopTimer
<1>3. Reached(sock, timer_shutdown)
  BY <1>1, <1>2 DEF Reached, Quiet
<1>4. CloseIfQuiet(sock, timer_shutdown)
  BY DEF StopWith
<1> QED BY <1>2, <1>3, <1>4, ShutdownEnds DEF SofiInv

(* An endpoint that closes before it has connected closes empty.            *)
LEMMA UnconnectedIsEmpty ==
    ASSUME HalvesInv, [Next]_vars, state = "CONNECTING", state' = "CLOSING"
    PROVE  E!egress_empty' /\ I!ingress_empty'
<1>1. [EP!Next]_(EP!vars) /\ [IP!Next]_(IP!vars)
  BY EgressStep, IngressStep, SameEgress, SameIngress
<1>2. stageout_counter' = tx_queue
  BY <1>1, EP!EmptyUntilConnected, QueuesAssumption DEF QueuesAssumption, HalvesInv
<1>3. IP!ingress_empty'
  BY <1>1, IP!EmptyWhenUnconnected, QueuesAssumption DEF QueuesAssumption, HalvesInv
<1> QED BY <1>2, <1>3 DEF E!egress_empty, I!ingress_empty, IP!ingress_empty

(* Every critical error, and nn_sofi_stop, find the endpoint as StopEnds    *)
(* asks for.                                                                *)
LEMMA Stopped ==
    ASSUME SofiInv, HalvesInv, Halves', [Next]_vars,
           fsm = "RUNNING", state \in {"CONNECTING", "ACTIVE"}, state' = "CLOSING",
           ticks_in' \in 0 .. KEEPALIVE_IN_TICKS,
           ticks_out' \in 0 .. KEEPALIVE_OUT_TICKS,
           StopWith(socket_state, timer_keepalive)
    PROVE  TypeOK' /\ Endpoint'
<1>1. CASE state = "CONNECTING"
  <2>1. socket_state = "CONNECTING" /\ timer_keepalive = "IDLE"
    BY <1>1 DEF SofiInv, Endpoint
  <2>2. E!egress_empty' /\ I!ingress_empty'
    BY <1>1, UnconnectedIsEmpty
  <2> QED BY <1>1, <2>1, <2>2, StopEnds
<1>2. CASE state = "ACTIVE"
  <2>1. socket_state = "CONNECTED" /\ timer_keepalive \in {"ACTIVE", "STOPPING"}
    BY <1>2 DEF SofiInv, Endpoint, TypeOK
  <2> QED BY <1>2, <2>1, StopEnds
<1> QED BY <1>1, <1>2

(* Ticks are compared before they are stored.                               *)
LEMMA TicksBounded ==
    ASSUME TypeOK, [Next]_vars
    PROVE  /\ ticks_in' \in 0 .. KEEPALIVE_IN_TICKS
           /\ ticks_out' \in 0 .. KEEPALIVE_OUT_TICKS
<1> USE TicksAssumption DEF TicksAssumption, TypeOK, tickVars
<1>1. 0 \in 0 .. KEEPALIVE_IN_TICKS /\ 0 \in 0 .. KEEPALIVE_OUT_TICKS
  OBVIOUS
<1>2. CASE KeepaliveTick
  <2>1. /\ ticks_in + 1 <= KEEPALIVE_IN_TICKS /\ ticks_in' = ticks_in + 1
        /\ ticks_out' = (IF ticks_out + 1 > KEEPALIVE_OUT_TICKS THEN 0 ELSE ticks_out + 1)
    BY <1>2 DEF KeepaliveTick
  <2> QED BY <1>1, <2>1
<1>3. CASE KeepaliveExpired \/ Send \/ SendFails
  BY <1>1, <1>3 DEF KeepaliveExpired, Send, SendFails, SendSide
<1>4. CASE \E b \in I!Buf, rc \in PostResults : RxArrived(b, rc)
  BY <1>1, <1>4 DEF RxArrived, ReceiveSide
<1>5. CASE \E c \in E!Ctx : TxCompleted(c)
  BY <1>1, <1>5 DEF TxCompleted, SendSide
<1>6. CASE \/ \E rc \in PostResults : Connected(rc)
           \/ \E c \in E!Ctx : TxDiscarded(c) \/ TxError(c) \/ TxErrorWhileClosing(c)
           \/ \E b \in I!Buf : RxError(b) \/ RxDiscarded(b) \/ AppFree(b)
           \/ \E rc \in PostResults : Fetch(rc)
           \/ Disconnected \/ ClosedByPeer \/ EqError \/ KeepaliveStopped
           \/ ShutdownTimeout \/ ShutdownStopped \/ Stop \/ LateEvent \/ UNCHANGED vars
  BY <1>6 DEF Connected, TxDiscarded, TxError, TxErrorWhileClosing, RxError, RxDiscarded,
     AppFree, Fetch, Disconnected, ClosedByPeer, EqError, KeepaliveStopped, ShutdownTimeout,
     ShutdownStopped, Stop, LateEvent, SendSide, ReceiveSide, vars
<1> QED BY <1>2, <1>3, <1>4, <1>5, <1>6 DEF Next

(* An event of an endpoint that is closing already, and goes on to the end  *)
(* of nn_sofi_shutdown, must leave a drained endpoint as quiet as it was.   *)
LEMMA ClosingEnds ==
    ASSUME SofiInv, fsm = "RUNNING", state = "CLOSING", state' = "CLOSING",
           ticks_in' \in 0 .. KEEPALIVE_IN_TICKS,
           ticks_out' \in 0 .. KEEPALIVE_OUT_TICKS,
           timer_keepalive' \in {timer_keepalive, "IDLE"},
           socket_state \in {"DRAINING", "CLOSING"} => E!egress_empty' /\ I!ingress_empty',
           CloseIfQuiet(socket_state, timer_shutdown)
    PROVE  TypeOK' /\ Endpoint'
<1>1. timer_keepalive' \in {"IDLE", "STOPPING"}
  BY DEF SofiInv, TypeOK, Endpoint
<1>2. Reached(socket_state, timer_shutdown)
  BY DEF SofiInv, TypeOK, Endpoint, Reached
<1> QED BY <1>1, <1>2, ShutdownEnds DEF SofiInv

LEMMA EventsOfSendingHalf ==
    ASSUME SofiInv, HalvesInv, Halves', [Next]_vars,
           \/ Send \/ SendFails
           \/ \E c \in E!Ctx : TxCompleted(c) \/ TxDiscarded(c) \/ TxError(c)
                                             \/ TxErrorWhileClosing(c)
    PROVE  TypeOK' /\ Endpoint'
<1>0. /\ ticks_in' \in 0 .. KEEPALIVE_IN_TICKS
      /\ ticks_out' \in 0 .. KEEPALIVE_OUT_TICKS
  BY TicksBounded DEF SofiInv
<1>1. CASE Send
  <2>1. UNCHANGED <<fsm, read, socket_state, timer_keepalive, timer_shutdown, state,
                    ingress_buf_pop, ingress_buf_busy>>
    BY <1>1 DEF Send, SendSide, fsmVars, ingressVars, E!Send, E!SendWhileClosing, E!sharedVars
  <2>2. state = "CLOSING" => stageout_counter' = stageout_counter
    BY <1>1 DEF Send, E!Send, E!SendWhileClosing
  <2> QED BY <1>0, <2>1, <2>2
      DEF SofiInv, TypeOK, Endpoint, Halves, E!egress_empty, I!ingress_empty
<1>2. CASE SendFails
  <2>1. state = "ACTIVE" /\ state' = "CLOSING"
    BY <1>2 DEF SendFails, E!SendFails
  <2> QED BY <1>0, <1>2, <2>1, Stopped DEF SendFails
<1>3. ASSUME NEW c \in E!Ctx, TxCompleted(c)
      PROVE  TypeOK' /\ Endpoint'
  <2>1. /\ fsm = "RUNNING" /\ c \in tx_posted /\ state' = state
        /\ state = "ACTIVE" \/ (state = "CLOSING" /\ ~error)
        /\ UNCHANGED <<ingress_buf_pop, ingress_buf_busy>>
    BY <1>3 DEF TxCompleted, E!TxCompleted, E!sharedVars, SendSide, ingressVars
  <2>2. CASE state = "ACTIVE"
    <3>1. UNCHANGED <<fsm, read, socket_state, timer_keepalive, timer_shutdown>>
      BY <1>3, <2>2 DEF TxCompleted, fsmVars
    <3> QED BY <1>0, <2>1, <2>2, <3>1 DEF SofiInv, TypeOK, Endpoint
  <2>3. CASE state = "CLOSING"
    <3>1. mr_handle # {}
      BY <2>1, <2>3 DEF SofiInv, Halves
    <3>2. socket_state \notin {"DRAINING", "CLOSING"}
      BY <2>3, <3>1 DEF SofiInv, Halves, Endpoint
    <3>3. /\ timer_keepalive' = timer_keepalive
          /\ CloseIfQuiet(socket_state, timer_shutdown)
      BY <1>3, <2>3 DEF TxCompleted, ClosingEvent
    <3> QED BY <1>0, <2>1, <2>3, <3>2, <3>3, ClosingEnds
  <2> QED BY <2>1, <2>2, <2>3
<1>4. ASSUME NEW c \in E!Ctx, TxDiscarded(c) \/ TxErrorWhileClosing(c)
      PROVE  TypeOK' /\ Endpoint'
  <2>1. /\ fsm = "RUNNING" /\ state = "CLOSING" /\ state' = "CLOSING"
        /\ UNCHANGED <<ingress_buf_pop, ingress_buf_busy, stageout_counter>>
    BY <1>4 DEF TxDiscarded, TxErrorWhileClosing, E!TxDiscarded, E!TxErrorWhileClosing,
       E!sharedVars, SendSide, ingressVars
  <2>2. /\ timer_keepalive' = timer_keepalive
        /\ CloseIfQuiet(socket_state, timer_shutdown)
    BY <1>4 DEF TxDiscarded, TxErrorWhileClosing, ClosingEvent
  <2>3. socket_state \in {"DRAINING", "CLOSING"} => E!egress_empty' /\ I!ingress_empty'
    BY <2>1 DEF SofiInv, Endpoint, E!egress_empty, I!ingress_empty
  <2> QED BY <1>0, <2>1, <2>2, <2>3, ClosingEnds
<1>5. ASSUME NEW c \in E!Ctx, TxError(c)
      PROVE  TypeOK' /\ Endpoint'
  <2>1. fsm = "RUNNING" /\ state = "ACTIVE" /\ state' = "CLOSING"
    BY <1>5 DEF TxError, E!TxError
  <2> QED BY <1>0, <1>5, <2>1, Stopped DEF TxError
<1> QED BY <1>1, <1>2, <1>3, <1>4, <1>5

LEMMA EventsOfReceivingHalf ==
    ASSUME SofiInv, HalvesInv, Halves', [Next]_vars,
           \/ \E b \in I!Buf, rc \in PostResults : RxArrived(b, rc)
           \/ \E b \in I!Buf : RxError(b) \/ RxDiscarded(b) \/ AppFree(b)
           \/ \E rc \in PostResults : Fetch(rc)
    PROVE  TypeOK' /\ Endpoint'
<1>0. /\ ticks_in' \in 0 .. KEEPALIVE_IN_TICKS
      /\ ticks_out' \in 0 .. KEEPALIVE_OUT_TICKS
  BY TicksBounded DEF SofiInv
<1>1. ASSUME NEW b \in I!Buf, NEW rc \in PostResults, RxArrived(b, rc)
      PROVE  TypeOK' /\ Endpoint'
  <2>1. /\ state = "ACTIVE" /\ state' = "ACTIVE"
        /\ UNCHANGED <<fsm, read, socket_state, timer_keepalive, timer_shutdown>>
    BY <1>1 DEF RxArrived, fsmVars, I!RxMessage, I!RxKeepalive, I!sharedVars
  <2> QED BY <1>0, <2>1 DEF SofiInv, TypeOK, Endpoint
<1>2. ASSUME NEW b \in I!Buf, RxError(b)
      PROVE  TypeOK' /\ Endpoint'
  <2>1. fsm = "RUNNING" /\ state = "ACTIVE" /\ state' = "CLOSING"
    BY <1>2 DEF RxError, I!RxError, I!StopFlush
  <2> QED BY <1>0, <1>2, <2>1, Stopped DEF RxError
<1>3. ASSUME NEW b \in I!Buf, RxDiscarded(b)
      PROVE  TypeOK' /\ Endpoint'
  <2>1. /\ fsm = "RUNNING" /\ state = "CLOSING" /\ state' = "CLOSING"
        /\ UNCHANGED <<ingress_buf_pop, ingress_buf_busy, stageout_counter>>
    BY <1>3 DEF RxDiscarded, I!RxDiscarded, I!sharedVars, ReceiveSide, egressVars
  <2>2. /\ timer_keepalive' = timer_keepalive
        /\ CloseIfQuiet(socket_state, timer_shutdown)
    BY <1>3 DEF RxDiscarded, ClosingEvent
  <2>3. socket_state \in {"DRAINING", "CLOSING"} => E!egress_empty' /\ I!ingress_empty'
    BY <2>1 DEF SofiInv, Endpoint, E!egress_empty, I!ingress_empty
  <2> QED BY <1>0, <2>1, <2>2, <2>3, ClosingEnds
<1>4. ASSUME NEW b \in I!Buf, AppFree(b)
      PROVE  TypeOK' /\ Endpoint'
  <2>1. UNCHANGED <<fsm, read, socket_state, timer_keepalive, timer_shutdown, state,
                    ingress_buf_pop, ingress_buf_busy, stageout_counter>>
    BY <1>4 DEF AppFree, I!AppFree, I!sharedVars, I!listVars, ReceiveSide, egressVars, fsmVars
  <2> QED BY <1>0, <2>1 DEF SofiInv, TypeOK, Endpoint, E!egress_empty, I!ingress_empty
<1>5. ASSUME NEW rc \in PostResults, Fetch(rc)
      PROVE  TypeOK' /\ Endpoint'
  <2>1. /\ fsm = "RUNNING" /\ ~ I!ingress_empty
        /\ UNCHANGED <<fsm, read, socket_state, timer_keepalive, timer_shutdown, state>>
    BY <1>5 DEF Fetch, I!Fetch, I!sharedVars, I!ingress_empty, fsmVars
  <2> QED BY <1>0, <2>1 DEF SofiInv, TypeOK, Endpoint
<1> QED BY <1>1, <1>2, <1>3, <1>4, <1>5

(* The connection, its loss, and nn_sofi_stop.                              *)
LEMMA EventsOfConnection ==
    ASSUME SofiInv, HalvesInv, Halves', [Next]_vars,
           \/ \E rc \in PostResults : Connected(rc)
           \/ Disconnected \/ ClosedByPeer \/ EqError \/ Stop
    PROVE  TypeOK' /\ Endpoint'
<1>0. /\ ticks_in' \in 0 .. KEEPALIVE_IN_TICKS
      /\ ticks_out' \in 0 .. KEEPALIVE_OUT_TICKS
  BY TicksBounded DEF SofiInv
<1>1. ASSUME NEW rc \in PostResults, Connected(rc)
      PROVE  TypeOK' /\ Endpoint'
  <2>1. fsm = "RUNNING" /\ state = "CONNECTING" /\ timer_shutdown = "IDLE"
    BY <1>1 DEF Connected, I!Connected, SofiInv, Endpoint
  <2>2. CASE rc = "OK"
    <3>1. /\ state' = "ACTIVE" /\ socket_state' = "CONNECTED" /\ timer_keepalive' = "ACTIVE"
          /\ UNCHANGED <<fsm, read, timer_shutdown>>
      BY <1>1, <2>2 DEF Connected, E!Connected
    <3> QED BY <1>0, <2>1, <3>1 DEF SofiInv, TypeOK, Endpoint
  <2>3. CASE rc # "OK"
    <3>1. state' = "CLOSING" /\ StopWith("CONNECTED", "ACTIVE")
      BY <1>1, <2>3 DEF Connected, E!ConnectFails
    <3> QED BY <1>0, <2>1, <3>1, StopEnds
  <2> QED BY <2>2, <2>3
<1>2. CASE Disconnected
  <2>1. /\ fsm = "RUNNING" /\ state = "ACTIVE" /\ state' = "CLOSING"
        /\ StopWith("CLOSED", timer_keepalive)
    BY <1>2 DEF Disconnected, StopBoth, E!Stop
  <2>2. timer_keepalive \in {"ACTIVE", "STOPPING"}
    BY <2>1 DEF SofiInv, Endpoint, TypeOK
  <2> QED BY <1>0, <2>1, <2>2, StopEnds
<1>3. CASE ClosedByPeer
  <2>1. /\ fsm = "RUNNING" /\ state = "CLOSING" /\ state' = "CLOSING"
        /\ timer_keepalive' = timer_keepalive
        /\ CloseIfQuiet("CLOSED", StopTimer(timer_shutdown))
    BY <1>3 DEF ClosedByPeer, BothSides
  <2>2. Reached("CLOSED", StopTimer(timer_shutdown))
    BY DEF SofiInv, TypeOK, Reached, StopTimer
  <2>3. timer_keepalive' \in {"IDLE", "STOPPING"}
    BY <2>1 DEF SofiInv, TypeOK, Endpoint
  <2> QED BY <1>0, <2>1, <2>2, <2>3, ShutdownEnds DEF SofiInv
<1>4. CASE EqError
  <2>1. CASE state = "CLOSING"
    <3>1. /\ fsm = "RUNNING" /\ state' = "CLOSING"
          /\ UNCHANGED <<ingress_buf_pop, ingress_buf_busy, stageout_counter>>
          /\ timer_keepalive' = timer_keepalive
          /\ CloseIfQuiet(socket_state, timer_shutdown)
      BY <1>4, <2>1 DEF EqError, BothSides, egressVars, ingressVars, ClosingEvent
    <3>2. socket_state \in {"DRAINING", "CLOSING"} => E!egress_empty' /\ I!ingress_empty'
      BY <2>1, <3>1 DEF SofiInv, Endpoint, E!egress_empty, I!ingress_empty
    <3> QED BY <1>0, <2>1, <3>1, <3>2, ClosingEnds
  <2>2. CASE state # "CLOSING"
    <3>1. /\ fsm = "RUNNING" /\ state \in {"CONNECTING", "ACTIVE"} /\ state' = "CLOSING"
          /\ StopWith(socket_state, timer_keepalive)
      BY <1>4, <2>2 DEF EqError, StopBoth, E!Stop
    <3> QED BY <1>0, <3>1, Stopped
  <2> QED BY <2>1, <2>2
<1>5. CASE Stop
  <2>1. /\ fsm = "RUNNING" /\ state \in {"CONNECTING", "ACTIVE"} /\ state' = "CLOSING"
        /\ StopWith(socket_state, timer_keepalive)
    BY <1>5 DEF Stop, StopBoth, E!Stop
  <2> QED BY <1>0, <2>1, Stopped
<1> QED BY <1>1, <1>2, <1>3, <1>4, <1>5

LEMMA EventsOfTimers ==
    ASSUME SofiInv, HalvesInv, Halves', [Next]_vars,
           \/ KeepaliveExpired \/ KeepaliveTick \/ KeepaliveStopped
           \/ ShutdownTimeout \/ ShutdownStopped
    PROVE  TypeOK' /\ Endpoint'
<1>0. /\ ticks_in' \in 0 .. KEEPALIVE_IN_TICKS
      /\ ticks_out' \in 0 .. KEEPALIVE_OUT_TICKS
  BY TicksBounded DEF SofiInv
<1>1. ASSUME BothSides
      PROVE  /\ state' = state
             /\ E!egress_empty' = E!egress_empty /\ I!ingress_empty' = I!ingress_empty
  BY <1>1 DEF BothSides, egressVars, ingressVars, E!egress_empty, I!ingress_empty
<1>2. CASE KeepaliveExpired
  <2>1. /\ fsm = "RUNNING" /\ state = "ACTIVE" /\ state' = "CLOSING"
        /\ StopWith(socket_state, "STOPPING")
    BY <1>2 DEF KeepaliveExpired, StopBoth, E!Stop
  <2>2. socket_state = "CONNECTED"
    BY <2>1 DEF SofiInv, Endpoint
  <2> QED BY <1>0, <2>1, <2>2, StopEnds
<1>3. CASE KeepaliveTick
  <2>1. fsm = "RUNNING" /\ state = "ACTIVE"
    BY <1>3 DEF KeepaliveTick
  <2>2. CASE timer_keepalive' = "STOPPING" /\ BothSides
                /\ UNCHANGED <<fsm, read, socket_state, timer_shutdown>>
    BY <1>0, <1>1, <2>1, <2>2 DEF SofiInv, TypeOK, Endpoint
  <2>3. CASE StopBoth(TRUE) /\ StopWith(socket_state, timer_keepalive)
    <3>1. state' = "CLOSING"
      BY <2>3 DEF StopBoth, E!Stop
    <3> QED BY <1>0, <2>1, <2>3, <3>1, Stopped
  <2> QED BY <1>3, <2>2, <2>3 DEF KeepaliveTick
<1>4. CASE KeepaliveStopped
  <2>1. fsm = "RUNNING" /\ timer_keepalive = "STOPPING" /\ BothSides
    BY <1>4 DEF KeepaliveStopped
  <2>2. CASE state = "ACTIVE"
    BY <1>0, <1>1, <1>4, <2>1, <2>2 DEF KeepaliveStopped, SofiInv, TypeOK, Endpoint
  <2>3. CASE state # "ACTIVE"
    <3>1. state = "CLOSING" /\ state' = "CLOSING"
      BY <1>1, <2>1, <2>3 DEF SofiInv, Halves, Endpoint
    <3>2. timer_keepalive' = "IDLE" /\ CloseIfQuiet(socket_state, timer_shutdown)
      BY <1>4, <2>3 DEF KeepaliveStopped
    <3>3. socket_state \in {"DRAINING", "CLOSING"} => E!egress_empty' /\ I!ingress_empty'
      BY <1>1, <2>1, <3>1 DEF SofiInv, Endpoint
    <3> QED BY <1>0, <2>1, <3>1, <3>2, <3>3, ClosingEnds
  <2> QED BY <2>2, <2>3
<1>5. ASSUME timer_shutdown # "IDLE"
      PROVE  state = "CLOSING" /\ socket_state \in {"DRAINING", "CLOSING", "CLOSED"}
  BY <1>5 DEF SofiInv, TypeOK, Halves, Endpoint
<1>6. CASE ShutdownTimeout
  <2>1. /\ state = "CLOSING" /\ BothSides /\ timer_shutdown' = "STOPPING"
        /\ UNCHANGED <<fsm, read, socket_state, timer_keepalive>>
    BY <1>5, <1>6 DEF ShutdownTimeout
  <2> QED BY <1>0, <1>1, <1>6, <2>1 DEF ShutdownTimeout, SofiInv, TypeOK, Endpoint
<1>7. CASE ShutdownStopped
  <2>1. /\ fsm = "RUNNING" /\ state = "CLOSING" /\ state' = "CLOSING"
        /\ socket_state \in {"DRAINING", "CLOSING", "CLOSED"}
        /\ timer_keepalive' = timer_keepalive
        /\ E!egress_empty' = E!egress_empty /\ I!ingress_empty' = I!ingress_empty
    BY <1>1, <1>5, <1>7 DEF ShutdownStopped
  <2>2. CASE socket_state = "DRAINING"
    <3>1. socket_state' = "CLOSING" /\ timer_shutdown' = "ACTIVE" /\ UNCHANGED <<fsm, read>>
      BY <1>7, <2>2 DEF ShutdownStopped
    <3> QED BY <1>0, <2>1, <2>2, <3>1 DEF SofiInv, TypeOK, Endpoint
  <2>3. CASE socket_state \in {"CLOSING", "CLOSED"}
    <3>1. CloseIfQuiet("CLOSED", "IDLE")
      BY <1>7, <2>3 DEF ShutdownStopped
    <3>2. Reached("CLOSED", "IDLE")
      BY DEF Reached
    <3>3. timer_keepalive' \in {"IDLE", "STOPPING"}
      BY <2>1 DEF SofiInv, TypeOK, Endpoint
    <3> QED BY <1>0, <2>1, <3>1, <3>2, <3>3, ShutdownEnds DEF SofiInv
  <2> QED BY <2>1, <2>2, <2>3
<1> QED BY <1>2, <1>3, <1>4, <1>6, <1>7

(* The event the poller held finds everything as the stop left it.          *)
LEMMA EventAfterStop ==
    ASSUME SofiInv, [Next]_vars, LateEvent
    PROVE  TypeOK' /\ Endpoint'
<1>0. /\ ticks_in' \in 0 .. KEEPALIVE_IN_TICKS
      /\ ticks_out' \in 0 .. KEEPALIVE_OUT_TICKS
  BY TicksBounded DEF SofiInv
<1>1. /\ fsm = "STOPPED" /\ read = TRUE /\ fsm' = "ABORTED" /\ UNCHANGED state
      /\ UNCHANGED <<read, socket_state, timer_keepalive, timer_shutdown>>
      /\ E!egress_empty' = E!egress_empty /\ I!ingress_empty' = I!ingress_empty
  BY DEF LateEvent, BothSides, egressVars, ingressVars, E!egress_empty, I!ingress_empty,
     SofiInv, TypeOK
<1> QED BY <1>0, <1>1 DEF SofiInv, TypeOK, Endpoint

LEMMA SofiInitially == Init => SofiInv
<1> SUFFICES ASSUME Init PROVE SofiInv
  OBVIOUS
<1>0. 0 \in 0 .. KEEPALIVE_IN_TICKS /\ 0 \in 0 .. KEEPALIVE_OUT_TICKS
  BY TicksAssumption DEF TicksAssumption
<1>1. TypeOK
  <2>1. /\ fsm = "RUNNING" /\ socket_state = "CONNECTING"
        /\ timer_keepalive = "IDLE" /\ timer_shutdown = "IDLE"
        /\ ticks_in = 0 /\ ticks_out = 0 /\ read = FALSE
    BY DEF Init
  <2> QED BY <1>0, <2>1 DEF TypeOK
<1>3. Endpoint
  BY DEF Init, E!Init, Endpoint
<1>2. Halves
  BY HalvesInitially, HalvesInvImplies
<1> QED BY <1>1, <1>2, <1>3 DEF SofiInv

LEMMA SofiStep == SofiInv /\ HalvesInv /\ HalvesInv' /\ [Next]_vars => SofiInv'
<1> SUFFICES ASSUME SofiInv, HalvesInv, HalvesInv', [Next]_vars PROVE SofiInv'
  OBVIOUS
<1>1. Halves'
  BY HalvesInvImplies, PTL
<1>2. TypeOK' /\ Endpoint'
  <2>1. CASE UNCHANGED vars
    BY <2>1 DEF vars, egressVars, ingressVars, fsmVars, tickVars, SofiInv, TypeOK, Endpoint,
       E!egress_empty, I!ingress_empty
  <2>2. CASE Next
    BY <1>1, <2>2, EventsOfSendingHalf, EventsOfReceivingHalf, EventsOfConnection,
       EventsOfTimers, EventAfterStop DEF Next
  <2> QED BY <2>1, <2>2
<1> QED BY <1>1, <1>2 DEF SofiInv

LEMMA SofiAlways == Spec => [](SofiInv /\ HalvesInv)
BY HalvesInitially, HalvesStep, SofiInitially, SofiStep, PTL DEF Spec

-----------------------------------------------------------------------------
(* The FSM, the socket, the timers and the ticks keep their types: no count *)
(* of ticks passes its limit, whatever resets it (sofi.c:1866-1886).        *)
THEOREM TypeCorrect == Spec => []TypeOK
<1>1. SofiInv => TypeOK
  BY DEF SofiInv
<1> QED BY <1>1, SofiAlways, PTL

(* From the start of draining until the socket is closed nothing happens    *)
(* but the shutdown timer: no completion, fetch or tick is still to come.   *)
THEOREM DrainingIsQuiet == Spec => []DrainIsQuiet
<1>1. SofiInv => DrainIsQuiet
  BY DEF SofiInv, Endpoint, Halves, DrainIsQuiet, I!ingress_empty
<1> QED BY <1>1, SofiAlways, PTL

(* A clean close waits for every send libfabric accepted: an empty counter  *)
(* means that no context is held, and without an error a context is held    *)
(* while its send is in transit.                                            *)
THEOREM CleanCloseIsComplete == Spec => []CleanCloseCompletesSends
<1>1. SofiInv => CleanCloseCompletesSends
  BY DEF SofiInv, Endpoint, Halves, CleanCloseCompletesSends
<1> QED BY <1>1, SofiAlways, PTL

(* When the owner is told that the endpoint has stopped, no timer runs, no  *)
(* message waits and no memory handle is left.                              *)
THEOREM StoppedIsIdle == Spec => []NothingRunsAfterStop
<1>1. SofiInv => NothingRunsAfterStop
  BY DEF SofiInv, Endpoint, Halves, NothingRunsAfterStop, I!ingress_empty
<1> QED BY <1>1, SofiAlways, PTL

(* What is proved of a half on its own, in the endpoint: no context or      *)
(* buffer is used twice, and neither half tells nanomsg what is not so.     *)
HalvesSafe ==
    /\ E!HeldWhileInTransit /\ E!CounterMatchesRing /\ E!FullWindowBlocksPipe
    /\ I!AnnouncedMessageExists /\ I!EachBufferOnce
    /\ I!QueuedMessagesSafe /\ I!DelayedFlushDone

THEOREM HalvesAreSafe == Spec => []HalvesSafe
<1>1. HalvesInv => HalvesSafe
  <2> SUFFICES ASSUME HalvesInv PROVE HalvesSafe
    OBVIOUS
  <2>1. EP!HeldWhileInTransit /\ EP!CounterMatchesRing /\ EP!FullWindowBlocksPipe
    BY DEF HalvesInv, EP!EgressInv, EP!FreeExactly, EP!Spare, EP!CounterMatchesRing
  <2>2. /\ IP!AnnouncedMessageExists /\ IP!EachBufferOnce
        /\ IP!QueuedMessagesSafe /\ IP!DelayedFlushDone
    BY IP!IngressInvImplies, QueuesAssumption DEF QueuesAssumption, HalvesInv
  <2>3. E!HeldWhileInTransit /\ E!CounterMatchesRing /\ E!FullWindowBlocksPipe
    BY <2>1 DEF E!HeldWhileInTransit, EP!HeldWhileInTransit, E!CounterMatchesRing,
       EP!CounterMatchesRing, E!FullWindowBlocksPipe, EP!FullWindowBlocksPipe, E!Pos, EP!Pos
  <2>4. I!AnnouncedMessageExists /\ I!EachBufferOnce
    BY <2>2 DEF I!AnnouncedMessageExists, IP!AnnouncedMessageExists, I!EachBufferOnce,
       IP!EachBufferOnce, I!Populated, IP!Populated,
       I!Buf, IP!Buf
  <2>5. I!QueuedMessagesSafe /\ I!DelayedFlushDone
    BY <2>2 DEF I!QueuedMessagesSafe, IP!QueuedMessagesSafe, I!DelayedFlushDone,
       IP!DelayedFlushDone, I!Populated, IP!Populated, I!ingress_empty, IP!ingress_empty
  <2> QED BY <2>3, <2>4, <2>5 DEF HalvesSafe
<1> QED BY <1>1, SofiAlways, PTL

(* The refinements of the halves, in the endpoint: the peer's messages are  *)
(* fetched in order, none skipped, across every way the endpoint may close. *)
LEMMA SameChannel ==
    /\ [IP!Channel!Next]_(IP!Channel!channelVars) => [I!Channel!Next]_(I!Channel!channelVars)
    /\ IP!Channel!Init => I!Channel!Init
BY DEF IP!Channel!Next, I!Channel!Next, IP!Channel!channelVars, I!Channel!channelVars,
       IP!Channel!Arrive, I!Channel!Arrive, IP!Channel!Deliver, I!Channel!Deliver,
       IP!Channel!Close, I!Channel!Close, IP!Channel!Init, I!Channel!Init

THEOREM EndpointDeliversInOrder == Spec => I!ImplementsChannel
<1>1. Init => IP!InOrder /\ I!Channel!Init
  BY DEF Init, I!Init, I!IngressInit, IP!InOrder, I!Channel!Init
<1>2. ASSUME HalvesInv, IP!InOrder, [Next]_vars
      PROVE  IP!InOrder' /\ [I!Channel!Next]_(I!Channel!channelVars)
  <2>1. IP!IngressInv /\ [IP!Next]_(IP!vars)
    BY <1>2, IngressStep, SameIngress DEF HalvesInv
  <2>2. IP!InOrder' /\ [IP!Channel!Next]_(IP!Channel!channelVars)
    BY <1>2, <2>1, IP!ChannelStep, QueuesAssumption DEF QueuesAssumption
  <2> QED BY <2>2, SameChannel
<1> QED BY <1>1, <1>2, HalvesInitially, HalvesStep, PTL
        DEF Spec, I!ImplementsChannel, I!Channel!Spec

(* With queues of equal size, as by default, nanomsg is promised a window   *)
(* of contexts for the whole life of the endpoint, keepalives included.     *)
LEMMA SameWindow ==
    [EP!Window!Next]_(EP!Window!windowVars) => [E!Window!Next]_(E!Window!windowVars)
BY DEF EP!Window!Next, E!Window!Next, EP!Window!windowVars, E!Window!windowVars,
       EP!Window!Open, E!Window!Open, EP!Window!Accept, E!Window!Accept,
       EP!Window!Finish, E!Window!Finish, EP!Window!Close, E!Window!Close, EP!Ctx, E!Ctx

THEOREM EndpointKeepsWindow ==
    ASSUME tx_queue = rx_queue
    PROVE  Spec => E!ImplementsWindow
<1>1. Init => E!Window!Init
  BY DEF Init, E!Init, E!EgressInit, E!RingInit, E!Window!Init
<1>2. ASSUME HalvesInv, HalvesInv', [Next]_vars
      PROVE  [E!Window!Next]_(E!Window!windowVars)
  <2>1. EP!EgressInv /\ EP!EgressInv' /\ [EP!Next]_(EP!vars)
    BY <1>2, EgressStep, SameEgress DEF HalvesInv
  <2>2. [EP!Window!Next]_(EP!Window!windowVars)
    BY <2>1, EP!WindowStep, QueuesAssumption DEF QueuesAssumption
  <2> QED BY <2>2, SameWindow
<1> QED BY <1>1, <1>2, HalvesInitially, HalvesStep, PTL
        DEF Spec, E!ImplementsWindow, E!Window!Spec

(* The endpoint is never deaf for want of a buffer: with none free a        *)
(* receive is posted or owed, across keepalives and failures of the sends.  *)
THEOREM EndpointNeverDeaf == Spec => []I!NeverDeaf
<1>1. Init => IP!NeverDeaf
  BY DEF Init, I!Init, IP!NeverDeaf
<1>2. ASSUME HalvesInv, IP!NeverDeaf, [Next]_vars PROVE IP!NeverDeaf'
  <2>1. IP!IngressInv /\ [IP!Next]_(IP!vars)
    BY <1>2, IngressStep, SameIngress DEF HalvesInv
  <2> QED BY <1>2, <2>1, IP!NeverDeafStep, QueuesAssumption DEF QueuesAssumption
<1>3. IP!NeverDeaf => I!NeverDeaf
  BY DEF IP!NeverDeaf, I!NeverDeaf
<1> QED BY <1>1, <1>2, <1>3, HalvesInitially, HalvesStep, PTL DEF Spec

-----------------------------------------------------------------------------
(* Refinement of StreamLife.  The FSM only goes forward; its phase is that  *)
(* of the owner once it is known that no step takes an active endpoint, nor *)
(* one that never connected, past the phase that comes next.                *)
LEMMA ForwardOnly ==
    ASSUME [Next]_vars
    PROVE  \/ state' = state
           \/ state = "CONNECTING" /\ state' \in {"ACTIVE", "CLOSING"}
           \/ state = "ACTIVE" /\ state' = "CLOSING"
<1>1. [E!Next]_(E!vars)
  BY EgressStep
<1> QED BY <1>1 DEF E!Next, E!vars, E!sharedVars, E!Connected, E!ConnectFails, E!Send,
     E!SendFails, E!SendWhileClosing, E!TxDone, E!TxCompleted, E!TxDiscarded, E!TxError,
     E!TxErrorWhileClosing, E!Stop

(* The keepalive timer outlives the event that ends the active state.       *)
LEMMA KeepaliveOutlivesActive ==
    ASSUME SofiInv, [Next]_vars, state = "ACTIVE"
    PROVE  timer_keepalive' # "IDLE"
<1>1. timer_keepalive \in {"ACTIVE", "STOPPING"}
  BY DEF SofiInv, TypeOK, Endpoint
<1>2. ASSUME NEW sock, NEW keepalive \in {"ACTIVE", "STOPPING"}, StopWith(sock, keepalive)
      PROVE  timer_keepalive' # "IDLE"
  BY <1>2 DEF StopWith, StopTimer
<1>3. CASE SendFails \/ Disconnected \/ KeepaliveExpired \/ KeepaliveTick \/ Stop \/ EqError
  BY <1>1, <1>2, <1>3 DEF SendFails, Disconnected, KeepaliveExpired, KeepaliveTick, Stop, EqError
<1>4. CASE \/ \E c \in E!Ctx : TxError(c)
           \/ \E b \in I!Buf : RxError(b)
  BY <1>1, <1>2, <1>4 DEF TxError, RxError
<1>5. CASE \/ Send
           \/ \E c \in E!Ctx : TxCompleted(c) \/ TxDiscarded(c) \/ TxErrorWhileClosing(c)
           \/ \E b \in I!Buf, rc \in PostResults : RxArrived(b, rc)
           \/ \E b \in I!Buf : RxDiscarded(b) \/ AppFree(b)
           \/ \E rc \in PostResults : Fetch(rc)
  BY <1>1, <1>5 DEF Send, TxCompleted, TxDiscarded, TxErrorWhileClosing, RxArrived,
     RxDiscarded, AppFree, Fetch, ClosingEvent, fsmVars
<1>6. CASE \/ \E rc \in PostResults : Connected(rc)
           \/ ClosedByPeer \/ KeepaliveStopped \/ ShutdownTimeout \/ ShutdownStopped
           \/ LateEvent \/ UNCHANGED vars
  BY <1>1, <1>6 DEF Connected, I!Connected, ClosedByPeer, KeepaliveStopped, ShutdownTimeout,
     ShutdownStopped, LateEvent, vars, fsmVars
<1> QED BY <1>3, <1>4, <1>5, <1>6 DEF Next

(* A stopped FSM stays as it is, but for the event the poller held.         *)
LEMMA StoppedForGood ==
    ASSUME SofiInv, [Next]_vars, fsm # "RUNNING"
    PROVE  /\ UNCHANGED <<state, read>>
           /\ fsm' # fsm => fsm = "STOPPED" /\ read = TRUE /\ fsm' = "ABORTED"
<1>1. CASE \E b \in I!Buf : AppFree(b)
  BY <1>1 DEF AppFree, I!AppFree, I!sharedVars, fsmVars
<1>2. CASE LateEvent
  BY <1>2 DEF LateEvent, BothSides, SofiInv, TypeOK
<1>3. CASE UNCHANGED vars
  BY <1>3 DEF vars, fsmVars
<1> QED BY <1>1, <1>2, <1>3 DEF Next, Connected, Send, SendFails, TxCompleted, TxDiscarded,
     TxError, TxErrorWhileClosing, RxArrived, RxError, RxDiscarded, Fetch, Disconnected,
     ClosedByPeer, EqError, KeepaliveExpired, KeepaliveTick, KeepaliveStopped,
     ShutdownTimeout, ShutdownStopped, Stop

(* A running FSM does not abort: the branches that would leave nothing read *)
(* behind, and the invariant says that an aborted FSM has.                  *)
LEMMA RunningNeverAborts ==
    ASSUME SofiInv, SofiInv', [Next]_vars, fsm = "RUNNING"
    PROVE  fsm' # "ABORTED"
<1>1. fsm' = "ABORTED" => read' = TRUE
  BY DEF SofiInv, Endpoint
<1>2. read = FALSE
  BY DEF SofiInv, Endpoint
<1>3. ASSUME NEW sock, NEW timer, CloseIfQuiet(sock, timer)
      PROVE  fsm' = "ABORTED" => read' = FALSE
  BY <1>3 DEF CloseIfQuiet
<1>4. CASE \/ SendFails \/ Disconnected \/ ClosedByPeer \/ EqError \/ KeepaliveExpired \/ Stop
           \/ \E c \in E!Ctx : TxDiscarded(c) \/ TxError(c) \/ TxErrorWhileClosing(c)
           \/ \E b \in I!Buf : RxError(b) \/ RxDiscarded(b)
  BY <1>1, <1>3, <1>4 DEF SendFails, Disconnected, ClosedByPeer, EqError, KeepaliveExpired,
     Stop, TxDiscarded, TxError, TxErrorWhileClosing, RxError, RxDiscarded, StopWith,
     ClosingEvent
<1>5. CASE \/ Send \/ ShutdownTimeout \/ LateEvent \/ UNCHANGED vars
           \/ \E b \in I!Buf, rc \in PostResults : RxArrived(b, rc)
           \/ \E b \in I!Buf : AppFree(b)
           \/ \E rc \in PostResults : Fetch(rc)
  BY <1>5 DEF Send, ShutdownTimeout, LateEvent, RxArrived, AppFree, Fetch, vars, fsmVars
<1>6. CASE KeepaliveTick \/ KeepaliveStopped
  BY <1>1, <1>3, <1>6 DEF KeepaliveTick, KeepaliveStopped, StopWith
<1>7. CASE ShutdownStopped
  BY <1>1, <1>2, <1>3, <1>7 DEF ShutdownStopped
<1>8. CASE \E rc \in PostResults : Connected(rc)
  BY <1>1, <1>3, <1>8 DEF Connected, StopWith
<1>9. CASE \E c \in E!Ctx : TxCompleted(c)
  BY <1>1, <1>3, <1>9 DEF TxCompleted, ClosingEvent, fsmVars
<1> QED BY <1>4, <1>5, <1>6, <1>7, <1>8, <1>9 DEF Next

(* The owner's view of the endpoint, as StreamLife is instantiated with.    *)
Phase == CASE fsm = "ABORTED"      -> "aborted"
           [] fsm = "STOPPED"      -> "stopped"
           [] state = "CONNECTING" -> "connecting"
           [] state = "ACTIVE"     -> "active"
           [] OTHER                -> "closing"

PhaseOf(p) ==
    /\ fsm = "ABORTED" => p = "aborted" /\ state = "CLOSING"
    /\ fsm = "STOPPED" => p = "stopped" /\ state = "CLOSING"
    /\ fsm = "RUNNING" => /\ state = "CONNECTING" => p = "connecting"
                          /\ state = "ACTIVE" => p = "active"
                          /\ state = "CLOSING" => p = "closing"

PhaseKnown ==
    /\ PhaseOf(Phase)
    /\ fsm \in {"RUNNING", "STOPPED", "ABORTED"}
    /\ fsm = "RUNNING" => read = FALSE
    /\ read \in BOOLEAN
    /\ state \in {"CONNECTING", "ACTIVE", "CLOSING"}

LEMMA PhaseIs == SofiInv => PhaseKnown
<1>1. SofiInv => /\ fsm \in {"RUNNING", "STOPPED", "ABORTED"}
                 /\ fsm = "RUNNING" => read = FALSE
                 /\ read \in BOOLEAN
                 /\ fsm # "RUNNING" => state = "CLOSING"
                 /\ state \in {"CONNECTING", "ACTIVE", "CLOSING"}
  BY DEF SofiInv, Endpoint, Halves, TypeOK
<1> QED BY <1>1 DEF Phase, PhaseOf, PhaseKnown

LEMMA LifeStep ==
    SofiInv /\ SofiInv' /\ [Next]_vars => [Life!Advance \/ Life!LateEvent]_<<Phase, read>>
<1> SUFFICES ASSUME SofiInv, SofiInv', [Next]_vars, <<Phase, read>>' # <<Phase, read>>
             PROVE  \/ /\ Phase \in Life!Phases /\ Phase' \in Life!Follows(Phase)
                       /\ read' => Phase' = "stopped"
                    \/ Phase = "stopped" /\ read /\ Phase' = "aborted" /\ read' = read
  BY DEF Life!Advance, Life!LateEvent, Phase
<1>0. PhaseKnown /\ PhaseKnown'
  BY PhaseIs, PTL
<1>1. /\ PhaseOf(Phase) /\ PhaseOf(Phase)'
      /\ fsm \in {"RUNNING", "STOPPED", "ABORTED"} /\ fsm' \in {"RUNNING", "STOPPED", "ABORTED"}
      /\ fsm = "RUNNING" => read = FALSE
      /\ fsm' = "RUNNING" => read' = FALSE
      /\ read \in BOOLEAN /\ read' \in BOOLEAN
      /\ state \in {"CONNECTING", "ACTIVE", "CLOSING"}
  BY <1>0 DEF PhaseKnown
<1>2. CASE fsm # "RUNNING"
  BY <1>1, <1>2, StoppedForGood DEF PhaseOf, Phase
<1>3. CASE fsm = "RUNNING"
  <2>1. fsm' # "ABORTED"
    BY <1>3, RunningNeverAborts
  <2>2. read' => Phase' = "stopped"
    BY <1>1, <2>1 DEF PhaseOf
  <2>3. Phase' # Phase
    <3>1. CASE read'
      BY <1>1, <1>3, <2>2, <3>1 DEF PhaseOf
    <3>2. CASE ~read'
      BY <1>1, <1>3, <3>2
    <3> QED BY <3>1, <3>2
  <2>4. CASE state' = state
    BY <1>1, <1>3, <2>1, <2>2, <2>3, <2>4 DEF PhaseOf, Life!Phases, Life!Follows
  <2>5. CASE state = "CONNECTING" /\ state' \in {"ACTIVE", "CLOSING"}
    BY <1>1, <1>3, <2>1, <2>2, <2>5 DEF PhaseOf, Life!Phases, Life!Follows
  <2>6. CASE state = "ACTIVE" /\ state' = "CLOSING"
    <3>1. fsm' # "STOPPED"
      BY <2>6, KeepaliveOutlivesActive DEF SofiInv, Endpoint
    <3> QED BY <1>1, <1>3, <2>1, <2>2, <2>6, <3>1 DEF PhaseOf, Life!Phases, Life!Follows
  <2> QED BY <2>4, <2>5, <2>6, ForwardOnly
<1> QED BY <1>2, <1>3

(* The streaming endpoint is the stream its owner counts on, for queues and *)
(* timeouts of every size and whatever goes wrong: it connects once, closes *)
(* once and stops once and for good.  No order of sends, timers, errors and *)
(* stops aborts it before that; what can abort it afterwards is an event    *)
(* the poller had read and not fed when it stopped, and nothing else.       *)
THEOREM SofiImplementsLife == Spec => ImplementsLife
<1>1. Init => Life!Init
  BY DEF Init, E!Init, Life!Init
<1> QED BY <1>1, LifeStep, SofiAlways, PTL DEF Spec, ImplementsLife, Life!Spec, Phase

(* nn_sofi_stop leaves the endpoint in a phase bofi.c and cofi.c reckon     *)
(* with (bofi.c:320-327, cofi.c:268-271): what Bofi and Cofi assume of it.  *)
StopExpected == [][Stop => Phase' \in Life!AfterStop(Phase)]_vars

THEOREM StopIsExpected == Spec => StopExpected
<1>1. ASSUME SofiInv, SofiInv', [Next]_vars, Stop
      PROVE  Phase' \in Life!AfterStop(Phase)
  <2>0. PhaseKnown /\ PhaseKnown'
    BY <1>1, PhaseIs, PTL
  <2>1. PhaseOf(Phase) /\ PhaseOf(Phase)'
    BY <2>0 DEF PhaseKnown
  <2>2. fsm = "RUNNING" /\ state \in {"CONNECTING", "ACTIVE"} /\ state' = "CLOSING"
    BY <1>1 DEF Stop, StopBoth, E!Stop
  <2>3. state = "ACTIVE" => fsm' # "STOPPED"
    BY <1>1, <2>2, KeepaliveOutlivesActive DEF SofiInv, Endpoint
  <2>4. fsm' \in {"RUNNING", "STOPPED"}
    BY <1>1, <2>2, RunningNeverAborts DEF SofiInv, TypeOK
  <2> QED BY <2>1, <2>2, <2>3, <2>4 DEF PhaseOf, Life!AfterStop, Life!Follows
<1> QED BY <1>1, SofiAlways, PTL DEF Spec, StopExpected
=============================================================================
