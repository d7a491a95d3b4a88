-------------------------------- MODULE Sofi --------------------------------
(***************************************************************************)
(* The streaming endpoint (sofi.c) as a whole: the sending half (Egress)   *)
(* and the receiving half (Ingress) under one FSM, with the keepalive and  *)
(* the shutdown timer and the state of the socket.  Init is the endpoint   *)
(* after nn_sofi_start_accept or nn_sofi_start_connect.                    *)
(*                                                                         *)
(* Each action is one call of nn_sofi_handler, nn_sofi_shutdown, nn_sofi_- *)
(* send, nn_sofi_recv or nn_sofi_stop, under the lock of the nanomsg       *)
(* context.  nn_fsm_stop calls nn_sofi_shutdown synchronously, so a        *)
(* critical error and the STOP action it causes are one step.              *)
(***************************************************************************)
EXTENDS Integers, Sequences, FiniteSets

CONSTANTS
    rx_queue, tx_queue, MaxMessages, PostResults,   \* see Egress and Ingress
    KEEPALIVE_IN_TICKS,     \* silent ticks the endpoint tolerates (4)
    KEEPALIVE_OUT_TICKS,    \* ticks it may be silent itself (2)
    Faults                  \* what may go wrong in this instance

ASSUME QueuesAssumption ==  \* those of Egress and Ingress
    /\ rx_queue \in Nat /\ rx_queue >= 2
    /\ tx_queue \in Nat /\ tx_queue >= rx_queue
    /\ MaxMessages \in Nat /\ PostResults \subseteq {"OK", "EAGAIN", "ERROR"}
ASSUME FaultsAssumption ==
    Faults \subseteq {"SEND", "AUX", "TX", "RX", "EQ", "DISCONNECT", "LATE"}
ASSUME TicksAssumption ==
    KEEPALIVE_IN_TICKS \in Nat /\ KEEPALIVE_OUT_TICKS \in Nat

VARIABLES
    state, error,                                           \* of the FSM
    egress_ring, mr_handle, stageout_counter, stageout_state,
    out_state, pipe_out, tx_posted,                         \* see Egress
    ingress_buf_free, ingress_buf_busy, ingress_buf_pop, ingress_flags,
    pipe_in, rx_posted, chunk, arrived, delivered, app_held, \* see Ingress
    fsm,                \* "RUNNING", "STOPPED", or "ABORTED" by nn_fsm_bad_*
    socket_state,
    timer_keepalive,    \* "IDLE", "ACTIVE", "STOPPING"
    timer_shutdown,     \* likewise
    ticks_in,           \* ticks since something was received
    ticks_out,          \* ticks since something was sent
    read                \* did the poller, when the FSM stopped, hold an event it
                        \* had read and not fed yet

E == INSTANCE Egress
I == INSTANCE Ingress

egressVars == <<egress_ring, mr_handle, stageout_counter, stageout_state,
                out_state, pipe_out, tx_posted>>
ingressVars == <<ingress_buf_free, ingress_buf_busy, ingress_buf_pop, ingress_flags,
                 pipe_in, rx_posted, chunk, arrived, delivered, app_held>>
fsmVars == <<fsm, read, socket_state, timer_keepalive, timer_shutdown>>
tickVars == <<ticks_in, ticks_out>>
vars == <<state, error, egressVars, ingressVars, fsmVars, tickVars>>

(* The variables of the FSM, the socket and the timers; the tick counters   *)
(* are compared before they wrap (nn_sofi_handler, sofi.c:1866-1886).       *)
TypeOK ==
    /\ fsm \in {"RUNNING", "STOPPED", "ABORTED"}
    /\ socket_state \in {"CONNECTING", "CONNECTED", "DRAINING", "CLOSING", "CLOSED"}
    /\ timer_keepalive \in {"IDLE", "ACTIVE", "STOPPING"}
    /\ timer_shutdown \in {"IDLE", "ACTIVE", "STOPPING"}
    /\ ticks_in \in 0 .. KEEPALIVE_IN_TICKS
    /\ ticks_out \in 0 .. KEEPALIVE_OUT_TICKS
    /\ read \in BOOLEAN

Init ==
    /\ E!Init
    /\ I!Init
    /\ fsm = "RUNNING"
    /\ socket_state = "CONNECTING"
    /\ timer_keepalive = "IDLE"
    /\ timer_shutdown = "IDLE"
    /\ ticks_in = 0
    /\ ticks_out = 0
    /\ read = FALSE

-----------------------------------------------------------------------------
(* nn_timer_stop does nothing to a timer that is idle or being stopped.     *)
StopTimer(timer) == IF timer = "ACTIVE" THEN "STOPPING" ELSE timer

(* The end of nn_sofi_shutdown, reached by most events while closing: once  *)
(* the queues are empty and the timers idle, a connected socket is drained, *)
(* and one that never connected or is closed ends the FSM.  sock and timer  *)
(* are the socket's state and the shutdown timer as the event left them.    *)
(* nn_ofiw_stop does not wait for a poller that has set lock_safe: one that *)
(* waits for the context will feed what it has read to the stopped FSM.     *)
QuietUncounted(timer) == I!ingress_empty' /\ timer_keepalive' = "IDLE" /\ timer = "IDLE"

QuietUntimed(timer) == E!egress_empty' /\ I!ingress_empty' /\ timer = "IDLE"

Quiet(timer) ==
    /\ E!egress_empty' /\ I!ingress_empty'
    /\ timer_keepalive' = "IDLE" /\ timer = "IDLE"

CloseIfQuiet(sock, timer) ==
    /\ socket_state' = CASE Quiet(timer) /\ sock = "CONNECTED"  -> "DRAINING"
                         [] Quiet(timer) /\ sock = "CONNECTING" -> "CLOSED"
                         [] OTHER                               -> sock
    /\ timer_shutdown' = IF Quiet(timer) /\ sock = "CONNECTED" THEN "ACTIVE" ELSE timer
    /\ fsm' = CASE Quiet(timer) /\ sock \in {"CONNECTING", "CLOSED"} -> "STOPPED"
                [] Quiet(timer) /\ sock \in {"DRAINING", "CLOSING"}  -> "ABORTED"
                [] OTHER                                             -> fsm
    /\ read' \in IF fsm' = "STOPPED" /\ "LATE" \in Faults THEN BOOLEAN ELSE {FALSE}

(* The FSM's and the timers' part of the STOP action; the queues' part is   *)
(* in the actions of E and I it comes with.                                 *)
StopWith(sock, keepalive) ==
    /\ timer_keepalive' = StopTimer(keepalive)
    /\ CloseIfQuiet(sock, timer_shutdown)

(* An event other than STOP while closing that has no more to do.           *)
ClosingEvent == UNCHANGED timer_keepalive /\ CloseIfQuiet(socket_state, timer_shutdown)

(* An event the poller feeds singly: it holds no other (ofiw.c:232-293),    *)
(* while the rest of a batch of completions is fed to the FSM the first of  *)
(* them has stopped (ofiw.c:199-211).                                       *)
FedAlone == ~read'

(* nn_sofi_critical_error for a cause outside both halves, or nn_sofi_stop. *)
StopReceiving(failed) == I!Stop(failed) /\ UNCHANGED egressVars

StopBoth(failed) == E!Stop(failed) /\ I!Stop(failed)

SendSide == UNCHANGED <<ingressVars, ticks_in>>
ReceiveSide == UNCHANGED <<egressVars, ticks_out>>
BothSides == UNCHANGED <<egressVars, ingressVars, state, error>>

-----------------------------------------------------------------------------
(* FI_CONNECTED.                                                            *)
Connected(rc) ==
    /\ fsm = "RUNNING"
    /\ I!Connected(rc)
    /\ IF rc = "OK"
       THEN /\ E!Connected
            /\ socket_state' = "CONNECTED"
            /\ timer_keepalive' = "ACTIVE"
            /\ UNCHANGED <<fsm, read, timer_shutdown>>
       ELSE /\ E!ConnectFails
            /\ StopWith("CONNECTED", "ACTIVE") /\ FedAlone
    /\ UNCHANGED tickVars

(* nn_sofi_send.  Without a fault the post fails only for want of a context.*)
Send ==
    /\ fsm = "RUNNING"
    /\ \/ E!Send
       \/ E!SendWhileClosing
    /\ ticks_out' = 0
    /\ SendSide /\ UNCHANGED fsmVars

SendFails ==
    /\ fsm = "RUNNING"
    /\ "SEND" \in Faults \/ ~E!HasFreeContext
    /\ E!SendFails
    /\ I!Stop(TRUE)
    /\ ticks_out' = 0
    /\ StopWith(socket_state, timer_keepalive)
    /\ UNCHANGED ticks_in

(* TX completions and errors.                                               *)
TxCompleted(c) ==
    /\ fsm = "RUNNING"
    /\ E!TxCompleted(c)
    /\ SendSide /\ ticks_out' = 0
    /\ IF state = "CLOSING" THEN ClosingEvent ELSE UNCHANGED fsmVars

TxDiscarded(c) ==
    /\ fsm = "RUNNING"
    /\ E!TxDiscarded(c)
    /\ SendSide /\ UNCHANGED ticks_out
    /\ ClosingEvent

TxError(c) ==
    /\ fsm = "RUNNING"
    /\ "TX" \in Faults
    /\ E!TxError(c)
    /\ I!Stop(TRUE)
    /\ StopWith(socket_state, timer_keepalive) /\ FedAlone
    /\ UNCHANGED tickVars

TxErrorWhileClosing(c) ==
    /\ fsm = "RUNNING"
    /\ "TX" \in Faults
    /\ E!TxErrorWhileClosing(c)
    /\ SendSide /\ UNCHANGED ticks_out
    /\ ClosingEvent /\ FedAlone

(* RX completions and errors, nn_sofi_recv, and the application's free.     *)
RxArrived(b, rc) ==
    /\ fsm = "RUNNING"
    /\ I!RxMessage(b, rc) \/ I!RxKeepalive(b, rc)
    /\ ticks_in' = 0
    /\ ReceiveSide /\ UNCHANGED fsmVars

RxError(b) ==
    /\ fsm = "RUNNING"
    /\ "RX" \in Faults
    /\ I!RxError(b)
    /\ E!Stop(TRUE)
    /\ StopWith(socket_state, timer_keepalive) /\ FedAlone
    /\ UNCHANGED tickVars

RxDiscarded(b) ==
    /\ fsm = "RUNNING"
    /\ I!RxDiscarded(b)
    /\ ReceiveSide /\ UNCHANGED ticks_in
    /\ ClosingEvent

Fetch(rc) ==
    /\ fsm = "RUNNING"
    /\ I!Fetch(rc)
    /\ ReceiveSide /\ UNCHANGED <<fsmVars, ticks_in>>

AppFree(b) == I!AppFree(b) /\ ReceiveSide /\ UNCHANGED <<fsmVars, ticks_in>>

(* FI_SHUTDOWN, once: the peer is gone, or answers ofi_cm_shutdown.         *)
Disconnected ==
    /\ fsm = "RUNNING"
    /\ "DISCONNECT" \in Faults
    /\ state = "ACTIVE"
    /\ StopBoth(TRUE)
    /\ StopWith("CLOSED", timer_keepalive) /\ FedAlone
    /\ UNCHANGED tickVars

ClosedByPeer ==
    /\ fsm = "RUNNING"
    /\ state = "CLOSING" /\ socket_state # "CLOSED"
    /\ "DISCONNECT" \in Faults \/ socket_state = "CLOSING"
    /\ BothSides /\ UNCHANGED <<timer_keepalive, tickVars>>
    /\ CloseIfQuiet("CLOSED", StopTimer(timer_shutdown)) /\ FedAlone

(* An error on the event queue.                                             *)
EqError ==
    /\ fsm = "RUNNING"
    /\ "EQ" \in Faults
    /\ IF state = "CLOSING"
       THEN BothSides /\ ClosingEvent
       ELSE StopBoth(TRUE) /\ StopWith(socket_state, timer_keepalive)
    /\ FedAlone
    /\ UNCHANGED tickVars

(* The keepalive timer fires while ACTIVE.  It is stopped to be started     *)
(* again; a silent peer or a keepalive that cannot be sent is critical.     *)
KeepaliveExpired ==
    /\ fsm = "RUNNING"
    /\ state = "ACTIVE" /\ timer_keepalive = "ACTIVE"
    /\ ticks_in + 1 > KEEPALIVE_IN_TICKS
    /\ ticks_in' = 0
    /\ StopBoth(TRUE)
    /\ StopWith(socket_state, "STOPPING")
    /\ UNCHANGED ticks_out

KeepaliveTick ==
    LET sends == ticks_out + 1 > KEEPALIVE_OUT_TICKS
    IN  /\ fsm = "RUNNING"
        /\ state = "ACTIVE" /\ timer_keepalive = "ACTIVE"
        /\ ticks_in + 1 <= KEEPALIVE_IN_TICKS
        /\ ticks_in' = ticks_in + 1
        /\ ticks_out' = IF sends THEN 0 ELSE ticks_out + 1
        /\ \/ /\ timer_keepalive' = "STOPPING"
              /\ BothSides /\ UNCHANGED <<fsm, read, socket_state, timer_shutdown>>
           \/ /\ sends /\ "AUX" \in Faults
              /\ StopBoth(TRUE)
              /\ StopWith(socket_state, timer_keepalive)

KeepaliveNotRestarted ==
    /\ fsm = "RUNNING"
    /\ timer_keepalive = "STOPPING"
    /\ BothSides /\ UNCHANGED tickVars
    /\ timer_keepalive' = "IDLE"
    /\ IF state = "ACTIVE" THEN UNCHANGED <<fsm, read, socket_state, timer_shutdown>>
       ELSE CloseIfQuiet(socket_state, timer_shutdown)

KeepaliveStopped ==
    /\ fsm = "RUNNING"
    /\ timer_keepalive = "STOPPING"
    /\ BothSides /\ UNCHANGED tickVars
    /\ IF state = "ACTIVE"
       THEN timer_keepalive' = "ACTIVE" /\ UNCHANGED <<fsm, read, socket_state, timer_shutdown>>
       ELSE timer_keepalive' = "IDLE" /\ CloseIfQuiet(socket_state, timer_shutdown)

(* The shutdown timer fires: it is stopped, and what comes next is decided  *)
(* when it has stopped.                                                     *)
ShutdownTimeout ==
    /\ fsm = "RUNNING"
    /\ timer_shutdown = "ACTIVE"
    /\ socket_state \in {"CLOSING", "DRAINING"}
    /\ timer_shutdown' = "STOPPING"
    /\ BothSides /\ UNCHANGED <<fsm, read, socket_state, timer_keepalive, tickVars>>

(* It has stopped.  Draining is over: ofi_cm_shutdown, and the timer again. *)
(* Closing has timed out, or the peer has answered: the socket is closed.   *)
ShutdownUntimed ==
    /\ fsm = "RUNNING"
    /\ timer_shutdown = "STOPPING"
    /\ BothSides /\ UNCHANGED <<timer_keepalive, tickVars>>
    /\ IF socket_state = "DRAINING"
       THEN socket_state' = "CLOSING" /\ timer_shutdown' = "IDLE" /\ UNCHANGED <<fsm, read>>
       ELSE CloseIfQuiet("CLOSED", "IDLE")

ShutdownStopped ==
    /\ fsm = "RUNNING"
    /\ timer_shutdown = "STOPPING"
    /\ BothSides /\ UNCHANGED <<timer_keepalive, tickVars>>
    /\ CASE socket_state = "DRAINING" ->
              /\ socket_state' = "CLOSING" /\ timer_shutdown' = "ACTIVE"
              /\ UNCHANGED <<fsm, read>>
         [] socket_state \in {"CLOSING", "CLOSED"} -> CloseIfQuiet("CLOSED", "IDLE")
         [] OTHER -> fsm' = "ABORTED" /\ UNCHANGED <<read, socket_state, timer_shutdown>>

(* nn_sofi_stop.                                                            *)
Stop ==
    /\ fsm = "RUNNING"
    /\ StopBoth(FALSE)
    /\ StopWith(socket_state, timer_keepalive)
    /\ UNCHANGED tickVars

(* The event the poller held reaches the stopped FSM, nn_fsm_bad_state, or  *)
(* what has been freed meanwhile: the abort, if anything comes of it.       *)
LateEvent ==
    /\ fsm = "STOPPED" /\ read
    /\ fsm' = "ABORTED"
    /\ BothSides /\ UNCHANGED <<read, socket_state, timer_keepalive, timer_shutdown, tickVars>>

(* A stopped FSM gets no other event; the application may still free        *)
(* messages.                                                                *)
Next ==
    \/ \E rc \in PostResults : Connected(rc)
    \/ Send
    \/ SendFails
    \/ \E c \in E!Ctx : TxCompleted(c)
    \/ \E c \in E!Ctx : TxDiscarded(c)
    \/ \E c \in E!Ctx : TxError(c)
    \/ \E c \in E!Ctx : TxErrorWhileClosing(c)
    \/ \E b \in I!Buf, rc \in PostResults : RxArrived(b, rc)
    \/ \E b \in I!Buf : RxError(b)
    \/ \E b \in I!Buf : RxDiscarded(b)
    \/ \E b \in I!Buf : AppFree(b)
    \/ \E rc \in PostResults : Fetch(rc)
    \/ Disconnected
    \/ ClosedByPeer
    \/ EqError
    \/ KeepaliveExpired
    \/ KeepaliveTick
    \/ KeepaliveStopped
    \/ ShutdownTimeout
    \/ ShutdownStopped
    \/ Stop
    \/ LateEvent

Spec == Init /\ [][Next]_vars

(* The nanomsg worker runs the timers, libfabric completes every send, and  *)
(* the application receives what is announced.                              *)
Fairness ==
    /\ WF_vars(KeepaliveExpired \/ KeepaliveTick)
    /\ WF_vars(KeepaliveStopped)
    /\ WF_vars(ShutdownTimeout)
    /\ WF_vars(ShutdownStopped)
    /\ \A c \in E!Ctx : WF_vars(TxCompleted(c) \/ TxDiscarded(c))
    /\ WF_vars(\E rc \in PostResults : Fetch(rc))

FairSpec == Spec /\ Fairness

-----------------------------------------------------------------------------
(* The sending half behaves as Egress says although it shares the FSM:      *)
(* whatever fails in the other half stops this one in the same step.        *)
EgressHalf == E!Spec

(* The receiving half likewise, with a send that fails or the event queue.  *)
IngressHalf == I!Spec

(* Both halves behave as their modules say: a critical error in the middle  *)
(* of a handler of one stops the other with all the STOP action does.       *)
HalvesBehave == EgressHalf /\ IngressHalf

(* The phase of the endpoint as its owner sees it; "aborted" by             *)
(* nn_fsm_bad_state, bad_source or bad_action.                              *)
Life == INSTANCE StreamLife WITH
    late <- read,
    phase <- CASE fsm = "ABORTED"      -> "aborted"
               [] fsm = "STOPPED"      -> "stopped"
               [] state = "CONNECTING" -> "connecting"
               [] state = "ACTIVE"     -> "active"
               [] OTHER                -> "closing"

(* The endpoint keeps what its owner counts on, in whatever order sends,    *)
(* timers, the peer, errors and a stop come: it connects once, closes once, *)
(* and stops once and for good.  It never reaches nn_fsm_bad_* before it    *)
(* has stopped, and then only by an event the poller had read by then.      *)
ImplementsLife == Life!Spec

(* Draining and closing start only when everything is quiet, and it stays   *)
(* quiet: the shutdown timer is the only thing the endpoint waits for, and  *)
(* no late fetch posts a buffer on the socket being shut down.              *)
DrainIsQuiet ==
    fsm = "RUNNING" /\ socket_state \in {"DRAINING", "CLOSING"} =>
        /\ state = "CLOSING"
        /\ E!egress_empty /\ I!ingress_empty
        /\ timer_keepalive = "IDLE" /\ timer_shutdown # "IDLE"
        /\ pipe_in # "IDLE"

(* A clean close loses no message nanomsg handed over: the endpoint is not  *)
(* closed before libfabric has completed every send.                        *)
CleanCloseCompletesSends ==
    ~error /\ socket_state \in {"DRAINING", "CLOSING"} => tx_posted = {}

(* The owner frees the endpoint after NN_SOFI_STOPPED (bofi.c, cofi.c):     *)
(* neither timer may fire nor may nanomsg have a message to fetch by then,  *)
(* and no context holds a memory handle, for ofi_mr_term asserts that       *)
(* (ofimr.c:421).                                                           *)
NothingRunsAfterStop ==
    fsm = "STOPPED" =>
        /\ timer_keepalive = "IDLE" /\ timer_shutdown = "IDLE"
        /\ pipe_in # "IDLE" /\ ingress_buf_pop = <<>>
        /\ mr_handle = {}

(* A peer that falls silent is noticed: every count of silent ticks ends    *)
(* with something received or with the connection closing.                  *)
SilenceIsNoticed ==
    \A n \in 1 .. KEEPALIVE_IN_TICKS :
        state = "ACTIVE" /\ ticks_in = n ~> ticks_in < n \/ state = "CLOSING"

(* A send that failed after it was posted has left the count of free        *)
(* contexts short, and the endpoint never counts as empty again.            *)
CreditLost == stageout_counter + Cardinality(mr_handle) # tx_queue

(* A close completes, if nanomsg was not told of a message that delays the  *)
(* flush, if the sends in transit are waited for or there are none, and     *)
(* unless one of them fails.                                                *)
CloseCompletes ==
    /\ fsm = "RUNNING" /\ state = "CLOSING"
    /\ "FLUSH" \notin ingress_flags
    /\ ~error \/ E!egress_empty
    ~> fsm = "STOPPED" \/ CreditLost

(* Every message that arrives is announced and fetched while the endpoint   *)
(* stays active, whatever else happens to it and whichever posts fail (true *)
(* of two buffers, where no more than two messages can be queued).          *)
EveryMessageFetched == I!EveryMessageFetched

(* "The connection is dropped from the remote end.  This is an              *)
(* unrecoverable error and we should terminate" (sofi.c:1774-1775).         *)
DisconnectTerminates == socket_state = "CLOSED" ~> fsm = "STOPPED"
=============================================================================
