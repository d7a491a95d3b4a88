------------------------------ MODULE Ingress -------------------------------
(***************************************************************************)
(* The receiving half of the streaming endpoint (sofi.c): buffers are      *)
(* posted to libfabric, filled, queued for nanomsg, fetched and posted     *)
(* again.  Included is what nn_sofi_handler and nn_sofi_shutdown do to     *)
(* this half when the endpoint connects, is stopped or fails; the other    *)
(* half is Egress and Sofi puts the two together.                          *)
(*                                                                         *)
(* The free and the busy list are sets here, for nothing depends on which  *)
(* free buffer is posted; the order of the populated list is the order of  *)
(* delivery and is kept.  A message is its number in order of arrival.     *)
(***************************************************************************)
EXTENDS Integers, Sequences, FiniteSets

CONSTANTS
    rx_queue,       \* number of ingress buffers
    MaxMessages,    \* messages the peer sends (bounds the model, not the code)
    PostResults     \* what ofi_recvmsg may return: "OK", "EAGAIN", "ERROR"

ASSUME RxQueueAssumption == rx_queue \in Nat /\ rx_queue >= 2
ASSUME IngressBounds ==
    MaxMessages \in Nat /\ PostResults \subseteq {"OK", "EAGAIN", "ERROR"}

VARIABLES
    state,                  \* state of the FSM: "CONNECTING", "ACTIVE", "CLOSING"
    error,                  \* self->error # 0
    ingress_buf_free,       \* buffers that may be posted
    ingress_buf_busy,       \* buffers marked as posted
    ingress_buf_pop,        \* buffers with a message for nanomsg, in order
    ingress_flags,          \* set of "POSTLATER", "NNBUSY", "NNLATER", "FLUSH"
    pipe_in,                \* instate of the pipebase; "IDLE": a message waits
    rx_posted,              \* buffers libfabric may still write into
    chunk,                  \* the message each buffer holds
    arrived,                \* messages received from the peer
    delivered,              \* last message nanomsg fetched
    app_held                \* buffers whose message the application still holds

sharedVars == <<state, error>>
listVars == <<ingress_buf_free, ingress_buf_busy, rx_posted>>
ingressVars == <<listVars, ingress_buf_pop, ingress_flags, pipe_in,
                 chunk, arrived, delivered, app_held>>
vars == <<ingressVars, sharedVars>>

Buf == 1 .. rx_queue
Flag == {"POSTLATER", "NNBUSY", "NNLATER", "FLUSH"}
Populated == {ingress_buf_pop[i] : i \in DOMAIN ingress_buf_pop}

(* The lists hold buffers of the endpoint, never NULL.                      *)
TypeOK ==
    /\ state \in {"CONNECTING", "ACTIVE", "CLOSING"}
    /\ error \in BOOLEAN
    /\ ingress_buf_free \subseteq Buf
    /\ ingress_buf_busy \subseteq Buf
    /\ ingress_buf_pop \in Seq(Buf)
    /\ ingress_flags \subseteq Flag
    /\ pipe_in \in {"DEACTIVATED", "ASYNC", "IDLE"}
    /\ rx_posted \subseteq Buf
    /\ chunk \in [Buf -> Nat]
    /\ arrived \in 0 .. MaxMessages
    /\ delivered \in Nat
    /\ app_held \subseteq Buf

IngressInit ==
    /\ ingress_buf_free = Buf
    /\ ingress_buf_busy = {}
    /\ ingress_buf_pop = <<>>
    /\ ingress_flags = {}
    /\ pipe_in = "DEACTIVATED"
    /\ rx_posted = {}
    /\ chunk = [b \in Buf |-> 0]
    /\ arrived = 0
    /\ delivered = 0
    /\ app_held = {}

Init ==
    /\ IngressInit
    /\ state = "CONNECTING"
    /\ error = FALSE

ingress_empty == ingress_buf_pop = <<>> /\ ingress_buf_busy = {}

-----------------------------------------------------------------------------
(* The lists a handler works on, so that its calls can be composed.         *)
Lists == [free |-> ingress_buf_free, busy |-> ingress_buf_busy, posted |-> rx_posted]

SetLists(l) ==
    /\ ingress_buf_free' = l.free
    /\ ingress_buf_busy' = l.busy
    /\ rx_posted' = l.posted

(* A receive of buffer b completes: libfabric is done with the buffer.      *)
Taken(l, b) == [l EXCEPT !.posted = @ \ {b}]

(* nn_sofi_ingress_mark_free and nn_sofi_ingress_mark_populated take a busy *)
(* buffer off the busy list.                                                *)
MarkFree(l, b) == [l EXCEPT !.busy = @ \ {b}, !.free = @ \cup {b}]
MarkPopulatedAsFree(l, b) == [l EXCEPT !.busy = @ \ {b}, !.free = @ \cup {b}]
MarkPopulated(l, b) == [l EXCEPT !.busy = @ \ {b}]

(* nn_sofi_ingress_post with rc as the result of ofi_recvmsg: the lists it  *)
(* leaves and what it returns.  A buffer that is not accepted is free again.*)
Posted(l, rc) ==
    LET b == CHOOSE c \in l.free : TRUE
    IN  IF l.free = {} \/ rc # "OK" THEN l
        ELSE [l EXCEPT !.free = @ \ {b}, !.busy = @ \cup {b}, !.posted = @ \cup {b}]

PostReturn(l, rc) == IF l.free = {} THEN "EAGAIN" ELSE rc

(* The head of the populated list goes to nanomsg.                          *)
Rest == Tail(ingress_buf_pop)

-----------------------------------------------------------------------------
(* nn_sofi_ingress_flush: the busy list is emptied although libfabric keeps *)
(* the buffers, and a message nanomsg was told of delays the rest.          *)
FlushNotDelayed(l, queue, flags) ==
    LET unposted == [l EXCEPT !.free = @ \cup l.busy, !.busy = {}]
    IN  /\ SetLists(unposted)
        /\ ingress_buf_pop' = queue
        /\ ingress_flags' = flags

Flush(l, queue, flags) ==
    LET unposted == [l EXCEPT !.free = @ \cup l.busy, !.busy = {}]
        waiting  == {queue[i] : i \in DOMAIN queue}
    IN  IF "NNBUSY" \in flags
        THEN /\ SetLists(unposted)
             /\ ingress_buf_pop' = queue
             /\ ingress_flags' = flags \cup {"FLUSH"}
        ELSE /\ SetLists([unposted EXCEPT !.free = @ \cup waiting])
             /\ ingress_buf_pop' = <<>>
             /\ ingress_flags' = flags \ {"POSTLATER", "NNLATER"}

(* The STOP action's part, for nn_sofi_stop and nn_sofi_critical_error.     *)
StopFlush(l, queue, flags) ==
    /\ state' = "CLOSING"
    /\ Flush(l, queue, flags)

-----------------------------------------------------------------------------
(* FI_CONNECTED: the pipe is started and one buffer is posted; if that      *)
(* fails the error is critical, -EAGAIN included.                           *)
Connected(rc) ==
    /\ state = "CONNECTING"
    /\ pipe_in' = "ASYNC"
    /\ IF rc = "OK"
       THEN /\ state' = "ACTIVE"
            /\ SetLists(Posted(Lists, rc))
            /\ UNCHANGED <<ingress_buf_pop, ingress_flags, error>>
       ELSE /\ StopFlush(Lists, ingress_buf_pop, ingress_flags)
            /\ error' = TRUE
    /\ UNCHANGED <<chunk, arrived, delivered, app_held>>

(* An RX completion with a message: nn_sofi_ingress_handle queues it and    *)
(* tells nanomsg, unless it was told of an earlier one; then the handler    *)
(* posts one more buffer and remembers a post that returned -EAGAIN.        *)
NotifyForgetful(flags) == flags \cup {"NNBUSY"}

Notify(flags) ==
    IF "NNBUSY" \in flags THEN flags \cup {"NNLATER"} ELSE flags \cup {"NNBUSY"}

PostLaterNever(flags, l, rc) == flags

PostLater(flags, l, rc) ==
    IF PostReturn(l, rc) = "EAGAIN" THEN flags \cup {"POSTLATER"} ELSE flags

RxMessage(b, rc) ==
    LET l == MarkPopulated(Taken(Lists, b), b)
    IN  /\ state = "ACTIVE"
        /\ b \in rx_posted
        /\ arrived < MaxMessages
        /\ arrived' = arrived + 1
        /\ chunk' = [chunk EXCEPT ![b] = arrived + 1]
        /\ ingress_buf_pop' = Append(ingress_buf_pop, b)
        /\ ingress_flags' = PostLater(Notify(ingress_flags), l, rc)
        /\ pipe_in' = "IDLE"
        /\ SetLists(Posted(l, rc))
        /\ UNCHANGED <<delivered, app_held, sharedVars>>

(* An RX completion with a keepalive packet: the buffer is freed, a post    *)
(* that was put off is made up for, and the handler posts one more.         *)
RxKeepalive(b, rc) ==
    LET freed == MarkFree(Taken(Lists, b), b)
        late  == "POSTLATER" \in ingress_flags
        l     == IF late THEN Posted(freed, rc) ELSE freed
    IN  /\ state = "ACTIVE"
        /\ b \in rx_posted
        /\ ingress_flags' = PostLater(ingress_flags \ {"POSTLATER"}, l, rc)
        /\ SetLists(Posted(l, rc))
        /\ UNCHANGED <<ingress_buf_pop, pipe_in, chunk, arrived, delivered,
                       app_held, sharedVars>>

(* nn_sofi_recv: nn_sofi_ingress_fetch hands the first message to nanomsg,  *)
(* frees its buffer, makes up for a post put off (ignoring its result),     *)
(* tells nanomsg of the next message if one came while it was busy, and     *)
(* retries a delayed flush.                                                 *)
FetchKeepsBusy(flags) == flags \ {"POSTLATER", "NNLATER"}

FetchFlags(flags) ==
    LET posted == flags \ {"POSTLATER"}
    IN  IF "NNLATER" \in posted THEN posted \ {"NNLATER"} ELSE posted \ {"NNBUSY"}

Fetch(rc) ==
    LET b     == Head(ingress_buf_pop)
        freed == MarkFree(Lists, b)
        l     == IF "POSTLATER" \in ingress_flags THEN Posted(freed, rc) ELSE freed
        flags == FetchFlags(ingress_flags)
    IN  /\ pipe_in = "IDLE"
        /\ ingress_buf_pop # <<>>
        /\ delivered' = chunk[b]
        /\ app_held' = app_held \cup {b}
        /\ pipe_in' = IF "NNLATER" \in ingress_flags THEN "IDLE" ELSE "ASYNC"
        /\ IF "FLUSH" \in flags
           THEN Flush(l, Rest, flags)
           ELSE /\ SetLists(l)
                /\ ingress_buf_pop' = Rest
                /\ ingress_flags' = flags
        /\ UNCHANGED <<chunk, arrived, sharedVars>>

(* The application frees a message it received with NN_MSG.                 *)
AppFree(b) ==
    /\ b \in app_held
    /\ app_held' = app_held \ {b}
    /\ UNCHANGED <<listVars, ingress_buf_pop, ingress_flags, pipe_in, chunk,
                   arrived, delivered, sharedVars>>

(* An RX error while ACTIVE is critical.                                    *)
RxError(b) ==
    /\ state = "ACTIVE"
    /\ b \in rx_posted
    /\ StopFlush(Taken(Lists, b), ingress_buf_pop, ingress_flags)
    /\ error' = TRUE
    /\ UNCHANGED <<pipe_in, chunk, arrived, delivered, app_held>>

(* An RX completion or RX error while CLOSING: discarded.  A message        *)
(* completing now is still written into the buffer.                         *)
RxDiscarded(b) ==
    /\ state = "CLOSING"
    /\ b \in rx_posted
    /\ rx_posted' = rx_posted \ {b}
    /\ UNCHANGED <<ingress_buf_free, ingress_buf_busy, ingress_buf_pop, ingress_flags,
                   pipe_in, chunk, arrived, delivered, app_held, sharedVars>>

(* nn_sofi_stop, or nn_sofi_critical_error for another cause.               *)
Stop(failed) ==
    /\ state \in {"CONNECTING", "ACTIVE"}
    /\ StopFlush(Lists, ingress_buf_pop, ingress_flags)
    /\ error' = failed
    /\ UNCHANGED <<pipe_in, chunk, arrived, delivered, app_held>>

Next ==
    \/ \E rc \in PostResults : Connected(rc)
    \/ \E b \in Buf, rc \in PostResults : RxMessage(b, rc)
    \/ \E b \in Buf, rc \in PostResults : RxKeepalive(b, rc)
    \/ \E rc \in PostResults : Fetch(rc)
    \/ \E b \in Buf : AppFree(b)
    \/ \E b \in Buf : RxError(b)
    \/ \E b \in Buf : RxDiscarded(b)
    \/ \E failed \in BOOLEAN : Stop(failed)

Spec == Init /\ [][Next]_vars

-----------------------------------------------------------------------------
(* NNBUSY and the pipe tell the same story, and a pipe that announces a     *)
(* message has one: nn_pipebase_received asserts the first, and nn_pipe_-   *)
(* recv treats the -EAGAIN of an empty list as fatal (sofi.c:930-938).      *)
AnnouncedMessageExists ==
    /\ "NNBUSY" \in ingress_flags <=> pipe_in = "IDLE"
    /\ "NNBUSY" \in ingress_flags => ingress_buf_pop # <<>>
    /\ "NNLATER" \in ingress_flags => Len(ingress_buf_pop) >= 2

(* A buffer is on one list at a time, and while the endpoint is active on   *)
(* exactly one, with the busy list what libfabric holds.                    *)
EachBufferOnce ==
    /\ ingress_buf_free \cap Populated = {}
    /\ ingress_buf_busy \cap (ingress_buf_free \cup Populated) = {}
    /\ \A i, j \in DOMAIN ingress_buf_pop : ingress_buf_pop[i] = ingress_buf_pop[j] => i = j
    /\ ingress_buf_free \cup ingress_buf_busy \cup Populated = Buf
    /\ state = "ACTIVE" => rx_posted = ingress_buf_busy

(* The endpoint never goes deaf for want of a buffer: when none is free, a  *)
(* receive is posted, or a post is owed and nanomsg was told of a message   *)
(* whose fetch makes up for it.                                             *)
NeverDeaf ==
    state = "ACTIVE" /\ ingress_buf_free = {} =>
        \/ ingress_buf_busy # {}
        \/ "POSTLATER" \in ingress_flags /\ "NNBUSY" \in ingress_flags

(* libfabric never writes into a buffer whose message is not fetched yet.   *)
QueuedMessagesSafe == rx_posted \cap Populated = {}

(* Once the endpoint is closing and nanomsg has no message left to fetch,   *)
(* nothing is left on the lists: the delayed flush is never forgotten.      *)
DelayedFlushDone == state = "CLOSING" /\ pipe_in # "IDLE" => ingress_empty

(* Every message that arrives is announced and fetched while the endpoint   *)
(* stays active (true of a queue of two buffers only).                      *)
EveryMessageFetched ==
    \A m \in 1 .. MaxMessages : arrived >= m ~> (delivered >= m \/ state = "CLOSING")

(* "If nanomsg is busy, try later" (sofi.c:911): a populated buffer is      *)
(* announced, now or after the fetches under way.  The code keeps one bit   *)
(* for any number of messages that came while nanomsg was busy.             *)
QueuedMessageAnnounced == ingress_buf_pop # <<>> => "NNBUSY" \in ingress_flags

-----------------------------------------------------------------------------
(* What the peer is promised: FifoChannel, with the populated buffers as    *)
(* its queue.                                                               *)
Channel == INSTANCE FifoChannel WITH
    open    <- state # "CLOSING",
    waiting <- [i \in DOMAIN ingress_buf_pop |-> chunk[ingress_buf_pop[i]]],
    sent    <- arrived,
    last    <- delivered
ImplementsChannel == Channel!Spec
=============================================================================
