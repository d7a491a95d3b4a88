------------------------------- MODULE Egress -------------------------------
(***************************************************************************)
(* The sending half of the streaming endpoint (sofi.c): nanomsg hands over *)
(* one message at a time, each is posted to libfabric on a free context,   *)
(* and back-pressure is released as completions come in.  Included is what *)
(* nn_sofi_handler and nn_sofi_shutdown do to this half when the endpoint  *)
(* connects, is stopped or fails; the other half is Ingress and Sofi puts  *)
(* the two together.                                                       *)
(*                                                                         *)
(* Every action runs with the nanomsg context locked and is atomic.        *)
(* Messages are not told apart: what matters is the context each one has.  *)
(***************************************************************************)
EXTENDS EgressRing, FiniteSets

CONSTANT tx_queue   \* the value stageout_counter starts from

(* More contexts linked than allocated (rx_queue > tx_queue) is a write     *)
(* past the end of egress_contexts, which has no behaviour to model.        *)
ASSUME TxQueueAssumption == tx_queue \in Nat /\ tx_queue >= rx_queue

VARIABLES
    state,              \* state of the FSM: "CONNECTING", "ACTIVE", "CLOSING"
    error,              \* self->error # 0
    stageout_counter,   \* sends that may still be posted
    stageout_state,     \* "IDLE" or "STAGED"
    out_state,          \* "IDLE" or "ACTIVE"
    pipe_out,           \* outstate of the pipebase, as nanomsg keeps it
    tx_posted           \* contexts libfabric holds and has not completed

sharedVars == <<state, error>>
egressVars == <<egress_ring, mr_handle, stageout_counter, stageout_state,
                out_state, pipe_out, tx_posted>>
vars == <<egressVars, sharedVars>>

(* The list stays a list, and the counter stays within the window.          *)
TypeOK ==
    /\ RingTypeOK
    /\ state \in {"CONNECTING", "ACTIVE", "CLOSING"}
    /\ error \in BOOLEAN
    /\ stageout_counter \in 0 .. tx_queue
    /\ stageout_state \in {"IDLE", "STAGED"}
    /\ out_state \in {"IDLE", "ACTIVE"}
    /\ pipe_out \in {"DEACTIVATED", "IDLE", "ASYNC"}
    /\ tx_posted \subseteq Ctx

EgressInit ==
    /\ RingInit
    /\ stageout_counter = tx_queue
    /\ stageout_state = "IDLE"
    /\ out_state = "IDLE"
    /\ pipe_out = "DEACTIVATED"
    /\ tx_posted = {}

Init ==
    /\ EgressInit
    /\ state = "CONNECTING"
    /\ error = FALSE

egress_empty == stageout_counter = tx_queue

-----------------------------------------------------------------------------
(* nn_sofi_egress_flush, as part of the STOP action: only when closing on   *)
(* an error.  The messages and memory handles go, libfabric keeps the sends.*)
FlushOnCleanClose(ring, busy, failed) ==
    LET flushed == FlushedBy(ring, busy)
    IN  /\ egress_ring' = ring
        /\ mr_handle' = busy \ flushed
        /\ stageout_counter' = stageout_counter + Cardinality(flushed)

FlushEgress(ring, busy, failed) ==
    LET flushed == IF failed THEN FlushedBy(ring, busy) ELSE {}
    IN  /\ egress_ring' = ring
        /\ mr_handle' = busy \ flushed
        /\ stageout_counter' = stageout_counter + Cardinality(flushed)

(* nn_sofi_egress_send: post on the head context and charge one send.  The  *)
(* pipe stays open for the next message while the window is not full.       *)
SendWithoutBackPressure ==
    /\ PostContext
    /\ tx_posted' = tx_posted \cup {egress_ctx_head}
    /\ stageout_state' = "IDLE"
    /\ stageout_counter' = stageout_counter - 1
    /\ pipe_out' = IF stageout_counter >= 1 THEN "IDLE" ELSE "ASYNC"

SendStaged ==
    /\ PostContext
    /\ tx_posted' = tx_posted \cup {egress_ctx_head}
    /\ stageout_state' = "IDLE"
    /\ stageout_counter' = stageout_counter - 1
    /\ pipe_out' = IF stageout_counter > 1 THEN "IDLE" ELSE "ASYNC"

-----------------------------------------------------------------------------
(* nn_sofi_handler, CONNECTING: FI_CONNECTED.  The pipe is started before   *)
(* any message can be staged, so the staged data the handler would send now *)
(* does not exist (see NothingStagedBeforeConnected).                       *)
Connected ==
    /\ state = "CONNECTING"
    /\ state' = "ACTIVE"
    /\ out_state' = "ACTIVE"
    /\ pipe_out' = "IDLE"
    /\ UNCHANGED <<egress_ring, mr_handle, stageout_counter, stageout_state,
                   tx_posted, error>>

(* FI_CONNECTED, but the first ingress buffer cannot be posted: the pipe is *)
(* started and the error is critical.                                       *)
ConnectFails ==
    /\ state = "CONNECTING"
    /\ state' = "CLOSING"
    /\ error' = TRUE
    /\ out_state' = "ACTIVE"
    /\ pipe_out' = "IDLE"
    /\ FlushEgress(egress_ring, mr_handle, TRUE)
    /\ UNCHANGED <<stageout_state, tx_posted>>

(* nn_sofi_send while ACTIVE, and the send goes through.                    *)
Send ==
    /\ state = "ACTIVE"
    /\ pipe_out = "IDLE"
    /\ SendStaged
    /\ UNCHANGED <<out_state, sharedVars>>

(* nn_sofi_send while ACTIVE, and the post fails: get_context finds the     *)
(* head in use, or ofi_mr_describe or ofi_sendmsg returns an error, and the *)
(* context is freed again.  The error is critical: nn_fsm_stop runs the     *)
(* STOP action at once.  The message stays counted as staged.               *)
SendFails ==
    /\ state = "ACTIVE"
    /\ pipe_out = "IDLE"
    /\ stageout_state' = "STAGED"
    /\ pipe_out' = "ASYNC"
    /\ state' = "CLOSING"
    /\ error' = TRUE
    /\ FlushEgress(egress_ring, mr_handle, TRUE)
    /\ UNCHANGED <<out_state, tx_posted>>

(* nn_sofi_send while CLOSING: the message is not staged and nn_pipebase_-  *)
(* sent is not called, so nothing more is sent.                             *)
SendRegardless ==
    /\ state = "CLOSING"
    /\ pipe_out = "IDLE"
    /\ SendStaged
    /\ UNCHANGED <<out_state, sharedVars>>

SendWhileClosing ==
    /\ state = "CLOSING"
    /\ pipe_out = "IDLE"
    /\ pipe_out' = "ASYNC"
    /\ UNCHANGED <<egress_ring, mr_handle, stageout_counter, stageout_state,
                   out_state, tx_posted, sharedVars>>

(* nn_sofi_egress_handle: free the context, and nanomsg is called back only *)
(* by the completion that reopens a full window.                            *)
CompletedNeverReopens(c) ==
    /\ ReleaseContext(c)
    /\ stageout_counter' = stageout_counter + 1
    /\ UNCHANGED pipe_out

CompletedUncounted(c) ==
    /\ ReleaseContext(c)
    /\ pipe_out' = IF stageout_counter = 0 THEN "IDLE" ELSE pipe_out
    /\ UNCHANGED stageout_counter

Completed(c) ==
    /\ ReleaseContext(c)
    /\ stageout_counter' = stageout_counter + 1
    /\ pipe_out' = IF stageout_counter = 0 THEN "IDLE" ELSE pipe_out

(* A TX completion while ACTIVE, or while draining a clean close.           *)
TxCompleted(c) ==
    /\ c \in tx_posted
    /\ tx_posted' = tx_posted \ {c}
    /\ \/ state = "ACTIVE"
       \/ state = "CLOSING" /\ ~error
    /\ Completed(c)
    /\ UNCHANGED <<stageout_state, out_state, sharedVars>>

(* A TX completion or TX error while closing on an error: discarded.        *)
TxDiscarded(c) ==
    /\ state = "CLOSING" /\ error
    /\ c \in tx_posted
    /\ tx_posted' = tx_posted \ {c}
    /\ UNCHANGED <<egress_ring, mr_handle, stageout_counter, stageout_state,
                   out_state, pipe_out, sharedVars>>

(* A TX error while ACTIVE: nn_sofi_egress_handle_error frees the context,  *)
(* then the error is critical.                                              *)
TxError(c) ==
    /\ state = "ACTIVE"
    /\ c \in tx_posted
    /\ tx_posted' = tx_posted \ {c}
    /\ state' = "CLOSING"
    /\ error' = TRUE
    /\ FlushEgress(MarkFree(egress_ring, c), mr_handle \ {c}, TRUE)
    /\ UNCHANGED <<stageout_state, out_state, pipe_out>>

(* A TX error while draining a clean close: the context is freed, the       *)
(* counter is not incremented and self->error is not set.                   *)
TxErrorWhileClosing(c) ==
    /\ state = "CLOSING" /\ ~error
    /\ c \in tx_posted
    /\ tx_posted' = tx_posted \ {c}
    /\ ReleaseContext(c)
    /\ UNCHANGED <<stageout_counter, stageout_state, out_state, pipe_out, sharedVars>>

(* nn_sofi_stop, or nn_sofi_critical_error for a cause other than a send:   *)
(* the STOP action of nn_sofi_shutdown.                                     *)
Stop(failed) ==
    /\ state \in {"CONNECTING", "ACTIVE"}
    /\ state' = "CLOSING"
    /\ error' = failed
    /\ FlushEgress(egress_ring, mr_handle, failed)
    /\ UNCHANGED <<stageout_state, out_state, pipe_out, tx_posted>>

TxDone(c) ==
    \/ TxCompleted(c)
    \/ TxDiscarded(c)
    \/ TxError(c)
    \/ TxErrorWhileClosing(c)

Next ==
    \/ Connected
    \/ ConnectFails
    \/ Send
    \/ SendFails
    \/ SendWhileClosing
    \/ \E c \in Ctx : TxDone(c)
    \/ \E failed \in BOOLEAN : Stop(failed)

Spec == Init /\ [][Next]_vars

(* libfabric completes or fails every send it accepted, and the poller      *)
(* thread reads its completion queues for as long as it runs.               *)
Fairness == \A c \in Ctx : WF_vars(TxDone(c))

FairSpec == Spec /\ Fairness

-----------------------------------------------------------------------------
(* While the endpoint is ACTIVE the counter says exactly how many contexts  *)
(* are free, and it says where: the first free contexts of the list, with   *)
(* the contexts of sends in transit behind them.  Completions come in any   *)
(* order, so this is what the moves of mark_busy and mark_free maintain.    *)
CounterMatchesRing ==
    state = "ACTIVE" =>
        \A i \in Pos :
            egress_ring[i] \in mr_handle <=> i > stageout_counter - (tx_queue - rx_queue)

(* As long as no error is pending, a context is in use if and only if its   *)
(* send is in transit: no context is reused under a send (its message would *)
(* be moved away and its memory region released, sofi.c:312, 283-288) and   *)
(* none is kept after its completion.                                       *)
HeldWhileInTransit == ~error => mr_handle = tx_posted

(* Back-pressure is exact: nanomsg may hand over a message if and only if a *)
(* context is free.  An open window never fails a send with -EAGAIN, which  *)
(* nn_sofi_egress_stage makes a critical error (sofi.c:503-507), and no     *)
(* context idles behind a closed one.                                       *)
PipeOpenIffContext ==
    state = "ACTIVE" => (pipe_out = "IDLE" <=> HasFreeContext)

(* nn_pipebase_sent asserts that a send is outstanding: the completion that *)
(* reopens the window (sofi.c:414-419) must find the pipe waiting.          *)
FullWindowBlocksPipe == stageout_counter = 0 => pipe_out = "ASYNC"

(* The data staged before the connection that the handler would send at     *)
(* FI_CONNECTED (sofi.c:1726-1733) cannot exist: nothing is staged unless   *)
(* a send failed.                                                           *)
NothingStagedBeforeConnected == stageout_state = "STAGED" => state = "CLOSING" /\ error

(* After the STOP action nothing is posted any more (sofi.c:494): a context *)
(* in transit was in transit when the endpoint began to close.              *)
NoSendAfterStop ==
    [][state = "CLOSING" => /\ tx_posted' \subseteq tx_posted
                            /\ mr_handle' \subseteq mr_handle]_vars

(* A full window reopens, or the endpoint closes: the callback nn_sofi_-    *)
(* egress_handle makes on the step from 0 to 1 is never missed.             *)
BlockedPipeReopens == pipe_out = "ASYNC" ~> (pipe_out = "IDLE" \/ state = "CLOSING")

-----------------------------------------------------------------------------
(* What nanomsg is promised: SendWindow, with the contexts as its slots.    *)
Window == INSTANCE SendWindow WITH
    Slots    <- Ctx,
    phase    <- state,
    inflight <- mr_handle,
    writable <- pipe_out = "IDLE"
ImplementsWindow == Window!Spec
=============================================================================
