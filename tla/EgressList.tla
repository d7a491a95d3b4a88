----------------------------- MODULE EgressList -----------------------------
(***************************************************************************)
(* The egress contexts as sofi.c keeps them: a doubly linked list with a   *)
(* head and a tail pointer, every assignment of the code in its order.     *)
(* A context is an index in self->egress_contexts, NULL is 0.              *)
(***************************************************************************)
EXTENDS Integers

CONSTANT rx_queue   \* contexts linked by nn_sofi_init
ASSUME ListAssumption == rx_queue \in Nat /\ rx_queue >= 2

VARIABLES
    next, prev,         \* the link fields of struct nn_sofi_out_ctx
    egress_ctx_head,
    egress_ctx_tail,
    mr_handle           \* the contexts whose mr_handle is not NULL

vars == <<next, prev, egress_ctx_head, egress_ctx_tail, mr_handle>>

Ctx == 1 .. rx_queue
NULL == 0

(* The array is zeroed, then each context is linked to its neighbours.      *)
Init ==
    /\ next = [c \in Ctx |-> IF c < rx_queue THEN c + 1 ELSE NULL]
    /\ prev = [c \in Ctx |-> c - 1]
    /\ egress_ctx_head = 1
    /\ egress_ctx_tail = rx_queue
    /\ mr_handle = {}

(* nn_sofi_egress_mark_busy on the head: appended after the tail first,     *)
(* then unlinked from the head, so with one context it would link to itself *)
MarkBusyKeepsNext(ctx) ==
    LET next1 == [next EXCEPT ![egress_ctx_tail] = ctx]
    IN  /\ prev' = [prev EXCEPT ![ctx] = egress_ctx_tail, ![next1[ctx]] = NULL]
        /\ next' = next1
        /\ egress_ctx_head' = next1[ctx]
        /\ egress_ctx_tail' = ctx

MarkBusy(ctx) ==
    LET next1 == [next EXCEPT ![egress_ctx_tail] = ctx]
    IN  /\ prev' = [prev EXCEPT ![ctx] = egress_ctx_tail, ![next1[ctx]] = NULL]
        /\ next' = [next1 EXCEPT ![ctx] = NULL]
        /\ egress_ctx_head' = next1[ctx]
        /\ egress_ctx_tail' = ctx

(* The three branches of nn_sofi_egress_mark_free.                          *)
MarkFreeTail(ctx) ==
    /\ ctx = egress_ctx_tail
    /\ egress_ctx_tail' = prev[ctx]
    /\ next' = [next EXCEPT ![prev[ctx]] = NULL, ![ctx] = egress_ctx_head]
    /\ prev' = [prev EXCEPT ![ctx] = NULL, ![egress_ctx_head] = ctx]
    /\ egress_ctx_head' = ctx

MarkFreeHead(ctx) ==
    /\ ctx # egress_ctx_tail
    /\ ctx = egress_ctx_head
    /\ UNCHANGED <<next, prev, egress_ctx_head, egress_ctx_tail>>

MarkFreeMidOneWay(ctx) ==
    /\ ctx \notin {egress_ctx_head, egress_ctx_tail}
    /\ next' = [next EXCEPT ![prev[ctx]] = next[ctx], ![ctx] = egress_ctx_head]
    /\ prev' = [prev EXCEPT ![egress_ctx_head] = ctx, ![ctx] = NULL]
    /\ egress_ctx_head' = ctx
    /\ UNCHANGED egress_ctx_tail

MarkFreeMid(ctx) ==
    /\ ctx \notin {egress_ctx_head, egress_ctx_tail}
    /\ next' = [next EXCEPT ![prev[ctx]] = next[ctx], ![ctx] = egress_ctx_head]
    /\ prev' = [prev EXCEPT ![next[ctx]] = prev[ctx],
                            ![egress_ctx_head] = ctx, ![ctx] = NULL]
    /\ egress_ctx_head' = ctx
    /\ UNCHANGED egress_ctx_tail

(* get_context, then the message is described, sent and the head marked busy*)
PostContext ==
    /\ egress_ctx_head \notin mr_handle
    /\ mr_handle' = mr_handle \cup {egress_ctx_head}
    /\ MarkBusy(egress_ctx_head)

ReleaseContext(ctx) ==
    /\ mr_handle' = mr_handle \ {ctx}
    /\ \/ MarkFreeTail(ctx)
       \/ MarkFreeHead(ctx)
       \/ MarkFreeMid(ctx)

(* nn_sofi_egress_flush: the contexts reached from the head along next      *)
(* while mr_handle is not NULL.                                             *)
FollowNext ==
    LET at[i \in Ctx] == IF i = 1 THEN egress_ctx_head
                         ELSE IF at[i - 1] = NULL THEN NULL ELSE next[at[i - 1]]
    IN  at

FlushContexts ==
    /\ mr_handle' = mr_handle \
           {FollowNext[i] : i \in {k \in Ctx : \A j \in 1 .. k : FollowNext[j] \in mr_handle}}
    /\ UNCHANGED <<next, prev, egress_ctx_head, egress_ctx_tail>>

Next ==
    \/ PostContext
    \/ \E ctx \in mr_handle : ReleaseContext(ctx)
    \/ FlushContexts

Spec == Init /\ [][Next]_vars

(* The back links mirror the forward links, and the two ends are the only   *)
(* contexts with a NULL link: what MarkFreeMid relies on when it unlinks a  *)
(* context through prev (sofi.c:256-259).  Head and tail are never NULL: the *)
(* code dereferences both without a check (sofi.c:208-270).                 *)
LinksAgree ==
    /\ {egress_ctx_head, egress_ctx_tail} \subseteq Ctx
    /\ prev[egress_ctx_head] = NULL
    /\ next[egress_ctx_tail] = NULL
    /\ \A c \in Ctx : next[c] # NULL => prev[next[c]] = c
    /\ \A c \in Ctx : prev[c] # NULL => next[prev[c]] = c

(* Seen from the head along next, the pointers are the sequence EgressRing  *)
(* works on, and every pointer operation is the operation of that name on   *)
(* the sequence: no context is lost from the list or visited twice.         *)
Ring == INSTANCE EgressRing WITH egress_ring <- FollowNext
ImplementsRing == Ring!RingSpec
=============================================================================
