----------------------------- MODULE EgressRing -----------------------------
(***************************************************************************)
(* The list of egress contexts of struct nn_sofi (sofi.c), seen as a       *)
(* sequence: egress_ring[1] is the context egress_ctx_head points at,      *)
(* egress_ring[rx_queue] the one egress_ctx_tail points at, and following  *)
(* the next pointers from the head visits egress_ring in order.            *)
(* EgressList models the same operations on the pointers themselves and    *)
(* implements this module.                                                 *)
(*                                                                         *)
(* The code keeps no busy list and no free list.  A context is in use when *)
(* its mr_handle is not NULL, and get_context looks at the head alone: it  *)
(* is right only as long as every free context precedes every used one.    *)
(***************************************************************************)
EXTENDS Integers

CONSTANT rx_queue   \* the init loop links rx_queue contexts, not tx_queue

(* ofi.c accepts a receive queue of 2 or more; mark_free dereferences NULL  *)
(* on a list of one context.                                                *)
ASSUME RingAssumption == rx_queue \in Nat /\ rx_queue >= 2

VARIABLES
    egress_ring,    \* position in the list -> context
    mr_handle       \* the contexts whose mr_handle is not NULL

ringVars == <<egress_ring, mr_handle>>

Ctx == 1 .. rx_queue        \* indices in self->egress_contexts
Pos == 1 .. rx_queue        \* positions in the list

(* Every context is on the list, once.                                      *)
IsList(ring) ==
    /\ ring \in [Pos -> Ctx]
    /\ \A i, j \in Pos : ring[i] = ring[j] => i = j
    /\ \A c \in Ctx : \E i \in Pos : ring[i] = c

RingTypeOK == IsList(egress_ring) /\ mr_handle \subseteq Ctx

RingInit ==
    /\ egress_ring = [i \in Pos |-> i]
    /\ mr_handle = {}

egress_ctx_head == egress_ring[1]

(* nn_sofi_egress_get_context returns the head, or -EAGAIN if it is in use. *)
HasFreeContext == egress_ctx_head \notin mr_handle

(* nn_sofi_egress_mark_busy: the head goes to the tail.                     *)
MarkBusy(ring) ==
    [i \in Pos |-> IF i = rx_queue THEN ring[1] ELSE ring[i + 1]]

(* nn_sofi_egress_mark_free: context c goes to the head, from the tail, the *)
(* middle, or the head, where it stays.                                     *)
MarkFree(ring, c) ==
    LET at == CHOOSE i \in Pos : ring[i] = c
    IN  [i \in Pos |-> IF i = 1 THEN c ELSE IF i <= at THEN ring[i - 1] ELSE ring[i]]

(* nn_sofi_egress_flush walks from the head and stops at the first context  *)
(* that is not in use: what it frees is the busy prefix of the list.        *)
FlushedBy(ring, busy) ==
    {ring[i] : i \in {k \in Pos : \A j \in 1 .. k : ring[j] \in busy}}

(* The head is taken, registered with the memory-region manager and sent.   *)
PostContext ==
    /\ HasFreeContext
    /\ mr_handle' = mr_handle \cup {egress_ctx_head}
    /\ egress_ring' = MarkBusy(egress_ring)

(* nn_sofi_egress_free_context and nn_sofi_egress_mark_free.                *)
ReleaseContext(c) ==
    /\ mr_handle' = mr_handle \ {c}
    /\ egress_ring' = MarkFree(egress_ring, c)

FlushContexts ==
    /\ mr_handle' = mr_handle \ FlushedBy(egress_ring, mr_handle)
    /\ UNCHANGED egress_ring

(* The list alone, driven in every order the operations can come in: the    *)
(* specification EgressList implements.                                     *)
RingNext ==
    \/ PostContext
    \/ \E c \in mr_handle : ReleaseContext(c)
    \/ FlushContexts

RingSpec == RingInit /\ [][RingNext]_ringVars

(* Contexts in use form a suffix of the list, so the head alone tells       *)
(* nn_sofi_egress_get_context whether any context is free (sofi.c:191-202). *)
BusySuffix ==
    \A i, j \in Pos : i < j /\ egress_ring[i] \in mr_handle => egress_ring[j] \in mr_handle
=============================================================================
