------------------------------ MODULE OfiwPool ------------------------------
(***************************************************************************)
(* The poller thread of a worker pool (ofiw.c, the build without           *)
(* OFI_USE_WAITSET, which is the one ofi.h selects) and the one other      *)
(* thread that can be inside the nanomsg context: every caller of          *)
(* nn_ofiw_* runs in the context of the socket that owns the pool, so      *)
(* callers exclude each other and only the poller runs beside them.        *)
(*                                                                         *)
(* The three event descriptors are Booleans: waiting is a guard, and       *)
(* nn_efd_unsignal drains whatever was signalled.  Two accesses to shared  *)
(* memory are two steps wherever the other thread can tell.                *)
(***************************************************************************)
EXTENDS Integers

CONSTANTS
    NumWorkers,   \* bound: workers of the pool that exist at the same time
    Batches,      \* bound: how many events one fi_cq_read may return
    Restarts      \* may a stopped worker be started again (bofi does, a sofi does not)

ASSUME PoolAssumption ==
    /\ NumWorkers \in Nat \ {0}
    /\ Batches \subseteq Nat \ {0}
    /\ Restarts \in BOOLEAN

Workers == 1 .. NumWorkers

VARIABLES
    pc, cur, batch,                 \* the poller: where it is, `worker`, events not fed yet
    caller, target,                 \* the other thread: where it is, the worker it stops
    ctx,                            \* who is inside the nanomsg context
    lock_state, lock_safe, lock_mutex, efd_lock_req, efd_lock_ack,
    workers, active, efd_sync,      \* the list, and the fields of each worker
    stops,                          \* history: workers stopped since they were created
    quiesced,                       \* history: ... by the handshake, and not started since
    altered,                        \* history: a handler changed the lists in this pass
    misread                         \* history: the other thread found lock_safe set

lockVars   == <<lock_state, lock_mutex, efd_lock_req, efd_lock_ack>>
workerVars == <<workers, active, efd_sync, stops, quiesced>>
pollVars   == <<pc, cur, batch, altered>>
callVars   == <<caller, target, misread>>
vars == <<pc, cur, batch, altered, caller, target, misread, ctx, lock_state,
          lock_safe, lock_mutex, efd_lock_req, efd_lock_ack, workers, active,
          efd_sync, stops, quiesced>>

Init ==
    /\ pc = "top" /\ cur = 0 /\ batch = 0 /\ altered = FALSE
    /\ caller = "out" /\ target = 0 /\ misread = FALSE /\ ctx = "none"
    /\ lock_state = FALSE /\ lock_safe = FALSE /\ lock_mutex = FALSE
    /\ efd_lock_req = FALSE /\ efd_lock_ack = FALSE
    /\ workers = {} /\ active = [w \in Workers |-> 0]
    /\ efd_sync = [w \in Workers |-> FALSE]
    /\ stops = {} /\ quiesced = {}

(***************************************************************************)
(* What the operations do to the workers, whoever calls them.              *)
(***************************************************************************)

\* nn_ofiw_pool_getworker: a new worker at the end of the list.
NewWorker(w) ==
    /\ w \notin workers
    /\ workers' = workers \cup {w}
    /\ active' = [active EXCEPT ![w] = 0]
    /\ efd_sync' = [efd_sync EXCEPT ![w] = FALSE]
    /\ stops' = stops \ {w} /\ quiesced' = quiesced \ {w}

\* nn_ofiw_term: the worker leaves the list and is freed.
DropWorker(w) ==
    /\ w \in workers
    /\ workers' = workers \ {w} /\ stops' = stops \ {w} /\ quiesced' = quiesced \ {w}
    /\ UNCHANGED <<active, efd_sync>>

\* nn_ofiw_add_eq, add_cq and remove: the items of a worker change.
ChangeItems(w) == w \in workers /\ UNCHANGED workerVars

\* nn_ofiw_start
MarkStarted(w) ==
    /\ w \in workers /\ active[w] = 0 /\ (Restarts \/ w \notin stops)
    /\ active' = [active EXCEPT ![w] = 2]
    /\ quiesced' = quiesced \ {w}
    /\ UNCHANGED <<workers, efd_sync, stops>>

(***************************************************************************)
(* The poller thread.                                                      *)
(***************************************************************************)

\* self->active of the pool is 0.
terminating == caller \in {"terminating", "terminated"}

\* The condition of the loop: the thread ends.
PollerExit ==
    /\ pc = "top" /\ terminating
    /\ pc' = "exited"
    /\ UNCHANGED <<cur, batch, altered, callVars, ctx, lock_safe, lockVars, workerVars>>

BeginPass == pc' = "scan" /\ cur' = 0 /\ altered' = FALSE

AckWithoutParking ==
    /\ pc = "top" /\ BeginPass
    /\ efd_lock_ack' = (efd_lock_ack \/ lock_state)
    /\ UNCHANGED <<batch, callVars, ctx, lock_safe, lock_state, lock_mutex,
                   efd_lock_req, workerVars>>

IgnoreLockRequest ==
    /\ pc = "top" /\ BeginPass
    /\ UNCHANGED <<batch, callVars, ctx, lock_safe, lockVars, workerVars>>

\* The top of the loop.  Reading lock_state and signalling the
\* acknowledgement are one step: the caller only waits for the signal.
HandleBlockRequest ==
    /\ pc = "top" /\ ~terminating
    /\ \/ /\ lock_state
          /\ efd_lock_ack' = TRUE
          /\ pc' = "parked"
          /\ UNCHANGED <<cur, altered>>
       \/ /\ ~lock_state
          /\ BeginPass
          /\ UNCHANGED efd_lock_ack
    /\ UNCHANGED <<batch, callVars, ctx, lock_safe, lock_state, lock_mutex,
                   efd_lock_req, workerVars>>

Unpark ==
    /\ pc = "parked" /\ efd_lock_req
    /\ efd_lock_req' = FALSE
    /\ BeginPass
    /\ UNCHANGED <<batch, callVars, ctx, lock_safe, lock_state, lock_mutex,
                   efd_lock_ack, workerVars>>

\* The step of the loop over the workers, up to and with the read of active.
NextWorker ==
    LET rest == {w \in workers : w > cur}
    IN  /\ pc = "scan"
        /\ \/ rest = {} /\ pc' = "top" /\ UNCHANGED cur
           \/ \E w \in rest :
                 /\ \A v \in rest : w <= v
                 /\ cur' = w
                 /\ pc' = IF active[w] = 2 THEN "polling"
                          ELSE IF active[w] = 1 THEN "syncing" ELSE "scan"
        /\ UNCHANGED <<batch, altered, callVars, ctx, lock_safe, lockVars, workerVars>>

SignalSync ==
    /\ pc = "syncing"
    /\ efd_sync' = [efd_sync EXCEPT ![cur] = TRUE]
    /\ pc' = "scan"
    /\ UNCHANGED <<cur, batch, altered, callVars, ctx, lock_safe, lockVars,
                   workers, active, stops, quiesced>>

\* fi_cq_read / fi_eq_read of the items: nothing, or a batch of one item.
Poll ==
    /\ pc = "polling"
    /\ \/ pc' = "scan" /\ UNCHANGED batch
       \/ \E n \in Batches : pc' = "got" /\ batch' = n
    /\ UNCHANGED <<cur, altered, callVars, ctx, lock_safe, lockVars, workerVars>>

SetSafe ==
    /\ pc = "got"
    /\ lock_safe' = TRUE /\ pc' = "entering"
    /\ UNCHANGED <<cur, batch, altered, callVars, ctx, lockVars, workerVars>>

PollerEnter ==
    /\ pc = "entering" /\ ctx = "none"
    /\ ctx' = "poller" /\ pc' = "feeding"
    /\ UNCHANGED <<cur, batch, altered, callVars, lock_safe, lockVars, workerVars>>

Feed ==
    /\ pc = "feeding" /\ batch > 0
    /\ batch' = batch - 1
    /\ UNCHANGED <<pc, cur, altered, callVars, ctx, lock_safe, lockVars, workerVars>>

\* Calls the handlers make from the poller thread.  A worker is only freed
\* by an event that nn_ctx_leave delivers, or is not the one being fed.
HandlerStart(w) ==
    /\ pc = "feeding" /\ MarkStarted(w)
    /\ UNCHANGED <<pollVars, callVars, ctx, lock_safe, lockVars>>

HandlerStop(w) ==
    /\ pc = "feeding" /\ w \in workers /\ active[w] = 2 /\ lock_safe
    /\ active' = [active EXCEPT ![w] = 0]
    /\ stops' = stops \cup {w}
    /\ altered' = TRUE
    /\ UNCHANGED <<pc, cur, batch, callVars, ctx, lock_safe, lockVars, workers,
                   efd_sync, quiesced>>

HandlerModify(w) ==
    /\ pc = "feeding" /\ lock_safe
    /\ NewWorker(w) \/ ChangeItems(w) \/ ((batch = 0 \/ w # cur) /\ DropWorker(w))
    /\ altered' = TRUE
    /\ UNCHANGED <<pc, cur, batch, callVars, ctx, lock_safe, lockVars>>

PollerLeave ==
    /\ pc = "feeding" /\ batch = 0
    /\ ctx' = "none" /\ pc' = "leaving"
    /\ UNCHANGED <<cur, batch, altered, callVars, lock_safe, lockVars, workerVars>>

ContinueInner ==
    /\ pc = "leaving"
    /\ lock_safe' = FALSE /\ pc' = "polling"
    /\ UNCHANGED <<cur, batch, altered, callVars, ctx, lockVars, workerVars>>

\* lock_safe = 0 and `goto continue_outer`.
ContinueOuter ==
    /\ pc = "leaving"
    /\ lock_safe' = FALSE /\ pc' = "top"
    /\ UNCHANGED <<cur, batch, altered, callVars, ctx, lockVars, workerVars>>

(***************************************************************************)
(* The other thread.                                                       *)
(***************************************************************************)

CallerEnter ==
    /\ caller = "out" /\ ctx = "none"
    /\ ctx' = "caller" /\ caller' = "in"
    /\ UNCHANGED <<pollVars, target, misread, lock_safe, lockVars, workerVars>>

CallerLeave ==
    /\ caller = "in"
    /\ ctx' = "none" /\ caller' = "out"
    /\ UNCHANGED <<pollVars, target, misread, lock_safe, lockVars, workerVars>>

CallerStart(w) ==
    /\ caller = "in" /\ MarkStarted(w)
    /\ UNCHANGED <<pollVars, callVars, ctx, lock_safe, lockVars>>

\* nn_ofiw_stop, one action per access.
StopCheck(w) ==
    /\ caller = "in" /\ w \in workers /\ active[w] = 2
    /\ target' = w
    /\ caller' = IF lock_safe THEN "unsynced" ELSE "requesting"
    /\ misread' = (misread \/ lock_safe)
    /\ UNCHANGED <<pollVars, ctx, lock_safe, lockVars, workerVars>>

StopUnsynced ==
    /\ caller = "unsynced"
    /\ active' = [active EXCEPT ![target] = 0]
    /\ stops' = stops \cup {target} /\ caller' = "in"
    /\ UNCHANGED <<pollVars, target, misread, ctx, lock_safe, lockVars, workers, efd_sync, quiesced>>

StopRequest ==
    /\ caller = "requesting"
    /\ active' = [active EXCEPT ![target] = 1]
    /\ caller' = "wait_sync"
    /\ UNCHANGED <<pollVars, target, misread, ctx, lock_safe, lockVars, workers, efd_sync,
                   stops, quiesced>>

StopWithoutWaiting ==
    /\ caller = "wait_sync"
    /\ active' = [active EXCEPT ![target] = 0]
    /\ caller' = "synced"
    /\ UNCHANGED <<pollVars, target, misread, ctx, lock_safe, lockVars, workers, efd_sync,
                   stops, quiesced>>

StopSynced ==
    /\ caller = "wait_sync" /\ efd_sync[target]
    /\ active' = [active EXCEPT ![target] = 0]
    /\ caller' = "synced"
    /\ UNCHANGED <<pollVars, target, misread, ctx, lock_safe, lockVars, workers, efd_sync,
                   stops, quiesced>>

StopDone ==
    /\ caller = "synced"
    /\ efd_sync' = [efd_sync EXCEPT ![target] = FALSE]
    /\ stops' = stops \cup {target} /\ quiesced' = quiesced \cup {target}
    /\ caller' = "in"
    /\ UNCHANGED <<pollVars, target, misread, ctx, lock_safe, lockVars, workers, active>>

\* nn_ofiw_lock_thread
LockCheck ==
    /\ caller = "in"
    /\ caller' = IF lock_safe THEN "holding" ELSE "locking"
    /\ misread' = (misread \/ lock_safe)
    /\ UNCHANGED <<pollVars, target, ctx, lock_safe, lockVars, workerVars>>

LockRequest ==
    /\ caller = "locking" /\ ~lock_mutex
    /\ lock_mutex' = TRUE /\ lock_state' = TRUE
    /\ caller' = "wait_ack"
    /\ UNCHANGED <<pollVars, target, misread, ctx, lock_safe, efd_lock_req, efd_lock_ack, workerVars>>

LockGranted ==
    /\ caller = "wait_ack" /\ efd_lock_ack
    /\ efd_lock_ack' = FALSE
    /\ caller' = "holding"
    /\ UNCHANGED <<pollVars, target, misread, ctx, lock_safe, lock_state, lock_mutex,
                   efd_lock_req, workerVars>>

\* What getworker, term, add_eq, add_cq and remove do between the two calls.
Modify(w) ==
    /\ caller = "holding"
    /\ NewWorker(w) \/ ChangeItems(w) \/ DropWorker(w)
    /\ caller' = "modified"
    /\ UNCHANGED <<pollVars, target, misread, ctx, lock_safe, lockVars>>

\* nn_ofiw_unlock_thread
UnlockCheck ==
    /\ caller = "modified"
    /\ caller' = IF lock_safe THEN "in" ELSE "unlocking"
    /\ misread' = (misread \/ lock_safe)
    /\ UNCHANGED <<pollVars, target, ctx, lock_safe, lockVars, workerVars>>

UnlockSignal ==
    /\ caller = "unlocking"
    /\ efd_lock_req' = TRUE
    /\ caller' = "releasing"
    /\ UNCHANGED <<pollVars, target, misread, ctx, lock_safe, lock_state, lock_mutex,
                   efd_lock_ack, workerVars>>

KeepMutex ==
    /\ caller = "releasing"
    /\ lock_state' = FALSE
    /\ caller' = "in"
    /\ UNCHANGED <<pollVars, target, misread, ctx, lock_safe, lock_mutex, efd_lock_req,
                   efd_lock_ack, workerVars>>

UnlockRelease ==
    /\ caller = "releasing"
    /\ lock_state' = FALSE /\ lock_mutex' = FALSE
    /\ caller' = "in"
    /\ UNCHANGED <<pollVars, target, misread, ctx, lock_safe, efd_lock_req, efd_lock_ack, workerVars>>

\* nn_ofiw_pool_term, outside any context, when nanomsg has destroyed all
\* endpoints: the workers left, if any, are not running.
PoolTerm ==
    /\ caller = "out" /\ \A w \in workers : active[w] = 0
    /\ caller' = "terminating"
    /\ UNCHANGED <<pollVars, target, misread, ctx, lock_safe, lockVars, workerVars>>

\* nn_thread_term joins the poller.
PoolJoin ==
    /\ caller = "terminating" /\ pc = "exited"
    /\ caller' = "terminated"
    /\ UNCHANGED <<pollVars, target, misread, ctx, lock_safe, lockVars, workerVars>>

PollerStep ==
    \/ PollerExit \/ HandleBlockRequest \/ Unpark \/ NextWorker \/ SignalSync \/ Poll \/ SetSafe
    \/ PollerEnter \/ Feed \/ PollerLeave \/ ContinueOuter

HandlerCall(w) == HandlerStart(w) \/ HandlerStop(w) \/ HandlerModify(w)

\* The caller inside an operation it has begun.
CallerStep ==
    \/ StopUnsynced \/ StopRequest \/ StopSynced \/ StopDone
    \/ LockRequest \/ LockGranted \/ (\E w \in Workers : Modify(w))
    \/ UnlockCheck \/ UnlockSignal \/ UnlockRelease \/ PoolJoin

CallerBegin ==
    \/ CallerEnter \/ CallerLeave \/ LockCheck \/ PoolTerm
    \/ \E w \in Workers : CallerStart(w) \/ StopCheck(w)

Next ==
    \/ PollerStep \/ CallerStep \/ CallerBegin
    \/ \E w \in Workers : HandlerCall(w)

Spec == Init /\ [][Next]_vars

\* Both threads are scheduled; which operation the caller begins, and when,
\* is its own business.
FairSpec == Spec /\ WF_vars(PollerStep) /\ WF_vars(CallerStep)

(***************************************************************************)
(* Properties.                                                             *)
(***************************************************************************)

\* The poller holds pointers into the lists of workers and items.
Traversing == pc \in {"scan", "syncing", "polling", "got"}

\* The variables have the values the fields of the structures may have; a
\* batch is never fed beyond its end.
TypeOK ==
    /\ pc \in {"top", "parked", "scan", "syncing", "polling", "got", "entering",
               "feeding", "leaving", "exited"}
    /\ caller \in {"out", "in", "unsynced", "requesting", "wait_sync", "synced",
                   "locking", "wait_ack", "holding", "modified", "unlocking", "releasing",
                   "terminating", "terminated"}
    /\ cur \in 0 .. NumWorkers /\ target \in 0 .. NumWorkers /\ batch \in Nat
    /\ ctx \in {"none", "poller", "caller"}
    /\ lock_state \in BOOLEAN /\ lock_safe \in BOOLEAN /\ lock_mutex \in BOOLEAN
    /\ efd_lock_req \in BOOLEAN /\ efd_lock_ack \in BOOLEAN
    /\ altered \in BOOLEAN /\ misread \in BOOLEAN
    /\ workers \subseteq Workers /\ stops \subseteq Workers /\ quiesced \subseteq Workers
    /\ active \in [Workers -> 0 .. 2] /\ efd_sync \in [Workers -> BOOLEAN]

\* Between nn_ofiw_lock_thread and nn_ofiw_unlock_thread the poller is not
\* walking the lists that the caller changes, unless the caller took the
\* poller's lock_safe for its own.
ExclusiveLists == ~misread /\ caller \in {"holding", "modified"} => ~Traversing

\* nn_ofiw_lock_thread: "Wait until mutex thread is idle and place a block
\* request" (ofiw.c:78).  In the code a lock_safe of the poller's lets another
\* thread through without waiting.
LockExcludes == caller \in {"holding", "modified"} => ~Traversing

\* After nn_ofiw_stop has gone through its handshake the poller is not, and
\* until the worker is started again will not be, at work on that worker.
\* With a lock_safe misread before, the poller may be walking a list that was
\* changed under it, and nothing is promised.
StopIsSynchronised ==
    ~misread /\ pc \in {"polling", "got", "entering", "feeding"} => cur \notin quiesced

\* The lock's mutex is unlocked only by the call that locked it, and no
\* operation leaves it locked behind, not even for nn_ofiw_pool_term.
MutexIsPaired ==
    ~misread =>
        /\ caller \in {"unlocking", "releasing"} => lock_mutex
        /\ caller \in {"out", "in", "terminating"} => ~lock_mutex

\* After a handler stopped a worker or changed the lists from the poller
\* thread, the poller begins a new pass before it follows a pointer again.
FreshIteration == altered => ~Traversing

\* A thread that waits for the poller's acknowledgement, for efd_sync or for
\* the poller's end gets it, except where the poller waits for the context
\* that thread is inside, or is parked.
WaitsEnd ==
    /\ (caller = "wait_ack") ~> (caller # "wait_ack" \/ pc = "entering")
    /\ (caller = "wait_sync") ~> (caller # "wait_sync" \/ pc \in {"entering", "parked"})
    /\ (caller = "terminating") ~> (caller = "terminated" \/ pc = "parked")

\* nn_ofiw_stop returns.
StopReturns == (caller = "wait_sync") ~> (caller = "in")
=============================================================================
