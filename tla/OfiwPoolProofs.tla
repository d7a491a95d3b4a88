--------------------------- MODULE OfiwPoolProofs ---------------------------
(***************************************************************************)
(* The handshakes of the poller thread, proved for any number of workers   *)
(* and any batches of events: what they promise holds as long as the other *)
(* thread never takes the lock_safe of the poller for its own (~misread).  *)
(* The stop handshake also needs that a stopped worker is not started      *)
(* again (Restarts = FALSE).                                               *)
(***************************************************************************)
EXTENDS OfiwPool, TLAPS

(***************************************************************************)
(* Types.                                                                  *)
(***************************************************************************)

ControlTypes ==
    /\ pc \in {"top", "parked", "scan", "syncing", "polling", "got", "entering",
               "feeding", "leaving", "exited"}
    /\ caller \in {"out", "in", "unsynced", "requesting", "wait_sync", "synced",
                   "locking", "wait_ack", "holding", "modified", "unlocking", "releasing",
                   "terminating", "terminated"}
    /\ cur \in Workers \cup {0} /\ batch \in Nat
    /\ ctx \in {"none", "poller", "caller"}

FlagTypes ==
    /\ lock_state \in BOOLEAN /\ lock_safe \in BOOLEAN /\ lock_mutex \in BOOLEAN
    /\ efd_lock_req \in BOOLEAN /\ efd_lock_ack \in BOOLEAN
    /\ altered \in BOOLEAN /\ misread \in BOOLEAN

\* ... where nn_ofiw_stop always names a worker.
WorkerTypes ==
    /\ target \in Workers \cup {0}
    /\ caller \in {"unsynced", "requesting", "wait_sync", "synced"} => target \in Workers
    /\ workers \subseteq Workers /\ stops \subseteq Workers /\ quiesced \subseteq Workers
    /\ active \in [Workers -> 0 .. 2] /\ efd_sync \in [Workers -> BOOLEAN]

Types == ControlTypes /\ FlagTypes /\ WorkerTypes

LEMMA TypesInit == Init => Types
<1> SUFFICES ASSUME Init PROVE Types
  OBVIOUS
<1>1. ControlTypes
  BY DEF Init, ControlTypes
<1>2. FlagTypes
  BY DEF Init, FlagTypes
<1>3. WorkerTypes
  BY DEF Init, WorkerTypes
<1>4. QED
  BY <1>1, <1>2, <1>3 DEF Types

LEMMA ControlTypesStep ==
    ASSUME Types, [Next]_vars
    PROVE  ControlTypes'
<1> USE DEF Types, ControlTypes, pollVars, callVars, lockVars, workerVars
<1>1. CASE PollerStep
  <2>1. CASE Poll \/ Feed
    BY <2>1, PoolAssumption DEF Poll, Feed
  <2>2. CASE PollerExit \/ HandleBlockRequest \/ Unpark \/ NextWorker \/ SignalSync \/ SetSafe
    BY <2>2 DEF WorkerTypes, PollerExit, HandleBlockRequest, BeginPass, Unpark, NextWorker,
          SignalSync, SetSafe
  <2>3. CASE PollerEnter \/ PollerLeave \/ ContinueOuter
    BY <2>3 DEF PollerEnter, PollerLeave, ContinueOuter
  <2>4. QED
    BY <1>1, <2>1, <2>2, <2>3 DEF PollerStep
<1>2. CASE CallerStep
  BY <1>2 DEF CallerStep, StopUnsynced, StopRequest, StopSynced, StopDone, LockRequest,
              LockGranted, Modify, UnlockCheck, UnlockSignal, UnlockRelease, PoolJoin
<1>3. CASE CallerBegin
  BY <1>3 DEF CallerBegin, CallerEnter, CallerLeave, LockCheck, PoolTerm, CallerStart, StopCheck
<1>4. CASE \E w \in Workers : HandlerCall(w)
  BY <1>4 DEF HandlerCall, HandlerStart, HandlerStop, HandlerModify
<1>5. CASE UNCHANGED vars
  BY <1>5 DEF vars
<1>6. QED
  BY <1>1, <1>2, <1>3, <1>4, <1>5 DEF Next

LEMMA FlagTypesStep ==
    ASSUME FlagTypes, [Next]_vars
    PROVE  FlagTypes'
<1> USE DEF FlagTypes, pollVars, callVars, lockVars, workerVars
<1>1. CASE PollerStep
  BY <1>1 DEF PollerStep, PollerExit, HandleBlockRequest, BeginPass, Unpark, NextWorker, SignalSync,
              Poll, SetSafe, PollerEnter, Feed, PollerLeave, ContinueOuter
<1>2. CASE CallerStep
  BY <1>2 DEF CallerStep, StopUnsynced, StopRequest, StopSynced, StopDone, LockRequest,
              LockGranted, Modify, UnlockCheck, UnlockSignal, UnlockRelease, PoolJoin
<1>3. CASE CallerBegin
  BY <1>3 DEF CallerBegin, CallerEnter, CallerLeave, LockCheck, PoolTerm, CallerStart, StopCheck
<1>4. CASE \E w \in Workers : HandlerCall(w)
  BY <1>4 DEF HandlerCall, HandlerStart, HandlerStop, HandlerModify
<1>5. CASE UNCHANGED vars
  BY <1>5 DEF vars
<1>6. QED
  BY <1>1, <1>2, <1>3, <1>4, <1>5 DEF Next

\* The operations on the workers, whoever calls them.
LEMMA WorkerOperation ==
    ASSUME WorkerTypes, NEW w \in Workers, UNCHANGED target,
           caller' \in {"unsynced", "requesting", "wait_sync", "synced"} => target \in Workers,
           NewWorker(w) \/ DropWorker(w) \/ ChangeItems(w) \/ MarkStarted(w)
    PROVE  WorkerTypes'
<1>1. CASE NewWorker(w)
  BY <1>1 DEF WorkerTypes, NewWorker
<1>2. CASE MarkStarted(w)
  BY <1>2 DEF WorkerTypes, MarkStarted
<1>3. CASE DropWorker(w) \/ ChangeItems(w)
  BY <1>3 DEF WorkerTypes, workerVars, DropWorker, ChangeItems
<1>4. QED
  BY <1>1, <1>2, <1>3

LEMMA WorkerTypesStep ==
    ASSUME WorkerTypes, [Next]_vars
    PROVE  WorkerTypes'
<1> USE DEF pollVars, callVars, lockVars, workerVars
<1>1. CASE PollerStep
  BY <1>1 DEF WorkerTypes, PollerStep, PollerExit, HandleBlockRequest, BeginPass, Unpark, NextWorker,
              SignalSync, Poll, SetSafe, PollerEnter, Feed, PollerLeave, ContinueOuter
<1>2. CASE CallerStep
  <2>1. ASSUME NEW w \in Workers, Modify(w)
        PROVE  WorkerTypes'
    BY <2>1, WorkerOperation DEF Modify
  <2>2. CASE StopUnsynced \/ StopRequest \/ StopSynced
    BY <2>2 DEF WorkerTypes, StopUnsynced, StopRequest, StopSynced
  <2>5. CASE StopDone
    BY <2>5 DEF WorkerTypes, StopDone
  <2>3. CASE LockRequest \/ LockGranted \/ UnlockCheck \/ UnlockSignal \/ UnlockRelease \/ PoolJoin
    BY <2>3 DEF WorkerTypes, LockRequest, LockGranted, UnlockCheck, UnlockSignal, UnlockRelease, PoolJoin
  <2>4. QED
    BY <1>2, <2>1, <2>2, <2>3, <2>5 DEF CallerStep
<1>3. CASE CallerBegin
  <2>1. ASSUME NEW w \in Workers, CallerStart(w)
        PROVE  WorkerTypes'
    BY <2>1, WorkerOperation DEF CallerStart
  <2>2. CASE \E w \in Workers : StopCheck(w)
    BY <2>2 DEF WorkerTypes, StopCheck
  <2>3. CASE CallerEnter \/ CallerLeave \/ LockCheck \/ PoolTerm
    BY <2>3 DEF WorkerTypes, CallerEnter, CallerLeave, LockCheck, PoolTerm
  <2>4. QED
    BY <1>3, <2>1, <2>2, <2>3 DEF CallerBegin
<1>4. ASSUME NEW w \in Workers, HandlerCall(w)
      PROVE  WorkerTypes'
  <2>1. CASE HandlerModify(w) \/ HandlerStart(w)
    <3>1. UNCHANGED <<target, caller>>
      BY <2>1 DEF HandlerModify, HandlerStart
    <3>2. NewWorker(w) \/ DropWorker(w) \/ ChangeItems(w) \/ MarkStarted(w)
      BY <2>1 DEF HandlerModify, HandlerStart
    <3>3. caller' \in {"unsynced", "requesting", "wait_sync", "synced"} => target \in Workers
      BY <3>1 DEF WorkerTypes
    <3>4. QED
      BY <3>1, <3>2, <3>3, WorkerOperation
  <2>2. CASE HandlerStop(w)
    BY <2>2 DEF WorkerTypes, HandlerStop
  <2>3. QED
    BY <1>4, <2>1, <2>2 DEF HandlerCall
<1>5. CASE UNCHANGED vars
  BY <1>5 DEF WorkerTypes, vars
<1>6. QED
  BY <1>1, <1>2, <1>3, <1>4, <1>5 DEF Next

LEMMA TypesStep == Types /\ [Next]_vars => Types'
  BY ControlTypesStep, FlagTypesStep, WorkerTypesStep DEF Types

\* The fields keep to their values, and no batch is fed beyond its end.
THEOREM TypeCorrect == Spec => []TypeOK
<1>1. Types => TypeOK
  <2>1. Workers \cup {0} = 0 .. NumWorkers
    BY PoolAssumption DEF Workers
  <2>2. QED
    BY <2>1 DEF Types, ControlTypes, FlagTypes, WorkerTypes, TypeOK
<1>2. QED
  BY TypesInit, TypesStep, <1>1, PTL DEF Spec

(***************************************************************************)
(* The lock handshake.                                                     *)
(***************************************************************************)

\* Who is inside the context, and when lock_safe is set.
Contexts ==
    /\ lock_safe \in BOOLEAN /\ misread \in BOOLEAN
    /\ lock_safe <=> pc \in {"entering", "feeding", "leaving"}
    /\ ctx = "poller" <=> pc = "feeding"
    /\ ctx = "caller" <=> caller \notin {"out", "terminating", "terminated"}

\* The request/acknowledge protocol of nn_ofiw_lock_thread: a signal that has
\* not been consumed tells where the poller is.
Protocol ==
    /\ caller # "unsynced"
    /\ efd_lock_ack => pc = "parked" /\ ~efd_lock_req
    /\ efd_lock_req => pc = "parked"
    /\ caller \in {"holding", "modified", "unlocking"} =>
          pc = "parked" /\ ~efd_lock_req /\ ~efd_lock_ack
    /\ lock_mutex <=> caller \in {"wait_ack", "holding", "modified", "unlocking", "releasing"}

LockInv == Contexts /\ (~misread => Protocol)

LEMMA LockInvInit == Init => LockInv
  BY DEF Init, LockInv, Contexts, Protocol

\* Every step of either thread keeps the protocol.
LEMMA LockInvStep == LockInv /\ [Next]_vars => LockInv'
<1> SUFFICES ASSUME LockInv, [Next]_vars PROVE LockInv'
  OBVIOUS
<1> USE DEF LockInv, Contexts, Protocol, pollVars, callVars, lockVars, workerVars
<1>1. CASE PollerStep
  <2>1. CASE PollerExit \/ HandleBlockRequest \/ Unpark
    BY <2>1 DEF PollerExit, terminating, HandleBlockRequest, BeginPass, Unpark
  <2>2. CASE NextWorker \/ SignalSync \/ Poll
    BY <2>2 DEF NextWorker, SignalSync, Poll
  <2>3. CASE SetSafe \/ PollerEnter \/ PollerLeave \/ ContinueOuter
    <3>1. Contexts'
      BY <2>3 DEF SetSafe, PollerEnter, PollerLeave, ContinueOuter
    <3>2. ~misread' => Protocol'
      BY <2>3 DEF SetSafe, PollerEnter, PollerLeave, ContinueOuter
    <3>3. QED
      BY <3>1, <3>2 DEF LockInv
  <2>5. CASE Feed
    BY <2>5 DEF Feed
  <2>6. QED
    BY <1>1, <2>1, <2>2, <2>3, <2>5 DEF PollerStep
<1>2. CASE CallerStep
  BY <1>2 DEF CallerStep, StopUnsynced, StopRequest, StopSynced, StopDone, LockRequest,
              LockGranted, Modify, UnlockCheck, UnlockSignal, UnlockRelease, PoolJoin
<1>3. CASE CallerBegin
  BY <1>3 DEF CallerBegin, CallerEnter, CallerLeave, LockCheck, PoolTerm, CallerStart, StopCheck
<1>4. CASE \E w \in Workers : HandlerCall(w)
  BY <1>4 DEF HandlerCall, HandlerStart, HandlerStop, HandlerModify
<1>5. CASE UNCHANGED vars
  BY <1>5 DEF vars
<1>6. QED
  BY <1>1, <1>2, <1>3, <1>4, <1>5 DEF Next

\* The poller is parked while a caller that did not misread lock_safe changes
\* the lists of workers and items.
THEOREM ListsAreExclusive == Spec => []ExclusiveLists
<1>1. LockInv => ExclusiveLists
  BY DEF LockInv, Protocol, ExclusiveLists, Traversing
<1>2. QED
  BY LockInvInit, LockInvStep, <1>1, PTL DEF Spec

\* ... and the lock's mutex is unlocked by the call that locked it.
THEOREM MutexPaired == Spec => []MutexIsPaired
<1>1. LockInv => MutexIsPaired
  BY DEF LockInv, Protocol, MutexIsPaired
<1>2. QED
  BY LockInvInit, LockInvStep, <1>1, PTL DEF Spec

(***************************************************************************)
(* The pass over the lists.                                                *)
(***************************************************************************)

\* A handler changes the lists only while the poller feeds, and the poller
\* then leaves for the top of the loop.
PassInv == altered => pc \in {"feeding", "leaving", "top", "parked", "exited"}

LEMMA PassInvStep == PassInv /\ [Next]_vars => PassInv'
<1> SUFFICES ASSUME PassInv, [Next]_vars PROVE PassInv'
  OBVIOUS
<1> USE DEF PassInv, pollVars, callVars, lockVars, workerVars
<1>1. CASE PollerStep
  BY <1>1 DEF PollerStep, PollerExit, HandleBlockRequest, BeginPass, Unpark, NextWorker, SignalSync,
              Poll, SetSafe, PollerEnter, Feed, PollerLeave, ContinueOuter
<1>2. CASE CallerStep
  BY <1>2 DEF CallerStep, StopUnsynced, StopRequest, StopSynced, StopDone, LockRequest,
              LockGranted, Modify, UnlockCheck, UnlockSignal, UnlockRelease, PoolJoin
<1>3. CASE CallerBegin
  BY <1>3 DEF CallerBegin, CallerEnter, CallerLeave, LockCheck, PoolTerm, CallerStart, StopCheck
<1>4. CASE \E w \in Workers : HandlerCall(w)
  BY <1>4 DEF HandlerCall, HandlerStart, HandlerStop, HandlerModify
<1>5. CASE UNCHANGED vars
  BY <1>5 DEF vars
<1>6. QED
  BY <1>1, <1>2, <1>3, <1>4, <1>5 DEF Next

\* The poller follows no pointer that a handler of the same pass may have
\* invalidated.
THEOREM PassIsFresh == Spec => []FreshIteration
<1>1. Init => PassInv
  BY DEF Init, PassInv
<1>2. PassInv => FreshIteration
  BY DEF PassInv, FreshIteration, Traversing
<1>3. QED
  BY PassInvStep, <1>1, <1>2, PTL DEF Spec

(***************************************************************************)
(* The stop handshake.                                                     *)
(***************************************************************************)

\* Where the caller is in nn_ofiw_stop tells the worker's active field.
StopPhase ==
    /\ caller \in {"requesting", "wait_sync", "synced"} => target \in workers
    /\ caller = "requesting" => active[target] = 2
    /\ caller = "wait_sync" => active[target] = 1
    /\ caller = "synced" => active[target] = 0
    /\ \A w \in workers : active[w] = 1 => caller = "wait_sync" /\ target = w

\* No signal of efd_sync is left or under way for a worker that was not
\* stopped yet: the next one answers its stop.  The worker the poller is at
\* has not been answered.
NoStaleSync ==
    /\ pc \in {"polling", "got", "entering", "syncing"} => cur \in workers
    /\ pc \in {"polling", "got", "entering"} => active[cur] # 0 /\ ~efd_sync[cur]
    /\ pc = "feeding" => cur \notin quiesced
    /\ \A w \in workers :
          /\ active[w] # 0 => w \notin quiesced
          /\ active[w] = 2 \/ (active[w] = 0 /\ w \notin stops /\ ~(caller = "synced" /\ target = w))
                => w \notin quiesced /\ ~efd_sync[w] /\ ~(pc = "syncing" /\ cur = w)

Synced == StopPhase /\ NoStaleSync

SyncInv == Types /\ LockInv /\ (~misread => Synced)

LEMMA SyncInvInit == Init => SyncInv
  BY TypesInit, LockInvInit DEF Init, SyncInv, Synced, StopPhase, NoStaleSync

\* The poller's own steps.
LEMMA SyncedPollerStep ==
    ASSUME Types, LockInv, Protocol, Synced, PollerStep
    PROVE  Synced'
<1> USE DEF Synced, pollVars, callVars, lockVars, workerVars
<1>1. StopPhase'
  BY DEF StopPhase, PollerStep, PollerExit, HandleBlockRequest, BeginPass, Unpark, NextWorker,
         SignalSync, Poll, SetSafe, PollerEnter, Feed, PollerLeave, ContinueOuter
<1>2. NoStaleSync'
  <2>1. CASE NextWorker
    BY <2>1 DEF Types, WorkerTypes, NoStaleSync, NextWorker
  <2>2. CASE SignalSync
    <3>1. /\ cur \in workers /\ active[cur] # 2
          /\ active[cur] = 0 => cur \in stops \/ (caller = "synced" /\ target = cur)
      BY <2>2 DEF NoStaleSync, SignalSync
    <3>2. \A w \in workers : w # cur => efd_sync'[w] = efd_sync[w]
      BY <2>2 DEF Types, WorkerTypes, SignalSync
    <3>3. QED
      BY <2>2, <3>1, <3>2 DEF NoStaleSync, SignalSync
  <2>3. CASE PollerExit \/ HandleBlockRequest \/ Unpark \/ Poll
    BY <2>3 DEF NoStaleSync, PollerExit, HandleBlockRequest, BeginPass, Unpark, Poll
  <2>4. CASE SetSafe \/ PollerEnter \/ Feed \/ PollerLeave \/ ContinueOuter
    BY <2>4 DEF NoStaleSync, SetSafe, PollerEnter, Feed, PollerLeave, ContinueOuter
  <2>5. QED
    BY <2>1, <2>2, <2>3, <2>4 DEF PollerStep
<1>3. QED
  BY <1>1, <1>2

\* A worker is created, dropped or changed while the poller is at none, or at
\* the end of its batch.
LEMMA SyncedModify ==
    ASSUME Types, Synced, NEW w \in Workers,
           NewWorker(w) \/ DropWorker(w) \/ ChangeItems(w),
           UNCHANGED <<pc, cur, target>>, pc \in {"parked", "feeding"},
           caller \notin {"requesting", "wait_sync", "synced"},
           caller' \notin {"requesting", "wait_sync", "synced"}
    PROVE  Synced'
<1>1. CASE NewWorker(w)
  <2>1. /\ workers' = workers \cup {w} /\ stops' = stops \ {w} /\ quiesced' = quiesced \ {w}
        /\ active' = [active EXCEPT ![w] = 0] /\ efd_sync' = [efd_sync EXCEPT ![w] = FALSE]
    BY <1>1 DEF NewWorker
  <2>2. StopPhase'
    BY <2>1 DEF Types, WorkerTypes, Synced, StopPhase
  <2>3. NoStaleSync'
    BY <2>1 DEF Types, WorkerTypes, Synced, NoStaleSync
  <2>4. QED
    BY <2>2, <2>3 DEF Synced
<1>2. CASE DropWorker(w)
  BY <1>2 DEF Synced, StopPhase, NoStaleSync, DropWorker
<1>3. CASE ChangeItems(w)
  BY <1>3 DEF Synced, StopPhase, NoStaleSync, ChangeItems, workerVars
<1>4. QED
  BY <1>1, <1>2, <1>3

\* A worker is started while it is not the one being stopped.
LEMMA SyncedStart ==
    ASSUME Types, Synced, Restarts = FALSE, NEW w \in Workers, MarkStarted(w),
           UNCHANGED <<pc, cur, target, caller>>,
           caller \notin {"requesting", "wait_sync", "synced"}
    PROVE  Synced'
<1>1. /\ w \in workers /\ w \notin stops /\ active[w] = 0
      /\ UNCHANGED <<workers, efd_sync, stops>> /\ quiesced' = quiesced \ {w}
  BY DEF MarkStarted
<1>2. /\ active' \in [Workers -> 0 .. 2] /\ active'[w] = 2
      /\ \A v \in workers : v # w => active'[v] = active[v]
  BY DEF Types, WorkerTypes, MarkStarted
<1>3. StopPhase'
  BY <1>1, <1>2 DEF Types, WorkerTypes, Synced, StopPhase
<1>4. NoStaleSync'
  BY <1>1, <1>2 DEF Types, WorkerTypes, Synced, NoStaleSync
<1>5. QED
  BY <1>3, <1>4 DEF Synced

\* The steps of the other thread.
LEMMA SyncedCallerStep ==
    ASSUME Types, LockInv, Protocol, Synced, Restarts = FALSE, CallerStep \/ CallerBegin
    PROVE  Synced'
<1> USE DEF pollVars, callVars, lockVars, workerVars
<1>1. CASE StopRequest
  BY <1>1 DEF Types, WorkerTypes, Synced, StopPhase, NoStaleSync, StopRequest
<1>2. CASE StopSynced
  BY <1>2 DEF Types, WorkerTypes, Synced, StopPhase, NoStaleSync, StopSynced
<1>3. CASE StopDone
  <2>1. pc \notin {"feeding"}
    BY <1>3 DEF LockInv, Contexts, StopDone
  <2>2. QED
    BY <1>3, <2>1 DEF Types, WorkerTypes, Synced, StopPhase, NoStaleSync, StopDone
<1>4. ASSUME NEW w \in Workers, Modify(w)
      PROVE  Synced'
  \* The poller is parked: it points at no worker.
  BY <1>4, SyncedModify DEF LockInv, Protocol, Modify
<1>5. CASE StopUnsynced
  BY <1>5 DEF Protocol, StopUnsynced
<1>6. CASE LockRequest \/ LockGranted \/ UnlockCheck \/ UnlockSignal \/ UnlockRelease \/ PoolJoin
  BY <1>6 DEF Synced, StopPhase, NoStaleSync, LockRequest, LockGranted, UnlockCheck,
              UnlockSignal, UnlockRelease, PoolJoin
<1>7. ASSUME NEW w \in Workers, CallerStart(w)
      PROVE  Synced'
  BY <1>7, SyncedStart DEF CallerStart
<1>8. ASSUME NEW w \in Workers, StopCheck(w)
      PROVE  Synced'
  BY <1>8 DEF Synced, StopPhase, NoStaleSync, StopCheck
<1>9. CASE CallerEnter \/ CallerLeave \/ LockCheck \/ PoolTerm
  BY <1>9 DEF Synced, StopPhase, NoStaleSync, CallerEnter, CallerLeave, LockCheck, PoolTerm
<1>10. QED
  BY <1>1, <1>2, <1>3, <1>4, <1>5, <1>6, <1>7, <1>8, <1>9 DEF CallerStep, CallerBegin

\* The calls of a handler: the other thread is outside the context.
LEMMA SyncedHandlerCall ==
    ASSUME Types, LockInv, Synced, Restarts = FALSE, NEW w \in Workers, HandlerCall(w)
    PROVE  Synced'
<1> USE DEF pollVars, callVars, lockVars, workerVars
<1>1. /\ pc = "feeding" /\ caller \in {"out", "terminating", "terminated"}
      /\ UNCHANGED <<pc, cur, target, caller>>
  BY DEF LockInv, Contexts, HandlerCall, HandlerStart, HandlerStop, HandlerModify
<1>2. CASE HandlerStart(w)
  BY <1>1, <1>2, SyncedStart DEF HandlerStart
<1>3. CASE HandlerModify(w)
  BY <1>1, <1>3, SyncedModify DEF HandlerModify
<1>4. CASE HandlerStop(w)
  <2>1. /\ w \in workers /\ active[w] = 2 /\ stops' = stops \cup {w}
        /\ UNCHANGED <<workers, efd_sync, quiesced>>
    BY <1>4 DEF HandlerStop
  <2>2. active'[w] = 0 /\ \A v \in workers : v # w => active'[v] = active[v]
    BY <1>4 DEF Types, WorkerTypes, HandlerStop
  <2>3. QED
    BY <1>1, <2>1, <2>2 DEF Synced, StopPhase, NoStaleSync
<1>5. QED
  BY <1>2, <1>3, <1>4 DEF HandlerCall

LEMMA SyncInvStep ==
    ASSUME Restarts = FALSE, SyncInv, [Next]_vars
    PROVE  SyncInv'
<1>1. Types' /\ LockInv'
  BY TypesStep, LockInvStep DEF SyncInv
<1>2. ~misread' => ~misread
  <2>1. CASE PollerStep \/ \E w \in Workers : HandlerCall(w)
    BY <2>1 DEF callVars, PollerStep, PollerExit, HandleBlockRequest, Unpark, NextWorker, SignalSync,
          Poll, SetSafe, PollerEnter, Feed, PollerLeave, ContinueOuter,
          HandlerCall, HandlerStart, HandlerStop, HandlerModify
  <2>2. CASE CallerStep
    BY <2>2 DEF CallerStep, StopUnsynced, StopRequest, StopSynced, StopDone, LockRequest,
          LockGranted, Modify, UnlockCheck, UnlockSignal, UnlockRelease, PoolJoin
  <2>3. CASE CallerBegin
    BY <2>3 DEF CallerBegin, callVars, CallerEnter, CallerLeave, LockCheck, PoolTerm, CallerStart, StopCheck
  <2>4. CASE UNCHANGED vars
    BY <2>4 DEF vars
  <2>5. QED
    BY <2>1, <2>2, <2>3, <2>4 DEF Next
<1>3. ASSUME ~misread' PROVE Synced'
  <2>1. Types /\ LockInv /\ Protocol /\ Synced
    BY <1>2, <1>3 DEF SyncInv, LockInv
  <2>2. CASE PollerStep
    BY <2>1, <2>2, SyncedPollerStep
  <2>3. CASE CallerStep \/ CallerBegin
    BY <2>1, <2>3, SyncedCallerStep
  <2>4. CASE \E w \in Workers : HandlerCall(w)
    BY <2>1, <2>4, SyncedHandlerCall
  <2>5. CASE UNCHANGED vars
    BY <2>1, <2>5 DEF vars, Synced, StopPhase, NoStaleSync
  <2>6. QED
    BY <2>2, <2>3, <2>4, <2>5 DEF Next
<1>4. QED
  BY <1>1, <1>3 DEF SyncInv

\* As long as no worker is started twice and no lock_safe was misread, a stop
\* that went through the handshake leaves the poller off that worker.
THEOREM StopSynchronises ==
    ASSUME Restarts = FALSE
    PROVE  Spec => []StopIsSynchronised
<1>1. SyncInv => StopIsSynchronised
  BY DEF SyncInv, Synced, NoStaleSync, StopIsSynchronised
<1>2. QED
  BY SyncInvInit, SyncInvStep, <1>1, PTL DEF Spec
=============================================================================
