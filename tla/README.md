# TLA+ models of nanomsg-transport-ofi

nanomsg-transport-ofi lets nanomsg sockets talk over libfabric (OFI). The
transport is six C files of about 5,000 lines under
`src/transports/ofi/`: two kinds of endpoint that nanomsg creates (a bound one
and a connecting one), a streaming endpoint for each connection, a pool of
workers whose single poller thread reads libfabric's queues, a cache of memory
registrations, and thin wrappers of libfabric calls. This directory holds TLA+
models of the parts where order, concurrency and failure decide what is
correct, TLC configurations that check them on small instances, and TLAPS
proofs for every size of the queues and tables and any number of workers,
streams and handles.

Line numbers refer to the files in `src/transports/ofi/`.

    tlc -workers 2 -config MCEgress.cfg MCEgress.tla     # any MC*.cfg
    tlapm EgressProofs.tla                               # any *Proofs.tla

## 1. The system

| Component | State | Operations | Talks to |
|---|---|---|---|
| **Egress** (`sofi.c`, sending half) | `egress_contexts` on a doubly linked list with `egress_ctx_head/tail`; a context is in use while its `mr_handle` is set; `stageout_counter`, `stageout_state`, `out_state` | `nn_sofi_send`, TX completion and error, flush on STOP | nanomsg (`nn_pipebase_sent`), the memory-region manager, `fi_sendmsg` |
| **Ingress** (`sofi.c`, receiving half) | buffers on the lists `ingress_buf_free/busy/pop`, four flags in `ingress_flags` | post, RX completion and error, `nn_sofi_recv`, flush on STOP and delayed flush | nanomsg (`nn_pipebase_received`), `fi_recvmsg`, the application through NN_MSG chunks |
| **Streaming endpoint** (`sofi.c`) | FSM `CONNECTING / ACTIVE / CLOSING`, `socket_state`, keepalive and shutdown timers, tick counters, `error` | `nn_sofi_start_accept/connect`, `nn_sofi_handler`, `nn_sofi_shutdown`, `nn_sofi_stop` | both halves, its own worker, its owner (`NN_SOFI_STOPPED`) |
| **Worker pool and poller** (`ofiw.c`) | list of workers and of their items, `active` and `efd_sync` of each worker, `lock_state`, `lock_safe`, `lock_mutex`, `efd_lock_req/ack` | poller loop, `nn_ofiw_start/stop`, `add_*`, `remove`, `getworker`, `term`, lock and unlock, end of the pool | feeds the FSMs of endpoints inside the nanomsg context; called from that context |
| **Memory-region manager** (`ofimr.c`) | banks (`base`, `len`, `ref`, `age`, registration), slabs, `age` | `describe`, `release`, `mark`, `invalidate`, `term` | `fi_mr_reg`, `fi_close`; called by Egress |
| **Bound endpoint** (`bofi.c`) | `IDLE/ACTIVE/STOPPING`, fabric, domain and passive endpoint, table `sofi_offsets`, list `sofis`, a worker | connection request: new streaming endpoint and passive endpoint reopened; reap on `NN_SOFI_STOPPED`; shutdown | streaming endpoints, pool |
| **Connecting endpoint** (`cofi.c`) | `IDLE/ACTIVE/RETRYING/STOPPING_BACKOFF/STOPPING`, one streaming endpoint, backoff timer | connect, retry, shutdown | streaming endpoint, pool |
| **ofiapi** (`ofiapi.c`) | fabrics and domains of the process, on lists | open and close of each libfabric object, `ofi_term` | everything above |
| **Transport** (`ofi.c`) | the `ofi_resources`, option values | `nn_ofi_init/term/bind/connect`, range checks | nanomsg core, both kinds of endpoint |
| **Platform** (`platf/`) | none | substitutes for system calls | |
| Tests, patches, launch scripts | none that the transport uses | | |

How they interact: nanomsg calls an endpoint inside the *context* of its socket
(one mutex). The poller thread reads a completion queue or an event queue,
enters that context and feeds the streaming endpoint's FSM. nanomsg's own worker
thread does the same for timers. A handler of a streaming endpoint therefore
runs alone with respect to other handlers, and what can interleave is the
*order of events*; inside the pool the poller and a caller really run side by
side. `nn_fsm_stop` calls the shutdown handler synchronously, so a critical
error in the middle of a handler runs the whole STOP action before the handler
goes on.

What makes each part correct, and what is hard about it:

* **Egress.** Back-pressure is exact, completions in any order; a context is not
  reused under a send; the callback to nanomsg is made exactly when a full
  window reopens (it asserts otherwise); nothing is sent while closing.
* **Ingress.** A buffer is on one list at a time; messages are announced one at a
  time and only if there is one; order is kept; posts that could not be made are
  made up for; a close under a message that nanomsg was told of delays the flush.
* **Streaming endpoint.** Queues, timers and the peer race to be last to become
  quiet; a clean close waits for sends; the shutdown timer serves two phases; events
  should not reach `nn_fsm_bad_*`, which abort the process (one that the poller had
  read before the stop does); nothing may run after the owner was told the endpoint
  has stopped.
* **Pool.** The lists change only while the poller is not walking them;
  a stopped worker is not polled; a handler that changes the lists restarts the
  walk; nobody waits for ever.
* **Memory regions.** References and slabs are exact on every path, failed ones
  included; a registration in use is not changed; a descriptor covers its data.
* **Bound endpoint.** Offsets, which make memory keys unique, are not given out
  twice; the passive endpoint is closed and opened anew with each request, on every path;
  shutdown waits for every streaming endpoint.
* **Connecting endpoint.** Its state says which of stream and timer is running, through
  loss, backoff, retry and stop; some attempt gets through.
* **Objects and transport.** Domains and fabrics, which are not counted, are closed by
  four different paths and must outlive streams and passive endpoints.

## 2. Modules

    EgressRing ---- Egress ----+
        ^             |        |---- Sofi ---- implements ---- StreamLife
        | implements  |        |                                   |
    EgressList        |     Ingress ---- implements             StreamPhases
                      |                      |                   |      |
                      |                  FifoChannel           Bofi    Cofi
                      +---- implements ---- SendWindow           |      |
                                                  MrKeys ------- Transport ---- OfiApi
    OfiwPool        OfiMr

`Sofi` is the streaming endpoint in full. Its owners see of it only its phase
(`StreamPhases`), and `ImplementsLife` in run `sofi` shows that the phase of the
detailed endpoint moves as the owners' modules assume. `Transport` instantiates
`Bofi`, `Cofi` and `OfiApi` (once for each process), and is shown to implement both.

| Module | Models | Correspondence |
|---|---|---|
| `EgressList` | the linked list, pointer by pointer | `next`, `prev`, head and tail as in `struct nn_sofi_out_ctx`; `MarkBusy`, the three branches of `nn_sofi_egress_mark_free`, `FlushContexts` |
| `EgressRing` | the same list as a sequence | what `EgressList` implements; the operations Egress works with |
| `Egress` | sending half | one action for each event: `Send` and `SendFails` are the two outcomes of `nn_sofi_send`, `TxCompleted`, `TxDiscarded`, `TxError`, `TxErrorWhileClosing` the four things a completion can mean, `Stop` the STOP action |
| `SendWindow` | what Egress promises nanomsg | abstract: slots, writable exactly if a slot is free |
| `Ingress` | receiving half | `Connected`, `RxMessage`, `RxKeepalive`, `Fetch`, `Stop`...; each composes the helpers in the order the handler calls them |
| `FifoChannel` | what Ingress promises the peer | abstract: in order, each once, none skipped |
| `Sofi` | whole streaming endpoint | each action joins an action of `Egress` and one of `Ingress` with the FSM, the socket and the timers; `CloseIfQuiet` is the tail of `nn_sofi_shutdown` |
| `StreamPhases`, `StreamLife` | what an owner sees of a streaming endpoint | abstract: connects at most once, closes at most once, stops for good; aborts only by an event read before the stop and fed after it (`LateEvent`) |
| `OfiwPool` | poller thread and one caller, to the end of the pool | one action for each access the other thread can notice |
| `OfiMr` | memory-region manager | one action for each call, all failures of libfabric |
| `MrKeys` | the memory keys of a streaming endpoint | the key arithmetic of `sofi.h` and `sofi.c`: a page for each offset, sections for sends, receives and the auxiliary buffer |
| `Bofi` | bound endpoint | one action for each event of `nn_bofi_handler` and `nn_bofi_shutdown`; `StartAccepting` is `nn_bofi_start_accepting` with each of its calls failing, `NewSofiOffset` the table |
| `Cofi` | connecting endpoint | one action for each event; `StopAction` is the STOP branch of `nn_cofi_shutdown`, the fall-through to `nn_fsm_bad_source` included |
| `OfiApi` | fabrics and domains of a process | `ofi_fabric_open`/`ofi_domain_open` as the transport calls them, `ofi_domain_close`, `ofi_term` |
| `Transport` | a listener and a connector, in two processes, and the network | each action is one of `Bofi`, `Cofi` or the network with what it does to the connector's attempt and the objects |
| `*Proofs` | theorems | section 5 |
| `MC*` | values of the constants for TLC | sections 3 and 4 |

Abstractions: the contents, sizes and scatter-gather layout of messages do not
appear (except in `OfiMr`, where address ranges are the subject). In `Ingress` a
message is its number of arrival, which is what order and loss are stated with;
the free and busy lists are sets, because which free buffer is posted makes no
difference, and the populated list is a sequence. `mr_handle` is the set of
contexts whose field is not NULL. Each action of a half is a whole handler. In
`OfiwPool` the event descriptors are Booleans, because `nn_efd_unsignal` drains
all signals at once, and items of a worker are not told apart. In `Bofi`, `Cofi`
and `Transport` a streaming endpoint is its phase, how long a timer waits does not
appear, and a connection attempt is the place it has reached.

## 3. Runs

| Run | Configuration | What it asks |
|---|---|---|
| `egress_list` | 5 contexts | The links stay consistent under every order of posts, completions and flushes (`LinksAgree`), and each pointer operation does to the list what `EgressRing` says (`ImplementsRing`). |
| `egress` | `rx_queue = tx_queue = 4` | The counter tells which contexts are free (`CounterMatchesRing`); a context is in use exactly while its send is in transit (`HeldWhileInTransit`); the pipe is open exactly if a context is free (`PipeOpenIffContext`); the reopening callback finds the pipe waiting (`FullWindowBlocksPipe`); no send after STOP (`NoSendAfterStop`); a full window reopens (`BlockedPipeReopens`); refinement of `SendWindow`. |
| `ingress` | 4 buffers, 6 messages, every result of `ofi_recvmsg` | Announcements are true, buffers are conserved, a queued message is not overwritten, a delayed flush is not forgotten, a receive is posted or owed when no buffer is free (`NeverDeaf`), refinement of `FifoChannel`. |
| `sofi` | 2 contexts, 2 buffers, 2 messages, every fault, keepalive 2/1 ticks | The endpoint implements `StreamLife`: one connection, one close, one stop, and no abort but that of an event fed too late (`ImplementsLife`); draining starts only when all is quiet and stays so; a clean close completes sends; nothing is left when the endpoint has stopped; each half behaves as its module says (`HalvesBehave`); silence is noticed, a close completes, messages are fetched. |
| `ofiw` | 2 workers, batches of 1 or 2 | Exclusion of the lists, synchronised stop, paired mutex, fresh pass after a change, every wait ends where it can, that of `nn_ofiw_pool_term` included. |
| `ofimr` | 2 banks, 1 slab, 2 handles, 3 messages, 5 registrations, each part of a message refused or not by itself | Reference counts and slabs exact, a cached bank used only for data it covers, no registration changes under a handle, `ofi_mr_term` finds nothing in use. |
| `transport` | 2 streams, a table of 2 offsets, every call that may fail, one foreign request | No two streams share a memory key while the table has not grown (`KeysExclusive`); an active listener has one passive endpoint, listening and polled (`ListensWhileActive`); an active listener is aborted only by five failures or an error of its passive endpoint, and brought down otherwise only by an event fed too late (`FailsAsKnown`); the connector is in the state its next event expects (`ConnectorInStep`); domains and fabrics outlive their users (`ObjectsOutliveUsers`); unless a close hangs, the connector connects (`Connects`) and a stop ends in the destruction, in an event fed too late or in a wait for the poller (`StopCompletes`). |
| `ingress_three` | 3 buffers, no failures | **Violated**: a queued message is announced. |
| `sofi_disconnect` | 2/2, only disconnects | **Violated**: a disconnected endpoint terminates. |
| `ofiw_race` | 1 worker | **Violated**: a granted lock excludes the poller. |
| `ofiw_stop` | 1 worker | **Violated**: `nn_ofiw_stop` returns. |
| `ofimr_evict` | 2 banks, 1 handle | **Violated**: a descriptor covers the data it is given for. |

Every property of a passing run has a mutant in `PROJECT.json`: a variant of one
definition, defined just before it in the module, with a plausible mistake (a
dropped reset, a missing guard, an off-by-one), under which TLC finds the
property violated.

Type invariants are not run: those of Egress, Ingress, OfiwPool, OfiMr, Bofi and Cofi
are theorems (`TypeCorrect`), and that of Sofi documents its variables.

### Bounds, and why they are enough

* **Queues of 4 (Egress, Ingress), 5 (EgressList).** `mark_free` has three
  branches; five contexts give a middle in which a context is unlinked between two
  others that are in the middle too. Four let completions overtake each other by
  two places. The proofs cover every size.
* **Queues of 2 in Sofi.** The smallest `ofi.c` accepts. What the composition adds
  is the order in which the halves, the timers and the socket become quiet; that
  needs a queue to be empty, partly full and full.
* **MaxMessages.** 6 messages for 4 buffers, so that every buffer is used a second
  time; 2 in Sofi.
* **Ticks 2/1 in Sofi.** The code has 4/2 (`sofi.c:86,90`). The counters only
  compare with the limit, so with 2/1 every branch happens; `sofi_disconnect` uses
  4/2.
* **Batches {1, 2}, 2 workers.** A batch of two has an event left after a handler
  stopped its worker; two workers give a worker that is not the one being walked.
* **Sofis = 2, offset_slots = 2 (Transport).** One stream is the connector's, one a
  foreign connector's or one left over from an earlier attempt; the code has 64 offsets
  and grows the table by 64. With 2, a leaked offset is enough to fill it, so the growth,
  and what it leaves unmarked, happens. The proofs cover every number.
* **Each fault once in each process (Transport).** A fault may come at any point of a
  run; a second fault of the same call would follow on a state the first has already
  shown. Without a bound a connector could fail for ever, which says nothing. An event of
  the passive endpoint that is no request, and an event fed too late, are such faults too.
* **A new stream takes the first free name (Transport).** Streams of the listener differ
  in nothing but their name, so which of the free ones is taken makes no difference; that
  is what keeps this run small.
* **An event fed too late (Bofi, Cofi)** is one step from a stream that has stopped to the
  end of the process. In the code the owner may reap the stream in between; whatever it does
  then makes no difference to that end.
* **One queued request.** The code opens event queues with `size = 1`
  (`ofiapi.c`, `eq_attr`); `queued` and `read` are the one in the queue and the one the
  poller holds.
* **MaxAge = 5 (OfiMr).** The manager's counter of registrations. Two banks are
  filled and taken over more than once.

`CHECK_DEADLOCK FALSE` appears where the system stops: a streaming endpoint that
has stopped or waits for a peer that sends nothing, an endpoint that has closed
with all its completions in, a pool whose two threads wait for each other (what
`ofiw_stop` shows the code does) or has ended, processes that have stopped or aborted, a manager
that has ended, is at `MaxAge` or in the call that never
returns. `egress_list` checks deadlock.

### Fairness

* **Egress:** weak fairness of each context's completion. libfabric reports
  every send it accepted, as completion or as error, and the poller reads the
  queues for as long as the worker runs.
* **Sofi:** the same for completions of sends (not for receives, which wait for
  the peer), the two timers (nanomsg's worker thread), and the application's
  fetch. Nothing forces the peer, an error, a disconnect or a stop. `Fetch` is
  the application receiving what was announced; an application that never calls
  `nn_recv` violates it, and `CloseCompletes` and `EveryMessageFetched` then say nothing.
* **Transport:** weak fairness of what a poller, a timer, the network or nanomsg's
  destruction of a stopped endpoint does; a lost request is reported to the connector.
  Strong fairness of `ConnectorConnected` only: an accepted connection may break before
  the connector has seen FI_CONNECTED, but not every time. Nothing makes a stream that
  closes stop: `sofi_disconnect` and the exceptions of `CloseCompletes` show closes that
  hang for ever (section 4). A connector whose stream hangs gets no `NN_SOFI_STOPPED`,
  never retries and never finishes its stop, and a listener waits for each of its streams;
  `Connects` and `StopCompletes` say so (`ConnectorHangs`, `ListenerHangs`). Nobody need
  bind, connect or stop, and nothing forces a fault.
* **OfiwPool:** both threads are scheduled. The other thread need not begin an
  operation, but finishes one it has begun; handlers need not call anything.

### Assumptions about the surroundings

* FI_SHUTDOWN does not come before FI_CONNECTED: while CONNECTING it would reach
  `nn_fsm_bad_action` (`sofi.c:1748`). libfabric orders the two, so the model
  does.
* In `Sofi`, `nn_sofi_init` and the start functions succeed; when they fail the owner drops
  the endpoint before it is an FSM that runs. `Bofi` and `Cofi` model what the owner does then.
* nanomsg runs the START handler before its FSM counts as active, and `nn_fsm_stop` does
  nothing unless it is: a critical error inside START may be ignored, and the endpoint
  stays idle. Versions of nanomsg differ; both outcomes are in the models (`StartFails`,
  `StartIgnored`).
* The queues fit a page of memory keys (`QueuesFitPage`): at most 1023 sends and 2048
  receives. The options accept any length (`ofi.c:190`).
* The header and the body of a message do not lie at the same address (`MrAssumption`).
* `nn_ofiw_pool_term` comes when no worker is running, and `ofi_mr_term` when every handle has
  been released: nanomsg terminates a transport after its endpoints, and `NothingRunsAfterStop`
  shows the second.
* Callers of the pool are in one context, as all users of one pool share it; two
  callers never run at the same time.
* Handlers call what the handlers in `sofi.c`, `bofi.c` and `cofi.c` may call;
  a worker is freed by one of them only if it is not the one being fed, or after
  the batch.

## 4. What the checks show

The passing runs cover what the design rests on. The list discipline of the
sending half is right: with equal queues, the head alone tells whether a context
is free, back-pressure opens and closes at the right message, and the half is a
window of slots. The receiving half keeps its buffers apart and delivers in order
without gaps, however posts fail. With every fault switched on, an endpoint that runs
reaches no aborting branch of its FSM in any order of events, and one that has stopped
reaches one only by an event the poller had read before (below); drain and close come
only when all is quiet. The lock and the stop handshake of the pool exclude the poller *when
`lock_safe` was not misread*. References and slabs of the manager are exact. Between
two processes, whichever call fails once, whichever request is lost with a passive
endpoint and whenever a side stops, the streams keep their keys apart (while the table
has not grown), the listener listens, and no domain is closed under a stream. The
connector gets through unless its own close hangs or those of all the streams of the
listener do; a stop ends in the destruction of the endpoint unless a close hangs, an
event is fed too late, or the wait for the poller never ends (`ofiw_stop`).

Where code and comments disagree, a run shows it (PROJECT.json, "findings"):

* **One bit for any number of messages** (`sofi.c:911-915`; `ingress_three`).
  Messages that arrive while nanomsg is busy set `NNLATER`; the fetch announces one.
  With three buffers two can arrive, and the second stays unannounced until another
  message comes. With two buffers it cannot happen, which `EveryMessageFetched`
  in `sofi` checks.
* **A disconnected endpoint waits for ever** (`sofi.c:1774-1776`;
  `sofi_disconnect`). See the flush below.
* **`lock_safe` is seen by a thread it was not meant for** (`ofiw.c:83`,
  `197-213`; `ofiw_race`). The poller sets it before it enters the context and clears it
  after it leaves. Another thread in the context in between skips the lock and
  changes the lists, and the poller walks them again meanwhile.
* **`nn_ofiw_stop` and the poller wait for each other** (`ofiw.c:545`;
  `ofiw_stop`): the stop is called in the context, the poller is entering it.
* **A bank that is taken over registers an empty range** (`ofimr.c:282`,
  `136-137`; `ofimr_evict`): closing the old registration resets the range that
  was just written.

Modelled as the code has it, without a run of its own:

* The flush of the sending half stops at the first free context (`sofi.c:425-427`),
  although used contexts come last; unless the window is full it frees nothing. The
  endpoint then counts as non-empty for ever, since completions after an error are
  discarded without being counted. `CloseCompletes` therefore asks nothing of a close on
  an error with sends in transit.
* A send that completes with an error is not counted (`sofi.c:385`). `CreditLost` names
  it and `CloseCompletes` excepts it.
* After a delayed flush nothing runs the end of `nn_sofi_shutdown` again (`sofi.c:975`),
  unless another event comes: excepted in `CloseCompletes` likewise.
* The egress list is linked with the length of the receive queue (`sofi.c:1118`).
  Shorter than the window, it fails sends with `-EAGAIN`, a critical error; longer, it
  writes past the array. `PipeOpenIffContext` and `ImplementsWindow` are hence about
  equal queues, the other properties of Egress about `tx_queue >= rx_queue`.
* "Post all input buffers" (`sofi.c:1719`, and `nn_sofi_ingress_post_all` in the message of
  1722) posts one buffer, and each completion posts one more: the queue never has more than one
  receive at libfabric, whatever its length. The comment and the code disagree; the model
  follows the code, and no property calls either right.
* A buffer is free again when it is fetched, and is posted again while an application
  that received with NN_MSG, as `test/nanomsg_timing.c` does, may still hold it
  (`sofi.c:950`). `app_held` is in the model; no property forbids the overlap.
* A worker's `efd_sync` may stay signalled, and answer the next stop of a worker that is
  started again (`ofiw.c:545-549`): `StopIsSynchronised` is checked and proved for
  workers that are not restarted, as a streaming endpoint uses its own.
* A worker that a handler stops is still fed the rest of its batch (`ofiw.c:199`).
* Unlocking signals the poller before the request is withdrawn (`ofiw.c:109-113`), so
  the poller may park again. The next lock or unlock frees it; a stop waits. `WaitsEnd`
  says where.
* `ofi_mr_mark` locks the bank twice and does not return (`ofimr.c:480`, `485`): state
  "hung".
* A poller that parked a second time after the last unlock keeps `nn_ofiw_pool_term`
  joining it for ever: excepted in `WaitsEnd`.
* A connecting endpoint that is stopped while it waits to retry, or whose retry fails,
  has no streaming endpoint to stop: the STOP action falls through to
  `nn_fsm_bad_source` (`cofi.c:293`), which aborts. `BAD_SOURCE` is that end; `Connects`
  and `StopCompletes` are about a connector that has not met it.
* Offsets given out after the table has grown are not marked (`bofi.c:125-133`), so two
  streams get the same offset and the same memory keys: `KeysExclusive` excepts a table
  that has grown.
* When a passive endpoint cannot be opened, given a queue or bound, the shutdown closes
  a pointer that is NULL or stale (`bofi.c:318`); when `nn_sofi_init` fails, the reaping
  erases from the list an item that is not on it, an assertion; when
  `nn_sofi_start_accept` fails, the rejection reads an info that has been freed, the
  offset stays marked and the active endpoint stays open. An event of the passive endpoint
  that is no connection request, such as an error, has no branch and reaches
  `nn_fsm_bad_action` (`bofi.c:490-491`). `FailsAsKnown` names these six.
* An event fed too late. The poller sets `lock_safe` and then waits for the context with
  what it has read (`ofiw.c:197-198`, `272-273`, `287-288`). A handler that finishes the
  shutdown meanwhile calls `nn_ofiw_stop`, which sees `lock_safe` and does not synchronise
  (`ofiw.c:536`); the event then reaches an FSM that is idle, or freed, and aborts in
  `nn_fsm_bad_state` (`sofi.c:1925`) if nothing worse comes of it. `LateEvent` in `Sofi` is
  that end, and `StreamLife` has it as the only way to abort. The same happens to a
  connection request, or another event of the passive endpoint, when the listener is
  stopped (`bofi.c:339`, `501-502`): `LateRequest` and `LateEvent` in `Bofi`. A single event can
  be late only for a stop by a timer, by `nn_sofi_send` or by the owner; the rest of a
  batch of completions also for a stop by the first of them (`FedAlone`).
* A handler or an owner that waits for the poller inside the context may wait for ever
  (`ofiw_stop`): `Deadlock` in `Bofi` and `Cofi`, named in `StopCompletes`.
* When the domain cannot be opened, the fabric stays open until `ofi_term`;
  `ObjectsOutliveUsers` allows it.
* The keepalive is implemented, although the repository's README says it is not.

Seen in the code and outside the models: `fi_fabric` objects are never closed (`ofi_term`
frees their memory); `hints->fabric_attr->name` is left pointing to freed memory
(`ofiapi.c:124`, `143`); `nn_bofi_destroy` terminates neither its base nor its FSM nor frees the
table of offsets; `nn_sofi_init` ignores failures of `ofi_mr_init` and of the registrations of
its receive buffers (`sofi.c:1081`, `1105`).

## 5. Proofs

All theorems are about `Spec`, safety, with constants restricted only by the
named assumptions of the modules.

| Module | Theorems | For |
|---|---|---|
| `EgressProofs` | `TypeCorrect`, `BusyContextsLast`, `CounterIsExact`, `NoReuseInTransit`, `CallbackIsExpected`, `QuietAfterStop` | `tx_queue >= rx_queue >= 2` |
| | `BackPressureIsExact`, `EgressImplementsWindow` | also `tx_queue = rx_queue` |
| `EgressListProofs` | `LinksAlwaysAgree`, `PointersImplementRing` | `rx_queue >= 2` |
| `IngressProofs` | `TypeCorrect`, `AnnouncementsAreTrue`, `BuffersConserved`, `NoOverwriteBeforeFetch`, `FlushIsNotForgotten`, `NeverDeafAlways`, `DeliversInOrder` | `rx_queue >= 2`, any number of messages, any results of `ofi_recvmsg` |
| `SofiProofs` | `EndpointIsBothHalves` (`EndpointContainsEgress`, `EndpointContainsIngress`) | every value of the constants |
| | `TypeCorrect`, `DrainingIsQuiet`, `CleanCloseIsComplete`, `StoppedIsIdle`, `HalvesAreSafe`, `SofiImplementsLife`, `StopIsExpected`, `EndpointDeliversInOrder`, `EndpointNeverDeaf` | `tx_queue >= rx_queue >= 2`, any timeouts, any faults |
| | `EndpointKeepsWindow` | also `tx_queue = rx_queue` |
| `OfiMrProofs` | `TypeCorrect`, `CountersAreExact`, `SlabsAreExclusive`, `CacheIsSound`, `RegistrationsArePinned` | any number of banks, slabs, handles, messages of one or two ranges, any failures |
| | `CoveredUnlessReused` | as above, `fi_mr_reg` refuses nothing and (`KeepsRanges`) no registered bank gets another range |
| `BofiProofs` | `PagesDisjoint`, `SortsDisjoint`, `TypeCorrect`, `KeysAreExclusive`, `ActiveListens`, `OnlyKnownFailures` | any number of streams, any table, any failures, queues that fit a page |
| `TransportProofs` | `CofiTypeCorrect`, `CofiInStep`: of the connector alone | any failures |
| | `ListenerIsBofi`, `ConnectorIsCofi`, `KeysAreExclusive`, `ActiveListens`, `OnlyKnownFailures`, `AlwaysInStep`, `ObjectsAreSafe` | as the listener and the connector |
| `OfiwPoolProofs` | `TypeCorrect`, `ListsAreExclusive`, `MutexPaired`, `PassIsFresh` | any number of workers, any batches |
| | `StopSynchronises` | also `Restarts = FALSE` |

**Egress.** Lemmas first show what posting, releasing and flushing do to a list:
it stays a list (`MovedIsList`), used contexts stay behind free ones, and the
length of the free prefix changes by one (`PostMoves`, `ReleaseMoves`, `FlushMoves`).
`EgressInv` joins that order with the counter. `CounterMatchesRing` alone is not
inductive: it says nothing of an endpoint that closes cleanly and still handles
completions, and a send that fails there loses its credit, so only a bound is
kept (`FreeUpTo`); the exact form (`FreeExactly`) holds until closing. From
`EgressInv` the invariants follow, the head tells for the whole list
(`HeadTellsAll`), and each action maps to an action of `SendWindow`.

**EgressList.** `ListInv` says that some order of the contexts is the one the links describe:
it starts at the head, ends at the tail, each context's links are its neighbours, the ends
point to NULL. The program keeps no such order; the model reads it off the pointers with a
recursive function (`FollowNext`). That the walk is the order (`FollowIs`) would be an
induction; instead, of the positions at which the two differ the least is taken, and the one
before it is led to the same context by the links. Then each branch of
`nn_sofi_egress_mark_free` and `nn_sofi_egress_mark_busy` has a lemma that names the order
it leaves (`MarkBusyLinks`, `MarkFreeTailLinks`, `MarkFreeHeadLinks`,
`MarkFreeMidLinks`): it keeps `ListInv` and is the step of `EgressRing`.

**Ingress.** `Sorted` says that the four places of a buffer partition the
buffers and that libfabric holds no queued one. `IngressInv` adds what each
state of the FSM admits of the flags (`IdleBeforeConnected`, `OneReceive`,
`FlushedOrDelayed`), without which a flush could not be shown to forget nothing.
Posting, freeing and flushing have a lemma each, each event has a step lemma.
`NeverDeaf` uses what a post leaves behind (`PostedOrOwed`). For `FifoChannel` the
invariant `InOrder` adds that what waits is numbered without gaps up to the last message that
arrived; a lemma for each event says which step of the channel it is.

**Sofi.** Each step of the endpoint is a step of `Egress` or leaves it alone, and
the same for `Ingress`: in particular every critical error in one half comes with
the STOP action of the other. By it, everything proved of a half alone is true
of it inside the endpoint, its refinement included (`HalvesAreSafe`, `EndpointDeliversInOrder`,
`EndpointKeepsWindow`, `EndpointNeverDeaf`). What the FSM decides by is a fact of a half
(`Halves`): an empty counter means that no context is held, the pipe waits for a fetch only
if a message is there, a closing half has nothing posted. With those facts `Endpoint` is
inductive: it says where the socket and both timers are in each state of the FSM, and that
from draining on all is quiet. `DrainIsQuiet` alone is not inductive: it says nothing of the
states in which draining begins, where the timers have to be idle. The FSM only goes
forward (`ForwardOnly`), each step forward is one of `StreamLife`, and only an endpoint
that has stopped with an event read aborts (`RunningNeverAborts`, `EventAfterStop`); `StopIsExpected` is what
`Bofi` and `Cofi` assume of `nn_sofi_stop` in `StreamPhases`.

**OfiwPool.** `LockInv` is who is in the context, when `lock_safe` is set, and, while
it was not misread (`misread`), what each signal not yet consumed says about where
the poller is. `ListsAreExclusive` and `MutexPaired` follow. `SyncInv` adds the
phase of a stop and that no signal of `efd_sync` is left or under way for a worker not stopped yet
(`NoStaleSync`), which is what restarting would break.

**OfiMr.** `Inv` joins the exact counters with what makes counting possible: that
the references to a bank are a finite set, and that a handle that is not live holds
nothing. `AllFit` says that the range of a bank in use holds its data or was reset, the
form of `DescriptorsWithinRange` that is inductive. A describe builds its changes up in a record;
`Account` relates that record to the manager's variables, and `ClaimAccount` shows that each
turn of the loop keeps it. That there is a first free slab and an oldest bank rests on
the well-foundedness of the natural numbers (`LeastNumber`, `OldestExists`). `Pinned` is what
no step may do to a bank in use, from which `RegistrationsArePinned` follows.
`CoveredUnlessReused` delimits what `ofimr_evict` finds: `DescriptorCovers` fails only after a
refused registration, whose range stays in the bank, or after a registered bank was used
again. The invariant is that each bank is registered for exactly its range or has none (`Honest`);
`Sound` carries it through the turns of a describe, and `Reused` says that a bank used again
in an earlier turn is still to be seen when the call ends, so that the hypothesis, which
looks at whole calls, excludes it.

**Bofi.** `PagesDisjoint` and `SortsDisjoint` are arithmetic: keys of different offsets
or of different uses differ. The invariant adds that the offsets of the streams alive
are marked and differ while the table has not grown (`Table`), where the pointer to the
passive endpoint may point in each state (`Passive`), and that an active endpoint
without a passive one has seen a failure (`Known`). One lemma for each event.
`OnlyKnownFailures` has two halves: an abort of an active endpoint has one of six failures
behind it, and an abort of one that was stopped an event or a request read before the stop.

**Transport.** `ConnectorInStep` is inductive of the connector alone once `TypeOK` and the
state before START (`ConnectorFresh`) are added. Every step of the composition is a step of `Bofi` or leaves its variables alone,
and the same for `Cofi` (`ListenerIsBofi`, `ConnectorIsCofi`), so their invariants hold in it.
`ObjectInv` adds that a process that has begun has its fabric and its domain until
its endpoint is destroyed, from which `ObjectsAreSafe` follows.

**Only model-checked.** The liveness properties, which TLAPS does not prove here (nor
ENABLED): `BlockedPipeReopens`, `WaitsEnd`, `SilenceIsNoticed`, `CloseCompletes`,
`EveryMessageFetched`, `Connects`, `StopCompletes`. Every invariant, action property and
refinement of the passing runs has a theorem.

## 6. What is not modelled, and what comes next

Not modelled: the option set of `ofi.c` (it stores and range-checks values; the ranges
are the assumptions on the queues), `ofi_match_fabric` and the parsing of addresses
(pure functions of strings and of what libfabric returns), the partial failures of
`ofi_active_endpoint_open` (one outcome of accepting or connecting), platform code (no
state), tests and patches. Of modelled parts: failures of `nn_sofi_init` in its middle
and of `ofi_mr_init`, error completions of the keepalive packet (`sofi.c:171`: pointer
arithmetic into unrelated fields), and the waitset build of the pool, which `ofi.h` does
not select.

Plan, in this order:

1. In the composition, the theorems of `Sofi` for the streams of `Bofi` and `Cofi`: that a
   stream of `StreamPhases` is a `StreamLife` whose stop is that of `StopIsExpected`.
2. `KeepalivePair`: two endpoints with ticks, a channel and a slow receiver: a receiver
   under back-pressure has no buffer posted for keepalive packets (`sofi.c:1812`).
3. `PoolEndpoint`: the pool with an abstract endpoint that stops its worker from a
   handler and from a timer.
