# TLA+ models of nvshare

This directory holds TLA+ specifications of nvshare (`src/src`). They are checked with TLC. nvshare time-shares one GPU between processes. A per-node scheduler daemon hands out a *GPU lock*. A client library is injected into every CUDA application and blocks GPU submissions while its process does not hold the lock. `nvsharectl` reconfigures the daemon over the same socket.

## 1. The system

| Part | Source | State | Operations |
|---|---|---|---|
| Wire protocol | `comm.h` | fixed-size `struct message`; only `type` drives the protocol | 8 message types |
| Scheduler event loop | `scheduler.c` `main`, `process_msg`, `register_client`, `try_schedule`, `bcast_status`, `delete_client`, `insert_req`, `remove_req` | `clients` list, FCFS `requests` list (head = holder), `lock_held`, `scheduler_on`, `scheduling_round`, `must_reset_timer`, `tq` | accept; one frame per EPOLLIN; hangup/EOF eviction |
| Scheduler timer thread | `scheduler.c` `timer_thr_fn` | locals `drop_lock_sent`, `round_at_start`, deadline | quantum timeout (DROP_LOCK or skip), reset on broadcast |
| Client worker | `client.c` `client_fn` | `scheduler_on`, `own_lock`, `need_lock`, `did_work` (under the process's `global_mutex`) | REGISTER and initial status; LOCK_OK, DROP_LOCK, SCHED_ON, SCHED_OFF |
| Client gate | `client.c` `continue_with_lock`, the gated hooks in `hook.c` | per application thread: waiting on `own_lock_cv` or past the gate | request once per process (`need_lock`), wait, pass (sets `did_work`) |
| Idle releaser | `client.c` `release_early_fn` | `did_work`, `nvml_ok` | restart on activity; NVML utilization probe; sync-time fallback; early LOCK_RELEASED |
| Rate controller | `hook.c` `cuLaunchKernel`, `client.c` `cuda_sync_context` | `kern_since_sync`, `pending_kernel_window` (1..2048) | sync every window-many launches; adapt the window to the sync time |
| Memory shim | `hook.c` `cuMemAlloc`, `cuMemFree`, `cuMemGetInfo`, allocation list | `cuda_allocation_list`, `sum_allocated` | admission check, reporting free = total - reserve |
| CLI | `cli.c` | none | connect, write one SCHED_ON/SCHED_OFF/SET_TQ frame, close |
| Transport | `comm.c`, `common.c` | Unix stream sockets | non-blocking daemon send/receive (any error evicts); blocking client reads/writes |

How the parts interact:
- A client connects and sends REGISTER. It gets back the daemon's status (SCHED_ON or SCHED_OFF).
- When an application thread reaches a gated call without the lock, the process sends one REQ_LOCK. The daemon queues it and, when the lock is free, sends LOCK_OK to the head of the queue.
- The holder gives the lock back in one of two ways:
  - it receives DROP_LOCK (the daemon's timer sends it after a quantum), synchronizes the device and answers LOCK_RELEASED;
  - its idle releaser finds it idle and sends LOCK_RELEASED on its own.
- SCHED_OFF from nvsharectl empties the queue, and every client then runs freely. SCHED_ON brings back gating.

What makes this system hard:
- The daemon and the clients exchange messages asynchronously.
- The daemon has two threads: the event loop and the timer. They share `global_mutex`, and the timer reasons about "the same tenure" through `scheduling_round`.
- Each client has three kinds of thread: the worker, the releaser and the application threads. All of them share `global_mutex`, except the real CUDA call, which runs after the mutex is released.
- Processes die at any moment, and every send failure evicts the peer.
- nvsharectl toggles the scheduler while lock traffic is in flight.

## 2. Modules

| Module | Models | Notes |
|---|---|---|
| `Protocol` | `comm.h` message types | a frame is its type |
| `Scheduler` | the daemon: event loop and timer thread | handlers are functions on a record of the daemon state (`Cur`). C call sequences such as `remove_req(); if (!lock_held) try_schedule();` become function composition, and `Commit` writes the result. `TrySchedule` is recursive: a dead head is evicted and the next head is tried. |
| `Client` | client worker, gate, idle releaser, the real launch and the real copies | one process per element of `Clients`, with application threads `Threads`. `Launch` is the rest of `cuLaunchKernel` (it may synchronize); `Memcpy` is the rest of any `cuMemcpy*` hook (it never does). |
| `NvShare` | composition: daemon, clients, nvsharectl peers, channels | `INSTANCE`s `Scheduler` and `Client` over shared variables. It defines the invariants, the liveness properties and the refinement `FcfsLock`. |
| `GpuLock` | what the daemon promises: a first-come first-served lock | `queue`, `holder` (a set of at most one), `on`; actions `Request`, `Leave(S)` (any set of queued requesters leaves at once), `TurnOff`, `TurnOn` |
| `MemShim` | `hook.c` memory shim of one process | `cuMemAlloc`, `cuMemFree`, `cuMemGetInfo`, `insert_cuda_allocation`, `remove_cuda_allocation` |
| `RateController` | `hook.c` kernel-rate controller of one process, and the reset in `client.c` `cuda_sync_context` | per-thread steps of `cuLaunchKernel` after the gate; a FIFO device |
| `MCNvShare`, `MCMemShim`, `MCRateController` | model values, peer scripts, symmetry, small size sets | one `.cfg` per run |

Correspondence of state:

| Model | Code |
|---|---|
| `requests` (sequence of connections) | `requests` list |
| `table[k]` ∈ none/unreg/reg/gone | a `clients` record before accept, with `UNREGISTERED` id, with an id, deleted |
| `round_moved` | `round_at_start != scheduling_round` |
| `drop_lock_sent` | the timer's local of that name |
| `toDaemon[k]`, `toClient[k]` | the bytes in the two directions of connection `k`, as frames in FIFO order |
| `sock[k]` | whether the peer process still has its end open |
| `pending` | the client connections of the last `epoll_wait` whose events the loop has not handled yet (`events[i..num_fds]`) |
| `loop_locked` | the event loop holds `global_mutex` (lines 606-668), so the timer cannot run |
| `pc[c][t]` | where application thread `t` of process `c` is: idle, waiting in `continue_with_lock` (`gate_wait`), or between the gate and the end of the real call (`launch`) |
| `woken[c][t]` | `own_lock_cv` was broadcast since `t` started waiting |
| `inflight[c]` | `c` has submitted work the device has not finished |
| `tenure_dropped` | ghost variable: a DROP_LOCK was sent in the current tenure |

Abstractions:
- **Time.** Quanta and intervals are not measured. The timer's wait may time out at any step. A 0 return happens only when a broadcast set `must_reset_timer`, because every broadcast in the daemon sets it; spurious wakeups resume the same wait and are stutter steps. The releaser is modelled the same way.
- **Device.** The device is reduced to `inflight`:
  - a synchronize empties it;
  - NVML utilization is nonzero iff some process has work in flight;
  - the fallback sync takes ≥ 100 ms only if the process itself has work in flight.
- **Rate controller.** In the composed model a launch either synchronizes or leaves work in flight, which covers every window the controller can be in. The controller itself is the separate module `RateController` (section 2b).
- **Transport.** Local stream sockets keep frames in order. A daemon send fails when the peer has closed its end (EPIPE/ECONNRESET), or with EAGAIN when the client's receive buffer already holds `SockCap` unread frames (`SendOk`). Either failure makes `send_message` return -1 and the handler deletes the client: `delete_client` closes the fd. The client worker reads the frames sent before that and then sees end of file, and `true_or_exit` ends the process (`ClientEof`, `client.c:292`).
- **Payloads.** The 64-bit id, pod names and the TQ value are abstracted away. SET_TQ from nvsharectl always parses, and its effect on the protocol is the timer reset.
- **Atomicity.** Each handler is one atomic step under `global_mutex`. The loop's `epoll_wait` (`scheduler.c:597`) runs without the mutex, which is taken at line 606. So `Poll` is a step of its own: it records in `pending` every connection that is ready, at most `MaxBatch` (`EPOLL_MAX_EVENTS` is 32). The timer thread may run between `Poll` and the first handler (`loop_locked` is FALSE), but not later in the batch. Client processes run at any time. A handler takes the record from `events[i].data.ptr` (line 642) without a check. A pending connection whose record was deleted since `Poll` is therefore a use of freed memory, and the model goes no further (no handler is enabled for it). `EpollUnlocked = FALSE` collapses `Poll` and the handling of one event into a single step. The toggle run uses it because nothing there can delete a record: no process exits, no send fails and no second REGISTER is sent. Every step then commutes with `Poll`, so the collapse reaches the same states without the intermediate ones, and it saves half the run's time.

## 2b. The component modules

**MemShim.** State: `got_max_mem_size` (the static flag of `cuMemAlloc`), `nvshare_size_mem_allocatable` (the cached cap), `sum_allocated`, `cuda_allocation_list` (a sequence of `[ptr, size]` in `LL_APPEND` order), and `enable_single_oversub` (read once by `initialize_libnvshare`). Each hook is one step. spec.md says allocations and frees are not concurrent, so calls are serialized.
- Sizes are counted in units of 512 MiB, so `MEMINFO_RESERVE_MIB` (1536) is `Reserve = 3`.
- `size_t` is `SizeBits` wide, and every `size_t` expression is taken modulo `Wrap = 2^SizeBits`: the subtraction in `cuMemGetInfo`, the sum in the admission test, and the updates of `sum_allocated`.
- `cuMemGetInfo` may fail (`InfoResults`). `cuda_driver_check_error` only logs, so `*free = *total - reserve` is still computed. Here `*total` is `cuMemAlloc`'s uninitialized local `junk`, so the model chooses any `size_t` for it.
- `real_cuMemAllocManaged` may fail for any request, and fails for requests above `ManagedLimit`. A failure leaves the list alone. `real_cuMemFree` fails for a pointer that is not allocated.

**RateController.** Per application thread: `tpc` ∈ idle/count/sync/adapt. Also `kcount_owner` (`kcount_mutex`), `kern_since_sync`, `pending_kernel_window`, and a FIFO device (`queued`, and per thread the kernels `ahead` of its synchronize).
- `RealLaunch` is the real launch.
- `Count` is the increment under the mutex and the window test.
- `SyncReturn` is `cuCtxSynchronize` returning. It chooses the duration class (≥ `KERN_SYNC_DURATION_BIG`, ≥ the step-down threshold, or shorter) and reads the window.
- `Adapt` stores the new window, zeroes the count and unlocks.
- `CudaSyncContext` is `pending_kernel_window = 1` from the client thread or the releaser, taken without `kcount_mutex`. It can therefore fall between the controller's read and its store. The C data race is modelled as this interleaving, since each store is of one aligned `int`.
- The ghost `reset_unconsumed` records a reset that no window decision has yet read, or matched by deciding as if it had read 1.

**Refinement.** `NvShare` instantiates `GpuLock` with `queue <- requests`, `holder <- Holder` (the head of `requests` when `lock_held`), `on <- scheduler_on`. `FcfsLock == Lock!LockSpec` is checked as a PROPERTY.
- Every daemon step is a `GpuLock` step or a stutter: insert_req appends, and remove_req, eviction and `bcast_status` failures remove any set of requesters.
- The holder is the head exactly when the queue is non-empty.

## 3. Runs

All runs use model values `c1, c2` (client processes), `t1, t2` (threads) and `p1` (an nvsharectl or other non-client connection). Symmetry is over clients (and threads). It is sound because the properties and scripts never name a particular client.

| Run | cfg | Expect | Checks | Shows |
|---|---|---|---|---|
| threads | `MCNvShare_threads.cfg` | pass | TypeOK, OwnerIsHolder, RequestNotLost, WaitersCovered, WorkConserving, FcfsLock | 2 processes × 2 threads, epoll batches of up to two events: single owner, no lost request or stranded waiter, daemon never idle with a queue (0.25M states) |
| crash | `MCNvShare_crash.cfg` | pass | OwnerIsHolder, WorkConserving, FcfsLock | processes exit or are killed at any step, plus one `nvsharectl -T`. Eviction through hangup, failed LOCK_OK and failed DROP_LOCK leaves one owner and a served queue, and requests are served in order. This holds in every behaviour up to the first use of a freed record (`CONSTRAINT NoStaleEvent`). That point is finding 3, and the daemon's state past it means nothing (1.4M states) |
| toggle | `MCNvShare_toggle.cfg` | pass | OwnerIsHolderOrOffPending, RequestNotLost, WaitersCovered, WorkConserving, FcfsLock | `-S off` then `-S on` during lock traffic, with `EpollUnlocked = FALSE` (1.3M states). FcfsLock covers the stale REQ_LOCK that reaches the daemon after SCHED_ON: without `insert_req`'s dedup it would be queued twice. The escape "a SCHED_OFF is still on its way" is needed: after off/on the daemon may grant the lock while another client, which has not read the two frames yet, still runs with `own_lock = 1` from off mode. The spec does not address this window. |
| preempt | `MCNvShare_preempt.cfg` | violation | PreemptionArmed | timer ETIMEDOUT racing the LOCK_OK broadcast leaves a tenure without DROP_LOCK |
| drain | `MCNvShare_drain.cfg` | violation | DrainedHandover | a thread past the gate launches after the handover synchronize |
| staleevent | `MCNvShare_staleevent.cfg` | violation | NoStaleEvent | the crash configuration, with batches of up to two events: the timer frees a dead holder's record after `epoll_wait` has reported its hangup |
| liveness | `MCNvShare_liveness.cfg` | pass | GrantedOnceOthersQuiet | under the fairness below, a process that needs the lock gets it once the other processes stop launching (59K states, no symmetry, which is unsound for liveness checking) |
| evict | `MCNvShare_evict.cfg` | pass | OwnerIsHolderOrEvicted, EvictedClientExits | with a one-frame socket buffer, so that EAGAIN evicts live clients: every owner is the holder or an evicted client, and under `EvictionSpec` an evicted client exits (80K states, no symmetry) |
| memshim | `MCMemShim_mem.cfg` | pass | SumMatchesList, AdmissionBounded | a 4 GiB device, 5-bit `size_t`, sizes {1, 2, 8, Wrap-1} units, 4 pointers: the running total matches the list and the cap holds without oversubscription |
| underflow | `MCMemShim_underflow.cfg` | violation | AdmissionBounded | a 1 GiB device: `total - reserve` wraps and the cap is disabled |
| rate | `MCRateController_rate.cfg` | pass | TypeOK, BacklogBounded | 3 threads, `KERN_SYNC_WINDOW_MAX` scaled to 4: the window stays a power of two in 1..MAX, and the device backlog stays ≤ MAX + threads - 1 (0.12M states) |
| lostreset | `MCRateController_lostreset.cfg` | violation | HandoverResetsWindow | a controller that read the window before `cuda_sync_context`'s reset stores a window derived from the old value after it |

`threads` and `crash` also check **FcfsLock**, the refinement of `GpuLock`.

What the properties mean:
- **OwnerIsHolder** (no toggles): every running client with `own_lock` is the daemon's holder (head of `requests` with `lock_held`). This implies mutual exclusion. It ties the client's flag to the daemon's queue across all the handshakes, early release, stale DROP_LOCKs and evictions.
- **OwnerIsHolderOrOffPending** is the same with toggles: a client that believes the scheduler is on and has `own_lock` is the holder, unless a SCHED_OFF is still on its way to it.
- **RequestNotLost**: a client with `need_lock` (which suppresses further REQ_LOCKs) has its request in flight, queued, or granted, or a SCHED_OFF is coming.
- **WaitersCovered**: a thread blocked at the gate has been broadcast to, or its process has an outstanding request.
- **WorkConserving**: with the scheduler on, `lock_held` holds iff `requests` is non-empty.
- **NoStaleEvent**: no connection that `epoll_wait` reported and the loop has not yet handled has had its record deleted since. The crash run uses it as a CONSTRAINT, and the staleevent run checks it as an invariant.
- **PreemptionArmed**: after the timer restarts with `drop_lock_sent` set, the current tenure has really been sent DROP_LOCK.
- **FcfsLock**: the daemon's queue, holder and on/off flag behave as the first-come first-served lock of `GpuLock`. No request overtakes another. The holder is always the oldest request, and it changes only when that request leaves.
- **OwnerIsHolderOrEvicted**: every running process that believes it owns the GPU is the daemon's holder, or a client the daemon has deleted. EAGAIN eviction is deliberate ("we're strict", `scheduler.c:243`). The evicted holder keeps `own_lock` until it reads end of file, and the daemon grants the next client at once, so two processes use the GPU for that window. OwnerIsHolder fails in the `evict` run for that reason, and this property bounds the overlap to evicted clients.
- **EvictedClientExits**: a running client whose record was deleted eventually exits. This is the only end of the overlap above, and it needs `delete_client` to close the fd.
- **GrantedOnceOthersQuiet**: for every client `c`, if from some point on no other process is inside a gated call, then `need_lock[c] ~> own_lock[c]`. It is conditional because the unconditional form fails through finding 1. The early releaser then frees the GPU once the holder is idle, and this is what the property checks.
- **SumMatchesList**: `sum_allocated` equals the `size_t` sum of the sizes in the list, after any sequence of successful, refused and failed allocations and frees.
- **AdmissionBounded**: without `NVSHARE_ENABLE_SINGLE_OVERSUB`, the sizes in the list add up (as integers) to at most the device memory minus the reserve.
- **BacklogBounded**: kernels submitted and not finished ≤ `KERN_SYNC_WINDOW_MAX + |Threads| - 1`. The controller's purpose is to keep the handover synchronize short.
- **HandoverResetsWindow**: after `cuda_sync_context`, the window stays 1 until a window decision reads it.
- **DrainedHandover**: a client that lost the lock with the scheduler on has no work in flight (the spec: "no in-flight work outlives the handover").

Each property of a passing run has a mutant in `PROJECT.json`. A mutant is a variant of one handler that drops a broadcast, a reset, a dedup or a reschedule, and TLC finds the property violated under the run's cfg.

### Bounds

Why these bounds:
- **Two clients** are enough for every two-party interleaving: a holder and a waiter, an evictee and a successor.
- **Two threads** per process exercise `need_lock`: a second thread must wait without sending a second REQ_LOCK. This run forbids exits to stay under five minutes. The crash run has one thread and exits at any step.
- **One peer connection.** The toggle script sends SCHED_OFF then SCHED_ON in that order. A SCHED_ON read first is a no-op, so this order is the interesting one.
- **Toggles and exits are not combined.** The combined space (over 4M states) exceeds the budget. The toggle run forbids exits; the crash run has no toggles.
- **NVML starts working** (`NvmlInit = {TRUE}`). Its permanent failure is a step of the releaser, so the fallback probe is reached too.
- **Batches.** `MaxBatch = 2` is used in `threads`, `liveness` and `staleevent`: `epoll_wait` reports every ready connection, as the code's 32-event buffer does. In `liveness` this also matters for fairness, because with fewer slots than ready connections a poll could skip the same connection for ever. Linux's level-triggered epoll rotates its ready list, so the code does not do that. `crash`, `evict`, `preempt` and `drain` use one event per poll, which is enough to reach the timer's deletion before the loop takes the mutex.
- **MemShim**: `SizeBits = 5` is the smallest word in which a 4 GiB device (8 units) fits. Beside it, a request of `Wrap - 1` units wraps `sum_allocated + bytesize`. Four pointers allow three live allocations plus a freed pointer. `ManagedLimit = 16` lets the driver refuse some requests.
- **RateController**: with `KERN_SYNC_WINDOW_MAX = 4` the cap is reached after two doublings, and the halving, the reset to 1 and the cap all occur. Three threads let two launches land during one synchronize, which is the case that makes the backlog exceed the window.
- **Channels** are sequences. A client's receive buffer holds `SockCap` frames: 1 in `evict`, so that a second frame to a slow reader is refused with EAGAIN, and 8 elsewhere, which no run reaches (their state counts equal those without the bound). Each client has at most one request, release or grant in flight per tenure, so the channels stay short; the reachable state spaces are finite.

### Fairness

`NvShare!Spec` assumes weak fairness of:
- the daemon's `epoll_wait`, event handling and timer;
- each client's worker and releaser;
- a woken application thread reacquiring the mutex;
- a thread past the gate finishing its call;
- the device finishing work;
- an evicted client's worker reading end of file (it is blocked in `read`).

The daemon's loop and the condition-variable waits are woken by epoll and broadcasts, which justifies this. Application calls, process exits and nvsharectl are environment actions and get no fairness. The liveness run uses this `Spec` (SPECIFICATION in its cfg), without exits or peers, and without symmetry.

The `evict` run uses `EvictionSpec`, which assumes much less: weak fairness of each client's worker reading a frame, and of its end-of-file exit. The daemon, the timer, the releaser and the application threads may stop at any point. A property proved under fewer assumptions is stronger. Checking it under the full `Fairness` with a one-frame buffer takes longer than the five-minute budget, so the two liveness questions are separate runs.

## 4. Findings

1. **preempt (code bug).** In `timer_thr_fn` (`scheduler.c:352`) the `drop_lock_sent` test comes before the round check, and the `continue` re-arms with the new round. Suppose the quantum's ETIMEDOUT races the `try_schedule` broadcast of the next grant. Then the new holder's tenure starts with `drop_lock_sent = 1` and is never preempted. Another waiter is then served only if the holder goes idle or exits.
2. **drain (code bug).** `cuLaunchKernel` (`hook.c:777-778`) calls the real launch after `continue_with_lock` has released the mutex. DROP_LOCK's `cuda_sync_context` can complete in between, and the kernel then runs during the next client's tenure. An early release does the same.
3. **staleevent (code bug).** `main` calls `epoll_wait` (`scheduler.c:597`) without `global_mutex`, and takes `client = events[i].data.ptr` (line 642) without checking that the record still exists.
   - **Timer path** (the trace TLC reports, one client and single events): the lock holder exits and `epoll_wait` reports its hangup. Before the loop takes the mutex, the quantum expires. The timer's DROP_LOCK fails and `delete_client` frees the record (lines 371-373). The loop then calls `receive_message` or `delete_client` on the freed record.
   - **Batch path:** the holder and the next queued client die together. The holder's hangup calls `try_schedule`, the LOCK_OK to the dead successor fails, and `delete_client` frees the successor while its EPOLLHUP is still in `events[]`. This path is also reachable under this cfg: checking `loop_locked => NoStaleEvent` finds it.
   - The model stops at that point, because the behaviour is undefined. A likely outcome is that `epoll_ctl(DEL)` on the closed fd fails inside `true_or_exit` and the daemon exits.
4. **reregister (code bug).** A REGISTER on an already-registered connection evicts it (`scheduler.c:406`) without `try_schedule`. If it was the holder, the queue stalls with `lock_held = 0`. No run checks this any more, because a second REGISTER needs a connection that is not an nvshare client: neither the client library nor nvsharectl sends one. To reproduce it, take `MCNvShare_toggle.cfg`, set `PeerScript <- MCReRegisterScript`, and check `INVARIANT WorkConserving` alone. TLC then finds the violation. It is kept as the hazard at `scheduler.c:406`.

5. **underflow (code bug).** `cuMemGetInfo` computes `*free = *total - reserve_mib` in `size_t` (`hook.c:741`). On a device smaller than 1536 MiB this wraps to almost 2^64. `cuMemAlloc` caches the result as its cap and never refuses, while spec.md says it returns OUT_OF_MEMORY beyond `total - RESERVE`.
6. **lostreset (code bug).** `cuda_sync_context` stores `pending_kernel_window = 1` without `kcount_mutex` (`client.c:62`). A controller that had read the window before the store overwrites it with a doubled or halved old value. The handover then does not reset the rate controller, which spec.md says it does.

Two related defects are recorded as hazards, not runs. The reregister defect (finding 4) is one. The other concerns `cuMemGetInfo`. `cuMemAlloc` sets `got_max_mem_size` even when the first `cuMemGetInfo` fails (`hook.c:659`), and then caches a cap computed from the uninitialized `junk`. With `InfoResults = {FALSE, TRUE}`, TLC finds AdmissionBounded violated at the first allocation.

## 5. Not modelled

Hazards without a property:
- **The releaser right after LOCK_OK (`client.c:301`).** Time is abstract, so two releaser intervals can elapse before a woken thread runs, whether or not `did_work` is set on LOCK_OK. No property tells that protection apart from its absence.
- **The wrap in the cap check (`hook.c:662`).** Only a request near 2^64 bytes wraps `sum_allocated + bytesize`. The driver refuses such a request (`ManagedLimit`), so the wrapped check never admits memory.

Not modelled:
- **Asynchronous copies and the backlog.** `cuMemcpyAsync` passes the gate but not the rate controller, so a process can queue unbounded copy work before a DROP_LOCK synchronize. `RateController` counts kernels only.
- **Partial frames.** A short send into a nearly full buffer is treated by `send_message` (`scheduler.c:237`) like EAGAIN: it returns -1 and the client is deleted. The model folds it into the `SendOk` failure. The bytes of a partial frame that reach the client are not modelled: the client exits on the short read either way.
- **Composition of the component modules.** `MemShim` and `RateController` are checked on their own. Their state does not feed the lock protocol, except through the device abstraction `inflight`.
- **Symbol interposition, xopt, logging, socket path setup.** These are I/O without protocol state.
