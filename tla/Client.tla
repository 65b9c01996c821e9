------------------------------- MODULE Client -------------------------------
(***************************************************************************)
(* The nvshare client injected into every CUDA application                 *)
(* (src/src/client.c and the gated hooks of src/src/hook.c).               *)
(*                                                                         *)
(* Per client process: the client thread (client_fn) that registers and    *)
(* then applies the scheduler's frames to the gate, the early-release      *)
(* thread (release_early_fn), and application threads that call gated      *)
(* CUDA functions (continue_with_lock, then the real call).  All of them   *)
(* but the real CUDA call run under the process's global_mutex, so each    *)
(* step below is atomic; the real call in cuLaunchKernel runs after the    *)
(* mutex is released and is a step of its own (Launch, Memcpy).            *)
(*                                                                         *)
(* The device is abstracted to whether a process has submitted work that   *)
(* has not completed (inflight).  cuCtxSynchronize waits for that work, so *)
(* a synchronize empties it.                                               *)
(***************************************************************************)
EXTENDS Protocol, Naturals

CONSTANTS
  Clients,                \* the client processes
  Threads,                \* application threads of each process
  NvmlInit                \* outcomes of nvmlInit at thread start (TRUE: success)

VARIABLES
  cstate,                 \* "init" | "registering" | "running" | "dead"
  cl_scheduler_on,        \* client.c scheduler_on
  own_lock, need_lock, did_work, nvml_ok,
  pc,                     \* [Clients -> [Threads -> "idle"|"gate_wait"|"launch"]]
  woken,                  \* own_lock_cv was broadcast since the thread began waiting
  inflight,               \* submitted work of the process not yet complete
  toDaemon, toClient, sock

clientVars == <<cstate, cl_scheduler_on, own_lock, need_lock, did_work,
                nvml_ok, pc, woken, inflight>>

Write(c, m) == toDaemon' = [toDaemon EXCEPT ![c] = Append(@, m)]

\* pthread_cond_broadcast(&own_lock_cv): every waiting thread may now run.
WakeWaiters(c) ==
  woken' = [woken EXCEPT ![c] = [t \in Threads |-> pc[c][t] = "gate_wait"]]

-----------------------------------------------------------------------------
(* client_fn: connect, REGISTER, initial status.                           *)

Connect(c) ==
  /\ cstate[c] = "init"
  /\ cstate' = [cstate EXCEPT ![c] = "registering"]
  /\ sock' = [sock EXCEPT ![c] = "open"]
  /\ Write(c, "REGISTER")
  /\ UNCHANGED <<cl_scheduler_on, own_lock, need_lock, did_work, nvml_ok,
                 pc, woken, inflight,
                 toClient>>

\* The reply to REGISTER; anything but a status frame is log_fatal.
RecvInitial(c) ==
  /\ cstate[c] = "registering"
  /\ toClient[c] # <<>>
  /\ LET m == Head(toClient[c]) IN
       /\ cstate' = [cstate EXCEPT ![c] =
                       IF m \in {"SCHED_ON", "SCHED_OFF"} THEN "running" ELSE "dead"]
       /\ cl_scheduler_on' = [cl_scheduler_on EXCEPT ![c] = (m = "SCHED_ON")]
       /\ own_lock' = [own_lock EXCEPT ![c] = (m = "SCHED_OFF")]
       /\ need_lock' = [need_lock EXCEPT ![c] = FALSE]
  /\ toClient' = [toClient EXCEPT ![c] = Tail(@)]
  /\ UNCHANGED <<did_work, nvml_ok, pc, woken, inflight,
                 toDaemon, sock>>

\* The receive loop of client_fn: one frame under global_mutex.

\* Variant: LOCK_OK without the own_lock_cv broadcast.
OnLockOkNoBroadcast(c) ==
  /\ need_lock' = [need_lock EXCEPT ![c] = FALSE]
  /\ own_lock' = [own_lock EXCEPT ![c] = TRUE]
  /\ did_work' = [did_work EXCEPT ![c] = TRUE]
  /\ UNCHANGED <<cl_scheduler_on, woken, inflight, toDaemon>>

OnLockOk(c) ==
  /\ need_lock' = [need_lock EXCEPT ![c] = FALSE]
  /\ own_lock' = [own_lock EXCEPT ![c] = TRUE]
  /\ did_work' = [did_work EXCEPT ![c] = TRUE]
  /\ WakeWaiters(c)
  /\ UNCHANGED <<cl_scheduler_on, inflight, toDaemon>>

\* Variant: DROP_LOCK answered without clearing own_lock.
OnDropLockKeepsLock(c) ==
  IF own_lock[c]
  THEN /\ inflight' = [inflight EXCEPT ![c] = FALSE]
       /\ Write(c, "LOCK_RELEASED")
       /\ UNCHANGED <<cl_scheduler_on, own_lock, need_lock, did_work, woken>>
  ELSE UNCHANGED <<cl_scheduler_on, own_lock, need_lock, did_work, woken,
                   inflight, toDaemon>>

\* Variant: the reply leaves out_msg.type as zeroed after registration
\* (type 0, no member of enum message_type).
OnDropLockUntyped(c) ==
  IF own_lock[c]
  THEN /\ own_lock' = [own_lock EXCEPT ![c] = FALSE]
       /\ inflight' = [inflight EXCEPT ![c] = FALSE]
       /\ Write(c, "TYPE_0")
       /\ UNCHANGED <<cl_scheduler_on, need_lock, did_work, woken>>
  ELSE UNCHANGED <<cl_scheduler_on, own_lock, need_lock, did_work, woken,
                   inflight, toDaemon>>

\* DROP_LOCK: block submissions, cuda_sync_context, then LOCK_RELEASED.
OnDropLock(c) ==
  IF own_lock[c]
  THEN /\ own_lock' = [own_lock EXCEPT ![c] = FALSE]
       /\ inflight' = [inflight EXCEPT ![c] = FALSE]
       /\ Write(c, "LOCK_RELEASED")
       /\ UNCHANGED <<cl_scheduler_on, need_lock, did_work, woken>>
  ELSE UNCHANGED <<cl_scheduler_on, own_lock, need_lock, did_work, woken,
                   inflight, toDaemon>>

\* Variant: SCHED_ON (was off) that leaves own_lock set.
OnSchedOnKeepsLock(c) ==
  /\ IF ~cl_scheduler_on[c]
     THEN /\ cl_scheduler_on' = [cl_scheduler_on EXCEPT ![c] = TRUE]
          /\ need_lock' = [need_lock EXCEPT ![c] = FALSE]
          /\ UNCHANGED own_lock
     ELSE UNCHANGED <<cl_scheduler_on, need_lock, own_lock>>
  /\ UNCHANGED <<did_work, woken, inflight, toDaemon>>

OnSchedOn(c) ==
  /\ IF ~cl_scheduler_on[c]
     THEN /\ cl_scheduler_on' = [cl_scheduler_on EXCEPT ![c] = TRUE]
          /\ need_lock' = [need_lock EXCEPT ![c] = FALSE]
          /\ own_lock' = [own_lock EXCEPT ![c] = FALSE]
     ELSE UNCHANGED <<cl_scheduler_on, need_lock, own_lock>>
  /\ UNCHANGED <<did_work, woken, inflight, toDaemon>>

\* Variant: SCHED_OFF (was on) without the own_lock_cv broadcast.
OnSchedOffNoBroadcast(c) ==
  /\ IF cl_scheduler_on[c]
     THEN /\ cl_scheduler_on' = [cl_scheduler_on EXCEPT ![c] = FALSE]
          /\ own_lock' = [own_lock EXCEPT ![c] = TRUE]
          /\ need_lock' = [need_lock EXCEPT ![c] = FALSE]
     ELSE UNCHANGED <<cl_scheduler_on, own_lock, need_lock>>
  /\ UNCHANGED <<did_work, woken, inflight, toDaemon>>

OnSchedOff(c) ==
  /\ IF cl_scheduler_on[c]
     THEN /\ cl_scheduler_on' = [cl_scheduler_on EXCEPT ![c] = FALSE]
          /\ own_lock' = [own_lock EXCEPT ![c] = TRUE]
          /\ need_lock' = [need_lock EXCEPT ![c] = FALSE]
          /\ WakeWaiters(c)
     ELSE UNCHANGED <<cl_scheduler_on, own_lock, need_lock, woken>>
  /\ UNCHANGED <<did_work, inflight, toDaemon>>

WorkerRecv(c) ==
  /\ cstate[c] = "running"
  /\ toClient[c] # <<>>
  /\ LET m == Head(toClient[c]) IN
       CASE m = "LOCK_OK"   -> OnLockOk(c)
         [] m = "DROP_LOCK" -> OnDropLock(c)
         [] m = "SCHED_ON"  -> OnSchedOn(c)
         [] m = "SCHED_OFF" -> OnSchedOff(c)
         [] OTHER -> UNCHANGED <<cl_scheduler_on, own_lock, need_lock, did_work,
                                 woken, inflight, toDaemon>>
  /\ toClient' = [toClient EXCEPT ![c] = Tail(@)]
  /\ UNCHANGED <<cstate, nvml_ok, pc, sock>>

-----------------------------------------------------------------------------
(* release_early_fn.  Restart is the top of its loop (did_work = 0).       *)

\* pthread_cond_timedwait returned 0 with did_work set: the timer restarts.
RelWake(c) ==
  /\ cstate[c] = "running"
  /\ did_work[c]
  /\ did_work' = [did_work EXCEPT ![c] = FALSE]
  /\ UNCHANGED <<cstate, cl_scheduler_on, own_lock, need_lock, nvml_ok, pc,
                 woken, inflight,
                 toDaemon, toClient, sock>>

\* Variant: own_lock dropped without telling the daemon.
ReleaseEarlyUnannounced(c) ==
  /\ UNCHANGED toDaemon
  /\ own_lock' = [own_lock EXCEPT ![c] = FALSE]

\* Both probes found the device idle: LOCK_RELEASED, then own_lock = 0.
ReleaseEarly(c) ==
  /\ Write(c, "LOCK_RELEASED")
  /\ own_lock' = [own_lock EXCEPT ![c] = FALSE]

\* ETIMEDOUT: the interval passed.
RelTimeout(c) ==
  /\ cstate[c] = "running"
  /\ did_work' = [did_work EXCEPT ![c] = FALSE]
  /\ \/ /\ ~cl_scheduler_on[c] \/ ~own_lock[c] \/ did_work[c]
        /\ UNCHANGED <<own_lock, nvml_ok, inflight, toDaemon>>
     \* NVML: the query fails (NVML is dropped for good) or reports the
     \* device-wide utilization, which is nonzero while any work runs.
     \/ /\ cl_scheduler_on[c] /\ own_lock[c] /\ ~did_work[c] /\ nvml_ok[c]
        /\ \/ /\ nvml_ok' = [nvml_ok EXCEPT ![c] = FALSE]
              /\ UNCHANGED <<own_lock, toDaemon>>
           \/ /\ \E d \in Clients : inflight[d]
              /\ UNCHANGED <<own_lock, nvml_ok, toDaemon>>
           \/ /\ \A d \in Clients : ~inflight[d]
              /\ ReleaseEarly(c)
              /\ UNCHANGED nvml_ok
        /\ UNCHANGED <<inflight>>
     \* Fallback: time cuda_sync_context; >= 100 ms means busy.  Only a
     \* process with work still running can take that long.
     \/ /\ cl_scheduler_on[c] /\ own_lock[c] /\ ~did_work[c] /\ ~nvml_ok[c]
        /\ inflight' = [inflight EXCEPT ![c] = FALSE]
        /\ \/ /\ inflight[c]
              /\ UNCHANGED <<own_lock, toDaemon>>
           \/ ReleaseEarly(c)
        /\ UNCHANGED nvml_ok
  /\ UNCHANGED <<cstate, cl_scheduler_on, need_lock, pc, woken,
                 toClient, sock>>

-----------------------------------------------------------------------------
(* Application threads: continue_with_lock, then the real CUDA call.       *)

\* Pass the gate: did_work = 1 and release_early_cv is broadcast.
PassGate(c, t) ==
  /\ did_work' = [did_work EXCEPT ![c] = TRUE]
  /\ pc' = [pc EXCEPT ![c][t] = "launch"]
  /\ UNCHANGED <<need_lock, toDaemon>>

\* One turn of the while (own_lock == 0) loop: request once, then wait.
BlockAtGate(c, t) ==
  /\ pc' = [pc EXCEPT ![c][t] = "gate_wait"]
  /\ UNCHANGED did_work
  /\ IF need_lock[c] THEN UNCHANGED <<need_lock, toDaemon>>
     ELSE /\ need_lock' = [need_lock EXCEPT ![c] = TRUE]
          /\ Write(c, "REQ_LOCK")

\* A gated hook (cuLaunchKernel, cuMemcpy*) enters continue_with_lock.
AppCall(c, t) ==
  /\ cstate[c] = "running"
  /\ pc[c][t] = "idle"
  /\ IF own_lock[c] THEN PassGate(c, t) ELSE BlockAtGate(c, t)
  /\ woken' = [woken EXCEPT ![c][t] = FALSE]
  /\ UNCHANGED <<cstate, cl_scheduler_on, own_lock, nvml_ok, inflight,
                 toClient, sock>>

\* A waiting thread returns from pthread_cond_wait and re-tests own_lock.
AppWake(c, t) ==
  /\ cstate[c] = "running"
  /\ pc[c][t] = "gate_wait"
  /\ woken[c][t]
  /\ IF own_lock[c] THEN PassGate(c, t) ELSE BlockAtGate(c, t)
  /\ woken' = [woken EXCEPT ![c][t] = FALSE]
  /\ UNCHANGED <<cstate, cl_scheduler_on, own_lock, nvml_ok, inflight,
                 toClient, sock>>

\* The rest of cuLaunchKernel, after the global mutex is released: the real
\* launch, then the rate controller.  Whether the controller synchronizes
\* depends on a window of up to 2048 kernels (RateController models it);
\* here it either leaves the kernel running or waits for the device.
Launch(c, t) ==
  /\ cstate[c] = "running"
  /\ pc[c][t] = "launch"
  /\ pc' = [pc EXCEPT ![c][t] = "idle"]
  /\ \E synced \in BOOLEAN : inflight' = [inflight EXCEPT ![c] = ~synced]
  /\ UNCHANGED <<cstate, cl_scheduler_on, own_lock, need_lock, did_work,
                 nvml_ok, woken, toDaemon, toClient, sock>>

\* The rest of a gated copy (cuMemcpy, cuMemcpyDtoH/HtoD/DtoD and their
\* Async forms) after the gate: the real copy and nothing else.  A
\* synchronous copy returns when it is done and leaves earlier work as it
\* was; an asynchronous one leaves the copy running.  No rate controller
\* and no synchronize follow, so a copy never empties the device.
Memcpy(c, t) ==
  /\ cstate[c] = "running"
  /\ pc[c][t] = "launch"
  /\ pc' = [pc EXCEPT ![c][t] = "idle"]
  /\ \E async \in BOOLEAN : inflight' = [inflight EXCEPT ![c] = @ \/ async]
  /\ UNCHANGED <<cstate, cl_scheduler_on, own_lock, need_lock, did_work,
                 nvml_ok, woken, toDaemon, toClient, sock>>

\* The device finishes the work of a process.
Complete(c) ==
  /\ inflight[c]
  /\ inflight' = [inflight EXCEPT ![c] = FALSE]
  /\ UNCHANGED <<cstate, cl_scheduler_on, own_lock, need_lock, did_work,
                 nvml_ok, pc, woken,
                 toDaemon, toClient, sock>>

\* The process exits or is killed: its socket closes, its work is torn down.
Exit(c) ==
  /\ cstate[c] \in {"registering", "running"}
  /\ cstate' = [cstate EXCEPT ![c] = "dead"]
  /\ sock' = [sock EXCEPT ![c] = "closed"]
  /\ inflight' = [inflight EXCEPT ![c] = FALSE]
  /\ pc' = [pc EXCEPT ![c] = [t \in Threads |-> "idle"]]
  /\ UNCHANGED <<cl_scheduler_on, own_lock, need_lock, did_work, nvml_ok,
                 woken,
                 toDaemon, toClient>>

-----------------------------------------------------------------------------
\* release_early_fn first initializes NVML; any failure there clears
\* nvml_ok for the life of the process (NvmlInit = {FALSE, TRUE}).
NvmlStart == [Clients -> NvmlInit]

ClientInit ==
  /\ cstate = [c \in Clients |-> "init"]
  /\ cl_scheduler_on = [c \in Clients |-> FALSE]
  /\ own_lock = [c \in Clients |-> FALSE]
  /\ need_lock = [c \in Clients |-> FALSE]
  /\ did_work = [c \in Clients |-> FALSE]
  /\ nvml_ok \in NvmlStart
  /\ pc = [c \in Clients |-> [t \in Threads |-> "idle"]]
  /\ woken = [c \in Clients |-> [t \in Threads |-> FALSE]]
  /\ inflight = [c \in Clients |-> FALSE]

ClientNext(c) ==
  \/ Connect(c) \/ RecvInitial(c) \/ WorkerRecv(c)
  \/ RelWake(c) \/ RelTimeout(c)
  \/ \E t \in Threads : AppCall(c, t) \/ AppWake(c, t) \/ Launch(c, t) \/ Memcpy(c, t)
  \/ Complete(c)

=============================================================================
