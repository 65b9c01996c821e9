------------------------------ MODULE NvShare -------------------------------
(***************************************************************************)
(* The nvshare system: one scheduler daemon, the client processes that     *)
(* carry the injected client, and nvsharectl invocations, connected by     *)
(* local stream sockets.                                                   *)
(*                                                                         *)
(* Peers are connections that are not nvshare clients: nvsharectl          *)
(* (src/src/cli.c) connects, writes one frame and closes; PeerScript gives *)
(* the frames each peer writes, in order.  A peer never reads.             *)
(***************************************************************************)
EXTENDS Protocol, SequencesExt, Functions, FiniteSets

CONSTANTS
  Clients, Threads, NvmlInit,
  Peers,
  PeerScript,             \* [Peers -> Seq(MsgType)]
  MayExit,                \* whether client processes may exit or be killed
  MaxBatch,               \* most client events one epoll_wait reports
  SockCap,                \* frames a client's socket buffer holds unread
  EpollUnlocked           \* epoll_wait outside global_mutex (see Scheduler)

Conns == Clients \cup Peers

ASSUME Clients \cap Peers = {}
ASSUME NvmlInit \subseteq BOOLEAN /\ NvmlInit # {}
ASSUME \A p \in Peers : PeerScript[p] \in Seq(MsgType) /\ PeerScript[p] # <<>>

VARIABLES
  scheduler_on, lock_held, requests, must_reset_timer, round_moved,
  drop_lock_sent, table, tenure_dropped, pending, loop_locked,
  cstate, cl_scheduler_on, own_lock, need_lock, did_work, nvml_ok,
  pc, woken, inflight,
  peer_sent,              \* frames each peer has written so far
  toDaemon, toClient, sock

S == INSTANCE Scheduler
C == INSTANCE Client

schedVars == <<scheduler_on, lock_held, requests, must_reset_timer,
               round_moved, drop_lock_sent, table, tenure_dropped, pending,
               loop_locked>>
clientVars == <<cstate, cl_scheduler_on, own_lock, need_lock, did_work,
                nvml_ok, pc, woken, inflight>>
vars == <<schedVars, clientVars, peer_sent, toDaemon, toClient, sock>>

-----------------------------------------------------------------------------
(* nvsharectl's change_status and change_tq connect, write one frame and  *)
(* close (cli.c).  A peer writes its script in order and closes its end   *)
(* with the last frame; the daemon still reads every frame before EOF.    *)

PeerWrite(p) ==
  /\ peer_sent[p] < Len(PeerScript[p])
  /\ peer_sent' = [peer_sent EXCEPT ![p] = @ + 1]
  /\ toDaemon' = [toDaemon EXCEPT ![p] = Append(@, PeerScript[p][peer_sent[p] + 1])]
  /\ sock' = [sock EXCEPT ![p] =
               IF peer_sent[p] + 1 = Len(PeerScript[p]) THEN "closed" ELSE "open"]
  /\ UNCHANGED <<schedVars, clientVars, toClient>>

-----------------------------------------------------------------------------
Init ==
  /\ toDaemon = [k \in Conns |-> <<>>]
  /\ toClient = [k \in Conns |-> <<>>]
  /\ sock = [k \in Conns |-> "none"]
  /\ peer_sent = [p \in Peers |-> 0]
  /\ S!SchedInit
  /\ C!ClientInit

DaemonStep == S!SchedNext /\ UNCHANGED <<clientVars, peer_sent>>
ClientStep(c) == C!ClientNext(c) /\ UNCHANGED <<schedVars, peer_sent>>
ExitStep(c) == MayExit /\ C!Exit(c) /\ UNCHANGED <<schedVars, peer_sent>>

\* The daemon has deleted the client's record and closed the fd.  Once the
\* worker has read every frame sent before that, nvshare_receive_block sees
\* end of file, true_or_exit fails and the process exits.
ClientEof(c) ==
  /\ table[c] = "gone"
  /\ toClient[c] = <<>>
  /\ C!Exit(c)
  /\ UNCHANGED <<schedVars, peer_sent>>

Next ==
  \/ DaemonStep
  \/ \E c \in Clients : ClientStep(c) \/ ExitStep(c) \/ ClientEof(c)
  \/ \E p \in Peers : PeerWrite(p)

(***************************************************************************)
(* Fairness.  The daemon's threads (epoll_wait included) and each       *)
(* client's client thread and early-release thread run whenever they can *)
(* (epoll and the condition variables wake them); a woken application    *)
(* thread gets the mutex back; a thread past the gate finishes its call;  *)
(* the device finishes work; an evicted client's worker reads end of file *)
(* (it blocks in read).  Applications calling CUDA, processes exiting and *)
(* nvsharectl are the environment and get no fairness.                    *)
(***************************************************************************)
Fairness ==
  /\ WF_vars(\E B \in SUBSET Conns : S!Poll(B) /\ UNCHANGED <<clientVars, peer_sent>>)
  /\ \A k \in Conns : WF_vars(S!Accept(k) /\ UNCHANGED <<clientVars, peer_sent>>)
  /\ \A k \in Conns : WF_vars(S!Receive(k) /\ UNCHANGED <<clientVars, peer_sent>>)
  /\ \A k \in Conns : WF_vars(S!Hangup(k) /\ UNCHANGED <<clientVars, peer_sent>>)
  /\ WF_vars(S!TimerTimeout /\ UNCHANGED <<clientVars, peer_sent>>)
  /\ WF_vars(S!TimerReset /\ UNCHANGED <<clientVars, peer_sent>>)
  /\ \A c \in Clients :
       /\ WF_vars(C!Connect(c) /\ UNCHANGED <<schedVars, peer_sent>>)
       /\ WF_vars(C!RecvInitial(c) /\ UNCHANGED <<schedVars, peer_sent>>)
       /\ WF_vars(C!WorkerRecv(c) /\ UNCHANGED <<schedVars, peer_sent>>)
       /\ WF_vars(C!RelWake(c) /\ UNCHANGED <<schedVars, peer_sent>>)
       /\ WF_vars(C!RelTimeout(c) /\ UNCHANGED <<schedVars, peer_sent>>)
       /\ WF_vars(C!Complete(c) /\ UNCHANGED <<schedVars, peer_sent>>)
       /\ WF_vars(ClientEof(c))
       /\ \A t \in Threads :
            /\ WF_vars(C!AppWake(c, t) /\ UNCHANGED <<schedVars, peer_sent>>)
            /\ WF_vars(C!Launch(c, t) /\ UNCHANGED <<schedVars, peer_sent>>)

Spec == Init /\ [][Next]_vars /\ Fairness

\* The fairness an evicted client's exit needs, and no more: its client
\* thread reads what is buffered and then end of file.  The daemon, the
\* other threads and the environment may stop at any point.
EvictionFairness ==
  \A c \in Clients :
    /\ WF_vars(C!WorkerRecv(c) /\ UNCHANGED <<schedVars, peer_sent>>)
    /\ WF_vars(ClientEof(c))

EvictionSpec == Init /\ [][Next]_vars /\ EvictionFairness

-----------------------------------------------------------------------------
Running == {c \in Clients : cstate[c] = "running"}

\* The connection the daemon has granted the lock to, as a set (empty if none).
\* Clients whose record the daemon has deleted (delete_client ran).
Evicted == {c \in Clients : table[c] \notin {"none", "unreg", "reg"}}

Holder == IF lock_held THEN {Head(requests)} ELSE {}

TypeOK ==
  /\ scheduler_on \in BOOLEAN /\ lock_held \in BOOLEAN
  /\ requests \in Seq(Conns)
  /\ must_reset_timer \in BOOLEAN /\ round_moved \in BOOLEAN
  /\ drop_lock_sent \in BOOLEAN /\ tenure_dropped \in BOOLEAN
  /\ table \in [Conns -> {"none", "unreg", "reg", "gone"}]
  /\ pending \subseteq Conns /\ loop_locked \in BOOLEAN
  /\ cstate \in [Clients -> {"init", "registering", "running", "dead"}]
  /\ cl_scheduler_on \in [Clients -> BOOLEAN]
  /\ own_lock \in [Clients -> BOOLEAN] /\ need_lock \in [Clients -> BOOLEAN]
  /\ did_work \in [Clients -> BOOLEAN] /\ nvml_ok \in [Clients -> BOOLEAN]
  /\ pc \in [Clients -> [Threads -> {"idle", "gate_wait", "launch"}]]
  /\ woken \in [Clients -> [Threads -> BOOLEAN]]
  /\ inflight \in [Clients -> BOOLEAN]
  /\ peer_sent \in [Peers -> Nat]
  /\ toDaemon \in [Conns -> Seq(MsgType)] /\ toClient \in [Conns -> Seq(MsgType)]
  /\ sock \in [Conns -> {"none", "open", "closed"}]

-----------------------------------------------------------------------------
(***************************************************************************)
(* Safety.                                                                 *)
(***************************************************************************)

\* Lock ownership.  A client that believes the scheduler is on and has
\* own_lock set is the client the daemon granted the lock to (the head of
\* requests with lock_held), unless a SCHED_OFF is still on its way to it:
\* the LOCK_OK / DROP_LOCK / LOCK_RELEASED / early-release handshakes and
\* the daemon's eviction of dead clients never leave a second owner.
OwnerIsHolderOrOffPending ==
  \A c \in Running :
    cl_scheduler_on[c] /\ own_lock[c]
      => c \in Holder \/ "SCHED_OFF" \in ToSet(toClient[c])

\* Without scheduler toggles the above needs no escape: every client that
\* may submit work is the daemon's lock holder, so at most one client owns
\* the GPU at a time.
OwnerIsHolder ==
  \A c \in Running : own_lock[c] => c \in Holder

\* When a client's socket buffer can fill, send_message's EAGAIN evicts a
\* live client, which keeps own_lock until it reads end of file: every
\* owner is the holder or a client the daemon has already deleted.
OwnerIsHolderOrEvicted ==
  \A c \in Running : own_lock[c] => c \in Holder \/ c \in Evicted

\* No event of an epoll batch refers to a freed client record: once the
\* handler of one event has deleted a client (try_schedule's failed LOCK_OK,
\* bcast_status, a second REGISTER), main's loop must not reach that client's
\* own event of the same batch, whose events[i].data.ptr is the freed
\* struct nvshare_client.
NoStaleEvent ==
  \A k \in pending : table[k] # "gone"

\* A lock request is never lost: a client that has sent REQ_LOCK
\* (need_lock) and still believes the scheduler is on has the request in
\* flight, queued in requests, or the grant on its way back.  Otherwise its
\* threads in continue_with_lock wait forever (need_lock stops re-sends).
RequestNotLost ==
  \A c \in Running :
    need_lock[c] /\ cl_scheduler_on[c]
      => \/ "REQ_LOCK" \in ToSet(toDaemon[c])
         \/ c \in ToSet(requests)
         \/ "LOCK_OK" \in ToSet(toClient[c])
         \/ "SCHED_OFF" \in ToSet(toClient[c])

\* No thread is stranded at the gate: a thread waiting on own_lock_cv has
\* been broadcast to, or its process has an outstanding request whose
\* LOCK_OK will broadcast to it.
WaitersCovered ==
  \A c \in Running, t \in Threads :
    pc[c][t] = "gate_wait" => woken[c][t] \/ (need_lock[c] /\ cl_scheduler_on[c])

\* The daemon is work-conserving: while the scheduler is on, the lock is
\* held exactly when some client is queued.  A queue with lock_held = 0
\* is never served again until another request or release arrives.
WorkConserving ==
  scheduler_on => (lock_held <=> requests # <<>>)

\* The time quantum is enforced on every tenure: once the timer thread has
\* restarted its wait (no reset pending) with drop_lock_sent set, the DROP_LOCK
\* it thinks it sent went to the current holder (timer_thr_fn).
PreemptionArmed ==
  lock_held /\ drop_lock_sent /\ ~must_reset_timer => tenure_dropped

\* A DROP_LOCK handover is drained: a client whose lock was taken away while
\* the scheduler is on has no work left running on the GPU (client.c
\* cuda_sync_context before LOCK_RELEASED).
DrainedHandover ==
  \A c \in Running : cl_scheduler_on[c] /\ inflight[c] => own_lock[c]

-----------------------------------------------------------------------------
(***************************************************************************)
(* Refinement.  The daemon implements the first-come first-served lock of *)
(* GpuLock: its requests list is the queue, the head of requests holds the *)
(* lock when lock_held is set, and scheduler_on is the on switch.          *)
(***************************************************************************)
Lock == INSTANCE GpuLock WITH queue <- requests, holder <- Holder, on <- scheduler_on

\* Every step of the daemon (REQ_LOCK, LOCK_RELEASED, eviction by hangup,
\* failed sends in try_schedule, bcast_status and the timer, SCHED_ON/OFF)
\* is a step of the FCFS lock or leaves it unchanged: requests are served
\* in arrival order and the lock never passes over a queued client.
FcfsLock == Lock!LockSpec

-----------------------------------------------------------------------------
(***************************************************************************)
(* Liveness, under Fairness.                                               *)
(***************************************************************************)

\* From some point on, no application thread of a process other than c is
\* between the gate and the end of its real CUDA call.
OthersQuiet(c) ==
  <>[](\A d \in Clients \ {c}, t \in Threads : pc[d][t] # "launch")

\* A request is answered once the other processes stop submitting: a
\* holder that is no longer busy is made to give the lock up, by DROP_LOCK
\* or by its idle releaser (release_early_fn), whatever happened to the
\* timer's drop_lock_sent.  The unconditional need_lock ~> own_lock does
\* not hold: the drop_lock_sent race of timer_thr_fn (PreemptionArmed)
\* leaves a busy holder unpreempted for good.
GrantedOnceOthersQuiet ==
  \A c \in Clients : OthersQuiet(c) => (need_lock[c] ~> own_lock[c])

\* A client the daemon evicted while it runs (a full socket buffer makes
\* send_message fail) does not go on using the GPU for ever: delete_client
\* closes the fd, and the worker, once it has read the frames before the
\* close, reads end of file and the process exits.
EvictedClientExits ==
  \A c \in Clients : (c \in Running /\ c \in Evicted) ~> cstate[c] = "dead"

=============================================================================
