----------------------------- MODULE Scheduler ------------------------------
(***************************************************************************)
(* The nvshare scheduler daemon (src/src/scheduler.c): the epoll event     *)
(* loop that accepts connections and dispatches their frames, and the      *)
(* timer thread that enforces the time quantum.  Both threads run under    *)
(* global_mutex, so each handler below is one atomic step; the loop's     *)
(* epoll_wait runs without it, so the timer runs between the report of a  *)
(* batch of events and their handling.                                     *)
(*                                                                         *)
(* Time is abstract: the quantum may elapse at any moment, so the timer's  *)
(* pthread_cond_timedwait may always return ETIMEDOUT, and it returns 0    *)
(* only after a broadcast (must_reset_timer is set with every broadcast).  *)
(* The value of tq therefore plays no role and is not kept.                *)
(*                                                                         *)
(* scheduling_round is used by the code only through the test              *)
(* round_at_start != scheduling_round; round_moved is that test.           *)
(***************************************************************************)
EXTENDS Protocol, SequencesExt, FiniteSets

CONSTANTS
  Conns,                  \* every connection the daemon may ever accept
  MaxBatch,               \* most client events one epoll_wait reports
  SockCap,                \* frames a client's socket buffer holds unread
  EpollUnlocked           \* TRUE: epoll_wait runs outside global_mutex, as
                          \* in the code.  FALSE: one ready event is reported
                          \* and handled in one step, a reduction that is
                          \* sound where no record can be deleted

VARIABLES
  scheduler_on,           \* scheduler_on
  lock_held,              \* lock_held
  requests,               \* the FCFS requests list, as a sequence of conns
  must_reset_timer,       \* must_reset_timer (set with every timer_cv broadcast)
  round_moved,            \* round_at_start # scheduling_round
  drop_lock_sent,         \* drop_lock_sent, local to timer_thr_fn
  table,                  \* the clients list: conn -> "none"|"unreg"|"reg"|"gone"
  tenure_dropped,         \* ghost: a DROP_LOCK was sent in the current tenure
  toDaemon, toClient,     \* conn -> frames in flight, each direction
  sock,                   \* conn -> "none"|"open"|"closed", the peer's end
  pending,                \* connections whose events of the current epoll
                          \* batch are not yet handled (events[i..num_fds])
  loop_locked             \* the event loop holds global_mutex (606-668)

schedVars == <<scheduler_on, lock_held, requests, must_reset_timer,
               round_moved, drop_lock_sent, table, tenure_dropped, pending,
               loop_locked>>

Live == {k \in Conns : table[k] \in {"unreg", "reg"}}

(***************************************************************************)
(* The handlers are functions of the daemon state, packed into a record so *)
(* that the C call sequence (remove_req then try_schedule, ...) is plain   *)
(* function composition.  Field out holds the frames sent in this step.    *)
(***************************************************************************)
Cur == [on |-> scheduler_on, held |-> lock_held, reqs |-> requests,
        reset |-> must_reset_timer, moved |-> round_moved,
        table |-> table, dropped |-> tenure_dropped,
        out |-> [k \in Conns |-> <<>>]]

Commit(s) ==
  /\ scheduler_on' = s.on
  /\ lock_held' = s.held
  /\ requests' = s.reqs
  /\ must_reset_timer' = s.reset
  /\ round_moved' = s.moved
  /\ table' = s.table
  /\ tenure_dropped' = s.dropped
  /\ toClient' = [k \in Conns |-> toClient[k] \o s.out[k]]

\* send_message fails (EPIPE/ECONNRESET) once the peer has closed its end,
\* and (EAGAIN) when the peer's receive buffer already holds SockCap unread
\* frames.  No handler sends two frames to one connection in one step, so
\* the frames of the step itself never need counting.
SendOk(k) == sock[k] # "closed" /\ Len(toClient[k]) < SockCap

Send(s, k, m) == [s EXCEPT !.out[k] = Append(@, m)]

\* remove_req: clears lock_held if the client is the head, drops its record.
RemoveReq(s, k) ==
  [s EXCEPT !.held = IF s.reqs # <<>> /\ Head(s.reqs) = k THEN FALSE ELSE @,
            !.reqs = Remove(@, k)]

\* Variant: insert_req prepends (LL_PREPEND for LL_APPEND).
InsertReqAtFront(s, k) ==
  IF k \in ToSet(s.reqs) THEN s ELSE [s EXCEPT !.reqs = <<k>> \o @]

\* Variant: insert_req without the scan for an existing request.
InsertReqNoDedup(s, k) == [s EXCEPT !.reqs = Append(@, k)]

\* insert_req: append unless the client already has a request (dedup on fd).
InsertReq(s, k) ==
  IF k \in ToSet(s.reqs) THEN s ELSE [s EXCEPT !.reqs = Append(@, k)]

\* Variant: delete_client forgets the record but leaves the fd open.
DeleteClientNoClose(s, k) == [RemoveReq(s, k) EXCEPT !.table[k] = "unclosed"]

\* delete_client: remove_req, then drop the record and close the fd.
DeleteClient(s, k) == [RemoveReq(s, k) EXCEPT !.table[k] = "gone"]

\* try_schedule: LOCK_OK to the head; a dead head is deleted and the next tried.
RECURSIVE TrySchedule(_)
TrySchedule(s) ==
  IF s.reqs = <<>> THEN s
  ELSE LET h == Head(s.reqs) IN
       IF ~SendOk(h) THEN TrySchedule(DeleteClient(s, h))
       ELSE [Send(s, h, "LOCK_OK") EXCEPT !.held = TRUE, !.reset = TRUE,
                                          !.moved = TRUE, !.dropped = FALSE]

\* bcast_status: the status frame to every registered client; failures deleted.
BcastStatus(s) ==
  LET reg  == {k \in Conns : s.table[k] = "reg"}
      dead == {k \in reg : ~SendOk(k)}
      sent == [s EXCEPT !.out = [k \in Conns |->
                 IF k \in reg \ dead THEN Append(@[k], StatusMsg(s.on)) ELSE @[k]]]
  IN [sent EXCEPT !.held = IF s.reqs # <<>> /\ Head(s.reqs) \in dead
                           THEN FALSE ELSE @,
                  !.reqs = SelectSeq(@, LAMBDA x : x \notin dead),
                  !.table = [k \in Conns |-> IF k \in dead THEN "gone" ELSE @[k]]]

\* register_client, and process_msg's delete_client when it fails.
OnRegister(s, k) ==
  IF s.table[k] = "reg" THEN DeleteClient(s, k)
  ELSE IF SendOk(k) THEN [Send(s, k, StatusMsg(s.on)) EXCEPT !.table[k] = "reg"]
  ELSE DeleteClient(s, k)

OnSchedOn(s) ==
  IF ~s.on THEN BcastStatus([s EXCEPT !.on = TRUE]) ELSE s

\* Variant: SCHED_OFF clears lock_held but does not empty requests.
OnSchedOffKeepsRequests(s) ==
  IF s.on THEN [BcastStatus([s EXCEPT !.on = FALSE]) EXCEPT !.held = FALSE]
  ELSE s

OnSchedOff(s) ==
  IF s.on THEN [BcastStatus([s EXCEPT !.on = FALSE]) EXCEPT !.reqs = <<>>,
                                                            !.held = FALSE]
  ELSE s

\* SET_TQ as nvsharectl sends it always parses: tq changes and the timer resets.
OnSetTq(s) == [s EXCEPT !.reset = TRUE]

\* Variant: REQ_LOCK queued only when the lock is free.
OnReqLockWhenFree(s, k) ==
  IF s.table[k] # "reg" THEN DeleteClient(s, k)
  ELSE IF ~s.on \/ s.held THEN s
  ELSE TrySchedule(InsertReq(s, k))

OnReqLock(s, k) ==
  IF s.table[k] # "reg" THEN DeleteClient(s, k)
  ELSE IF ~s.on THEN s
  ELSE LET i == InsertReq(s, k) IN IF i.held THEN i ELSE TrySchedule(i)

\* Variant: LOCK_RELEASED removes the request without try_schedule.
OnLockReleasedNoSchedule(s, k) ==
  IF s.table[k] # "reg" THEN DeleteClient(s, k)
  ELSE IF ~s.on THEN s
  ELSE RemoveReq(s, k)

OnLockReleased(s, k) ==
  IF s.table[k] # "reg" THEN DeleteClient(s, k)
  ELSE IF ~s.on THEN s
  ELSE LET r == RemoveReq(s, k) IN IF r.held THEN r ELSE TrySchedule(r)

\* process_msg; LOCK_OK and DROP_LOCK from a peer fall into the default case.
ProcessMsg(s, k, m) ==
  CASE m = "REGISTER"      -> OnRegister(s, k)
    [] m = "SCHED_ON"      -> OnSchedOn(s)
    [] m = "SCHED_OFF"     -> OnSchedOff(s)
    [] m = "SET_TQ"        -> OnSetTq(s)
    [] m = "REQ_LOCK"      -> OnReqLock(s, k)
    [] m = "LOCK_RELEASED" -> OnLockReleased(s, k)
    [] OTHER               -> s

-----------------------------------------------------------------------------
(* Event loop.  epoll_wait (597) reports the ready connections without   *)
(* global_mutex; the loop takes it (606) and handles the events one by    *)
(* one, keeping it until the batch is done.  The timer thread may run     *)
(* between Poll and the first handler, never after.  The handlers take    *)
(* the record from events[i].data.ptr (642) without a check: a pending    *)
(* connection whose record was deleted since Poll is a use of freed       *)
(* memory, which the model does not go past (no handler is enabled).      *)
(* A connection on the listening socket is one atomic step (Accept).      *)

\* A client connection with an event epoll_wait would report: a frame to
\* read, or end of file.
Ready == {k \in Live : toDaemon[k] # <<>> \/ sock[k] = "closed"}

\* The event of k is in the current batch; handling it takes global_mutex
\* for the rest of the batch.
Handles(k) ==
  \/ /\ EpollUnlocked
     /\ k \in pending
     /\ pending' = pending \ {k}
     /\ loop_locked' = (pending' # {})
  \/ /\ ~EpollUnlocked
     /\ pending = {} /\ k \in Ready
     /\ UNCHANGED <<pending, loop_locked>>

\* epoll_wait (level-triggered) reports every ready connection, at most
\* MaxBatch (EPOLL_MAX_EVENTS) of them.
Poll(B) ==
  /\ EpollUnlocked
  /\ pending = {}
  /\ B \subseteq Ready /\ B # {}
  /\ IF Cardinality(Ready) <= MaxBatch THEN B = Ready
                                      ELSE Cardinality(B) = MaxBatch
  /\ pending' = B
  /\ UNCHANGED <<scheduler_on, lock_held, requests, must_reset_timer,
                 round_moved, drop_lock_sent, table, tenure_dropped,
                 toDaemon, toClient, sock, loop_locked>>

\* A pending connection is accepted and gets an UNREGISTERED record.
Accept(k) ==
  /\ pending = {}
  /\ sock[k] # "none"
  /\ table[k] = "none"
  /\ table' = [table EXCEPT ![k] = "unreg"]
  /\ UNCHANGED <<scheduler_on, lock_held, requests, must_reset_timer,
                 round_moved, drop_lock_sent, tenure_dropped,
                 toDaemon, toClient, sock, pending, loop_locked>>

\* EPOLLIN with a whole frame: receive_message succeeds, process_msg runs.
Receive(k) ==
  /\ k \in Live
  /\ Handles(k)
  /\ toDaemon[k] # <<>>
  /\ toDaemon' = [toDaemon EXCEPT ![k] = Tail(@)]
  /\ Commit(ProcessMsg(Cur, k, Head(toDaemon[k])))
  /\ UNCHANGED <<drop_lock_sent, sock>>

\* receive_message fails: read returns 0 once the peer has closed and every
\* frame it wrote has been read.  (Partial reads and EAGAIN on a readable
\* socket, which it also treats as failure, are not modelled.)
PeerClosed(k) == toDaemon[k] = <<>> /\ sock[k] = "closed"

\* Variant: the hangup path deletes the client without try_schedule.
HangupNoSchedule(k) ==
  /\ k \in Live
  /\ Handles(k)
  /\ PeerClosed(k)
  /\ Commit(DeleteClient(Cur, k))
  /\ UNCHANGED <<drop_lock_sent, toDaemon, sock>>

\* EPOLLIN at end of file, or EPOLLHUP: delete the client, then reschedule.
Hangup(k) ==
  /\ k \in Live
  /\ Handles(k)
  /\ PeerClosed(k)
  /\ LET d == DeleteClient(Cur, k)
     IN Commit(IF ~d.held /\ d.on THEN TrySchedule(d) ELSE d)
  /\ UNCHANGED <<drop_lock_sent, toDaemon, sock>>

-----------------------------------------------------------------------------
(* Timer thread: timer_thr_fn.  Restart is the top of its while loop:       *)
(* must_reset_timer = 0, round_at_start = scheduling_round, new deadline.  *)

Restart(s) == [s EXCEPT !.reset = FALSE, !.moved = FALSE]

\* pthread_cond_timedwait returned ETIMEDOUT.
TimerTimeout ==
  /\ ~loop_locked
  /\ \/ /\ ~lock_held \/ drop_lock_sent
        /\ Commit(Restart(Cur))
        /\ UNCHANGED drop_lock_sent
     \/ /\ lock_held /\ ~drop_lock_sent /\ round_moved
        /\ drop_lock_sent' = FALSE
        /\ Commit(Restart(Cur))
     \/ /\ lock_held /\ ~drop_lock_sent /\ ~round_moved
        /\ LET h == Head(requests) IN
           IF SendOk(h)
           THEN /\ drop_lock_sent' = TRUE
                /\ Commit(Restart([Send(Cur, h, "DROP_LOCK") EXCEPT !.dropped = TRUE]))
           ELSE /\ drop_lock_sent' = FALSE
                /\ Commit(Restart(TrySchedule(DeleteClient(Cur, h))))
  /\ UNCHANGED <<toDaemon, sock, pending, loop_locked>>

\* pthread_cond_timedwait returned 0 after a broadcast with must_reset_timer.
TimerReset ==
  /\ ~loop_locked
  /\ UNCHANGED <<pending, loop_locked>>
  /\ must_reset_timer
  /\ drop_lock_sent' = FALSE
  /\ Commit(Restart(Cur))
  /\ UNCHANGED <<toDaemon, sock>>

-----------------------------------------------------------------------------
SchedInit ==
  /\ scheduler_on = TRUE
  /\ lock_held = FALSE
  /\ requests = <<>>
  /\ must_reset_timer = FALSE
  /\ round_moved = FALSE
  /\ drop_lock_sent = FALSE
  /\ table = [k \in Conns |-> "none"]
  /\ tenure_dropped = FALSE
  /\ pending = {}
  /\ loop_locked = FALSE

SchedNext ==
  \/ \E B \in SUBSET Conns : Poll(B)
  \/ \E k \in Conns : Accept(k) \/ Receive(k) \/ Hangup(k)
  \/ TimerTimeout
  \/ TimerReset

=============================================================================
