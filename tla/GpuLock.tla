------------------------------ MODULE GpuLock -------------------------------
(***************************************************************************)
(* What the nvshare scheduler promises its clients (spec.md 4.7 and 8): a *)
(* first-come first-served lock.  Requesters queue in arrival order, the  *)
(* lock belongs to the head of the queue whenever the queue is not empty, *)
(* and a requester leaves the queue only by releasing or by being evicted. *)
(* Turning the scheduler off empties the queue; while it is off nobody   *)
(* queues and nobody holds the lock.                                       *)
(*                                                                         *)
(* holder is a set with at most one element, empty when nobody holds the  *)
(* lock.                                                                   *)
(***************************************************************************)
EXTENDS Sequences, SequencesExt

CONSTANT Conns            \* every requester there may be

VARIABLES queue, holder, on

lockVars == <<queue, holder, on>>

\* Who holds the lock for a given queue.
Served(q) == IF q = <<>> THEN {} ELSE {Head(q)}

\* k joins the end of the queue (a request of a queued requester is void).
Request(k) ==
  /\ on
  /\ k \notin ToSet(queue)
  /\ queue' = Append(queue, k)
  /\ holder' = Served(queue')
  /\ UNCHANGED on

\* The requesters in S leave the queue, wherever they stand, and the lock
\* passes to whoever is then first.
Leave(S) ==
  /\ S # {}
  /\ S \subseteq ToSet(queue)
  /\ queue' = SelectSeq(queue, LAMBDA x : x \notin S)
  /\ holder' = Served(queue')
  /\ UNCHANGED on

TurnOff ==
  /\ on
  /\ on' = FALSE
  /\ queue' = <<>>
  /\ holder' = {}

TurnOn ==
  /\ ~on
  /\ on' = TRUE
  /\ UNCHANGED <<queue, holder>>

LockInit ==
  /\ queue = <<>>
  /\ holder = {}
  /\ on = TRUE

LockNext ==
  \/ \E k \in Conns : Request(k)
  \/ \E S \in SUBSET Conns : Leave(S)
  \/ TurnOff
  \/ TurnOn

LockSpec == LockInit /\ [][LockNext]_lockVars

=============================================================================
