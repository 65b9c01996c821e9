------------------------------ MODULE Protocol ------------------------------
(***************************************************************************)
(* The wire protocol shared by the nvshare scheduler, the in-process       *)
(* client and nvsharectl (src/src/comm.h).  A frame is a fixed-size        *)
(* struct message; only its type tells the protocol anything, so a frame  *)
(* is modelled by its type.  The pod name, namespace, id and data fields   *)
(* are logging or identification payload and are abstracted away.         *)
(*                                                                         *)
(* Every connection is a local stream socket: frames written by one end   *)
(* arrive in order at the other, so each direction of a connection is a   *)
(* FIFO sequence of message types.                                         *)
(***************************************************************************)
EXTENDS Sequences

\* enum message_type
MsgType == {"REGISTER", "SCHED_ON", "SCHED_OFF", "REQ_LOCK",
            "LOCK_OK", "DROP_LOCK", "LOCK_RELEASED", "SET_TQ"}

\* The status frame the scheduler sends for a given value of scheduler_on.
StatusMsg(on) == IF on THEN "SCHED_ON" ELSE "SCHED_OFF"

=============================================================================
