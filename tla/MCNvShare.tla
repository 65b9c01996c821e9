----------------------------- MODULE MCNvShare ------------------------------
(***************************************************************************)
(* Model-checking instances of NvShare.                                    *)
(***************************************************************************)
EXTENDS NvShare

CONSTANTS c1, c2, t1, t2, p1, p2

\* nvsharectl -S off, then nvsharectl -S on: the daemon reads the two
\* frames in this order (a SCHED_ON read first is a no-op).
MCToggleScript == [p \in {p1} |-> <<"SCHED_OFF", "SCHED_ON">>]
\* nvsharectl -T n.
MCSetTqScript == [p \in {p1} |-> <<"SET_TQ">>]

\* A connection that is not an nvshare client: it registers, requests the
\* lock and sends REGISTER again on the same connection.
MCReRegisterScript == [p \in {p1} |-> <<"REGISTER", "REQ_LOCK", "REGISTER">>]

\* The client processes are interchangeable.
MCClientSymmetry == Permutations({c1, c2})

\* Client processes and application threads are interchangeable.
MCSymmetry == Permutations({c1, c2}) \cup Permutations({t1, t2})

=============================================================================
