\* Two client processes; the timer's ETIMEDOUT may race a LOCK_OK broadcast.
CONSTANTS
  c1 = c1  c2 = c2  t1 = t1  t2 = t2  p1 = p1  p2 = p2
  Clients = {c1, c2}
  Threads = {t1}
  Peers = {}
  PeerScript <- MCSetTqScript
  NvmlInit = {TRUE}
  MayExit = FALSE
  MaxBatch = 1
  SockCap = 8
  EpollUnlocked = TRUE
SYMMETRY MCClientSymmetry
INIT Init
NEXT Next
INVARIANT PreemptionArmed
