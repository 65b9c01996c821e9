\* Two client processes of two application threads each.
CONSTANTS
  c1 = c1  c2 = c2  t1 = t1  t2 = t2  p1 = p1  p2 = p2
  Clients = {c1, c2}
  Threads = {t1, t2}
  Peers = {}
  PeerScript <- MCSetTqScript
  NvmlInit = {TRUE}
  MayExit = FALSE
  MaxBatch = 2
  SockCap = 8
  EpollUnlocked = TRUE
SYMMETRY MCSymmetry
INIT Init
NEXT Next
INVARIANT TypeOK
INVARIANT OwnerIsHolder
INVARIANT RequestNotLost
INVARIANT WaitersCovered
INVARIANT WorkConserving
PROPERTY FcfsLock
