\* Two client processes, nvsharectl -S off then -S on; processes do not exit.
CONSTANTS
  c1 = c1  c2 = c2  t1 = t1  t2 = t2  p1 = p1  p2 = p2
  Clients = {c1, c2}
  Threads = {t1}
  Peers = {p1}
  PeerScript <- MCToggleScript
  NvmlInit = {TRUE}
  MayExit = FALSE
  MaxBatch = 1
  SockCap = 8
  EpollUnlocked = FALSE
SYMMETRY MCClientSymmetry
INIT Init
NEXT Next
INVARIANT OwnerIsHolderOrOffPending
INVARIANT RequestNotLost
INVARIANT WaitersCovered
INVARIANT WorkConserving
PROPERTY FcfsLock
