\* Two single-threaded client processes that may exit or be killed at any point, nvsharectl -T.
CONSTANTS
  c1 = c1  c2 = c2  t1 = t1  t2 = t2  p1 = p1  p2 = p2
  Clients = {c1, c2}
  Threads = {t1}
  Peers = {p1}
  PeerScript <- MCSetTqScript
  NvmlInit = {TRUE}
  MayExit = TRUE
  MaxBatch = 1
  SockCap = 8
  EpollUnlocked = TRUE
SYMMETRY MCClientSymmetry
CONSTRAINT NoStaleEvent
INIT Init
NEXT Next
INVARIANT OwnerIsHolder
INVARIANT WorkConserving
PROPERTY FcfsLock
