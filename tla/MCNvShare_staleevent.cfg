\* The crash configuration with epoll batches of up to two client events.
CONSTANTS
  c1 = c1  c2 = c2  t1 = t1  t2 = t2  p1 = p1  p2 = p2
  Clients = {c1, c2}
  Threads = {t1}
  Peers = {p1}
  PeerScript <- MCSetTqScript
  NvmlInit = {TRUE}
  MayExit = TRUE
  MaxBatch = 2
  SockCap = 8
  EpollUnlocked = TRUE
SYMMETRY MCClientSymmetry
INIT Init
NEXT Next
INVARIANT NoStaleEvent
