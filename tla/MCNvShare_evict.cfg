\* Two client processes of one application thread each, no nvsharectl, and
\* a socket buffer of one frame: a second frame sent to a client that has
\* not read the first fails with EAGAIN and the daemon evicts the client.
CONSTANTS
  c1 = c1  c2 = c2  t1 = t1  t2 = t2  p1 = p1  p2 = p2
  Clients = {c1, c2}
  Threads = {t1}
  Peers = {}
  PeerScript <- MCSetTqScript
  NvmlInit = {TRUE}
  MayExit = FALSE
  MaxBatch = 1
  SockCap = 1
  EpollUnlocked = TRUE
SPECIFICATION EvictionSpec
INVARIANT OwnerIsHolderOrEvicted
PROPERTY EvictedClientExits
