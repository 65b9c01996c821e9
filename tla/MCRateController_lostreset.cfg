\* Two launching threads and cuda_sync_context resets.
CONSTANTS
  t1 = t1  t2 = t2  t3 = t3  None = None
  Threads = {t1, t2}
  KernSyncWindowMax = 4
INIT RateInit
NEXT RateNext
INVARIANT HandoverResetsWindow
