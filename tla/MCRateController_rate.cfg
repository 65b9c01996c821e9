\* Three launching threads, KERN_SYNC_WINDOW_MAX scaled down to 4.
CONSTANTS
  t1 = t1  t2 = t2  t3 = t3  None = None
  Threads = {t1, t2, t3}
  KernSyncWindowMax = 4
SYMMETRY MCThreadSymmetry
INIT RateInit
NEXT RateNext
INVARIANT TypeOK
INVARIANT BacklogBounded
