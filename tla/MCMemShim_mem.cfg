\* A 4 GiB device: cap 2.5 GiB.  Oversubscription may be on or off.
CONSTANTS
  a1 = a1  a2 = a2  a3 = a3  a4 = a4
  SizeBits = 5
  Total = 8
  Reserve = 3
  Sizes <- MCSizes
  ManagedLimit = 16
  Ptrs = {a1, a2, a3, a4}
  InfoResults = {TRUE}
  OversubEnv = {FALSE, TRUE}
SYMMETRY MCPtrSymmetry
INIT MemInit
NEXT MemNext
INVARIANT SumMatchesList
INVARIANT AdmissionBounded
