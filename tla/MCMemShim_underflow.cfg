\* A 1 GiB device, smaller than the 1.5 GiB reserve; oversubscription off.
CONSTANTS
  a1 = a1  a2 = a2  a3 = a3  a4 = a4
  SizeBits = 5
  Total = 2
  Reserve = 3
  Sizes <- MCSizes
  ManagedLimit = 16
  Ptrs = {a1, a2, a3, a4}
  InfoResults = {TRUE}
  OversubEnv = {FALSE}
SYMMETRY MCPtrSymmetry
INIT MemInit
NEXT MemNext
INVARIANT AdmissionBounded
