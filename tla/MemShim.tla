------------------------------ MODULE MemShim -------------------------------
(***************************************************************************)
(* The memory shim of the nvshare client (src/src/hook.c): cuMemAlloc,     *)
(* cuMemFree and cuMemGetInfo of one application process, with the        *)
(* process's allocation list and its running total sum_allocated.          *)
(*                                                                         *)
(* Sizes are counted in a fixed unit (a divisor of the reserve) and       *)
(* size_t is SizeBits wide, so every size_t expression is taken modulo     *)
(* Wrap = 2^SizeBits: its subtractions and additions wrap exactly as in    *)
(* C, on a smaller word.  Calls are serialized (spec.md section 5: no concurrent   *)
(* allocate/free), so each hook is one step.  A device pointer is a model  *)
(* value; the driver never returns a pointer that is still allocated.      *)
(***************************************************************************)
EXTENDS Naturals, SequencesExt

CONSTANTS
  SizeBits,               \* width of size_t in the model
  Total,                  \* device memory that real_cuMemGetInfo reports
  Reserve,                \* MEMINFO_RESERVE_MIB, in the same unit
  Sizes,                  \* byte sizes the application passes to cuMemAlloc
  ManagedLimit,           \* largest managed allocation the driver can back
  Ptrs,                   \* device addresses the driver may hand out
  InfoResults,            \* outcomes of real_cuMemGetInfo (TRUE: success)
  OversubEnv              \* whether NVSHARE_ENABLE_SINGLE_OVERSUB may be set

Wrap == 2^SizeBits

ASSUME Total \in Nat /\ Reserve \in Nat /\ Sizes \subseteq 0..(Wrap - 1)
ASSUME InfoResults \subseteq BOOLEAN /\ InfoResults # {}
ASSUME OversubEnv \subseteq BOOLEAN /\ OversubEnv # {}

VARIABLES
  got_max_mem_size,              \* static flag of cuMemAlloc
  nvshare_size_mem_allocatable,  \* the cached cap
  sum_allocated,
  cuda_allocation_list,          \* Seq([ptr, size]) in LL_APPEND order
  enable_single_oversub

memVars == <<got_max_mem_size, nvshare_size_mem_allocatable, sum_allocated,
             cuda_allocation_list, enable_single_oversub>>

\* Pointers the driver currently has allocated for this process.
Allocated == {a.ptr : a \in ToSet(cuda_allocation_list)}

\* The bytes of the allocations in the list, as a mathematical integer.
ListSum == FoldLeft(LAMBDA acc, a : acc + a.size, 0, cuda_allocation_list)

-----------------------------------------------------------------------------
\* cuMemGetInfo: free = total - reserve, in size_t.  When the real call
\* fails, *total was never written and holds whatever the caller left in
\* it (cuMemAlloc passes an uninitialized local): any size_t.
ReportedFree(infoOk) ==
  IF infoOk THEN {(Total - Reserve) % Wrap} ELSE {(j - Reserve) % Wrap : j \in 0..(Wrap - 1)}

\* insert_cuda_allocation.
InsertCudaAllocation(p, size) ==
  /\ sum_allocated' = (sum_allocated + size) % Wrap
  /\ cuda_allocation_list' = Append(cuda_allocation_list, [ptr |-> p, size |-> size])

\* remove_cuda_allocation: every entry that starts at p is unlinked and its
\* size subtracted.
RemoveCudaAllocation(p) ==
  LET gone == SelectSeq(cuda_allocation_list, LAMBDA a : a.ptr = p)
  IN /\ sum_allocated' =
          (sum_allocated - FoldLeft(LAMBDA acc, a : acc + a.size, 0, gone)) % Wrap
     /\ cuda_allocation_list' = SelectSeq(cuda_allocation_list, LAMBDA a : a.ptr # p)

\* Variant: the request alone compared with the cap.
ExceedsCapRequestOnly(size, cap) == size > cap

\* The admission test of cuMemAlloc, on size_t values.
ExceedsCap(size, cap) == (sum_allocated + size) % Wrap > cap

\* Variant: sum_allocated is charged before real_cuMemAllocManaged, and a
\* failed allocation is never uncharged.
MemAllocChargesFirst(size) ==
  \E infoOk \in (IF got_max_mem_size THEN {TRUE} ELSE InfoResults) :
  \E cap \in (IF got_max_mem_size THEN {nvshare_size_mem_allocatable}
              ELSE ReportedFree(infoOk)) :
    /\ got_max_mem_size' = TRUE
    /\ nvshare_size_mem_allocatable' = cap
    /\ IF ExceedsCap(size, cap) /\ ~enable_single_oversub
       THEN UNCHANGED <<sum_allocated, cuda_allocation_list>>
       ELSE \/ /\ infoOk /\ size <= ManagedLimit
               /\ \E p \in Ptrs \ Allocated : InsertCudaAllocation(p, size)
            \/ /\ sum_allocated' = (sum_allocated + size) % Wrap
               /\ UNCHANGED cuda_allocation_list
    /\ UNCHANGED enable_single_oversub

\* cuMemAlloc(dptr, bytesize).  The first call caches cuMemGetInfo's free
\* (got_max_mem_size is set whatever the call returned).  Over the cap and
\* without oversubscription: CUDA_ERROR_OUT_OF_MEMORY.  Otherwise
\* real_cuMemAllocManaged, and on success the allocation is recorded.  A
\* cuMemGetInfo that fails for want of a context or driver fails the
\* allocation of the same call too.
MemAlloc(size) ==
  \E infoOk \in (IF got_max_mem_size THEN {TRUE} ELSE InfoResults) :
  \E cap \in (IF got_max_mem_size THEN {nvshare_size_mem_allocatable}
              ELSE ReportedFree(infoOk)) :
    /\ got_max_mem_size' = TRUE
    /\ nvshare_size_mem_allocatable' = cap
    /\ IF ExceedsCap(size, cap) /\ ~enable_single_oversub
       THEN UNCHANGED <<sum_allocated, cuda_allocation_list>>
       ELSE \/ /\ infoOk /\ size <= ManagedLimit
               /\ \E p \in Ptrs \ Allocated : InsertCudaAllocation(p, size)
            \/ UNCHANGED <<sum_allocated, cuda_allocation_list>>
    /\ UNCHANGED enable_single_oversub

\* cuMemFree(dptr): real_cuMemFree succeeds only for an allocated pointer,
\* and only then is the allocation forgotten.
MemFree(p) ==
  /\ IF p \in Allocated THEN RemoveCudaAllocation(p)
     ELSE UNCHANGED <<sum_allocated, cuda_allocation_list>>
  /\ UNCHANGED <<got_max_mem_size, nvshare_size_mem_allocatable,
                 enable_single_oversub>>

-----------------------------------------------------------------------------
\* initialize_libnvshare reads NVSHARE_ENABLE_SINGLE_OVERSUB once.
MemInit ==
  /\ got_max_mem_size = FALSE
  /\ nvshare_size_mem_allocatable = 0
  /\ sum_allocated = 0
  /\ cuda_allocation_list = <<>>
  /\ enable_single_oversub \in OversubEnv

MemNext ==
  \/ \E size \in Sizes : MemAlloc(size)
  \/ \E p \in Ptrs : MemFree(p)

MemSpec == MemInit /\ [][MemNext]_memVars

-----------------------------------------------------------------------------
TypeOK ==
  /\ got_max_mem_size \in BOOLEAN
  /\ nvshare_size_mem_allocatable \in 0..(Wrap - 1)
  /\ sum_allocated \in 0..(Wrap - 1)
  /\ cuda_allocation_list \in Seq([ptr : Ptrs, size : Sizes])
  /\ enable_single_oversub \in BOOLEAN

\* sum_allocated, kept by insert_cuda_allocation and remove_cuda_allocation,
\* is the size_t sum of the sizes in the allocation list, whatever sequence
\* of successful, refused and failed cuMemAlloc and cuMemFree calls led here.
SumMatchesList == sum_allocated = ListSum % Wrap

\* Without NVSHARE_ENABLE_SINGLE_OVERSUB the process never holds more than
\* the device memory minus the reserve (spec.md 4.6): cuMemAlloc's cap,
\* cached from cuMemGetInfo on the first call, refuses what would exceed it.
AdmissionBounded ==
  ~enable_single_oversub =>
    ListSum <= (IF Total >= Reserve THEN Total - Reserve ELSE 0)

=============================================================================
