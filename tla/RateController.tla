--------------------------- MODULE RateController ---------------------------
(***************************************************************************)
(* The submission-rate controller of one client process (src/src/hook.c    *)
(* cuLaunchKernel after the gate, and the reset of the window in           *)
(* cuda_sync_context, src/src/client.c).                                   *)
(*                                                                         *)
(* Application threads launch kernels, then count them under kcount_mutex *)
(* and, every pending_kernel_window launches, synchronize the device and   *)
(* adapt the window to how long that took.  The client and early-release  *)
(* threads call cuda_sync_context, which writes pending_kernel_window = 1  *)
(* holding global_mutex only, so that store races with the controller's   *)
(* read-modify-write of the window.  The read and the write of the window *)
(* are therefore separate steps.                                           *)
(*                                                                         *)
(* The device runs kernels in submission order; queued counts the kernels  *)
(* submitted and not finished.  How long a synchronize takes is the        *)
(* environment's choice among the three cases the controller tells apart. *)
(***************************************************************************)
EXTENDS Naturals, FiniteSets

CONSTANTS
  Threads,                \* application threads of the process
  KernSyncWindowMax,      \* KERN_SYNC_WINDOW_MAX (2048), a power of two
  None                    \* no thread holds kcount_mutex

ASSUME KernSyncWindowMax \in {2^i : i \in 1..11}

VARIABLES
  pending_kernel_window,
  kern_since_sync,
  kcount_owner,           \* the thread holding kcount_mutex, or None
  tpc,                    \* thread -> "idle"|"count"|"sync"|"adapt"
  ahead,                  \* thread -> kernels its cuCtxSynchronize waits for
  window_read,            \* thread -> value of the window it has read
  duration,               \* thread -> "big"|"medium"|"small", its last sync
  queued,                 \* kernels submitted and not yet finished
  reset_unconsumed        \* ghost: a cuda_sync_context reset that no window
                          \* decision has read yet

rateVars == <<pending_kernel_window, kern_since_sync, kcount_owner, tpc, ahead,
              window_read, duration, queued, reset_unconsumed>>

Durations == {"big", "medium", "small"}

MinOf(a, b) == IF a < b THEN a ELSE b
MaxOf(a, b) == IF a > b THEN a ELSE b

-----------------------------------------------------------------------------
\* real_cuLaunchKernel returned: the kernel is queued on the device.  The
\* thread then blocks on kcount_mutex.
RealLaunch(t) ==
  /\ tpc[t] = "idle"
  /\ tpc' = [tpc EXCEPT ![t] = "count"]
  /\ queued' = queued + 1
  /\ UNCHANGED <<pending_kernel_window, kern_since_sync, kcount_owner, ahead,
                 window_read, duration, reset_unconsumed>>

\* Variant: the window is exceeded before the controller synchronizes.
CountStrict(t) ==
  /\ tpc[t] = "count"
  /\ kcount_owner = None
  /\ kern_since_sync' = kern_since_sync + 1
  /\ IF kern_since_sync + 1 > pending_kernel_window
     THEN /\ tpc' = [tpc EXCEPT ![t] = "sync"]
          /\ kcount_owner' = t
          /\ ahead' = [ahead EXCEPT ![t] = queued]
     ELSE /\ tpc' = [tpc EXCEPT ![t] = "idle"]
          /\ UNCHANGED <<kcount_owner, ahead>>
  /\ UNCHANGED <<pending_kernel_window, window_read, duration, queued,
                 reset_unconsumed>>

\* kcount_mutex taken: kern_since_sync++, and either unlock and return or
\* start real_cuCtxSynchronize, which waits for every kernel queued so far.
Count(t) ==
  /\ tpc[t] = "count"
  /\ kcount_owner = None
  /\ kern_since_sync' = kern_since_sync + 1
  /\ IF kern_since_sync + 1 >= pending_kernel_window
     THEN /\ tpc' = [tpc EXCEPT ![t] = "sync"]
          /\ kcount_owner' = t
          /\ ahead' = [ahead EXCEPT ![t] = queued]
     ELSE /\ tpc' = [tpc EXCEPT ![t] = "idle"]
          /\ UNCHANGED <<kcount_owner, ahead>>
  /\ UNCHANGED <<pending_kernel_window, window_read, duration, queued,
                 reset_unconsumed>>

\* cuCtxSynchronize returned after the sync-duration measurement: the
\* chosen branch reads pending_kernel_window (the >= 10 s branch does not).
SyncReturn(t) ==
  /\ tpc[t] = "sync"
  /\ ahead[t] = 0
  /\ \E d \in Durations :
       /\ duration' = [duration EXCEPT ![t] = d]
       /\ window_read' = [window_read EXCEPT ![t] = pending_kernel_window]
       /\ reset_unconsumed' = (reset_unconsumed /\ d = "big")
  /\ tpc' = [tpc EXCEPT ![t] = "adapt"]
  /\ UNCHANGED <<pending_kernel_window, kern_since_sync, kcount_owner, ahead,
                 queued>>

\* Variant: doubling without the KERN_SYNC_WINDOW_MAX cap.
NewWindowUncapped(d, w) ==
  CASE d = "big"    -> 1
    [] d = "medium" -> MaxOf(w \div 2, 1)
    [] d = "small"  -> w * 2

\* The window the controller stores for a sync of duration d, given the
\* window it read.
NewWindow(d, w) ==
  CASE d = "big"    -> 1
    [] d = "medium" -> MaxOf(w \div 2, 1)
    [] d = "small"  -> MinOf(w * 2, KernSyncWindowMax)

\* The store of the new window, kern_since_sync = 0, unlock.  A decision
\* equal to the one taken on the reset window accounts for the reset.
Adapt(t) ==
  /\ tpc[t] = "adapt"
  /\ pending_kernel_window' = NewWindow(duration[t], window_read[t])
  /\ reset_unconsumed' = (reset_unconsumed /\
         NewWindow(duration[t], window_read[t]) # NewWindow(duration[t], 1))
  /\ kern_since_sync' = 0
  /\ kcount_owner' = None
  /\ tpc' = [tpc EXCEPT ![t] = "idle"]
  /\ UNCHANGED <<ahead, window_read, duration, queued>>

\* The device finishes its oldest kernel.
Complete ==
  /\ queued > 0
  /\ queued' = queued - 1
  /\ ahead' = [t \in Threads |-> MaxOf(ahead[t] - 1, 0)]
  /\ UNCHANGED <<pending_kernel_window, kern_since_sync, kcount_owner, tpc,
                 window_read, duration, reset_unconsumed>>

\* cuda_sync_context, called on DROP_LOCK and by the early-release fallback:
\* pending_kernel_window = 1 without kcount_mutex, then a context sync that
\* touches none of the controller's state.
CudaSyncContext ==
  /\ pending_kernel_window' = 1
  /\ reset_unconsumed' = TRUE
  /\ UNCHANGED <<kern_since_sync, kcount_owner, tpc, ahead, window_read,
                 duration, queued>>

-----------------------------------------------------------------------------
RateInit ==
  /\ pending_kernel_window = 1
  /\ kern_since_sync = 0
  /\ kcount_owner = None
  /\ tpc = [t \in Threads |-> "idle"]
  /\ ahead = [t \in Threads |-> 0]
  /\ window_read = [t \in Threads |-> 1]
  /\ duration = [t \in Threads |-> "small"]
  /\ queued = 0
  /\ reset_unconsumed = FALSE

RateNext ==
  \/ \E t \in Threads : RealLaunch(t) \/ Count(t) \/ SyncReturn(t) \/ Adapt(t)
  \/ Complete
  \/ CudaSyncContext

RateSpec == RateInit /\ [][RateNext]_rateVars

-----------------------------------------------------------------------------
Windows == {2^i : i \in 0..11} \cap 1..KernSyncWindowMax

TypeOK ==
  /\ pending_kernel_window \in Windows
  /\ kern_since_sync \in Nat
  /\ kcount_owner \in Threads \cup {None}
  /\ tpc \in [Threads -> {"idle", "count", "sync", "adapt"}]
  /\ ahead \in [Threads -> Nat]
  /\ window_read \in [Threads -> Windows]
  /\ duration \in [Threads -> Durations]
  /\ queued \in Nat
  /\ reset_unconsumed \in BOOLEAN

\* The purpose of the controller (hook.c, comment in cuLaunchKernel): the
\* device never has more unfinished kernels than the largest window plus
\* one kernel of each other thread launched during a synchronize, so the
\* sync before LOCK_RELEASED is short.
BacklogBounded ==
  queued <= KernSyncWindowMax + Cardinality(Threads) - 1

\* The window reset in cuda_sync_context takes effect (spec.md section 9:
\* "every handover resets the rate controller"): until a window decision
\* has read the reset value (or decided as if it had), the window stays 1.
HandoverResetsWindow ==
  reset_unconsumed => pending_kernel_window = 1

=============================================================================
