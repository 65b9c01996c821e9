----------------------------- MODULE MCMemShim ------------------------------
(***************************************************************************)
(* Model-checking instances of MemShim.  The unit is 512 MiB, so the       *)
(* 1536 MiB reserve is 3 units; size_t is 5 bits wide (32 units).          *)
(***************************************************************************)
EXTENDS MemShim, TLC

CONSTANTS a1, a2, a3, a4

\* Three ordinary requests, one larger than the cap, and (size_t)-1, the
\* largest size_t, whose sum with sum_allocated wraps.
MCSizes == {1, 2, 8, Wrap - 1}

\* Device addresses are interchangeable.
MCPtrSymmetry == Permutations({a1, a2, a3, a4})

=============================================================================
