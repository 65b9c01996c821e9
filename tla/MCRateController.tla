-------------------------- MODULE MCRateController --------------------------
(***************************************************************************)
(* Model-checking instances of RateController.                             *)
(***************************************************************************)
EXTENDS RateController, TLC

CONSTANTS t1, t2, t3

\* Application threads are interchangeable.
MCThreadSymmetry == Permutations({t1, t2, t3})

=============================================================================
