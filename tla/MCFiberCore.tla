----------------------------- MODULE MCFiberCore -----------------------------
(***************************************************************************)
(* FiberCore for TLC.  Goroutines are interchangeable.                     *)
(***************************************************************************)
EXTENDS FiberCore, TLC

MCSymmetry == Permutations(Procs)
==============================================================================
