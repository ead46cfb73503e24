------------------------------ MODULE MCRestart ------------------------------
(***************************************************************************)
(* Two goroutines, one grant and its session through crashes, bumps, torn  *)
(* files, failed writes and held grants.                                   *)
(***************************************************************************)
EXTENDS Restart, TLC

CONSTANTS p1, p2, g1, noProc, noGrant, noFence, torn1

Workers == Permutations(Procs)
=============================================================================
