---------------------------- MODULE MCParentStore ----------------------------
(***************************************************************************)
(* Two goroutines, one checkpoint, one warm instance and two deltas.       *)
(***************************************************************************)
EXTENDS ParentStore
=============================================================================
