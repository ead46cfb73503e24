---------------------------- MODULE MCSessionGate ----------------------------
(***************************************************************************)
(* SessionGate for TLC: three goroutines contend for two sessions, with as *)
(* many gates as goroutines, so that a gate can be dropped and made afresh *)
(* while another waits on the old one.                                     *)
(***************************************************************************)
EXTENDS SessionGate
==============================================================================
