----------------------------- MODULE MCAuditSpool -----------------------------
(***************************************************************************)
(* AuditSpool for TLC.                                                     *)
(***************************************************************************)
EXTENDS AuditSpool
==============================================================================
