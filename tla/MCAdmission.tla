---------------------------- MODULE MCAdmission ----------------------------
(***************************************************************************)
(* Admission for TLC.  Three tokens of the UID: a short lease, a renewal   *)
(* for a caller whose key has rotated, and one with a changed fixed field. *)
(***************************************************************************)
EXTENDS Admission

MCTokens ==
    { [lease |-> 1, caller |-> 1, shape |-> 1],
      [lease |-> 2, caller |-> 2, shape |-> 1],
      [lease |-> 2, caller |-> 1, shape |-> 2] }
==============================================================================
