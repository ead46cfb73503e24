---------------------------- MODULE MCPoolLadder ----------------------------
(***************************************************************************)
(* Two grants: the first is cloned, admitted, yielded and pressed, and its *)
(* pool is emptied again and again; the second waits for its turn.         *)
(***************************************************************************)
EXTENDS PoolLadder
=============================================================================
