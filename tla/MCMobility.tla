----------------------------- MODULE MCMobility -----------------------------
(***************************************************************************)
(* A session between two homes and a control plane that ships it.          *)
(***************************************************************************)
EXTENDS Mobility, TLC

CONSTANTS h1, h2

Machines == Permutations(Homes)

\* A session whose line is broken is not followed further.
Unbroken == ~split
=============================================================================
