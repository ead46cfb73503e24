---------------------------- MODULE FiberService ----------------------------
(***************************************************************************)
(* What a home promises about fibers and sessions, whatever its runtime,   *)
(* its callers and its revocations do (docs/design/core.md): a session     *)
(* runs in one fiber at a time, every fiber has a fence of its own, and a  *)
(* fiber of a parked session carries on from the state that is parked,     *)
(* never from older state and never from none.                             *)
(***************************************************************************)
EXTENDS Naturals

CONSTANTS Grants, Names, Anon, NoFiber

Keys == Grants \X Names
Fiber == [g : Grants, e : Nat, n : Nat, s : Names \cup {Anon}, inc : Nat]
Fence(f) == <<f.g, f.e, f.n>>
Key(f) == <<f.g, f.s>>
Named(f) == f.s # Anon

VARIABLES
    running,    \* the fibers that run
    parked,     \* session -> the fiber whose state is parked, or NoFiber
    base,       \* session -> the parked fiber its running fiber carries on from
    ever        \* every fiber there has been

vars == <<running, parked, base, ever>>

Init ==
    /\ running = {}
    /\ parked = [k \in Keys |-> NoFiber]
    /\ base = [k \in Keys |-> NoFiber]
    /\ ever = {}

\* A create, or the resume of what is parked.
Birth(f) ==
    /\ \A h \in ever : Fence(h) # Fence(f)
    /\ running' = running \cup {f}
    /\ ever' = ever \cup {f}
    /\ IF Named(f)
       THEN /\ \A h \in running : Key(h) # Key(f)
            /\ base' = [base EXCEPT ![Key(f)] = parked[Key(f)]]
            /\ parked' = [parked EXCEPT ![Key(f)] = NoFiber]
       ELSE UNCHANGED <<parked, base>>

Park(f) ==
    /\ f \in running
    /\ Named(f)
    /\ running' = running \ {f}
    /\ parked' = [parked EXCEPT ![Key(f)] = f]
    /\ base' = [base EXCEPT ![Key(f)] = NoFiber]
    /\ UNCHANGED ever

\* A release, a sweep or a death.
End(f) ==
    /\ f \in running
    /\ running' = running \ {f}
    /\ base' = IF Named(f) THEN [base EXCEPT ![Key(f)] = NoFiber] ELSE base
    /\ UNCHANGED <<parked, ever>>

Forget(k) ==
    /\ parked[k] # NoFiber
    /\ parked' = [parked EXCEPT ![k] = NoFiber]
    /\ UNCHANGED <<running, base, ever>>

Next ==
    \/ \E f \in running' : f \in Fiber /\ Birth(f)
    \/ \E f \in running : Park(f) \/ End(f)
    \/ \E k \in Keys : Forget(k)

Spec == Init /\ [][Next]_vars
==============================================================================
