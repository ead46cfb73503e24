------------------------------ MODULE KeyedLock ------------------------------
(***************************************************************************)
(* What the ledger's per-session gate promises its callers (Clone, Park    *)
(* and Discard in pkg/core): a key is held by at most one goroutine at a   *)
(* time.  SessionGate is the reference-counted map of mutexes that         *)
(* implements it; FiberCore uses the lock in this abstract form.           *)
(***************************************************************************)
CONSTANTS
    Procs,      \* the goroutines
    Keys,       \* session keys, grantUID/name
    NoKey       \* "this goroutine holds nothing"

VARIABLE
    holding     \* the key each goroutine holds, or NoKey

Init == holding = [p \in Procs |-> NoKey]

\* holdSession returns to p: nobody else has the key.
Acquire(p, k) ==
    /\ holding[p] = NoKey
    /\ \A q \in Procs : holding[q] # k
    /\ holding' = [holding EXCEPT ![p] = k]

\* The sessionHold is released.
Release(p) ==
    /\ holding[p] # NoKey
    /\ holding' = [holding EXCEPT ![p] = NoKey]

Next == \E p \in Procs : Release(p) \/ \E k \in Keys : Acquire(p, k)

Spec == Init /\ [][Next]_holding
==============================================================================
