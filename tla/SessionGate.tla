----------------------------- MODULE SessionGate -----------------------------
(***************************************************************************)
(* The ledger's per-session gates (pkg/core/ledger.go: perSession,         *)
(* sessionGate, acquireSession, releaseSession, holdSession).              *)
(*                                                                         *)
(* A gate is a mutex with a reference count, reached through a map that is *)
(* guarded by the ledger's own mutex.  Taking a gate is two steps (the     *)
(* lookup under l.mu, then gate.mu.Lock) and so is letting it go           *)
(* (gate.mu.Unlock, then the count under l.mu), so a gate may be deleted   *)
(* from the map while others are between their steps.  A gate is a heap    *)
(* object: Gates are its possible addresses, and a new gate takes one that *)
(* nothing refers to any more.                                             *)
(***************************************************************************)
EXTENDS Naturals, FiniteSets

CONSTANTS
    Procs,      \* the goroutines
    Keys,       \* session keys, grantUID/name
    Gates,      \* addresses a sessionGate may have
    NoKey, NoGate, NoProc

ASSUME NoValueAssumption ==
    NoKey \notin Keys /\ NoGate \notin Gates /\ NoProc \notin Procs
ASSUME FiniteAssumption == IsFiniteSet(Procs)

VARIABLES
    perSession, \* the map: key -> gate, or NoGate
    refs,       \* gate -> its reference count
    owner,      \* gate -> the goroutine that has gate.mu, or NoProc
    pc,         \* where each goroutine is
    key,        \* the key it asked for
    gate        \* the gate it got from the map

vars == <<perSession, refs, owner, pc, key, gate>>

\* A goroutine that has looked its gate up and not dropped it yet.
Refers(p) == pc[p] # "idle"

Referrers(g) == {p \in Procs : Refers(p) /\ gate[p] = g}

\* No map entry and no goroutine refers to g: the address is free.
Free(g) ==
    /\ \A k \in Keys : perSession[k] # g
    /\ \A p \in Procs : Refers(p) => gate[p] # g

Init ==
    /\ perSession = [k \in Keys |-> NoGate]
    /\ refs = [g \in Gates |-> 0]
    /\ owner = [g \in Gates |-> NoProc]
    /\ pc = [p \in Procs |-> "idle"]
    /\ key = [p \in Procs |-> NoKey]
    /\ gate = [p \in Procs |-> NoGate]

-----------------------------------------------------------------------------
\* acquireSession, the part under l.mu: find the gate or make one, count up.
Lookup(p, k) ==
    /\ pc[p] = "idle"
    /\ \/ /\ perSession[k] # NoGate
          /\ gate' = [gate EXCEPT ![p] = perSession[k]]
          /\ refs' = [refs EXCEPT ![perSession[k]] = @ + 1]
          /\ UNCHANGED <<perSession, owner>>
       \/ /\ perSession[k] = NoGate
          /\ \E g \in Gates :
                /\ Free(g)
                /\ gate' = [gate EXCEPT ![p] = g]
                /\ perSession' = [perSession EXCEPT ![k] = g]
                /\ refs' = [refs EXCEPT ![g] = 1]
                /\ owner' = [owner EXCEPT ![g] = NoProc]
    /\ key' = [key EXCEPT ![p] = k]
    /\ pc' = [pc EXCEPT ![p] = "wait"]

\* Mutant of Lock: a TryLock, and whoever finds the gate locked lets it go.
LockOrLeave(p) ==
    /\ pc[p] = "wait"
    /\ \/ /\ owner[gate[p]] = NoProc
          /\ owner' = [owner EXCEPT ![gate[p]] = p]
          /\ pc' = [pc EXCEPT ![p] = "held"]
       \/ /\ owner[gate[p]] # NoProc
          /\ pc' = [pc EXCEPT ![p] = "unlocked"]
          /\ UNCHANGED owner
    /\ UNCHANGED <<perSession, refs, key, gate>>

\* acquireSession, gate.mu.Lock() returns.
Lock(p) ==
    /\ pc[p] = "wait"
    /\ owner[gate[p]] = NoProc
    /\ owner' = [owner EXCEPT ![gate[p]] = p]
    /\ pc' = [pc EXCEPT ![p] = "held"]
    /\ UNCHANGED <<perSession, refs, key, gate>>

\* releaseSession, gate.mu.Unlock().
Unlock(p) ==
    /\ pc[p] = "held"
    /\ owner' = [owner EXCEPT ![gate[p]] = NoProc]
    /\ pc' = [pc EXCEPT ![p] = "unlocked"]
    /\ UNCHANGED <<perSession, refs, key, gate>>

\* Mutant of Drop: the entry is deleted whatever the count says.
DropAlways(p) ==
    /\ pc[p] = "unlocked"
    /\ refs' = [refs EXCEPT ![gate[p]] = @ - 1]
    /\ perSession' = [perSession EXCEPT ![key[p]] = NoGate]
    /\ pc' = [pc EXCEPT ![p] = "idle"]
    /\ key' = [key EXCEPT ![p] = NoKey]
    /\ gate' = [gate EXCEPT ![p] = NoGate]
    /\ UNCHANGED owner

\* releaseSession, the part under l.mu: count down, delete the entry at 0.
Drop(p) ==
    /\ pc[p] = "unlocked"
    /\ refs' = [refs EXCEPT ![gate[p]] = @ - 1]
    /\ perSession' = IF refs[gate[p]] = 1
                     THEN [perSession EXCEPT ![key[p]] = NoGate]
                     ELSE perSession
    /\ pc' = [pc EXCEPT ![p] = "idle"]
    /\ key' = [key EXCEPT ![p] = NoKey]
    /\ gate' = [gate EXCEPT ![p] = NoGate]
    /\ UNCHANGED owner

Next ==
    \E p \in Procs :
        \/ \E k \in Keys : Lookup(p, k)
        \/ Lock(p)
        \/ Unlock(p)
        \/ Drop(p)

Spec == Init /\ [][Next]_vars

(***************************************************************************)
(* Go's sync.Mutex hands itself to a waiter that has waited for 1 ms, so a *)
(* goroutine whose mutex is free again and again gets it: strong fairness  *)
(* of Lock.  A holder lets go: every holder runs under a deadline and      *)
(* releases in a defer.                                                    *)
(***************************************************************************)
Fairness ==
    \A p \in Procs : SF_vars(Lock(p)) /\ WF_vars(Unlock(p)) /\ WF_vars(Drop(p))

FairSpec == Spec /\ Fairness

-----------------------------------------------------------------------------
TypeOK ==
    /\ perSession \in [Keys -> Gates \cup {NoGate}]
    /\ refs \in [Gates -> Nat]
    /\ owner \in [Gates -> Procs \cup {NoProc}]
    /\ pc \in [Procs -> {"idle", "wait", "held", "unlocked"}]
    /\ key \in [Procs -> Keys \cup {NoKey}]
    /\ gate \in [Procs -> Gates \cup {NoGate}]

\* A goroutine between its lookup and its drop is in the map: the entry of
\* its key is the very gate it waits on or holds, so a later Clone of the
\* same session meets it there (acquireSession's refs).
InMap ==
    \A p \in Procs : Refers(p) =>
        key[p] \in Keys /\ gate[p] \in Gates /\ perSession[key[p]] = gate[p]

\* The count of a gate in the map is the number of goroutines that have it,
\* and an entry nobody has is deleted: "the map is bounded by concurrency,
\* not by session names ever seen".
RefsExact ==
    \A g \in Gates : (\E k \in Keys : perSession[k] = g) =>
        refs[g] = Cardinality(Referrers(g)) /\ refs[g] > 0

\* Two keys never share a gate.
OneKeyPerGate ==
    \A k1, k2 \in Keys :
        perSession[k1] = perSession[k2] /\ perSession[k1] # NoGate => k1 = k2

\* gate.mu is locked by the goroutine that holds, and by no other.
OwnerHolds ==
    /\ \A p \in Procs : pc[p] = "held" => owner[gate[p]] = p
    /\ \A k \in Keys :
          LET o == owner[perSession[k]] IN
          perSession[k] # NoGate /\ o # NoProc =>
              pc[o] = "held" /\ gate[o] = perSession[k]

IInv == TypeOK /\ InMap /\ RefsExact /\ OneKeyPerGate /\ OwnerHolds

\* Two goroutines never hold one session at once, whatever gates were
\* deleted and made again meanwhile: "one session never runs twice" rests
\* on it (resolveHeld).
MutualExclusion ==
    \A p, q \in Procs :
        pc[p] = "held" /\ pc[q] = "held" /\ key[p] = key[q] => p = q

\* The gates implement the abstract keyed lock.
Lock0 == INSTANCE KeyedLock WITH
            holding <- [p \in Procs |-> IF pc[p] = "held" THEN key[p] ELSE NoKey]

ImplementsKeyedLock == Lock0!Spec

\* A goroutine that asked for a session's gate gets it.
WaiterServed == \A p \in Procs : (pc[p] = "wait") ~> (pc[p] = "held")

==============================================================================
