-------------------------- MODULE SessionGateProofs --------------------------
(***************************************************************************)
(* SessionGate, for any finite set of goroutines and any keys: IInv is     *)
(* inductive, a session has one holder, and the gates implement the        *)
(* abstract keyed lock.                                                    *)
(***************************************************************************)
EXTENDS SessionGate, FiniteSetTheorems, TLAPS

\* The goroutines that have a gate are finitely many.
LEMMA ReferrersFinite ==
    ASSUME NEW g
    PROVE  IsFiniteSet(Referrers(g)) /\ Cardinality(Referrers(g)) \in Nat
<1>1. Referrers(g) \subseteq Procs
  BY DEF Referrers
<1>2. IsFiniteSet(Referrers(g))
  BY <1>1, FiniteAssumption, FS_Subset
<1> QED BY <1>2, FS_CardinalityType

\* Init establishes the inductive invariant.
LEMMA InitIInv == Init => IInv
BY NoValueAssumption DEF Init, IInv, TypeOK, InMap, RefsExact, OneKeyPerGate, OwnerHolds, Refers

\* acquireSession's lookup keeps the inductive invariant, whether it finds
\* the gate or makes one.
LEMMA LookupIInv ==
    ASSUME IInv, NEW p \in Procs, NEW k \in Keys, Lookup(p, k)
    PROVE  IInv'
<1> USE NoValueAssumption DEF IInv
<1>0. pc[p] = "idle" /\ key' = [key EXCEPT ![p] = k] /\ pc' = [pc EXCEPT ![p] = "wait"]
  BY DEF Lookup
<1>1. CASE /\ perSession[k] # NoGate
           /\ gate' = [gate EXCEPT ![p] = perSession[k]]
           /\ refs' = [refs EXCEPT ![perSession[k]] = @ + 1]
           /\ UNCHANGED <<perSession, owner>>
  <2> DEFINE g == perSession[k]
  <2>1. g \in Gates /\ p \notin Referrers(g)
    BY <1>0, <1>1 DEF TypeOK, Referrers, Refers
  <2>2. TypeOK'
    BY <1>0, <1>1, <2>1 DEF TypeOK
  <2>3. InMap'
    BY <1>0, <1>1, <2>1 DEF TypeOK, InMap, Refers
  <2>4. Referrers(g)' = Referrers(g) \cup {p}
    BY <1>0, <1>1 DEF TypeOK, Referrers, Refers
  <2>5. \A h \in Gates : h # g => Referrers(h)' = Referrers(h)
    BY <1>0, <1>1 DEF TypeOK, Referrers, Refers
  <2>6. Cardinality(Referrers(g)') = Cardinality(Referrers(g)) + 1
    BY <2>1, <2>4, ReferrersFinite, FS_AddElement
  <2>7. RefsExact'
    <3> SUFFICES ASSUME NEW h \in Gates, NEW j \in Keys, perSession'[j] = h
                 PROVE  refs'[h] = Cardinality(Referrers(h)') /\ refs'[h] > 0
      BY DEF RefsExact
    <3>1. CASE h = g
      BY <3>1, <1>1, <2>1, <2>6, ReferrersFinite DEF RefsExact, TypeOK
    <3>2. CASE h # g
      BY <3>2, <1>1, <2>5 DEF RefsExact, TypeOK
    <3> QED BY <3>1, <3>2
  <2>8. OneKeyPerGate'
    BY <1>1 DEF OneKeyPerGate
  <2>9. OwnerHolds'
    BY <1>0, <1>1, <2>1 DEF OwnerHolds, TypeOK
  <2> QED BY <2>2, <2>3, <2>7, <2>8, <2>9
<1>2. CASE /\ perSession[k] = NoGate
           /\ \E g \in Gates :
                 /\ Free(g)
                 /\ gate' = [gate EXCEPT ![p] = g]
                 /\ perSession' = [perSession EXCEPT ![k] = g]
                 /\ refs' = [refs EXCEPT ![g] = 1]
                 /\ owner' = [owner EXCEPT ![g] = NoProc]
  <2>1. PICK g \in Gates :
                 /\ Free(g)
                 /\ gate' = [gate EXCEPT ![p] = g]
                 /\ perSession' = [perSession EXCEPT ![k] = g]
                 /\ refs' = [refs EXCEPT ![g] = 1]
                 /\ owner' = [owner EXCEPT ![g] = NoProc]
    BY <1>2
  <2>2. TypeOK'
    BY <1>0, <2>1 DEF TypeOK
  <2>3. InMap'
    BY <1>0, <1>2, <2>1 DEF TypeOK, InMap, Refers, Free
  <2>4. Referrers(g)' = {p}
    BY <1>0, <2>1 DEF TypeOK, Referrers, Refers, Free
  <2>5. \A h \in Gates : h # g => Referrers(h)' = Referrers(h)
    BY <1>0, <2>1 DEF TypeOK, Referrers, Refers
  <2>6. Cardinality(Referrers(g)') = 1
    BY <2>4, FS_Singleton
  <2>7. RefsExact'
    <3> SUFFICES ASSUME NEW h \in Gates, NEW j \in Keys, perSession'[j] = h
                 PROVE  refs'[h] = Cardinality(Referrers(h)') /\ refs'[h] > 0
      BY DEF RefsExact
    <3>1. CASE h = g
      BY <3>1, <2>1, <2>6 DEF TypeOK
    <3>2. CASE h # g
      BY <3>2, <2>1, <2>5 DEF RefsExact, TypeOK
    <3> QED BY <3>1, <3>2
  <2>8. OneKeyPerGate'
    BY <2>1 DEF OneKeyPerGate, TypeOK, Free
  <2>9. OwnerHolds'
    <3>1. \A q \in Procs : pc'[q] = "held" => owner'[gate'[q]] = q
      BY <1>0, <2>1 DEF OwnerHolds, TypeOK, Free, Refers
    <3>2. ASSUME NEW j \in Keys, perSession'[j] # NoGate, owner'[perSession'[j]] # NoProc
          PROVE  LET o == owner'[perSession'[j]] IN pc'[o] = "held" /\ gate'[o] = perSession'[j]
      <4>1. j # k
        BY <3>2, <2>1 DEF TypeOK
      <4>2. perSession'[j] = perSession[j] /\ perSession[j] \in Gates /\ perSession[j] # g
        BY <4>1, <3>2, <2>1 DEF TypeOK, Free
      <4> QED BY <4>2, <3>2, <1>0, <2>1 DEF OwnerHolds, TypeOK
    <3> QED BY <3>1, <3>2 DEF OwnerHolds
  <2> QED BY <2>2, <2>3, <2>7, <2>8, <2>9
<1> QED BY <1>1, <1>2 DEF Lookup

\* gate.mu.Lock and gate.mu.Unlock keep the inductive invariant.
LEMMA LockIInv ==
    ASSUME IInv, NEW p \in Procs, Lock(p) \/ Unlock(p)
    PROVE  IInv'
<1> USE NoValueAssumption DEF IInv
<1>1. Refers(p) /\ gate[p] \in Gates /\ key[p] \in Keys /\ perSession[key[p]] = gate[p]
  BY DEF Lock, Unlock, InMap, Refers
<1>2. UNCHANGED <<perSession, refs, key, gate>>
  BY DEF Lock, Unlock
<1>3. \A q \in Procs : Refers(q)' = Refers(q)
  BY DEF Lock, Unlock, Refers, TypeOK
<1>4. TypeOK'
  BY <1>1 DEF Lock, Unlock, TypeOK
<1>5. InMap'
  BY <1>2, <1>3 DEF InMap
<1>6. \A g \in Gates : Referrers(g)' = Referrers(g)
  BY <1>2, <1>3 DEF Referrers
<1>7. RefsExact'
  BY <1>2, <1>6 DEF RefsExact
<1>8. OneKeyPerGate'
  BY <1>2 DEF OneKeyPerGate
<1>9. OwnerHolds'
  <2>1. ASSUME NEW q \in Procs, pc'[q] = "held"
        PROVE  owner'[gate'[q]] = q
    BY <1>1, <2>1 DEF Lock, Unlock, OwnerHolds, TypeOK, InMap, Refers
  <2>2. ASSUME NEW k \in Keys, perSession'[k] # NoGate, owner'[perSession'[k]] # NoProc
        PROVE  /\ pc'[owner'[perSession'[k]]] = "held"
               /\ gate'[owner'[perSession'[k]]] = perSession'[k]
    <3>1. perSession'[k] = perSession[k] /\ perSession[k] \in Gates
      BY <1>2, <2>2 DEF TypeOK
    <3>2. CASE perSession[k] = gate[p]
      BY <3>1, <3>2, <2>2, <1>1 DEF Lock, Unlock, TypeOK
    <3>3. CASE perSession[k] # gate[p]
      <4>1. owner'[perSession[k]] = owner[perSession[k]]
        BY <3>1, <3>3, <1>1 DEF Lock, Unlock, TypeOK
      <4>2. pc[owner[perSession[k]]] = "held" /\ gate[owner[perSession[k]]] = perSession[k]
        BY <4>1, <3>1, <2>2 DEF OwnerHolds
      <4> QED BY <4>1, <4>2, <3>1, <3>3, <2>2 DEF Lock, Unlock, TypeOK
    <3> QED BY <3>2, <3>3
  <2> QED BY <2>1, <2>2 DEF OwnerHolds
<1> QED BY <1>4, <1>5, <1>7, <1>8, <1>9

\* releaseSession's count-down keeps the inductive invariant: the entry goes
\* with its last referrer, and never before.
LEMMA DropIInv ==
    ASSUME IInv, NEW p \in Procs, Drop(p)
    PROVE  IInv'
<1> USE NoValueAssumption DEF IInv
<1>0. pc[p] = "unlocked" /\ gate[p] \in Gates /\ key[p] \in Keys /\ perSession[key[p]] = gate[p]
  BY DEF Drop, InMap, Refers
<1> SUFFICES ASSUME NEW g \in Gates, NEW k \in Keys, g = gate[p], k = key[p]
             PROVE  IInv'
  BY <1>0
<1>1. pc[p] = "unlocked" /\ Refers(p) /\ perSession[k] = g
  BY <1>0 DEF Refers
<1>2. /\ refs' = [refs EXCEPT ![g] = @ - 1]
      /\ pc' = [pc EXCEPT ![p] = "idle"]
      /\ key' = [key EXCEPT ![p] = NoKey]
      /\ gate' = [gate EXCEPT ![p] = NoGate]
      /\ owner' = owner
  BY DEF Drop
<1>3. p \in Referrers(g) /\ refs[g] = Cardinality(Referrers(g)) /\ refs[g] > 0 /\ refs[g] \in Nat
  BY <1>1 DEF RefsExact, Referrers, TypeOK
<1>4. Referrers(g)' = Referrers(g) \ {p}
  BY <1>1, <1>2 DEF Referrers, Refers, TypeOK
<1>5. \A h \in Gates : h # g => Referrers(h)' = Referrers(h)
  BY <1>1, <1>2 DEF Referrers, Refers, TypeOK
<1>6. Cardinality(Referrers(g)') = Cardinality(Referrers(g)) - 1
  BY <1>3, <1>4, ReferrersFinite, FS_RemoveElement
<1>7. TypeOK'
  <2>1. refs' \in [Gates -> Nat]
    BY <1>1, <1>2, <1>3 DEF TypeOK
  <2>2. perSession' \in [Keys -> Gates \cup {NoGate}]
    BY <1>1 DEF Drop, TypeOK
  <2> QED BY <2>1, <2>2, <1>1, <1>2 DEF TypeOK
<1>8. CASE refs[g] = 1
  <2>1. perSession' = [perSession EXCEPT ![k] = NoGate]
    BY <1>8 DEF Drop
  <2>2. Referrers(g) = {p}
    <3>1. Cardinality(Referrers(g) \ {p}) = 0 /\ IsFiniteSet(Referrers(g) \ {p})
      <4>1. IsFiniteSet(Referrers(g) \ {p})
        BY ReferrersFinite, FS_Subset
      <4> QED BY <4>1, <1>3, <1>4, <1>6, <1>8
    <3>2. Referrers(g) \ {p} = {}
      BY <3>1, FS_EmptySet
    <3> QED BY <3>2, <1>3
  <2>3. \A q \in Procs : Refers(q) /\ key[q] = k => q = p
    BY <2>2, <1>1 DEF InMap, Referrers
  <2>4. InMap'
    BY <1>1, <1>2, <2>1, <2>3 DEF InMap, Refers, TypeOK
  <2>5. RefsExact'
    <3> SUFFICES ASSUME NEW h \in Gates, NEW j \in Keys, perSession'[j] = h
                 PROVE  refs'[h] = Cardinality(Referrers(h)') /\ refs'[h] > 0
      BY DEF RefsExact
    <3>1. j # k /\ perSession[j] = h
      BY <2>1 DEF TypeOK
    <3>2. h # g
      BY <3>1, <1>1 DEF OneKeyPerGate
    <3> QED BY <3>1, <3>2, <1>2, <1>5 DEF RefsExact, TypeOK
  <2>6. OneKeyPerGate'
    BY <2>1 DEF OneKeyPerGate, TypeOK
  <2>7. OwnerHolds'
    BY <1>1, <1>2, <2>1 DEF OwnerHolds, TypeOK
  <2> QED BY <1>7, <2>4, <2>5, <2>6, <2>7
<1>9. CASE refs[g] # 1
  <2>1. perSession' = perSession
    BY <1>9 DEF Drop
  <2>2. InMap'
    BY <1>1, <1>2, <2>1 DEF InMap, Refers, TypeOK
  <2>3. RefsExact'
    <3> SUFFICES ASSUME NEW h \in Gates, NEW j \in Keys, perSession'[j] = h
                 PROVE  refs'[h] = Cardinality(Referrers(h)') /\ refs'[h] > 0
      BY DEF RefsExact
    <3>1. CASE h = g
      BY <3>1, <1>2, <1>3, <1>6, <1>9 DEF TypeOK
    <3>2. CASE h # g
      BY <3>2, <2>1, <1>2, <1>5 DEF RefsExact, TypeOK
    <3> QED BY <3>1, <3>2
  <2>4. OneKeyPerGate'
    BY <2>1 DEF OneKeyPerGate
  <2>5. OwnerHolds'
    BY <1>1, <1>2, <2>1 DEF OwnerHolds, TypeOK
  <2> QED BY <1>7, <2>2, <2>3, <2>4, <2>5
<1> QED BY <1>8, <1>9

\* The inductive invariant holds of every state the gates reach.
THEOREM GateInvariant == Spec => []IInv
<1>1. IInv /\ [Next]_vars => IInv'
  <2> SUFFICES ASSUME IInv, [Next]_vars PROVE IInv'
    OBVIOUS
  <2>1. CASE Next
    BY <2>1, LookupIInv, LockIInv, DropIInv DEF Next
  <2>2. CASE UNCHANGED vars
    BY <2>2 DEF vars, IInv, TypeOK, InMap, RefsExact, OneKeyPerGate, OwnerHolds, Refers, Referrers
  <2> QED BY <2>1, <2>2
<1> QED BY InitIInv, <1>1, PTL DEF Spec

\* For any goroutines, keys and gates, a session has at most one holder
\* (holdSession), although gates are deleted and made again.
THEOREM GateMutualExclusion == Spec => []MutualExclusion
<1>1. IInv => MutualExclusion
  BY DEF IInv, MutualExclusion, InMap, OwnerHolds, Refers
<1> QED BY GateInvariant, <1>1, PTL

\* The reference-counted gates implement the keyed lock that Clone, Park and
\* Discard rely on.
THEOREM GateImplementsLock == Spec => ImplementsKeyedLock
<1> DEFINE h == [p \in Procs |-> IF pc[p] = "held" THEN key[p] ELSE NoKey]
<1>1. Init => Lock0!Init
  BY DEF Init, Lock0!Init
<1>2. ASSUME IInv, [Next]_vars
      PROVE  [Lock0!Next]_h
  <2> USE NoValueAssumption DEF IInv
  <2>1. ASSUME NEW p \in Procs, NEW k \in Keys, Lookup(p, k) PROVE h' = h
    BY <1>2, <2>1 DEF Lookup, TypeOK
  <2>2. ASSUME NEW p \in Procs, Drop(p) PROVE h' = h
    BY <1>2, <2>2 DEF Drop, TypeOK
  <2>3. ASSUME NEW p \in Procs, Lock(p) PROVE \E k \in Keys : Lock0!Acquire(p, k)
    <3>1. key[p] \in Keys /\ pc[p] = "wait" /\ pc' = [pc EXCEPT ![p] = "held"] /\ key' = key
      BY <1>2, <2>3 DEF Lock, InMap, Refers
    <3>2. \A q \in Procs : ~(pc[q] = "held" /\ key[q] = key[p])
      BY <1>2, <2>3, <3>1 DEF Lock, InMap, OwnerHolds, Refers
    <3>3. h[p] = NoKey /\ \A q \in Procs : h[q] # key[p]
      BY <3>1, <3>2
    <3>4. h' = [h EXCEPT ![p] = key[p]]
      BY <1>2, <3>1 DEF TypeOK
    <3> QED BY <3>1, <3>3, <3>4 DEF Lock0!Acquire
  <2>4. ASSUME NEW p \in Procs, Unlock(p) PROVE Lock0!Release(p)
    <3>1. key[p] \in Keys /\ pc[p] = "held" /\ pc' = [pc EXCEPT ![p] = "unlocked"] /\ key' = key
      BY <1>2, <2>4 DEF Unlock, InMap, Refers
    <3>2. h' = [h EXCEPT ![p] = NoKey] /\ h[p] # NoKey
      BY <1>2, <3>1 DEF TypeOK
    <3> QED BY <3>2 DEF Lock0!Release
  <2>5. CASE UNCHANGED vars
    BY <2>5 DEF vars
  <2>6. CASE Next
    <3>1. PICK p \in Procs : (\E k \in Keys : Lookup(p, k)) \/ Lock(p) \/ Unlock(p) \/ Drop(p)
      BY <2>6 DEF Next
    <3>2. h' = h \/ Lock0!Release(p) \/ \E k \in Keys : Lock0!Acquire(p, k)
      <4>1. CASE \E k \in Keys : Lookup(p, k)
        BY <4>1, <2>1
      <4>2. CASE Lock(p)
        BY <4>2, <2>3, Zenon
      <4>3. CASE Unlock(p)
        BY <4>3, <2>4
      <4>4. CASE Drop(p)
        BY <4>4, <2>2
      <4> QED BY <3>1, <4>1, <4>2, <4>3, <4>4, Zenon
    <3> QED BY <3>2 DEF Lock0!Next
  <2> QED BY <1>2, <2>5, <2>6
<1> QED BY <1>1, <1>2, GateInvariant, PTL DEF Spec, ImplementsKeyedLock, Lock0!Spec
==============================================================================
