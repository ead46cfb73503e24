--------------------------- MODULE FiberCoreProofs ---------------------------
(***************************************************************************)
(* FiberCore, for any goroutines, grants, sessions and bounds: a session   *)
(* runs once, a fence is minted once, and the operations implement         *)
(* FiberService.                                                           *)
(*                                                                         *)
(* The argument.  Whoever is past its holdSession has the session's gate   *)
(* (GateHeld), and only a gate holder starts, resumes or parks a session,  *)
(* so what a clone resolved still stands when it commits (ResolveStands).  *)
(* A seq is minted above every seq of the grant (SeqBound), and RevokeGrant*)
(* and AdmitGrant carry the top over, so no two fibers share one           *)
(* (SeqDistinct).                                                          *)
(*                                                                         *)
(* The second half is about fates: what becomes of every process, of every *)
(* fiber a revocation or a drain must see, of every delta and every slot.  *)
(* Each part adds what it needs to the invariant of the first half.  Last  *)
(* come the gates, where these operations and SessionGate meet.            *)
(***************************************************************************)
EXTENDS FiberCore, FiniteSetTheorems, TLAPS

USE DEF ledgerVars, drainVars, runtimeVars

\* A fiber with a session name has a session key.
LEMMA KeyType ==
    ASSUME NEW f \in Fiber, Named(f)
    PROVE  Key(f) \in Keys
BY DEF Fiber, Named, Key, Keys

\* An unresolved request has the shape of a fiber.
LEMMA RequestType ==
    ASSUME NEW u \in Grants, NEW n \in Names \cup {Anon}
    PROVE  Request(u, n) \in Fiber
BY DEF Request, Fiber

\* What BumpEpoch keeps of its move has the shape of a fiber.
LEMMA MovedType ==
    ASSUME NEW e \in Nat
    PROVE  Moved(e) \in Fiber
BY ConstAssumption DEF Moved, Fiber

\* The helpers of the ledger keep the entries' type, presence and seq.
LEMMA SlotType ==
    ASSUME TypeOK, NEW f \in Fiber, NEW E, E = FreeSlot(f.g) \/ E = ReturnSlot(f)
    PROVE  /\ E \in [Grants -> [on : BOOLEAN, inc : Nat, next : Nat, live : Int]]
           /\ \A v \in Grants : /\ E[v].on = entry[v].on /\ E[v].next = entry[v].next
                                /\ E[v].inc = entry[v].inc
<1>1. f.g \in Grants
  BY DEF Fiber
<1>2. E = entry \/ E = [entry EXCEPT ![f.g].live = @ - 1]
  BY DEF FreeSlot, ReturnSlot
<1>3. CASE E = entry
  BY <1>3 DEF TypeOK
<1>4. CASE E = [entry EXCEPT ![f.g].live = @ - 1]
  <2>1. entry[f.g] \in [on : BOOLEAN, inc : Nat, next : Nat, live : Int]
    BY <1>1 DEF TypeOK
  <2>2. [entry[f.g] EXCEPT !.live = @ - 1] \in [on : BOOLEAN, inc : Nat, next : Nat, live : Int]
    BY <2>1
  <2>3. E = [entry EXCEPT ![f.g] = [entry[f.g] EXCEPT !.live = @ - 1]]
    BY <1>4
  <2>4. E \in [Grants -> [on : BOOLEAN, inc : Nat, next : Nat, live : Int]]
    BY <2>2, <2>3 DEF TypeOK
  <2>5. \A v \in Grants : E[v] = IF v = f.g THEN [entry[f.g] EXCEPT !.live = @ - 1] ELSE entry[v]
    BY <2>3 DEF TypeOK
  <2> QED BY <2>1, <2>4, <2>5
<1> QED BY <1>2, <1>3, <1>4

\* onGone keeps the types.
LEMMA OnGoneType ==
    ASSUME TypeOK, NEW f \in Fiber, NEW b \in BOOLEAN, OnGone(f, b)
    PROVE  /\ fibers' \subseteq Fiber /\ deltas' \subseteq Fiber
           /\ entry' \in [Grants -> [on : BOOLEAN, inc : Nat, next : Nat, live : Int]]
           /\ sessions' \in [Keys -> [st : {"none", "running", "parked"},
                                      f : Fiber \cup {NoFiber}, d : Fiber \cup {NoFiber}]]
<1>1. f.g \in Grants
  BY DEF Fiber
<1>2. entry' \in [Grants -> [on : BOOLEAN, inc : Nat, next : Nat, live : Int]]
  BY <1>1, SlotType DEF OnGone, TypeOK
<1>3. NoSession \in [st : {"none", "running", "parked"},
                     f : Fiber \cup {NoFiber}, d : Fiber \cup {NoFiber}]
  BY DEF NoSession
<1>4. sessions' \in [Keys -> [st : {"none", "running", "parked"},
                              f : Fiber \cup {NoFiber}, d : Fiber \cup {NoFiber}]]
  BY <1>3 DEF OnGone, TypeOK
<1> QED BY <1>2, <1>4 DEF OnGone, TypeOK

\* A home starts with well-formed state.
LEMMA TypeInit == Init => TypeOK
BY ConstAssumption DEF Init, TypeOK, Labels, NoSession

\* The clone's steps keep the types.
LEMMA TypeClone ==
    ASSUME IInv, NEW p \in Procs, CloneStep(p)
    PROVE  TypeOK'
<1> USE DEF IInv
<1>0. TypeOK /\ InHand
  OBVIOUS
<1>h. CASE CloneHold(p)
  BY <1>h, ConstAssumption DEF CloneHold, TypeOK, TakeGate, Goto, Labels
<1>ret. CASE CloneReturns(p)
  BY <1>ret, ConstAssumption DEF CloneReturns, TypeOK, DropGate, Return, Labels
<1>res. CASE CloneResolve(p)
  <2>1. who[p] \in Fiber
    BY <1>res, <1>0 DEF CloneResolve, InHand
  <2>2. who[p].g \in Grants /\ who[p].s \in Names \cup {Anon}
    BY <2>1 DEF Fiber
  <2>3. entry' \in [Grants -> [on : BOOLEAN, inc : Nat, next : Nat, live : Int]]
    <3>1. [on |-> TRUE, inc |-> entry[who[p].g].inc, next |-> entry[who[p].g].next + 1,
           live |-> entry[who[p].g].live + 1] \in [on : BOOLEAN, inc : Nat, next : Nat, live : Int]
      BY <2>2 DEF TypeOK
    <3> QED BY <1>res, <2>2, <3>1 DEF CloneResolve, TypeOK
  <2>4. who' \in [Procs -> Fiber \cup {NoFiber}]
    <3>1. [g |-> who[p].g, e |-> epoch, n |-> entry[who[p].g].next + 1,
           s |-> who[p].s, inc |-> entry[who[p].g].inc] \in Fiber
      BY <2>2 DEF TypeOK, Fiber
    <3> QED BY <1>res, <3>1 DEF CloneResolve, TypeOK
  <2>5. src' \in [Procs -> Fiber \cup {NoFiber}]
    BY <1>res, <2>1, KeyType DEF CloneResolve, TypeOK, NoSession
  <2> QED BY <1>res, <2>3, <2>4, <2>5 DEF CloneResolve, TypeOK, Goto, Labels
<1>b. CASE CloneBirth(p)
  BY <1>b, <1>0 DEF CloneBirth, TypeOK, InHand, Goto, Labels
<1>nb. CASE CloneNotBorn(p)
  <2>1. who[p] \in Fiber /\ who[p].g \in Grants
    BY <1>nb, <1>0 DEF CloneNotBorn, InHand, Fiber
  <2>2. entry' \in [Grants -> [on : BOOLEAN, inc : Nat, next : Nat, live : Int]]
    BY <1>nb, <2>1, SlotType DEF CloneNotBorn, Unlock
  <2> QED BY <1>nb, <2>2, ConstAssumption DEF CloneNotBorn, Unlock, TypeOK, DropGate, Return, Labels
<1>af. CASE CloneAuditFails(p)
  BY <1>af, <1>0 DEF CloneAuditFails, TypeOK, Goto, Labels
<1>rb. CASE CloneRollBack(p)
  <2>1. who[p] \in Fiber /\ who[p].g \in Grants
    BY <1>rb, <1>0 DEF CloneRollBack, InHand, Fiber
  <2>2. entry' \in [Grants -> [on : BOOLEAN, inc : Nat, next : Nat, live : Int]]
    BY <1>rb, <2>1, SlotType DEF CloneRollBack, Unlock
  <2> QED BY <1>rb, <2>2, ConstAssumption DEF CloneRollBack, Unlock, TypeOK, DropGate, Return, Labels
<1>rf. CASE CloneReleaseFails(p)
  BY <1>rf, <1>0 DEF CloneReleaseFails, TypeOK, InHand, Goto, Labels
<1>c. CASE CloneCommit(p) \/ CloneCommitAnyway(p)
  <2>1. who[p] \in Fiber /\ Commit(p)
    BY <1>c, <1>0 DEF CloneCommit, CloneCommitAnyway, InHand
  <2>2. sessions' \in [Keys -> [st : {"none", "running", "parked"},
                              f : Fiber \cup {NoFiber}, d : Fiber \cup {NoFiber}]]
    BY <2>1, KeyType DEF Commit, TypeOK
  <2> QED BY <2>1, <2>2 DEF Commit, TypeOK, Goto, Labels
<1>rd. CASE CloneRefused(p)
  BY <1>rd, <1>0 DEF CloneRefused, TypeOK, Goto, Labels
<1>ra. CASE CloneRefusedAnyway(p)
  <2>1. who[p] \in Fiber /\ who[p].g \in Grants
    BY <1>ra, <1>0 DEF CloneRefusedAnyway, InHand, Fiber
  <2>2. entry' \in [Grants -> [on : BOOLEAN, inc : Nat, next : Nat, live : Int]]
    BY <1>ra, <2>1, SlotType DEF CloneRefusedAnyway, Unlock
  <2> QED BY <1>ra, <2>2, ConstAssumption DEF CloneRefusedAnyway, Unlock, TypeOK, DropGate, Return, Labels
<1>sw. CASE CloneSwept(p)
  <2>1. who[p] \in Fiber /\ who[p].g \in Grants
    BY <1>sw, <1>0 DEF CloneSwept, InHand, Fiber
  <2>2. entry' \in [Grants -> [on : BOOLEAN, inc : Nat, next : Nat, live : Int]]
    BY <1>sw, <2>1, SlotType DEF CloneSwept, Unlock
  <2> QED BY <1>sw, <2>1, <2>2, ConstAssumption
          DEF CloneSwept, RuntimeRelease, Unlock, TypeOK, DropGate, Return, Labels
<1>d. CASE CloneDone(p)
  <2>1. who[p] \in Fiber /\ who[p].g \in Grants
    BY <1>d, <1>0 DEF CloneDone, InHand, Fiber
  <2>2. CASE flag[p]
    <3>1. OnGone(who[p], TRUE)
      BY <1>d, <2>2 DEF CloneDone
    <3>2. /\ fibers' \subseteq Fiber /\ deltas' \subseteq Fiber
          /\ entry' \in [Grants -> [on : BOOLEAN, inc : Nat, next : Nat, live : Int]]
          /\ sessions' \in [Keys -> [st : {"none", "running", "parked"},
                                     f : Fiber \cup {NoFiber}, d : Fiber \cup {NoFiber}]]
      BY <1>0, <2>1, <3>1, OnGoneType
    <3>3. pending' \subseteq Fiber
      BY <1>d, <2>1, <2>2 DEF CloneDone, TypeOK
    <3>4. /\ gate' \in [Keys -> Procs \cup {NoProc}] /\ pc' \in [Procs -> Labels]
          /\ who' \in [Procs -> Fiber \cup {NoFiber}] /\ src' \in [Procs -> Fiber \cup {NoFiber}]
          /\ flag' \in [Procs -> BOOLEAN]
      BY <1>d, ConstAssumption DEF CloneDone, TypeOK, DropGate, Return, Labels
    <3> QED BY <1>d, <3>2, <3>3, <3>4 DEF CloneDone, TypeOK
  <2>3. CASE ~flag[p]
    BY <1>d, <2>3, ConstAssumption DEF CloneDone, TypeOK, DropGate, Return, Labels
  <2> QED BY <2>2, <2>3
<1> QED
  BY <1>h, <1>ret, <1>res, <1>b, <1>nb, <1>af, <1>rb, <1>rf, <1>c, <1>rd, <1>ra, <1>sw, <1>d
  DEF CloneStep

\* So do the other operations' steps.
LEMMA TypeStep ==
    ASSUME IInv, NEW p \in Procs,
           ParkStep(p) \/ ReleaseRecord(p) \/ SweepStep(p) \/ DrainStep(p)
    PROVE  TypeOK'
<1> USE DEF IInv
<1>0. TypeOK /\ InHand
  OBVIOUS
<1>ph. CASE ParkHold(p)
  BY <1>ph, ConstAssumption DEF ParkHold, TypeOK, TakeGate, Goto, Labels
<1>pd. CASE ParkDumped(p)
  BY <1>pd, <1>0 DEF ParkDumped, TypeOK, InHand, Goto, Labels
<1>pf. CASE ParkFails(p)
  BY <1>pf, ConstAssumption DEF ParkFails, TypeOK, DropGate, Return, Labels
<1>pr. CASE ParkRecord(p)
  <2>1. who[p] \in Fiber /\ Key(who[p]) \in Keys
    BY <1>pr, <1>0, KeyType DEF ParkRecord, InHand
  <2>2. entry' \in [Grants -> [on : BOOLEAN, inc : Nat, next : Nat, live : Int]]
    BY <1>pr, <2>1, SlotType DEF ParkRecord, TypeOK
  <2>3. sessions' \in [Keys -> [st : {"none", "running", "parked"},
                              f : Fiber \cup {NoFiber}, d : Fiber \cup {NoFiber}]]
    BY <1>pr, <2>1 DEF ParkRecord, TypeOK
  <2>4. fibers' \subseteq Fiber /\ deltas' \subseteq Fiber
    BY <1>pr DEF ParkRecord, TypeOK
  <2> QED BY <1>pr, <2>2, <2>3, <2>4, ConstAssumption DEF ParkRecord, TypeOK, DropGate, Return, Labels
<1>rr. CASE ReleaseRecord(p)
  <2>1. who[p] \in Fiber /\ flag[p] \in BOOLEAN
    BY <1>rr, <1>0 DEF ReleaseRecord, InHand, TypeOK
  <2>2. OnGone(who[p], flag[p])
    BY <1>rr DEF ReleaseRecord
  <2> QED BY <1>rr, <2>1, <2>2, OnGoneType DEF ReleaseRecord, TypeOK, Return, Labels
<1>sl. CASE SweepList(p)
  BY <1>sl DEF SweepList, TypeOK, Goto, Labels
<1>sr. CASE SweepRelease(p)
  BY <1>sr DEF SweepRelease, RuntimeRelease, TypeOK, Goto, Labels
<1>sc. CASE SweepRecord(p)
  <2>1. who[p] \in Fiber
    BY <1>sc, <1>0 DEF SweepRecord, InHand
  <2>2. OnGone(who[p], TRUE)
    BY <1>sc DEF SweepRecord
  <2> QED BY <1>sc, <2>1, <2>2, OnGoneType DEF SweepRecord, TypeOK, Goto, Labels
<1>sd. CASE SweepDone(p)
  BY <1>sd DEF SweepDone, TypeOK, Return, Labels
<1>dl. CASE DrainList(p)
  BY <1>dl DEF DrainList, Listed, TypeOK
<1>do. CASE DrainOne(p)
  <2>1. PICK f \in todo[p] :
          /\ todo' = [todo EXCEPT ![p] = @ \ {f}]
          /\ \/ BeginPark(p, f) /\ UNCHANGED <<runtimeVars, src, flag>>
             \/ ~Named(f) /\ BeginRelease(p, f, FALSE)
             \/ f \notin fibers /\ UNCHANGED <<runtimeVars, pc, who, src, flag>>
    BY <1>do DEF DrainOne
  <2>2. f \in Fiber
    BY <2>1 DEF TypeOK
  <2>3. CASE BeginPark(p, f) /\ UNCHANGED <<runtimeVars, src, flag>>
    BY <1>do, <2>1, <2>2, <2>3 DEF DrainOne, BeginPark, TypeOK, Goto, Labels
  <2>4. CASE BeginRelease(p, f, FALSE)
    <3>1. alive' \subseteq Fiber /\ stuck' \subseteq Fiber /\ deltas' = deltas /\ exits' = exits
      BY <2>2, <2>4 DEF BeginRelease, RuntimeRelease, TypeOK
    <3>2. /\ pc' \in [Procs -> Labels] /\ flag' \in [Procs -> BOOLEAN]
          /\ who' \in [Procs -> Fiber \cup {NoFiber}] /\ src' \in [Procs -> Fiber \cup {NoFiber}]
      BY <2>2, <2>4 DEF BeginRelease, Return, TypeOK, Goto, Labels
    <3>3. todo' \in [Procs -> SUBSET Fiber]
      BY <2>1 DEF TypeOK
    <3> QED BY <1>do, <3>1, <3>2, <3>3 DEF DrainOne, TypeOK
  <2>5. CASE UNCHANGED <<runtimeVars, pc, who, src, flag>>
    BY <1>do, <2>1, <2>5 DEF DrainOne, TypeOK
  <2> QED BY <2>1, <2>3, <2>4, <2>5
<1>dd. CASE DrainDone(p)
  BY <1>dd DEF DrainDone, TypeOK, Goto, Labels
<1> QED
  BY <1>ph, <1>pd, <1>pf, <1>pr, <1>rr, <1>sl, <1>sr, <1>sc, <1>sd, <1>dl, <1>do, <1>dd
  DEF ParkStep, SweepStep, DrainStep

\* So do arriving calls and what happens around the operations.
LEMMA TypeCall ==
    ASSUME IInv, NEW p \in Procs, Call(p)
    PROVE  TypeOK'
<1> USE DEF IInv
<1>cs. ASSUME NEW u \in Grants, NEW n \in Names \cup {Anon}, CloneStart(p, u, n) PROVE TypeOK'
  BY <1>cs, RequestType DEF CloneStart, TypeOK, Goto, Labels
<1>ps. ASSUME NEW f \in fibers, ParkStart(p, f) PROVE TypeOK'
  BY <1>ps DEF ParkStart, BeginPark, TypeOK, Goto, Labels
<1>rs. ASSUME NEW f \in fibers, NEW b \in BOOLEAN, ReleaseStart(p, f, b) PROVE TypeOK'
  BY <1>rs DEF ReleaseStart, BeginRelease, RuntimeRelease, Return, TypeOK, Goto, Labels
<1>y. ASSUME NEW u \in Grants, Yield(p, u) PROVE TypeOK'
  <2>1. entry' \in [Grants -> [on : BOOLEAN, inc : Nat, next : Nat, live : Int]]
    <3>1. [entry[u] EXCEPT !.on = FALSE] \in [on : BOOLEAN, inc : Nat, next : Nat, live : Int]
      BY DEF TypeOK
    <3> QED BY <1>y, <3>1 DEF Yield, TypeOK
  <2>2. seqHigh' \in [Grants -> Nat]
    BY <1>y DEF Yield, TypeOK
  <2>3. Request(u, Anon) \in Fiber
    BY RequestType
  <2> QED BY <1>y, <2>1, <2>2, <2>3 DEF Yield, TypeOK, Goto, Labels
<1>b. CASE BumpEpoch(p)
  <2>1. Moved(epoch + 1) \in Fiber
    BY MovedType DEF TypeOK
  <2> QED BY <1>b, <2>1 DEF BumpEpoch, TypeOK, Goto, Labels
<1>d. CASE DrainStart(p)
  BY <1>d DEF DrainStart, TypeOK, Goto, Labels
<1> QED BY <1>cs, <1>ps, <1>rs, <1>y, <1>b, <1>d DEF Call

\* Every step of the home keeps the types.
LEMMA TypeNext ==
    ASSUME IInv, [Next]_vars
    PROVE  TypeOK'
<1> USE DEF IInv
<1>1. ASSUME NEW p \in Procs, Call(p) PROVE TypeOK'
  BY <1>1, TypeCall
<1>2. ASSUME NEW p \in Procs, Step(p) PROVE TypeOK'
  BY <1>2, TypeClone, TypeStep DEF Step
<1>3. ASSUME NEW u \in Grants, AdmitGrant(u) PROVE TypeOK'
  <2>1. [on |-> TRUE, inc |-> entry[u].inc + 1, next |-> seqHigh[u], live |-> 0]
           \in [on : BOOLEAN, inc : Nat, next : Nat, live : Int]
    BY DEF TypeOK
  <2> QED BY <1>3, <2>1 DEF AdmitGrant, TypeOK
<1>4. ASSUME NEW k \in Keys, Discard(k) PROVE TypeOK'
  BY <1>4 DEF Discard, TypeOK, NoSession
<1>5. ASSUME NEW f \in alive, Die(f) PROVE TypeOK'
  BY <1>5 DEF Die, TypeOK
<1>6. ASSUME NEW f \in exits, OnExit(f) PROVE TypeOK'
  <2>1. f \in Fiber /\ OnGone(f, TRUE)
    BY <1>6 DEF OnExit, TypeOK
  <2> QED BY <1>6, <2>1, OnGoneType DEF OnExit, TypeOK
<1>7. CASE UNCHANGED vars
  BY <1>7 DEF vars, TypeOK
<1> QED BY <1>1, <1>2, <1>3, <1>4, <1>5, <1>6, <1>7 DEF Next
-----------------------------------------------------------------------------
(* What a step that mints nothing must keep. *)

\* No seq is minted and no fiber committed.
KeepsSeqs ==
    /\ born' = born /\ seqHigh' = seqHigh
    /\ \A u \in Grants : entry'[u].on = entry[u].on /\ entry'[u].next = entry[u].next

\* A clone with a reservation had it, and resumes what it did.
KeepsClones ==
    \A q \in Procs : pc'[q] \in Reserving =>
        pc[q] \in Reserving /\ who'[q] = who[q] /\ src'[q] = src[q]

\* The session of such a clone is not touched.
KeepsTheirSessions ==
    \A q \in Procs : pc'[q] \in Reserving /\ Named(who[q]) =>
        sessions'[Key(who[q])] = sessions[Key(who[q])]

\* Whoever is past its holdSession was.
KeepsHolders ==
    \A q \in Procs : pc'[q] \in Holding => pc[q] \in Holding /\ who'[q] = who[q]

\* A step that mints nothing keeps the seqs apart.
LEMMA SeqsKept ==
    ASSUME IInv, TypeOK', KeepsSeqs, KeepsClones
    PROVE  SeqBound' /\ SeqDistinct'
<1> USE DEF KeepsSeqs, KeepsClones
<1>1. \A q \in Procs : pc'[q] \in Reserving => who[q] \in Fiber /\ who[q].g \in Grants
  BY DEF IInv, InHand, Reserving, Fiber
<1>2. \A f \in born : f.g \in Grants
  BY DEF IInv, TypeOK, Fiber
<1>3. SeqBound'
  BY <1>1, <1>2 DEF IInv, SeqBound, SeqTop
<1>4. SeqDistinct'
  <2>1. \A f, h \in born' : f.g = h.g /\ f.n = h.n => f = h
    BY DEF IInv, SeqDistinct
  <2>2. ASSUME NEW q \in Procs, pc'[q] \in Reserving
        PROVE  /\ \A f \in born' : ~(f.g = who'[q].g /\ f.n = who'[q].n)
               /\ \A r \in Procs : pc'[r] \in Reserving /\ who'[r].g = who'[q].g
                                   /\ who'[r].n = who'[q].n => r = q
    BY <2>2 DEF IInv, SeqDistinct
  <2> QED BY <2>1, <2>2 DEF SeqDistinct
<1> QED BY <1>3, <1>4

\* What a clone resolved still stands if neither it nor its session changed.
LEMMA ResolvesKept ==
    ASSUME IInv, KeepsClones, KeepsTheirSessions
    PROVE  ResolveStands'
BY DEF IInv, ResolveStands, KeepsClones, KeepsTheirSessions

\* The gates of the others stand when one holder lets go of its own.
LEMMA GatesKept ==
    ASSUME IInv, KeepsHolders,
           \/ gate' = gate
           \/ \E p \in Procs : /\ pc[p] \in Holding /\ pc'[p] \notin Holding /\ Named(who[p])
                               /\ gate' = [gate EXCEPT ![Key(who[p])] = NoProc]
    PROVE  GateHeld'
<1> USE DEF KeepsHolders
<1>1. CASE gate' = gate
  BY <1>1 DEF IInv, GateHeld
<1>2. ASSUME NEW p \in Procs, pc[p] \in Holding, pc'[p] \notin Holding, Named(who[p]),
             gate' = [gate EXCEPT ![Key(who[p])] = NoProc]
      PROVE  GateHeld'
  <2>1. SUFFICES ASSUME NEW q \in Procs, pc'[q] \in Holding, Named(who'[q])
                 PROVE  gate'[Key(who'[q])] = q
    BY DEF GateHeld
  <2>2. who'[q] = who[q] /\ gate[Key(who[q])] = q /\ gate[Key(who[p])] = p /\ p # q
    BY <1>2, <2>1 DEF IInv, GateHeld
  <2> DEFINE a == Key(who[p])
             b == Key(who[q])
  <2>3. a # b
    BY <2>2
  <2>4. gate'[b] = gate[b]
    <3> HIDE DEF a, b
    <3>1. gate' = [gate EXCEPT ![a] = NoProc]
      BY <1>2 DEF a
    <3> QED BY <2>3, <3>1 DEF IInv, TypeOK
  <2> QED BY <2>2, <2>4
<1> QED BY <1>1, <1>2

\* onGone ends one fiber and forgets its session, which ran, so no clone that
\* has resolved is resuming it.
LEMMA OnGoneKeeps ==
    ASSUME IInv, NEW f \in Fiber, NEW b \in BOOLEAN, OnGone(f, b)
    PROVE  /\ SessionRunsOnce' /\ NoneIsBlank' /\ fibers' \subseteq fibers
           /\ \A q \in Procs : pc[q] \in Reserving /\ Named(who[q]) =>
                 sessions'[Key(who[q])] = sessions[Key(who[q])]
           /\ \A u \in Grants : entry'[u].on = entry[u].on /\ entry'[u].next = entry[u].next
<1>1. \A u \in Grants : entry'[u].on = entry[u].on /\ entry'[u].next = entry[u].next
  BY SlotType DEF OnGone, IInv
<1>2. CASE f \notin fibers
  BY <1>1, <1>2 DEF OnGone, IInv, SessionRunsOnce, NoneIsBlank
<1>3. CASE f \in fibers /\ ~Named(f)
  <2>1. fibers' = fibers \ {f} /\ sessions' = sessions
    BY <1>3 DEF OnGone
  <2>2. \A k \in Keys : sessions[k].st = "running" => sessions[k].f # f
    <3>1. Key(f) \notin Keys
      BY <1>3, ConstAssumption DEF Keys, Key, Named
    <3> QED BY <3>1 DEF IInv, SessionRunsOnce
  <2> QED BY <1>1, <2>1, <2>2 DEF IInv, SessionRunsOnce, NoneIsBlank
<1>4. CASE f \in fibers /\ Named(f)
  <2> DEFINE k == Key(f)
  <2>1. k \in Keys /\ sessions[k].st = "running" /\ sessions[k].f = f
    BY <1>4, KeyType DEF IInv, SessionRunsOnce
  <2>2. fibers' = fibers \ {f} /\ sessions' = [sessions EXCEPT ![k] = NoSession]
    BY <1>4 DEF OnGone
  <2>3. \A j \in Keys : sessions'[j] = IF j = k THEN NoSession ELSE sessions[j]
    BY <2>1, <2>2 DEF IInv, TypeOK
  <2>4. \A h \in fibers : Named(h) /\ h # f => Key(h) # k /\ Key(h) \in Keys
    BY <2>1, KeyType DEF IInv, SessionRunsOnce, TypeOK
  <2>5. SessionRunsOnce'
    <3>1. \A h \in fibers' : Named(h) => sessions'[Key(h)].st = "running" /\ sessions'[Key(h)].f = h
      BY <2>2, <2>3, <2>4 DEF IInv, SessionRunsOnce
    <3>2. \A j \in Keys : sessions'[j].st = "running" =>
            sessions'[j].f \in fibers' /\ Key(sessions'[j].f) = j
      <4>1. SUFFICES ASSUME NEW j \in Keys, sessions'[j].st = "running"
                     PROVE  sessions'[j].f \in fibers' /\ Key(sessions'[j].f) = j
        OBVIOUS
      <4>2. j # k /\ sessions'[j] = sessions[j]
        BY <2>3, <4>1 DEF NoSession
      <4>3. sessions[j].f \in fibers /\ Key(sessions[j].f) = j
        BY <4>1, <4>2 DEF IInv, SessionRunsOnce
      <4> QED BY <2>2, <4>2, <4>3
    <3> QED BY <3>1, <3>2 DEF SessionRunsOnce
  <2>6. NoneIsBlank'
    BY <2>3 DEF IInv, NoneIsBlank
  <2>7. ASSUME NEW q \in Procs, pc[q] \in Reserving, Named(who[q])
        PROVE  sessions'[Key(who[q])] = sessions[Key(who[q])]
    <3>1. who[q] \in Fiber /\ sessions[Key(who[q])].st # "running"
      BY <2>7 DEF IInv, InHand, ResolveStands, Reserving
    <3>2. Key(who[q]) \in Keys
      BY <2>7, <3>1, KeyType
    <3> QED BY <2>1, <2>3, <3>1, <3>2
  <2> QED BY <1>1, <2>2, <2>5, <2>6, <2>7
<1> QED BY <1>2, <1>3, <1>4
-----------------------------------------------------------------------------
(* The steps of the operations, grouped by what they touch. *)

\* Goroutine q stays where it is, or moves outside the gate, or moves on with
\* the same fiber in hand.
Quiet(q) ==
    \/ pc'[q] = pc[q] /\ who'[q] = who[q] /\ src'[q] = src[q]
    \/ /\ pc'[q] \notin Holding
       /\ pc'[q] \notin {"idle", "sweep", "drain"} => who'[q] \in Fiber
       /\ pc'[q] \in {"hold", "parkHold"} => Named(who'[q])
    \/ /\ pc[q] \in Reserving /\ pc'[q] \in Reserving
       /\ who'[q] = who[q] /\ src'[q] = src[q]
    \/ pc[q] = "park" /\ pc'[q] = "parked" /\ who'[q] = who[q]

\* Steps that touch neither the ledger nor a gate.
LEMMA QuietStep ==
    ASSUME IInv, TypeOK', UNCHANGED <<entry, seqHigh, sessions, fibers, gate, born>>,
           \A q \in Procs : Quiet(q) \/ (pc[q] = "idle" /\ pc'[q] = "resolve" /\ ~Named(who'[q])
                                         /\ who'[q] \in Fiber)
    PROVE  IInv'
<1>1. KeepsClones
  BY DEF KeepsClones, Quiet, Reserving, Holding
<1>2. KeepsTheirSessions /\ KeepsSeqs
  BY DEF KeepsTheirSessions, KeepsSeqs
<1>3. InHand'
  BY DEF IInv, InHand, Quiet, Reserving, Holding
<1>4. GateHeld'
  BY DEF IInv, GateHeld, Quiet, Reserving, Holding
<1>5. SessionRunsOnce' /\ NoneIsBlank' /\ FibersBorn'
  BY DEF IInv, SessionRunsOnce, NoneIsBlank, FibersBorn
<1> QED BY <1>1, <1>2, <1>3, <1>4, <1>5, SeqsKept, ResolvesKept DEF IInv

\* Steps that end an operation which holds its session's gate.
LEMMA ReturnStep ==
    ASSUME IInv, TypeOK', NEW p \in Procs, pc[p] \in Holding,
           DropGate(p), Return(p), born' = born, seqHigh' = seqHigh,
           \A u \in Grants : entry'[u].on = entry[u].on /\ entry'[u].next = entry[u].next,
           \A q \in Procs : q # p /\ pc[q] \in Reserving /\ Named(who[q]) =>
                 sessions'[Key(who[q])] = sessions[Key(who[q])],
           SessionRunsOnce', NoneIsBlank', fibers' \subseteq fibers
    PROVE  IInv'
<1>0. /\ pc'[p] \in {"idle", "drain"}
      /\ \A q \in Procs : q # p => pc'[q] = pc[q] /\ who'[q] = who[q] /\ src'[q] = src[q]
  BY DEF Return, IInv, TypeOK
<1>1. KeepsClones /\ KeepsHolders
  BY <1>0 DEF KeepsClones, KeepsHolders, Reserving, Holding
<1>2. KeepsTheirSessions /\ KeepsSeqs
  BY <1>0 DEF KeepsTheirSessions, KeepsSeqs, Reserving
<1>3. InHand'
  BY <1>0 DEF IInv, InHand
<1>4. GateHeld'
  <2>1. pc'[p] \notin Holding
    BY <1>0 DEF Holding, Reserving
  <2> QED BY <1>1, <2>1, GatesKept DEF DropGate
<1>5. FibersBorn'
  BY DEF IInv, FibersBorn
<1> QED BY <1>1, <1>2, <1>3, <1>4, <1>5, SeqsKept, ResolvesKept DEF IInv

\* Steps that settle a fiber that is gone, outside any gate.
LEMMA GoneStep ==
    ASSUME IInv, TypeOK', NEW f \in Fiber, NEW b \in BOOLEAN, OnGone(f, b),
           UNCHANGED <<seqHigh, gate, born>>,
           \A q \in Procs : \/ pc'[q] = pc[q] /\ who'[q] = who[q] /\ src'[q] = src[q]
                            \/ pc'[q] \in {"idle", "sweep", "drain"}
    PROVE  IInv'
<1>1. KeepsClones /\ KeepsHolders
  BY DEF KeepsClones, KeepsHolders, Reserving, Holding
<1>2. KeepsTheirSessions /\ KeepsSeqs
  BY <1>1, OnGoneKeeps DEF KeepsTheirSessions, KeepsSeqs, KeepsClones
<1>3. InHand'
  BY DEF IInv, InHand
<1>4. GateHeld'
  BY <1>1, GatesKept
<1>5. FibersBorn' /\ SessionRunsOnce' /\ NoneIsBlank'
  BY OnGoneKeeps DEF IInv, FibersBorn
<1> QED BY <1>1, <1>2, <1>3, <1>4, <1>5, SeqsKept, ResolvesKept DEF IInv

\* Steps that take a session's gate.
LEMMA HoldStep ==
    ASSUME IInv, TypeOK', NEW p \in Procs, pc[p] \in {"hold", "parkHold"}, TakeGate(p),
           pc' = [pc EXCEPT ![p] = IF pc[p] = "hold" THEN "resolve" ELSE "park"],
           UNCHANGED <<entry, seqHigh, sessions, fibers, who, src, born>>
    PROVE  IInv'
<1>0. /\ pc'[p] \in {"resolve", "park"} /\ Named(who[p]) /\ who[p] \in Fiber
      /\ \A q \in Procs : q # p => pc'[q] = pc[q]
  BY DEF IInv, TypeOK, InHand
<1>1. KeepsClones /\ KeepsTheirSessions /\ KeepsSeqs
  BY <1>0 DEF KeepsClones, KeepsTheirSessions, KeepsSeqs, Reserving
<1>2. InHand'
  BY <1>0 DEF IInv, InHand
<1>3. GateHeld'
  <2>1. SUFFICES ASSUME NEW q \in Procs, pc'[q] \in Holding, Named(who[q])
                 PROVE  gate'[Key(who[q])] = q
    BY DEF GateHeld
  <2>2. Key(who[p]) \in Keys
    BY <1>0, KeyType
  <2>3. CASE q = p
    BY <2>2, <2>3 DEF TakeGate, IInv, TypeOK
  <2>4. CASE q # p
    <3>1. gate[Key(who[q])] = q /\ gate[Key(who[p])] = NoProc
      BY <1>0, <2>1, <2>4 DEF IInv, GateHeld, TakeGate
    <3> DEFINE a == Key(who[p])
               b == Key(who[q])
    <3>2. a # b
      BY <3>1, ConstAssumption
    <3>3. gate'[b] = gate[b]
      <4>1. gate' = [gate EXCEPT ![a] = p]
        BY DEF TakeGate
      <4> HIDE DEF a, b
      <4> QED BY <3>2, <4>1 DEF IInv, TypeOK
    <3> QED BY <3>1, <3>3
  <2> QED BY <2>3, <2>4
<1>4. SessionRunsOnce' /\ NoneIsBlank' /\ FibersBorn'
  BY DEF IInv, SessionRunsOnce, NoneIsBlank, FibersBorn
<1> QED BY <1>1, <1>2, <1>3, <1>4, SeqsKept, ResolvesKept DEF IInv
-----------------------------------------------------------------------------
(* The steps that change what the ledger says of a session or a seq. *)

\* Two goroutines past their holdSession have different sessions in hand.
LEMMA HoldersDiffer ==
    ASSUME IInv, NEW p \in Procs, NEW q \in Procs, p # q,
           pc[p] \in Holding, pc[q] \in Holding, Named(who[p]), Named(who[q])
    PROVE  Key(who[p]) # Key(who[q])
BY DEF IInv, GateHeld

\* OnPark: the session passes from its fiber to its delta.
LEMMA ParkRecordStep ==
    ASSUME IInv, TypeOK', NEW p \in Procs, ParkRecord(p)
    PROVE  IInv'
<1> DEFINE f == who[p]
           k == Key(who[p])
<1>1. /\ f \in Fiber /\ Named(f) /\ k \in Keys /\ pc[p] \in Holding
      /\ f.g \in Grants
  BY KeyType DEF ParkRecord, IInv, InHand, Holding, Fiber
<1>2. DropGate(p) /\ Return(p) /\ born' = born /\ seqHigh' = seqHigh
  BY DEF ParkRecord
<1>3. \A u \in Grants : entry'[u].on = entry[u].on /\ entry'[u].next = entry[u].next
  BY <1>1, SlotType DEF ParkRecord, IInv
<1>4. CASE f \in fibers
  <2>1. sessions[k].st = "running" /\ sessions[k].f = f
    BY <1>1, <1>4 DEF IInv, SessionRunsOnce
  <2>2. /\ fibers' = fibers \ {f}
        /\ sessions' = [sessions EXCEPT ![k] = [st |-> "parked", f |-> NoFiber, d |-> f]]
    BY <1>4, <2>1 DEF ParkRecord
  <2>3. \A j \in Keys : sessions'[j] =
           IF j = k THEN [st |-> "parked", f |-> NoFiber, d |-> f] ELSE sessions[j]
    BY <1>1, <2>2 DEF IInv, TypeOK
  <2>4. \A h \in fibers : Named(h) /\ h # f => Key(h) # k /\ Key(h) \in Keys
    BY <2>1, KeyType DEF IInv, SessionRunsOnce, TypeOK
  <2>5. SessionRunsOnce'
    <3>1. \A h \in fibers' : Named(h) => sessions'[Key(h)].st = "running" /\ sessions'[Key(h)].f = h
      BY <2>2, <2>3, <2>4 DEF IInv, SessionRunsOnce
    <3>2. ASSUME NEW j \in Keys, sessions'[j].st = "running"
          PROVE  sessions'[j].f \in fibers' /\ Key(sessions'[j].f) = j
      <4>1. j # k /\ sessions'[j] = sessions[j]
        BY <2>3, <3>2
      <4>2. sessions[j].f \in fibers /\ Key(sessions[j].f) = j
        BY <3>2, <4>1 DEF IInv, SessionRunsOnce
      <4> QED BY <2>2, <4>1, <4>2
    <3> QED BY <3>1, <3>2 DEF SessionRunsOnce
  <2>6. NoneIsBlank'
    BY <2>3 DEF IInv, NoneIsBlank
  <2>7. ASSUME NEW q \in Procs, q # p, pc[q] \in Reserving, Named(who[q])
        PROVE  sessions'[Key(who[q])] = sessions[Key(who[q])]
    <3>1. who[q] \in Fiber /\ pc[q] \in Holding
      BY <2>7 DEF IInv, InHand, Reserving, Holding
    <3>2. Key(who[q]) \in Keys /\ Key(who[q]) # k
      BY <1>1, <2>7, <3>1, KeyType, HoldersDiffer
    <3> QED BY <2>3, <3>2
  <2>8. fibers' \subseteq fibers
    BY <2>2
  <2> QED BY <1>1, <1>2, <1>3, <2>5, <2>6, <2>7, <2>8, ReturnStep
<1>5. CASE f \notin fibers
  <2>1. UNCHANGED <<fibers, sessions>>
    BY <1>5 DEF ParkRecord
  <2>2. SessionRunsOnce' /\ NoneIsBlank'
    BY <2>1 DEF IInv, SessionRunsOnce, NoneIsBlank
  <2> QED BY <1>1, <1>2, <1>3, <2>1, <2>2, ReturnStep
<1> QED BY <1>4, <1>5

\* resolveHeld mints the next seq, above every one of the grant.
LEMMA ResolveStep ==
    ASSUME IInv, TypeOK', NEW p \in Procs, CloneResolve(p)
    PROVE  IInv'
<1> DEFINE w == who[p]
           u == who[p].g
           f == who'[p]
<1>1. w \in Fiber /\ u \in Grants /\ pc[p] = "resolve" /\ entry[u].on
  BY DEF CloneResolve, IInv, InHand, Fiber
<1>2. /\ f = [g |-> u, e |-> epoch, n |-> entry[u].next + 1, s |-> w.s, inc |-> entry[u].inc]
      /\ pc'[p] = "birth"
      /\ \A q \in Procs : q # p => pc'[q] = pc[q] /\ who'[q] = who[q] /\ src'[q] = src[q]
  BY DEF CloneResolve, IInv, TypeOK, Goto
<1>3. /\ f.g = u /\ f.n = entry[u].next + 1 /\ f.s = w.s /\ Key(f) = Key(w) /\ Named(f) = Named(w)
      /\ f \in Fiber
  <2>1. f \in Fiber
    BY <1>1, <1>2 DEF Fiber, IInv, TypeOK
  <2> QED BY <1>2, <2>1 DEF Key, Named
<1>4. UNCHANGED <<seqHigh, sessions, fibers, gate, born>>
  BY DEF CloneResolve
<1>5. /\ entry'[u].on /\ entry'[u].next = entry[u].next + 1 /\ entry[u].next \in Nat
      /\ \A v \in Grants : v # u => entry'[v] = entry[v]
  BY <1>1 DEF CloneResolve, IInv, TypeOK
<1>6. InHand'
  BY <1>2, <1>3 DEF IInv, InHand
<1>7. GateHeld'
  <2>1. SUFFICES ASSUME NEW q \in Procs, pc'[q] \in Holding, Named(who'[q])
                 PROVE  gate[Key(who'[q])] = q
    BY <1>4 DEF GateHeld
  <2>2. CASE q = p
    BY <1>1, <1>3, <2>1, <2>2 DEF IInv, GateHeld, Holding
  <2>3. CASE q # p
    BY <1>2, <2>1, <2>3 DEF IInv, GateHeld
  <2> QED BY <2>2, <2>3
<1>8. ResolveStands'
  <2>1. SUFFICES ASSUME NEW q \in Procs, pc'[q] \in Reserving
                 PROVE  IF Named(who'[q])
                        THEN /\ sessions[Key(who'[q])].st # "running"
                             /\ src'[q] = sessions[Key(who'[q])].d
                        ELSE src'[q] = NoFiber
    BY <1>4 DEF ResolveStands
  <2>2. CASE q = p
    BY <1>3, <2>2 DEF CloneResolve, NoSession, IInv, TypeOK
  <2>3. CASE q # p
    BY <1>2, <2>1, <2>3 DEF IInv, ResolveStands
  <2> QED BY <2>2, <2>3
<1>9. /\ \A h \in born : h.g = u => h.n < f.n
      /\ \A q \in Procs : q # p /\ pc[q] \in Reserving /\ who[q].g = u => who[q].n < f.n
  <2>1. \A h \in born : h.n \in Nat
    BY DEF IInv, TypeOK, Fiber
  <2>2. \A q \in Procs : pc[q] \in Reserving => who[q].n \in Nat
    BY DEF IInv, InHand, Reserving, Fiber
  <2>3. /\ \A h \in born : h.g = u => h.n <= entry[u].next
        /\ \A q \in Procs : pc[q] \in Reserving /\ who[q].g = u => who[q].n <= entry[u].next
    BY <1>1 DEF IInv, SeqBound, SeqTop
  <2> QED BY <1>3, <1>5, <2>1, <2>2, <2>3
<1>10. SeqBound'
  <2>1. ASSUME NEW h \in born PROVE h.n <= SeqTop(h.g)'
    <3>1. h.g \in Grants /\ h.n \in Nat
      BY DEF IInv, TypeOK, Fiber
    <3>2. h.n <= SeqTop(h.g)
      BY DEF IInv, SeqBound
    <3> QED BY <1>4, <1>5, <1>1, <3>1, <3>2 DEF SeqTop
  <2>2. ASSUME NEW q \in Procs, pc'[q] \in Reserving
        PROVE  who'[q].n <= IF entry'[who'[q].g].on THEN entry'[who'[q].g].next
                                                     ELSE seqHigh'[who'[q].g]
    <3>1. CASE q = p
      BY <1>3, <1>5, <3>1
    <3>2. CASE q # p
      <4>1. pc[q] \in Reserving /\ who'[q] = who[q]
        BY <1>2, <2>2, <3>2
      <4>2. who[q].g \in Grants /\ who[q].n \in Nat
        BY <4>1 DEF IInv, InHand, Reserving, Fiber
      <4>3. who[q].n <= IF entry[who[q].g].on THEN entry[who[q].g].next ELSE seqHigh[who[q].g]
        BY <4>1 DEF IInv, SeqBound, SeqTop
      <4> QED BY <1>1, <1>4, <1>5, <4>1, <4>2, <4>3
    <3> QED BY <3>1, <3>2
  <2> QED BY <1>4, <2>1, <2>2 DEF SeqBound, SeqTop
<1>11. SeqDistinct'
  <2>0. f.n \in Nat
    BY <1>3, <1>5
  <2>1. \A a, b \in born' : a.g = b.g /\ a.n = b.n => a = b
    BY <1>4 DEF IInv, SeqDistinct
  <2>2. ASSUME NEW q \in Procs, pc'[q] \in Reserving, NEW h \in born'
        PROVE  ~(h.g = who'[q].g /\ h.n = who'[q].n)
    <3>1. h \in born /\ h.n \in Nat
      BY <1>4, <2>2 DEF IInv, TypeOK, Fiber
    <3>2. CASE q = p
      BY <1>3, <1>9, <2>0, <3>1, <3>2
    <3>3. CASE q # p
      BY <1>2, <2>2, <3>1, <3>3 DEF IInv, SeqDistinct
    <3> QED BY <3>2, <3>3
  <2>3. ASSUME NEW q \in Procs, pc'[q] \in Reserving, NEW r \in Procs, pc'[r] \in Reserving,
               who'[r].g = who'[q].g, who'[r].n = who'[q].n
        PROVE  r = q
    <3>1. \A s \in Procs : s # p /\ pc'[s] \in Reserving =>
             pc[s] \in Reserving /\ who'[s] = who[s] /\ who[s].n \in Nat
      BY <1>2 DEF IInv, InHand, Reserving, Fiber
    <3>2. CASE q # p /\ r # p
      BY <2>3, <3>1, <3>2 DEF IInv, SeqDistinct
    <3>3. CASE q = p /\ r # p
      BY <1>3, <1>9, <2>0, <2>3, <3>1, <3>3
    <3>4. CASE q # p /\ r = p
      BY <1>3, <1>9, <2>0, <2>3, <3>1, <3>4
    <3> QED BY <3>2, <3>3, <3>4
  <2> QED BY <2>1, <2>2, <2>3 DEF SeqDistinct
<1>12. SessionRunsOnce' /\ NoneIsBlank' /\ FibersBorn'
  BY <1>4 DEF IInv, SessionRunsOnce, NoneIsBlank, FibersBorn
<1> QED BY <1>6, <1>7, <1>8, <1>10, <1>11, <1>12 DEF IInv

\* commit: the fiber is recorded and its session runs in it.
LEMMA CommitStep ==
    ASSUME IInv, TypeOK', NEW p \in Procs, pc[p] \in {"audit", "commitAnyway"}, Commit(p)
    PROVE  IInv'
<1> DEFINE f == who[p]
           k == Key(who[p])
<1>1. /\ f \in Fiber /\ pc[p] \in Reserving /\ pc[p] \in Holding
      /\ pc'[p] \in {"committed", "internal"}
      /\ \A q \in Procs : q # p => pc'[q] = pc[q]
  BY DEF Commit, IInv, TypeOK, InHand, Reserving, Holding, Goto
<1>2. UNCHANGED <<who, src, gate, entry, seqHigh>> /\ fibers' = fibers \cup {f} /\ born' = born \cup {f}
  BY DEF Commit
<1>3. InHand'
  BY <1>1, <1>2 DEF IInv, InHand
<1>4. GateHeld'
  BY <1>1, <1>2 DEF IInv, GateHeld
<1>5. FibersBorn'
  BY <1>2 DEF IInv, FibersBorn
<1>6. SeqBound'
  <2>1. \A q \in Procs : pc'[q] \in Reserving => pc[q] \in Reserving
    BY <1>1 DEF Reserving
  <2>2. \A h \in born' : h.n <= IF entry[h.g].on THEN entry[h.g].next ELSE seqHigh[h.g]
    BY <1>1, <1>2 DEF IInv, SeqBound, SeqTop
  <2>3. \A q \in Procs : pc'[q] \in Reserving =>
           who[q].n <= IF entry[who[q].g].on THEN entry[who[q].g].next ELSE seqHigh[who[q].g]
    BY <2>1 DEF IInv, SeqBound, SeqTop
  <2> QED BY <1>2, <2>2, <2>3 DEF SeqBound, SeqTop
<1>7. SeqDistinct'
  <2>1. \A q \in Procs : pc'[q] \in Reserving => pc[q] \in Reserving /\ q # p
    BY <1>1 DEF Reserving
  <2>2. ASSUME NEW a \in born', NEW b \in born', a.g = b.g, a.n = b.n
        PROVE  a = b
    BY <1>1, <1>2, <2>2 DEF IInv, SeqDistinct
  <2>3. ASSUME NEW q \in Procs, pc'[q] \in Reserving
        PROVE  /\ \A h \in born' : ~(h.g = who'[q].g /\ h.n = who'[q].n)
               /\ \A r \in Procs : pc'[r] \in Reserving /\ who'[r].g = who'[q].g
                                   /\ who'[r].n = who'[q].n => r = q
    BY <1>1, <1>2, <2>1, <2>3 DEF IInv, SeqDistinct
  <2> QED BY <2>2, <2>3 DEF SeqDistinct
<1>8. CASE ~Named(f)
  <2>1. sessions' = sessions
    BY <1>8 DEF Commit
  <2>2. SessionRunsOnce' /\ NoneIsBlank'
    BY <1>2, <1>8, <2>1 DEF IInv, SessionRunsOnce, NoneIsBlank
  <2>3. ResolveStands'
    BY <1>1, <1>2, <2>1 DEF IInv, ResolveStands, Reserving
  <2> QED BY <1>3, <1>4, <1>5, <1>6, <1>7, <2>2, <2>3 DEF IInv
<1>9. CASE Named(f)
  <2>1. k \in Keys /\ sessions[k].st # "running"
    BY <1>1, <1>9, KeyType DEF IInv, ResolveStands
  <2>2. \A j \in Keys : sessions'[j] =
           IF j = k THEN [st |-> "running", f |-> f, d |-> src[p]] ELSE sessions[j]
    BY <1>9, <2>1 DEF Commit, IInv, TypeOK
  <2>3. \A h \in fibers : Named(h) => Key(h) # k /\ Key(h) \in Keys
    BY <2>1, KeyType DEF IInv, SessionRunsOnce, TypeOK
  <2>4. SessionRunsOnce'
    <3>1. \A h \in fibers' : Named(h) => sessions'[Key(h)].st = "running" /\ sessions'[Key(h)].f = h
      BY <1>2, <2>1, <2>2, <2>3 DEF IInv, SessionRunsOnce
    <3>2. ASSUME NEW j \in Keys, sessions'[j].st = "running"
          PROVE  sessions'[j].f \in fibers' /\ Key(sessions'[j].f) = j
      <4>1. CASE j = k
        BY <1>2, <2>2, <4>1
      <4>2. CASE j # k
        <5>1. sessions'[j] = sessions[j]
          BY <2>2, <4>2
        <5> QED BY <1>2, <3>2, <5>1 DEF IInv, SessionRunsOnce
      <4> QED BY <4>1, <4>2
    <3> QED BY <3>1, <3>2 DEF SessionRunsOnce
  <2>5. NoneIsBlank'
    BY <2>2 DEF IInv, NoneIsBlank
  <2>6. ResolveStands'
    <3>1. SUFFICES ASSUME NEW q \in Procs, pc'[q] \in Reserving
                   PROVE  IF Named(who[q])
                          THEN sessions'[Key(who[q])].st # "running" /\ src[q] = sessions'[Key(who[q])].d
                          ELSE src[q] = NoFiber
      BY <1>2 DEF ResolveStands
    <3>2. q # p /\ pc[q] \in Reserving /\ who[q] \in Fiber
      BY <1>1, <3>1 DEF Reserving, IInv, InHand
    <3>3. CASE Named(who[q])
      <4>1. Key(who[q]) \in Keys /\ Key(who[q]) # k
        BY <1>1, <1>9, <3>2, <3>3, KeyType, HoldersDiffer DEF Holding
      <4> QED BY <2>2, <3>2, <3>3, <4>1 DEF IInv, ResolveStands
    <3>4. CASE ~Named(who[q])
      BY <3>2, <3>4 DEF IInv, ResolveStands
    <3> QED BY <3>3, <3>4
  <2> QED BY <1>3, <1>4, <1>5, <1>6, <1>7, <2>4, <2>5, <2>6 DEF IInv
<1> QED BY <1>8, <1>9

\* RevokeGrant and AdmitGrant hand the grant's last seq to each other.
LEMMA TopStep ==
    ASSUME IInv, TypeOK', UNCHANGED <<sessions, fibers, gate, born, src>>,
           \A u \in Grants : SeqTop(u)' = SeqTop(u),
           \A q \in Procs : \/ pc'[q] = pc[q] /\ who'[q] = who[q]
                            \/ pc'[q] = "listYield" /\ who'[q] \in Fiber
    PROVE  IInv'
<1>1. \A q \in Procs : pc'[q] \in Holding \/ pc'[q] \in Reserving => pc'[q] = pc[q] /\ who'[q] = who[q]
  BY DEF Holding, Reserving
<1>2. InHand'
  BY DEF IInv, InHand
<1>3. GateHeld' /\ ResolveStands'
  BY <1>1 DEF IInv, GateHeld, ResolveStands
<1>4. SessionRunsOnce' /\ NoneIsBlank' /\ FibersBorn'
  BY DEF IInv, SessionRunsOnce, NoneIsBlank, FibersBorn
<1>5. SeqBound'
  <2>1. \A u \in Grants : (IF entry'[u].on THEN entry'[u].next ELSE seqHigh'[u])
                        = (IF entry[u].on THEN entry[u].next ELSE seqHigh[u])
    BY DEF SeqTop
  <2>2. \A h \in born : h.g \in Grants /\ h.n <= IF entry[h.g].on THEN entry[h.g].next ELSE seqHigh[h.g]
    BY DEF IInv, TypeOK, Fiber, SeqBound, SeqTop
  <2>3. \A q \in Procs : pc[q] \in Reserving =>
           who[q].g \in Grants /\ who[q].n <= IF entry[who[q].g].on THEN entry[who[q].g].next ELSE seqHigh[who[q].g]
    BY DEF IInv, InHand, Fiber, SeqBound, SeqTop, Reserving
  <2> QED BY <1>1, <2>1, <2>2, <2>3 DEF SeqBound, SeqTop
<1>6. SeqDistinct'
  <2>1. ASSUME NEW q \in Procs, pc'[q] \in Reserving
        PROVE  /\ \A h \in born' : ~(h.g = who'[q].g /\ h.n = who'[q].n)
               /\ \A r \in Procs : pc'[r] \in Reserving /\ who'[r].g = who'[q].g
                                   /\ who'[r].n = who'[q].n => r = q
    BY <1>1, <2>1 DEF IInv, SeqDistinct
  <2>2. \A a, b \in born' : a.g = b.g /\ a.n = b.n => a = b
    BY DEF IInv, SeqDistinct
  <2> QED BY <2>1, <2>2 DEF SeqDistinct
<1> QED BY <1>2, <1>3, <1>4, <1>5, <1>6 DEF IInv

\* Discard: a parked session that nobody holds is forgotten.
LEMMA DiscardStep ==
    ASSUME IInv, TypeOK', NEW k \in Keys, Discard(k)
    PROVE  IInv'
<1>1. /\ UNCHANGED <<entry, seqHigh, fibers, gate, pc, who, src, born>>
      /\ \A j \in Keys : sessions'[j] = IF j = k THEN NoSession ELSE sessions[j]
      /\ gate[k] = NoProc /\ sessions[k].st = "parked"
  BY DEF Discard, IInv, TypeOK
<1>2. KeepsClones /\ KeepsHolders /\ KeepsSeqs
  BY <1>1 DEF KeepsClones, KeepsHolders, KeepsSeqs
<1>3. KeepsTheirSessions
  <2>1. SUFFICES ASSUME NEW q \in Procs, pc[q] \in Reserving, Named(who[q])
                 PROVE  sessions'[Key(who[q])] = sessions[Key(who[q])]
    BY <1>1 DEF KeepsTheirSessions
  <2>2. who[q] \in Fiber /\ gate[Key(who[q])] = q
    BY <2>1 DEF IInv, InHand, GateHeld, Reserving, Holding
  <2>3. Key(who[q]) \in Keys /\ Key(who[q]) # k
    BY <1>1, <2>1, <2>2, KeyType, ConstAssumption
  <2> QED BY <1>1, <2>3
<1>4. SessionRunsOnce'
  <2>1. \A h \in fibers : Named(h) => Key(h) # k /\ Key(h) \in Keys
    BY <1>1, KeyType DEF IInv, SessionRunsOnce, TypeOK
  <2>2. \A h \in fibers : Named(h) => sessions'[Key(h)].st = "running" /\ sessions'[Key(h)].f = h
    BY <1>1, <2>1 DEF IInv, SessionRunsOnce
  <2>3. ASSUME NEW j \in Keys, sessions'[j].st = "running"
        PROVE  sessions'[j].f \in fibers /\ Key(sessions'[j].f) = j
    <3>1. sessions'[j] = sessions[j]
      BY <1>1, <2>3 DEF NoSession
    <3> QED BY <2>3, <3>1 DEF IInv, SessionRunsOnce
  <2> QED BY <1>1, <2>2, <2>3 DEF SessionRunsOnce
<1>5. NoneIsBlank' /\ InHand' /\ FibersBorn'
  BY <1>1 DEF IInv, NoneIsBlank, InHand, FibersBorn
<1>6. GateHeld'
  BY <1>1, <1>2, GatesKept
<1> QED BY <1>2, <1>3, <1>4, <1>5, <1>6, SeqsKept, ResolvesKept DEF IInv
-----------------------------------------------------------------------------
(* Every step keeps the invariant. *)

\* A home starts in the invariant.
LEMMA InvInit == Init => IInv
<1> SUFFICES ASSUME Init PROVE IInv
  OBVIOUS
<1>1. TypeOK
  BY TypeInit
<1>2. SessionRunsOnce /\ NoneIsBlank /\ FibersBorn
  BY DEF Init, SessionRunsOnce, NoneIsBlank, FibersBorn, NoSession
<1>3. InHand /\ GateHeld /\ ResolveStands /\ SeqBound /\ SeqDistinct
  BY DEF Init, InHand, GateHeld, ResolveStands, SeqBound, SeqDistinct, Reserving, Holding
<1> QED BY <1>1, <1>2, <1>3 DEF IInv

\* A return slot leaves presence and seq alone.
LEMMA UnlockKeeps ==
    ASSUME IInv, NEW p \in Procs, who[p] \in Fiber, Unlock(p)
    PROVE  \A u \in Grants : entry'[u].on = entry[u].on /\ entry'[u].next = entry[u].next
BY SlotType DEF Unlock, IInv

\* Every step of a clone keeps the invariant.
LEMMA InvClone ==
    ASSUME IInv, TypeOK', NEW p \in Procs, CloneStep(p)
    PROVE  IInv'
<1>h. CASE CloneHold(p)
  BY <1>h, HoldStep DEF CloneHold, Goto
<1>q. CASE CloneBirth(p) \/ CloneAuditFails(p) \/ CloneReleaseFails(p) \/ CloneRefused(p)
  <2>1. UNCHANGED <<entry, seqHigh, sessions, fibers, gate, born, who, src>>
    BY <1>q DEF CloneBirth, CloneAuditFails, CloneReleaseFails, CloneRefused
  <2>2. /\ pc[p] \in Reserving /\ pc'[p] \in Reserving
        /\ \A q \in Procs : q # p => pc'[q] = pc[q]
    BY <1>q DEF CloneBirth, CloneAuditFails, CloneReleaseFails, CloneRefused, Goto, Reserving,
                IInv, TypeOK
  <2> QED BY <2>1, <2>2, QuietStep DEF Quiet
<1>u. CASE \/ CloneReturns(p) \/ CloneNotBorn(p) \/ CloneRollBack(p)
           \/ CloneRefusedAnyway(p) \/ CloneSwept(p)
  <2>1. /\ UNCHANGED <<seqHigh, sessions, fibers, born>>
        /\ DropGate(p) /\ Return(p) /\ (UNCHANGED entry \/ Unlock(p))
        /\ pc[p] \in {"resolve", "birth", "rollback", "commitAnyway", "refused"}
    BY <1>u DEF CloneReturns, CloneNotBorn, CloneRollBack, CloneRefusedAnyway, CloneSwept, Unlock
  <2>2. who[p] \in Fiber /\ pc[p] \in Holding
    BY <2>1 DEF IInv, InHand, Holding, Reserving
  <2>3. \A u \in Grants : entry'[u].on = entry[u].on /\ entry'[u].next = entry[u].next
    BY <2>1, <2>2, UnlockKeeps
  <2>4. SessionRunsOnce' /\ NoneIsBlank'
    BY <2>1 DEF IInv, SessionRunsOnce, NoneIsBlank
  <2> QED BY <2>1, <2>2, <2>3, <2>4, ReturnStep
<1>res. CASE CloneResolve(p)
  BY <1>res, ResolveStep
<1>c. CASE CloneCommit(p) \/ CloneCommitAnyway(p)
  BY <1>c, CommitStep DEF CloneCommit, CloneCommitAnyway
<1>d. CASE CloneDone(p)
  <2>1. who[p] \in Fiber /\ pc[p] \in Holding
    BY <1>d DEF CloneDone, IInv, InHand, Holding
  <2>2. DropGate(p) /\ Return(p) /\ UNCHANGED <<seqHigh, born>>
    BY <1>d DEF CloneDone
  <2>3. CASE flag[p]
    <3>1. OnGone(who[p], TRUE)
      BY <1>d, <2>3 DEF CloneDone
    <3> QED BY <2>1, <2>2, <3>1, OnGoneKeeps, ReturnStep
  <2>4. CASE ~flag[p]
    <3>1. UNCHANGED <<entry, sessions, fibers>>
      BY <1>d, <2>4 DEF CloneDone
    <3>2. SessionRunsOnce' /\ NoneIsBlank'
      BY <3>1 DEF IInv, SessionRunsOnce, NoneIsBlank
    <3> QED BY <2>1, <2>2, <3>1, <3>2, ReturnStep
  <2> QED BY <2>3, <2>4
<1> QED BY <1>h, <1>q, <1>u, <1>res, <1>c, <1>d DEF CloneStep

\* So does every step of Park, Release, a sweep and a drain.
LEMMA InvStep ==
    ASSUME IInv, TypeOK', NEW p \in Procs,
           ParkStep(p) \/ ReleaseRecord(p) \/ SweepStep(p) \/ DrainStep(p)
    PROVE  IInv'
<1>ph. CASE ParkHold(p)
  BY <1>ph, HoldStep DEF ParkHold, Goto
<1>pd. CASE ParkDumped(p)
  <2>1. UNCHANGED <<entry, seqHigh, sessions, fibers, gate, born, who, src>>
    BY <1>pd DEF ParkDumped
  <2>2. pc[p] = "park" /\ pc'[p] = "parked" /\ \A q \in Procs : q # p => pc'[q] = pc[q]
    BY <1>pd DEF ParkDumped, Goto, IInv, TypeOK
  <2> QED BY <2>1, <2>2, QuietStep DEF Quiet
<1>pf. CASE ParkFails(p)
  <2>1. /\ UNCHANGED <<entry, seqHigh, sessions, fibers, born>>
        /\ DropGate(p) /\ Return(p) /\ pc[p] \in Holding
    BY <1>pf DEF ParkFails, Holding
  <2>2. SessionRunsOnce' /\ NoneIsBlank'
    BY <2>1 DEF IInv, SessionRunsOnce, NoneIsBlank
  <2> QED BY <2>1, <2>2, ReturnStep
<1>pr. CASE ParkRecord(p)
  BY <1>pr, ParkRecordStep
<1>rr. CASE ReleaseRecord(p)
  <2>1. who[p] \in Fiber /\ flag[p] \in BOOLEAN /\ OnGone(who[p], flag[p])
    BY <1>rr DEF ReleaseRecord, IInv, InHand, TypeOK
  <2>2. /\ UNCHANGED <<seqHigh, gate, born>>
        /\ pc'[p] \in {"idle", "drain"}
        /\ \A q \in Procs : q # p => pc'[q] = pc[q] /\ who'[q] = who[q] /\ src'[q] = src[q]
    BY <1>rr DEF ReleaseRecord, Return, IInv, TypeOK
  <2> QED BY <2>1, <2>2, GoneStep
<1>sc. CASE SweepRecord(p)
  <2>1. who[p] \in Fiber /\ OnGone(who[p], TRUE)
    BY <1>sc DEF SweepRecord, IInv, InHand
  <2>2. /\ UNCHANGED <<seqHigh, gate, born, src>>
        /\ pc'[p] = "sweep"
        /\ \A q \in Procs : q # p => pc'[q] = pc[q] /\ who'[q] = who[q]
    BY <1>sc DEF SweepRecord, Goto, IInv, TypeOK
  <2> QED BY <2>1, <2>2, GoneStep
<1>s. CASE SweepList(p) \/ SweepRelease(p) \/ SweepDone(p) \/ DrainList(p) \/ DrainDone(p)
  <2>1. UNCHANGED <<entry, seqHigh, sessions, fibers, gate, born>>
    BY <1>s DEF SweepList, SweepRelease, SweepDone, DrainList, DrainDone
  <2>2. \A q \in Procs : q # p => pc'[q] = pc[q] /\ who'[q] = who[q] /\ src'[q] = src[q]
    BY <1>s DEF SweepList, SweepRelease, SweepDone, DrainList, DrainDone, Goto, Return, IInv, TypeOK
  <2>3. /\ pc'[p] \in {"idle", "drain", "sweep", "swept"}
        /\ pc'[p] = "swept" => who'[p] \in Fiber
    BY <1>s DEF SweepList, SweepRelease, SweepDone, DrainList, DrainDone, Goto, Return, IInv, TypeOK
  <2> QED BY <2>1, <2>2, <2>3, QuietStep DEF Quiet, Holding, Reserving
<1>do. CASE DrainOne(p)
  <2>1. UNCHANGED <<entry, seqHigh, sessions, fibers, gate, born>>
    BY <1>do DEF DrainOne
  <2>2. PICK f \in todo[p] :
          \/ BeginPark(p, f) /\ UNCHANGED <<runtimeVars, src, flag>>
          \/ ~Named(f) /\ BeginRelease(p, f, FALSE)
          \/ f \notin fibers /\ UNCHANGED <<runtimeVars, pc, who, src, flag>>
    BY <1>do DEF DrainOne
  <2>3. f \in Fiber
    BY <2>2 DEF IInv, TypeOK
  <2>4. CASE BeginPark(p, f) /\ UNCHANGED <<runtimeVars, src, flag>>
    <3>1. /\ pc'[p] = "parkHold" /\ who'[p] = f /\ Named(f)
          /\ \A q \in Procs : q # p => pc'[q] = pc[q] /\ who'[q] = who[q] /\ src'[q] = src[q]
      BY <2>4 DEF BeginPark, Goto, IInv, TypeOK
    <3> QED BY <2>1, <2>3, <3>1, QuietStep DEF Quiet, Holding, Reserving
  <2>5. CASE BeginRelease(p, f, FALSE)
    <3>1. /\ pc'[p] \in {"idle", "drain", "released"} /\ (pc'[p] = "released" => who'[p] = f)
          /\ \A q \in Procs : q # p => pc'[q] = pc[q] /\ who'[q] = who[q] /\ src'[q] = src[q]
      BY <2>5 DEF BeginRelease, Goto, Return, IInv, TypeOK
    <3> QED BY <2>1, <2>3, <3>1, QuietStep DEF Quiet, Holding, Reserving
  <2>6. CASE UNCHANGED <<runtimeVars, pc, who, src, flag>>
    BY <2>1, <2>6, QuietStep DEF Quiet
  <2> QED BY <2>2, <2>4, <2>5, <2>6
<1> QED BY <1>ph, <1>pd, <1>pf, <1>pr, <1>rr, <1>sc, <1>s, <1>do DEF ParkStep, SweepStep, DrainStep

\* So does every call that arrives.
LEMMA InvCall ==
    ASSUME IInv, TypeOK', NEW p \in Procs, Call(p)
    PROVE  IInv'
<1>cs. ASSUME NEW u \in Grants, NEW n \in Names \cup {Anon}, CloneStart(p, u, n) PROVE IInv'
  <2>1. UNCHANGED <<entry, seqHigh, sessions, fibers, gate, born, src>>
    BY <1>cs DEF CloneStart
  <2>2. /\ pc'[p] = (IF n = Anon THEN "resolve" ELSE "hold") /\ who'[p] = Request(u, n)
        /\ \A q \in Procs : q # p => pc'[q] = pc[q] /\ who'[q] = who[q]
        /\ pc[p] = "idle"
    BY <1>cs DEF CloneStart, Goto, IInv, TypeOK
  <2>3. Request(u, n) \in Fiber /\ (Named(Request(u, n)) <=> n # Anon)
    BY RequestType DEF Request, Named
  <2> QED BY <2>1, <2>2, <2>3, QuietStep DEF Quiet, Holding, Reserving
<1>ps. ASSUME NEW f \in fibers, ParkStart(p, f) PROVE IInv'
  <2>1. UNCHANGED <<entry, seqHigh, sessions, fibers, gate, born, src>> /\ f \in Fiber
    BY <1>ps DEF ParkStart, IInv, TypeOK
  <2>2. /\ pc'[p] = "parkHold" /\ who'[p] = f /\ Named(f)
        /\ \A q \in Procs : q # p => pc'[q] = pc[q] /\ who'[q] = who[q]
    BY <1>ps DEF ParkStart, BeginPark, Goto, IInv, TypeOK
  <2> QED BY <2>1, <2>2, QuietStep DEF Quiet, Holding, Reserving
<1>rs. ASSUME NEW f \in fibers, NEW b \in BOOLEAN, ReleaseStart(p, f, b) PROVE IInv'
  <2>1. UNCHANGED <<entry, seqHigh, sessions, fibers, gate, born>> /\ f \in Fiber
    BY <1>rs DEF ReleaseStart, IInv, TypeOK
  <2>2. /\ pc'[p] \in {"idle", "drain", "released"} /\ (pc'[p] = "released" => who'[p] = f)
        /\ \A q \in Procs : q # p => pc'[q] = pc[q] /\ who'[q] = who[q] /\ src'[q] = src[q]
    BY <1>rs DEF ReleaseStart, BeginRelease, Goto, Return, IInv, TypeOK
  <2> QED BY <2>1, <2>2, QuietStep DEF Quiet, Holding, Reserving
<1>y. ASSUME NEW u \in Grants, Yield(p, u) PROVE IInv'
  <2>1. UNCHANGED <<sessions, fibers, gate, born, src>>
    BY <1>y DEF Yield
  <2>2. /\ pc'[p] = "listYield" /\ who'[p] = Request(u, Anon)
        /\ \A q \in Procs : q # p => pc'[q] = pc[q] /\ who'[q] = who[q]
    BY <1>y DEF Yield, Goto, IInv, TypeOK
  <2>3. Request(u, Anon) \in Fiber
    BY RequestType
  <2>4. \A v \in Grants : SeqTop(v)' = SeqTop(v)
    <3>1. ~entry'[u].on /\ \A v \in Grants : v # u => entry'[v] = entry[v]
      BY <1>y DEF Yield, IInv, TypeOK
    <3>2. /\ seqHigh'[u] = IF entry[u].on THEN entry[u].next ELSE seqHigh[u]
          /\ \A v \in Grants : v # u => seqHigh'[v] = seqHigh[v]
      BY <1>y DEF Yield, IInv, TypeOK
    <3> QED BY <3>1, <3>2 DEF SeqTop
  <2> QED BY <2>1, <2>2, <2>3, <2>4, TopStep
<1>b. CASE BumpEpoch(p)
  <2>1. UNCHANGED <<entry, seqHigh, sessions, fibers, gate, born, src>>
    BY <1>b DEF BumpEpoch
  <2>2. /\ pc'[p] = "listBump" /\ who'[p] = Moved(epoch + 1)
        /\ \A q \in Procs : q # p => pc'[q] = pc[q] /\ who'[q] = who[q]
    BY <1>b DEF BumpEpoch, Goto, IInv, TypeOK
  <2>3. Moved(epoch + 1) \in Fiber
    BY MovedType DEF IInv, TypeOK
  <2> QED BY <2>1, <2>2, <2>3, QuietStep DEF Quiet, Holding, Reserving
<1>d. CASE DrainStart(p)
  <2>1. UNCHANGED <<entry, seqHigh, sessions, fibers, gate, born, src, who>>
    BY <1>d DEF DrainStart
  <2>2. pc'[p] = "drain" /\ \A q \in Procs : q # p => pc'[q] = pc[q]
    BY <1>d DEF DrainStart, Goto, IInv, TypeOK
  <2> QED BY <2>1, <2>2, QuietStep DEF Quiet, Holding, Reserving
<1> QED BY <1>cs, <1>ps, <1>rs, <1>y, <1>b, <1>d DEF Call

\* And so does every step of the home.
LEMMA InvNext ==
    ASSUME IInv, [Next]_vars
    PROVE  IInv'
<1>0. TypeOK'
  BY TypeNext
<1>1. ASSUME NEW p \in Procs, Call(p) PROVE IInv'
  BY <1>0, <1>1, InvCall
<1>2. ASSUME NEW p \in Procs, Step(p) PROVE IInv'
  BY <1>0, <1>2, InvClone, InvStep DEF Step
<1>3. ASSUME NEW u \in Grants, AdmitGrant(u) PROVE IInv'
  <2>1. UNCHANGED <<sessions, fibers, gate, born, src, pc, who, seqHigh>>
    BY <1>3 DEF AdmitGrant
  <2>2. /\ ~entry[u].on /\ entry'[u].on /\ entry'[u].next = seqHigh[u]
        /\ \A v \in Grants : v # u => entry'[v] = entry[v]
    BY <1>3 DEF AdmitGrant, IInv, TypeOK
  <2>3. \A v \in Grants : SeqTop(v)' = SeqTop(v)
    BY <2>1, <2>2 DEF SeqTop
  <2> QED BY <1>0, <2>1, <2>3, TopStep
<1>4. ASSUME NEW k \in Keys, Discard(k) PROVE IInv'
  BY <1>0, <1>4, DiscardStep
<1>5. ASSUME NEW f \in alive, Die(f) PROVE IInv'
  BY <1>0, <1>5, QuietStep DEF Die, Quiet
<1>6. ASSUME NEW f \in exits, OnExit(f) PROVE IInv'
  <2>1. f \in Fiber /\ OnGone(f, TRUE) /\ UNCHANGED <<seqHigh, gate, born, pc, who, src>>
    BY <1>6 DEF OnExit, IInv, TypeOK
  <2> QED BY <1>0, <2>1, GoneStep
<1>7. CASE UNCHANGED vars
  BY <1>0, <1>7, QuietStep DEF vars, Quiet
<1> QED BY <1>1, <1>2, <1>3, <1>4, <1>5, <1>6, <1>7 DEF Next

\* FiberCore's inductive invariant holds in every behaviour of the operations.
THEOREM CoreInvariant == Spec => []IInv
<1>1. Init => IInv
  BY InvInit
<1>2. IInv /\ [Next]_vars => IInv'
  BY InvNext
<1> QED BY <1>1, <1>2, PTL DEF Spec

\* The state of the ledger, the runtime and the operations is always of its
\* declared type.
THEOREM CoreTypes == Spec => []TypeOK
<1>1. IInv => TypeOK
  BY DEF IInv
<1> QED BY <1>1, CoreInvariant, PTL

\* A session runs in one fiber at a time, the one its entry names.
THEOREM CoreRunsOnce == Spec => []SessionRunsOnce
<1>1. IInv => SessionRunsOnce
  BY DEF IInv
<1> QED BY <1>1, CoreInvariant, PTL

\* No fence is minted twice.
THEOREM CoreFenceOnce == Spec => []FenceOnce
<1>1. IInv => FenceOnce
  <2> SUFFICES ASSUME IInv,
                      NEW f \in born \cup {who[p] : p \in {q \in Procs : pc[q] \in Reserving}},
                      NEW h \in born \cup {who[p] : p \in {q \in Procs : pc[q] \in Reserving}},
                      Fence(f) = Fence(h)
               PROVE  f = h
    BY DEF FenceOnce
  <2>1. f.g = h.g /\ f.n = h.n
    BY DEF Fence
  <2> QED BY <2>1 DEF IInv, SeqDistinct
<1> QED BY <1>1, CoreInvariant, PTL
-----------------------------------------------------------------------------
(* The refinement: what FiberService sees of each step. *)

\* The sessions as FiberService sees them.
Parked == [k \in Keys |-> IF sessions[k].st = "parked" THEN sessions[k].d ELSE NoFiber]
Base == [k \in Keys |-> IF sessions[k].st = "running" THEN sessions[k].d ELSE NoFiber]

\* Both views are functions of the session keys.
LEMMA Views ==
    /\ Parked = [j \in Keys |-> Parked[j]] /\ Parked' = [j \in Keys |-> Parked'[j]]
    /\ Base = [j \in Keys |-> Base[j]] /\ Base' = [j \in Keys |-> Base'[j]]
BY DEF Parked, Base

\* A function that differs from another at one key is the other, overridden.
LEMMA Override ==
    ASSUME NEW F, NEW G, NEW k \in Keys, NEW v,
           F = [j \in Keys |-> F[j]], G = [j \in Keys |-> G[j]],
           \A j \in Keys : G[j] = IF j = k THEN v ELSE F[j]
    PROVE  G = [F EXCEPT ![k] = v]
<1>1. [F EXCEPT ![k] = v] = [j \in Keys |-> IF j = k THEN v ELSE F[j]]
  OBVIOUS
<1> QED BY <1>1

\* A step that leaves sessions and fibers alone is none of FiberService.
LEMMA ServiceStutter ==
    ASSUME UNCHANGED <<sessions, fibers, born>>
    PROVE  UNCHANGED Service!vars
BY DEF Service!vars

\* onGone ends the fiber.
LEMMA ServiceEnd ==
    ASSUME IInv, NEW f \in Fiber, NEW b \in BOOLEAN, OnGone(f, b), born' = born
    PROVE  [Service!Next]_(Service!vars)
<1>1. CASE f \notin fibers
  BY <1>1, ServiceStutter DEF OnGone
<1>2. CASE f \in fibers
  <2>1. fibers' = fibers \ {f}
    BY <1>2 DEF OnGone
  <2>2. CASE ~Named(f)
    <3>1. sessions' = sessions
      BY <1>2, <2>2 DEF OnGone
    <3>2. Service!End(f)
      BY <1>2, <2>1, <2>2, <3>1 DEF Service!End, Service!Named, Named
    <3> QED BY <1>2, <3>2 DEF Service!Next
  <2>3. CASE Named(f)
    <3>1. Key(f) \in Keys /\ sessions[Key(f)].st = "running"
      BY <1>2, <2>3, KeyType DEF IInv, SessionRunsOnce
    <3>2. \A k \in Keys : sessions'[k] = IF k = Key(f) THEN NoSession ELSE sessions[k]
      BY <1>2, <2>3, <3>1 DEF OnGone, IInv, TypeOK
    <3>3. Parked' = Parked
      BY <3>1, <3>2 DEF Parked, NoSession
    <3>4. Base' = [Base EXCEPT ![Key(f)] = NoFiber]
      <4>1. \A j \in Keys : Base'[j] = IF j = Key(f) THEN NoFiber ELSE Base[j]
        BY <3>1, <3>2 DEF Base, NoSession
      <4> QED BY <4>1, <3>1, Views, Override
    <3>5. Service!End(f)
      BY <1>2, <2>1, <2>3, <3>3, <3>4
      DEF Service!End, Service!Named, Named, Service!Key, Key, Parked, Base
    <3> QED BY <1>2, <3>5 DEF Service!Next
  <2> QED BY <2>2, <2>3
<1> QED BY <1>1, <1>2

\* OnPark parks the session, with its own fiber's state.
LEMMA ServicePark ==
    ASSUME IInv, NEW p \in Procs, ParkRecord(p)
    PROVE  [Service!Next]_(Service!vars)
<1> DEFINE f == who[p]
<1>1. f \in Fiber /\ Named(f) /\ Key(f) \in Keys /\ born' = born
  BY KeyType DEF ParkRecord, IInv, InHand
<1>2. CASE f \notin fibers
  BY <1>1, <1>2, ServiceStutter DEF ParkRecord
<1>3. CASE f \in fibers
  <2>1. sessions[Key(f)].st = "running" /\ fibers' = fibers \ {f}
    BY <1>1, <1>3 DEF ParkRecord, IInv, SessionRunsOnce
  <2>2. \A k \in Keys : sessions'[k] =
           IF k = Key(f) THEN [st |-> "parked", f |-> NoFiber, d |-> f] ELSE sessions[k]
    BY <1>1, <1>3, <2>1 DEF ParkRecord, IInv, TypeOK
  <2>3. Parked' = [Parked EXCEPT ![Key(f)] = f]
    <3>1. \A j \in Keys : Parked'[j] = IF j = Key(f) THEN f ELSE Parked[j]
      BY <1>1, <2>2 DEF Parked
    <3> QED BY <3>1, <1>1, Views, Override
  <2>4. Base' = [Base EXCEPT ![Key(f)] = NoFiber]
    <3>1. \A j \in Keys : Base'[j] = IF j = Key(f) THEN NoFiber ELSE Base[j]
      BY <1>1, <2>2 DEF Base
    <3> QED BY <3>1, <1>1, Views, Override
  <2>5. \E h \in fibers : Service!Park(h)
    BY <1>1, <1>3, <2>1, <2>3, <2>4
    DEF Service!Park, Service!Named, Named, Service!Key, Key, Parked, Base
  <2> QED BY <2>5 DEF Service!Next
<1> QED BY <1>2, <1>3

\* commit is a birth, from exactly what is parked.
LEMMA ServiceBirth ==
    ASSUME IInv, NEW p \in Procs, pc[p] \in {"audit", "commitAnyway"}, Commit(p)
    PROVE  [Service!Next]_(Service!vars)
<1> SUFFICES ASSUME NEW f, f = who[p]
             PROVE  [Service!Next]_(Service!vars)
  OBVIOUS
<1>1. f \in Fiber /\ pc[p] \in Reserving
  BY DEF IInv, InHand, Reserving
<1>2. fibers' = fibers \cup {f} /\ born' = born \cup {f}
  BY DEF Commit
<1>3. \A h \in born : <<h.g, h.e, h.n>> # <<f.g, f.e, f.n>>
  BY <1>1 DEF IInv, SeqDistinct
<1>4. CASE ~Named(f)
  <2>1. sessions' = sessions
    BY <1>4 DEF Commit
  <2>2. Service!Birth(f)
    BY <1>2, <1>3, <1>4, <2>1 DEF Service!Birth, Service!Fence, Service!Named, Named
  <2> QED BY <1>1, <1>2, <2>2 DEF Service!Next, Service!Fiber, Fiber
<1>5. CASE Named(f)
  <2>1. Key(f) \in Keys /\ sessions[Key(f)].st # "running" /\ src[p] = sessions[Key(f)].d
    BY <1>1, <1>5, KeyType DEF IInv, ResolveStands
  <2>2. \A k \in Keys : sessions'[k] =
           IF k = Key(f) THEN [st |-> "running", f |-> f, d |-> src[p]] ELSE sessions[k]
    BY <1>5, <2>1 DEF Commit, IInv, TypeOK
  <2>3. src[p] = Parked[Key(f)]
    <3>1. sessions[Key(f)].st \in {"none", "parked"}
      BY <2>1 DEF IInv, TypeOK
    <3>2. sessions[Key(f)].st = "none" => sessions[Key(f)].d = NoFiber
      BY <2>1 DEF IInv, NoneIsBlank, NoSession
    <3> QED BY <2>1, <3>1, <3>2 DEF Parked
  <2>4. Parked' = [Parked EXCEPT ![Key(f)] = NoFiber]
    <3>1. \A j \in Keys : Parked'[j] = IF j = Key(f) THEN NoFiber ELSE Parked[j]
      BY <2>1, <2>2 DEF Parked
    <3> QED BY <3>1, <2>1, Views, Override
  <2>5. Base' = [Base EXCEPT ![Key(f)] = Parked[Key(f)]]
    <3>1. Base' = [Base EXCEPT ![Key(f)] = src[p]]
      <4>1. \A j \in Keys : Base'[j] = IF j = Key(f) THEN src[p] ELSE Base[j]
        BY <2>1, <2>2 DEF Base
      <4> QED BY <4>1, <2>1, Views, Override
    <3> QED BY <2>3, <3>1
  <2>6. \A h \in fibers : Key(h) # Key(f)
    <3>1. ASSUME NEW h \in fibers, Key(h) = Key(f) PROVE FALSE
      <4>1. Named(h)
        BY <1>5, <3>1 DEF Key, Named
      <4> QED BY <2>1, <3>1, <4>1 DEF IInv, SessionRunsOnce
    <3> QED BY <3>1
  <2>7. Service!Birth(f)
    BY <1>2, <1>3, <1>5, <2>4, <2>5, <2>6
    DEF Service!Birth, Service!Fence, Service!Named, Named, Service!Key, Key, Parked, Base
  <2> QED BY <1>1, <1>2, <2>7 DEF Service!Next, Service!Fiber, Fiber
<1> QED BY <1>4, <1>5

\* Discard forgets a parked session.
LEMMA ServiceForget ==
    ASSUME IInv, NEW k \in Keys, Discard(k)
    PROVE  [Service!Next]_(Service!vars)
<1>1. /\ UNCHANGED <<fibers, born>> /\ sessions[k].st = "parked"
      /\ \A j \in Keys : sessions'[j] = IF j = k THEN NoSession ELSE sessions[j]
  BY DEF Discard, IInv, TypeOK
<1>2. Parked' = [Parked EXCEPT ![k] = NoFiber]
  <2>1. \A j \in Keys : Parked'[j] = IF j = k THEN NoFiber ELSE Parked[j]
    BY <1>1 DEF Parked, NoSession
  <2> QED BY <2>1, <1>1, Views, Override
<1>3. Base' = Base
  BY <1>1 DEF Base, NoSession
<1>4. CASE Parked[k] = NoFiber
  <2>1. Parked' = Parked
    BY <1>2, <1>4 DEF Parked
  <2> QED BY <1>1, <1>3, <2>1 DEF Service!vars, Parked, Base
<1>5. CASE Parked[k] # NoFiber
  <2>1. Service!Forget(k)
    BY <1>1, <1>2, <1>3, <1>5 DEF Service!Forget, Parked, Base
  <2> QED BY <2>1 DEF Service!Next, Service!Keys, Keys
<1> QED BY <1>4, <1>5

\* Every step of the home is a step of FiberService, or none.
LEMMA ServiceNext ==
    ASSUME IInv, [Next]_vars
    PROVE  [Service!Next]_(Service!vars)
<1>1. ASSUME NEW p \in Procs, CloneStep(p) PROVE [Service!Next]_(Service!vars)
  <2>c. CASE CloneCommit(p) \/ CloneCommitAnyway(p)
    BY <2>c, ServiceBirth DEF CloneCommit, CloneCommitAnyway
  <2>d. CASE CloneDone(p) /\ flag[p]
    <3>1. who[p] \in Fiber /\ OnGone(who[p], TRUE) /\ born' = born
      BY <2>d DEF CloneDone, IInv, InHand
    <3> QED BY <3>1, ServiceEnd
  <2>o. CASE \/ CloneHold(p) \/ CloneReturns(p) \/ CloneResolve(p) \/ CloneBirth(p)
             \/ CloneNotBorn(p) \/ CloneAuditFails(p) \/ CloneRollBack(p) \/ CloneReleaseFails(p)
             \/ CloneRefused(p) \/ CloneRefusedAnyway(p) \/ CloneSwept(p)
             \/ (CloneDone(p) /\ ~flag[p])
    <3>1. UNCHANGED <<sessions, fibers, born>>
      BY <2>o DEF CloneHold, CloneReturns, CloneResolve, CloneBirth, CloneNotBorn, CloneAuditFails,
                  CloneRollBack, CloneReleaseFails, CloneRefused, CloneRefusedAnyway, CloneSwept,
                  CloneDone
    <3> QED BY <3>1, ServiceStutter
  <2> QED BY <1>1, <2>c, <2>d, <2>o DEF CloneStep
<1>2. ASSUME NEW p \in Procs, ParkStep(p) \/ ReleaseRecord(p) \/ SweepStep(p) \/ DrainStep(p)
      PROVE  [Service!Next]_(Service!vars)
  <2>p. CASE ParkRecord(p)
    BY <2>p, ServicePark
  <2>r. CASE ReleaseRecord(p) \/ SweepRecord(p)
    <3>1. /\ who[p] \in Fiber /\ flag[p] \in BOOLEAN /\ born' = born
          /\ OnGone(who[p], flag[p]) \/ OnGone(who[p], TRUE)
      BY <2>r DEF ReleaseRecord, SweepRecord, IInv, InHand, TypeOK
    <3> QED BY <3>1, ServiceEnd
  <2>o. CASE \/ ParkHold(p) \/ ParkDumped(p) \/ ParkFails(p)
             \/ SweepList(p) \/ SweepRelease(p) \/ SweepDone(p) \/ DrainStep(p)
    <3>1. UNCHANGED <<sessions, fibers, born>>
      BY <2>o DEF ParkHold, ParkDumped, ParkFails, SweepList, SweepRelease, SweepDone,
                  DrainStep, DrainList, DrainOne, DrainDone
    <3> QED BY <3>1, ServiceStutter
  <2> QED BY <1>2, <2>p, <2>r, <2>o DEF ParkStep, SweepStep
<1>3. ASSUME NEW p \in Procs, Call(p) PROVE [Service!Next]_(Service!vars)
  <2>1. UNCHANGED <<sessions, fibers, born>>
    BY <1>3 DEF Call, CloneStart, ParkStart, ReleaseStart, Yield, BumpEpoch, DrainStart
  <2> QED BY <2>1, ServiceStutter
<1>4. ASSUME NEW u \in Grants, AdmitGrant(u) PROVE [Service!Next]_(Service!vars)
  BY <1>4, ServiceStutter DEF AdmitGrant
<1>5. ASSUME NEW k \in Keys, Discard(k) PROVE [Service!Next]_(Service!vars)
  BY <1>5, ServiceForget
<1>6. ASSUME NEW f \in alive, Die(f) PROVE [Service!Next]_(Service!vars)
  BY <1>6, ServiceStutter DEF Die
<1>7. ASSUME NEW f \in exits, OnExit(f) PROVE [Service!Next]_(Service!vars)
  <2>1. f \in Fiber /\ OnGone(f, TRUE) /\ born' = born
    BY <1>7 DEF OnExit, IInv, TypeOK
  <2> QED BY <2>1, ServiceEnd
<1>8. CASE UNCHANGED vars
  BY <1>8, ServiceStutter DEF vars
<1> QED BY <1>1, <1>2, <1>3, <1>4, <1>5, <1>6, <1>7, <1>8 DEF Next, Step

\* Clone, Park, Release, Yield, BumpEpoch, Drain, Discard and OnExit, in any
\* interleaving, implement FiberService.
THEOREM CoreImplementsService == Spec => ImplementsService
<1>1. Init => Service!Init
  BY DEF Init, Service!Init, Service!Keys, Keys, NoSession
<1>2. IInv /\ [Next]_vars => [Service!Next]_(Service!vars)
  BY ServiceNext
<1> QED BY <1>1, <1>2, CoreInvariant, PTL DEF Spec, ImplementsService, Service!Spec

(***************************************************************************)
(* Fates.                                                                  *)
(***************************************************************************)

\* Each goroutine has a place and what it works on.
LEMMA Shapes ==
    ASSUME TypeOK
    PROVE  /\ pc \in [Procs -> Labels] /\ who \in [Procs -> Fiber \cup {NoFiber}]
           /\ src \in [Procs -> Fiber \cup {NoFiber}] /\ flag \in [Procs -> BOOLEAN]
           /\ todo \in [Procs -> SUBSET Fiber]
BY DEF TypeOK

\* A step of p changes no other goroutine.
Mine(p) ==
    \A q \in Procs : q # p =>
        /\ pc'[q] = pc[q] /\ who'[q] = who[q] /\ src'[q] = src[q]
        /\ flag'[q] = flag[q] /\ todo'[q] = todo[q]

\* No step touches a goroutine but the one that takes it.
LEMMA OthersStill ==
    ASSUME TypeOK, NEW p \in Procs, Call(p) \/ Step(p)
    PROVE  Mine(p)
<1> USE DEF TypeOK, Mine
<1>1. CASE Call(p)
  <2>1. CASE \E u \in Grants, n \in Names \cup {Anon} : CloneStart(p, u, n)
    BY <2>1 DEF CloneStart, Goto
  <2>2. CASE \E f \in fibers : ParkStart(p, f)
    BY <2>2 DEF ParkStart, BeginPark, Goto
  <2>3. CASE \E f \in fibers : \E b \in BOOLEAN : ReleaseStart(p, f, b)
    BY <2>3 DEF ReleaseStart, BeginRelease, Goto, Return
  <2>4. CASE \E u \in Grants : Yield(p, u)
    BY <2>4 DEF Yield, Goto
  <2>5. CASE BumpEpoch(p) \/ DrainStart(p)
    BY <2>5 DEF BumpEpoch, DrainStart, Goto
  <2> QED BY <1>1, <2>1, <2>2, <2>3, <2>4, <2>5 DEF Call
<1>2. CASE CloneStep(p)
  <2>1. CASE CloneHold(p) \/ CloneBirth(p) \/ CloneAuditFails(p) \/ CloneReleaseFails(p)
             \/ CloneRefused(p)
    BY <2>1 DEF CloneHold, CloneBirth, CloneAuditFails, CloneReleaseFails, CloneRefused, Goto
  <2>2. CASE CloneReturns(p) \/ CloneNotBorn(p) \/ CloneRollBack(p) \/ CloneRefusedAnyway(p)
             \/ CloneSwept(p) \/ CloneDone(p)
    BY <2>2 DEF CloneReturns, CloneNotBorn, CloneRollBack, CloneRefusedAnyway, CloneSwept,
                CloneDone, Unlock, Return
  <2>3. CASE CloneResolve(p)
    BY <2>3 DEF CloneResolve, Goto
  <2>4. CASE CloneCommit(p) \/ CloneCommitAnyway(p)
    BY <2>4 DEF CloneCommit, CloneCommitAnyway, Commit, Goto
  <2> QED BY <1>2, <2>1, <2>2, <2>3, <2>4 DEF CloneStep
<1>3. CASE ParkStep(p) \/ ReleaseRecord(p)
  BY <1>3 DEF ParkStep, ParkHold, ParkDumped, ParkFails, ParkRecord, ReleaseRecord, Goto, Return
<1>4. CASE SweepStep(p)
  BY <1>4 DEF SweepStep, SweepList, SweepRelease, SweepRecord, SweepDone, Goto, Return
<1>5. CASE DrainList(p) \/ DrainDone(p)
  BY <1>5 DEF DrainList, DrainDone, Goto
<1>6. CASE DrainOne(p)
  BY <1>6 DEF DrainOne, BeginPark, BeginRelease, Goto, Return
<1> QED BY <1>1, <1>2, <1>3, <1>4, <1>5, <1>6 DEF Step, DrainStep

\* The fiber of a reservation is not born yet, and no other clone has it.
LEMMA ReservedApart ==
    ASSUME IInv, NEW p \in Procs, pc[p] \in Reserving
    PROVE  /\ who[p] \in Fiber /\ who[p] \notin born /\ who[p] \notin fibers
           /\ \A q \in Procs : pc[q] \in Reserving /\ q # p => who[q] # who[p]
BY DEF IInv, InHand, Reserving, SeqDistinct, FibersBorn
-----------------------------------------------------------------------------
(* Processes *)

\* A goroutine that works on a committed fiber.
OfFibers == {"parkHold", "park", "parked", "released", "swept", "committed", "internal"}

WasBorn == \A p \in Procs : pc[p] \in OfFibers => who[p] \in born

\* What the runtime, or an exit on its way, has of a fiber.
Seen == alive \cup exits \cup pending \cup stuck

\* The runtime has only what was minted...
Minted == \A f \in Seen : f.n <= SeqTop(f.g)

\* ...and nothing yet of a fiber that its clone has not started.
Unborn == \A p \in Procs : pc[p] = "birth" => who[p] \notin Seen

\* p has ended the process of its fiber, or has taken over its exit.
Ended(p) ==
    \/ pc[p] \in {"parked", "released", "swept"}
    \/ pc[p] \in {"committed", "internal"} /\ flag[p]

\* An exit is of a process that is gone; so is the process that a goroutine
\* has ended, unless the runtime failed to release it.
Dead ==
    /\ \A f \in exits \cup pending : f \notin alive
    /\ \A p \in Procs :
          /\ Ended(p) => who[p] \notin alive \ stuck
          /\ pc[p] \in {"committed", "internal"} /\ flag[p] => who[p] \notin alive
          /\ pc[p] = "rollback" => who[p] \notin alive
          /\ pc[p] = "commitAnyway" => who[p] \in stuck

\* A fiber that awaits its commit runs, or its exit awaits the commit too.
Watched == \A p \in Procs : pc[p] \in {"audit", "commitAnyway"} => who[p] \in Seen

Fates ==
    /\ WasBorn /\ Minted /\ Unborn /\ Dead /\ Watched
    /\ NoProcessLost /\ DeadAreNoticed

\* No seq is taken back.
SeqsStand == \A u \in Grants : SeqTop(u) <= SeqTop(u)'

\* The seqs of a step that leaves presence and sequence alone stand.
LEMMA SeqsSame ==
    ASSUME TypeOK, seqHigh' = seqHigh,
           \A u \in Grants : entry'[u].on = entry[u].on /\ entry'[u].next = entry[u].next
    PROVE  SeqsStand
BY DEF SeqsStand, SeqTop, TypeOK

\* What the runtime has stays minted, if it learns only of minted fibers.
LEMMA MintedKept ==
    ASSUME IInv, TypeOK', Minted, SeqsStand,
           \A f \in Seen' : \/ f \in Seen \cup born
                            \/ \E q \in Procs : pc[q] \in Reserving /\ f = who[q]
    PROVE  Minted'
<1> SUFFICES ASSUME NEW f \in Seen'
             PROVE  f.n <= SeqTop(f.g)'
  BY DEF Minted
<1>1. f \in Fiber
  BY DEF Seen, TypeOK
<1>2. f.g \in Grants /\ f.n \in Nat
  BY <1>1 DEF Fiber
<1>3. f.n <= SeqTop(f.g)
  BY DEF Minted, IInv, SeqBound
<1>4. SeqTop(f.g) \in Nat /\ SeqTop(f.g)' \in Nat
  BY <1>2 DEF SeqTop, IInv, TypeOK
<1> QED BY <1>2, <1>3, <1>4 DEF SeqsStand

\* What a goroutine does without touching a process: it neither hands one on
\* nor lets go of one, and takes up only committed fibers.
Harmless(q) ==
    \/ pc'[q] = pc[q] /\ who'[q] = who[q] /\ flag'[q] = flag[q]
    \/ /\ pc[q] \notin {"audit", "refused"} /\ ~Ended(q)
       /\ pc'[q] \notin Reserving
       /\ pc'[q] \in {"parkHold", "park"} => who'[q] \in born
       /\ pc'[q] \in OfFibers => pc'[q] \in {"parkHold", "park"}

\* Steps that touch no process.
LEMMA FatesQuiet ==
    ASSUME IInv, TypeOK', Fates, SeqsStand,
           UNCHANGED <<alive, exits, pending, stuck, fibers, born>>,
           \A q \in Procs : Harmless(q)
    PROVE  Fates'
<1> USE DEF Fates
<1>1. WasBorn'
  BY DEF WasBorn, Harmless
<1>2. Minted'
  BY MintedKept DEF Seen
<1>3. Unborn'
  BY DEF Unborn, Harmless, Seen, Reserving
<1>4. Dead'
  BY DEF Dead, Harmless, Ended, Reserving, OfFibers
<1>5. Watched'
  BY DEF Watched, Harmless, Reserving, Seen
<1>6. NoProcessLost'
  BY DEF NoProcessLost, Harmless
<1>7. DeadAreNoticed'
  BY DEF DeadAreNoticed, Harmless, Ended
<1> QED BY <1>1, <1>2, <1>3, <1>4, <1>5, <1>6, <1>7

\* A reservation's fence is above every seq minted, so the runtime has nothing
\* of it.
LEMMA FatesResolve ==
    ASSUME IInv, TypeOK', Fates, NEW p \in Procs, Mine(p), CloneResolve(p)
    PROVE  Fates'
<1>0. TypeOK /\ InHand
  BY DEF IInv
<1>1. /\ pc[p] = "resolve" /\ pc'[p] = "birth" /\ who[p] \in Fiber
      /\ UNCHANGED <<alive, exits, pending, stuck, fibers, born, seqHigh>>
  BY <1>0, Shapes DEF CloneResolve, Goto, InHand
<1> DEFINE u == who[p].g
<1>u. u \in Grants
  BY <1>1 DEF Fiber
<1>2. /\ entry[u].on /\ entry'[u].on /\ entry'[u].next = entry[u].next + 1
      /\ \A v \in Grants : v # u => entry'[v] = entry[v]
      /\ who'[p].g = u /\ who'[p].n = entry[u].next + 1
  BY <1>0, <1>u DEF CloneResolve, TypeOK
<1>3. SeqsStand
  BY <1>0, <1>1, <1>2 DEF SeqsStand, SeqTop, TypeOK
<1> USE DEF Fates, Mine
<1>4. who'[p] \notin Seen
  <2>1. SUFFICES ASSUME who'[p] \in Seen PROVE FALSE
    OBVIOUS
  <2>2. who'[p].n <= SeqTop(who'[p].g)
    BY <2>1 DEF Minted
  <2>3. SeqTop(who'[p].g) = entry[u].next /\ entry[u].next \in Nat
    BY <1>0, <1>u, <1>2 DEF SeqTop, TypeOK
  <2> QED BY <1>2, <2>2, <2>3
<1>5. WasBorn'
  BY <1>1 DEF WasBorn, OfFibers
<1>6. Minted'
  BY <1>1, <1>3, MintedKept DEF Seen
<1>7. Unborn'
  BY <1>1, <1>4 DEF Unborn, Seen
<1>8. Dead'
  BY <1>1 DEF Dead, Ended
<1>9. Watched'
  BY <1>1 DEF Watched, Seen
<1>10. NoProcessLost'
  BY <1>1 DEF NoProcessLost
<1>11. DeadAreNoticed'
  BY <1>1 DEF DeadAreNoticed
<1> QED BY <1>5, <1>6, <1>7, <1>8, <1>9, <1>10, <1>11

\* Runtime.Clone starts the process of a fiber the runtime has nothing of.
LEMMA FatesBirth ==
    ASSUME IInv, TypeOK', Fates, NEW p \in Procs, Mine(p), CloneBirth(p)
    PROVE  Fates'
<1>0. TypeOK
  BY DEF IInv
<1>1. /\ pc[p] = "birth" /\ pc'[p] = "audit" /\ who'[p] = who[p]
      /\ alive' = alive \cup {who[p]}
      /\ UNCHANGED <<exits, pending, stuck, fibers, born, seqHigh, entry>>
  BY <1>0, Shapes DEF CloneBirth, Goto
<1> USE DEF Fates, Mine
<1>2. /\ who[p] \notin born /\ who[p] \notin fibers
      /\ \A q \in Procs : pc[q] \in Reserving /\ q # p => who[q] # who[p]
  BY <1>1, ReservedApart DEF Reserving
<1>3. who[p] \notin Seen
  BY <1>1 DEF Unborn
<1>4. SeqsStand
  BY <1>1, SeqsSame DEF IInv
<1>5. WasBorn'
  BY <1>1 DEF WasBorn, OfFibers
<1>6. Minted'
  BY <1>1, <1>4, MintedKept DEF Seen, Reserving
<1>7. Unborn'
  BY <1>1, <1>2 DEF Unborn, Seen, Reserving
<1>8. Dead'
  <2>1. \A q \in Procs : Ended(q) => who[q] # who[p]
    BY <1>2 DEF WasBorn, OfFibers, Ended
  <2>2. \A q \in Procs : q # p => (Ended(q)' <=> Ended(q))
    BY DEF Ended
  <2> QED BY <1>1, <1>2, <1>3, <2>1, <2>2 DEF Dead, Ended, Seen, Reserving
<1>9. Watched'
  BY <1>1 DEF Watched, Seen
<1>10. NoProcessLost'
  BY <1>1 DEF NoProcessLost
<1>11. DeadAreNoticed'
  BY <1>1 DEF DeadAreNoticed
<1> QED BY <1>5, <1>6, <1>7, <1>8, <1>9, <1>10, <1>11

\* The birth's audit fails: the process is released, or that fails too.
LEMMA FatesAuditFails ==
    ASSUME IInv, TypeOK', Fates, NEW p \in Procs, Mine(p),
           CloneAuditFails(p) \/ CloneReleaseFails(p)
    PROVE  Fates'
<1>0. TypeOK
  BY DEF IInv
<1>1. /\ pc[p] = "audit" /\ who'[p] = who[p]
      /\ \/ pc'[p] = "rollback" /\ alive' = alive \ {who[p]} /\ stuck' = stuck
         \/ /\ pc'[p] = "commitAnyway" /\ alive' = alive /\ who[p] \in alive
            /\ stuck' = stuck \cup {who[p]}
      /\ UNCHANGED <<exits, pending, fibers, born, seqHigh, entry>>
  BY <1>0, Shapes DEF CloneAuditFails, CloneReleaseFails, Goto
<1>2. /\ who[p] \notin born /\ who[p] \notin fibers
      /\ \A q \in Procs : pc[q] \in Reserving /\ q # p => who[q] # who[p]
  BY <1>1, ReservedApart DEF Reserving
<1>4. SeqsStand
  BY <1>0, <1>1, SeqsSame
<1> USE DEF Fates, Mine
<1>5. WasBorn'
  BY <1>1 DEF WasBorn, OfFibers
<1>6. Minted'
  BY <1>1, <1>4, MintedKept DEF Seen
<1>7. Unborn'
  BY <1>1 DEF Unborn, Seen
<1>8. Dead'
  BY <1>1 DEF Dead, Ended
<1>9. Watched'
  BY <1>1, <1>2 DEF Watched, Seen, Reserving
<1>10. NoProcessLost'
  BY <1>1 DEF NoProcessLost
<1>11. DeadAreNoticed'
  BY <1>1, <1>2 DEF DeadAreNoticed
<1> QED BY <1>5, <1>6, <1>7, <1>8, <1>9, <1>10, <1>11

\* A clone without a process drops the exit that may be held for its fiber; a
\* refused one has its process to release.
LEMMA FatesDropsExit ==
    ASSUME IInv, TypeOK', Fates, NEW p \in Procs, Mine(p),
           CloneRollBack(p) \/ CloneRefused(p) \/ CloneRefusedAnyway(p)
    PROVE  Fates'
<1>0. TypeOK
  BY DEF IInv
<1>1. /\ pc[p] \in {"audit", "rollback", "commitAnyway"}
      /\ \/ pc[p] = "audit" /\ pc'[p] = "refused" /\ who'[p] = who[p]
         \/ pc[p] # "audit" /\ pc'[p] \in {"idle", "drain"}
      /\ pending' = pending \ {who[p]}
      /\ UNCHANGED <<exits, alive, stuck, fibers, born, seqHigh>>
  BY <1>0, Shapes DEF CloneRollBack, CloneRefused, CloneRefusedAnyway, Goto, Unlock, Return
<1>2. /\ who[p] \in Fiber
      /\ \A q \in Procs : pc[q] \in Reserving /\ q # p => who[q] # who[p]
  BY <1>1, ReservedApart DEF Reserving
<1>3. entry' = entry \/ entry' = ReturnSlot(who[p])
  BY DEF CloneRollBack, CloneRefused, CloneRefusedAnyway, Unlock
<1>4. SeqsStand
  BY <1>0, <1>1, <1>2, <1>3, SeqsSame, SlotType
<1> USE DEF Fates, Mine
<1>5. WasBorn'
  BY <1>1 DEF WasBorn, OfFibers
<1>6. Minted'
  BY <1>1, <1>4, MintedKept DEF Seen
<1>7. Unborn'
  BY <1>1 DEF Unborn, Seen
<1>8. Dead'
  BY <1>1 DEF Dead, Ended
<1>9. Watched'
  BY <1>1, <1>2 DEF Watched, Seen, Reserving
<1>10. NoProcessLost'
  BY <1>1 DEF NoProcessLost, Dead
<1>11. DeadAreNoticed'
  BY <1>1 DEF DeadAreNoticed
<1> QED BY <1>5, <1>6, <1>7, <1>8, <1>9, <1>10, <1>11

\* The commit takes over the exit that is held for its fiber.
LEMMA FatesCommit ==
    ASSUME IInv, TypeOK', Fates, NEW p \in Procs, Mine(p),
           CloneCommit(p) \/ CloneCommitAnyway(p)
    PROVE  Fates'
<1>0. TypeOK
  BY DEF IInv
<1>1. /\ pc[p] \in {"audit", "commitAnyway"} /\ pc'[p] \in {"committed", "internal"}
      /\ who'[p] = who[p] /\ flag'[p] = (who[p] \in pending)
      /\ pending' = pending \ {who[p]} /\ fibers' = fibers \cup {who[p]}
      /\ born' = born \cup {who[p]}
      /\ UNCHANGED <<exits, alive, stuck, seqHigh, entry>>
  BY <1>0, Shapes DEF CloneCommit, CloneCommitAnyway, Commit, Goto
<1>2. \A q \in Procs : pc[q] \in Reserving /\ q # p => who[q] # who[p]
  BY <1>1, ReservedApart DEF Reserving
<1>4. SeqsStand
  BY <1>0, <1>1, SeqsSame
<1> USE DEF Fates, Mine
<1>5. WasBorn'
  BY <1>1 DEF WasBorn
<1>6. Minted'
  BY <1>1, <1>4, MintedKept DEF Seen
<1>7. Unborn'
  BY <1>1 DEF Unborn, Seen
<1>8. Dead'
  BY <1>1 DEF Dead, Ended
<1>9. Watched'
  BY <1>1, <1>2 DEF Watched, Seen, Reserving
<1>10. NoProcessLost'
  BY <1>1 DEF NoProcessLost, Dead
<1>11. DeadAreNoticed'
  <2>1. who[p] \in alive \/ who[p] \in exits \cup stuck \/ who[p] \in pending
    BY <1>1 DEF Watched, Seen
  <2>2. who[p] \in pending => flag'[p]
    BY <1>1
  <2>3. ASSUME NEW h \in fibers \ alive
        PROVE  \/ h \in exits \cup stuck
               \/ \E q \in Procs : /\ q # p /\ who[q] = h
                                   /\ \/ pc[q] \in {"parked", "released", "swept"}
                                      \/ pc[q] \in {"committed", "internal"} /\ flag[q]
    BY <1>1 DEF DeadAreNoticed
  <2> QED BY <1>1, <2>1, <2>2, <2>3 DEF DeadAreNoticed
<1> QED BY <1>5, <1>6, <1>7, <1>8, <1>9, <1>10, <1>11

\* A refused fiber is released.
LEMMA FatesSwept ==
    ASSUME IInv, TypeOK', Fates, NEW p \in Procs, Mine(p), CloneSwept(p)
    PROVE  Fates'
<1>0. TypeOK
  BY DEF IInv
<1>1. /\ pc[p] = "refused" /\ pc'[p] \in {"idle", "drain"}
      /\ \/ alive' = alive \ {who[p]} /\ stuck' = stuck
         \/ who[p] \in alive /\ alive' = alive /\ stuck' = stuck \cup {who[p]}
      /\ UNCHANGED <<exits, pending, fibers, born, seqHigh>>
  BY <1>0, Shapes DEF CloneSwept, RuntimeRelease, Unlock, Return
<1>2. /\ who[p] \in Fiber /\ who[p] \notin born /\ who[p] \notin fibers
      /\ \A q \in Procs : pc[q] \in Reserving /\ q # p => who[q] # who[p]
  BY <1>1, ReservedApart DEF Reserving
<1>3. entry' = ReturnSlot(who[p])
  BY DEF CloneSwept, Unlock
<1>4. SeqsStand
  BY <1>0, <1>1, <1>2, <1>3, SeqsSame, SlotType
<1> USE DEF Fates, Mine
<1>5. WasBorn'
  BY <1>1 DEF WasBorn, OfFibers
<1>6. Minted'
  BY <1>1, <1>4, MintedKept DEF Seen
<1>7. Unborn'
  BY <1>1 DEF Unborn, Seen
<1>8. Dead'
  BY <1>1 DEF Dead, Ended
<1>9. Watched'
  BY <1>1, <1>2 DEF Watched, Seen, Reserving
<1>10. NoProcessLost'
  BY <1>1 DEF NoProcessLost
<1>11. DeadAreNoticed'
  BY <1>1, <1>2 DEF DeadAreNoticed
<1> QED BY <1>5, <1>6, <1>7, <1>8, <1>9, <1>10, <1>11

\* A fiber whose process is gone, or whose release failed, leaves the ledger,
\* or its exit is held because the ledger does not have it.
LEMMA FatesGone ==
    ASSUME IInv, TypeOK', Fates, SeqsStand, NEW f \in Fiber, f \notin alive \ stuck,
           fibers' = fibers \ {f}, UNCHANGED <<alive, stuck, born>>,
           \/ pending' = pending /\ exits' = exits
           \/ pending' = pending /\ exits' = exits \ {f} /\ f \in fibers
           \/ /\ pending' = pending \cup {f} /\ f \notin alive /\ f \in exits \cup born
              /\ exits' = exits \/ exits' = exits \ {f},
           \A q \in Procs :
              \/ pc'[q] = pc[q] /\ who'[q] = who[q] /\ flag'[q] = flag[q]
              \/ /\ pc[q] \in OfFibers /\ (Ended(q) => who[q] = f)
                 /\ pc'[q] \in {"idle", "drain", "sweep"}
    PROVE  Fates'
<1>1. \A q \in Procs : pc[q] \in Reserving => who[q] \notin born /\ who[q] \notin fibers
  BY ReservedApart
<1> USE DEF Fates
<1>5. WasBorn'
  BY DEF WasBorn, OfFibers
<1>6. Minted'
  BY MintedKept DEF Seen
<1>7. Unborn'
  BY <1>1 DEF Unborn, Seen, Reserving
<1>8. Dead'
  BY DEF Dead, Ended
<1>9. Watched'
  BY <1>1 DEF Watched, Seen, Reserving
<1>10. NoProcessLost'
  BY DEF NoProcessLost, OfFibers
<1>11. DeadAreNoticed'
  BY DEF DeadAreNoticed, Ended
<1> QED BY <1>5, <1>6, <1>7, <1>8, <1>9, <1>10, <1>11

\* What onGone does to the fibers.
LEMMA GoneFibers ==
    ASSUME IInv, NEW f \in Fiber, NEW b \in BOOLEAN, OnGone(f, b), seqHigh' = seqHigh
    PROVE  fibers' = fibers \ {f} /\ SeqsStand
<1>1. fibers' = fibers \ {f}
  BY DEF OnGone
<1>2. \A u \in Grants : entry'[u].on = entry[u].on /\ entry'[u].next = entry[u].next
  BY OnGoneKeeps
<1> QED BY <1>1, <1>2, SeqsSame DEF IInv

\* An operation records that its fiber is gone.
LEMMA FatesRecord ==
    ASSUME IInv, TypeOK', Fates, NEW p \in Procs, Mine(p),
           \/ ParkRecord(p) \/ ReleaseRecord(p) \/ SweepRecord(p)
           \/ CloneDone(p) /\ flag[p]
    PROVE  Fates'
<1>0. TypeOK
  BY DEF IInv
<1>1. /\ Ended(p) /\ pc[p] \in OfFibers /\ pc'[p] \in {"idle", "drain", "sweep"}
      /\ UNCHANGED <<alive, exits, stuck, born, seqHigh>>
  BY <1>0, Shapes DEF ParkRecord, ReleaseRecord, SweepRecord, CloneDone, Goto, Return,
                      Ended, OfFibers
<1>2. who[p] \in Fiber /\ who[p] \in born /\ who[p] \notin alive \ stuck
  BY <1>0, <1>1 DEF Fates, Dead, WasBorn, TypeOK
<1>3. fibers' = fibers \ {who[p]} /\ SeqsStand
  <2>1. CASE ParkRecord(p)
    <3>1. fibers' = fibers \ {who[p]}
      BY <2>1 DEF ParkRecord
    <3>2. entry' = entry \/ entry' = FreeSlot(who[p].g)
      BY <2>1 DEF ParkRecord
    <3> QED BY <1>0, <1>1, <1>2, <3>1, <3>2, SeqsSame, SlotType
  <2>2. CASE ReleaseRecord(p) \/ SweepRecord(p) \/ (CloneDone(p) /\ flag[p])
    <3>1. \E b \in BOOLEAN : OnGone(who[p], b)
      BY <1>0, <2>2, Shapes DEF ReleaseRecord, SweepRecord, CloneDone
    <3> QED BY <1>1, <1>2, <3>1, GoneFibers
  <2> QED BY <2>1, <2>2
<1>4. \/ pending' = pending
      \/ pending' = pending \cup {who[p]} /\ who[p] \notin alive
  BY DEF ParkRecord, ReleaseRecord, SweepRecord, CloneDone, Fates, Dead
<1> QED BY <1>1, <1>2, <1>3, <1>4, FatesGone DEF Mine

\* Core.OnExit: the fiber leaves the ledger, or its exit is held.
LEMMA FatesExit ==
    ASSUME IInv, TypeOK', Fates, NEW f \in exits, OnExit(f)
    PROVE  Fates'
<1>1. f \in Fiber /\ f \notin alive /\ OnGone(f, TRUE)
  BY DEF IInv, TypeOK, OnExit, Fates, Dead
<1>2. /\ UNCHANGED <<alive, stuck, born, seqHigh, pc, who, flag>> /\ exits' = exits \ {f}
      /\ pending' = IF f \in fibers THEN pending ELSE pending \cup {f}
  BY DEF OnExit
<1>3. fibers' = fibers \ {f} /\ SeqsStand
  BY <1>1, <1>2, GoneFibers
<1> QED BY <1>1, <1>2, <1>3, FatesGone

\* A process dies on its own: its exit is reported, or its release had failed.
LEMMA FatesDie ==
    ASSUME IInv, TypeOK', Fates, NEW f \in alive, Die(f)
    PROVE  Fates'
<1>1. /\ alive' = alive \ {f}
      /\ exits' = exits \cup {f} \/ (f \in stuck /\ exits' = exits)
      /\ UNCHANGED <<pending, stuck, fibers, born, entry, seqHigh, pc, who, flag>>
  BY DEF Die
<1>4. SeqsStand
  BY <1>1, SeqsSame DEF IInv
<1> USE DEF Fates
<1>5. WasBorn'
  BY <1>1 DEF WasBorn
<1>6. Minted'
  BY <1>1, <1>4, MintedKept DEF Seen
<1>7. Unborn'
  BY <1>1 DEF Unborn, Seen
<1>8. Dead'
  BY <1>1 DEF Dead, Ended
<1>9. Watched'
  BY <1>1 DEF Watched, Seen
<1>10. NoProcessLost'
  BY <1>1 DEF NoProcessLost
<1>11. DeadAreNoticed'
  BY <1>1 DEF DeadAreNoticed
<1> QED BY <1>5, <1>6, <1>7, <1>8, <1>9, <1>10, <1>11

\* A goroutine ends the process of a recorded fiber, and has still to record
\* that; or its release failed.
LEMMA FatesEnding ==
    ASSUME IInv, TypeOK', Fates, NEW p \in Procs, Mine(p), NEW f \in born,
           pc[p] \in {"idle", "drain", "sweep", "park"},
           UNCHANGED <<exits, pending, fibers, born, seqHigh, entry>>,
           \/ alive' = alive \ {f} /\ stuck' = stuck
           \/ f \in alive /\ alive' = alive /\ stuck' = stuck \cup {f},
           \/ pc'[p] \in {"parked", "released", "swept"} /\ who'[p] = f
           \/ pc'[p] \in {"idle", "drain"} /\ f \in stuck'
    PROVE  Fates'
<1>1. \A q \in Procs : pc[q] \in Reserving => who[q] # f
  BY ReservedApart
<1>4. SeqsStand
  BY SeqsSame DEF IInv
<1> USE DEF Fates, Mine
<1>5. WasBorn'
  BY DEF WasBorn, OfFibers
<1>6. Minted'
  BY <1>4, MintedKept DEF Seen
<1>7. Unborn'
  BY DEF Unborn, Seen
<1>8. Dead'
  BY DEF Dead, Ended
<1>9. Watched'
  BY <1>1 DEF Watched, Seen, Reserving
<1>10. NoProcessLost'
  BY DEF NoProcessLost
<1>11. DeadAreNoticed'
  BY DEF DeadAreNoticed
<1> QED BY <1>5, <1>6, <1>7, <1>8, <1>9, <1>10, <1>11

\* Release's call of the runtime, from Release or from Drain.
LEMMA FatesRelease ==
    ASSUME IInv, TypeOK', Fates, NEW p \in Procs, Mine(p), NEW f \in fibers, NEW b \in BOOLEAN,
           BeginRelease(p, f, b), pc[p] \in {"idle", "drain"},
           UNCHANGED <<pending, born, ledgerVars>>
    PROVE  Fates'
<1>0. TypeOK /\ f \in born
  BY DEF IInv, FibersBorn
<1>1. /\ \/ alive' = alive \ {f} /\ stuck' = stuck
         \/ f \in alive /\ alive' = alive /\ stuck' = stuck \cup {f}
      /\ exits' = exits
  BY DEF BeginRelease, RuntimeRelease
<1>2. \/ pc'[p] = "released" /\ who'[p] = f
      \/ pc'[p] \in {"idle", "drain"} /\ f \in stuck'
  BY <1>0, Shapes DEF BeginRelease, Goto, Return
<1>3. UNCHANGED <<exits, pending, fibers, born, seqHigh, entry>>
  BY <1>1
<1> QED BY <1>0, <1>1, <1>2, <1>3, FatesEnding

\* Every step of a clone keeps track of its process.
LEMMA FatesClone ==
    ASSUME IInv, TypeOK', Fates, NEW p \in Procs, Mine(p), CloneStep(p)
    PROVE  Fates'
<1>0. TypeOK
  BY DEF IInv
<1>1. CASE CloneHold(p) \/ CloneReturns(p) \/ CloneNotBorn(p) \/ (CloneDone(p) /\ ~flag[p])
  <2>1. /\ UNCHANGED <<alive, exits, pending, stuck, fibers, born, seqHigh>>
        /\ \/ pc[p] \in {"hold", "resolve", "birth"}
           \/ pc[p] \in {"committed", "internal"} /\ ~flag[p]
        /\ pc'[p] \in {"resolve", "idle", "drain"}
    BY <1>0, <1>1, Shapes DEF CloneHold, CloneReturns, CloneNotBorn, CloneDone, Unlock, Return, Goto
  <2>2. SeqsStand
    <3>1. entry' = entry \/ (who[p] \in Fiber /\ entry' = ReturnSlot(who[p]))
      BY <1>1 DEF CloneHold, CloneReturns, CloneNotBorn, CloneDone, Unlock, IInv, InHand
    <3> QED BY <1>0, <2>1, <3>1, SeqsSame, SlotType
  <2>3. \A q \in Procs : Harmless(q)
    BY <2>1 DEF Harmless, Mine, Reserving, OfFibers, Ended
  <2> QED BY <2>1, <2>2, <2>3, FatesQuiet
<1> QED BY <1>1, FatesResolve, FatesBirth, FatesAuditFails, FatesDropsExit, FatesCommit,
           FatesSwept, FatesRecord DEF CloneStep

\* So does every step of Park, Release, a sweep and a drain.
LEMMA FatesStep ==
    ASSUME IInv, TypeOK', Fates, NEW p \in Procs, Mine(p),
           ParkStep(p) \/ ReleaseRecord(p) \/ SweepStep(p) \/ DrainStep(p)
    PROVE  Fates'
<1>0. TypeOK /\ FibersBorn
  BY DEF IInv
<1>1. CASE \/ ParkHold(p) \/ ParkFails(p) \/ SweepList(p) \/ SweepDone(p)
           \/ DrainList(p) \/ DrainDone(p)
  <2>1. /\ UNCHANGED <<alive, exits, pending, stuck, fibers, born, seqHigh, entry>>
        /\ pc[p] \in {"parkHold", "park", "listYield", "listBump", "sweep", "drain"}
        /\ \/ pc'[p] \in {"idle", "drain", "sweep"}
           \/ pc[p] = "parkHold" /\ pc'[p] = "park" /\ who'[p] = who[p]
    BY <1>0, <1>1, Shapes DEF ParkHold, ParkFails, SweepList, SweepDone, DrainList, DrainDone,
                              Return, Goto
  <2>2. SeqsStand
    BY <1>0, <2>1, SeqsSame
  <2>3. \A q \in Procs : Harmless(q)
    BY <2>1 DEF Harmless, Mine, Reserving, OfFibers, Ended, Fates, WasBorn
  <2> QED BY <2>1, <2>2, <2>3, FatesQuiet
<1>2. CASE ParkDumped(p)
  <2>1. /\ pc[p] = "park" /\ pc'[p] = "parked" /\ who'[p] = who[p]
        /\ alive' = alive \ {who[p]} /\ stuck' = stuck
        /\ UNCHANGED <<exits, pending, fibers, born, seqHigh, entry>>
    BY <1>0, <1>2, Shapes DEF ParkDumped, Goto
  <2>2. who[p] \in born
    BY <2>1 DEF Fates, WasBorn, OfFibers
  <2> QED BY <2>1, <2>2, FatesEnding
<1>3. CASE SweepRelease(p)
  <2>1. PICK f \in todo[p] \cap fibers : RuntimeRelease(f, FALSE) /\ who' = [who EXCEPT ![p] = f]
    BY <1>3 DEF SweepRelease
  <2>2. /\ pc[p] = "sweep" /\ pc'[p] = "swept" /\ who'[p] = f /\ f \in born
        /\ UNCHANGED <<exits, pending, fibers, born, seqHigh, entry>>
        /\ \/ alive' = alive \ {f} /\ stuck' = stuck
           \/ f \in alive /\ alive' = alive /\ stuck' = stuck \cup {f}
    BY <1>0, <1>3, <2>1, Shapes DEF SweepRelease, RuntimeRelease, Goto, FibersBorn
  <2> QED BY <2>2, FatesEnding
<1>4. CASE DrainOne(p)
  <2>1. PICK f \in todo[p] :
           \/ BeginPark(p, f) /\ UNCHANGED <<runtimeVars, src, flag>>
           \/ BeginRelease(p, f, FALSE)
           \/ UNCHANGED <<runtimeVars, pc, who, src, flag>>
    BY <1>4 DEF DrainOne
  <2>2. pc[p] = "drain" /\ UNCHANGED <<ledgerVars, pending, born>>
    BY <1>4 DEF DrainOne
  <2>3. CASE BeginRelease(p, f, FALSE)
    <3>1. f \in fibers
      BY <2>3 DEF BeginRelease
    <3> QED BY <2>2, <2>3, <3>1, FatesRelease
  <2>4. CASE \/ BeginPark(p, f) /\ UNCHANGED <<runtimeVars, src, flag>>
             \/ UNCHANGED <<runtimeVars, pc, who, src, flag>>
    <3>1. /\ UNCHANGED <<alive, exits, stuck>>
          /\ \/ pc'[p] = "parkHold" /\ who'[p] \in born
             \/ pc'[p] = pc[p] /\ who'[p] = who[p] /\ flag'[p] = flag[p]
      BY <1>0, <2>4, Shapes DEF BeginPark, Goto, FibersBorn
    <3>2. SeqsStand
      BY <1>0, <2>2, SeqsSame
    <3>3. \A q \in Procs : Harmless(q)
      BY <2>2, <3>1 DEF Harmless, Mine, Reserving, OfFibers, Ended
    <3> QED BY <2>2, <3>1, <3>2, <3>3, FatesQuiet
  <2> QED BY <2>1, <2>3, <2>4
<1> QED BY <1>1, <1>2, <1>3, <1>4, FatesRecord DEF ParkStep, SweepStep, DrainStep

\* So does every call that arrives.
LEMMA FatesCall ==
    ASSUME IInv, TypeOK', Fates, NEW p \in Procs, Mine(p), Call(p)
    PROVE  Fates'
<1>0. TypeOK /\ FibersBorn
  BY DEF IInv
<1>1. ASSUME NEW f \in fibers, NEW b \in BOOLEAN, ReleaseStart(p, f, b) PROVE Fates'
  <2>1. BeginRelease(p, f, b) /\ pc[p] = "idle" /\ UNCHANGED <<pending, born, ledgerVars>>
    BY <1>1 DEF ReleaseStart
  <2> QED BY <2>1, FatesRelease
<1>2. ASSUME \/ \E u \in Grants, n \in Names \cup {Anon} : CloneStart(p, u, n)
             \/ \E f \in fibers : ParkStart(p, f)
             \/ \E u \in Grants : Yield(p, u)
             \/ BumpEpoch(p) \/ DrainStart(p)
      PROVE  Fates'
  <2>1. /\ UNCHANGED <<alive, exits, pending, stuck, fibers, born>>
        /\ pc[p] = "idle"
        /\ \/ pc'[p] \in {"resolve", "hold", "listYield", "listBump", "drain"}
           \/ pc'[p] = "parkHold" /\ who'[p] \in born
    BY <1>0, <1>2, Shapes
    DEF CloneStart, ParkStart, BeginPark, Yield, BumpEpoch, DrainStart, Goto, FibersBorn
  <2>2. SeqsStand
    <3>1. CASE UNCHANGED <<entry, seqHigh>>
      BY <1>0, <3>1, SeqsSame
    <3>2. ASSUME NEW u \in Grants, Yield(p, u) PROVE SeqsStand
      BY <1>0, <3>2 DEF Yield, SeqsStand, SeqTop, TypeOK
    <3> QED BY <1>2, <3>1, <3>2 DEF CloneStart, ParkStart, BumpEpoch, DrainStart
  <2>3. \A q \in Procs : Harmless(q)
    BY <2>1 DEF Harmless, Mine, Reserving, OfFibers, Ended
  <2> QED BY <2>1, <2>2, <2>3, FatesQuiet
<1> QED BY <1>1, <1>2 DEF Call

\* Every step of the home keeps track of every process.
LEMMA FatesNext ==
    ASSUME IInv, Fates, [Next]_vars
    PROVE  Fates'
<1>0. TypeOK' /\ TypeOK
  BY TypeNext DEF IInv
<1>1. ASSUME NEW p \in Procs, Call(p) \/ Step(p) PROVE Fates'
  BY <1>0, <1>1, OthersStill, FatesCall, FatesClone, FatesStep DEF Step
<1>2. ASSUME NEW u \in Grants, AdmitGrant(u) PROVE Fates'
  <2>1. UNCHANGED <<alive, exits, pending, stuck, fibers, born, pc, who, flag>>
    BY <1>2 DEF AdmitGrant
  <2>2. SeqsStand
    BY <1>0, <1>2 DEF AdmitGrant, SeqsStand, SeqTop, TypeOK
  <2> QED BY <1>0, <2>1, <2>2, FatesQuiet DEF Harmless
<1>3. CASE UNCHANGED vars \/ \E k \in Keys : Discard(k)
  <2>1. UNCHANGED <<alive, exits, pending, stuck, fibers, born, pc, who, flag, entry, seqHigh>>
    BY <1>3 DEF vars, Discard
  <2>2. SeqsStand
    BY <1>0, <2>1, SeqsSame
  <2> QED BY <1>0, <2>1, <2>2, FatesQuiet DEF Harmless
<1> QED BY <1>0, <1>1, <1>2, <1>3, FatesDie, FatesExit DEF Next

\* Through every interleaving, failure and death, each process is accounted
\* for.
THEOREM CoreFates == Spec => [](IInv /\ Fates)
<1>1. Init => Fates
  BY DEF Init, Fates, WasBorn, Minted, Unborn, Dead, Ended, Watched, Seen, OfFibers,
         NoProcessLost, DeadAreNoticed
<1>2. IInv /\ Fates /\ [Next]_vars => Fates'
  BY FatesNext
<1> QED BY <1>1, <1>2, CoreInvariant, PTL DEF Spec

\* A process that runs is recorded, or a clone has it in hand, or its release
\* failed.
THEOREM CoreNoProcessLost == Spec => []NoProcessLost
<1>1. Fates => NoProcessLost
  BY DEF Fates
<1> QED BY <1>1, CoreFates, PTL

\* A recorded fiber whose process is gone is about to leave the ledger.
THEOREM CoreDeadAreNoticed == Spec => []DeadAreNoticed
<1>1. Fates => DeadAreNoticed
  BY DEF Fates
<1> QED BY <1>1, CoreFates, PTL

\* Of one session at most one process runs, but for one whose release failed.
THEOREM CoreOneProcess == Spec => []OneProcess
<1>1. IInv /\ Fates => OneProcess
  <2> SUFFICES ASSUME IInv, Fates, NEW f \in alive \ stuck, NEW h \in alive \ stuck,
                      Named(f), Key(f) = Key(h)
               PROVE  f = h
    BY DEF OneProcess
  <2>1. Named(h) /\ Key(f) \in Keys
    BY KeyType DEF Named, Key, IInv, TypeOK
  <2>2. \A x \in {f, h} : \/ x \in fibers
                          \/ \E p \in Procs : who[p] = x /\ pc[p] \in {"audit", "refused"}
    BY DEF Fates, NoProcessLost
  <2>3. ASSUME NEW x \in {f, h}, NEW p \in Procs, who[p] = x, pc[p] \in {"audit", "refused"}
        PROVE  gate[Key(f)] = p /\ sessions[Key(f)].st # "running"
    BY <2>1, <2>3 DEF IInv, GateHeld, ResolveStands, Holding, Reserving
  <2>4. \A x \in {f, h} : x \in fibers => sessions[Key(f)].st = "running" /\ sessions[Key(f)].f = x
    BY <2>1 DEF IInv, SessionRunsOnce
  <2> QED BY <2>2, <2>3, <2>4
<1> QED BY <1>1, CoreFates, PTL
-----------------------------------------------------------------------------
(* Revocations, epochs and drains *)

\* No fence is of an epoch to come.
EpochBound ==
    /\ \A f \in fibers : f.e <= epoch
    /\ \A p \in Procs : pc[p] \in Reserving => who[p].e <= epoch

Sweeps == EpochBound /\ NoneEscapes /\ DrainCoversAll

\* A fiber that no admission, or an older epoch, stands for.
Outlived(f) == ~entry[f.g].on \/ entry[f.g].inc # f.inc \/ f.e # epoch

Visited(f) == \E p \in Procs : WillVisit(p, f)

\* A step that admits no outlived fiber, and lets no sweep lose one.
LEMMA SweepsKept ==
    ASSUME IInv, TypeOK', Sweeps, epoch <= epoch',
           \A q \in Procs : pc'[q] \in Reserving =>
              who'[q].e <= epoch' \/ (pc[q] \in Reserving /\ who'[q] = who[q]),
           \A f \in fibers' \ fibers : ~Outlived(f)' /\ drain' # "done",
           \A f \in fibers' \cap fibers :
              /\ Outlived(f)' => Outlived(f) \/ Visited(f)'
              /\ Visited(f) => Visited(f)'
              /\ drain' = "done" =>
                    (drain = "done" /\ tried \subseteq tried') \/ f \in tried' \/ Visited(f)'
    PROVE  Sweeps'
<1>1. EpochBound'
  <2>1. \A f \in Fiber : f.e \in Nat
    BY DEF Fiber
  <2>2. epoch \in Nat /\ epoch' \in Nat /\ fibers \subseteq Fiber /\ fibers' \subseteq Fiber
    BY DEF IInv, TypeOK
  <2>3. ASSUME NEW f \in fibers' PROVE f.e <= epoch'
    BY <2>1, <2>2 DEF Sweeps, EpochBound, Outlived
  <2>4. ASSUME NEW q \in Procs, pc'[q] \in Reserving PROVE who'[q].e <= epoch'
    <3>1. pc[q] \in Reserving => who[q] \in Fiber
      BY DEF IInv, InHand, Reserving
    <3> QED BY <2>1, <2>2, <2>4, <3>1 DEF Sweeps, EpochBound
  <2> QED BY <2>3, <2>4 DEF EpochBound
<1>2. NoneEscapes'
  BY DEF Sweeps, NoneEscapes, Outlived, Visited
<1>3. DrainCoversAll'
  BY DEF Sweeps, DrainCoversAll, Visited
<1> QED BY <1>1, <1>2, <1>3 DEF Sweeps

\* A goroutine that is no sweep, or a sweep that goes on, in a step that adds
\* no fiber and changes no admission and no epoch.
LEMMA SweepsQuiet ==
    ASSUME IInv, TypeOK', Sweeps, NEW p \in Procs, Mine(p),
           epoch' = epoch, fibers' \subseteq fibers,
           \A u \in Grants : entry'[u].on = entry[u].on /\ entry'[u].inc = entry[u].inc,
           drain' = "done" => drain = "done", tried \subseteq tried',
           pc'[p] \in Reserving =>
              who'[p].e <= epoch \/ (pc[p] \in Reserving /\ who'[p] = who[p]),
           \A f \in fibers' : WillVisit(p, f) => WillVisit(p, f)'
    PROVE  Sweeps'
<1>1. \A f \in fibers' : Visited(f) => Visited(f)'
  <2> SUFFICES ASSUME NEW f \in fibers', NEW q \in Procs, WillVisit(q, f)
               PROVE  Visited(f)'
    BY DEF Visited
  <2>1. WillVisit(q, f)'
    BY DEF Mine, WillVisit
  <2> QED BY <2>1 DEF Visited
<1>2. \A f \in fibers' : f.g \in Grants /\ (Outlived(f)' => Outlived(f))
  BY DEF TypeOK, Fiber, Outlived
<1>3. epoch \in Nat
  BY DEF IInv, TypeOK
<1> QED BY <1>1, <1>2, <1>3, SweepsKept DEF Mine

\* A goroutine that sweeps nothing.
NoSweep(p) == pc[p] \notin {"listYield", "listBump", "sweep", "swept"}

\* onGone and OnPark take a fiber off and free its slot.
LEMMA SlotStands ==
    ASSUME TypeOK, NEW f \in Fiber,
           entry' = entry \/ entry' = FreeSlot(f.g) \/ entry' = ReturnSlot(f)
    PROVE  \A u \in Grants : entry'[u].on = entry[u].on /\ entry'[u].inc = entry[u].inc
BY SlotType

\* A clone's steps: a commit is of a fiber whose admission and epoch stand,
\* before any drain.
LEMMA SweepsClone ==
    ASSUME IInv, TypeOK', Sweeps, NEW p \in Procs, Mine(p), CloneStep(p)
    PROVE  Sweeps'
<1>0. TypeOK /\ InHand
  BY DEF IInv
<1>1. CASE CloneCommit(p) \/ CloneCommitAnyway(p)
  <2>1. /\ pc[p] \in {"audit", "commitAnyway"} /\ pc'[p] \in {"committed", "internal"}
        /\ MayCommit(who[p]) /\ fibers' = fibers \cup {who[p]}
        /\ UNCHANGED <<epoch, entry, drain, tried>>
    BY <1>0, <1>1, Shapes DEF CloneCommit, CloneCommitAnyway, Commit, Goto
  <2>2. \A f \in fibers : Visited(f) => Visited(f)'
    <3> SUFFICES ASSUME NEW f \in fibers, NEW q \in Procs, WillVisit(q, f)
                 PROVE  Visited(f)'
      BY DEF Visited
    <3>1. WillVisit(q, f)'
      BY <2>1 DEF Mine, WillVisit
    <3> QED BY <3>1 DEF Visited
  <2>3. \A f \in fibers' : Outlived(f)' <=> Outlived(f)
    BY <2>1 DEF Outlived
  <2>4. \A f \in fibers' \ fibers : ~Outlived(f)' /\ drain' # "done"
    BY <2>1, <2>3 DEF MayCommit, Outlived, Draining
  <2>5. epoch \in Nat
    BY <1>0 DEF TypeOK
  <2>6. \A q \in Procs : pc'[q] \in Reserving => pc[q] \in Reserving /\ who'[q] = who[q]
    BY <2>1 DEF Mine, Reserving
  <2> QED BY <2>1, <2>2, <2>3, <2>4, <2>5, <2>6, SweepsKept
<1>2. CASE ~(CloneCommit(p) \/ CloneCommitAnyway(p))
  <2>1. NoSweep(p) /\ who[p] \in Fiber /\ UNCHANGED <<epoch, drain, tried>>
    BY <1>0, <1>2 DEF CloneStep, CloneHold, CloneReturns, CloneResolve, CloneBirth, CloneNotBorn,
       CloneAuditFails, CloneRollBack, CloneReleaseFails, CloneRefused, CloneRefusedAnyway,
       CloneSwept, CloneDone, NoSweep, InHand
  <2>2. fibers' \subseteq fibers
    BY <1>2 DEF CloneStep, CloneHold, CloneReturns, CloneResolve, CloneBirth, CloneNotBorn,
       CloneAuditFails, CloneRollBack, CloneReleaseFails, CloneRefused, CloneRefusedAnyway,
       CloneSwept, CloneDone, OnGone
  <2>3. \A u \in Grants : entry'[u].on = entry[u].on /\ entry'[u].inc = entry[u].inc
    <3>1. CASE CloneResolve(p)
      <4>1. who[p].g \in Grants
        BY <2>1 DEF Fiber
      <4> QED BY <1>0, <3>1, <4>1 DEF CloneResolve, TypeOK
    <3>2. CASE ~CloneResolve(p)
      <4>1. entry' = entry \/ entry' = FreeSlot(who[p].g) \/ entry' = ReturnSlot(who[p])
        BY <1>2, <3>2 DEF CloneStep, CloneHold, CloneReturns, CloneBirth, CloneNotBorn,
           CloneAuditFails, CloneRollBack, CloneReleaseFails, CloneRefused, CloneRefusedAnyway,
           CloneSwept, CloneDone, OnGone, Unlock
      <4> QED BY <1>0, <2>1, <4>1, SlotStands
    <3> QED BY <3>1, <3>2
  <2>4. pc'[p] \in Reserving => who'[p].e <= epoch \/ (pc[p] \in Reserving /\ who'[p] = who[p])
    <3>1. CASE CloneResolve(p)
      BY <1>0, <3>1, Shapes DEF CloneResolve, TypeOK
    <3>2. CASE CloneBirth(p) \/ CloneAuditFails(p) \/ CloneReleaseFails(p) \/ CloneRefused(p)
      BY <3>2 DEF CloneBirth, CloneAuditFails, CloneReleaseFails, CloneRefused, Reserving
    <3>3. CASE \/ CloneHold(p) \/ CloneReturns(p) \/ CloneNotBorn(p) \/ CloneRollBack(p)
               \/ CloneRefusedAnyway(p) \/ CloneSwept(p) \/ CloneDone(p)
      BY <1>0, <3>3, Shapes DEF CloneHold, CloneReturns, CloneNotBorn, CloneRollBack,
         CloneRefusedAnyway, CloneSwept, CloneDone, Unlock, Return, Goto, Reserving
    <3> QED BY <1>2, <3>1, <3>2, <3>3 DEF CloneStep
  <2> QED BY <2>1, <2>2, <2>3, <2>4, SweepsQuiet DEF NoSweep, WillVisit
<1> QED BY <1>1, <1>2

\* Park, Release and the sweeps: a sweep forgets a fiber only once it is gone.
LEMMA SweepsStep ==
    ASSUME IInv, TypeOK', Sweeps, NEW p \in Procs, Mine(p),
           ParkStep(p) \/ ReleaseRecord(p) \/ SweepStep(p)
    PROVE  Sweeps'
<1>0. TypeOK /\ InHand
  BY DEF IInv
<1>1. UNCHANGED <<epoch, drain, tried>>
  BY DEF ParkStep, ParkHold, ParkDumped, ParkFails, ParkRecord, ReleaseRecord, SweepStep,
         SweepList, SweepRelease, SweepRecord, SweepDone
<1>2. fibers' \subseteq fibers
  BY DEF ParkStep, ParkHold, ParkDumped, ParkFails, ParkRecord, ReleaseRecord, SweepStep,
         SweepList, SweepRelease, SweepRecord, SweepDone, OnGone
<1>3. \A u \in Grants : entry'[u].on = entry[u].on /\ entry'[u].inc = entry[u].inc
  <2>1. \/ entry' = entry
        \/ who[p] \in Fiber /\ entry' = FreeSlot(who[p].g)
    BY <1>0 DEF ParkStep, ParkHold, ParkDumped, ParkFails, ParkRecord, ReleaseRecord, SweepStep,
         SweepList, SweepRelease, SweepRecord, SweepDone, OnGone, InHand
  <2> QED BY <1>0, <2>1, SlotStands
<1>4. pc'[p] \notin Reserving
  <2>1. CASE ParkStep(p) \/ ReleaseRecord(p)
    BY <1>0, <2>1, Shapes DEF ParkStep, ParkHold, ParkDumped, ParkFails, ParkRecord,
                              ReleaseRecord, Return, Goto, Reserving
  <2>2. CASE SweepStep(p)
    BY <1>0, <2>2, Shapes DEF SweepStep, SweepList, SweepRelease, SweepRecord, SweepDone,
                              Return, Goto, Reserving
  <2> QED BY <2>1, <2>2
<1>5. ASSUME NEW f \in fibers', WillVisit(p, f) PROVE WillVisit(p, f)'
  <2>1. CASE ParkStep(p) \/ ReleaseRecord(p)
    BY <1>5, <2>1 DEF ParkStep, ParkHold, ParkDumped, ParkFails, ParkRecord, ReleaseRecord,
                      WillVisit
  <2>2. CASE SweepList(p)
    <3>1. pc'[p] = "sweep" /\ f \in todo'[p]
      BY <1>0, <1>2, <1>5, <2>2, Shapes DEF SweepList, Goto, WillVisit
    <3> QED BY <3>1 DEF WillVisit
  <2>3. CASE SweepRelease(p)
    <3>1. pc[p] = "sweep" /\ pc'[p] = "swept" /\ todo' = todo
      BY <1>0, <2>3, Shapes DEF SweepRelease, Goto
    <3> QED BY <1>5, <3>1 DEF WillVisit
  <2>4. CASE SweepRecord(p)
    <3>1. pc[p] = "swept" /\ pc'[p] = "sweep" /\ todo'[p] = todo[p] \ {who[p]}
      BY <1>0, <2>4, Shapes DEF SweepRecord, Goto
    <3>2. f # who[p]
      BY <2>4, <1>5 DEF SweepRecord, OnGone
    <3> QED BY <1>5, <3>1, <3>2 DEF WillVisit
  <2>5. CASE SweepDone(p)
    BY <1>2, <1>5, <2>5 DEF SweepDone, WillVisit
  <2> QED BY <2>1, <2>2, <2>3, <2>4, <2>5 DEF SweepStep
<1> QED BY <1>1, <1>2, <1>3, <1>4, <1>5, SweepsQuiet

\* Drain: it ends well only with a list that has nothing new, and what is not
\* listed then is outlived, so a Yield has it on its own list.
LEMMA SweepsDrain ==
    ASSUME IInv, TypeOK', Sweeps, NEW p \in Procs, Mine(p), DrainStep(p)
    PROVE  Sweeps'
<1>0. TypeOK
  BY DEF IInv
<1>1. /\ UNCHANGED <<epoch, entry, fibers>> /\ tried \subseteq tried' /\ pc[p] = "drain"
  BY DEF DrainStep, DrainList, DrainOne, DrainDone
<1>2. pc'[p] \notin Reserving
  BY <1>0, <1>1, Shapes DEF DrainStep, DrainList, DrainOne, DrainDone, BeginPark, BeginRelease,
     Return, Goto, Reserving
<1>3. CASE drain' = "done" => drain = "done"
  BY <1>1, <1>2, <1>3, SweepsQuiet DEF WillVisit
<1>4. CASE ~(drain' = "done" => drain = "done")
  <2>1. Listed = {} /\ tried' = tried
    BY <1>4 DEF DrainStep, DrainList, DrainOne, DrainDone
  <2>2. \A f \in fibers : Visited(f) => Visited(f)'
    <3> SUFFICES ASSUME NEW f \in fibers, NEW q \in Procs, WillVisit(q, f)
                 PROVE  Visited(f)'
      BY DEF Visited
    <3>1. WillVisit(q, f)'
      BY <1>1 DEF Mine, WillVisit
    <3> QED BY <3>1 DEF Visited
  <2>3. \A f \in fibers : f \in tried' \/ Visited(f)'
    BY <2>1, <2>2 DEF Listed, Sweeps, NoneEscapes, Visited
  <2>4. \A f \in fibers : Outlived(f)' <=> Outlived(f)
    BY <1>1 DEF Outlived
  <2>5. epoch \in Nat
    BY <1>0 DEF TypeOK
  <2>6. \A q \in Procs : pc'[q] \in Reserving => pc[q] \in Reserving /\ who'[q] = who[q]
    BY <1>2 DEF Mine
  <2> QED BY <1>1, <2>2, <2>3, <2>4, <2>5, <2>6, SweepsKept
<1> QED BY <1>3, <1>4

\* A call: a Yield revokes and has every fiber of the grant to visit, a
\* BumpEpoch moves and has every fiber of an older epoch.
LEMMA SweepsCall ==
    ASSUME IInv, TypeOK', Sweeps, NEW p \in Procs, Mine(p), Call(p)
    PROVE  Sweeps'
<1>0. TypeOK
  BY DEF IInv
<1>1. ASSUME \/ \E u \in Grants, n \in Names \cup {Anon} : CloneStart(p, u, n)
             \/ \E f \in fibers : ParkStart(p, f) \/ \E b \in BOOLEAN : ReleaseStart(p, f, b)
             \/ DrainStart(p)
      PROVE  Sweeps'
  <2>1. /\ UNCHANGED <<epoch, entry, fibers, tried>> /\ pc[p] = "idle"
        /\ drain' = "done" => drain = "done"
    BY <1>1 DEF CloneStart, ParkStart, ReleaseStart, DrainStart
  <2>2. pc'[p] \notin Reserving
    BY <1>0, <1>1, Shapes DEF CloneStart, ParkStart, ReleaseStart, DrainStart, BeginPark,
       BeginRelease, Return, Goto, Reserving
  <2> QED BY <2>1, <2>2, SweepsQuiet DEF WillVisit
<1>2. ASSUME UNCHANGED <<fibers, drain, tried>>, pc[p] = "idle", pc'[p] \notin Reserving,
             epoch <= epoch', \A f \in fibers : Outlived(f)' => Outlived(f) \/ WillVisit(p, f)'
      PROVE  Sweeps'
  <2>1. \A f \in fibers : Visited(f) => Visited(f)'
    <3> SUFFICES ASSUME NEW f \in fibers, NEW q \in Procs, WillVisit(q, f)
                 PROVE  Visited(f)'
      BY DEF Visited
    <3>1. WillVisit(q, f)'
      BY <1>2 DEF Mine, WillVisit
    <3> QED BY <3>1 DEF Visited
  <2>2. \A f \in fibers : WillVisit(p, f)' => Visited(f)'
    BY DEF Visited
  <2>3. \A q \in Procs : pc'[q] \in Reserving => pc[q] \in Reserving /\ who'[q] = who[q]
    BY <1>2 DEF Mine
  <2> QED BY <1>2, <2>1, <2>2, <2>3, SweepsKept
<1>3. ASSUME NEW u \in Grants, Yield(p, u) PROVE Sweeps'
  <2>1. /\ UNCHANGED <<epoch, fibers, drain, tried>> /\ pc[p] = "idle" /\ pc'[p] = "listYield"
        /\ who'[p] = Request(u, Anon)
    BY <1>0, <1>3, Shapes DEF Yield, Goto
  <2>2. \A v \in Grants : v # u => entry'[v] = entry[v]
    BY <1>0, <1>3 DEF Yield, TypeOK
  <2>3. who'[p].g = u
    BY <2>1 DEF Request
  <2>4. \A f \in fibers : f.g \in Grants
    BY <1>0 DEF TypeOK, Fiber
  <2>5. \A f \in fibers : Outlived(f)' => Outlived(f) \/ WillVisit(p, f)'
    BY <2>1, <2>2, <2>3, <2>4 DEF Outlived, WillVisit
  <2>6. epoch <= epoch'
    BY <1>0, <2>1 DEF TypeOK
  <2> QED BY <1>2, <2>1, <2>5, <2>6 DEF Reserving
<1>4. CASE BumpEpoch(p)
  <2>1. /\ UNCHANGED <<entry, fibers, drain, tried>> /\ pc[p] = "idle" /\ pc'[p] = "listBump"
        /\ who'[p] = Moved(epoch + 1) /\ epoch' = epoch + 1
    BY <1>0, <1>4, Shapes DEF BumpEpoch, Goto
  <2>2. epoch \in Nat /\ who'[p].e = epoch + 1
    BY <1>0, <2>1 DEF Moved, TypeOK
  <2>3. \A f \in fibers : f.e \in Nat
    BY <1>0 DEF TypeOK, Fiber
  <2>4. \A f \in fibers : f.e < who'[p].e
    BY <2>2, <2>3 DEF Sweeps, EpochBound
  <2>5. \A f \in fibers : Outlived(f)' => Outlived(f) \/ WillVisit(p, f)'
    BY <2>1, <2>4 DEF WillVisit
  <2>6. epoch <= epoch'
    BY <2>1, <2>2
  <2> QED BY <1>2, <2>1, <2>5, <2>6 DEF Reserving
<1> QED BY <1>1, <1>3, <1>4 DEF Call

\* Every step of the home leaves each outlived fiber to a sweep.
LEMMA SweepsNext ==
    ASSUME IInv, Sweeps, [Next]_vars
    PROVE  Sweeps'
<1>0. TypeOK' /\ TypeOK
  BY TypeNext DEF IInv
<1>1. ASSUME NEW p \in Procs, Call(p) \/ Step(p) PROVE Sweeps'
  BY <1>0, <1>1, OthersStill, SweepsCall, SweepsClone, SweepsStep, SweepsDrain DEF Step
<1>2. ASSUME UNCHANGED <<epoch, drain, tried, pc, who, todo>>, fibers' \subseteq fibers,
             \A f \in fibers' : Outlived(f)' => Outlived(f)
      PROVE  Sweeps'
  <2>1. \A f \in fibers' : Visited(f) => Visited(f)'
    BY <1>2 DEF Visited, WillVisit
  <2>2. epoch \in Nat
    BY <1>0 DEF TypeOK
  <2> QED BY <1>0, <1>2, <2>1, <2>2, SweepsKept
<1>3. ASSUME NEW u \in Grants, AdmitGrant(u) PROVE Sweeps'
  <2>1. /\ UNCHANGED <<epoch, drain, tried, pc, who, todo, fibers>> /\ ~entry[u].on
        /\ \A v \in Grants : v # u => entry'[v] = entry[v]
    BY <1>0, <1>3 DEF AdmitGrant, TypeOK
  <2>2. \A f \in fibers : f.g \in Grants
    BY <1>0 DEF TypeOK, Fiber
  <2>3. \A f \in fibers' : Outlived(f)' => Outlived(f)
    BY <2>1, <2>2 DEF Outlived
  <2> QED BY <1>2, <2>1, <2>3
<1>4. ASSUME NEW f \in exits, OnExit(f) PROVE Sweeps'
  <2>1. /\ UNCHANGED <<epoch, drain, tried, pc, who, todo>> /\ fibers' \subseteq fibers
        /\ f \in Fiber
        /\ entry' = entry \/ entry' = FreeSlot(f.g)
    BY <1>0, <1>4 DEF OnExit, OnGone, TypeOK
  <2>2. \A u \in Grants : entry'[u].on = entry[u].on /\ entry'[u].inc = entry[u].inc
    BY <1>0, <2>1, SlotStands
  <2>3. \A h \in fibers' : h.g \in Grants
    BY <1>0 DEF TypeOK, Fiber
  <2>4. \A h \in fibers' : Outlived(h)' => Outlived(h)
    BY <2>1, <2>2, <2>3 DEF Outlived
  <2> QED BY <1>2, <2>1, <2>4
<1>5. CASE UNCHANGED vars \/ (\E k \in Keys : Discard(k)) \/ \E f \in alive : Die(f)
  <2>1. UNCHANGED <<epoch, drain, tried, pc, who, todo, fibers, entry>>
    BY <1>5 DEF vars, Discard, Die
  <2> QED BY <1>2, <2>1 DEF Outlived
<1> QED BY <1>1, <1>3, <1>4, <1>5 DEF Next

\* The invariant of the revocations, the epoch moves and the drain.
THEOREM CoreSweeps == Spec => []Sweeps
<1>1. Init => Sweeps
  BY DEF Init, Sweeps, EpochBound, NoneEscapes, DrainCoversAll, Reserving
<1>2. IInv /\ Sweeps /\ [Next]_vars => Sweeps'
  BY SweepsNext
<1> QED BY <1>1, <1>2, CoreInvariant, PTL DEF Spec

\* A fiber whose grant was revoked, or whose epoch is over, is on the list of
\* a Yield or a BumpEpoch: none slips in between the two.
THEOREM CoreNoneEscapes == Spec => []NoneEscapes
<1>1. Sweeps => NoneEscapes
  BY DEF Sweeps
<1> QED BY <1>1, CoreSweeps, PTL

\* A drain that ended well tried every fiber that is left, or a Yield has it.
THEOREM CoreDrainCoversAll == Spec => []DrainCoversAll
<1>1. Sweeps => DrainCoversAll
  BY DEF Sweeps
<1> QED BY <1>1, CoreSweeps, PTL
-----------------------------------------------------------------------------
(* Deltas *)

\* A session's delta is the state of a fiber of its own, which no longer runs.
DeltaOf ==
    \A k \in Keys : sessions[k].d # NoFiber =>
        /\ sessions[k].d \in born /\ sessions[k].d \notin fibers
        /\ Key(sessions[k].d) = k

\* A Park that the runtime has answered has its delta, until it is recorded.
Dumped == \A p \in Procs : pc[p] = "parked" /\ who[p] \in fibers => who[p] \in deltas

Deltas == DeltaOf /\ Dumped /\ ParkedHasDelta

\* A Release with discard removes its fiber's own delta, without the session's
\* gate: it may take what a Park has just written.  It is the one call that
\* the invariant is without.
NoDiscardingRelease == "releaseDiscard" \notin Ops

\* Steps that leave the sessions alone and remove no delta.
LEMMA DeltasQuiet ==
    ASSUME Deltas, sessions' = sessions, born' = born, fibers' = fibers, deltas \subseteq deltas',
           \A q \in Procs : pc'[q] = "parked" =>
              (pc[q] = "parked" /\ who'[q] = who[q]) \/ who'[q] \in deltas'
    PROVE  Deltas'
<1>1. DeltaOf'
  BY DEF Deltas, DeltaOf
<1>2. Dumped'
  BY DEF Deltas, Dumped
<1>3. ParkedHasDelta'
  BY DEF Deltas, ParkedHasDelta
<1> QED BY <1>1, <1>2, <1>3 DEF Deltas

\* One session is forgotten and its delta removed, or kept as an orphan.
LEMMA DeltasForget ==
    ASSUME IInv, Deltas, NEW k \in Keys, born' = born, fibers' \subseteq fibers,
           sessions' = [sessions EXCEPT ![k] = NoSession],
           deltas' = deltas \/ deltas' = deltas \ {sessions[k].d},
           \A q \in Procs : pc'[q] = "parked" => pc[q] = "parked" /\ who'[q] = who[q]
    PROVE  Deltas'
<1>0. TypeOK
  BY DEF IInv
<1>1. \A j \in Keys : sessions'[j] = IF j = k THEN NoSession ELSE sessions[j]
  BY <1>0 DEF TypeOK
<1>2. DeltaOf'
  BY <1>1 DEF Deltas, DeltaOf, NoSession
<1>3. Dumped'
  <2>1. sessions[k].d \notin fibers
    BY <1>0, NoFiberAssumption DEF Deltas, DeltaOf, TypeOK
  <2> QED BY <2>1 DEF Deltas, Dumped
<1>4. ParkedHasDelta'
  <2> SUFFICES ASSUME NEW j \in Keys, sessions'[j].st = "parked"
               PROVE  sessions'[j].d \in deltas'
    BY DEF ParkedHasDelta
  <2>1. j # k /\ sessions'[j] = sessions[j]
    BY <1>1 DEF NoSession
  <2>2. sessions[j].d \in deltas /\ sessions[j].d # NoFiber
    BY <1>0, <2>1, NoFiberAssumption DEF Deltas, ParkedHasDelta, TypeOK
  <2>3. sessions[j].d # sessions[k].d
    BY <2>1, <2>2 DEF Deltas, DeltaOf
  <2> QED BY <2>1, <2>2, <2>3
<1> QED BY <1>2, <1>3, <1>4 DEF Deltas

\* onGone.
LEMMA DeltasGone ==
    ASSUME IInv, Deltas, NEW f \in Fiber, NEW b \in BOOLEAN, OnGone(f, b), born' = born,
           \A q \in Procs : pc'[q] = "parked" => pc[q] = "parked" /\ who'[q] = who[q]
    PROVE  Deltas'
<1>1. CASE f \notin fibers
  BY <1>1, DeltasQuiet DEF OnGone
<1>2. CASE f \in fibers /\ Named(f)
  BY <1>2, KeyType, DeltasForget DEF OnGone
<1>3. CASE f \in fibers /\ ~Named(f)
  <2>1. sessions' = sessions /\ deltas' = deltas /\ fibers' \subseteq fibers
    BY <1>3 DEF OnGone
  <2>2. DeltaOf'
    BY <2>1 DEF Deltas, DeltaOf
  <2>3. Dumped'
    BY <2>1 DEF Deltas, Dumped
  <2>4. ParkedHasDelta'
    BY <2>1 DEF Deltas, ParkedHasDelta
  <2> QED BY <2>2, <2>3, <2>4 DEF Deltas
<1> QED BY <1>1, <1>2, <1>3

\* A commit carries over the delta its clone resumed.
LEMMA DeltasCommit ==
    ASSUME IInv, Deltas, NEW p \in Procs, Mine(p), CloneCommit(p) \/ CloneCommitAnyway(p)
    PROVE  Deltas'
<1>0. TypeOK
  BY DEF IInv
<1>1. /\ pc[p] \in Reserving /\ pc'[p] \in {"committed", "internal"} /\ deltas' = deltas
      /\ fibers' = fibers \cup {who[p]} /\ born' = born \cup {who[p]}
  BY <1>0, Shapes DEF CloneCommit, CloneCommitAnyway, Commit, Goto, Reserving
<1>2. who[p] \in Fiber /\ who[p] \notin born
  BY <1>1, ReservedApart
<1>3. ASSUME NEW j \in Keys
      PROVE  /\ sessions'[j].d = sessions[j].d
             /\ sessions'[j].st = "parked" => sessions[j].st = "parked"
  <2>1. CASE ~Named(who[p])
    BY <2>1 DEF CloneCommit, CloneCommitAnyway, Commit
  <2>2. CASE Named(who[p])
    <3>1. Key(who[p]) \in Keys /\ src[p] = sessions[Key(who[p])].d
      BY <1>1, <1>2, <2>2, KeyType DEF IInv, ResolveStands
    <3>2. sessions'[j] = IF j = Key(who[p]) THEN [st |-> "running", f |-> who[p], d |-> src[p]]
                                            ELSE sessions[j]
      BY <1>0, <2>2, <3>1 DEF CloneCommit, CloneCommitAnyway, Commit, TypeOK
    <3> QED BY <3>1, <3>2
  <2> QED BY <2>1, <2>2
<1>4. DeltaOf'
  BY <1>1, <1>2, <1>3 DEF Deltas, DeltaOf
<1>5. Dumped'
  <2> SUFFICES ASSUME NEW q \in Procs, pc'[q] = "parked", who'[q] \in fibers'
               PROVE  who'[q] \in deltas'
    BY DEF Dumped
  <2>1. pc[q] = "parked" /\ who'[q] = who[q] /\ Named(who[q]) /\ who[q] \in Fiber
    BY <1>1 DEF Mine, IInv, InHand
  <2>2. who[q] # who[p]
    <3>1. Named(who[p]) => gate[Key(who[p])] = p
      BY <1>1 DEF IInv, GateHeld, Holding
    <3>2. gate[Key(who[q])] = q
      BY <2>1 DEF IInv, GateHeld, Holding
    <3> QED BY <1>1, <2>1, <3>1, <3>2 DEF Reserving
  <2> QED BY <1>1, <2>1, <2>2 DEF Deltas, Dumped
<1>6. ParkedHasDelta'
  BY <1>1, <1>3 DEF Deltas, ParkedHasDelta
<1> QED BY <1>4, <1>5, <1>6 DEF Deltas

\* OnPark swaps the session's delta for the one just written.
LEMMA DeltasPark ==
    ASSUME IInv, Deltas, NEW p \in Procs, Mine(p), ParkRecord(p)
    PROVE  Deltas'
<1>0. TypeOK
  BY DEF IInv
<1>1. /\ who[p] \in Fiber /\ Key(who[p]) \in Keys /\ born' = born /\ pc[p] = "parked"
  BY KeyType DEF ParkRecord, IInv, InHand
<1>2. \A q \in Procs : pc'[q] = "parked" => q # p /\ pc[q] = "parked" /\ who'[q] = who[q]
  BY <1>0, Shapes DEF ParkRecord, Return, Mine
<1>3. CASE who[p] \notin fibers
  BY <1>1, <1>2, <1>3, DeltasQuiet DEF ParkRecord
<1>4. CASE who[p] \in fibers
  <2> DEFINE f == who[p]
             k == Key(f)
  <2>1. /\ sessions[k].st = "running" /\ fibers' = fibers \ {f} /\ f \in born /\ f \in deltas
    BY <1>1, <1>4 DEF ParkRecord, IInv, InHand, SessionRunsOnce, FibersBorn, Deltas, Dumped
  <2>2. /\ \A j \in Keys : sessions'[j] = IF j = k THEN [st |-> "parked", f |-> NoFiber, d |-> f]
                                                   ELSE sessions[j]
        /\ deltas' = deltas \ ({sessions[k].d} \ {f})
    BY <1>0, <1>1, <1>4, <2>1 DEF ParkRecord, TypeOK
  <2>3. DeltaOf'
    BY <1>1, <2>1, <2>2 DEF Deltas, DeltaOf
  <2>4. Dumped'
    <3>1. sessions[k].d \notin fibers
      BY <1>0, <1>1, NoFiberAssumption DEF Deltas, DeltaOf, TypeOK
    <3> QED BY <1>2, <2>1, <2>2, <3>1 DEF Deltas, Dumped
  <2>5. ParkedHasDelta'
    <3> SUFFICES ASSUME NEW j \in Keys, sessions'[j].st = "parked"
                 PROVE  sessions'[j].d \in deltas'
      BY DEF ParkedHasDelta
    <3>1. CASE j = k
      BY <2>1, <2>2, <3>1
    <3>2. CASE j # k
      <4>1. sessions'[j] = sessions[j] /\ sessions[j].d \in deltas
        BY <2>2, <3>2 DEF Deltas, ParkedHasDelta
      <4>2. sessions[j].d # NoFiber
        BY <1>0, <4>1, NoFiberAssumption DEF TypeOK
      <4>3. sessions[j].d # sessions[k].d
        BY <1>1, <3>2, <4>2 DEF Deltas, DeltaOf
      <4> QED BY <2>2, <4>1, <4>3
    <3> QED BY <3>1, <3>2
  <2> QED BY <2>3, <2>4, <2>5 DEF Deltas
<1> QED BY <1>3, <1>4

\* Every step of the home keeps the deltas of the parked sessions.
LEMMA DeltasNext ==
    ASSUME IInv, Deltas, NoDiscardingRelease, [Next]_vars
    PROVE  Deltas'
<1>0. TypeOK
  BY DEF IInv
<1>q. ASSUME NEW p \in Procs, Mine(p), UNCHANGED <<sessions, born, fibers, deltas>>,
             pc'[p] # "parked"
      PROVE  Deltas'
  BY <1>q, DeltasQuiet DEF Mine
<1>1. ASSUME NEW p \in Procs, Mine(p), CloneStep(p) PROVE Deltas'
  <2>1. CASE CloneDone(p) /\ flag[p]
    <3>1. who[p] \in Fiber /\ OnGone(who[p], TRUE) /\ born' = born /\ pc'[p] # "parked"
      BY <1>0, <2>1, Shapes DEF CloneDone, IInv, InHand, Return
    <3> QED BY <1>1, <3>1, DeltasGone DEF Mine
  <2>2. CASE \/ CloneHold(p) \/ CloneReturns(p) \/ CloneResolve(p) \/ CloneBirth(p)
             \/ CloneNotBorn(p) \/ CloneAuditFails(p) \/ CloneRollBack(p) \/ CloneReleaseFails(p)
             \/ CloneRefused(p) \/ CloneRefusedAnyway(p) \/ CloneSwept(p)
             \/ (CloneDone(p) /\ ~flag[p])
    <3>1. UNCHANGED <<sessions, born, fibers, deltas>>
      BY <2>2 DEF CloneHold, CloneReturns, CloneResolve, CloneBirth, CloneNotBorn,
         CloneAuditFails, CloneRollBack, CloneReleaseFails, CloneRefused, CloneRefusedAnyway,
         CloneSwept, CloneDone, RuntimeRelease
    <3>2. pc'[p] # "parked"
      BY <1>0, <2>2, Shapes DEF CloneHold, CloneReturns, CloneResolve, CloneBirth, CloneNotBorn,
         CloneAuditFails, CloneRollBack, CloneReleaseFails, CloneRefused, CloneRefusedAnyway,
         CloneSwept, CloneDone, Unlock, Return, Goto
    <3> QED BY <1>1, <1>q, <3>1, <3>2
  <2> QED BY <1>1, <2>1, <2>2, DeltasCommit DEF CloneStep
<1>2. ASSUME NEW p \in Procs, Mine(p), ParkStep(p) PROVE Deltas'
  <2>1. CASE ParkHold(p) \/ ParkFails(p)
    <3>1. UNCHANGED <<sessions, born, fibers, deltas>> /\ pc'[p] # "parked"
      BY <1>0, <2>1, Shapes DEF ParkHold, ParkFails, Return, Goto
    <3> QED BY <1>2, <1>q, <3>1
  <2>2. CASE ParkDumped(p)
    <3>1. UNCHANGED <<sessions, born, fibers, who>> /\ deltas' = deltas \cup {who[p]}
      BY <2>2 DEF ParkDumped
    <3> QED BY <1>2, <3>1, DeltasQuiet DEF Mine
  <2> QED BY <1>2, <2>1, <2>2, DeltasPark DEF ParkStep
<1>3. ASSUME NEW p \in Procs, Mine(p), ReleaseRecord(p) \/ SweepRecord(p) PROVE Deltas'
  <2>1. /\ who[p] \in Fiber /\ born' = born /\ pc'[p] # "parked"
        /\ \E b \in BOOLEAN : OnGone(who[p], b)
    BY <1>0, <1>3, Shapes DEF ReleaseRecord, SweepRecord, IInv, InHand, Return, Goto
  <2> QED BY <1>3, <2>1, DeltasGone DEF Mine
<1>4. ASSUME NEW p \in Procs, Mine(p),
             SweepList(p) \/ SweepRelease(p) \/ SweepDone(p) \/ DrainStep(p)
      PROVE  Deltas'
  <2>1. CASE SweepList(p) \/ SweepRelease(p) \/ SweepDone(p)
    <3>1. UNCHANGED <<sessions, born, fibers, deltas>> /\ pc'[p] # "parked"
      BY <1>0, <2>1, Shapes DEF SweepList, SweepRelease, SweepDone, RuntimeRelease, Return, Goto
    <3> QED BY <1>4, <1>q, <3>1
  <2>2. CASE DrainStep(p)
    <3>1. UNCHANGED <<sessions, born, fibers, deltas>>
      BY <2>2 DEF DrainStep, DrainList, DrainOne, DrainDone, BeginRelease, RuntimeRelease
    <3>2. pc'[p] # "parked"
      BY <1>0, <2>2, Shapes DEF DrainStep, DrainList, DrainOne, DrainDone, BeginPark, BeginRelease,
                                Return, Goto
    <3> QED BY <1>4, <1>q, <3>1, <3>2
  <2> QED BY <1>4, <2>1, <2>2
<1>5. ASSUME NEW p \in Procs, Mine(p), Call(p) PROVE Deltas'
  <2>1. UNCHANGED <<sessions, born, fibers, deltas>>
    BY <1>5 DEF Call, CloneStart, ParkStart, ReleaseStart, Yield, BumpEpoch, DrainStart,
                BeginRelease, RuntimeRelease, NoDiscardingRelease
  <2>2. pc'[p] # "parked"
    <3>1. CASE \E f \in fibers : \E b \in BOOLEAN : ReleaseStart(p, f, b)
      BY <1>0, <3>1, Shapes DEF ReleaseStart, BeginRelease, Return, Goto
    <3>2. CASE ~\E f \in fibers : \E b \in BOOLEAN : ReleaseStart(p, f, b)
      BY <1>0, <1>5, <3>2, Shapes DEF Call, CloneStart, ParkStart, BeginPark, Yield, BumpEpoch,
                                      DrainStart, Goto
    <3> QED BY <3>1, <3>2
  <2> QED BY <1>5, <1>q, <2>1, <2>2
<1>6. CASE UNCHANGED vars \/ (\E u \in Grants : AdmitGrant(u)) \/ \E f \in alive : Die(f)
  <2>1. UNCHANGED <<sessions, born, fibers, deltas, pc, who>>
    BY <1>6 DEF vars, AdmitGrant, Die
  <2> QED BY <2>1, DeltasQuiet
<1>7. ASSUME NEW k \in Keys, Discard(k) PROVE Deltas'
  BY <1>7, DeltasForget DEF Discard
<1>8. ASSUME NEW f \in exits, OnExit(f) PROVE Deltas'
  BY <1>0, <1>8, DeltasGone DEF OnExit, TypeOK
<1> QED BY <1>0, <1>1, <1>2, <1>3, <1>4, <1>5, <1>6, <1>7, <1>8, OthersStill
        DEF Next, Step, SweepStep

\* A parked session's delta is on disk, whatever the parks, resumes, sweeps
\* and discards around it, where no Release discards.
THEOREM CoreParkedHasDelta ==
    ASSUME NoDiscardingRelease
    PROVE  Spec => []ParkedHasDelta
<1>1. Init => Deltas
  BY DEF Init, Deltas, DeltaOf, Dumped, ParkedHasDelta, NoSession
<1>2. IInv /\ Deltas /\ [Next]_vars => Deltas'
  BY DeltasNext
<1>3. Deltas => ParkedHasDelta
  BY DEF Deltas
<1> QED BY <1>1, <1>2, <1>3, CoreInvariant, PTL DEF Spec
-----------------------------------------------------------------------------
(* Slots *)

\* The fibers of a grant, and the goroutines with a slot of its entry.
RunsUnder(u) == {f \in fibers : f.g = u}
Reservers(u) ==
    {p \in Procs : pc[p] \in Reserving /\ who[p].g = u /\ who[p].inc = entry[u].inc}

\* Only finitely many clones and fibers are under way at a time.
Finite ==
    /\ IsFiniteSet(fibers)
    /\ IsFiniteSet({p \in Procs : pc[p] \in Reserving})

\* No reservation is of an admission to come.
IncBound == \A p \in Procs : pc[p] \in Reserving => who[p].inc <= entry[who[p].g].inc

\* live is within the ceiling.
LiveBound == \A u \in Grants : entry[u].on /\ FiberMax > 0 => entry[u].live <= FiberMax

Slots == Finite /\ IncBound /\ LiveBound /\ LiveExact

\* LiveExact, by its two sets.
LEMMA LiveIs ==
    LiveExact <=> \A u \in Grants : entry[u].on =>
        entry[u].live = Cardinality(RunsUnder(u)) + Cardinality(Reservers(u))
BY DEF LiveExact, RunsUnder, Reservers

\* The same of the next state.
LEMMA LiveIsNext ==
    LiveExact' <=> \A u \in Grants : entry'[u].on =>
        entry'[u].live = Cardinality(RunsUnder(u)') + Cardinality(Reservers(u)')
BY DEF LiveExact, RunsUnder, Reservers

\* The two sets are finite.
LEMMA SetsFinite ==
    ASSUME Finite, NEW u
    PROVE  /\ IsFiniteSet(RunsUnder(u)) /\ Cardinality(RunsUnder(u)) \in Nat
           /\ IsFiniteSet(Reservers(u)) /\ Cardinality(Reservers(u)) \in Nat
<1>1. IsFiniteSet(RunsUnder(u))
  <2>1. RunsUnder(u) \subseteq fibers
    BY DEF RunsUnder
  <2> QED BY <2>1, FS_Subset DEF Finite
<1>2. IsFiniteSet(Reservers(u))
  <2>1. Reservers(u) \subseteq {p \in Procs : pc[p] \in Reserving}
    BY DEF Reservers
  <2> QED BY <2>1, FS_Subset DEF Finite
<1> QED BY <1>1, <1>2, FS_CardinalityType

\* A goroutine's reservation stays as it is.
SlotKept(q) ==
    /\ pc'[q] \in Reserving <=> pc[q] \in Reserving
    /\ pc[q] \in Reserving => who'[q] = who[q]

\* Steps that neither take nor give back a slot.
LEMMA SlotsQuiet ==
    ASSUME IInv, Slots, fibers' = fibers, \A q \in Procs : SlotKept(q),
           \A u \in Grants : /\ entry'[u].on => entry[u].on
                             /\ entry'[u].inc = entry[u].inc /\ entry'[u].live = entry[u].live
    PROVE  Slots'
<1>1. {p \in Procs : pc[p] \in Reserving}' = {p \in Procs : pc[p] \in Reserving}
  BY DEF SlotKept
<1>2. Finite'
  BY <1>1 DEF Slots, Finite
<1>3. \A p \in Procs : pc[p] \in Reserving => who[p].g \in Grants
  BY DEF IInv, InHand, Reserving, Fiber
<1>4. IncBound'
  BY <1>3 DEF Slots, IncBound, SlotKept
<1>5. LiveBound'
  BY DEF Slots, LiveBound
<1>6. LiveExact'
  <2> SUFFICES ASSUME NEW u \in Grants, entry'[u].on
               PROVE  entry'[u].live = Cardinality(RunsUnder(u)') + Cardinality(Reservers(u)')
    BY LiveIsNext
  <2>1. RunsUnder(u)' = RunsUnder(u) /\ Reservers(u)' = Reservers(u)
    BY DEF RunsUnder, Reservers, SlotKept
  <2> QED BY <2>1, LiveIs DEF Slots
<1> QED BY <1>2, <1>4, <1>5, <1>6 DEF Slots

\* live-- on one entry changes only that.
LEMMA SlotFreed ==
    ASSUME TypeOK, NEW u \in Grants, NEW v \in Grants,
           entry' = [entry EXCEPT ![u].live = @ - 1]
    PROVE  /\ entry'[v].on = entry[v].on /\ entry'[v].inc = entry[v].inc
           /\ entry'[v].live = IF v = u THEN entry[u].live - 1 ELSE entry[v].live
<1>1. entry[u] \in [on : BOOLEAN, inc : Nat, next : Nat, live : Int]
  BY DEF TypeOK
<1>2. entry'[v] = IF v = u THEN [entry[u] EXCEPT !.live = @ - 1] ELSE entry[v]
  BY DEF TypeOK
<1> QED BY <1>1, <1>2

\* The slot of a running fiber goes back to the entry its grant has.
LEMMA FreeSlotIs ==
    ASSUME TypeOK, NEW u \in Grants, NEW v \in Grants, entry' = FreeSlot(u)
    PROVE  /\ entry'[v].on = entry[v].on /\ entry'[v].inc = entry[v].inc
           /\ entry'[v].live = IF v = u /\ entry[v].on THEN entry[v].live - 1 ELSE entry[v].live
<1>1. CASE entry[u].on
  <2>1. entry' = [entry EXCEPT ![u].live = @ - 1]
    BY <1>1 DEF FreeSlot
  <2> QED BY <1>1, <2>1, SlotFreed
<1>2. CASE ~entry[u].on
  BY <1>2 DEF FreeSlot
<1> QED BY <1>1, <1>2

\* A reservation goes back to the entry it was made with.
LEMMA ReturnSlotIs ==
    ASSUME TypeOK, NEW f \in Fiber, NEW v \in Grants, entry' = ReturnSlot(f)
    PROVE  /\ entry'[v].on = entry[v].on /\ entry'[v].inc = entry[v].inc
           /\ entry'[v].live = IF v = f.g /\ entry[v].on /\ entry[v].inc = f.inc
                               THEN entry[v].live - 1 ELSE entry[v].live
<1> SUFFICES ASSUME NEW u \in Grants, u = f.g
             PROVE  /\ entry'[v].on = entry[v].on /\ entry'[v].inc = entry[v].inc
                    /\ entry'[v].live = IF v = u /\ entry[v].on /\ entry[v].inc = f.inc
                                        THEN entry[v].live - 1 ELSE entry[v].live
  BY DEF Fiber
<1>1. CASE entry[u].on /\ entry[u].inc = f.inc
  <2>1. entry' = [entry EXCEPT ![u].live = @ - 1]
    BY <1>1 DEF ReturnSlot
  <2> QED BY <1>1, <2>1, SlotFreed
<1>2. CASE ~(entry[u].on /\ entry[u].inc = f.inc)
  BY <1>2 DEF ReturnSlot
<1> QED BY <1>1, <1>2

\* A slot that is freed leaves live within the ceiling.
LEMMA BoundFreed ==
    ASSUME TypeOK, LiveBound,
           \A v \in Grants : /\ entry'[v].on = entry[v].on
                             /\ entry'[v].live \in {entry[v].live, entry[v].live - 1}
    PROVE  LiveBound'
<1>1. \A v \in Grants : entry[v].live \in Int
  BY DEF TypeOK
<1> QED BY <1>1, ConstAssumption DEF LiveBound

\* A recorded fiber leaves, and its slot with it.
LEMMA SlotsEnd ==
    ASSUME IInv, Slots, NEW f \in fibers, fibers' = fibers \ {f}, entry' = FreeSlot(f.g),
           \A q \in Procs : SlotKept(q)
    PROVE  Slots'
<1>0. TypeOK /\ f.g \in Grants
  BY DEF IInv, TypeOK, Fiber
<1>1. \A v \in Grants :
         /\ entry'[v].on = entry[v].on /\ entry'[v].inc = entry[v].inc
         /\ entry'[v].live = IF v = f.g /\ entry[v].on THEN entry[v].live - 1 ELSE entry[v].live
  BY <1>0, FreeSlotIs
<1>2. {p \in Procs : pc[p] \in Reserving}' = {p \in Procs : pc[p] \in Reserving}
  BY DEF SlotKept
<1>3. Finite'
  BY <1>2, FS_RemoveElement DEF Slots, Finite
<1>4. \A p \in Procs : pc[p] \in Reserving => who[p].g \in Grants
  BY DEF IInv, InHand, Reserving, Fiber
<1>5. IncBound'
  BY <1>1, <1>4 DEF Slots, IncBound, SlotKept
<1>6. LiveBound'
  BY <1>0, <1>1, BoundFreed DEF Slots
<1>7. LiveExact'
  <2> SUFFICES ASSUME NEW u \in Grants, entry'[u].on
               PROVE  entry'[u].live = Cardinality(RunsUnder(u)') + Cardinality(Reservers(u)')
    BY LiveIsNext
  <2>1. Reservers(u)' = Reservers(u)
    BY <1>1 DEF Reservers, SlotKept
  <2>2. entry[u].live = Cardinality(RunsUnder(u)) + Cardinality(Reservers(u))
    BY <1>1, LiveIs DEF Slots
  <2>3. Cardinality(RunsUnder(u)) \in Nat /\ Cardinality(Reservers(u)) \in Nat
    BY SetsFinite DEF Slots
  <2>4. CASE u # f.g
    <3>1. RunsUnder(u)' = RunsUnder(u)
      BY <2>4 DEF RunsUnder
    <3> QED BY <1>1, <2>1, <2>2, <2>4, <3>1
  <2>5. CASE u = f.g
    <3>1. RunsUnder(u)' = RunsUnder(u) \ {f} /\ f \in RunsUnder(u)
      BY <2>5 DEF RunsUnder
    <3>2. Cardinality(RunsUnder(u)') = Cardinality(RunsUnder(u)) - 1
      BY <3>1, SetsFinite, FS_RemoveElement DEF Slots
    <3> QED BY <1>1, <2>1, <2>2, <2>3, <2>5, <3>2
  <2> QED BY <2>4, <2>5
<1> QED BY <1>3, <1>5, <1>6, <1>7 DEF Slots

\* onGone of a fiber that is still there, or not.
LEMMA SlotsGone ==
    ASSUME IInv, Slots, NEW f \in Fiber, NEW b \in BOOLEAN, OnGone(f, b),
           \A q \in Procs : SlotKept(q)
    PROVE  Slots'
<1>1. CASE f \in fibers
  BY <1>1, SlotsEnd DEF OnGone
<1>2. CASE f \notin fibers
  BY <1>2, SlotsQuiet DEF OnGone
<1> QED BY <1>1, <1>2

\* A clone gives its reservation back to the entry it resolved with.
LEMMA SlotsReturn ==
    ASSUME IInv, Slots, NEW p \in Procs, Mine(p), pc[p] \in Reserving, pc'[p] \notin Reserving,
           fibers' = fibers, entry' = ReturnSlot(who[p])
    PROVE  Slots'
<1> DEFINE g == who[p].g
<1>0. TypeOK /\ who[p] \in Fiber /\ g \in Grants
  BY DEF IInv, InHand, Reserving, Fiber
<1>1. \A v \in Grants :
         /\ entry'[v].on = entry[v].on /\ entry'[v].inc = entry[v].inc
         /\ entry'[v].live = IF v = g /\ entry[v].on /\ entry[v].inc = who[p].inc
                             THEN entry[v].live - 1 ELSE entry[v].live
  BY <1>0, ReturnSlotIs
<1>2. {q \in Procs : pc[q] \in Reserving}' = {q \in Procs : pc[q] \in Reserving} \ {p}
  BY DEF Mine
<1>3. Finite'
  BY <1>2, FS_RemoveElement DEF Slots, Finite
<1>4. \A q \in Procs : pc[q] \in Reserving => who[q].g \in Grants
  BY DEF IInv, InHand, Reserving, Fiber
<1>5. IncBound'
  BY <1>1, <1>4 DEF Slots, IncBound, Mine
<1>6. LiveBound'
  BY <1>0, <1>1, BoundFreed DEF Slots
<1>7. LiveExact'
  <2> SUFFICES ASSUME NEW u \in Grants, entry'[u].on
               PROVE  entry'[u].live = Cardinality(RunsUnder(u)') + Cardinality(Reservers(u)')
    BY LiveIsNext
  <2>1. RunsUnder(u)' = RunsUnder(u) /\ Reservers(u)' = Reservers(u) \ {p}
    BY <1>1 DEF RunsUnder, Reservers, Mine
  <2>2. entry[u].live = Cardinality(RunsUnder(u)) + Cardinality(Reservers(u))
    BY <1>1, LiveIs DEF Slots
  <2>3. Cardinality(RunsUnder(u)) \in Nat /\ Cardinality(Reservers(u)) \in Nat
    BY SetsFinite DEF Slots
  <2>4. p \in Reservers(u) <=> u = g /\ entry[u].inc = who[p].inc
    BY DEF Reservers
  <2>5. Cardinality(Reservers(u)') = IF p \in Reservers(u) THEN Cardinality(Reservers(u)) - 1
                                                           ELSE Cardinality(Reservers(u))
    BY <2>1, SetsFinite, FS_RemoveElement DEF Slots
  <2>6. entry[u].on
    BY <1>1
  <2> QED BY <1>1, <2>1, <2>2, <2>3, <2>4, <2>5, <2>6
<1> QED BY <1>3, <1>5, <1>6, <1>7 DEF Slots

\* A resolve reserves a slot when there is room.
LEMMA SlotsResolve ==
    ASSUME IInv, Slots, NEW p \in Procs, Mine(p), CloneResolve(p)
    PROVE  Slots'
<1> DEFINE g == who[p].g
<1>0. TypeOK /\ who[p] \in Fiber /\ g \in Grants
  BY DEF CloneResolve, IInv, InHand, Fiber
<1>1. /\ pc[p] = "resolve" /\ pc'[p] = "birth" /\ fibers' = fibers
      /\ who'[p].g = g /\ who'[p].inc = entry[g].inc /\ HasRoom(g) /\ entry[g].on
  BY <1>0, Shapes DEF CloneResolve, Goto
<1>2. \A v \in Grants :
         /\ entry'[v].on = entry[v].on /\ entry'[v].inc = entry[v].inc
         /\ entry'[v].live = IF v = g THEN entry[v].live + 1 ELSE entry[v].live
  BY <1>0 DEF CloneResolve, TypeOK
<1>3. {q \in Procs : pc[q] \in Reserving}' = {q \in Procs : pc[q] \in Reserving} \cup {p}
  BY <1>1 DEF Mine, Reserving
<1>4. Finite'
  BY <1>1, <1>3, FS_AddElement DEF Slots, Finite
<1>5. IncBound'
  <2>1. \A q \in Procs : pc[q] \in Reserving => who[q].g \in Grants
    BY DEF IInv, InHand, Reserving, Fiber
  <2>2. entry[g].inc \in Nat
    BY <1>0 DEF TypeOK
  <2> QED BY <1>0, <1>1, <1>2, <2>1, <2>2 DEF Slots, IncBound, Mine
<1>6. LiveBound'
  <2>1. \A v \in Grants : entry[v].live \in Int
    BY <1>0 DEF TypeOK
  <2> QED BY <1>0, <1>1, <1>2, <2>1, ConstAssumption DEF Slots, LiveBound, HasRoom
<1>7. LiveExact'
  <2> SUFFICES ASSUME NEW u \in Grants, entry'[u].on
               PROVE  entry'[u].live = Cardinality(RunsUnder(u)') + Cardinality(Reservers(u)')
    BY LiveIsNext
  <2>1. RunsUnder(u)' = RunsUnder(u)
    BY <1>1 DEF RunsUnder
  <2>2. entry[u].live = Cardinality(RunsUnder(u)) + Cardinality(Reservers(u))
    BY <1>2, LiveIs DEF Slots
  <2>3. Cardinality(RunsUnder(u)) \in Nat /\ Cardinality(Reservers(u)) \in Nat
    BY SetsFinite DEF Slots
  <2>4. CASE u # g
    <3>1. Reservers(u)' = Reservers(u)
      BY <1>1, <1>2, <2>4 DEF Reservers, Mine, Reserving
    <3> QED BY <1>2, <2>1, <2>2, <2>4, <3>1
  <2>5. CASE u = g
    <3>1. Reservers(u)' = Reservers(u) \cup {p} /\ p \notin Reservers(u)
      BY <1>1, <1>2, <2>5 DEF Reservers, Mine, Reserving
    <3>2. Cardinality(Reservers(u)') = Cardinality(Reservers(u)) + 1
      BY <3>1, SetsFinite, FS_AddElement DEF Slots
    <3> QED BY <1>2, <2>1, <2>2, <2>3, <2>5, <3>2
  <2> QED BY <2>4, <2>5
<1> QED BY <1>4, <1>5, <1>6, <1>7 DEF Slots

\* A commit turns its reservation into a running fiber of the same entry.
LEMMA SlotsCommit ==
    ASSUME IInv, Slots, NEW p \in Procs, Mine(p), CloneCommit(p) \/ CloneCommitAnyway(p)
    PROVE  Slots'
<1> DEFINE f == who[p]
<1>0. TypeOK
  BY DEF IInv
<1>1. /\ pc[p] \in Reserving /\ pc'[p] \notin Reserving /\ entry' = entry
      /\ fibers' = fibers \cup {f} /\ entry[f.g].inc = f.inc
  BY <1>0, Shapes DEF CloneCommit, CloneCommitAnyway, Commit, MayCommit, Goto, Reserving
<1>2. f \notin fibers
  BY <1>1, ReservedApart
<1>3. {q \in Procs : pc[q] \in Reserving}' = {q \in Procs : pc[q] \in Reserving} \ {p}
  BY <1>1 DEF Mine
<1>4. Finite'
  <2>1. IsFiniteSet(fibers')
    BY <1>1, FS_AddElement DEF Slots, Finite
  <2>2. IsFiniteSet({q \in Procs : pc[q] \in Reserving}')
    BY <1>3, FS_RemoveElement DEF Slots, Finite
  <2> QED BY <2>1, <2>2 DEF Finite
<1>5. IncBound'
  BY <1>1 DEF Slots, IncBound, Mine
<1>6. LiveBound'
  BY <1>1 DEF Slots, LiveBound
<1>7. LiveExact'
  <2> SUFFICES ASSUME NEW u \in Grants, entry'[u].on
               PROVE  entry'[u].live = Cardinality(RunsUnder(u)') + Cardinality(Reservers(u)')
    BY LiveIsNext
  <2>1. entry[u].live = Cardinality(RunsUnder(u)) + Cardinality(Reservers(u))
    BY <1>1, LiveIs DEF Slots
  <2>2. Cardinality(RunsUnder(u)) \in Nat /\ Cardinality(Reservers(u)) \in Nat
    BY SetsFinite DEF Slots
  <2>3. CASE u # f.g
    <3>1. RunsUnder(u)' = RunsUnder(u) /\ Reservers(u)' = Reservers(u)
      BY <1>1, <2>3 DEF RunsUnder, Reservers, Mine
    <3> QED BY <1>1, <2>1, <3>1
  <2>4. CASE u = f.g
    <3>1. /\ RunsUnder(u)' = RunsUnder(u) \cup {f} /\ f \notin RunsUnder(u)
          /\ Reservers(u)' = Reservers(u) \ {p} /\ p \in Reservers(u)
      BY <1>1, <1>2, <2>4 DEF RunsUnder, Reservers, Mine
    <3>2. Cardinality(RunsUnder(u)') = Cardinality(RunsUnder(u)) + 1
      BY <3>1, SetsFinite, FS_AddElement DEF Slots
    <3>3. Cardinality(Reservers(u)') = Cardinality(Reservers(u)) - 1
      BY <3>1, SetsFinite, FS_RemoveElement DEF Slots
    <3> QED BY <1>1, <2>1, <2>2, <3>2, <3>3
  <2> QED BY <2>3, <2>4
<1> QED BY <1>4, <1>5, <1>6, <1>7 DEF Slots

\* A grant is admitted anew when none of its fibers is left.
LEMMA SlotsAdmit ==
    ASSUME IInv, Slots, ~AnyReadmit, NEW u \in Grants, AdmitGrant(u)
    PROVE  Slots'
<1>0. TypeOK
  BY DEF IInv
<1>1. /\ UNCHANGED <<fibers, pc, who>> /\ \A f \in fibers : f.g # u
      /\ entry'[u].inc = entry[u].inc + 1 /\ entry'[u].live = 0 /\ entry[u].inc \in Nat
      /\ \A v \in Grants : v # u => entry'[v] = entry[v]
  BY <1>0 DEF AdmitGrant, TypeOK
<1>2. Finite'
  BY <1>1 DEF Slots, Finite
<1>3. \A p \in Procs : pc[p] \in Reserving => who[p].g \in Grants /\ who[p].inc \in Nat
  BY DEF IInv, InHand, Reserving, Fiber
<1>4. IncBound'
  BY <1>1, <1>3 DEF Slots, IncBound
<1>5. LiveBound'
  BY <1>1, ConstAssumption DEF Slots, LiveBound
<1>6. LiveExact'
  <2> SUFFICES ASSUME NEW v \in Grants, entry'[v].on
               PROVE  entry'[v].live = Cardinality(RunsUnder(v)') + Cardinality(Reservers(v)')
    BY LiveIsNext
  <2>1. CASE v # u
    <3>1. RunsUnder(v)' = RunsUnder(v) /\ Reservers(v)' = Reservers(v)
      BY <1>1, <2>1 DEF RunsUnder, Reservers
    <3> QED BY <1>1, <2>1, <3>1, LiveIs DEF Slots
  <2>2. CASE v = u
    <3>1. RunsUnder(v)' = {}
      BY <1>1, <2>2 DEF RunsUnder
    <3>2. Reservers(v)' = {}
      BY <1>1, <1>3, <2>2 DEF Reservers, Slots, IncBound
    <3> QED BY <1>1, <2>2, <3>1, <3>2, FS_EmptySet
  <2> QED BY <2>1, <2>2
<1> QED BY <1>2, <1>4, <1>5, <1>6 DEF Slots

\* Every step of a clone keeps the count of its grant's slots.
LEMMA SlotsClone ==
    ASSUME IInv, Slots, NEW p \in Procs, Mine(p), CloneStep(p)
    PROVE  Slots'
<1>0. TypeOK
  BY DEF IInv
<1>1. CASE CloneHold(p) \/ CloneReturns(p) \/ (CloneDone(p) /\ ~flag[p])
  <2>1. UNCHANGED <<fibers, entry>> /\ pc[p] \notin Reserving /\ pc'[p] \notin Reserving
    BY <1>0, <1>1, Shapes DEF CloneHold, CloneReturns, CloneDone, Return, Goto, Reserving
  <2> QED BY <2>1, SlotsQuiet DEF SlotKept, Mine
<1>2. CASE CloneBirth(p) \/ CloneAuditFails(p) \/ CloneReleaseFails(p) \/ CloneRefused(p)
  <2>1. UNCHANGED <<fibers, entry, who>> /\ pc[p] \in Reserving /\ pc'[p] \in Reserving
    BY <1>0, <1>2, Shapes DEF CloneBirth, CloneAuditFails, CloneReleaseFails, CloneRefused, Goto,
                              Reserving
  <2> QED BY <2>1, SlotsQuiet DEF SlotKept, Mine
<1>3. CASE CloneNotBorn(p) \/ CloneRollBack(p) \/ CloneRefusedAnyway(p) \/ CloneSwept(p)
  <2>1. /\ pc[p] \in Reserving /\ pc'[p] \notin Reserving /\ fibers' = fibers
        /\ entry' = ReturnSlot(who[p])
    BY <1>0, <1>3, Shapes DEF CloneNotBorn, CloneRollBack, CloneRefusedAnyway, CloneSwept, Unlock,
                              Return, Reserving
  <2> QED BY <2>1, SlotsReturn
<1>4. CASE CloneDone(p) /\ flag[p]
  <2>1. /\ who[p] \in Fiber /\ OnGone(who[p], TRUE)
        /\ pc[p] \notin Reserving /\ pc'[p] \notin Reserving
    BY <1>0, <1>4, Shapes DEF CloneDone, Return, Reserving, IInv, InHand
  <2> QED BY <2>1, SlotsGone DEF SlotKept, Mine
<1> QED BY <1>1, <1>2, <1>3, <1>4, SlotsResolve, SlotsCommit DEF CloneStep

\* So does every step of Park, Release, a sweep and a drain.
LEMMA SlotsStep ==
    ASSUME IInv, Slots, NEW p \in Procs, Mine(p),
           ParkStep(p) \/ ReleaseRecord(p) \/ SweepStep(p) \/ DrainStep(p)
    PROVE  Slots'
<1>0. TypeOK
  BY DEF IInv
<1>1. CASE \/ ParkHold(p) \/ ParkDumped(p) \/ ParkFails(p)
           \/ SweepList(p) \/ SweepRelease(p) \/ SweepDone(p)
  <2>1. UNCHANGED <<fibers, entry>> /\ pc[p] \notin Reserving /\ pc'[p] \notin Reserving
    BY <1>0, <1>1, Shapes DEF ParkHold, ParkDumped, ParkFails, SweepList, SweepRelease, SweepDone,
                              Return, Goto, Reserving
  <2> QED BY <2>1, SlotsQuiet DEF SlotKept, Mine
<1>2. CASE DrainStep(p)
  <2>1. UNCHANGED <<fibers, entry>> /\ pc[p] \notin Reserving
    BY <1>2 DEF DrainStep, DrainList, DrainOne, DrainDone, Reserving
  <2>2. pc'[p] \notin Reserving
    BY <1>0, <1>2, Shapes DEF DrainStep, DrainList, DrainOne, DrainDone, BeginPark, BeginRelease,
                              Return, Goto, Reserving
  <2> QED BY <2>1, <2>2, SlotsQuiet DEF SlotKept, Mine
<1>3. CASE ParkRecord(p)
  <2>1. /\ pc[p] \notin Reserving /\ pc'[p] \notin Reserving
        /\ \/ who[p] \in fibers /\ fibers' = fibers \ {who[p]} /\ entry' = FreeSlot(who[p].g)
           \/ UNCHANGED <<fibers, entry>>
    BY <1>0, <1>3, Shapes DEF ParkRecord, Return, Reserving
  <2> QED BY <2>1, SlotsEnd, SlotsQuiet DEF SlotKept, Mine
<1>4. CASE ReleaseRecord(p) \/ SweepRecord(p)
  <2>1. /\ who[p] \in Fiber /\ \E b \in BOOLEAN : OnGone(who[p], b)
        /\ pc[p] \notin Reserving /\ pc'[p] \notin Reserving
    BY <1>0, <1>4, Shapes DEF ReleaseRecord, SweepRecord, Return, Goto, Reserving, IInv, InHand
  <2> QED BY <2>1, SlotsGone DEF SlotKept, Mine
<1> QED BY <1>1, <1>2, <1>3, <1>4 DEF ParkStep, SweepStep

\* So does every call that arrives: a Yield only switches its entry off.
LEMMA SlotsCall ==
    ASSUME IInv, Slots, NEW p \in Procs, Mine(p), Call(p)
    PROVE  Slots'
<1>0. TypeOK
  BY DEF IInv
<1>1. fibers' = fibers /\ pc[p] = "idle"
  BY DEF Call, CloneStart, ParkStart, ReleaseStart, Yield, BumpEpoch, DrainStart
<1>2. pc'[p] \notin Reserving
  <2>1. CASE \E f \in fibers : \E b \in BOOLEAN : ReleaseStart(p, f, b)
    BY <1>0, <2>1, Shapes DEF ReleaseStart, BeginRelease, Return, Goto, Reserving
  <2>2. CASE ~\E f \in fibers : \E b \in BOOLEAN : ReleaseStart(p, f, b)
    BY <1>0, <2>2, Shapes DEF Call, CloneStart, ParkStart, BeginPark, Yield, BumpEpoch,
                              DrainStart, Goto, Reserving
  <2> QED BY <2>1, <2>2
<1>3. \A u \in Grants : /\ entry'[u].on => entry[u].on
                        /\ entry'[u].inc = entry[u].inc /\ entry'[u].live = entry[u].live
  <2>1. ASSUME NEW u \in Grants, Yield(p, u), NEW v \in Grants
        PROVE  /\ entry'[v].on => entry[v].on
               /\ entry'[v].inc = entry[v].inc /\ entry'[v].live = entry[v].live
    <3>1. entry[u] \in [on : BOOLEAN, inc : Nat, next : Nat, live : Int]
      BY <1>0 DEF TypeOK
    <3>2. entry'[v] = IF v = u THEN [entry[u] EXCEPT !.on = FALSE] ELSE entry[v]
      BY <1>0, <2>1 DEF Yield, TypeOK
    <3> QED BY <3>1, <3>2
  <2>2. CASE entry' = entry
    BY <2>2
  <2> QED BY <2>1, <2>2 DEF Call, CloneStart, ParkStart, ReleaseStart, BumpEpoch, DrainStart
<1> QED BY <1>1, <1>2, <1>3, SlotsQuiet DEF SlotKept, Mine, Reserving

\* And so does every step of the home.
LEMMA SlotsNext ==
    ASSUME IInv, Slots, ~AnyReadmit, [Next]_vars
    PROVE  Slots'
<1>0. TypeOK
  BY DEF IInv
<1>1. ASSUME NEW p \in Procs, Call(p) \/ Step(p) PROVE Slots'
  BY <1>0, <1>1, OthersStill, SlotsCall, SlotsClone, SlotsStep DEF Step
<1>2. CASE UNCHANGED vars \/ (\E k \in Keys : Discard(k)) \/ \E f \in alive : Die(f)
  <2>1. UNCHANGED <<fibers, entry, pc, who>>
    BY <1>2 DEF vars, Discard, Die
  <2> QED BY <2>1, SlotsQuiet DEF SlotKept
<1>3. ASSUME NEW f \in exits, OnExit(f) PROVE Slots'
  <2>1. f \in Fiber /\ OnGone(f, TRUE) /\ UNCHANGED <<pc, who>>
    BY <1>0, <1>3 DEF OnExit, TypeOK
  <2> QED BY <2>1, SlotsGone DEF SlotKept
<1> QED BY <1>1, <1>2, <1>3, SlotsAdmit DEF Next

\* The invariant of the slots, where a grant is admitted again only once its
\* Yield has released its fibers.
THEOREM CoreSlots ==
    ASSUME ~AnyReadmit
    PROVE  Spec => []Slots
<1>1. Init => Slots
  <2> SUFFICES ASSUME Init PROVE Slots
    OBVIOUS
  <2>1. fibers = {} /\ {p \in Procs : pc[p] \in Reserving} = {}
    BY DEF Init, Reserving
  <2>2. Finite
    BY <2>1, FS_EmptySet DEF Finite
  <2>3. IncBound /\ LiveBound /\ LiveExact
    BY <2>1 DEF Init, IncBound, LiveBound, LiveExact
  <2> QED BY <2>2, <2>3 DEF Slots
<1>2. IInv /\ Slots /\ [Next]_vars => Slots'
  BY SlotsNext
<1> QED BY <1>1, <1>2, CoreInvariant, PTL DEF Spec

\* live counts exactly the grant's fibers and the slots its clones reserved.
THEOREM CoreLiveExact ==
    ASSUME ~AnyReadmit
    PROVE  Spec => []LiveExact
<1>1. Slots => LiveExact
  BY DEF Slots
<1> QED BY <1>1, CoreSlots, PTL

\* No more fibers run under a grant's admission than fibers.max.
THEOREM CoreWithinCeiling ==
    ASSUME ~AnyReadmit
    PROVE  Spec => []WithinCeiling
<1>1. Slots => WithinCeiling
  <2> SUFFICES ASSUME Slots, NEW u \in Grants, entry[u].on, FiberMax > 0
               PROVE  Cardinality({f \in fibers : f.g = u /\ f.inc = entry[u].inc}) <= FiberMax
    BY DEF WithinCeiling
  <2> DEFINE now == {f \in fibers : f.g = u /\ f.inc = entry[u].inc}
  <2>1. /\ IsFiniteSet(RunsUnder(u)) /\ Cardinality(RunsUnder(u)) \in Nat
        /\ Cardinality(Reservers(u)) \in Nat
    BY SetsFinite DEF Slots
  <2>2. now \in SUBSET RunsUnder(u)
    BY DEF RunsUnder
  <2>3. IsFiniteSet(now) /\ Cardinality(now) <= Cardinality(RunsUnder(u))
    <3> HIDE DEF now
    <3> QED BY <2>1, <2>2, FS_Subset
  <2>4. Cardinality(now) \in Nat
    BY <2>3, FS_CardinalityType
  <2>5. entry[u].live = Cardinality(RunsUnder(u)) + Cardinality(Reservers(u))
    BY LiveIs DEF Slots
  <2>6. entry[u].live <= FiberMax
    BY DEF Slots, LiveBound
  <2> HIDE DEF now
  <2>7. Cardinality(now) <= FiberMax
    BY <2>1, <2>3, <2>4, <2>5, <2>6, ConstAssumption
  <2> QED BY <2>7 DEF now
<1> QED BY <1>1, CoreSlots, PTL
-----------------------------------------------------------------------------
(* Gates *)

\* The key a goroutine has the gate of, by where it is in its operation.
NoKey == << >>
InGate(p) == IF pc[p] \in Holding /\ Named(who[p]) THEN Key(who[p]) ELSE NoKey

\* A gate is taken only by a goroutine inside an operation on its session:
\* no path out of Clone or Park leaves one behind.
GateExact == \A k \in Keys : \A p \in Procs : gate[k] = p => InGate(p) = k

Lock == INSTANCE KeyedLock WITH holding <- [p \in Procs |-> InGate(p)]

\* No key is the absence of one.
LEMMA NoKeyApart == NoKey \notin Keys
BY DEF NoKey, Keys

\* What InGate is.
LEMMA InGateIs ==
    ASSUME IInv, NEW p \in Procs
    PROVE  /\ pc[p] \in Holding /\ Named(who[p]) => InGate(p) = Key(who[p]) /\ Key(who[p]) \in Keys
           /\ ~(pc[p] \in Holding /\ Named(who[p])) => InGate(p) = NoKey
<1>1. pc[p] \in Holding => who[p] \in Fiber
  BY DEF IInv, InHand, Holding, Reserving
<1> QED BY <1>1, KeyType DEF InGate

\* What a goroutine's step does to its gate: nothing, take it or let it go.
Leaves(p) == gate' = gate /\ InGate(p)' = InGate(p)
Takes(p) == TakeGate(p) /\ Key(who[p]) \in Keys /\ InGate(p) = NoKey /\ InGate(p)' = Key(who[p])
Drops(p) == DropGate(p) /\ pc[p] \in Holding /\ InGate(p)' = NoKey

\* An operation that begins, or goes on, outside of any gate.
LEMMA StaysOutside ==
    ASSUME TypeOK, NEW p \in Procs, gate' = gate, pc[p] \notin Holding,
           pc'[p] \in Holding => ~Named(who'[p])
    PROVE  Leaves(p)
BY DEF Leaves, InGate

\* An operation that goes on under its gate, with a fiber of the same session.
LEMMA StaysInside ==
    ASSUME TypeOK, NEW p \in Procs, gate' = gate, pc[p] \in Holding, pc'[p] \in Holding,
           who'[p] = who[p] \/ (who'[p].g = who[p].g /\ who'[p].s = who[p].s)
    PROVE  Leaves(p)
BY DEF Leaves, InGate, Key, Named

\* An operation that returns has no gate.
LEMMA ReturnsOutside ==
    ASSUME TypeOK, NEW p \in Procs, Return(p), DropGate(p), pc[p] \in Holding
    PROVE  Drops(p)
<1>1. pc'[p] \notin Holding
  BY DEF Return, TypeOK, Holding, Reserving
<1> QED BY <1>1 DEF Drops, InGate

\* Every step of a goroutine leaves its gate alone, takes it or lets it go.
LEMMA GateUse ==
    ASSUME IInv, NEW p \in Procs, Call(p) \/ Step(p)
    PROVE  Leaves(p) \/ Takes(p) \/ Drops(p)
<1>0. TypeOK
  BY DEF IInv
<1> USE DEF Labels
<1>1. CASE Call(p)
  <2>1. gate' = gate /\ pc[p] = "idle"
    BY <1>1 DEF Call, CloneStart, ParkStart, ReleaseStart, Yield, BumpEpoch, DrainStart
  <2>2. ASSUME NEW u \in Grants, NEW n \in Names \cup {Anon}, CloneStart(p, u, n)
        PROVE  pc'[p] \in Holding => ~Named(who'[p])
    BY <1>0, <2>2 DEF CloneStart, Goto, Holding, Reserving, Named, Request, TypeOK
  <2>3. CASE \E f \in fibers : ParkStart(p, f) \/ \E b \in BOOLEAN : ReleaseStart(p, f, b)
    <3>1. pc'[p] \notin Holding
      BY <1>0, <2>3 DEF ParkStart, BeginPark, ReleaseStart, BeginRelease, Goto, Return, Holding, Reserving, TypeOK
    <3> QED BY <1>0, <2>1, <3>1, StaysOutside DEF Holding, Reserving
  <2>4. CASE (\E u \in Grants : Yield(p, u)) \/ BumpEpoch(p) \/ DrainStart(p)
    <3>1. pc'[p] \notin Holding
      BY <1>0, <2>4 DEF Yield, BumpEpoch, DrainStart, Goto, Holding, Reserving, TypeOK
    <3> QED BY <1>0, <2>1, <3>1, StaysOutside DEF Holding, Reserving
  <2>5. pc[p] \notin Holding
    BY <2>1 DEF Holding, Reserving
  <2> QED BY <1>0, <1>1, <2>1, <2>2, <2>3, <2>4, <2>5, StaysOutside DEF Call
<1>2. CASE CloneHold(p) \/ ParkHold(p)
  <2>1. Named(who[p]) /\ who[p] \in Fiber /\ pc[p] \notin Holding /\ TakeGate(p) /\ who' = who
    BY <1>2 DEF CloneHold, ParkHold, IInv, InHand, Holding, Reserving
  <2>2. pc'[p] \in Holding
    BY <1>0, <1>2 DEF CloneHold, ParkHold, Goto, TypeOK, Holding, Reserving
  <2> QED BY <2>1, <2>2, KeyType DEF Takes, InGate
<1>3. CASE \/ CloneReturns(p) \/ CloneNotBorn(p) \/ CloneRollBack(p) \/ CloneRefusedAnyway(p)
           \/ CloneSwept(p) \/ CloneDone(p) \/ ParkFails(p) \/ ParkRecord(p)
  <2>1. Return(p) /\ DropGate(p) /\ pc[p] \in Holding
    BY <1>3 DEF CloneReturns, CloneNotBorn, CloneRollBack, CloneRefusedAnyway, CloneSwept, CloneDone,
                ParkFails, ParkRecord, Unlock, Holding, Reserving
  <2> QED BY <1>0, <2>1, ReturnsOutside
<1>4. CASE CloneResolve(p)
  <2>1. gate' = gate /\ pc[p] \in Holding /\ pc'[p] \in Holding
    BY <1>0, <1>4 DEF CloneResolve, Goto, TypeOK, Holding, Reserving
  <2>2. who'[p].g = who[p].g /\ who'[p].s = who[p].s
    BY <1>0, <1>4 DEF CloneResolve, TypeOK
  <2> QED BY <1>0, <2>1, <2>2, StaysInside
<1>5. CASE \/ CloneBirth(p) \/ CloneAuditFails(p) \/ CloneReleaseFails(p) \/ CloneCommit(p)
           \/ CloneCommitAnyway(p) \/ CloneRefused(p) \/ ParkDumped(p)
  <2>1. gate' = gate /\ who' = who /\ pc[p] \in Holding
    BY <1>5 DEF CloneBirth, CloneAuditFails, CloneReleaseFails, CloneCommit, CloneCommitAnyway,
                CloneRefused, ParkDumped, Commit, Holding, Reserving
  <2>2. pc'[p] \in Holding
    BY <1>0, <1>5 DEF CloneBirth, CloneAuditFails, CloneReleaseFails, CloneCommit, CloneCommitAnyway,
                CloneRefused, ParkDumped, Commit, Goto, TypeOK, Holding, Reserving
  <2> QED BY <1>0, <2>1, <2>2, StaysInside
<1>6. CASE ReleaseRecord(p) \/ SweepStep(p) \/ DrainStep(p)
  <2>1. gate' = gate /\ pc[p] \notin Holding
    BY <1>6 DEF ReleaseRecord, SweepStep, SweepList, SweepRelease, SweepRecord, SweepDone,
                DrainStep, DrainList, DrainOne, DrainDone, Holding, Reserving
  <2>2. pc'[p] \notin Holding
    <3>1. CASE ReleaseRecord(p) \/ SweepStep(p)
      BY <1>0, <3>1 DEF ReleaseRecord, SweepStep, SweepList, SweepRelease, SweepRecord, SweepDone,
                        Goto, Return, TypeOK, Holding, Reserving
    <3>2. CASE DrainStep(p)
      BY <1>0, <3>2 DEF DrainStep, DrainList, DrainOne, DrainDone, BeginPark, BeginRelease,
                        Goto, Return, TypeOK, Holding, Reserving
    <3> QED BY <1>6, <3>1, <3>2
  <2> QED BY <1>0, <2>1, <2>2, StaysOutside
<1> QED BY <1>1, <1>2, <1>3, <1>4, <1>5, <1>6 DEF Step, CloneStep, ParkStep

\* Every step keeps the gates exact.
LEMMA GateExactNext ==
    ASSUME IInv, GateExact, [Next]_vars
    PROVE  GateExact'
<1>1. ASSUME NEW p \in Procs, Call(p) \/ Step(p) PROVE GateExact'
  <2> SUFFICES ASSUME NEW k \in Keys, NEW q \in Procs, gate'[k] = q
               PROVE  InGate(q)' = k
    BY DEF GateExact
  <2>1. Mine(p)
    BY <1>1, OthersStill DEF IInv
  <2>2. q # p => InGate(q)' = InGate(q)
    BY <2>1 DEF Mine, InGate
  <2>3. gate \in [Keys -> Procs \cup {NoProc}]
    BY DEF IInv, TypeOK
  <2>4. CASE Leaves(p)
    BY <2>2, <2>4 DEF Leaves, GateExact
  <2>5. CASE Takes(p)
    <3>1. k = Key(who[p]) => q = p
      BY <2>3, <2>5 DEF Takes, TakeGate
    <3>2. k # Key(who[p]) => gate[k] = q
      BY <2>3, <2>5 DEF Takes, TakeGate
    <3> QED BY <2>2, <2>5, <3>1, <3>2, NoKeyApart DEF Takes, GateExact
  <2>6. CASE Drops(p)
    <3>1. CASE q = p
      <4>1. gate[k] = p
        BY <2>3, <2>6, <3>1, ConstAssumption DEF Drops, DropGate
      <4>2. InGate(p) = k
        BY <4>1 DEF GateExact
      <4>3. Named(who[p]) /\ k = Key(who[p])
        BY <4>2, InGateIs, NoKeyApart
      <4> QED BY <2>3, <2>6, <3>1, <4>3, ConstAssumption DEF Drops, DropGate
    <3>2. CASE q # p
      <4>1. gate[k] = q
        BY <2>3, <2>6, ConstAssumption DEF Drops, DropGate
      <4> QED BY <2>2, <3>2, <4>1 DEF GateExact
    <3> QED BY <3>1, <3>2
  <2> QED BY <1>1, <2>4, <2>5, <2>6, GateUse
<1>2. CASE UNCHANGED <<gate, pc, who>>
  BY <1>2 DEF GateExact, InGate
<1> QED
  BY <1>1, <1>2 DEF Next, AdmitGrant, Discard, Die, OnExit, vars

\* Every step is a step of the keyed lock, or leaves it alone.
LEMMA LockNext ==
    ASSUME IInv, IInv', [Next]_vars
    PROVE  [Lock!Next]_[p \in Procs |-> InGate(p)]
<1> DEFINE holding == [p \in Procs |-> InGate(p)]
<1>1. ASSUME NEW p \in Procs, Call(p) \/ Step(p) PROVE Lock!Next \/ holding' = holding
  <2>1. \A q \in Procs : q # p => InGate(q)' = InGate(q)
    <3>1. Mine(p)
      BY <1>1, OthersStill DEF IInv
    <3> QED BY <3>1 DEF Mine, InGate
  <2>2. CASE InGate(p)' = InGate(p)
    BY <2>1, <2>2
  <2>3. CASE Takes(p)
    <3>1. \A q \in Procs : InGate(q) # Key(who[p])
      <4> SUFFICES ASSUME NEW q \in Procs, InGate(q) = Key(who[p]) PROVE FALSE
        OBVIOUS
      <4>1. pc[q] \in Holding /\ Named(who[q]) /\ Key(who[q]) = Key(who[p])
        BY <2>3, InGateIs, NoKeyApart DEF Takes
      <4>2. gate[Key(who[p])] = q
        BY <4>1 DEF IInv, GateHeld
      <4> QED BY <2>3, <4>2, ConstAssumption DEF Takes, TakeGate
    <3>2. holding' = [holding EXCEPT ![p] = Key(who[p])]
      BY <2>1, <2>3 DEF Takes
    <3>3. Lock!Acquire(p, Key(who[p]))
      BY <2>3, <3>1, <3>2 DEF Takes, Lock!Acquire
    <3> QED BY <2>3, <3>3 DEF Takes, Lock!Next
  <2>4. CASE InGate(p)' = NoKey /\ InGate(p) # NoKey
    <3>1. holding' = [holding EXCEPT ![p] = NoKey]
      BY <2>1, <2>4
    <3>2. Lock!Release(p)
      BY <2>4, <3>1 DEF Lock!Release
    <3> QED BY <3>2 DEF Lock!Next
  <2> QED BY <1>1, <2>2, <2>3, <2>4, GateUse DEF Leaves, Drops
<1>2. CASE UNCHANGED <<gate, pc, who>>
  BY <1>2 DEF InGate
<1>3. (\E p \in Procs : Call(p) \/ Step(p)) \/ UNCHANGED <<gate, pc, who>>
  BY DEF Next, AdmitGrant, Discard, Die, OnExit, vars
<1> QED BY <1>1, <1>2, <1>3

\* A session's gate is held only from inside an operation on that session: no
\* error path of Clone or Park, and no early death, leaves one behind.
THEOREM CoreGateExact == Spec => []GateExact
<1>1. Init => GateExact
  BY ConstAssumption DEF Init, GateExact
<1> QED BY <1>1, CoreInvariant, GateExactNext, PTL DEF Spec

\* What the operations do with the gates is what KeyedLock allows, the lock
\* that SessionGate is proved to implement: the two components meet there.
THEOREM CoreUsesLock == Spec => Lock!Spec
<1>1. Init => Lock!Init
  <2> SUFFICES ASSUME Init PROVE [p \in Procs |-> InGate(p)] = [p \in Procs |-> NoKey]
    BY DEF Lock!Init
  <2> QED BY DEF Init, InGate, Holding, Reserving
<1>2. IInv /\ IInv' /\ [Next]_vars => [Lock!Next]_[p \in Procs |-> InGate(p)]
  BY LockNext
<1> QED BY <1>1, <1>2, CoreInvariant, PTL DEF Spec, Lock!Spec

==============================================================================
