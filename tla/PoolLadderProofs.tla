--------------------------- MODULE PoolLadderProofs ---------------------------
(***************************************************************************)
(* PoolLadder, for any grants, Clones and bounds: every sandbox restored   *)
(* ahead is accounted for, and a grant's fibers stay within their ceiling. *)
(*                                                                         *)
(* The argument.  A sandbox changes hands in the step that takes it out of *)
(* a pool or puts it there, so only two owners can be mistaken: a fill and *)
(* a Clone that bring one back to an instance that went meanwhile.  Owned  *)
(* says that either knows (fold, cold), or the instance is still there.    *)
(* The counts are of finite sets, which each step changes by one element   *)
(* or, when an instance goes, by all of one pool.                          *)
(***************************************************************************)
EXTENDS PoolLadder, FiniteSetTheorems, TLAPS

USE DEF host, ledger, fill, pass, clone, ladder

\* What the host has, and what a fill and the Clones have in hand.
HostType ==
    /\ adm \subseteq Grants /\ warm \subseteq Grants /\ pool \in [Grants -> Nat] /\ alive \in Int
    /\ run \in [Grants -> Nat] /\ fold \in BOOLEAN /\ (fpc = "restore" => fg \in Grants)
    /\ cpc \in [Clones -> {"idle", "reserved", "take", "have", "out"}]
    /\ cg \in [Clones -> Grants \cup {0}] /\ cold \in [Clones -> BOOLEAN] /\ stale \in [Clones -> BOOLEAN]
    /\ \A c \in Clones : cpc[c] # "idle" => cg[c] \in Grants

\* An owner outside the pools knows that its instance went, or it is there.
Owned ==
    /\ fpc = "restore" /\ ~fold => fg \in warm
    /\ \A c \in Clones : cpc[c] \in {"take", "have"} /\ ~cold[c] => cg[c] \in warm

\* A pass that may start a fill knows that none runs.
OneFill == busy \in BOOLEAN /\ (ppc # "idle" /\ ~busy => fpc = "idle")

\* The counts are of finite sets.
Countable == IsFiniteSet(Waiting) /\ IsFiniteSet(Taken)

IInv == HostType /\ Owned /\ OneFill /\ Countable /\ Accounted

\* The reservations of a grant's ledger entry.
Reserved(g) == {c \in Clones : cg[c] = g /\ ~stale[c]}

\* No more fibers and reservations than fibers.max.
WithinMax ==
    \A g \in Grants : IsFiniteSet(Reserved(g)) /\ run[g] + Cardinality(Reserved(g)) <= FiberMax

(***************************************************************************)
(* Counts.                                                                 *)
(***************************************************************************)

\* A sandbox that joins a pool is one more that waits.
LEMMA OneMoreWaits ==
    ASSUME pool \in [Grants -> Nat], IsFiniteSet(Waiting), NEW g \in Grants,
           pool' = [pool EXCEPT ![g] = @ + 1]
    PROVE  IsFiniteSet(Waiting)' /\ Cardinality(Waiting)' = Cardinality(Waiting) + 1
<1> DEFINE e == <<g, pool[g] + 1>>
<1>1. e \notin Waiting
  BY DEF Waiting
<1>2. Waiting' = Waiting \cup {e}
  <2>1. ASSUME NEW x \in Waiting' PROVE x \in Waiting \cup {e}
    BY <2>1 DEF Waiting
  <2>2. ASSUME NEW x \in Waiting \cup {e} PROVE x \in Waiting'
    BY <2>2 DEF Waiting
  <2> QED BY <2>1, <2>2
<1> HIDE DEF e
<1> QED BY <1>1, <1>2, FS_AddElement

\* A sandbox that leaves its pool is one less.
LEMMA OneLessWaits ==
    ASSUME pool \in [Grants -> Nat], IsFiniteSet(Waiting), NEW g \in Grants, pool[g] > 0,
           pool' = [pool EXCEPT ![g] = @ - 1]
    PROVE  IsFiniteSet(Waiting)' /\ Cardinality(Waiting)' = Cardinality(Waiting) - 1
<1> DEFINE e == <<g, pool[g]>>
<1>1. e \in Waiting
  BY DEF Waiting
<1>2. Waiting' = Waiting \ {e}
  <2>1. ASSUME NEW x \in Waiting' PROVE x \in Waiting \ {e}
    BY <2>1 DEF Waiting
  <2>2. ASSUME NEW x \in Waiting \ {e} PROVE x \in Waiting'
    BY <2>2 DEF Waiting
  <2> QED BY <2>1, <2>2
<1> HIDE DEF e
<1> QED BY <1>1, <1>2, FS_RemoveElement

\* A pool has as many sandboxes as its number says.
LEMMA PoolCount ==
    ASSUME NEW g, NEW m \in Nat
    PROVE  LET S == {<<g, n>> : n \in 1 .. m} IN IsFiniteSet(S) /\ Cardinality(S) = m
<1> DEFINE S == {<<g, n>> : n \in 1 .. m}
<1> DEFINE f == [n \in 1 .. m |-> <<g, n>>]
<1>1. f \in Bijection(1 .. m, S)
  BY DEF Bijection, Injection, Surjection, IsInjective
<1>2. ExistsBijection(1 .. m, S)
  BY <1>1 DEF ExistsBijection
<1> HIDE DEF S, f
<1>3. Cardinality(S) = m
  BY <1>2, FS_CountingElements
<1>4. IsFiniteSet(S)
  BY <1>2, FS_NatBijection
<1> QED BY <1>3, <1>4 DEF S

\* When an instance goes, all of its pool goes.
LEMMA PoolGoes ==
    ASSUME pool \in [Grants -> Nat], IsFiniteSet(Waiting), NEW g \in Grants,
           pool' = [pool EXCEPT ![g] = 0]
    PROVE  IsFiniteSet(Waiting)' /\ Cardinality(Waiting)' = Cardinality(Waiting) - pool[g]
<1> DEFINE S == {<<g, n>> : n \in 1 .. pool[g]}
<1>1. IsFiniteSet(S) /\ Cardinality(S) = pool[g]
  BY PoolCount
<1>2. Waiting = Waiting' \cup S
  <2>1. ASSUME NEW x \in Waiting PROVE x \in Waiting' \cup S
    BY <2>1 DEF Waiting
  <2>2. ASSUME NEW x \in Waiting' \cup S PROVE x \in Waiting
    BY <2>2 DEF Waiting
  <2> QED BY <2>1, <2>2
<1>3. Waiting' \cap S = {}
  BY DEF Waiting
<1> HIDE DEF S
<1>4. IsFiniteSet(Waiting')
  BY <1>2, FS_Subset
<1>5. Cardinality(Waiting) = Cardinality(Waiting') + Cardinality(S) - 0
  BY <1>1, <1>2, <1>3, <1>4, FS_Union, FS_EmptySet
<1>6. Cardinality(Waiting') \in Nat
  BY <1>4, FS_CardinalityType
<1> QED BY <1>1, <1>4, <1>5, <1>6

\* A Clone that takes a sandbox, gives it away, or does neither.
LEMMA TakenChanges ==
    ASSUME IsFiniteSet(Taken), NEW c \in Clones, \A q \in Clones \ {c} : cpc'[q] = cpc[q]
    PROVE  /\ IsFiniteSet(Taken)'
           /\ cpc[c] # "have" /\ cpc'[c] = "have" => Cardinality(Taken)' = Cardinality(Taken) + 1
           /\ cpc[c] = "have" /\ cpc'[c] # "have" => Cardinality(Taken)' = Cardinality(Taken) - 1
           /\ cpc[c] # "have" /\ cpc'[c] # "have" => Taken' = Taken
<1>1. CASE cpc'[c] = "have"
  <2>1. Taken' = Taken \cup {c}
    BY <1>1 DEF Taken
  <2>2. c \in Taken <=> cpc[c] = "have"
    BY DEF Taken
  <2> QED BY <1>1, <2>1, <2>2, FS_AddElement
<1>2. CASE cpc'[c] # "have"
  <2>1. Taken' = Taken \ {c}
    BY <1>2 DEF Taken
  <2>2. c \in Taken <=> cpc[c] = "have"
    BY DEF Taken
  <2> QED BY <1>2, <2>1, <2>2, FS_RemoveElement
<1> QED BY <1>1, <1>2

\* Counts are numbers.
LEMMA CountsAreNumbers ==
    ASSUME Countable
    PROVE  Cardinality(Waiting) \in Nat /\ Cardinality(Taken) \in Nat /\ Restoring \in Nat
BY FS_CardinalityType DEF Countable, Restoring

(***************************************************************************)
(* The steps.                                                              *)
(***************************************************************************)

\* At the start there is no sandbox.
LEMMA InitHolds == Init => IInv
<1> SUFFICES ASSUME Init PROVE IInv
  OBVIOUS
<1>1. Waiting = {} /\ Taken = {}
  BY DEF Init, Waiting, Taken
<1>2. HostType
  <2>1. cpc \in [Clones -> {"idle", "reserved", "take", "have", "out"}]
    BY DEF Init
  <2>2. cg \in [Clones -> Grants \cup {0}] /\ cold \in [Clones -> BOOLEAN] /\ stale \in [Clones -> BOOLEAN]
    BY DEF Init
  <2>3. pool \in [Grants -> Nat] /\ run \in [Grants -> Nat]
    BY DEF Init
  <2>4. \A c \in Clones : cpc[c] = "idle"
    BY DEF Init
  <2>5. adm \subseteq Grants /\ warm \subseteq Grants /\ fold \in BOOLEAN
    BY Zenon DEF Init
  <2>6. alive \in Int /\ fpc # "restore"
    BY DEF Init
  <2> QED BY <2>1, <2>2, <2>3, <2>4, <2>5, <2>6 DEF HostType
<1>3. Owned /\ OneFill
  BY DEF Init, Owned, OneFill
<1>4. Countable /\ Accounted
  BY <1>1, FS_EmptySet DEF Init, Countable, Accounted, Restoring
<1> QED BY <1>2, <1>3, <1>4 DEF IInv

\* A step that moves no sandbox and no instance.
LEMMA QuietStep ==
    ASSUME IInv, UNCHANGED <<host, cpc, cg, cold, fold>>, Restoring' = Restoring, adm' \subseteq Grants,
           run' \in [Grants -> Nat], stale' \in [Clones -> BOOLEAN], OneFill',
           fpc' = "restore" => fpc = "restore" /\ fg' = fg
    PROVE  IInv'
<1>1. Waiting' = Waiting /\ Taken' = Taken
  BY DEF Waiting, Taken
<1>2. HostType' /\ Owned'
  BY DEF IInv, HostType, Owned
<1>3. Countable' /\ Accounted'
  BY <1>1 DEF IInv, Countable, Accounted
<1> QED BY <1>2, <1>3 DEF IInv

\* The next grant of a pass: only the ledger's count changes.
LEMMA VisitHolds ==
    ASSUME IInv, NEW left, NEW b \in BOOLEAN, Visit(left, b), ~b => fpc = "idle"
    PROVE  IInv'
<1>1. OneFill'
  BY DEF Visit, GoOn, OneFill
<1>2. Restoring' = Restoring
  BY DEF Visit, Restoring
<1> QED BY <1>1, <1>2, QuietStep DEF Visit, IInv, HostType

\* PassBegin, PassNext and PassDecide, which starts a fill when none runs.
LEMMA RunHolds == ASSUME IInv, Run PROVE IInv'
<1>1. CASE PassBegin
  BY <1>1, VisitHolds DEF PassBegin
<1>2. CASE PassNext
  BY <1>2, VisitHolds DEF PassNext, IInv, OneFill
<1>3. CASE PassDecide
  <2>1. OneFill' /\ (fpc' # fpc => fpc = "idle" /\ fpc' = "begun")
    BY <1>3 DEF PassDecide, GoOn, IInv, OneFill
  <2>2. Restoring' = Restoring /\ (fpc' = "restore" => fpc = "restore" /\ fg' = fg)
    BY <1>3, <2>1 DEF PassDecide, Restoring
  <2> QED BY <1>3, <2>1, <2>2, QuietStep DEF PassDecide, IInv, HostType
<1> QED BY <1>1, <1>2, <1>3 DEF Run

\* What a fill leaves behind.
LEMMA SettleIs ==
    ASSUME NEW err, Settle(err)
    PROVE  fpc' = "idle" /\ fg' = 0 /\ fold' = FALSE
BY DEF Settle

\* FillStart: a sandbox is restored for an instance that is there.
LEMMA FillStartHolds == ASSUME IInv, FillStart PROVE IInv'
<1>1. Waiting' = Waiting /\ Taken' = Taken
  BY DEF FillStart, Waiting, Taken, Settle
<1>2. HostType' /\ Owned' /\ OneFill'
  <2>1. CASE fpc' = "idle" /\ fold' = FALSE /\ UNCHANGED alive
    BY <2>1 DEF FillStart, IInv, HostType, Owned, OneFill
  <2>2. CASE fpc' = "restore" /\ fg \in warm /\ alive' = alive + 1 /\ UNCHANGED <<fg, fold>>
    BY <2>2 DEF FillStart, IInv, HostType, Owned, OneFill
  <2> QED BY <2>1, <2>2, SettleIs DEF FillStart
<1>3. Countable'
  BY <1>1 DEF IInv, Countable
<1>4. alive' = alive + (Restoring' - Restoring)
  BY DEF FillStart, Settle, Restoring, IInv, HostType
<1>5. Accounted'
  BY <1>1, <1>3, <1>4, CountsAreNumbers DEF FillStart, IInv, Accounted, Restoring
<1> QED BY <1>2, <1>3, <1>5 DEF IInv

\* FillEnd: the sandbox is kept by an instance that is there, or discarded.
LEMMA FillEndHolds == ASSUME IInv, FillEnd PROVE IInv'
<1>1. Taken' = Taken
  BY DEF FillEnd, Taken
<1>2. fpc = "restore" /\ fpc' = "idle" /\ Restoring = 1 /\ Restoring' = 0
  BY DEF FillEnd, Keep, Settle, Restoring
<1>3. HostType' /\ Owned' /\ OneFill'
  <2>1. fold' = FALSE
    BY SettleIs DEF FillEnd, Keep
  <2>2. pool' \in [Grants -> Nat] /\ alive' \in Int
    BY <1>2 DEF FillEnd, Keep, IInv, HostType
  <2>3. UNCHANGED <<adm, run, warm, ppc, busy, cpc, cg, cold, stale>>
    BY DEF FillEnd
  <2> QED BY <1>2, <2>1, <2>2, <2>3 DEF IInv, HostType, Owned, OneFill
<1>4. CASE pool' = pool /\ alive' = alive - 1
  <2>1. Waiting' = Waiting
    BY <1>4 DEF Waiting
  <2>2. Countable'
    BY <1>1, <2>1 DEF IInv, Countable
  <2>3. Accounted'
    BY <1>1, <1>2, <1>4, <2>1, <2>2, CountsAreNumbers DEF FillEnd, IInv, Accounted
  <2> QED BY <1>3, <2>2, <2>3 DEF IInv
<1>5. CASE ~fold /\ pool' = [pool EXCEPT ![fg] = @ + 1] /\ alive' = alive
  <2>1. fg \in warm /\ fg \in Grants
    BY <1>2, <1>5 DEF IInv, Owned, HostType
  <2>2. IsFiniteSet(Waiting)' /\ Cardinality(Waiting)' = Cardinality(Waiting) + 1
    BY <1>5, <2>1, OneMoreWaits DEF IInv, HostType, Countable
  <2>3. Countable'
    BY <1>1, <2>2 DEF IInv, Countable
  <2>4. alive' = Cardinality(Waiting)' + Cardinality(Taken)' + Restoring'
    BY <1>1, <1>2, <1>5, <2>2, CountsAreNumbers DEF IInv, Accounted
  <2>5. \A g \in Grants : g \notin warm' => pool'[g] = 0
    BY <1>5, <2>1 DEF FillEnd, IInv, Accounted, HostType
  <2> QED BY <1>3, <2>3, <2>4, <2>5 DEF IInv, Accounted
<1> QED BY <1>4, <1>5 DEF FillEnd, Keep
\* A Clone that ends has nothing in hand.
LEMMA LeaveHolds ==
    ASSUME IInv, NEW c \in Clones, Leave(c), UNCHANGED <<adm, warm, ppc, busy, fpc, fg, fold>>,
           pool' \in [Grants -> Nat], alive' \in Int, run' \in [Grants -> Nat]
    PROVE  HostType' /\ Owned' /\ OneFill'
<1>1. /\ cpc' \in [Clones -> {"idle", "reserved", "take", "have", "out"}]
      /\ cg' \in [Clones -> Grants \cup {0}]
      /\ cold' \in [Clones -> BOOLEAN] /\ stale' \in [Clones -> BOOLEAN]
  BY DEF Leave, IInv, HostType
<1>2. cpc'[c] = "idle" /\ \A q \in Clones \ {c} : cpc'[q] = cpc[q] /\ cg'[q] = cg[q] /\ cold'[q] = cold[q]
  BY DEF Leave, IInv, HostType
<1> QED BY <1>1, <1>2 DEF IInv, HostType, Owned, OneFill

\* A birth that asks no pool ends in a commit, or without one.
LEMMA FreshIs ==
    ASSUME HostType, NEW c \in Clones, cpc[c] # "idle", Commit(c) \/ Fresh(c)
    PROVE  Leave(c) /\ run' \in [Grants -> Nat]
BY DEF HostType, Fresh, Commit

\* A Clone that has no sandbox and ends.
LEMMA EndsEmpty ==
    ASSUME IInv, NEW c \in Clones, cpc[c] \notin {"idle", "have"}, Commit(c) \/ Fresh(c),
           UNCHANGED <<adm, host, ppc, busy, fpc, fg, fold>>
    PROVE  IInv'
<1>1. Leave(c) /\ run' \in [Grants -> Nat]
  BY FreshIs DEF IInv
<1>2. HostType' /\ Owned' /\ OneFill'
  BY <1>1, LeaveHolds DEF IInv, HostType
<1>3. cpc'[c] = "idle" /\ \A q \in Clones \ {c} : cpc'[q] = cpc[q]
  BY <1>1 DEF Leave, IInv, HostType
<1>4. Taken' = Taken /\ Waiting' = Waiting /\ Restoring' = Restoring
  BY <1>3, TakenChanges DEF Waiting, Restoring, IInv, Countable
<1>5. Countable' /\ Accounted'
  BY <1>4 DEF IInv, Countable, Accounted
<1> QED BY <1>2, <1>5 DEF IInv

\* CloneBegin: a slot, and no sandbox yet.
LEMMA CloneBeginHolds ==
    ASSUME IInv, NEW c \in Clones, NEW g \in Moving, CloneBegin(c, g)
    PROVE  IInv'
<1>1. cpc[c] # "have" /\ cpc'[c] = "reserved" /\ \A q \in Clones \ {c} : cpc'[q] = cpc[q]
  BY DEF CloneBegin, IInv, HostType
<1>2. Taken' = Taken /\ Waiting' = Waiting /\ Restoring' = Restoring
  BY <1>1, TakenChanges DEF CloneBegin, Waiting, Restoring, IInv, Countable
<1>3. g \in Grants
  BY PoolAssumption
<1>4. /\ cpc' \in [Clones -> {"idle", "reserved", "take", "have", "out"}]
      /\ cg' \in [Clones -> Grants \cup {0}] /\ cpc'[c] = "reserved" /\ cg'[c] = g
      /\ \A q \in Clones \ {c} : cpc'[q] = cpc[q] /\ cg'[q] = cg[q]
  BY <1>3 DEF CloneBegin, IInv, HostType
<1>5. HostType' /\ Owned' /\ OneFill'
  BY <1>3, <1>4 DEF CloneBegin, IInv, HostType, Owned, OneFill
<1>6. Countable' /\ Accounted'
  BY <1>2 DEF CloneBegin, IInv, Countable, Accounted
<1> QED BY <1>5, <1>6 DEF IInv

\* CloneWarm: the instance is there from here on, or cold says otherwise.
LEMMA CloneWarmHolds == ASSUME IInv, NEW c \in Clones, CloneWarm(c) PROVE IInv'
<1>1. cpc[c] # "have" /\ cpc'[c] = "take" /\ \A q \in Clones \ {c} : cpc'[q] = cpc[q]
  BY DEF CloneWarm, IInv, HostType
<1>2. Taken' = Taken /\ Waiting' = Waiting /\ Restoring' = Restoring
  BY <1>1, TakenChanges DEF CloneWarm, Waiting, Restoring, IInv, Countable
<1>3. cg[c] \in Grants
  BY DEF CloneWarm, IInv, HostType
<1>4. /\ cpc' \in [Clones -> {"idle", "reserved", "take", "have", "out"}]
      /\ \A q \in Clones \ {c} : cpc'[q] = cpc[q]
  BY DEF CloneWarm, IInv, HostType
<1>5. HostType' /\ Owned' /\ OneFill'
  BY <1>3, <1>4 DEF CloneWarm, IInv, HostType, Owned, OneFill
<1>6. Countable' /\ Accounted'
  BY <1>2 DEF CloneWarm, IInv, Countable, Accounted
<1> QED BY <1>5, <1>6 DEF IInv

\* CloneTake: a sandbox goes from the pool into the Clone's hands.
LEMMA CloneTakeHolds == ASSUME IInv, NEW c \in Clones, CloneTake(c) PROVE IInv'
<1>1. CASE Fresh(c) /\ UNCHANGED pool
  BY <1>1, EndsEmpty DEF CloneTake
<1>2. CASE /\ pool[cg[c]] > 0 /\ pool' = [pool EXCEPT ![cg[c]] = @ - 1]
           /\ cpc' = [cpc EXCEPT ![c] = "have"] /\ ~cold[c] /\ UNCHANGED <<cg, cold, stale, run>>
  <2>1. cg[c] \in Grants /\ cg[c] \in warm
    BY <1>2 DEF CloneTake, IInv, HostType, Owned
  <2>2. IsFiniteSet(Waiting)' /\ Cardinality(Waiting)' = Cardinality(Waiting) - 1
    BY <1>2, <2>1, OneLessWaits DEF IInv, HostType, Countable
  <2>3. IsFiniteSet(Taken)' /\ Cardinality(Taken)' = Cardinality(Taken) + 1
    <3>1. cpc[c] # "have" /\ cpc'[c] = "have" /\ \A q \in Clones \ {c} : cpc'[q] = cpc[q]
      BY <1>2 DEF CloneTake, IInv, HostType
    <3> QED BY <3>1, TakenChanges DEF IInv, Countable
  <2>4. pool' \in [Grants -> Nat] /\ \A g \in Grants : g \notin warm => pool'[g] = 0
    BY <1>2, <2>1 DEF IInv, HostType, Accounted
  <2>5. /\ cpc' \in [Clones -> {"idle", "reserved", "take", "have", "out"}]
        /\ \A q \in Clones \ {c} : cpc'[q] = cpc[q]
    BY <1>2 DEF IInv, HostType
  <2>6. HostType' /\ Owned' /\ OneFill'
    BY <1>2, <2>1, <2>4, <2>5 DEF CloneTake, IInv, HostType, Owned, OneFill
  <2>7. alive' = Cardinality(Waiting)' + Cardinality(Taken)' + Restoring'
    BY <1>2, <2>2, <2>3, CountsAreNumbers DEF CloneTake, IInv, Accounted, Restoring
  <2> QED BY <2>2, <2>3, <2>4, <2>6, <2>7 DEF CloneTake, IInv, Countable, Accounted
<1> QED BY <1>1, <1>2 DEF CloneTake

\* A Clone whose sandbox is gone ends, or goes on to hand out its count.
LEMMA CloneBindHolds == ASSUME IInv, NEW c \in Clones, CloneBind(c) PROVE IInv'
<1>1. Waiting' = Waiting /\ Restoring' = Restoring
  BY DEF CloneBind, Waiting, Restoring
<1>2. IsFiniteSet(Taken)' /\ Cardinality(Taken)' = Cardinality(Taken) - 1
  <2>1. Leave(c) \/ cpc' = [cpc EXCEPT ![c] = "out"]
    BY FreshIs DEF CloneBind, IInv
  <2>2. cpc[c] = "have" /\ cpc'[c] # "have" /\ \A q \in Clones \ {c} : cpc'[q] = cpc[q]
    BY <2>1 DEF CloneBind, Leave, IInv, HostType
  <2> QED BY <2>2, TakenChanges DEF IInv, Countable
<1>3. HostType' /\ Owned' /\ OneFill'
  <2>1. CASE cpc' = [cpc EXCEPT ![c] = "out"] /\ UNCHANGED <<cg, cold, stale, run>>
    <3>1. /\ cpc' \in [Clones -> {"idle", "reserved", "take", "have", "out"}] /\ cpc'[c] = "out"
          /\ \A q \in Clones \ {c} : cpc'[q] = cpc[q]
      BY <2>1 DEF IInv, HostType
    <3> QED BY <2>1, <3>1 DEF CloneBind, IInv, HostType, Owned, OneFill
  <2>2. CASE Fresh(c)
    BY <2>2, FreshIs, LeaveHolds DEF CloneBind, IInv, HostType
  <2> QED BY <2>1, <2>2 DEF CloneBind
<1>4. alive' = Cardinality(Waiting)' + Cardinality(Taken)' + Restoring'
  BY <1>1, <1>2, CountsAreNumbers DEF CloneBind, IInv, Accounted
<1> QED BY <1>1, <1>2, <1>3, <1>4 DEF CloneBind, IInv, Countable, Accounted

\* CloneGiveUp: the sandbox goes back to its pool, if the instance is there.
LEMMA CloneGiveUpHolds == ASSUME IInv, NEW c \in Clones, CloneGiveUp(c) PROVE IInv'
<1>1. cpc[c] = "have" /\ cg[c] \in Grants /\ Restoring' = Restoring
  BY DEF CloneGiveUp, IInv, HostType, Restoring
<1>2. IsFiniteSet(Taken)' /\ Cardinality(Taken)' = Cardinality(Taken) - 1
  <2>1. cpc'[c] # "have" /\ \A q \in Clones \ {c} : cpc'[q] = cpc[q]
    BY DEF CloneGiveUp, Leave, IInv, HostType
  <2> QED BY <1>1, <2>1, TakenChanges DEF IInv, Countable
<1>3. pool' \in [Grants -> Nat] /\ alive' \in Int
  BY <1>1 DEF CloneGiveUp, ReturnPooled, IInv, HostType
<1>4. HostType' /\ Owned' /\ OneFill'
  BY <1>3, LeaveHolds DEF CloneGiveUp, IInv, HostType
<1>5. CASE cold[c]
  <2>1. Waiting' = Waiting
    BY <1>5 DEF CloneGiveUp, ReturnPooled, Waiting
  <2>2. alive' = Cardinality(Waiting)' + Cardinality(Taken)' + Restoring'
    BY <1>1, <1>2, <1>5, <2>1, CountsAreNumbers DEF CloneGiveUp, ReturnPooled, IInv, Accounted
  <2> QED BY <1>2, <1>4, <1>5, <2>1, <2>2 DEF CloneGiveUp, ReturnPooled, IInv, Countable, Accounted
<1>6. CASE ~cold[c]
  <2>1. cg[c] \in warm
    BY <1>1, <1>6 DEF IInv, Owned
  <2>2. IsFiniteSet(Waiting)' /\ Cardinality(Waiting)' = Cardinality(Waiting) + 1
    BY <1>1, <1>6, OneMoreWaits DEF CloneGiveUp, ReturnPooled, IInv, HostType, Countable
  <2>3. alive' = Cardinality(Waiting)' + Cardinality(Taken)' + Restoring'
    BY <1>1, <1>2, <1>6, <2>2, CountsAreNumbers DEF CloneGiveUp, ReturnPooled, IInv, Accounted
  <2>4. \A g \in Grants : g \notin warm => pool'[g] = 0
    BY <1>6, <2>1 DEF CloneGiveUp, ReturnPooled, IInv, HostType, Accounted
  <2> QED BY <1>2, <1>4, <2>2, <2>3, <2>4 DEF CloneGiveUp, IInv, Countable, Accounted
<1> QED BY <1>5, <1>6

\* Every step of a Clone.
LEMMA CloneHolds == ASSUME IInv, NEW c \in Clones, Clone(c) PROVE IInv'
<1>1. CASE CloneResume(c)
  BY <1>1, EndsEmpty DEF CloneResume
<1>2. CASE HandedOut(c)
  BY <1>2, EndsEmpty DEF HandedOut
<1> QED BY <1>1, <1>2, CloneWarmHolds, CloneTakeHolds, CloneBindHolds, CloneGiveUpHolds DEF Clone

\* A sandbox that dies in its pool, or that the ladder drains.
LEMMA OneLess ==
    ASSUME IInv, NEW g \in Grants, pool[g] > 0, pool' = [pool EXCEPT ![g] = @ - 1], alive' = alive - 1,
           UNCHANGED <<adm, run, warm, ppc, busy, fill, clone>>
    PROVE  IInv'
<1>1. IsFiniteSet(Waiting)' /\ Cardinality(Waiting)' = Cardinality(Waiting) - 1
  BY OneLessWaits DEF IInv, HostType, Countable
<1>2. Taken' = Taken /\ Restoring' = Restoring
  BY DEF Taken, Restoring
<1>3. HostType' /\ Owned' /\ OneFill'
  BY DEF IInv, HostType, Owned, OneFill
<1>4. alive' = Cardinality(Waiting)' + Cardinality(Taken)' + Restoring'
  BY <1>1, <1>2, CountsAreNumbers DEF IInv, Accounted
<1>5. \A h \in Grants : h \notin warm' => pool'[h] = 0
  BY DEF IInv, HostType, Accounted
<1> QED BY <1>1, <1>2, <1>3, <1>4, <1>5 DEF IInv, Countable, Accounted

\* An instance goes with its pool, and who has a sandbox of it is told.
LEMMA WarmGoesHolds ==
    ASSUME IInv, NEW g \in Grants, WarmGoes(g), run' \in [Grants -> Nat],
           UNCHANGED <<adm, ppc, busy, fpc, fg, cpc, cg, stale>>
    PROVE  IInv'
<1>1. IsFiniteSet(Waiting)' /\ Cardinality(Waiting)' = Cardinality(Waiting) - pool[g]
  BY PoolGoes DEF WarmGoes, DrainAll, IInv, HostType, Countable
<1>2. Taken' = Taken /\ Restoring' = Restoring
  BY DEF Taken, Restoring
<1>3. pool' \in [Grants -> Nat] /\ alive' \in Int /\ \A h \in Grants : h \notin warm' => pool'[h] = 0
  BY DEF WarmGoes, DrainAll, IInv, HostType, Accounted
<1>4. fold' \in BOOLEAN /\ cold' \in [Clones -> BOOLEAN]
  BY DEF WarmGoes, IInv, HostType
<1>5. HostType' /\ OneFill'
  BY <1>3, <1>4 DEF WarmGoes, IInv, HostType, OneFill
<1>6. Owned'
  BY DEF WarmGoes, IInv, HostType, Owned
<1>7. alive' = Cardinality(Waiting)' + Cardinality(Taken)' + Restoring'
  BY <1>1, <1>2, CountsAreNumbers DEF WarmGoes, DrainAll, IInv, HostType, Accounted
<1> QED BY <1>1, <1>2, <1>3, <1>5, <1>6, <1>7 DEF IInv, Countable, Accounted

\* Admit: one more instance is there, with an empty pool.
LEMMA AdmitHolds == ASSUME IInv, NEW g \in Grants, Admit(g) PROVE IInv'
<1>1. Waiting' = Waiting /\ Taken' = Taken /\ Restoring' = Restoring
  BY DEF Admit, Waiting, Taken, Restoring
<1>2. HostType' /\ Owned' /\ OneFill'
  BY DEF Admit, IInv, HostType, Owned, OneFill
<1>3. Countable' /\ Accounted'
  BY <1>1 DEF Admit, IInv, Countable, Accounted
<1> QED BY <1>2, <1>3 DEF IInv

\* What the ledger alone sees: a timer, a fiber's end, a revocation and the
\* ladder's readings.
LEMMA LedgerStepHolds ==
    ASSUME IInv, NEW g \in Grants,
           HoldOver(g) \/ FiberEnds(g) \/ YieldBegin(g) \/ Press(g) \/ Ease(g) \/ Reclaim(g) \/ Stuck(g)
    PROVE  IInv'
<1>1. UNCHANGED <<host, cpc, cg, cold, fpc, fg, fold, ppc, busy>>
  BY DEF HoldOver, FiberEnds, YieldBegin, Press, Ease, Reclaim, Stuck
<1>2. adm' \subseteq Grants /\ run' \in [Grants -> Nat] /\ stale' \in [Clones -> BOOLEAN]
  <2>1. CASE HoldOver(g) \/ Press(g) \/ Ease(g)
    BY <2>1 DEF HoldOver, Press, Ease, IInv, HostType
  <2>2. CASE FiberEnds(g) \/ Reclaim(g)
    BY <2>2 DEF FiberEnds, Reclaim, IInv, HostType
  <2>3. CASE YieldBegin(g) \/ Stuck(g)
    <3>1. Revoke(g) \/ UNCHANGED <<adm, run, stale>>
      BY <2>3 DEF YieldBegin, Stuck
    <3>2. CASE Revoke(g)
      <4>1. stale' \in [Clones -> BOOLEAN]
        BY <3>2 DEF Revoke
      <4> QED BY <3>2, <4>1 DEF Revoke, IInv, HostType
    <3>3. CASE UNCHANGED <<adm, run, stale>>
      BY <3>3 DEF IInv, HostType
    <3> QED BY <3>1, <3>2, <3>3
  <2> QED BY <2>1, <2>2, <2>3
<1>3. OneFill' /\ Restoring' = Restoring
  BY <1>1 DEF IInv, OneFill, Restoring
<1> QED BY <1>1, <1>2, <1>3, QuietStep

\* Every step keeps the invariant.
LEMMA NextHolds == ASSUME IInv, [Next]_vars PROVE IInv'
<1>1. CASE UNCHANGED vars
  BY <1>1, QuietStep DEF vars, IInv, HostType, OneFill, Restoring
<1>2. CASE Run \/ Fill
  BY <1>2, RunHolds, FillStartHolds, FillEndHolds DEF Fill
<1>3. CASE \E c \in Clones : Clone(c) \/ \E g \in Moving : CloneBegin(c, g)
  BY <1>3, CloneHolds, CloneBeginHolds
<1>4. ASSUME NEW g \in Grants, PooledGone(g) \/ Drain(g) PROVE IInv'
  BY <1>4, OneLess DEF PooledGone, Drain
<1>5. ASSUME NEW g \in Grants, WarmGone(g) \/ DropTemplate(g) PROVE IInv'
  <2>1. run' \in [Grants -> Nat]
    BY <1>5 DEF WarmGone, DropTemplate, IInv, HostType
  <2> QED BY <1>5, <2>1, WarmGoesHolds DEF WarmGone, DropTemplate
<1> QED BY <1>1, <1>2, <1>3, <1>4, <1>5, AdmitHolds, LedgerStepHolds DEF Next, Evaluate

\* The inductive invariant of the pools holds in every state.
THEOREM PoolInvariant == Spec => []IInv
BY InitHolds, NextHolds, PTL DEF Spec

\* Accounted: every sandbox restored ahead is in the pool of an instance the
\* host has, or in the hands of the one fill or of one Clone.
THEOREM PoolAccounted == Spec => []Accounted
<1>1. IInv => Accounted
  BY DEF IInv
<1> QED BY <1>1, PoolInvariant, PTL

(***************************************************************************)
(* The ceiling.                                                            *)
(***************************************************************************)

\* A step that adds no fiber and touches no reservation.
LEMMA NoMoreLive ==
    ASSUME HostType, WithinMax, UNCHANGED <<cg, stale>>, run' \in [Grants -> Nat],
           \A h \in Grants : run'[h] <= run[h]
    PROVE  WithinMax'
<1> SUFFICES ASSUME NEW h \in Grants
             PROVE  IsFiniteSet(Reserved(h))' /\ run'[h] + Cardinality(Reserved(h))' <= FiberMax
  BY DEF WithinMax
<1>1. Reserved(h)' = Reserved(h)
  BY DEF Reserved
<1>2. IsFiniteSet(Reserved(h)) /\ run[h] + Cardinality(Reserved(h)) <= FiberMax
  BY DEF WithinMax
<1>3. Cardinality(Reserved(h)) \in Nat
  BY <1>2, FS_CardinalityType
<1> QED BY <1>1, <1>2, <1>3, PoolAssumption DEF HostType

\* A Clone that ends gives its slot back, or a fiber has it.
LEMMA LeaveWithin ==
    ASSUME HostType, WithinMax, NEW c \in Clones, Leave(c), cg[c] \in Grants,
           run' = run \/ (~stale[c] /\ run' = [run EXCEPT ![cg[c]] = @ + 1])
    PROVE  WithinMax'
<1> SUFFICES ASSUME NEW h \in Grants
             PROVE  IsFiniteSet(Reserved(h))' /\ run'[h] + Cardinality(Reserved(h))' <= FiberMax
  BY DEF WithinMax
<1>1. Reserved(h)' = Reserved(h) \ {c}
  BY PoolAssumption DEF Leave, HostType, Reserved
<1>2. IsFiniteSet(Reserved(h)) /\ run[h] + Cardinality(Reserved(h)) <= FiberMax
  BY DEF WithinMax
<1>3. Cardinality(Reserved(h)) \in Nat /\ run[h] \in Nat
  BY <1>2, FS_CardinalityType DEF HostType
<1>4. /\ IsFiniteSet(Reserved(h))'
      /\ Cardinality(Reserved(h))' = IF c \in Reserved(h) THEN Cardinality(Reserved(h)) - 1
                                                           ELSE Cardinality(Reserved(h))
  BY <1>1, <1>2, FS_RemoveElement
<1>5. run'[h] = run[h] \/ (c \in Reserved(h) /\ run'[h] = run[h] + 1)
  BY DEF HostType, Reserved
<1> QED BY <1>2, <1>3, <1>4, <1>5, PoolAssumption

\* CloneBegin: a slot is reserved below the ceiling.
LEMMA BeginWithin ==
    ASSUME HostType, WithinMax, NEW c \in Clones, NEW g \in Moving, CloneBegin(c, g)
    PROVE  WithinMax'
<1> SUFFICES ASSUME NEW h \in Grants
             PROVE  IsFiniteSet(Reserved(h))' /\ run'[h] + Cardinality(Reserved(h))' <= FiberMax
  BY DEF WithinMax
<1>1. IsFiniteSet(Reserved(h)) /\ run[h] + Cardinality(Reserved(h)) <= FiberMax
  BY DEF WithinMax
<1>2. Cardinality(Reserved(h)) \in Nat /\ run[h] \in Nat /\ run'[h] = run[h]
  BY <1>1, FS_CardinalityType DEF CloneBegin, HostType
<1>3. CASE h = g /\ ~stale[c]
  <2>1. Reserved(h)' = Reserved(h) \cup {c}
    BY <1>3 DEF CloneBegin, HostType, Reserved
  <2>2. run[h] + Cardinality(Reserved(h)) < FiberMax
    BY <1>3 DEF CloneBegin, Live, Reserved
  <2>3. /\ IsFiniteSet(Reserved(h))'
        /\ Cardinality(Reserved(h))' = IF c \in Reserved(h) THEN Cardinality(Reserved(h))
                                                             ELSE Cardinality(Reserved(h)) + 1
    BY <1>1, <2>1, FS_AddElement
  <2> QED BY <1>2, <2>2, <2>3, PoolAssumption
<1>4. CASE h # g \/ stale[c]
  <2>1. Reserved(h)' = Reserved(h) \ {c}
    BY <1>4 DEF CloneBegin, HostType, Reserved
  <2>2. /\ IsFiniteSet(Reserved(h))'
        /\ Cardinality(Reserved(h))' = IF c \in Reserved(h) THEN Cardinality(Reserved(h)) - 1
                                                             ELSE Cardinality(Reserved(h))
    BY <1>1, <2>1, FS_RemoveElement
  <2> QED BY <1>1, <1>2, <2>2, PoolAssumption
<1> QED BY <1>3, <1>4

\* Revoke: the grant has no fibers, and no reservation counts for it.
LEMMA RevokeWithin ==
    ASSUME HostType, WithinMax, NEW g \in Grants, Revoke(g), UNCHANGED cg
    PROVE  WithinMax'
<1> SUFFICES ASSUME NEW h \in Grants
             PROVE  IsFiniteSet(Reserved(h))' /\ run'[h] + Cardinality(Reserved(h))' <= FiberMax
  BY DEF WithinMax
<1>1. CASE h = g
  <2>1. Reserved(h)' = {} /\ run'[h] = 0
    BY <1>1 DEF Revoke, HostType, Reserved
  <2> QED BY <2>1, FS_EmptySet, PoolAssumption
<1>2. CASE h # g
  <2>1. Reserved(h)' = Reserved(h) /\ run'[h] = run[h]
    BY <1>2 DEF Revoke, HostType, Reserved
  <2> QED BY <2>1 DEF WithinMax
<1> QED BY <1>1, <1>2

\* Every step stays within the ceiling.
LEMMA NextWithin == ASSUME IInv, WithinMax, [Next]_vars PROVE WithinMax'
<1> USE DEF IInv
<1>1. CASE UNCHANGED vars
  BY <1>1, NoMoreLive DEF vars, HostType
<1>2. CASE Run \/ Fill
  <2>1. UNCHANGED <<run, cg, stale>>
    BY <1>2 DEF Run, PassBegin, PassNext, PassDecide, Visit, Fill, FillStart, FillEnd
  <2> QED BY <2>1, NoMoreLive DEF HostType
<1>3. ASSUME NEW c \in Clones, Clone(c) PROVE WithinMax'
  <2>1. CASE UNCHANGED <<run, cg, stale>>
    BY <2>1, NoMoreLive DEF HostType
  <2>2. CASE Leave(c) /\ cpc[c] # "idle" /\ (run' = run \/ (~stale[c] /\ run' = [run EXCEPT ![cg[c]] = @ + 1]))
    BY <2>2, LeaveWithin DEF HostType
  <2>3. Fresh(c) \/ Commit(c) \/ (Leave(c) /\ UNCHANGED run) =>
            Leave(c) /\ (run' = run \/ (~stale[c] /\ run' = [run EXCEPT ![cg[c]] = @ + 1]))
    BY DEF Fresh, Commit, HostType
  <2> QED
    BY <1>3, <2>1, <2>2, <2>3
    DEF Clone, CloneResume, CloneWarm, CloneTake, CloneGiveUp, CloneBind, HandedOut
<1>4. ASSUME NEW g \in Grants,
             \/ HoldOver(g) \/ FiberEnds(g) \/ PooledGone(g) \/ WarmGone(g) \/ Admit(g)
             \/ DropTemplate(g) \/ Press(g) \/ Ease(g) \/ Drain(g) \/ Reclaim(g)
      PROVE  WithinMax'
  <2>1. UNCHANGED <<cg, stale>>
    BY <1>4 DEF HoldOver, FiberEnds, PooledGone, WarmGone, Admit, DropTemplate, Press, Ease, Drain, Reclaim
  <2>2. run' = run \/ run' = [run EXCEPT ![g] = 0] \/ (run[g] > 0 /\ run' = [run EXCEPT ![g] = @ - 1])
    BY <1>4 DEF HoldOver, FiberEnds, PooledGone, WarmGone, Admit, DropTemplate, Press, Ease, Drain, Reclaim
  <2>3. run' \in [Grants -> Nat] /\ \A h \in Grants : run'[h] <= run[h]
    BY <2>2 DEF HostType
  <2> QED BY <2>1, <2>3, NoMoreLive
<1>5. ASSUME NEW g \in Grants, YieldBegin(g) \/ Stuck(g) PROVE WithinMax'
  <2>1. UNCHANGED cg /\ (Revoke(g) \/ UNCHANGED <<run, stale>>)
    BY <1>5 DEF YieldBegin, Stuck
  <2> QED BY <2>1, RevokeWithin, NoMoreLive DEF HostType
<1> QED BY <1>1, <1>2, <1>3, <1>4, <1>5, BeginWithin DEF Next, Evaluate

\* A grant's fibers and the slots its Clones have reserved stay within
\* fibers.max (CloneBegin, Commit, Revoke), whatever is refilled and drained.
THEOREM PoolWithinMax == Spec => [](\A g \in Grants : Live(g) <= FiberMax)
<1>1. Init => WithinMax
  <2> SUFFICES ASSUME Init, NEW g \in Grants
               PROVE  IsFiniteSet(Reserved(g)) /\ run[g] + Cardinality(Reserved(g)) <= FiberMax
    BY DEF WithinMax
  <2>1. Reserved(g) = {} /\ run[g] = 0
    BY PoolAssumption DEF Init, Reserved
  <2> QED BY <2>1, FS_EmptySet, PoolAssumption
<1>2. WithinMax => \A g \in Grants : Live(g) <= FiberMax
  BY DEF WithinMax, Live, Reserved
<1> QED BY <1>1, <1>2, PoolInvariant, NextWithin, PTL DEF Spec

===============================================================================
