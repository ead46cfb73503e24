----------------------------- MODULE PoolLadder -----------------------------
(***************************************************************************)
(* The pools of sandboxes restored ahead of their fibers, and the pressure *)
(* ladder that empties them: pkg/core/pool.go and pressure.go, over        *)
(* pkg/runtime/host/pool_linux.go.                                         *)
(*                                                                         *)
(* Five kinds of goroutines meet here: the core's loop that takes a refill *)
(* pass (Pass), the one fill at a time, Clones that take from a pool, the  *)
(* ladder, and admissions and yields.  The ledger's count of a pool is a   *)
(* copy that each of them refreshes, a Clone in the two steps in which it  *)
(* may go stale.                                                           *)
(*                                                                         *)
(* A pool is a number: sandboxes of one warm instance are alike.  A pass   *)
(* is taken at every tick, so the kicks that bring one forward are left    *)
(* out, and so is a home that drains, which takes none.  A backoff is a    *)
(* flag that the timer clears.  The fibers of a grant that is yielded go   *)
(* with its revocation (FiberCore has them one by one), and a discard with *)
(* the step that took the sandboxes out of their pool.                     *)
(***************************************************************************)
EXTENDS Integers, FiniteSets, SequencesExt

CONSTANTS
    Grants,         \* numbers, in the order of their uids
    Moving,         \* the grants that are cloned, yielded and pressed, the
                    \* others only wait for their turn
    Clones,         \* Clone goroutines
    FiberWarm, FiberMax, YieldAfter

ASSUME PoolAssumption ==
    /\ Grants \subseteq Nat \ {0} /\ Moving \subseteq Grants
    /\ FiberWarm \in Nat /\ FiberMax \in Nat \ {0} /\ YieldAfter \in Nat \ {0}

VARIABLES
    adm,                    \* the ledger's grants
    leaving,                \* grants revoked whose template is not dropped yet
    warm, noPool,           \* r.warms, and those whose backend cannot pool
    pool,                   \* z.pool of the warm instance of a grant
    alive,                  \* sandboxes restored and not yet a fiber's
    run,                    \* fibers
    led,                    \* the ledger's copy of Len(z.pool)
    ps,                     \* poolState
    last,                   \* lastFill
    ppc, queue, busy,       \* the refill pass
    fpc, fg, fold,          \* the fill, its grant and whether its warm has gone
    cpc, cg, cold, stale,   \* Clones; their warm, their ledger entry has gone
    shed, stuck,            \* the ladder's maps
    pressed,                \* readings are at the park watermark from here on
    seen                    \* the count that a Clone's syncPooled has read

host == <<warm, noPool, pool, alive>>
ledger == <<adm, run>>
fill == <<fpc, fg, fold>>
pass == <<ppc, queue, busy>>
clone == <<cpc, cg, cold, stale>>
ladder == <<shed, stuck, pressed>>
vars == <<ledger, leaving, host, led, ps, last, pass, fill, clone, ladder, seen>>

\* All grants are admitted and warm, and no pool is filled.
Init ==
    /\ adm = Grants /\ leaving = {}
    /\ warm = Grants /\ noPool = {} /\ pool = [g \in Grants |-> 0] /\ alive = 0
    /\ run = [g \in Grants |-> 0] /\ led = [g \in Grants |-> 0]
    /\ ps = [g \in Grants |-> "gone"] /\ last = 0
    /\ ppc = "idle" /\ queue = << >> /\ busy = FALSE
    /\ fpc = "idle" /\ fg = 0 /\ fold = FALSE
    /\ cpc = [c \in Clones |-> "idle"] /\ cg = [c \in Clones |-> 0]
    /\ cold = [c \in Clones |-> FALSE] /\ stale = [c \in Clones |-> FALSE]
    /\ shed = {} /\ stuck = [g \in Grants |-> 0] /\ pressed = {}
    /\ seen = [s \in Clones |-> 0]

(***************************************************************************)
(* Counts.                                                                 *)
(***************************************************************************)

Pooled(g) == pool[g]

\* Fibers and reservations of the ledger's entry.
Live(g) == run[g] + Cardinality({c \in Clones : cg[c] = g /\ ~stale[c]})

PoolRoom(g) ==
    LET byMax == FiberMax - Live(g) - led[g]
        byWarm == FiberWarm - led[g]
    IN  IF g \notin adm THEN 0 ELSE IF byMax < byWarm THEN byMax ELSE byWarm

\* syncPooled: the runtime's count, in the ledger's entry.
Synced(g, n) == IF g \in adm THEN [led EXCEPT ![g] = n] ELSE led

\* delay.
Delayed(g) == [ps EXCEPT ![g] = IF @ = "nopool" THEN @ ELSE "held"]

(***************************************************************************)
(* The refill pass, taken by the core's loop.                              *)
(***************************************************************************)

\* Statuses: the admitted grants, sorted by uid.
Sorted == SetToSortSeq(Grants, <)

\* Grants that never take turns: the lowest uid is always first.
TurnsNot == SelectSeq(Sorted, LAMBDA g : g \in adm)

\* The grants above the last one filled, then the others.
Turns ==
    SelectSeq(Sorted, LAMBDA g : g \in adm /\ g > last)
        \o SelectSeq(Sorted, LAMBDA g : g \in adm /\ g <= last)

\* The pass goes on to the grants left, or is over.
GoOn(left, b) ==
    /\ queue' = left /\ ppc' = IF left = << >> THEN "idle" ELSE "next"
    /\ busy' = (left # << >> /\ b)

\* The ladder is not asked.
SheddingNot(g) == FALSE

Shedding(g) == g \in shed

\* The count is brought up to date; a grant that was revoked meanwhile, or
\* sheds, is passed over.
Visit(left, b) ==
    LET g == Head(left)
    IN  /\ led' = Synced(g, Pooled(g))
        /\ \/ (g \notin adm \/ Shedding(g)) /\ GoOn(Tail(left), b)
           \/ g \in adm /\ ~Shedding(g) /\ ppc' = "decide" /\ queue' = left /\ busy' = b
        /\ UNCHANGED <<ledger, leaving, host, ps, last, fill, clone, ladder, seen>>

\* Whether a fill runs is read once, at the start of a pass.
PassBegin == ppc = "idle" /\ Turns # << >> /\ Visit(Turns, fpc # "idle")

PassNext == ppc = "next" /\ Visit(queue, busy)

\* Under poolMu: a state is made for the grant, and a fill starts if none
\* runs, the grant is not held, there is room and the rate limit agrees.
PassDecide ==
    LET g == Head(queue)
        made == [ps EXCEPT ![g] = IF @ = "gone" THEN "ready" ELSE @]
        wanted == made[g] = "ready" /\ ~busy /\ PoolRoom(g) > 0
    IN  /\ ppc = "decide"
        /\ \/ /\ ~wanted /\ ps' = made /\ GoOn(Tail(queue), busy) /\ UNCHANGED <<last, fpc, fg>>
           \/ /\ wanted /\ ps' = Delayed(g) /\ GoOn(Tail(queue), busy) /\ UNCHANGED <<last, fpc, fg>>
           \/ /\ wanted /\ ps' = made /\ last' = g /\ fpc' = "begun" /\ fg' = g
              /\ GoOn(Tail(queue), TRUE)
        /\ UNCHANGED <<ledger, leaving, host, led, fold, clone, ladder, seen>>

\* The timer of a backoff.
HoldOver(g) ==
    /\ ps[g] = "held" /\ ps' = [ps EXCEPT ![g] = "ready"]
    /\ UNCHANGED <<ledger, leaving, host, led, last, pass, fill, clone, ladder, seen>>

(***************************************************************************)
(* A fill.                                                                 *)
(***************************************************************************)

\* fill once Fill is back: filling is cleared, the state that is there takes
\* the result, and the ledger's count is brought up to date.
Settle(err) ==
    /\ fpc' = "idle" /\ fg' = 0 /\ fold' = FALSE
    /\ ps' = CASE ps[fg] = "gone" \/ err = "none" -> ps
               [] ps[fg] # "gone" /\ err = "nopool" -> [ps EXCEPT ![fg] = "nopool"]
               [] OTHER -> Delayed(fg)
    /\ led' = Synced(fg, pool'[fg])

\* Fill asks for the warm instance, its memory and then the backend.
FillStart ==
    /\ fpc = "begun"
    /\ \/ UNCHANGED <<pool, alive>> /\ Settle(IF fg \in noPool THEN "nopool" ELSE "failed")
       \/ /\ fg \in warm \ noPool /\ fpc' = "restore" /\ alive' = alive + 1
          /\ UNCHANGED <<pool, fg, fold, ps, led>>
    /\ UNCHANGED <<ledger, leaving, warm, noPool, last, pass, clone, ladder, seen>>

\* A sandbox joins the pool of a warm instance that has gone.
KeepUnchecked ==
    IF fold THEN UNCHANGED <<pool, alive>> /\ Settle("none")
            ELSE pool' = [pool EXCEPT ![fg] = @ + 1] /\ UNCHANGED alive /\ Settle("none")

\* The restore came back: the sandbox joins its pool, or is discarded if
\* the template went while it ran.
Keep ==
    IF fold THEN UNCHANGED pool /\ alive' = alive - 1 /\ Settle("failed")
            ELSE pool' = [pool EXCEPT ![fg] = @ + 1] /\ UNCHANGED alive /\ Settle("none")

\* Pool answers: a sandbox, a failure (a yield to a Clone's restore too), or
\* that this template cannot pool.
FillEnd ==
    /\ fpc = "restore"
    /\ \/ Keep /\ UNCHANGED noPool
       \/ UNCHANGED <<pool, noPool>> /\ alive' = alive - 1 /\ Settle("failed")
       \/ /\ UNCHANGED pool /\ alive' = alive - 1 /\ Settle("nopool")
          /\ noPool' = IF fold THEN noPool ELSE noPool \cup {fg}
    /\ UNCHANGED <<ledger, leaving, warm, last, pass, clone, ladder, seen>>

(***************************************************************************)
(* Clones.                                                                 *)
(***************************************************************************)

Leave(c) ==
    /\ cpc' = [cpc EXCEPT ![c] = "idle"] /\ cg' = [cg EXCEPT ![c] = 0]
    /\ cold' = [cold EXCEPT ![c] = FALSE] /\ stale' = [stale EXCEPT ![c] = FALSE]

\* commit, and a birth that it refuses.
Commit(c) ==
    /\ run' = IF stale[c] THEN run ELSE [run EXCEPT ![cg[c]] = @ + 1]
    /\ Leave(c)

\* A birth that asks no pool: a restore on demand, a resume.
Fresh(c) == Commit(c) \/ (Leave(c) /\ UNCHANGED run)

\* The shed rung is read, and a slot reserved.
CloneBegin(c, g) ==
    /\ cpc[c] = "idle" /\ g \in adm \ shed /\ Live(g) < FiberMax
    /\ cpc' = [cpc EXCEPT ![c] = "reserved"] /\ cg' = [cg EXCEPT ![c] = g]
    /\ UNCHANGED <<ledger, leaving, host, led, ps, last, pass, fill, cold, stale, ladder, seen>>

CloneResume(c) ==
    /\ cpc[c] = "reserved" /\ Fresh(c)
    /\ UNCHANGED <<adm, leaving, host, led, ps, last, pass, fill, ladder, seen>>

\* The warm instance, warmed on demand when it is not there.
CloneWarm(c) ==
    /\ cpc[c] = "reserved" /\ cpc' = [cpc EXCEPT ![c] = "take"]
    /\ warm' = warm \cup {cg[c]}
    /\ UNCHANGED <<ledger, leaving, noPool, pool, alive, led, ps, last, pass, fill, cg, cold, stale,
                   ladder, pressed, seen>>

\* takePooled; an instance that has gone has no pool.
CloneTake(c) ==
    /\ cpc[c] = "take"
    /\ \/ /\ ~cold[c] /\ pool[cg[c]] > 0 /\ pool' = [pool EXCEPT ![cg[c]] = @ - 1]
          /\ cpc' = [cpc EXCEPT ![c] = "have"] /\ UNCHANGED <<cg, cold, stale, run>>
       \/ (cold[c] \/ pool[cg[c]] = 0) /\ Fresh(c) /\ UNCHANGED pool
    /\ UNCHANGED <<adm, leaving, warm, noPool, alive, led, ps, last, pass, fill, ladder, seen>>

\* returnPooled: the template may have gone meanwhile.
ReturnPooled(c) ==
    IF cold[c] THEN alive' = alive - 1 /\ UNCHANGED pool
               ELSE pool' = [pool EXCEPT ![cg[c]] = @ + 1] /\ UNCHANGED alive

\* giveUp, before the backend is asked.
CloneGiveUp(c) ==
    /\ cpc[c] = "have" /\ ReturnPooled(c) /\ Leave(c)
    /\ UNCHANGED <<ledger, leaving, warm, noPool, led, ps, last, pass, fill, ladder, seen>>

\* Bind: the sandbox is a fiber, and its hand-out is counted; or it is spent
\* and the birth goes on without.
CloneBind(c) ==
    /\ cpc[c] = "have" /\ alive' = alive - 1
    /\ \/ /\ cpc' = [cpc EXCEPT ![c] = "out"] /\ seen' = [seen EXCEPT ![c] = Pooled(cg[c])]
          /\ UNCHANGED <<cg, cold, stale, run>>
       \/ Fresh(c) /\ UNCHANGED seen
    /\ UNCHANGED <<adm, leaving, warm, noPool, pool, led, ps, last, pass, fill, ladder>>

\* handedOut, whose count may be stale when it is written, and the commit.
HandedOut(c) ==
    /\ cpc[c] = "out" /\ led' = Synced(cg[c], seen[c]) /\ Commit(c)
    /\ seen' = [seen EXCEPT ![c] = 0]
    /\ UNCHANGED <<adm, leaving, host, ps, last, pass, fill, ladder>>

(***************************************************************************)
(* What ends by itself.                                                    *)
(***************************************************************************)

FiberEnds(g) ==
    /\ run[g] > 0 /\ run' = [run EXCEPT ![g] = @ - 1]
    /\ UNCHANGED <<adm, leaving, host, led, ps, last, pass, fill, clone, ladder, seen>>

\* pooledGone, and the pooledDied that the core's loop answers it with.
PooledGone(g) ==
    /\ g \in Moving /\ pool[g] > 0 /\ pool' = [pool EXCEPT ![g] = @ - 1] /\ alive' = alive - 1
    /\ ps' = Delayed(g) /\ led' = Synced(g, pool'[g])
    /\ UNCHANGED <<ledger, leaving, warm, noPool, last, pass, fill, clone, ladder, seen>>

\* drainAll, and the discard.
DrainAll(g) == pool' = [pool EXCEPT ![g] = 0] /\ alive' = alive - pool[g]

\* The warm instance goes, and every goroutine that has it has an old one.
WarmGoes(g) ==
    /\ warm' = warm \ {g} /\ noPool' = noPool \ {g} /\ DrainAll(g)
    /\ fold' = (fold \/ (fpc = "restore" /\ fg = g))
    /\ cold' = [c \in Clones |-> cold[c] \/ (cg[c] = g /\ cpc[c] \in {"take", "have"})]

\* warmGone: an instance that exits takes its fibers with it.
WarmGone(g) ==
    /\ g \in warm \cap Moving /\ WarmGoes(g) /\ run' = [run EXCEPT ![g] = 0]
    /\ UNCHANGED <<adm, leaving, led, ps, last, pass, fpc, fg, cpc, cg, stale, ladder,
                   seen>>

(***************************************************************************)
(* Admission and yield.                                                    *)
(***************************************************************************)

\* Admit: the template is prepared, unless it is there, and then the grant
\* admitted.  Admission has the admission and the yield that overlap.
Admit(g) ==
    /\ g \in Moving \ (adm \cup leaving) /\ warm' = warm \cup {g} /\ adm' = adm \cup {g}
    /\ led' = [led EXCEPT ![g] = 0]
    /\ UNCHANGED <<run, leaving, noPool, pool, alive, ps, last, pass, fill, clone, ladder, seen>>

\* Revoke: the ledger's entry and the pool state go.
Revoke(g) ==
    /\ leaving' = leaving \cup {g}
    /\ adm' = adm \ {g} /\ run' = [run EXCEPT ![g] = 0] /\ ps' = [ps EXCEPT ![g] = "gone"]
    /\ stale' = [c \in Clones |-> stale[c] \/ cg[c] = g]

YieldBegin(g) ==
    /\ g \in Moving \cap adm /\ Revoke(g)
    /\ UNCHANGED <<host, led, last, pass, fill, cpc, cg, cold, ladder, seen>>

DropTemplate(g) ==
    /\ g \in leaving /\ leaving' = leaving \ {g} /\ WarmGoes(g)
    /\ UNCHANGED <<ledger, led, ps, last, pass, fpc, fg, cpc, cg, stale, ladder, seen>>

(***************************************************************************)
(* The ladder: what an evaluation of a grant finds.                        *)
(***************************************************************************)

Press(g) ==
    /\ g \in Moving \ pressed /\ pressed' = pressed \cup {g}
    /\ UNCHANGED <<ledger, leaving, host, led, ps, last, pass, fill, clone, shed, stuck, seen>>

\* A reading below the park watermark: at the shed watermark, or clear.
Ease(g) ==
    /\ g \in (adm \cap Moving) \ pressed /\ shed' \in {shed \cup {g}, shed \ {g}}
    /\ stuck' = [stuck EXCEPT ![g] = 0]
    /\ UNCHANGED <<ledger, leaving, host, led, ps, last, pass, fill, clone, pressed, seen>>

\* A reading at the park watermark.
Parks(g) == g \in adm \cap Moving /\ shed' = shed \cup {g} /\ UNCHANGED pressed

\* One pooled sandbox is drained,
Drain(g) ==
    /\ Parks(g) /\ pool[g] > 0 /\ stuck' = [stuck EXCEPT ![g] = 0]
    /\ pool' = [pool EXCEPT ![g] = @ - 1] /\ alive' = alive - 1 /\ led' = Synced(g, pool'[g])
    /\ UNCHANGED <<ledger, leaving, warm, noPool, ps, last, pass, fill, clone, seen>>

\* or one fiber parked or released,
Reclaim(g) ==
    /\ Parks(g) /\ pool[g] = 0 /\ run[g] > 0 /\ stuck' = [stuck EXCEPT ![g] = 0]
    /\ run' = [run EXCEPT ![g] = @ - 1]
    /\ UNCHANGED <<adm, leaving, host, led, ps, last, pass, fill, clone, seen>>

\* or nothing is reclaimed, which at last yields the grant.
Stuck(g) ==
    /\ Parks(g) /\ pool[g] = 0
    /\ \/ /\ stuck[g] + 1 < YieldAfter /\ stuck' = [stuck EXCEPT ![g] = @ + 1]
          /\ UNCHANGED <<ledger, leaving, ps, stale>>
       \/ stuck[g] + 1 >= YieldAfter /\ stuck' = [stuck EXCEPT ![g] = 0] /\ Revoke(g)
    /\ UNCHANGED <<host, led, last, pass, fill, cpc, cg, cold, seen>>

Run == PassBegin \/ PassNext \/ PassDecide
Fill == FillStart \/ FillEnd
Clone(c) == CloneResume(c) \/ CloneWarm(c) \/ CloneTake(c) \/ CloneGiveUp(c) \/ CloneBind(c) \/ HandedOut(c)
Evaluate(g) == Ease(g) \/ Drain(g) \/ Reclaim(g) \/ Stuck(g)

Next ==
    \/ Run \/ Fill
    \/ \E c \in Clones : Clone(c) \/ \E g \in Moving : CloneBegin(c, g)
    \/ \E g \in Grants :
          \/ HoldOver(g) \/ FiberEnds(g) \/ PooledGone(g) \/ WarmGone(g)
          \/ Admit(g) \/ YieldBegin(g) \/ DropTemplate(g) \/ Press(g) \/ Evaluate(g)

\* The core's loop and the ladder's tick, the fill and the yield under way
\* go on.  Nothing is assumed of Clones, of timers and of what may begin.
Fairness ==
    /\ WF_vars(Run) /\ WF_vars(Fill)
    /\ \A g \in Moving : WF_vars(DropTemplate(g)) /\ WF_vars(Evaluate(g))

Spec == Init /\ [][Next]_vars /\ Fairness

(***************************************************************************)
(* Properties.                                                             *)
(***************************************************************************)

TypeOK ==
    /\ adm \subseteq Grants /\ leaving \subseteq Grants /\ warm \subseteq Grants /\ noPool \subseteq warm
    /\ pool \in [Grants -> Nat] /\ led \in [Grants -> Nat] /\ alive \in Nat /\ run \in [Grants -> 0 .. FiberMax]
    /\ ps \in [Grants -> {"gone", "ready", "held", "nopool"}] /\ last \in Grants \cup {0}
    /\ ppc \in {"idle", "next", "decide"} /\ queue \in Seq(Grants) /\ busy \in BOOLEAN
    /\ fpc \in {"idle", "begun", "restore"} /\ fg \in Grants \cup {0} /\ fold \in BOOLEAN
    /\ cpc \in [Clones -> {"idle", "reserved", "take", "have", "out"}]
    /\ cg \in [Clones -> Grants \cup {0}] /\ cold \in [Clones -> BOOLEAN] /\ stale \in [Clones -> BOOLEAN]
    /\ shed \subseteq Grants /\ stuck \in [Grants -> 0 .. YieldAfter - 1] /\ pressed \subseteq Grants
    /\ seen \in [Clones -> Nat]

\* The sandboxes that wait in a pool, the Clones that have taken one, and
\* whether a fill restores one.
Waiting == UNION {{<<g, n>> : n \in 1 .. pool[g]} : g \in Grants}
Taken == {c \in Clones : cpc[c] = "have"}
Restoring == IF fpc = "restore" THEN 1 ELSE 0

\* Every sandbox restored ahead is in the pool of a warm instance the host
\* still has, or in the hands of one fill or one Clone: none outlives its
\* template unowned, and none is handed out twice (Fill, returnPooled).
Accounted ==
    /\ alive = Cardinality(Waiting) + Cardinality(Taken) + Restoring
    /\ \A g \in Grants : g \notin warm => pool[g] = 0

\* What the pass looks for in a grant.
Wants(g) ==
    /\ g \in (adm \cap warm) \ shed /\ ps[g] \in {"gone", "ready"}
    /\ pool[g] < FiberWarm /\ Live(g) + pool[g] < FiberMax

\* A grant whose pool has room gets its turn, a fill or the rate limit's
\* refusal, however often the other pools are emptied (refillPass).
TakesTurns == \A g \in Grants \ Moving : Wants(g) ~> fg = g \/ ~Wants(g)

\* Under lasting pressure an admitted grant's pool is emptied and stays
\* empty: no refill undoes what the ladder drained (refillPass, reclaim).
PressureEmptiesPool ==
    \A g \in Moving : g \in pressed \cap shed ~> [](g \in adm => pool[g] = 0)
=============================================================================
