------------------------------ MODULE FiberCore ------------------------------
(***************************************************************************)
(* The warm path of one home: pkg/core's Clone, Park, Release, Yield,      *)
(* BumpEpoch, Drain, Discard and OnExit, over the ledger they share        *)
(* (ledger.go) and a host runtime that may fail and whose fibers may die.  *)
(*                                                                         *)
(* Every operation is a goroutine of Procs that takes one step per section *)
(* under the ledger's mutex and one per call of the runtime, so the        *)
(* operations interleave between them as they do in fiberd.                *)
(*                                                                         *)
(* Simplifications.  Tokens, callers and tenants are checked before any of *)
(* this state is touched and are left out, as are the audit spool's        *)
(* contents (an Append may fail), the snapshot, the shared delta store     *)
(* (other modules) and the template.  A lease that has expired, a tier the *)
(* runtime does not offer and a shedding grant are one refusal that may    *)
(* happen at any resolve.  A delta whose removal fails is an orphan that   *)
(* the boot sweep takes, so every removal works here.  The per-session     *)
(* gate is the keyed lock that SessionGate implements.                     *)
(***************************************************************************)
EXTENDS Integers, FiniteSets

CONSTANTS
    Procs,      \* goroutines that run operations
    Grants,     \* grant UIDs
    Names,      \* session names
    Anon,       \* "no session": an anonymous fiber
    NoProc, NoFiber,
    FiberMax,   \* fibers.max of every grant, 0 for no ceiling
    Ops,        \* the operations callers make in this instance
    AnyReadmit, \* may a grant be admitted again while its Yield still runs?
    RuntimeFails, \* may Runtime.Release and a Sync audit append fail?
    MaxSeq,     \* bound: fences minted per grant
    MaxEpoch,   \* bound: epochs
    MaxInc      \* bound: admissions per grant

AllOps == {"clone", "park", "release", "releaseDiscard", "yield", "bump", "drain", "discard"}

ASSUME ConstAssumption ==
    /\ Grants # {} /\ Anon \notin Names
    /\ NoProc \notin Procs
    /\ FiberMax \in Nat /\ MaxSeq \in Nat /\ MaxEpoch \in Nat /\ MaxInc \in Nat
    /\ AnyReadmit \in BOOLEAN /\ RuntimeFails \in BOOLEAN
    /\ Ops \subseteq AllOps

Keys == Grants \X Names

(***************************************************************************)
(* A fiber is the fence it was minted, which is also its handle ID (grant  *)
(* g, epoch e, seq n), the session s it carries, and the ledger entry of   *)
(* the grant it was minted under: inc is the entry's identity, the pointer *)
(* commit compares.  A parked delta is named by the fiber that was parked. *)
(***************************************************************************)
Fiber == [g : Grants, e : Nat, n : Nat, s : Names \cup {Anon}, inc : Nat]

ASSUME NoFiberAssumption == NoFiber \notin Fiber

Fence(f) == <<f.g, f.e, f.n>>
Key(f) == <<f.g, f.s>>
Named(f) == f.s # Anon

VARIABLES
    \* --- Ledger, under l.mu
    epoch,      \* the ledger's epoch
    entry,      \* grants: uid -> [on, inc, next, live]; on is "in the map"
    seqHigh,    \* uid -> last seq a revoked grant minted
    sessions,   \* key -> [st, f, d]: state, fiber running it, delta
    fibers,     \* the running fibers the ledger knows
    gate,       \* key -> the goroutine that holds the session's gate
    \* --- Core
    pending,    \* exits held for a fiber that is not committed yet
    drain,      \* "off", "on" while Drain runs, "done", or "cut" by its context
    drainer,    \* the goroutine that runs Drain
    tried,      \* what Drain has listed so far
    \* --- Runtime (external)
    alive,      \* fibers whose process runs
    exits,      \* deaths reported on Runtime.Exits and not received yet
    stuck,      \* fibers whose Runtime.Release failed
    deltas,     \* deltas on disk
    \* --- Goroutines
    pc,         \* where each one is
    who,        \* the fiber it works on
    src,        \* the delta its clone resumes
    flag,       \* Release: discard. Clone: the fiber died before its commit
    todo,       \* fibers a sweep or a drain has still to visit
    \* --- History
    born        \* every fiber ever committed

ledgerVars == <<epoch, entry, seqHigh, sessions, fibers>>
drainVars == <<drain, drainer, tried>>
runtimeVars == <<alive, exits, stuck, deltas>>
vars == <<ledgerVars, gate, pending, drainVars, runtimeVars,
          pc, who, src, flag, todo, born>>

NoSession == [st |-> "none", f |-> NoFiber, d |-> NoFiber]

Draining == drain # "off"

Init ==
    /\ epoch = 1
    /\ entry = [u \in Grants |-> [on |-> FALSE, inc |-> 0, next |-> 0, live |-> 0]]
    /\ seqHigh = [u \in Grants |-> 0]
    /\ sessions = [k \in Keys |-> NoSession]
    /\ fibers = {}
    /\ gate = [k \in Keys |-> NoProc]
    /\ pending = {}
    /\ drain = "off" /\ drainer = NoProc /\ tried = {}
    /\ alive = {} /\ exits = {} /\ stuck = {} /\ deltas = {}
    /\ pc = [p \in Procs |-> "idle"]
    /\ who = [p \in Procs |-> NoFiber]
    /\ src = [p \in Procs |-> NoFiber]
    /\ flag = [p \in Procs |-> FALSE]
    /\ todo = [p \in Procs |-> {}]
    /\ born = {}

-----------------------------------------------------------------------------
(* Goroutines *)

Goto(p, l) == pc' = [pc EXCEPT ![p] = l]

\* The operation returns: to its caller, or to Drain's loop.
Return(p) ==
    /\ pc' = [pc EXCEPT ![p] = IF p = drainer THEN "drain" ELSE "idle"]
    /\ who' = [who EXCEPT ![p] = NoFiber]
    /\ src' = [src EXCEPT ![p] = NoFiber]
    /\ flag' = [flag EXCEPT ![p] = FALSE]

\* Mutant: the gate is taken from whoever holds it.
TakeGateBarges(p) == gate' = [gate EXCEPT ![Key(who[p])] = p]

\* holdSession returns: the gate is p's.
TakeGate(p) ==
    /\ gate[Key(who[p])] = NoProc
    /\ gate' = [gate EXCEPT ![Key(who[p])] = p]

\* sessionHold.release; an anonymous fiber has no hold.
DropGate(p) ==
    gate' = IF Named(who[p]) THEN [gate EXCEPT ![Key(who[p])] = NoProc] ELSE gate

-----------------------------------------------------------------------------
(* Ledger *)

\* g.live-- on the entry the map holds for the UID (OnPark, onGone).
FreeSlot(u) ==
    IF entry[u].on THEN [entry EXCEPT ![u].live = @ - 1] ELSE entry

\* Mutant: the reservation goes back to whatever entry has the UID.
ReturnSlotByUID(f) == FreeSlot(f.g)

\* g.live-- on the entry the clone resolved with (unlock): an entry that was
\* revoked meanwhile is garbage, and what happens to it is seen by nobody.
ReturnSlot(f) ==
    IF entry[f.g].on /\ entry[f.g].inc = f.inc
    THEN [entry EXCEPT ![f.g].live = @ - 1]
    ELSE entry

\* onGone: the slot is freed and the session forgotten.  drop says whether the
\* caller then discards the delta the fiber was resumed from.
OnGone(f, drop) ==
    IF f \in fibers
    THEN /\ fibers' = fibers \ {f}
         /\ entry' = FreeSlot(f.g)
         /\ sessions' = IF Named(f) THEN [sessions EXCEPT ![Key(f)] = NoSession]
                                    ELSE sessions
         /\ deltas' = IF drop /\ Named(f) THEN deltas \ {sessions[Key(f)].d} ELSE deltas
    ELSE UNCHANGED <<fibers, entry, sessions, deltas>>
-----------------------------------------------------------------------------
(* Admission: the ledger's part of Core.Admit (Admission models the rest).  *)

\* Mutant: a re-admission starts its sequence afresh.
AdmitGrantAfresh(u) ==
    /\ ~entry[u].on
    /\ entry[u].inc < MaxInc
    /\ AnyReadmit \/ \A f \in fibers : f.g # u
    /\ entry' = [entry EXCEPT ![u] = [on |-> TRUE, inc |-> @.inc + 1, next |-> 0, live |-> 0]]
    /\ UNCHANGED <<epoch, seqHigh, sessions, fibers, gate, pending, drainVars,
                   runtimeVars, pc, who, src, flag, todo, born>>

\* AdmitGrant of a grant that is not in the map: a new entry that continues
\* the sequence.  A re-delivery of an admitted grant changes nothing here.
AdmitGrant(u) ==
    /\ ~entry[u].on
    /\ entry[u].inc < MaxInc
    /\ AnyReadmit \/ \A f \in fibers : f.g # u
    /\ entry' = [entry EXCEPT ![u] = [on |-> TRUE, inc |-> @.inc + 1,
                                      next |-> seqHigh[u], live |-> 0]]
    /\ UNCHANGED <<epoch, seqHigh, sessions, fibers, gate, pending, drainVars,
                   runtimeVars, pc, who, src, flag, todo, born>>

-----------------------------------------------------------------------------
(* Clone *)

\* A goroutine of p's gets a request it has not resolved yet.
Request(u, n) == [g |-> u, e |-> 0, n |-> 0, s |-> n, inc |-> 0]

\* The frontend: a draining home refuses, an unknown grant is admitted first.
CloneStart(p, u, n) ==
    /\ "clone" \in Ops
    /\ pc[p] = "idle"
    /\ ~Draining
    /\ entry[u].on
    /\ who' = [who EXCEPT ![p] = Request(u, n)]
    /\ Goto(p, IF n = Anon THEN "resolve" ELSE "hold")
    /\ UNCHANGED <<ledgerVars, gate, pending, drainVars, runtimeVars, src, flag, todo, born>>

CloneHold(p) ==
    /\ pc[p] = "hold"
    /\ TakeGate(p)
    /\ Goto(p, "resolve")
    /\ UNCHANGED <<ledgerVars, pending, drainVars, runtimeVars, who, src, flag, todo, born>>

\* resolveHeld errs (the grant is gone, expired, full or needs another tier),
\* or it attaches: the caller gets the fence the session already runs under.
CloneReturns(p) ==
    /\ pc[p] = "resolve"
    /\ DropGate(p)
    /\ Return(p)
    /\ UNCHANGED <<ledgerVars, pending, drainVars, runtimeVars, todo, born>>

\* Mutant: off by one.
HasRoomForOneMore(u) == FiberMax = 0 \/ entry[u].live <= FiberMax

\* reserve's ceiling.
HasRoom(u) == FiberMax = 0 \/ entry[u].live < FiberMax

\* Mutant: the gate is let go before the runtime's work.
CloneResolveLetsGo(p) ==
    LET u == who[p].g
        ses == IF Named(who[p]) THEN sessions[Key(who[p])] ELSE NoSession
    IN
    /\ pc[p] = "resolve"
    /\ entry[u].on
    /\ ses.st # "running"
    /\ HasRoom(u)
    /\ entry[u].next < MaxSeq
    /\ entry' = [entry EXCEPT ![u] = [on |-> TRUE, inc |-> @.inc,
                                      next |-> @.next + 1, live |-> @.live + 1]]
    /\ who' = [who EXCEPT ![p] = [g |-> u, e |-> epoch, n |-> entry[u].next + 1,
                                  s |-> @.s, inc |-> entry[u].inc]]
    /\ src' = [src EXCEPT ![p] = ses.d]
    /\ DropGate(p)
    /\ Goto(p, "birth")
    /\ UNCHANGED <<epoch, seqHigh, sessions, fibers, pending, drainVars,
                   runtimeVars, flag, todo, born>>

\* Mutant: a parked session is created afresh.
CloneResolveAfresh(p) ==
    LET u == who[p].g
        ses == IF Named(who[p]) THEN sessions[Key(who[p])] ELSE NoSession
    IN
    /\ pc[p] = "resolve"
    /\ entry[u].on
    /\ ses.st # "running"
    /\ HasRoom(u)
    /\ entry[u].next < MaxSeq
    /\ entry' = [entry EXCEPT ![u] = [on |-> TRUE, inc |-> @.inc,
                                      next |-> @.next + 1, live |-> @.live + 1]]
    /\ who' = [who EXCEPT ![p] = [g |-> u, e |-> epoch, n |-> entry[u].next + 1,
                                  s |-> @.s, inc |-> entry[u].inc]]
    /\ src' = src
    /\ Goto(p, "birth")
    /\ UNCHANGED <<epoch, seqHigh, sessions, fibers, gate, pending, drainVars,
                   runtimeVars, flag, todo, born>>

\* resolveHeld reserves a slot and mints the fence of a create or a resume.
CloneResolve(p) ==
    LET u == who[p].g
        ses == IF Named(who[p]) THEN sessions[Key(who[p])] ELSE NoSession
    IN
    /\ pc[p] = "resolve"
    /\ entry[u].on
    /\ ses.st # "running"
    /\ HasRoom(u)
    /\ entry[u].next < MaxSeq
    /\ entry' = [entry EXCEPT ![u] = [on |-> TRUE, inc |-> @.inc,
                                      next |-> @.next + 1, live |-> @.live + 1]]
    /\ who' = [who EXCEPT ![p] = [g |-> u, e |-> epoch, n |-> entry[u].next + 1,
                                  s |-> @.s, inc |-> entry[u].inc]]
    /\ src' = [src EXCEPT ![p] = ses.d]
    /\ Goto(p, "birth")
    /\ UNCHANGED <<epoch, seqHigh, sessions, fibers, gate, pending, drainVars,
                   runtimeVars, flag, todo, born>>

\* unlock without a commit: the reservation goes back, then the gate.
Unlock(p) ==
    /\ entry' = ReturnSlot(who[p])
    /\ DropGate(p)
    /\ Return(p)

\* Mutant: the resume consumes its delta at once.
CloneBirthConsumes(p) ==
    /\ pc[p] = "birth"
    /\ src[p] = NoFiber \/ src[p] \in deltas
    /\ alive' = alive \cup {who[p]}
    /\ deltas' = deltas \ {src[p]}
    /\ Goto(p, "audit")
    /\ UNCHANGED <<ledgerVars, gate, pending, drainVars, exits, stuck,
                   who, src, flag, todo, born>>

\* Runtime.Clone: the process runs.  A resume needs its delta.
CloneBirth(p) ==
    /\ pc[p] = "birth"
    /\ src[p] = NoFiber \/ src[p] \in deltas
    /\ alive' = alive \cup {who[p]}
    /\ Goto(p, "audit")
    /\ UNCHANGED <<ledgerVars, gate, pending, drainVars, exits, stuck, deltas,
                   who, src, flag, todo, born>>

\* The grant is shedding, or Runtime.Clone fails or misses its deadline.
CloneNotBorn(p) ==
    /\ pc[p] = "birth"
    /\ Unlock(p)
    /\ UNCHANGED <<epoch, seqHigh, sessions, fibers, pending, drainVars,
                   runtimeVars, todo, born>>

\* The Sync audit record of the birth fails and the fiber is released...
CloneAuditFails(p) ==
    /\ RuntimeFails
    /\ pc[p] = "audit"
    /\ alive' = alive \ {who[p]}
    /\ Goto(p, "rollback")
    /\ UNCHANGED <<ledgerVars, gate, pending, drainVars, exits, stuck, deltas,
                   who, src, flag, todo, born>>

\* ...its held exit dropped and its slot returned; or the release fails too
\* and it is to be committed anyway.
CloneRollBack(p) ==
    /\ pc[p] = "rollback"
    /\ pending' = pending \ {who[p]}
    /\ Unlock(p)
    /\ UNCHANGED <<epoch, seqHigh, sessions, fibers, drainVars, runtimeVars, todo, born>>

CloneReleaseFails(p) ==
    /\ RuntimeFails
    /\ pc[p] = "audit"
    /\ who[p] \in alive
    /\ stuck' = stuck \cup {who[p]}
    /\ Goto(p, "commitAnyway")
    /\ UNCHANGED <<ledgerVars, gate, pending, drainVars, alive, exits, deltas,
                   who, src, flag, todo, born>>

\* Mutant: the grant is looked up by its UID, not by its entry.
MayCommitByUID(f) == entry[f.g].on /\ f.e = epoch /\ ~Draining

\* Mutant: a drain that has begun is not asked about.
MayCommitInDrain(f) == entry[f.g].on /\ entry[f.g].inc = f.inc /\ f.e = epoch

\* What commit asks under l.mu: the entry of the resolve is still the one in
\* the map, the epoch has not moved and no drain has begun.
MayCommit(f) ==
    /\ entry[f.g].on /\ entry[f.g].inc = f.inc
    /\ f.e = epoch
    /\ ~Draining

\* Mutant: the held exit is dropped at the commit.
CommitForgetsExit(p) ==
    LET f == who[p] IN
    /\ MayCommit(f)
    /\ fibers' = fibers \cup {f}
    /\ sessions' = IF Named(f)
                   THEN [sessions EXCEPT ![Key(f)] = [st |-> "running", f |-> f, d |-> src[p]]]
                   ELSE sessions
    /\ flag' = flag
    /\ pending' = pending \ {f}
    /\ born' = born \cup {f}
    /\ Goto(p, IF pc[p] = "commitAnyway" THEN "internal" ELSE "committed")
    /\ UNCHANGED <<epoch, entry, seqHigh, gate, drainVars, runtimeVars, who, src, todo>>

\* commitHeld: the ledger takes the fiber and any exit held for it is taken
\* over, both under pendingMu.
Commit(p) ==
    LET f == who[p] IN
    /\ MayCommit(f)
    /\ fibers' = fibers \cup {f}
    /\ sessions' = IF Named(f)
                   THEN [sessions EXCEPT ![Key(f)] = [st |-> "running", f |-> f, d |-> src[p]]]
                   ELSE sessions
    /\ flag' = [flag EXCEPT ![p] = f \in pending]
    /\ pending' = pending \ {f}
    /\ born' = born \cup {f}
    /\ Goto(p, IF pc[p] = "commitAnyway" THEN "internal" ELSE "committed")
    /\ UNCHANGED <<epoch, entry, seqHigh, gate, drainVars, runtimeVars, who, src, todo>>

CloneCommit(p) == pc[p] = "audit" /\ Commit(p)

CloneCommitAnyway(p) == pc[p] = "commitAnyway" /\ Commit(p)

\* Mutant: Clone returns without releasing what the ledger refused.
CloneRefusedLeaks(p) ==
    /\ pc[p] = "audit"
    /\ ~MayCommit(who[p])
    /\ pending' = pending \ {who[p]}
    /\ Unlock(p)
    /\ UNCHANGED <<epoch, seqHigh, sessions, fibers, drainVars, runtimeVars, todo, born>>

\* The ledger refuses the commit: the fiber is to be released here.
CloneRefused(p) ==
    /\ pc[p] = "audit"
    /\ ~MayCommit(who[p])
    /\ pending' = pending \ {who[p]}
    /\ Goto(p, "refused")
    /\ UNCHANGED <<ledgerVars, gate, drainVars, runtimeVars, who, src, flag, todo, born>>

\* It is refused after its release failed: it may still run, and is logged.
CloneRefusedAnyway(p) ==
    /\ pc[p] = "commitAnyway"
    /\ ~MayCommit(who[p])
    /\ pending' = pending \ {who[p]}
    /\ Unlock(p)
    /\ UNCHANGED <<epoch, seqHigh, sessions, fibers, drainVars, runtimeVars, todo, born>>

\* Runtime.Release(id, drop): the process is killed and waited for, or the
\* call fails and the runtime has marked the fiber as released all the same.
\* A discard removes the fiber's own delta either way.
RuntimeRelease(f, drop) ==
    /\ \/ alive' = alive \ {f} /\ stuck' = stuck
       \/ RuntimeFails /\ f \in alive /\ alive' = alive /\ stuck' = stuck \cup {f}
    /\ deltas' = IF drop THEN deltas \ {f} ELSE deltas
    /\ exits' = exits

CloneSwept(p) ==
    /\ pc[p] = "refused"
    /\ RuntimeRelease(who[p], FALSE)
    /\ Unlock(p)
    /\ UNCHANGED <<epoch, seqHigh, sessions, fibers, pending, drainVars, todo, born>>

\* Clone returns.  A fiber that died at birth is settled first, as OnExit does.
CloneDone(p) ==
    /\ pc[p] \in {"committed", "internal"}
    /\ IF flag[p]
       THEN /\ OnGone(who[p], TRUE)
            /\ pending' = IF who[p] \in fibers THEN pending ELSE pending \cup {who[p]}
       ELSE UNCHANGED <<entry, sessions, fibers, deltas, pending>>
    /\ DropGate(p)
    /\ Return(p)
    /\ UNCHANGED <<epoch, seqHigh, drainVars, alive, exits, stuck, todo, born>>
-----------------------------------------------------------------------------
(* Park *)

\* Park's checks: the ledger knows the fiber and it carries a session.
BeginPark(p, f) ==
    /\ f \in fibers
    /\ Named(f)
    /\ who' = [who EXCEPT ![p] = f]
    /\ Goto(p, "parkHold")

ParkStart(p, f) ==
    /\ "park" \in Ops
    /\ pc[p] = "idle"
    /\ BeginPark(p, f)
    /\ UNCHANGED <<ledgerVars, gate, pending, drainVars, runtimeVars, src, flag, todo, born>>

ParkHold(p) ==
    /\ pc[p] = "parkHold"
    /\ TakeGate(p)
    /\ Goto(p, "park")
    /\ UNCHANGED <<ledgerVars, pending, drainVars, runtimeVars, who, src, flag, todo, born>>

\* Runtime.Park returns a ref: the delta is written and the process gone.
ParkDumped(p) ==
    /\ pc[p] = "park"
    /\ who[p] \in alive
    /\ alive' = alive \ {who[p]}
    /\ deltas' = deltas \cup {who[p]}
    /\ Goto(p, "parked")
    /\ UNCHANGED <<ledgerVars, gate, pending, drainVars, exits, stuck, who, src, flag, todo, born>>

\* Mutant: the error path keeps the gate.
ParkFailsHolding(p) ==
    /\ pc[p] = "park"
    /\ Return(p)
    /\ UNCHANGED <<ledgerVars, gate, pending, drainVars, runtimeVars, todo, born>>

\* Runtime.Park returns no ref: the fiber runs on, or was gone already.
ParkFails(p) ==
    /\ pc[p] = "park"
    /\ DropGate(p)
    /\ Return(p)
    /\ UNCHANGED <<ledgerVars, pending, drainVars, runtimeVars, todo, born>>

\* OnPark, and the delta it supersedes is discarded.
ParkRecord(p) ==
    LET f == who[p] IN
    /\ pc[p] = "parked"
    /\ IF f \in fibers
       THEN /\ fibers' = fibers \ {f}
            /\ entry' = FreeSlot(f.g)
            /\ IF sessions[Key(f)].st # "none"
               THEN /\ sessions' = [sessions EXCEPT ![Key(f)] =
                                       [st |-> "parked", f |-> NoFiber, d |-> f]]
                    /\ deltas' = deltas \ ({sessions[Key(f)].d} \ {f})
               ELSE UNCHANGED <<sessions, deltas>>
       ELSE UNCHANGED <<fibers, entry, sessions, deltas>>
    /\ DropGate(p)
    /\ Return(p)
    /\ UNCHANGED <<epoch, seqHigh, pending, drainVars, alive, exits, stuck, todo, born>>

-----------------------------------------------------------------------------
(* Release *)

\* Release up to the runtime's answer: it takes no gate.
BeginRelease(p, f, drop) ==
    /\ f \in fibers
    /\ RuntimeRelease(f, drop)
    /\ IF f \in stuck' \ stuck
       THEN Return(p)   \* Internal, and the ledger keeps the fiber
       ELSE /\ who' = [who EXCEPT ![p] = f]
            /\ flag' = [flag EXCEPT ![p] = drop]
            /\ Goto(p, "released")
            /\ UNCHANGED src

ReleaseStart(p, f, drop) ==
    /\ (IF drop THEN "releaseDiscard" ELSE "release") \in Ops
    /\ pc[p] = "idle"
    /\ BeginRelease(p, f, drop)
    /\ UNCHANGED <<ledgerVars, gate, pending, drainVars, todo, born>>

ReleaseRecord(p) ==
    /\ pc[p] = "released"
    /\ OnGone(who[p], flag[p])
    /\ Return(p)
    /\ UNCHANGED <<epoch, seqHigh, gate, pending, drainVars, alive, exits, stuck, todo, born>>

-----------------------------------------------------------------------------
(* Yield and BumpEpoch: revoke or move first, then list, then release. *)

\* Revoke (RevokeGrant): the entry leaves the map, its last seq stays.
Yield(p, u) ==
    /\ "yield" \in Ops
    /\ pc[p] = "idle"
    /\ entry' = [entry EXCEPT ![u] = [@ EXCEPT !.on = FALSE]]
    /\ seqHigh' = IF entry[u].on THEN [seqHigh EXCEPT ![u] = entry[u].next] ELSE seqHigh
    /\ who' = [who EXCEPT ![p] = Request(u, Anon)]
    /\ Goto(p, "listYield")
    /\ UNCHANGED <<epoch, sessions, fibers, gate, pending, drainVars, runtimeVars,
                   src, flag, todo, born>>

\* BumpEpoch sweeps every grant and keeps only the epoch it moved to.
Moved(e) == [g |-> CHOOSE u \in Grants : TRUE, e |-> e, n |-> 0, s |-> Anon, inc |-> 0]

\* Epoch.Bump and Ledger.BumpEpoch.
BumpEpoch(p) ==
    /\ "bump" \in Ops
    /\ pc[p] = "idle"
    /\ epoch < MaxEpoch
    /\ epoch' = epoch + 1
    /\ who' = [who EXCEPT ![p] = Moved(epoch + 1)]
    /\ Goto(p, "listBump")
    /\ UNCHANGED <<entry, seqHigh, sessions, fibers, gate, pending, drainVars, runtimeVars,
                   src, flag, todo, born>>

\* Mutant: only the fibers of grants that are still admitted are listed.
SweepListAdmitted(p) ==
    /\ pc[p] \in {"listYield", "listBump"}
    /\ todo' = [todo EXCEPT ![p] =
                   {f \in fibers : entry[f.g].on /\ (pc[p] = "listYield" => f.g = who[p].g)}]
    /\ who' = [who EXCEPT ![p] = NoFiber]
    /\ Goto(p, "sweep")
    /\ UNCHANGED <<ledgerVars, gate, pending, drainVars, runtimeVars, src, flag, born>>

\* FibersOf the grant, or every running fiber with an older fence.
SweepList(p) ==
    /\ pc[p] \in {"listYield", "listBump"}
    /\ todo' = [todo EXCEPT ![p] =
                   {f \in fibers : IF pc[p] = "listYield" THEN f.g = who[p].g
                                                          ELSE f.e < who[p].e}]
    /\ who' = [who EXCEPT ![p] = NoFiber]
    /\ Goto(p, "sweep")
    /\ UNCHANGED <<ledgerVars, gate, pending, drainVars, runtimeVars, src, flag, born>>

\* A listed fiber that is still known is released...
SweepRelease(p) ==
    /\ pc[p] = "sweep"
    /\ \E f \in todo[p] \cap fibers :
          /\ RuntimeRelease(f, FALSE)
          /\ who' = [who EXCEPT ![p] = f]
    /\ Goto(p, "swept")
    /\ UNCHANGED <<ledgerVars, gate, pending, drainVars, src, flag, todo, born>>

\* ...and recorded as gone whether that worked or not, with the delta it was
\* resumed from.
SweepRecord(p) ==
    /\ pc[p] = "swept"
    /\ OnGone(who[p], TRUE)
    /\ todo' = [todo EXCEPT ![p] = @ \ {who[p]}]
    /\ who' = [who EXCEPT ![p] = NoFiber]
    /\ Goto(p, "sweep")
    /\ UNCHANGED <<epoch, seqHigh, gate, pending, drainVars, alive, exits, stuck,
                   src, flag, born>>

SweepDone(p) ==
    /\ pc[p] = "sweep"
    /\ todo[p] \cap fibers = {}
    /\ todo' = [todo EXCEPT ![p] = {}]
    /\ Return(p)
    /\ UNCHANGED <<ledgerVars, gate, pending, drainVars, runtimeVars, born>>
-----------------------------------------------------------------------------
(* Drain *)

\* The flag first: from here no clone starts and none commits.
DrainStart(p) ==
    /\ "drain" \in Ops
    /\ pc[p] = "idle"
    /\ ~Draining
    /\ drain' = "on"
    /\ drainer' = p
    /\ Goto(p, "drain")
    /\ UNCHANGED <<ledgerVars, gate, pending, tried, runtimeVars, who, src, flag, todo, born>>

\* drainList: the fibers of every admitted grant that were not tried before.
Listed == {f \in fibers : entry[f.g].on} \ tried

DrainList(p) ==
    /\ pc[p] = "drain"
    /\ todo[p] = {}
    /\ Listed # {}
    /\ todo' = [todo EXCEPT ![p] = Listed]
    /\ tried' = tried \cup Listed
    /\ UNCHANGED <<ledgerVars, gate, pending, drain, drainer, runtimeVars,
                   pc, who, src, flag, born>>

\* drainOne: a named session is parked, an anonymous fiber released, a fiber
\* that is gone by now skipped.  Named sessions come first.
DrainOne(p) ==
    /\ pc[p] = "drain"
    /\ \E f \in todo[p] :
          /\ Named(f) \/ \A h \in todo[p] : ~Named(h)
          /\ todo' = [todo EXCEPT ![p] = @ \ {f}]
          /\ \/ BeginPark(p, f) /\ UNCHANGED <<runtimeVars, src, flag>>
             \/ ~Named(f) /\ BeginRelease(p, f, FALSE)
             \/ f \notin fibers /\ UNCHANGED <<runtimeVars, pc, who, src, flag>>
    /\ UNCHANGED <<ledgerVars, gate, pending, drainVars, born>>

\* A list with nothing new ends the drain, and so does its context.
DrainDone(p) ==
    /\ pc[p] = "drain"
    /\ \/ todo[p] = {} /\ Listed = {} /\ drain' = "done"
       \/ todo[p] # {} /\ drain' = "cut"
    /\ drainer' = NoProc
    /\ todo' = [todo EXCEPT ![p] = {}]
    /\ Goto(p, "idle")
    /\ UNCHANGED <<ledgerVars, gate, pending, tried, runtimeVars, who, src, flag, born>>

-----------------------------------------------------------------------------
(* Discard, exits and the runtime *)

\* Discard of a session parked here, under its gate: the delta goes and the
\* session is forgotten.  Nothing but a gate holder touches a parked session.
Discard(k) ==
    /\ "discard" \in Ops
    /\ gate[k] = NoProc
    /\ sessions[k].st = "parked"
    /\ deltas' = deltas \ {sessions[k].d}
    /\ sessions' = [sessions EXCEPT ![k] = NoSession]
    /\ UNCHANGED <<epoch, entry, seqHigh, fibers, gate, pending, drainVars,
                   alive, exits, stuck, pc, who, src, flag, todo, born>>

\* A fiber dies on its own.  The runtime reports it (finish), but not one it
\* has marked as released, unless a failed Park cleared that mark (unpark).
Die(f) ==
    /\ f \in alive
    /\ alive' = alive \ {f}
    /\ \/ exits' = exits \cup {f}
       \/ f \in stuck /\ exits' = exits
    /\ UNCHANGED <<ledgerVars, gate, pending, drainVars, stuck, deltas,
                   pc, who, src, flag, todo, born>>

\* OnExit, under pendingMu: the fiber is gone, or its exit is held for the
\* clone that has not committed it yet.
OnExit(f) ==
    /\ f \in exits
    /\ exits' = exits \ {f}
    /\ OnGone(f, TRUE)
    /\ pending' = IF f \in fibers THEN pending ELSE pending \cup {f}
    /\ UNCHANGED <<epoch, seqHigh, gate, drainVars, alive, stuck,
                   pc, who, src, flag, todo, born>>

-----------------------------------------------------------------------------
CloneStep(p) ==
    \/ CloneHold(p) \/ CloneReturns(p) \/ CloneResolve(p) \/ CloneBirth(p)
    \/ CloneNotBorn(p) \/ CloneAuditFails(p) \/ CloneRollBack(p) \/ CloneReleaseFails(p)
    \/ CloneCommit(p) \/ CloneCommitAnyway(p) \/ CloneRefused(p) \/ CloneRefusedAnyway(p)
    \/ CloneSwept(p) \/ CloneDone(p)

ParkStep(p) == ParkHold(p) \/ ParkDumped(p) \/ ParkFails(p) \/ ParkRecord(p)

SweepStep(p) == SweepList(p) \/ SweepRelease(p) \/ SweepRecord(p) \/ SweepDone(p)

DrainStep(p) == DrainList(p) \/ DrainOne(p) \/ DrainDone(p)

\* A step of an operation that has begun.
Step(p) == CloneStep(p) \/ ParkStep(p) \/ ReleaseRecord(p) \/ SweepStep(p) \/ DrainStep(p)

\* A call arrives.
Call(p) ==
    \/ \E u \in Grants, n \in Names \cup {Anon} : CloneStart(p, u, n)
    \/ \E f \in fibers : ParkStart(p, f) \/ \E b \in BOOLEAN : ReleaseStart(p, f, b)
    \/ \E u \in Grants : Yield(p, u)
    \/ BumpEpoch(p)
    \/ DrainStart(p)

Next ==
    \/ \E p \in Procs : Call(p) \/ Step(p)
    \/ \E u \in Grants : AdmitGrant(u)
    \/ \E k \in Keys : Discard(k)
    \/ \E f \in alive : Die(f)
    \/ \E f \in exits : OnExit(f)

Spec == Init /\ [][Next]_vars
-----------------------------------------------------------------------------
(* Properties *)

Labels == {"idle", "hold", "resolve", "birth", "audit", "rollback", "commitAnyway",
           "refused", "committed", "internal", "parkHold", "park", "parked",
           "released", "listYield", "listBump", "sweep", "swept", "drain"}

TypeOK ==
    /\ epoch \in Nat
    /\ entry \in [Grants -> [on : BOOLEAN, inc : Nat, next : Nat, live : Int]]
    /\ seqHigh \in [Grants -> Nat]
    /\ sessions \in [Keys -> [st : {"none", "running", "parked"},
                              f : Fiber \cup {NoFiber}, d : Fiber \cup {NoFiber}]]
    /\ gate \in [Keys -> Procs \cup {NoProc}]
    /\ fibers \subseteq Fiber /\ pending \subseteq Fiber /\ tried \subseteq Fiber
    /\ alive \subseteq Fiber /\ exits \subseteq Fiber /\ stuck \subseteq Fiber
    /\ deltas \subseteq Fiber /\ born \subseteq Fiber
    /\ drain \in {"off", "on", "done", "cut"}
    /\ drainer \in Procs \cup {NoProc}
    /\ pc \in [Procs -> Labels]
    /\ who \in [Procs -> Fiber \cup {NoFiber}]
    /\ src \in [Procs -> Fiber \cup {NoFiber}]
    /\ flag \in [Procs -> BOOLEAN]
    /\ todo \in [Procs -> SUBSET Fiber]

\* Goroutines whose clone has a reservation that is not committed.
Reserving == {"birth", "audit", "rollback", "commitAnyway", "refused"}

\* Goroutines that hold the gate of their session.
Holding == Reserving \cup {"resolve", "committed", "internal", "park", "parked"}

\* A named session that runs is run by one fiber, the one its entry names, and
\* a running entry has its fiber: "one session never runs twice"
\* (resolveHeld), through every park, revocation, re-admission, epoch move
\* and early death.
SessionRunsOnce ==
    /\ \A f \in fibers : Named(f) =>
          sessions[Key(f)].st = "running" /\ sessions[Key(f)].f = f
    /\ \A k \in Keys : sessions[k].st = "running" =>
          sessions[k].f \in fibers /\ Key(sessions[k].f) = k

\* Of the processes of one session at most one runs, but for one the runtime
\* failed to release: the gate spans the runtime's work in Clone and Park.
OneProcess ==
    \A f, h \in alive \ stuck : Named(f) /\ Key(f) = Key(h) => f = h

\* A fence is minted once, across parks, revocations and re-admissions
\* ("never re-mints a fence a released fiber held", seqHigh) and epochs.
FenceOnce ==
    \A f, h \in born \cup {who[p] : p \in {q \in Procs : pc[q] \in Reserving}} :
        Fence(f) = Fence(h) => f = h

\* A sweep that has still to visit f.
WillVisit(p, f) ==
    \/ pc[p] = "listYield" /\ who[p].g = f.g
    \/ pc[p] = "listBump" /\ f.e < who[p].e
    \/ pc[p] \in {"sweep", "swept"} /\ f \in todo[p]

\* A recorded fiber whose grant was revoked, or whose epoch is over, is one
\* that a Yield or a BumpEpoch still has on its list: "a revocation either
\* sees the fiber or refuses it, never neither" (commit).
NoneEscapes ==
    \A f \in fibers :
        (~entry[f.g].on \/ entry[f.g].inc # f.inc \/ f.e # epoch)
            => \E p \in Procs : WillVisit(p, f)

\* When Drain has returned, each fiber that still runs is one it tried, or
\* one a Yield is about to release.
DrainCoversAll ==
    drain = "done" => \A f \in fibers :
        f \in tried \/ \E p \in Procs : WillVisit(p, f)

\* live is exactly the fibers the grant runs and the slots its clones have
\* reserved, so fibers.max bounds what runs (reserve, OnPark, onGone).
LiveExact ==
    \A u \in Grants : entry[u].on =>
        entry[u].live =
            Cardinality({f \in fibers : f.g = u})
          + Cardinality({p \in Procs : /\ pc[p] \in Reserving
                                       /\ who[p].g = u
                                       /\ who[p].inc = entry[u].inc})

\* A process that runs is recorded, or a clone has it in hand, or its release
\* failed: no path of Clone, Park or a sweep loses one.
NoProcessLost ==
    \A f \in alive :
        \/ f \in fibers \cup stuck
        \/ \E p \in Procs : who[p] = f /\ pc[p] \in {"audit", "refused"}

\* A recorded fiber whose process is gone is about to leave the ledger: its
\* exit is reported, or held by its clone, or an operation that ended it has
\* still to record that.
DeadAreNoticed ==
    \A f \in fibers \ alive :
        \/ f \in exits \cup stuck
        \/ \E p \in Procs :
              /\ who[p] = f
              /\ \/ pc[p] \in {"parked", "released", "swept"}
                 \/ pc[p] \in {"committed", "internal"} /\ flag[p]

\* A parked session's delta is on disk: a superseded or resumed-from delta is
\* discarded only when no session can resume it.
ParkedHasDelta ==
    \A k \in Keys : sessions[k].st = "parked" => sessions[k].d \in deltas

\* The ceiling the home was charged for: no more fibers run under a grant's
\* admission than fibers.max.
WithinCeiling ==
    \A u \in Grants : entry[u].on /\ FiberMax > 0 =>
        Cardinality({f \in fibers : f.g = u /\ f.inc = entry[u].inc}) <= FiberMax
(* The inductive invariant behind SessionRunsOnce, FenceOnce and the          *)
(* refinement (FiberCoreProofs).                                             *)

\* A goroutine at work on a fiber or a request has one, and the session
\* operations have a named one.
InHand ==
    \A p \in Procs :
        /\ pc[p] \notin {"idle", "sweep", "drain"} => who[p] \in Fiber
        /\ pc[p] \in {"hold", "parkHold", "park", "parked"} => Named(who[p])

\* Whoever is past its holdSession has the gate.
GateHeld ==
    \A p \in Procs :
        pc[p] \in Holding /\ Named(who[p]) => gate[Key(who[p])] = p

\* A session nobody knows has no delta.
NoneIsBlank == \A k \in Keys : sessions[k].st = "none" => sessions[k] = NoSession

\* Between its resolve and its commit a clone's session does not run and is
\* parked with the delta the clone resumes, or unknown.
ResolveStands ==
    \A p \in Procs : pc[p] \in Reserving =>
        IF Named(who[p])
        THEN sessions[Key(who[p])].st # "running" /\ src[p] = sessions[Key(who[p])].d
        ELSE src[p] = NoFiber

\* The last seq a grant has minted, admitted or not.
SeqTop(u) == IF entry[u].on THEN entry[u].next ELSE seqHigh[u]

SeqBound ==
    /\ \A f \in born : f.n <= SeqTop(f.g)
    /\ \A p \in Procs : pc[p] \in Reserving => who[p].n <= SeqTop(who[p].g)

\* No two fibers of a grant share a seq, committed or not.
SeqDistinct ==
    /\ \A f, h \in born : f.g = h.g /\ f.n = h.n => f = h
    /\ \A p \in Procs : pc[p] \in Reserving =>
          /\ \A f \in born : ~(f.g = who[p].g /\ f.n = who[p].n)
          /\ \A q \in Procs :
                pc[q] \in Reserving /\ who[q].g = who[p].g /\ who[q].n = who[p].n => q = p

FibersBorn == fibers \subseteq born

IInv ==
    /\ TypeOK /\ InHand /\ GateHeld /\ NoneIsBlank /\ ResolveStands
    /\ SeqBound /\ SeqDistinct /\ FibersBorn /\ SessionRunsOnce

-----------------------------------------------------------------------------
(* Refinement *)

\* The ledger as the fibers and sessions a caller may rely on.
Service == INSTANCE FiberService WITH
    running <- fibers,
    parked  <- [k \in Keys |-> IF sessions[k].st = "parked" THEN sessions[k].d ELSE NoFiber],
    base    <- [k \in Keys |-> IF sessions[k].st = "running" THEN sessions[k].d ELSE NoFiber],
    ever    <- born

\* The operations together implement FiberService: each commit is a birth from
\* exactly what is parked then, each park and each end is one step.
ImplementsService == Service!Spec

-----------------------------------------------------------------------------
(* Liveness *)

(***************************************************************************)
(* Every call of the runtime has a deadline and every goroutine is         *)
(* scheduled, so an operation that can step does.  A session's gate is a   *)
(* Go mutex, which serves a waiter that has waited (SessionGate).  Core.Run*)
(* receives the exits.                                                     *)
(***************************************************************************)
Fairness ==
    /\ \A p \in Procs : WF_vars(Step(p)) /\ SF_vars(CloneHold(p) \/ ParkHold(p))
    /\ WF_vars(\E f \in exits : OnExit(f))

FairSpec == Spec /\ Fairness

\* Every call returns: no goroutine waits for ever on a gate, on another
\* operation or in a sweep's or a drain's loop.
CallsReturn == \A p \in Procs : (pc[p] # "idle") ~> (pc[p] = "idle")

\* A revoked admission's fibers all go, even when the grant is admitted again
\* while the Yield still releases them.
RevokedGo ==
    \A u \in Grants, i \in 1..MaxInc :
        (entry[u].inc > i \/ (entry[u].inc = i /\ ~entry[u].on))
            ~> (\A f \in fibers : ~(f.g = u /\ f.inc = i))
==============================================================================
