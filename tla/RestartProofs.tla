---------------------------- MODULE RestartProofs ----------------------------
(***************************************************************************)
(* Proofs about Restart: what fiberd keeps across a crash at any step, for *)
(* any set of goroutines and grants and any bounds.                        *)
(*                                                                         *)
(* The inductive invariant IInv has a part for each thing the properties   *)
(* rest on: what a goroutine at each step has in hand (Typed), the order   *)
(* of the boot (Booting), fences that only grow (Epochs, Minted...), what  *)
(* the gate protects (Gates, Steady), whose each process is (Processes),   *)
(* that a delta has one name and the named ones are on disk (Apart,        *)
(* Unparked, Loaded, OnDisk), and which snapshots may still name a delta   *)
(* whose resume was answered (Turns, Nobodys, Unnamed).                    *)
(*                                                                         *)
(* Durable, on top of it, follows a session whose park was answered: where *)
(* it is in memory (InMemory), in the file (InTheFile), in the hands of a  *)
(* boot (InBoot) and in a snapshot under way (InTheImage), and what the    *)
(* calls that a snapshot covers may count on (Admits, Parks, Discards).    *)
(***************************************************************************)
EXTENDS Restart, TLAPS

\* Which verb a goroutine serves at each step, and what it has in hand.
Verbs ==
    \A p \in Procs :
       /\ (pc[p] = "idle") <=> (op[p] = "none")
       /\ op[p] \notin {"none", "bump"} => on[p] \in Grants
       /\ pc[p] \in {"bump", "move"} => op[p] = "bump"
       /\ pc[p] = "sweep" => op[p] \in {"bump", "yield"}
       /\ pc[p] = "drop" => op[p] \in {"bump", "yield", "park", "discard", "end"}
       /\ pc[p] \in {"birth", "commit"} => op[p] = "clone"
       /\ pc[p] \in {"park", "parked"} => op[p] = "park"
       /\ pc[p] = "forget" => op[p] = "discard"
       /\ pc[p] \in {"take", "restore"} => op[p] = "admit"
       /\ op[p] = "end" => pc[p] = "drop"
       /\ pc[p] \in {"birth", "commit", "park", "parked"} => fib[p] \in Fences
       /\ op[p] = "clone" /\ pc[p] \notin {"birth", "commit"} => ref[p] \in Fences

\* A running session has a fence and a parked one a delta, each its grant's.
Formed(s) ==
    /\ s.st = "none" => s = NoSession
    /\ s.st = "running" => s.fence \in Fences 
    /\ s.st = "parked" => s.fence = NoFence /\ s.delta \in Fences

Sess == \A g \in Grants : Formed(sessions[g])

\* The empty session and the empty snapshot are typed.
LEMMA NoSessionType ==
    NoSession \in SessionType /\ Empty.sess \in [Grants -> SessionType] /\ Empty \in ImageType
    BY DEF NoSession, Session, SessionType, Empty, ImageType

\* The value that stands for no fence is no fence.
LEMMA NotFence == NoFence \notin Fences
    BY ConstAssumption DEF Fences

\* What a typed session is made of.
LEMMA SessionParts ==
    /\ \A s \in SessionType : s.fence \in Fences \cup {NoFence} /\ s.delta \in Fences \cup {NoFence}
    /\ \A f \in Fences : Parked(f) \in SessionType
    BY DEF SessionType, Parked, Session

\* A parked session is its delta.
LEMMA ParkedIs == \A s \in SessionType : Formed(s) /\ s.st = "parked" => s = Parked(s.delta)
    BY DEF SessionType, Formed, Parked, Session

\* A file write that reports success left the new content; one that reports an
\* error left the old or the new.
LEMMA WroteIs ==
    \A old, new : \A w \in Wrote(old, new) :
        (w[2] = TRUE /\ w[1] = new) \/ (w[2] = FALSE /\ w[1] \in {old, new})
<1> TAKE old, new
<1> TAKE w \in Wrote(old, new)
<1>1. CASE w = <<new, TRUE>>
    BY <1>1
<1>2. CASE w = <<old, FALSE>>
    BY <1>2
<1>3. CASE w = <<new, FALSE>>
    BY <1>3
<1> QED
    BY <1>1, <1>2, <1>3, Zenon DEF Wrote

\* Ledger.Snapshot is a snapshot.
LEMMA SnapshotType == TypeOK => LedgerSnapshot \in ImageType
    BY DEF TypeOK, LedgerType, LedgerSnapshot, ImageType

\* Adding what boot held to a snapshot gives a snapshot (Core.snapshot).
LEMMA WithHeldType == ASSUME TypeOK, NEW img \in ImageType PROVE WithHeld(img) \in ImageType
    BY DEF TypeOK, LedgerType, WithHeld, ImageType

\* What is on disk keeps its type.
LEMMA DiskStep == TypeOK /\ Verbs /\ Sess /\ DiskType /\ [Next]_vars => DiskType'
<1> SUFFICES ASSUME TypeOK, Verbs, Sess, DiskType, [Next]_vars PROVE DiskType'
    OBVIOUS
<1> USE ConstAssumption DEF TypeOK, DiskType, Verbs, Sess, diskVars, ledgerVars, heldVars,
        storeVars, procVars, bootVars, history
<1>1. CASE OpenEpochStore
    BY <1>1, WroteIs DEF OpenEpochStore, NextEpoch, OkIf, Works, Fails, HistoryType
<1>2. CASE AdmitPersist
    BY <1>2, WroteIs, SnapshotType, WithHeldType DEF AdmitPersist, BootPersist, OkIf, Works, Fails
<1>3. CASE KillOrphans
    BY <1>3 DEF KillOrphans, Orphans, Spent, SnapSession, OkIf, Works, Fails
<1>4. CASE SweepDeltas
    BY <1>4 DEF SweepDeltas, OkIf, Works, Fails
<1>5. CASE LastPersist
    BY <1>5, WroteIs, SnapshotType, WithHeldType DEF LastPersist, BootPersist, OkIf, Works, Fails
<1>6. CASE GoBad
    BY <1>6 DEF GoBad, Fails, HistoryType
<1>7. ASSUME NEW p \in Procs, Bump(p) PROVE DiskType'
    BY <1>7, WroteIs DEF Bump, OkIf, Works, Fails, LedgerType
<1>8. ASSUME NEW p \in Procs, Sweep(p) PROVE DiskType'
    BY <1>8 DEF Sweep, Sweepable, Swept, Goes, NoSession, Session
<1>9. ASSUME NEW p \in Procs, DiscardDelta(p) PROVE DiskType'
    BY <1>9 DEF DiscardDelta, Works, Fails
<1>10. ASSUME NEW p \in Procs, CloneBirth(p) PROVE DiskType'
    BY <1>10 DEF CloneBirth, Works, Fails, Goes, Returns
<1>11. ASSUME NEW p \in Procs, CloneCommit(p) PROVE DiskType'
    BY <1>11 DEF CloneCommit, Goes, Returns, Session
<1>12. ASSUME NEW p \in Procs, RuntimePark(p) PROVE DiskType'
    BY <1>12 DEF RuntimePark, OkIf, Works, Fails, Goes, Returns
<1>13. ASSUME NEW p \in Procs, NEW g \in Grants, NEW drop \in BOOLEAN, End(p, g, drop) PROVE DiskType'
    BY <1>13 DEF End, Begins, NoSession, Session
<1>14. ASSUME NEW p \in Procs, Write(p) PROVE DiskType'
    BY <1>14, WroteIs DEF Write, OkIf, Works, Fails, StoreType
<1>15. CASE UNCHANGED <<epochFile, file, deltas, running>>
    BY <1>15
<1> HIDE DEF TypeOK, DiskType, Verbs, Sess, diskVars, ledgerVars, heldVars, storeVars, procVars,
    bootVars, history
<1> QED
    BY <1>1, <1>2, <1>3, <1>4, <1>5, <1>6, <1>7, <1>8, <1>9, <1>10, <1>11, <1>12, <1>13, <1>14,
        <1>15 DEF Next, vars, Load, ReconcileGrant, ReconcileSessions, Stop, BeginBump, MoveEpoch,
        CloneResolve, BeginPark, OnPark, Discard, ForgetSession, Yield, Admit, TakeHeld,
        RestoreParked, Ask, Share, TakeTurn, MergeHeld, diskVars, ledgerVars, heldVars, storeVars,
        procVars, bootVars, history, Begins, Goes

\* The ledger and what boot held keep their type.
LEMMA LedgerStep == TypeOK /\ Verbs /\ Sess /\ LedgerType /\ [Next]_vars => LedgerType'
<1> SUFFICES ASSUME TypeOK, Verbs, Sess, LedgerType, [Next]_vars PROVE LedgerType'
    OBVIOUS
<1> USE ConstAssumption DEF TypeOK, LedgerType, Verbs, Sess, diskVars, ledgerVars, heldVars,
        storeVars, procVars, bootVars, history
<1>1. CASE OpenEpochStore
    BY <1>1, WroteIs DEF OpenEpochStore, NextEpoch, OkIf, Works, Fails, DiskType, HistoryType
<1>2. ASSUME NEW g \in Grants, ReconcileGrant(g) PROVE LedgerType'
    BY <1>2 DEF ReconcileGrant, BootType
<1>3. CASE ReconcileSessions
    BY <1>3 DEF ReconcileSessions, Usable, SnapSession, Parked, Session, NoSession, SessionType,
        BootType, ImageType
<1>4. CASE Stop
    BY <1>4, NoSessionType DEF Stop
<1>5. ASSUME NEW p \in Procs, Bump(p) PROVE LedgerType'
    BY <1>5, WroteIs DEF Bump, OkIf, Works, Fails, Goes, Returns
<1>6. ASSUME NEW p \in Procs, MoveEpoch(p) PROVE LedgerType'
    BY <1>6 DEF MoveEpoch, Goes
<1>7. ASSUME NEW p \in Procs, Sweep(p) PROVE LedgerType'
    BY <1>7, NoSessionType DEF Sweep, Sweepable, Swept, Goes
<1>8. ASSUME NEW p \in Procs, NEW g \in Grants, CloneResolve(p, g) PROVE LedgerType'
    BY <1>8 DEF CloneResolve, Begins, Hold
<1>9. ASSUME NEW p \in Procs, CloneCommit(p) PROVE LedgerType'
  <2>1. on[p] \in Grants /\ fib[p] \in Fences /\ ref[p] \in Fences \cup {NoFence}
    BY <1>9 DEF CloneCommit, ProcType
  <2>2. /\ Session("running", fib[p], ref[p]) \in SessionType
        /\ Session("running", fib[p], NoFence) \in SessionType
    BY <2>1 DEF Session, SessionType
  <2> QED
    BY <1>9, <2>1, <2>2 DEF CloneCommit
<1>10. ASSUME NEW p \in Procs, OnPark(p) PROVE LedgerType'
    BY <1>10, SessionParts DEF OnPark, Goes
<1>11. ASSUME NEW p \in Procs, NEW g \in Grants, NEW drop \in BOOLEAN, End(p, g, drop) PROVE LedgerType'
    BY <1>11, NoSessionType DEF End, Begins
<1>12. ASSUME NEW p \in Procs, ForgetSession(p) PROVE LedgerType'
    BY <1>12, NoSessionType DEF ForgetSession, Goes
<1>13. ASSUME NEW p \in Procs, NEW g \in Grants, Yield(p, g) PROVE LedgerType'
    BY <1>13 DEF Yield, Begins
<1>14. ASSUME NEW p \in Procs, NEW g \in Grants, Admit(p, g) PROVE LedgerType'
    BY <1>14 DEF Admit, Begins
<1>15. ASSUME NEW p \in Procs, TakeHeld(p) PROVE LedgerType'
    BY <1>15, NoSessionType DEF TakeHeld, Goes
<1>16. ASSUME NEW p \in Procs, RestoreParked(p) PROVE LedgerType'
    BY <1>16 DEF RestoreParked, Goes, Parked, NoSession, Session, SessionType, ProcType
<1>17. CASE UNCHANGED <<epoch, current, seq, grants, sessions, held, kept>>
    BY <1>17
<1> HIDE DEF TypeOK, LedgerType, Verbs, Sess, diskVars, ledgerVars, heldVars, storeVars, procVars,
    bootVars, history
<1> QED
    BY <1>1, <1>2, <1>3, <1>4, <1>5, <1>6, <1>7, <1>8, <1>9, <1>10, <1>11, <1>12, <1>13, <1>14,
        <1>15, <1>16, <1>17 DEF Next, vars, Load, AdmitPersist, KillOrphans, SweepDeltas,
        LastPersist, GoBad, BeginBump, DiscardDelta, CloneBirth, BeginPark, RuntimePark, Discard,
        Ask, Share, TakeTurn, MergeHeld, Write, diskVars, ledgerVars, heldVars, storeVars, procVars,
        bootVars, history, Begins, Goes, BootPersist

\* The snapshot store keeps its type.
LEMMA StoreStep == TypeOK /\ Verbs /\ Sess /\ StoreType /\ [Next]_vars => StoreType'
<1> SUFFICES ASSUME TypeOK, Verbs, Sess, StoreType, [Next]_vars PROVE StoreType'
    OBVIOUS
<1> USE ConstAssumption DEF TypeOK, StoreType, Verbs, Sess, diskVars, ledgerVars, heldVars,
        storeVars, procVars, bootVars, history
<1>1. CASE AdmitPersist
    BY <1>1, WroteIs DEF AdmitPersist, BootPersist, OkIf, Works, Fails
<1>2. CASE LastPersist
    BY <1>2, WroteIs DEF LastPersist, BootPersist, OkIf, Works, Fails
<1>3. CASE Stop
    BY <1>3, NoSessionType DEF Stop
<1>4. ASSUME NEW p \in Procs, Ask(p) PROVE StoreType'
    BY <1>4 DEF Ask, Goes
<1>5. ASSUME NEW p \in Procs, TakeTurn(p) PROVE StoreType'
    BY <1>5, SnapshotType DEF TakeTurn, Goes
<1>6. ASSUME NEW p \in Procs, MergeHeld(p) PROVE StoreType'
    BY <1>6, WithHeldType DEF MergeHeld, Goes
<1>7. ASSUME NEW p \in Procs, Write(p) PROVE StoreType'
    BY <1>7, WroteIs, NoSessionType DEF Write, OkIf, Works, Fails
<1>8. CASE UNCHANGED <<asked, covered, lastErr, turn, image>>
    BY <1>8
<1> HIDE DEF TypeOK, StoreType, Verbs, Sess, diskVars, ledgerVars, heldVars, storeVars, procVars,
    bootVars, history
<1> QED
    BY <1>1, <1>2, <1>3, <1>4, <1>5, <1>6, <1>7, <1>8 DEF Next, vars, OpenEpochStore, Load,
        ReconcileGrant, ReconcileSessions, KillOrphans, SweepDeltas, GoBad, BeginBump, Bump,
        MoveEpoch, Sweep, DiscardDelta, CloneResolve, CloneBirth, CloneCommit, BeginPark,
        RuntimePark, OnPark, End, Discard, ForgetSession, Yield, Admit, TakeHeld, RestoreParked,
        Share, diskVars, ledgerVars, heldVars, storeVars, procVars, bootVars, history, Begins, Goes

\* The goroutines and the gates keep their type.
LEMMA ProcStep == TypeOK /\ Verbs /\ Sess /\ ProcType /\ [Next]_vars => ProcType'
<1> SUFFICES ASSUME TypeOK, Verbs, Sess, ProcType, [Next]_vars PROVE ProcType'
    OBVIOUS
<1> USE ConstAssumption DEF TypeOK, ProcType, Verbs, Sess, diskVars, ledgerVars, heldVars,
        storeVars, procVars, bootVars, history
<1>1. CASE Stop
    BY <1>1 DEF Stop, Empty
<1>2. ASSUME NEW p \in Procs, BeginBump(p) PROVE ProcType'
    BY <1>2 DEF BeginBump, Begins
<1>3. ASSUME NEW p \in Procs, Bump(p) PROVE ProcType'
    BY <1>3, WroteIs DEF Bump, OkIf, Works, Fails, Goes, Returns
<1>4. ASSUME NEW p \in Procs, MoveEpoch(p) PROVE ProcType'
    BY <1>4 DEF MoveEpoch, Goes
<1>5. ASSUME NEW p \in Procs, Sweep(p) PROVE ProcType'
    BY <1>5 DEF Sweep, Sweepable, Swept, Goes, NoSession, Session, LedgerType, SessionType
<1>6. ASSUME NEW p \in Procs, DiscardDelta(p) PROVE ProcType'
    BY <1>6 DEF DiscardDelta, Works, Fails, Goes, Returns
<1>7. ASSUME NEW p \in Procs, NEW g \in Grants, CloneResolve(p, g) PROVE ProcType'
    BY <1>7 DEF CloneResolve, Begins, Hold, LedgerType, SessionType, Fences
<1>8. ASSUME NEW p \in Procs, CloneBirth(p) PROVE ProcType'
    BY <1>8 DEF CloneBirth, Works, Fails, Goes, Returns
<1>9. ASSUME NEW p \in Procs, CloneCommit(p) PROVE ProcType'
    BY <1>9 DEF CloneCommit, Goes, Returns, Session
<1>10. ASSUME NEW p \in Procs, NEW g \in Grants, BeginPark(p, g) PROVE ProcType'
    BY <1>10 DEF BeginPark, Begins, Hold, LedgerType, SessionType
<1>11. ASSUME NEW p \in Procs, RuntimePark(p) PROVE ProcType'
    BY <1>11 DEF RuntimePark, OkIf, Works, Fails, Goes, Returns
<1>12. ASSUME NEW p \in Procs, OnPark(p) PROVE ProcType'
    BY <1>12, SessionParts DEF OnPark, Goes, LedgerType
<1>13. ASSUME NEW p \in Procs, NEW g \in Grants, NEW drop \in BOOLEAN, End(p, g, drop) PROVE ProcType'
  <2>1. CASE drop /\ sessions[g].delta # NoFence
    BY <1>13, <2>1, SessionParts DEF End, Begins, LedgerType
  <2>2. CASE ~(drop /\ sessions[g].delta # NoFence)
    BY <1>13, <2>2 DEF End
  <2> QED
    BY <2>1, <2>2
<1>14. ASSUME NEW p \in Procs, NEW g \in Grants, Discard(p, g) PROVE ProcType'
    BY <1>14 DEF Discard, Begins, Hold, LedgerType, SessionType
<1>15. ASSUME NEW p \in Procs, ForgetSession(p) PROVE ProcType'
    BY <1>15 DEF ForgetSession, Goes, NoSession, Session
<1>16. ASSUME NEW p \in Procs, NEW g \in Grants, Yield(p, g) PROVE ProcType'
    BY <1>16 DEF Yield, Begins
<1>17. ASSUME NEW p \in Procs, NEW g \in Grants, Admit(p, g) PROVE ProcType'
    BY <1>17 DEF Admit, Begins
<1>18. ASSUME NEW p \in Procs, TakeHeld(p) PROVE ProcType'
    BY <1>18 DEF TakeHeld, Goes, NoSession, Session, LedgerType, SessionType
<1>19. ASSUME NEW p \in Procs, RestoreParked(p) PROVE ProcType'
    BY <1>19 DEF RestoreParked, Goes, Parked, NoSession, Session
<1>20. ASSUME NEW p \in Procs, Ask(p) PROVE ProcType'
    BY <1>20 DEF Ask, Goes, StoreType
<1>21. ASSUME NEW p \in Procs, Share(p) PROVE ProcType'
    BY <1>21 DEF Share, Answers, Returns
<1>22. ASSUME NEW p \in Procs, TakeTurn(p) PROVE ProcType'
    BY <1>22 DEF TakeTurn, Goes, LedgerSnapshot
<1>23. ASSUME NEW p \in Procs, MergeHeld(p) PROVE ProcType'
    BY <1>23 DEF MergeHeld, Goes, WithHeld
<1>24. ASSUME NEW p \in Procs, Write(p) PROVE ProcType'
    BY <1>24, WroteIs DEF Write, Answers, Returns, OkIf, Works, Fails
<1>25. CASE UNCHANGED <<gate, pc, op, on, fib, ref, ticket, stale>>
    BY <1>25
<1> HIDE DEF TypeOK, ProcType, Verbs, Sess, diskVars, ledgerVars, heldVars, storeVars, procVars,
    bootVars, history
<1> QED
    BY <1>1, <1>2, <1>3, <1>4, <1>5, <1>6, <1>7, <1>8, <1>9, <1>10, <1>11, <1>12, <1>13, <1>14,
        <1>15, <1>16, <1>17, <1>18, <1>19, <1>20, <1>21, <1>22, <1>23, <1>24, <1>25 DEF Next, vars,
        OpenEpochStore, Load, ReconcileGrant, AdmitPersist, ReconcileSessions, KillOrphans,
        SweepDeltas, LastPersist, GoBad, diskVars, ledgerVars, heldVars, storeVars, procVars,
        bootVars, history, Begins, Goes, BootPersist

\* The boot keeps its type.
LEMMA BootStep == TypeOK /\ Verbs /\ Sess /\ BootType /\ [Next]_vars => BootType'
<1> SUFFICES ASSUME TypeOK, Verbs, Sess, BootType, [Next]_vars PROVE BootType'
    OBVIOUS
<1> USE ConstAssumption DEF TypeOK, BootType, Verbs, Sess, diskVars, ledgerVars, heldVars,
        storeVars, procVars, bootVars, history
<1>1. CASE OpenEpochStore
    BY <1>1, WroteIs DEF OpenEpochStore, NextEpoch, OkIf, Works, Fails
<1>2. CASE Load
    BY <1>2 DEF Load, DiskType, ImageType
<1>3. ASSUME NEW g \in Grants, ReconcileGrant(g) PROVE BootType'
    BY <1>3 DEF ReconcileGrant
<1>4. CASE AdmitPersist
    BY <1>4, WroteIs DEF AdmitPersist, BootPersist, OkIf, Works, Fails, LedgerSnapshot, WithHeld
<1>5. CASE ReconcileSessions
    BY <1>5 DEF ReconcileSessions, Usable, SnapSession, Parked, Session, NoSession
<1>6. CASE KillOrphans
    BY <1>6 DEF KillOrphans, Orphans, Spent, SnapSession, OkIf, Works, Fails
<1>7. CASE SweepDeltas
    BY <1>7 DEF SweepDeltas, OkIf, Works, Fails
<1>8. CASE LastPersist
    BY <1>8, WroteIs DEF LastPersist, BootPersist, OkIf, Works, Fails, LedgerSnapshot, WithHeld
<1>9. CASE Stop
    BY <1>9, NoSessionType DEF Stop
<1>10. CASE UNCHANGED <<status, snap, todo>>
    BY <1>10
<1> HIDE DEF TypeOK, BootType, Verbs, Sess, diskVars, ledgerVars, heldVars, storeVars, procVars,
    bootVars, history
<1> QED
    BY <1>1, <1>2, <1>3, <1>4, <1>5, <1>6, <1>7, <1>8, <1>9, <1>10 DEF Next, vars, GoBad, BeginBump,
        Bump, MoveEpoch, Sweep, DiscardDelta, CloneResolve, CloneBirth, CloneCommit, BeginPark,
        RuntimePark, OnPark, End, Discard, ForgetSession, Yield, Admit, TakeHeld, RestoreParked,
        Ask, Share, TakeTurn, MergeHeld, Write, diskVars, ledgerVars, heldVars, storeVars, procVars,
        bootVars, history, Begins, Goes

\* The history keeps its type: a resume that is answered had a delta.
LEMMA HistoryStep == TypeOK /\ Verbs /\ Sess /\ HistoryType /\ [Next]_vars => HistoryType'
<1> SUFFICES ASSUME TypeOK, Verbs, Sess, HistoryType, [Next]_vars PROVE HistoryType'
    OBVIOUS
<1> USE ConstAssumption DEF TypeOK, HistoryType, Verbs, Sess, diskVars, ledgerVars, heldVars,
        storeVars, procVars, bootVars, history
<1>1. CASE OpenEpochStore
    BY <1>1, WroteIs DEF OpenEpochStore, NextEpoch, OkIf, Works, Fails
<1>2. ASSUME NEW g \in Grants, ReconcileGrant(g) PROVE HistoryType'
    BY <1>2 DEF ReconcileGrant
<1>3. CASE AdmitPersist
    BY <1>3, WroteIs DEF AdmitPersist, BootPersist, OkIf, Works, Fails, LedgerSnapshot, WithHeld
<1>4. CASE KillOrphans
    BY <1>4 DEF KillOrphans, Orphans, Spent, SnapSession, OkIf, Works, Fails, DiskType
<1>5. CASE SweepDeltas
    BY <1>5 DEF SweepDeltas, OkIf, Works, Fails
<1>6. CASE LastPersist
    BY <1>6, WroteIs DEF LastPersist, BootPersist, OkIf, Works, Fails, LedgerSnapshot, WithHeld
<1>7. CASE Stop
    BY <1>7 DEF Stop, Empty
<1>8. CASE GoBad
    BY <1>8 DEF GoBad, Fails
<1>9. ASSUME NEW p \in Procs, BeginBump(p) PROVE HistoryType'
    BY <1>9 DEF BeginBump, Begins
<1>10. ASSUME NEW p \in Procs, Bump(p) PROVE HistoryType'
    BY <1>10, WroteIs DEF Bump, OkIf, Works, Fails, Goes, Returns
<1>11. ASSUME NEW p \in Procs, DiscardDelta(p) PROVE HistoryType'
    BY <1>11 DEF DiscardDelta, Works, Fails, Goes, Returns
<1>12. ASSUME NEW p \in Procs, NEW g \in Grants, CloneResolve(p, g) PROVE HistoryType'
    BY <1>12 DEF CloneResolve, Begins, Hold, LedgerType
<1>13. ASSUME NEW p \in Procs, CloneBirth(p) PROVE HistoryType'
    BY <1>13 DEF CloneBirth, Works, Fails, Goes, Returns
<1>14. ASSUME NEW p \in Procs, CloneCommit(p) PROVE HistoryType'
    BY <1>14 DEF CloneCommit, Goes, Returns, Session, ProcType
<1>15. ASSUME NEW p \in Procs, RuntimePark(p) PROVE HistoryType'
    BY <1>15 DEF RuntimePark, OkIf, Works, Fails, Goes, Returns
<1>16. ASSUME NEW p \in Procs, NEW g \in Grants, Discard(p, g) PROVE HistoryType'
    BY <1>16 DEF Discard, Begins, Hold
<1>17. ASSUME NEW p \in Procs, NEW g \in Grants, Yield(p, g) PROVE HistoryType'
    BY <1>17 DEF Yield, Begins
<1>18. ASSUME NEW p \in Procs, Share(p) PROVE HistoryType'
    BY <1>18 DEF Share, Answers, Returns, ProcType
<1>19. ASSUME NEW p \in Procs, Write(p) PROVE HistoryType'
    BY <1>19, WroteIs DEF Write, Answers, Returns, OkIf, Works, Fails, ProcType
<1>20. CASE UNCHANGED <<moves, faults, acked, cut, consumed, stray, last>>
    BY <1>20
<1> HIDE DEF TypeOK, HistoryType, Verbs, Sess, diskVars, ledgerVars, heldVars, storeVars, procVars,
    bootVars, history
<1> QED
    BY <1>1, <1>2, <1>3, <1>4, <1>5, <1>6, <1>7, <1>8, <1>9, <1>10, <1>11, <1>12, <1>13, <1>14,
        <1>15, <1>16, <1>17, <1>18, <1>19, <1>20 DEF Next, vars, Load, ReconcileSessions, MoveEpoch,
        Sweep, BeginPark, OnPark, End, ForgetSession, Admit, TakeHeld, RestoreParked, Ask, TakeTurn,
        MergeHeld, diskVars, ledgerVars, heldVars, storeVars, procVars, bootVars, history, Begins,
        Goes

\* Each step of a goroutine belongs to the verb it serves.
LEMMA VerbsStep == TypeOK /\ Sess /\ Verbs /\ [Next]_vars => Verbs'
<1> SUFFICES ASSUME TypeOK, Sess, Verbs, [Next]_vars PROVE Verbs'
    OBVIOUS
<1> USE ConstAssumption DEF TypeOK, ProcType, Verbs, Sess, diskVars, ledgerVars, heldVars,
        storeVars, procVars, bootVars, history
<1>1. CASE Stop
    BY <1>1 DEF Stop, Empty
<1>2. ASSUME NEW p \in Procs, BeginBump(p) PROVE Verbs'
    BY <1>2 DEF BeginBump, Begins
<1>3. ASSUME NEW p \in Procs, Bump(p) PROVE Verbs'
    BY <1>3, WroteIs DEF Bump, OkIf, Works, Fails, Goes, Returns
<1>4. ASSUME NEW p \in Procs, MoveEpoch(p) PROVE Verbs'
    BY <1>4 DEF MoveEpoch, Goes
<1>5. ASSUME NEW p \in Procs, Sweep(p) PROVE Verbs'
    BY <1>5 DEF Sweep, Sweepable, Swept, Goes, NoSession, Session
<1>6. ASSUME NEW p \in Procs, DiscardDelta(p) PROVE Verbs'
    BY <1>6 DEF DiscardDelta, Works, Fails, Goes, Returns
<1>7. ASSUME NEW p \in Procs, NEW g \in Grants, CloneResolve(p, g) PROVE Verbs'
    BY <1>7 DEF CloneResolve, Begins, Hold, LedgerType, SessionType, Fences
<1>8. ASSUME NEW p \in Procs, CloneBirth(p) PROVE Verbs'
    BY <1>8 DEF CloneBirth, Works, Fails, Goes, Returns
<1>9. ASSUME NEW p \in Procs, CloneCommit(p) PROVE Verbs'
    BY <1>9 DEF CloneCommit, Goes, Returns, Session
<1>10. ASSUME NEW p \in Procs, NEW g \in Grants, BeginPark(p, g) PROVE Verbs'
    BY <1>10 DEF BeginPark, Begins, Hold, LedgerType, SessionType, Formed
<1>11. ASSUME NEW p \in Procs, RuntimePark(p) PROVE Verbs'
    BY <1>11 DEF RuntimePark, OkIf, Works, Fails, Goes, Returns
<1>12. ASSUME NEW p \in Procs, OnPark(p) PROVE Verbs'
    BY <1>12 DEF OnPark, Goes, Parked, Session
<1>13. ASSUME NEW p \in Procs, NEW g \in Grants, NEW drop \in BOOLEAN, End(p, g, drop) PROVE Verbs'
    BY <1>13 DEF End, Begins, NoSession, Session, LedgerType, SessionType, Formed
<1>14. ASSUME NEW p \in Procs, NEW g \in Grants, Discard(p, g) PROVE Verbs'
    BY <1>14 DEF Discard, Begins, Hold
<1>15. ASSUME NEW p \in Procs, ForgetSession(p) PROVE Verbs'
    BY <1>15 DEF ForgetSession, Goes, NoSession, Session
<1>16. ASSUME NEW p \in Procs, NEW g \in Grants, Yield(p, g) PROVE Verbs'
    BY <1>16 DEF Yield, Begins
<1>17. ASSUME NEW p \in Procs, NEW g \in Grants, Admit(p, g) PROVE Verbs'
    BY <1>17 DEF Admit, Begins
<1>18. ASSUME NEW p \in Procs, TakeHeld(p) PROVE Verbs'
    BY <1>18 DEF TakeHeld, Goes, NoSession, Session
<1>19. ASSUME NEW p \in Procs, RestoreParked(p) PROVE Verbs'
    BY <1>19 DEF RestoreParked, Goes, Parked, NoSession, Session
<1>20. ASSUME NEW p \in Procs, Ask(p) PROVE Verbs'
    BY <1>20 DEF Ask, Goes
<1>21. ASSUME NEW p \in Procs, Share(p) PROVE Verbs'
    BY <1>21 DEF Share, Answers, Returns
<1>22. ASSUME NEW p \in Procs, TakeTurn(p) PROVE Verbs'
    BY <1>22 DEF TakeTurn, Goes, LedgerSnapshot
<1>23. ASSUME NEW p \in Procs, MergeHeld(p) PROVE Verbs'
    BY <1>23 DEF MergeHeld, Goes, WithHeld
<1>24. ASSUME NEW p \in Procs, Write(p) PROVE Verbs'
    BY <1>24, WroteIs DEF Write, Answers, Returns, OkIf, Works, Fails
<1>25. CASE UNCHANGED <<gate, pc, op, on, fib, ref, ticket, stale>>
    BY <1>25
<1> HIDE DEF TypeOK, ProcType, Verbs, Sess, diskVars, ledgerVars, heldVars, storeVars, procVars,
    bootVars, history
<1> QED
    BY <1>1, <1>2, <1>3, <1>4, <1>5, <1>6, <1>7, <1>8, <1>9, <1>10, <1>11, <1>12, <1>13, <1>14,
        <1>15, <1>16, <1>17, <1>18, <1>19, <1>20, <1>21, <1>22, <1>23, <1>24, <1>25 DEF Next, vars,
        OpenEpochStore, Load, ReconcileGrant, AdmitPersist, ReconcileSessions, KillOrphans,
        SweepDeltas, LastPersist, GoBad, diskVars, ledgerVars, heldVars, storeVars, procVars,
        bootVars, history, Begins, Goes, BootPersist

\* Every session of the ledger stays well formed.
LEMMA SessStep == TypeOK /\ Verbs /\ Sess /\ [Next]_vars => Sess'
<1> SUFFICES ASSUME TypeOK, Verbs, Sess, [Next]_vars PROVE Sess'
    OBVIOUS
<1> USE ConstAssumption DEF TypeOK, Verbs, Sess, diskVars, ledgerVars, heldVars, storeVars,
        procVars, bootVars, history
<1>1. CASE ReconcileSessions
    BY <1>1 DEF ReconcileSessions, Usable, SnapSession, Parked, Session, NoSession, Formed,
        LedgerType, DiskType
<1>2. CASE Stop
    BY <1>2 DEF Stop, Empty, Formed, LedgerType, NoSession, Session
<1>3. ASSUME NEW p \in Procs, Sweep(p) PROVE Sess'
    BY <1>3 DEF Sweep, Sweepable, Swept, Goes, NoSession, Session, Formed, LedgerType, NoSession,
        Session
<1>4. ASSUME NEW p \in Procs, CloneCommit(p) PROVE Sess'
    BY <1>4 DEF CloneCommit, Goes, Returns, Session, Formed, LedgerType, NoSession, Session
<1>5. ASSUME NEW p \in Procs, OnPark(p) PROVE Sess'
    BY <1>5 DEF OnPark, Goes, Parked, Session, Formed, LedgerType, NoSession, Session
<1>6. ASSUME NEW p \in Procs, NEW g \in Grants, NEW drop \in BOOLEAN, End(p, g, drop) PROVE Sess'
    BY <1>6 DEF End, Begins, NoSession, Session, Formed, LedgerType, NoSession, Session
<1>7. ASSUME NEW p \in Procs, ForgetSession(p) PROVE Sess'
    BY <1>7 DEF ForgetSession, Goes, NoSession, Session, Formed, LedgerType, NoSession, Session
<1>8. ASSUME NEW p \in Procs, RestoreParked(p) PROVE Sess'
    BY <1>8 DEF RestoreParked, Goes, Parked, NoSession, Session, Formed, LedgerType, ProcType
<1>9. CASE UNCHANGED <<sessions>>
    BY <1>9
<1> HIDE DEF TypeOK, Verbs, Sess, diskVars, ledgerVars, heldVars, storeVars, procVars, bootVars,
    history
<1> QED
    BY <1>1, <1>2, <1>3, <1>4, <1>5, <1>6, <1>7, <1>8, <1>9 DEF Next, vars, OpenEpochStore, Load,
        ReconcileGrant, AdmitPersist, KillOrphans, SweepDeltas, LastPersist, GoBad, BeginBump, Bump,
        MoveEpoch, DiscardDelta, CloneResolve, CloneBirth, BeginPark, RuntimePark, Discard, Yield,
        Admit, TakeHeld, Ask, Share, TakeTurn, MergeHeld, Write, diskVars, ledgerVars, heldVars,
        storeVars, procVars, bootVars, history, Begins, Goes, BootPersist

\* The types, the verbs and the form of the sessions go together.
Typed == TypeOK /\ Verbs /\ Sess

\* The type invariant with what it rests on is inductive.
LEMMA TypedStep == Typed /\ [Next]_vars => Typed'
    BY DiskStep, LedgerStep, StoreStep, ProcStep, BootStep, HistoryStep, VerbsStep, SessStep
    DEF Typed, TypeOK

(***************************************************************************)
(* The boot and the gates.                                                 *)
(***************************************************************************)

\* Nothing is served before the boot ends, and a grant of the snapshot is
\* admitted or held, never both.
Booting ==
    /\ status # "serving" => (\A p \in Procs : pc[p] = "idle") /\ turn = NoProc
    /\ status # "serving" => held \cap grants = {} /\ todo \cap (held \cup grants) = {}
    /\ status \in {"down", "load"} => held = {} /\ grants = {}
    /\ status \in {"down", "load", "admit", "admit-persist"} =>
          \A g \in Grants : sessions[g] = NoSession /\ kept[g] = NoSession
    /\ status \in {"list", "sweep", "persist"} =>
          \A g \in Grants : /\ sessions[g].st # "running"
                            /\ sessions[g] # NoSession => g \in grants

\* What is kept is a parked session of a held grant.
Keeps == \A g \in Grants : kept[g] # NoSession => g \in held /\ kept[g].st = "parked"

\* A Clone, a Park and a Discard hold their session's gate to their end.
Gates == \A p \in Procs : op[p] \in {"clone", "park", "discard"} => gate[on[p]] = p

\* What the gate keeps as it was: a Clone finds the session as it resolved
\* it, and a Discard until it has forgotten it.
Steady ==
    \A p \in Procs :
       /\ pc[p] \in {"birth", "commit"} =>
             /\ sessions[on[p]].st # "running"
             /\ ref[p] # NoFence => sessions[on[p]] = Parked(ref[p])
       /\ op[p] = "discard" /\ pc[p] \in {"drop", "forget"} => sessions[on[p]] = Parked(ref[p])

\* The boot finishes before anything is served, and admits or holds a grant once
\* (Reconcile).
LEMMA BootingStep == Typed /\ Booting /\ [Next]_vars => Booting'
<1> SUFFICES ASSUME Typed, Booting, [Next]_vars PROVE Booting'
    OBVIOUS
<1> USE ConstAssumption DEF Typed, TypeOK, BootType, LedgerType, ProcType, Verbs, Booting, diskVars,
        ledgerVars, heldVars, storeVars, procVars, bootVars, history
<1>1. CASE OpenEpochStore
    BY <1>1, WroteIs DEF OpenEpochStore, NextEpoch, OkIf, Works, Fails
<1>2. CASE Load
    BY <1>2 DEF Load
<1>3. ASSUME NEW g \in Grants, ReconcileGrant(g) PROVE Booting'
    BY <1>3 DEF ReconcileGrant
<1>4. CASE AdmitPersist
    BY <1>4, WroteIs DEF AdmitPersist, BootPersist, OkIf, Works, Fails
<1>5. CASE ReconcileSessions
    BY <1>5 DEF ReconcileSessions, Usable, SnapSession, Parked, Session, NoSession, ImageType,
        SessionType
<1>6. CASE KillOrphans
    BY <1>6 DEF KillOrphans, Orphans, Spent, SnapSession, OkIf, Works, Fails
<1>7. CASE SweepDeltas
    BY <1>7 DEF SweepDeltas, OkIf, Works, Fails
<1>8. CASE LastPersist
    BY <1>8, WroteIs DEF LastPersist, BootPersist, OkIf, Works, Fails
<1>9. CASE Stop
    BY <1>9 DEF Stop, Empty
<1>10. CASE GoBad
    BY <1>10 DEF GoBad, Fails
<1>11. ASSUME NEW p \in Procs, BeginBump(p) PROVE Booting'
    BY <1>11 DEF BeginBump, Begins
<1>12. ASSUME NEW p \in Procs, Bump(p) PROVE Booting'
    BY <1>12, WroteIs DEF Bump, OkIf, Works, Fails, Goes, Returns
<1>13. ASSUME NEW p \in Procs, MoveEpoch(p) PROVE Booting'
    BY <1>13 DEF MoveEpoch, Goes
<1>14. ASSUME NEW p \in Procs, Sweep(p) PROVE Booting'
    BY <1>14 DEF Sweep, Sweepable, Swept, Goes, NoSession, Session
<1>15. ASSUME NEW p \in Procs, DiscardDelta(p) PROVE Booting'
    BY <1>15 DEF DiscardDelta, Works, Fails, Goes, Returns
<1>16. ASSUME NEW p \in Procs, NEW g \in Grants, CloneResolve(p, g) PROVE Booting'
    BY <1>16 DEF CloneResolve, Begins, Hold
<1>17. ASSUME NEW p \in Procs, CloneBirth(p) PROVE Booting'
    BY <1>17 DEF CloneBirth, Works, Fails, Goes, Returns
<1>18. ASSUME NEW p \in Procs, CloneCommit(p) PROVE Booting'
    BY <1>18 DEF CloneCommit, Goes, Returns, Session
<1>19. ASSUME NEW p \in Procs, NEW g \in Grants, BeginPark(p, g) PROVE Booting'
    BY <1>19 DEF BeginPark, Begins, Hold
<1>20. ASSUME NEW p \in Procs, RuntimePark(p) PROVE Booting'
    BY <1>20 DEF RuntimePark, OkIf, Works, Fails, Goes, Returns
<1>21. ASSUME NEW p \in Procs, OnPark(p) PROVE Booting'
    BY <1>21 DEF OnPark, Goes, Parked, Session
<1>22. ASSUME NEW p \in Procs, NEW g \in Grants, NEW drop \in BOOLEAN, End(p, g, drop) PROVE Booting'
    BY <1>22 DEF End, Begins, NoSession, Session
<1>23. ASSUME NEW p \in Procs, NEW g \in Grants, Discard(p, g) PROVE Booting'
    BY <1>23 DEF Discard, Begins, Hold
<1>24. ASSUME NEW p \in Procs, ForgetSession(p) PROVE Booting'
    BY <1>24 DEF ForgetSession, Goes, NoSession, Session
<1>25. ASSUME NEW p \in Procs, NEW g \in Grants, Yield(p, g) PROVE Booting'
    BY <1>25 DEF Yield, Begins
<1>26. ASSUME NEW p \in Procs, NEW g \in Grants, Admit(p, g) PROVE Booting'
    BY <1>26 DEF Admit, Begins
<1>27. ASSUME NEW p \in Procs, TakeHeld(p) PROVE Booting'
    BY <1>27 DEF TakeHeld, Goes, NoSession, Session
<1>28. ASSUME NEW p \in Procs, RestoreParked(p) PROVE Booting'
    BY <1>28 DEF RestoreParked, Goes, Parked, NoSession, Session
<1>29. ASSUME NEW p \in Procs, Ask(p) PROVE Booting'
    BY <1>29 DEF Ask, Goes
<1>30. ASSUME NEW p \in Procs, Share(p) PROVE Booting'
    BY <1>30 DEF Share, Answers, Returns
<1>31. ASSUME NEW p \in Procs, TakeTurn(p) PROVE Booting'
    BY <1>31 DEF TakeTurn, Goes, LedgerSnapshot
<1>32. ASSUME NEW p \in Procs, MergeHeld(p) PROVE Booting'
    BY <1>32 DEF MergeHeld, Goes, WithHeld
<1>33. ASSUME NEW p \in Procs, Write(p) PROVE Booting'
    BY <1>33, WroteIs DEF Write, Answers, Returns, OkIf, Works, Fails
<1>34. CASE UNCHANGED vars
    BY <1>34 DEF vars
<1> QED
    BY <1>1, <1>2, <1>3, <1>4, <1>5, <1>6, <1>7, <1>8, <1>9, <1>10, <1>11, <1>12, <1>13, <1>14,
        <1>15, <1>16, <1>17, <1>18, <1>19, <1>20, <1>21, <1>22, <1>23, <1>24, <1>25, <1>26, <1>27,
        <1>28, <1>29, <1>30, <1>31, <1>32, <1>33, <1>34 DEF Next

(***************************************************************************)
(* Fences.                                                                 *)
(***************************************************************************)

\* The epoch in use is on disk, and every epoch is below the clock that a
\* file which does not read is replaced by.
Epochs ==
    /\ epochFile # Torn => epochFile < UnixTime + moves
    /\ status # "down" => epochFile # Torn /\ current <= epoch /\ epoch <= epochFile
    /\ \A p \in Procs : pc[p] = "bump" => epoch + 1 < UnixTime + moves
    /\ \A p, q \in Procs : op[p] = "bump" /\ op[q] = "bump" => p = q

\* The epoch in memory never passes the one on disk (OpenEpochStore, Bump), nor
\* the ledger's the store's (Ledger.BumpEpoch).
LEMMA EpochsStep == Typed /\ Booting /\ Epochs /\ [Next]_vars => Epochs'
<1> SUFFICES ASSUME Typed, Booting, Epochs, [Next]_vars PROVE Epochs'
    OBVIOUS
<1> USE ConstAssumption DEF Typed, TypeOK, DiskType, LedgerType, HistoryType, ProcType, Verbs,
        Booting, Epochs, diskVars, ledgerVars, heldVars, storeVars, procVars, bootVars, history
<1>1. CASE OpenEpochStore
    BY <1>1, WroteIs DEF OpenEpochStore, NextEpoch, OkIf, Works, Fails
<1>2. CASE Load
    BY <1>2 DEF Load
<1>3. ASSUME NEW g \in Grants, ReconcileGrant(g) PROVE Epochs'
    BY <1>3 DEF ReconcileGrant
<1>4. CASE AdmitPersist
    BY <1>4, WroteIs DEF AdmitPersist, BootPersist, OkIf, Works, Fails
<1>5. CASE ReconcileSessions
    BY <1>5 DEF ReconcileSessions, Usable, SnapSession, Parked, Session, NoSession
<1>6. CASE KillOrphans
    BY <1>6 DEF KillOrphans, Orphans, Spent, SnapSession, OkIf, Works, Fails
<1>7. CASE SweepDeltas
    BY <1>7 DEF SweepDeltas, OkIf, Works, Fails
<1>8. CASE LastPersist
    BY <1>8, WroteIs DEF LastPersist, BootPersist, OkIf, Works, Fails
<1>9. CASE Stop
    BY <1>9 DEF Stop, Empty
<1>10. CASE GoBad
    BY <1>10 DEF GoBad, Fails
<1>11. ASSUME NEW p \in Procs, BeginBump(p) PROVE Epochs'
    BY <1>11 DEF BeginBump, Begins
<1>12. ASSUME NEW p \in Procs, Bump(p) PROVE Epochs'
    BY <1>12, WroteIs DEF Bump, OkIf, Works, Fails, Goes, Returns
<1>13. ASSUME NEW p \in Procs, MoveEpoch(p) PROVE Epochs'
    BY <1>13 DEF MoveEpoch, Goes
<1>14. ASSUME NEW p \in Procs, Sweep(p) PROVE Epochs'
    BY <1>14 DEF Sweep, Sweepable, Swept, Goes, NoSession, Session
<1>15. ASSUME NEW p \in Procs, DiscardDelta(p) PROVE Epochs'
    BY <1>15 DEF DiscardDelta, Works, Fails, Goes, Returns
<1>16. ASSUME NEW p \in Procs, NEW g \in Grants, CloneResolve(p, g) PROVE Epochs'
    BY <1>16 DEF CloneResolve, Begins, Hold
<1>17. ASSUME NEW p \in Procs, CloneBirth(p) PROVE Epochs'
    BY <1>17 DEF CloneBirth, Works, Fails, Goes, Returns
<1>18. ASSUME NEW p \in Procs, CloneCommit(p) PROVE Epochs'
    BY <1>18 DEF CloneCommit, Goes, Returns, Session
<1>19. ASSUME NEW p \in Procs, NEW g \in Grants, BeginPark(p, g) PROVE Epochs'
    BY <1>19 DEF BeginPark, Begins, Hold
<1>20. ASSUME NEW p \in Procs, RuntimePark(p) PROVE Epochs'
    BY <1>20 DEF RuntimePark, OkIf, Works, Fails, Goes, Returns
<1>21. ASSUME NEW p \in Procs, OnPark(p) PROVE Epochs'
    BY <1>21 DEF OnPark, Goes, Parked, Session
<1>22. ASSUME NEW p \in Procs, NEW g \in Grants, NEW drop \in BOOLEAN, End(p, g, drop) PROVE Epochs'
  <2>1. CASE drop /\ sessions[g].delta # NoFence
    BY <1>22, <2>1 DEF End, Begins
  <2>2. CASE ~(drop /\ sessions[g].delta # NoFence)
    BY <1>22, <2>2 DEF End
  <2> QED
    BY <2>1, <2>2
<1>23. ASSUME NEW p \in Procs, NEW g \in Grants, Discard(p, g) PROVE Epochs'
    BY <1>23 DEF Discard, Begins, Hold
<1>24. ASSUME NEW p \in Procs, ForgetSession(p) PROVE Epochs'
    BY <1>24 DEF ForgetSession, Goes, NoSession, Session
<1>25. ASSUME NEW p \in Procs, NEW g \in Grants, Yield(p, g) PROVE Epochs'
    BY <1>25 DEF Yield, Begins
<1>26. ASSUME NEW p \in Procs, NEW g \in Grants, Admit(p, g) PROVE Epochs'
    BY <1>26 DEF Admit, Begins
<1>27. ASSUME NEW p \in Procs, TakeHeld(p) PROVE Epochs'
    BY <1>27 DEF TakeHeld, Goes, NoSession, Session
<1>28. ASSUME NEW p \in Procs, RestoreParked(p) PROVE Epochs'
    BY <1>28 DEF RestoreParked, Goes, Parked, NoSession, Session
<1>29. ASSUME NEW p \in Procs, Ask(p) PROVE Epochs'
    BY <1>29 DEF Ask, Goes
<1>30. ASSUME NEW p \in Procs, Share(p) PROVE Epochs'
    BY <1>30 DEF Share, Answers, Returns
<1>31. ASSUME NEW p \in Procs, TakeTurn(p) PROVE Epochs'
    BY <1>31 DEF TakeTurn, Goes, LedgerSnapshot
<1>32. ASSUME NEW p \in Procs, MergeHeld(p) PROVE Epochs'
    BY <1>32 DEF MergeHeld, Goes, WithHeld
<1>33. ASSUME NEW p \in Procs, Write(p) PROVE Epochs'
    BY <1>33, WroteIs DEF Write, Answers, Returns, OkIf, Works, Fails
<1>34. CASE UNCHANGED <<epochFile, moves, status, current, epoch, pc, op>>
    BY <1>34
<1> HIDE DEF Typed, TypeOK, DiskType, LedgerType, HistoryType, ProcType, Verbs, Booting, Epochs,
    diskVars, ledgerVars, heldVars, storeVars, procVars, bootVars, history
<1> QED
    BY <1>1, <1>2, <1>3, <1>4, <1>5, <1>6, <1>7, <1>8, <1>9, <1>10, <1>11, <1>12, <1>13, <1>14,
        <1>15, <1>16, <1>17, <1>18, <1>19, <1>20, <1>21, <1>22, <1>23, <1>24, <1>25, <1>26, <1>27,
        <1>28, <1>29, <1>30, <1>31, <1>32, <1>33, <1>34 DEF Next, vars, diskVars, ledgerVars,
        heldVars, storeVars, procVars, bootVars, history, Begins, Goes

\* The fences that have been minted: older than what the next resolve mints,
\* in this life of fiberd and in the next.
Minted ==
    {f \in Fences :
       /\ f[2] < UnixTime + moves
       /\ epochFile # Torn => f[2] <= epochFile
       /\ status # "down" => f[2] < current \/ (f[2] = current /\ f[3] <= seq[f[1]])}

\* What has been minted stays so: OpenEpochStore and Bump write an epoch
\* before it is used, and a resolve counts before it mints.
\* A minted fence stays minted, whatever happens to the epoch, the sequence
\* numbers, the file and the process.
LEMMA MintedStays == Typed /\ Booting /\ Epochs /\ [Next]_vars => Minted \subseteq Minted'
<1> SUFFICES ASSUME Typed, Booting, Epochs, [Next]_vars, NEW f \in Minted PROVE f \in Minted'
    OBVIOUS
<1> USE ConstAssumption DEF Typed, TypeOK, DiskType, LedgerType, HistoryType, Fences, Epochs, Minted
<1>1. CASE OpenEpochStore
    BY <1>1, WroteIs DEF OpenEpochStore, NextEpoch
<1>2. CASE Stop
    BY <1>2 DEF Stop, diskVars
<1>3. CASE GoBad
    BY <1>3 DEF GoBad
<1>4. ASSUME NEW p \in Procs, BeginBump(p) PROVE f \in Minted'
    BY <1>4 DEF BeginBump, diskVars, ledgerVars
<1>5. ASSUME NEW p \in Procs, Bump(p) PROVE f \in Minted'
    BY <1>5, WroteIs DEF Bump, Booting
<1>6. ASSUME NEW p \in Procs, MoveEpoch(p) PROVE f \in Minted'
    BY <1>6 DEF MoveEpoch, diskVars
<1>7. ASSUME NEW p \in Procs, NEW g \in Grants, CloneResolve(p, g) PROVE f \in Minted'
    BY <1>7 DEF CloneResolve, diskVars
<1>8. CASE UNCHANGED <<epochFile, moves, current, seq>> /\ (status' # "down" => status # "down")
    BY <1>8
<1> HIDE DEF Typed, TypeOK, DiskType, LedgerType, HistoryType, Fences, Epochs, Minted
<1> QED
    BY <1>1, <1>2, <1>3, <1>4, <1>5, <1>6, <1>7, <1>8 DEF Next, vars, Load, ReconcileGrant,
        AdmitPersist, ReconcileSessions, KillOrphans, SweepDeltas, LastPersist, Sweep, DiscardDelta,
        CloneBirth, CloneCommit, BeginPark, RuntimePark, OnPark, End, Discard, ForgetSession, Yield,
        Admit, TakeHeld, RestoreParked, Ask, Share, TakeTurn, MergeHeld, Write, diskVars,
        ledgerVars, heldVars, storeVars, procVars, bootVars, history, BootPersist

\* A fence in the hands of g, and a session of g.
Its(g, f) == f # NoFence => f \in Minted /\ f[1] = g
Theirs(sess) == \A g \in Grants : Its(g, sess[g].fence) /\ Its(g, sess[g].delta)

\* Every fence that is kept somewhere was minted, for the grant it is kept
\* for: processes and history, the ledger, the snapshots and the goroutines.
MintedPast ==
    /\ \A g \in Grants : <<g, last[g][1], last[g][2]>> \in Minted
    /\ running \cup consumed \subseteq Minted
MintedLedger == Theirs(sessions) /\ Theirs(kept)
MintedImages ==
    /\ Theirs(image.sess)
    /\ file # Torn => Theirs(file.sess)
    /\ snap # Torn => Theirs(snap.sess)
MintedHands ==
    \A p \in Procs :
       /\ ref[p] # NoFence => ref[p] \in Minted
       /\ op[p] \notin {"none", "bump"} => Its(on[p], fib[p]) /\ Its(on[p], ref[p])

\* A resolve mints a fence that was not minted before.
LEMMA MintsNew ==
    ASSUME Typed, Booting, Epochs, NEW p \in Procs, NEW g \in Grants, CloneResolve(p, g)
    PROVE  <<g, current, seq[g] + 1>> \in Minted' \ Minted
    BY ConstAssumption
    DEF CloneResolve, Begins, Typed, TypeOK, DiskType, LedgerType, HistoryType, Epochs, Minted, Fences, diskVars

\* Every process, every consumed delta and the last fence of each grant is a
\* minted fence.
LEMMA MintedPastStep == Typed /\ Booting /\ Epochs /\ MintedHands /\ MintedPast /\ [Next]_vars => MintedPast'
<1> SUFFICES ASSUME Typed, Booting, Epochs, MintedHands, MintedPast, [Next]_vars PROVE MintedPast'
    OBVIOUS
<1>0. Minted \subseteq Minted'
    BY MintedStays
<1> USE <1>0, NotFence, ConstAssumption DEF Typed, TypeOK, HistoryType, DiskType, MintedPast,
    diskVars, ledgerVars, heldVars, storeVars, procVars, bootVars, history
<1>1. CASE KillOrphans
    BY <1>1 DEF KillOrphans, Orphans, Spent, SnapSession, OkIf, Works, Fails
<1>2. ASSUME NEW p \in Procs, Sweep(p) PROVE MintedPast'
    BY <1>2 DEF Sweep, Sweepable, Swept, Goes, NoSession, Session
<1>3. ASSUME NEW p \in Procs, NEW g \in Grants, CloneResolve(p, g) PROVE MintedPast'
    BY <1>3, MintsNew DEF CloneResolve, Begins, Hold
<1>4. ASSUME NEW p \in Procs, CloneBirth(p) PROVE MintedPast'
    BY <1>4 DEF CloneBirth, Works, Fails, Goes, Returns, Verbs, MintedHands, Its, ProcType, Fences
<1>5. ASSUME NEW p \in Procs, CloneCommit(p) PROVE MintedPast'
    BY <1>5 DEF CloneCommit, Goes, Returns, Session
<1>6. ASSUME NEW p \in Procs, RuntimePark(p) PROVE MintedPast'
    BY <1>6 DEF RuntimePark, OkIf, Works, Fails, Goes, Returns
<1>7. ASSUME NEW p \in Procs, NEW g \in Grants, NEW drop \in BOOLEAN, End(p, g, drop) PROVE MintedPast'
    BY <1>7 DEF End, Begins, NoSession, Session
<1>8. ASSUME NEW p \in Procs, Share(p) PROVE MintedPast'
    BY <1>8 DEF Share, Answers, Returns, Verbs, MintedHands, ProcType
<1>9. ASSUME NEW p \in Procs, Write(p) PROVE MintedPast'
    BY <1>9, WroteIs DEF Write, Answers, Returns, OkIf, Works, Fails, Verbs, MintedHands, ProcType
<1>10. CASE UNCHANGED <<last, running, consumed>>
    BY <1>10
<1> HIDE DEF Typed, TypeOK, HistoryType, DiskType, MintedPast, diskVars, ledgerVars, heldVars,
    storeVars, procVars, bootVars, history
<1> QED
    BY <1>1, <1>2, <1>3, <1>4, <1>5, <1>6, <1>7, <1>8, <1>9, <1>10 DEF Next, vars, OpenEpochStore,
        Load, ReconcileGrant, AdmitPersist, ReconcileSessions, SweepDeltas, LastPersist, Stop,
        GoBad, BeginBump, Bump, MoveEpoch, DiscardDelta, BeginPark, OnPark, Discard, ForgetSession,
        Yield, Admit, TakeHeld, RestoreParked, Ask, TakeTurn, MergeHeld, diskVars, ledgerVars,
        heldVars, storeVars, procVars, bootVars, history, Begins, Goes, BootPersist

\* The fences the ledger and the held sessions name were minted for their grant.
LEMMA MintedLedgerStep ==
    Typed /\ Booting /\ Epochs /\ MintedHands /\ MintedImages /\ MintedLedger
       /\ [Next]_vars => MintedLedger'
<1> SUFFICES ASSUME Typed, Booting, Epochs, MintedHands, MintedImages, MintedLedger, [Next]_vars
             PROVE  MintedLedger'
    OBVIOUS
<1>0. Minted \subseteq Minted'
    BY MintedStays
<1> USE <1>0, NotFence, ConstAssumption DEF Typed, TypeOK, LedgerType, MintedLedger, Theirs, Its,
    diskVars, ledgerVars, heldVars, storeVars, procVars, bootVars, history
<1>1. CASE ReconcileSessions
    BY <1>1 DEF ReconcileSessions, Usable, SnapSession, Parked, Session, NoSession, MintedImages,
        BootType, ImageType
<1>2. CASE Stop
    BY <1>2 DEF Stop, Empty, NoSession, Session
<1>3. ASSUME NEW p \in Procs, Sweep(p) PROVE MintedLedger'
    BY <1>3 DEF Sweep, Sweepable, Swept, Goes, NoSession, Session
<1>4. ASSUME NEW p \in Procs, CloneCommit(p) PROVE MintedLedger'
    BY <1>4 DEF CloneCommit, Goes, Returns, Session, MintedHands, ProcType, Verbs
<1>5. ASSUME NEW p \in Procs, OnPark(p) PROVE MintedLedger'
  <2>1. op[p] = "park" /\ on[p] \in Grants /\ fib[p] \in Minted /\ fib[p][1] = on[p]
    BY <1>5 DEF OnPark, Goes, MintedHands, Verbs, ProcType
  <2>2. UNCHANGED kept /\ (sessions' = sessions \/ sessions' = [sessions EXCEPT ![on[p]] = Parked(fib[p])])
    BY <1>5 DEF OnPark
  <2> QED
    BY <2>1, <2>2 DEF Parked, Session
<1>6. ASSUME NEW p \in Procs, NEW g \in Grants, NEW drop \in BOOLEAN, End(p, g, drop) PROVE MintedLedger'
    BY <1>6 DEF End, Begins, NoSession, Session
<1>7. ASSUME NEW p \in Procs, ForgetSession(p) PROVE MintedLedger'
    BY <1>7 DEF ForgetSession, Goes, NoSession, Session
<1>8. ASSUME NEW p \in Procs, TakeHeld(p) PROVE MintedLedger'
    BY <1>8 DEF TakeHeld, Goes, NoSession, Session
<1>9. ASSUME NEW p \in Procs, RestoreParked(p) PROVE MintedLedger'
    BY <1>9 DEF RestoreParked, Goes, Parked, NoSession, Session, MintedHands, ProcType, Verbs
<1>10. CASE UNCHANGED <<sessions, kept>>
    BY <1>10
<1> HIDE DEF Typed, TypeOK, LedgerType, MintedLedger, Theirs, Its, diskVars, ledgerVars, heldVars,
    storeVars, procVars, bootVars, history
<1> QED
    BY <1>1, <1>2, <1>3, <1>4, <1>5, <1>6, <1>7, <1>8, <1>9, <1>10 DEF Next, vars, OpenEpochStore,
        Load, ReconcileGrant, AdmitPersist, KillOrphans, SweepDeltas, LastPersist, GoBad, BeginBump,
        Bump, MoveEpoch, DiscardDelta, CloneResolve, CloneBirth, BeginPark, RuntimePark, Discard,
        Yield, Admit, Ask, Share, TakeTurn, MergeHeld, Write, diskVars, ledgerVars, heldVars,
        storeVars, procVars, bootVars, history, Begins, Goes, BootPersist

\* The fences the snapshots name, in memory and on disk, were minted for their
\* grant.
LEMMA MintedImagesStep ==
    Typed /\ Booting /\ Epochs /\ MintedLedger /\ MintedImages /\ [Next]_vars => MintedImages'
<1> SUFFICES ASSUME Typed, Booting, Epochs, MintedLedger, MintedImages, [Next]_vars PROVE MintedImages'
    OBVIOUS
<1>0. Minted \subseteq Minted'
    BY MintedStays
<1> USE <1>0, NotFence, ConstAssumption DEF Typed, TypeOK, StoreType, BootType, DiskType, ImageType,
    MintedImages, Theirs, Its, diskVars, ledgerVars, heldVars, storeVars, procVars, bootVars,
    history
<1>1. CASE Load
    BY <1>1 DEF Load
<1>2. CASE AdmitPersist
    BY <1>2, WroteIs DEF AdmitPersist, BootPersist, OkIf, Works, Fails, LedgerSnapshot, WithHeld,
        MintedLedger, LedgerType
<1>3. CASE LastPersist
    BY <1>3, WroteIs DEF LastPersist, BootPersist, OkIf, Works, Fails, LedgerSnapshot, WithHeld,
        MintedLedger, LedgerType
<1>4. CASE Stop
    BY <1>4 DEF Stop, Empty, NoSession, Session
<1>5. CASE GoBad
    BY <1>5 DEF GoBad, Fails
<1>6. ASSUME NEW p \in Procs, TakeTurn(p) PROVE MintedImages'
    BY <1>6 DEF TakeTurn, Goes, LedgerSnapshot, MintedLedger, LedgerType
<1>7. ASSUME NEW p \in Procs, MergeHeld(p) PROVE MintedImages'
    BY <1>7 DEF MergeHeld, Goes, WithHeld, MintedLedger, LedgerType
<1>8. ASSUME NEW p \in Procs, Write(p) PROVE MintedImages'
    BY <1>8, WroteIs DEF Write, OkIf, Works, Fails, Empty, NoSession, Session
<1>9. CASE UNCHANGED <<image, file, snap>>
    BY <1>9
<1> HIDE DEF Typed, TypeOK, StoreType, BootType, DiskType, ImageType, MintedImages, Theirs, Its,
    diskVars, ledgerVars, heldVars, storeVars, procVars, bootVars, history
<1> QED
    BY <1>1, <1>2, <1>3, <1>4, <1>5, <1>6, <1>7, <1>8, <1>9 DEF Next, vars, OpenEpochStore,
        ReconcileGrant, ReconcileSessions, KillOrphans, SweepDeltas, BeginBump, Bump, MoveEpoch,
        Sweep, DiscardDelta, CloneResolve, CloneBirth, CloneCommit, BeginPark, RuntimePark, OnPark,
        End, Discard, ForgetSession, Yield, Admit, TakeHeld, RestoreParked, Ask, Share, diskVars,
        ledgerVars, heldVars, storeVars, procVars, bootVars, history, Begins, Goes

\* The fences in the goroutines' hands were minted, for the grant they serve.
LEMMA MintedHandsStep ==
    Typed /\ Booting /\ Epochs /\ MintedLedger /\ MintedHands /\ [Next]_vars => MintedHands'
<1> SUFFICES ASSUME Typed, Booting, Epochs, MintedLedger, MintedHands, [Next]_vars PROVE MintedHands'
    OBVIOUS
<1>0. Minted \subseteq Minted'
    BY MintedStays
<1> USE <1>0, NotFence, ConstAssumption DEF Typed, TypeOK, ProcType, Verbs, MintedHands, Its,
    diskVars, ledgerVars, heldVars, storeVars, procVars, bootVars, history
<1>1. CASE Stop
    BY <1>1 DEF Stop, Empty
<1>2. ASSUME NEW p \in Procs, BeginBump(p) PROVE MintedHands'
    BY <1>2 DEF BeginBump, Begins
<1>3. ASSUME NEW p \in Procs, Bump(p) PROVE MintedHands'
    BY <1>3, WroteIs DEF Bump, OkIf, Works, Fails, Goes, Returns
<1>4. ASSUME NEW p \in Procs, MoveEpoch(p) PROVE MintedHands'
    BY <1>4 DEF MoveEpoch, Goes
<1>5. ASSUME NEW p \in Procs, Sweep(p) PROVE MintedHands'
    BY <1>5 DEF Sweep, Sweepable, Swept, Goes, NoSession, Session, MintedLedger, LedgerType, Theirs
<1>6. ASSUME NEW p \in Procs, DiscardDelta(p) PROVE MintedHands'
    BY <1>6 DEF DiscardDelta, Works, Fails, Goes, Returns
<1>7. ASSUME NEW p \in Procs, NEW g \in Grants, CloneResolve(p, g) PROVE MintedHands'
  <2> DEFINE f == <<g, current, seq[g] + 1>>
  <2>1. f \in Minted' /\ f[1] = g
    BY <1>7, MintsNew
  <2>2. Its(g, sessions[g].delta)'
    BY <1>7 DEF MintedLedger, Theirs, CloneResolve
  <2>3. /\ fib' = [fib EXCEPT ![p] = f] /\ ref' = [ref EXCEPT ![p] = sessions[g].delta]
        /\ op' = [op EXCEPT ![p] = "clone"] /\ on' = [on EXCEPT ![p] = g] /\ sessions' = sessions
    BY <1>7 DEF CloneResolve, Begins
  <2> HIDE DEF f
  <2> QED
    BY <2>1, <2>2, <2>3
<1>8. ASSUME NEW p \in Procs, CloneBirth(p) PROVE MintedHands'
    BY <1>8 DEF CloneBirth, Works, Fails, Goes, Returns
<1>9. ASSUME NEW p \in Procs, CloneCommit(p) PROVE MintedHands'
    BY <1>9 DEF CloneCommit, Goes, Returns, Session
<1>10. ASSUME NEW p \in Procs, NEW g \in Grants, BeginPark(p, g) PROVE MintedHands'
    BY <1>10 DEF BeginPark, Begins, Hold, MintedLedger, LedgerType, Theirs
<1>11. ASSUME NEW p \in Procs, RuntimePark(p) PROVE MintedHands'
    BY <1>11 DEF RuntimePark, OkIf, Works, Fails, Goes, Returns
<1>12. ASSUME NEW p \in Procs, OnPark(p) PROVE MintedHands'
    BY <1>12 DEF OnPark, Goes, Parked, Session, MintedLedger, LedgerType, Theirs
<1>13. ASSUME NEW p \in Procs, NEW g \in Grants, NEW drop \in BOOLEAN, End(p, g, drop) PROVE MintedHands'
  <2>1. CASE drop /\ sessions[g].delta # NoFence
    BY <1>13, <2>1 DEF End, Begins, MintedLedger, Theirs
  <2>2. CASE ~(drop /\ sessions[g].delta # NoFence)
    BY <1>13, <2>2 DEF End
  <2> QED
    BY <2>1, <2>2
<1>14. ASSUME NEW p \in Procs, NEW g \in Grants, Discard(p, g) PROVE MintedHands'
    BY <1>14 DEF Discard, Begins, Hold, MintedLedger, LedgerType, Theirs
<1>15. ASSUME NEW p \in Procs, ForgetSession(p) PROVE MintedHands'
    BY <1>15 DEF ForgetSession, Goes, NoSession, Session
<1>16. ASSUME NEW p \in Procs, NEW g \in Grants, Yield(p, g) PROVE MintedHands'
    BY <1>16 DEF Yield, Begins
<1>17. ASSUME NEW p \in Procs, NEW g \in Grants, Admit(p, g) PROVE MintedHands'
    BY <1>17 DEF Admit, Begins
<1>18. ASSUME NEW p \in Procs, TakeHeld(p) PROVE MintedHands'
    BY <1>18 DEF TakeHeld, Goes, NoSession, Session, MintedLedger, LedgerType, Theirs
<1>19. ASSUME NEW p \in Procs, RestoreParked(p) PROVE MintedHands'
    BY <1>19 DEF RestoreParked, Goes, Parked, NoSession, Session
<1>20. ASSUME NEW p \in Procs, Ask(p) PROVE MintedHands'
    BY <1>20 DEF Ask, Goes
<1>21. ASSUME NEW p \in Procs, Share(p) PROVE MintedHands'
    BY <1>21 DEF Share, Answers, Returns
<1>22. ASSUME NEW p \in Procs, TakeTurn(p) PROVE MintedHands'
    BY <1>22 DEF TakeTurn, Goes, LedgerSnapshot
<1>23. ASSUME NEW p \in Procs, MergeHeld(p) PROVE MintedHands'
    BY <1>23 DEF MergeHeld, Goes, WithHeld
<1>24. ASSUME NEW p \in Procs, Write(p) PROVE MintedHands'
    BY <1>24, WroteIs DEF Write, Answers, Returns, OkIf, Works, Fails
<1>25. CASE UNCHANGED <<pc, op, on, fib, ref, ticket, stale>>
    BY <1>25
<1> HIDE DEF Typed, TypeOK, ProcType, Verbs, MintedHands, Its, diskVars, ledgerVars, heldVars,
    storeVars, procVars, bootVars, history
<1> QED
    BY <1>1, <1>2, <1>3, <1>4, <1>5, <1>6, <1>7, <1>8, <1>9, <1>10, <1>11, <1>12, <1>13, <1>14,
        <1>15, <1>16, <1>17, <1>18, <1>19, <1>20, <1>21, <1>22, <1>23, <1>24, <1>25 DEF Next, vars,
        OpenEpochStore, Load, ReconcileGrant, AdmitPersist, ReconcileSessions, KillOrphans,
        SweepDeltas, LastPersist, GoBad, diskVars, ledgerVars, heldVars, storeVars, procVars,
        bootVars, history, Begins, Goes, BootPersist

\* A Clone, a Park and a Discard keep their session's gate until they return.
LEMMA GatesStep == Typed /\ Gates /\ [Next]_vars => Gates'
<1> SUFFICES ASSUME Typed, Gates, [Next]_vars PROVE Gates'
    OBVIOUS
<1> USE ConstAssumption, NotFence DEF Typed, TypeOK, ProcType, Verbs, Gates, diskVars, ledgerVars,
        heldVars, storeVars, procVars, bootVars, history
<1>1. CASE Stop
    BY <1>1 DEF Stop, Empty
<1>2. ASSUME NEW p \in Procs, BeginBump(p) PROVE Gates'
    BY <1>2 DEF BeginBump, Begins
<1>3. ASSUME NEW p \in Procs, Bump(p) PROVE Gates'
    BY <1>3, WroteIs DEF Bump, OkIf, Works, Fails, Goes, Returns
<1>4. ASSUME NEW p \in Procs, MoveEpoch(p) PROVE Gates'
    BY <1>4 DEF MoveEpoch, Goes
<1>5. ASSUME NEW p \in Procs, Sweep(p) PROVE Gates'
    BY <1>5 DEF Sweep, Sweepable, Swept, Goes, NoSession, Session
<1>6. ASSUME NEW p \in Procs, DiscardDelta(p) PROVE Gates'
    BY <1>6 DEF DiscardDelta, Works, Fails, Goes, Returns
<1>7. ASSUME NEW p \in Procs, NEW g \in Grants, CloneResolve(p, g) PROVE Gates'
    BY <1>7 DEF CloneResolve, Begins, Hold
<1>8. ASSUME NEW p \in Procs, CloneBirth(p) PROVE Gates'
    BY <1>8 DEF CloneBirth, Works, Fails, Goes, Returns
<1>9. ASSUME NEW p \in Procs, CloneCommit(p) PROVE Gates'
    BY <1>9 DEF CloneCommit, Goes, Returns, Session
<1>10. ASSUME NEW p \in Procs, NEW g \in Grants, BeginPark(p, g) PROVE Gates'
    BY <1>10 DEF BeginPark, Begins, Hold
<1>11. ASSUME NEW p \in Procs, RuntimePark(p) PROVE Gates'
    BY <1>11 DEF RuntimePark, OkIf, Works, Fails, Goes, Returns
<1>12. ASSUME NEW p \in Procs, OnPark(p) PROVE Gates'
    BY <1>12 DEF OnPark, Goes, Parked, Session
<1>13. ASSUME NEW p \in Procs, NEW g \in Grants, NEW drop \in BOOLEAN, End(p, g, drop) PROVE Gates'
  <2>1. CASE drop /\ sessions[g].delta # NoFence
    BY <1>13, <2>1 DEF End, Begins
  <2>2. CASE ~(drop /\ sessions[g].delta # NoFence)
    BY <1>13, <2>2 DEF End
  <2> QED
    BY <2>1, <2>2
<1>14. ASSUME NEW p \in Procs, NEW g \in Grants, Discard(p, g) PROVE Gates'
    BY <1>14 DEF Discard, Begins, Hold
<1>15. ASSUME NEW p \in Procs, ForgetSession(p) PROVE Gates'
    BY <1>15 DEF ForgetSession, Goes, NoSession, Session
<1>16. ASSUME NEW p \in Procs, NEW g \in Grants, Yield(p, g) PROVE Gates'
    BY <1>16 DEF Yield, Begins
<1>17. ASSUME NEW p \in Procs, NEW g \in Grants, Admit(p, g) PROVE Gates'
    BY <1>17 DEF Admit, Begins
<1>18. ASSUME NEW p \in Procs, TakeHeld(p) PROVE Gates'
    BY <1>18 DEF TakeHeld, Goes, NoSession, Session
<1>19. ASSUME NEW p \in Procs, RestoreParked(p) PROVE Gates'
    BY <1>19 DEF RestoreParked, Goes, Parked, NoSession, Session
<1>20. ASSUME NEW p \in Procs, Ask(p) PROVE Gates'
    BY <1>20 DEF Ask, Goes
<1>21. ASSUME NEW p \in Procs, Share(p) PROVE Gates'
    BY <1>21 DEF Share, Answers, Returns
<1>22. ASSUME NEW p \in Procs, TakeTurn(p) PROVE Gates'
    BY <1>22 DEF TakeTurn, Goes, LedgerSnapshot
<1>23. ASSUME NEW p \in Procs, MergeHeld(p) PROVE Gates'
    BY <1>23 DEF MergeHeld, Goes, WithHeld
<1>24. ASSUME NEW p \in Procs, Write(p) PROVE Gates'
    BY <1>24, WroteIs DEF Write, Answers, Returns, OkIf, Works, Fails
<1>25. CASE UNCHANGED <<gate, op, on>>
    BY <1>25
<1> HIDE DEF Typed, TypeOK, ProcType, Verbs, Gates, diskVars, ledgerVars, heldVars, storeVars,
    procVars, bootVars, history
<1> QED
    BY <1>1, <1>2, <1>3, <1>4, <1>5, <1>6, <1>7, <1>8, <1>9, <1>10, <1>11, <1>12, <1>13, <1>14,
        <1>15, <1>16, <1>17, <1>18, <1>19, <1>20, <1>21, <1>22, <1>23, <1>24, <1>25 DEF Next, vars,
        OpenEpochStore, Load, ReconcileGrant, AdmitPersist, ReconcileSessions, KillOrphans,
        SweepDeltas, LastPersist, GoBad, diskVars, ledgerVars, heldVars, storeVars, procVars,
        bootVars, history, Begins, Goes, BootPersist

\* Only parked sessions are kept, and only for held grants.
LEMMA KeepsStep == Typed /\ Keeps /\ [Next]_vars => Keeps'
<1> SUFFICES ASSUME Typed, Keeps, [Next]_vars PROVE Keeps'
    OBVIOUS
<1> USE ConstAssumption, NotFence DEF Typed, TypeOK, LedgerType, Keeps, diskVars, ledgerVars,
        heldVars, storeVars, procVars, bootVars, history
<1>1. ASSUME NEW g \in Grants, ReconcileGrant(g) PROVE Keeps'
    BY <1>1 DEF ReconcileGrant
<1>2. CASE ReconcileSessions
    BY <1>2 DEF ReconcileSessions, Usable, SnapSession, Parked, Session, NoSession
<1>3. CASE Stop
    BY <1>3 DEF Stop, Empty
<1>4. ASSUME NEW p \in Procs, TakeHeld(p) PROVE Keeps'
    BY <1>4 DEF TakeHeld, Goes, NoSession, Session
<1>5. CASE UNCHANGED <<held, kept>>
    BY <1>5
<1> HIDE DEF Typed, TypeOK, LedgerType, Keeps, diskVars, ledgerVars, heldVars, storeVars, procVars,
    bootVars, history
<1> QED
    BY <1>1, <1>2, <1>3, <1>4, <1>5 DEF Next, vars, OpenEpochStore, Load, AdmitPersist, KillOrphans,
        SweepDeltas, LastPersist, GoBad, BeginBump, Bump, MoveEpoch, Sweep, DiscardDelta,
        CloneResolve, CloneBirth, CloneCommit, BeginPark, RuntimePark, OnPark, End, Discard,
        ForgetSession, Yield, Admit, RestoreParked, Ask, Share, TakeTurn, MergeHeld, Write,
        diskVars, ledgerVars, heldVars, storeVars, procVars, bootVars, history, Begins, Goes,
        BootPersist

\* A session that does not run and has a delta is parked in it.
LEMMA CloneFinds ==
    ASSUME Typed PROVE \A g \in Grants : sessions[g].st # "running" /\ sessions[g].delta # NoFence
                           => sessions[g] = Parked(sessions[g].delta)
    BY ParkedIs DEF Typed, TypeOK, LedgerType, Sess, Formed, NoSession, Session, SessionType

\* Under the gate the session stays what Clone and Discard found.
LEMMA SteadyStep == Typed /\ Booting /\ Gates /\ Steady /\ [Next]_vars => Steady'
<1> SUFFICES ASSUME Typed, Booting, Gates, Steady, [Next]_vars PROVE Steady'
    OBVIOUS
<1> USE ConstAssumption, NotFence DEF Typed, TypeOK, LedgerType, ProcType, Verbs, Gates, Steady,
        diskVars, ledgerVars, heldVars, storeVars, procVars, bootVars, history
<1>1. CASE ReconcileSessions
    BY <1>1 DEF ReconcileSessions, Usable, SnapSession, Parked, Session, NoSession, Booting
<1>2. CASE Stop
    BY <1>2 DEF Stop, Empty
<1>3. ASSUME NEW p \in Procs, BeginBump(p) PROVE Steady'
    BY <1>3 DEF BeginBump, Begins
<1>4. ASSUME NEW p \in Procs, Bump(p) PROVE Steady'
    BY <1>4, WroteIs DEF Bump, OkIf, Works, Fails, Goes, Returns
<1>5. ASSUME NEW p \in Procs, MoveEpoch(p) PROVE Steady'
    BY <1>5 DEF MoveEpoch, Goes
<1>6. ASSUME NEW p \in Procs, Sweep(p) PROVE Steady'
    BY <1>6 DEF Sweep, Sweepable, Swept, Goes, NoSession, Session, Parked
<1>7. ASSUME NEW p \in Procs, DiscardDelta(p) PROVE Steady'
    BY <1>7 DEF DiscardDelta, Works, Fails, Goes, Returns
<1>8. ASSUME NEW p \in Procs, NEW g \in Grants, CloneResolve(p, g) PROVE Steady'
    BY <1>8, ParkedIs, CloneFinds DEF CloneResolve, Begins, Hold, Sess
<1>9. ASSUME NEW p \in Procs, CloneBirth(p) PROVE Steady'
    BY <1>9 DEF CloneBirth, Works, Fails, Goes, Returns
<1>10. ASSUME NEW p \in Procs, CloneCommit(p) PROVE Steady'
    BY <1>10 DEF CloneCommit, Goes, Returns, Session
<1>11. ASSUME NEW p \in Procs, NEW g \in Grants, BeginPark(p, g) PROVE Steady'
    BY <1>11 DEF BeginPark, Begins, Hold
<1>12. ASSUME NEW p \in Procs, RuntimePark(p) PROVE Steady'
    BY <1>12 DEF RuntimePark, OkIf, Works, Fails, Goes, Returns
<1>13. ASSUME NEW p \in Procs, OnPark(p) PROVE Steady'
    BY <1>13 DEF OnPark, Goes, Parked, Session
<1>14. ASSUME NEW p \in Procs, NEW g \in Grants, NEW drop \in BOOLEAN, End(p, g, drop) PROVE Steady'
  <2>1. CASE drop /\ sessions[g].delta # NoFence
    BY <1>14, <2>1 DEF End, Begins, Session, NoSession, Parked
  <2>2. CASE ~(drop /\ sessions[g].delta # NoFence)
    BY <1>14, <2>2 DEF End, Session, NoSession, Parked
  <2> QED
    BY <2>1, <2>2
<1>15. ASSUME NEW p \in Procs, NEW g \in Grants, Discard(p, g) PROVE Steady'
    BY <1>15, ParkedIs DEF Discard, Begins, Hold, Sess
<1>16. ASSUME NEW p \in Procs, ForgetSession(p) PROVE Steady'
    BY <1>16 DEF ForgetSession, Goes, NoSession, Session
<1>17. ASSUME NEW p \in Procs, NEW g \in Grants, Yield(p, g) PROVE Steady'
    BY <1>17 DEF Yield, Begins
<1>18. ASSUME NEW p \in Procs, NEW g \in Grants, Admit(p, g) PROVE Steady'
    BY <1>18 DEF Admit, Begins
<1>19. ASSUME NEW p \in Procs, TakeHeld(p) PROVE Steady'
    BY <1>19 DEF TakeHeld, Goes, NoSession, Session
<1>20. ASSUME NEW p \in Procs, RestoreParked(p) PROVE Steady'
    BY <1>20 DEF RestoreParked, Goes, Parked, NoSession, Session
<1>21. ASSUME NEW p \in Procs, Ask(p) PROVE Steady'
    BY <1>21 DEF Ask, Goes
<1>22. ASSUME NEW p \in Procs, Share(p) PROVE Steady'
    BY <1>22 DEF Share, Answers, Returns
<1>23. ASSUME NEW p \in Procs, TakeTurn(p) PROVE Steady'
    BY <1>23 DEF TakeTurn, Goes, LedgerSnapshot
<1>24. ASSUME NEW p \in Procs, MergeHeld(p) PROVE Steady'
    BY <1>24 DEF MergeHeld, Goes, WithHeld
<1>25. ASSUME NEW p \in Procs, Write(p) PROVE Steady'
    BY <1>25, WroteIs DEF Write, Answers, Returns, OkIf, Works, Fails
<1>26. CASE UNCHANGED <<sessions, op, on, pc, ref>>
    BY <1>26
<1> HIDE DEF Typed, TypeOK, LedgerType, ProcType, Verbs, Gates, Steady, diskVars, ledgerVars,
    heldVars, storeVars, procVars, bootVars, history
<1> QED
    BY <1>1, <1>2, <1>3, <1>4, <1>5, <1>6, <1>7, <1>8, <1>9, <1>10, <1>11, <1>12, <1>13, <1>14,
        <1>15, <1>16, <1>17, <1>18, <1>19, <1>20, <1>21, <1>22, <1>23, <1>24, <1>25, <1>26 DEF Next,
        vars, OpenEpochStore, Load, ReconcileGrant, AdmitPersist, KillOrphans, SweepDeltas,
        LastPersist, GoBad, diskVars, ledgerVars, heldVars, storeVars, procVars, bootVars, history,
        Begins, Goes, BootPersist

(***************************************************************************)
(* Processes.                                                              *)
(***************************************************************************)

\* Until the boot has listed them the processes are of earlier epochs; after
\* that a process is a session's, one that a Clone has still to commit, or
\* one boot could not kill.
Processes ==
    /\ status \in {"load", "admit", "admit-persist", "list"} => \A f \in running : f[2] < current
    /\ status \in {"sweep", "persist"} => running \subseteq stray
    /\ status = "serving" =>
          \A f \in running : \/ f \in stray
                             \/ \E g \in Grants : sessions[g].fence = f
                             \/ \E p \in Procs : pc[p] = "commit" /\ fib[p] = f
    /\ \A p \in Procs : pc[p] = "parked" => fib[p] \notin running

\* Every process is accounted for: by the boot, by a session or by a Clone that
\* has still to commit it.
LEMMA ProcessesStep ==
    Typed /\ Booting /\ Epochs /\ MintedPast /\ MintedHands /\ Gates /\ Steady /\ Processes
       /\ [Next]_vars => Processes'
<1> SUFFICES ASSUME Typed, Booting, Epochs, MintedPast, MintedHands, Gates, Steady, Processes,
                    [Next]_vars
             PROVE  Processes'
    OBVIOUS
<1> USE ConstAssumption, NotFence DEF Typed, TypeOK, DiskType, LedgerType, ProcType, Verbs,
        Processes, diskVars, ledgerVars, heldVars, storeVars, procVars, bootVars, history
<1>1. CASE OpenEpochStore
    BY <1>1, WroteIs DEF OpenEpochStore, NextEpoch, OkIf, Works, Fails, MintedPast, Minted, Fences,
        Epochs, HistoryType, Booting
<1>2. CASE Load
    BY <1>2 DEF Load, Booting
<1>3. ASSUME NEW g \in Grants, ReconcileGrant(g) PROVE Processes'
    BY <1>3 DEF ReconcileGrant
<1>4. CASE AdmitPersist
    BY <1>4, WroteIs DEF AdmitPersist, BootPersist, OkIf, Works, Fails
<1>5. CASE ReconcileSessions
    BY <1>5 DEF ReconcileSessions, Usable, SnapSession, Parked, Session, NoSession, Booting
<1>6. CASE KillOrphans
    BY <1>6 DEF KillOrphans, Orphans, Spent, SnapSession, OkIf, Works, Fails
<1>7. CASE SweepDeltas
    BY <1>7 DEF SweepDeltas, OkIf, Works, Fails
<1>8. CASE LastPersist
    BY <1>8, WroteIs DEF LastPersist, BootPersist, OkIf, Works, Fails
<1>9. CASE Stop
    BY <1>9 DEF Stop, Empty
<1>10. ASSUME NEW p \in Procs, BeginBump(p) PROVE Processes'
    BY <1>10 DEF BeginBump, Begins
<1>11. ASSUME NEW p \in Procs, Bump(p) PROVE Processes'
    BY <1>11, WroteIs DEF Bump, OkIf, Works, Fails, Goes, Returns
<1>12. ASSUME NEW p \in Procs, MoveEpoch(p) PROVE Processes'
    BY <1>12 DEF MoveEpoch, Goes, Booting
<1>13. ASSUME NEW p \in Procs, Sweep(p) PROVE Processes'
    BY <1>13 DEF Sweep, Sweepable, Swept, Goes, NoSession, Session
<1>14. ASSUME NEW p \in Procs, DiscardDelta(p) PROVE Processes'
    BY <1>14 DEF DiscardDelta, Works, Fails, Goes, Returns
<1>15. ASSUME NEW p \in Procs, NEW g \in Grants, CloneResolve(p, g) PROVE Processes'
    BY <1>15 DEF CloneResolve, Begins, Hold
<1>16. ASSUME NEW p \in Procs, CloneBirth(p) PROVE Processes'
  <2>1. status = "serving" /\ pc[p] = "birth"
    BY <1>16 DEF CloneBirth, Booting
  <2>2. \A q \in Procs : pc[q] = "parked" => fib[q] # fib[p]
    BY <1>16, <2>1 DEF Gates, MintedHands, Its
  <2>3. CASE pc' = [pc EXCEPT ![p] = "commit"] /\ running' = running \cup {fib[p]} /\ fib' = fib
    BY <1>16, <2>1, <2>2, <2>3 DEF CloneBirth
  <2>4. CASE Returns(p) /\ running' = running
    BY <1>16, <2>1, <2>4 DEF CloneBirth, Returns
  <2> QED
    BY <1>16, <2>3, <2>4 DEF CloneBirth, Goes
<1>17. ASSUME NEW p \in Procs, CloneCommit(p) PROVE Processes'
  <2> DEFINE g == on[p]
  <2>1. status = "serving" /\ pc[p] = "commit" /\ g \in Grants
    BY <1>17 DEF CloneCommit, Booting
  <2>2. sessions[g].fence = NoFence
    BY <2>1 DEF Steady, Sess, Formed, NoSession, Session, SessionType
  <2>3. CASE running' = running \ {fib[p]} /\ Returns(p) /\ sessions' = sessions
    BY <1>17, <2>1, <2>3 DEF CloneCommit, Returns
  <2>4. ASSUME NEW d, sessions' = [sessions EXCEPT ![g] = Session("running", fib[p], d)],
               running' = running, \A q \in Procs : q # p => pc'[q] = pc[q] /\ fib'[q] = fib[q],
               pc'[p] # "parked"
        PROVE  Processes'
    BY <1>17, <2>1, <2>2, <2>4 DEF CloneCommit, Session
  <2> QED
    BY <1>17, <2>1, <2>3, <2>4 DEF CloneCommit, Goes, Returns
<1>18. ASSUME NEW p \in Procs, NEW g \in Grants, BeginPark(p, g) PROVE Processes'
    BY <1>18 DEF BeginPark, Begins, Hold
<1>19. ASSUME NEW p \in Procs, RuntimePark(p) PROVE Processes'
    BY <1>19 DEF RuntimePark, OkIf, Works, Fails, Goes, Returns
<1>20. ASSUME NEW p \in Procs, OnPark(p) PROVE Processes'
    BY <1>20 DEF OnPark, Goes, Parked, Session
<1>21. ASSUME NEW p \in Procs, NEW g \in Grants, NEW drop \in BOOLEAN, End(p, g, drop) PROVE Processes'
  <2>1. CASE drop /\ sessions[g].delta # NoFence
    BY <1>21, <2>1 DEF End, Begins, Session, NoSession
  <2>2. CASE ~(drop /\ sessions[g].delta # NoFence)
    BY <1>21, <2>2 DEF End, Session, NoSession
  <2> QED
    BY <2>1, <2>2
<1>22. ASSUME NEW p \in Procs, NEW g \in Grants, Discard(p, g) PROVE Processes'
    BY <1>22 DEF Discard, Begins, Hold
<1>23. ASSUME NEW p \in Procs, ForgetSession(p) PROVE Processes'
    BY <1>23 DEF ForgetSession, Goes, NoSession, Session, Sess, Formed
<1>24. ASSUME NEW p \in Procs, NEW g \in Grants, Yield(p, g) PROVE Processes'
    BY <1>24 DEF Yield, Begins
<1>25. ASSUME NEW p \in Procs, NEW g \in Grants, Admit(p, g) PROVE Processes'
    BY <1>25 DEF Admit, Begins
<1>26. ASSUME NEW p \in Procs, TakeHeld(p) PROVE Processes'
    BY <1>26 DEF TakeHeld, Goes, NoSession, Session
<1>27. ASSUME NEW p \in Procs, RestoreParked(p) PROVE Processes'
    BY <1>27 DEF RestoreParked, Goes, Parked, NoSession, Session
<1>28. ASSUME NEW p \in Procs, Ask(p) PROVE Processes'
    BY <1>28 DEF Ask, Goes
<1>29. ASSUME NEW p \in Procs, Share(p) PROVE Processes'
    BY <1>29 DEF Share, Answers, Returns
<1>30. ASSUME NEW p \in Procs, TakeTurn(p) PROVE Processes'
    BY <1>30 DEF TakeTurn, Goes, LedgerSnapshot
<1>31. ASSUME NEW p \in Procs, MergeHeld(p) PROVE Processes'
    BY <1>31 DEF MergeHeld, Goes, WithHeld
<1>32. ASSUME NEW p \in Procs, Write(p) PROVE Processes'
    BY <1>32, WroteIs DEF Write, Answers, Returns, OkIf, Works, Fails
<1>33. CASE UNCHANGED <<status, current, running, stray, sessions, pc, fib>>
    BY <1>33
<1> HIDE DEF Typed, TypeOK, DiskType, LedgerType, ProcType, Verbs, Processes, diskVars, ledgerVars,
    heldVars, storeVars, procVars, bootVars, history
<1> QED
    BY <1>1, <1>2, <1>3, <1>4, <1>5, <1>6, <1>7, <1>8, <1>9, <1>10, <1>11, <1>12, <1>13, <1>14,
        <1>15, <1>16, <1>17, <1>18, <1>19, <1>20, <1>21, <1>22, <1>23, <1>24, <1>25, <1>26, <1>27,
        <1>28, <1>29, <1>30, <1>31, <1>32, <1>33 DEF Next, vars, GoBad, diskVars, ledgerVars,
        heldVars, storeVars, procVars, bootVars, history, Begins, Goes

(***************************************************************************)
(* Deltas.                                                                 *)
(***************************************************************************)

\* A fence of a fiber that may still be parked.
InUse(f) ==
    \/ \E g \in Grants : sessions[g].fence = f
    \/ \E p \in Procs : pc[p] \in {"birth", "commit", "park", "parked"} /\ fib[p] = f

\* The delta p is about to drop, though nobody asked to discard it.
Drops(p) == pc[p] = "drop" /\ op[p] # "discard"

\* A delta that has a name is not the fence of a fiber that may be parked.
Unparked ==
    /\ \A g \in Grants : /\ sessions[g].delta # NoFence => ~InUse(sessions[g].delta)
                         /\ kept[g].delta # NoFence => ~InUse(kept[g].delta)
    /\ \A q \in Procs : (Drops(q) \/ pc[q] = "restore") /\ ref[q] # NoFence => ~InUse(ref[q])

\* No delta has two names.
Apart ==
    /\ \A g \in Grants : sessions[g].delta # NoFence => kept[g].delta # sessions[g].delta
    /\ \A g \in Grants, q \in Procs : (Drops(q) \/ pc[q] = "restore") /\ ref[q] # NoFence =>
          ref[q] # sessions[g].delta /\ ref[q] # kept[g].delta
    /\ \A p, q \in Procs : pc[p] = "restore" /\ ref[p] # NoFence /\ p # q /\ (pc[q] = "restore" \/ Drops(q)) =>
          ref[p] # ref[q]

\* Sessions of two grants are in different deltas.
LEMMA ByGrant ==
    ASSUME Typed, MintedLedger, NEW g \in Grants, NEW h \in Grants, g # h, sessions[g].delta # NoFence
    PROVE  sessions[g].delta # sessions[h].delta /\ sessions[g].delta # kept[h].delta
    BY NotFence DEF MintedLedger, Theirs, Its

\* A session that goes and leaves its delta to be dropped leaves it without
\* another name.
LEMMA DropsApart ==
    ASSUME Typed, MintedLedger, Apart, NEW p \in Procs, NEW g \in Grants,
           pc' = [pc EXCEPT ![p] = "drop"], ref' = [ref EXCEPT ![p] = sessions[g].delta],
           \A q \in Procs : q # p => op'[q] = op[q],
           kept' = kept, sessions' = [sessions EXCEPT ![g] = NoSession]
    PROVE  Apart'
<1> USE DEF Typed, TypeOK, LedgerType, ProcType, Apart, Drops
<1>1. sessions'[g].delta = NoFence /\ \A h \in Grants : h # g => sessions'[h] = sessions[h]
    BY DEF NoSession, Session
<1>2. \A q \in Procs : q # p => /\ (Drops(q) \/ pc[q] = "restore")' <=> (Drops(q) \/ pc[q] = "restore")
                                /\ pc'[q] = pc[q] /\ ref'[q] = ref[q]
    OBVIOUS
<1>3. \A h \in Grants : sessions[g].delta # NoFence =>
          sessions[g].delta # sessions'[h].delta /\ sessions[g].delta # kept'[h].delta
    BY <1>1, ByGrant
<1>4. \A q \in Procs, h \in Grants : (Drops(q) \/ pc[q] = "restore")' /\ ref'[q] # NoFence =>
          ref'[q] # sessions'[h].delta /\ ref'[q] # kept'[h].delta
    BY <1>1, <1>2, <1>3
<1>5. \A h \in Grants : sessions'[h].delta # NoFence => kept'[h].delta # sessions'[h].delta
    BY <1>1
<1>6. \A r, q \in Procs : /\ pc'[r] = "restore" /\ ref'[r] # NoFence /\ r # q
                          /\ (pc'[q] = "restore" \/ Drops(q)')
                          => ref'[r] # ref'[q]
    BY <1>2
<1> QED
    BY <1>4, <1>5, <1>6

\* No delta gets a second name.
LEMMA ApartStep ==
    Typed /\ Booting /\ MintedLedger /\ MintedHands /\ Steady /\ Unparked /\ Apart
       /\ [Next]_vars => Apart'
<1> SUFFICES ASSUME Typed, Booting, MintedLedger, MintedHands, Steady, Unparked, Apart, [Next]_vars
             PROVE  Apart'
    OBVIOUS
<1> USE ConstAssumption, NotFence DEF Typed, TypeOK, LedgerType, ProcType, Verbs, Apart, Drops,
        diskVars, ledgerVars, heldVars, storeVars, procVars, bootVars, history
<1>1. CASE ReconcileSessions
    BY <1>1 DEF ReconcileSessions, Usable, SnapSession, Parked, Session, NoSession, Booting
<1>2. CASE Stop
    BY <1>2 DEF Stop, Empty, NoSession, Session
<1>3. ASSUME NEW p \in Procs, BeginBump(p) PROVE Apart'
    BY <1>3 DEF BeginBump, Begins
<1>4. ASSUME NEW p \in Procs, Bump(p) PROVE Apart'
    BY <1>4, WroteIs DEF Bump, OkIf, Works, Fails, Goes, Returns
<1>5. ASSUME NEW p \in Procs, MoveEpoch(p) PROVE Apart'
    BY <1>5 DEF MoveEpoch, Goes
<1>6. ASSUME NEW p \in Procs, Sweep(p) PROVE Apart'
  <2>1. ASSUME NEW g \in Grants, Swept(p, g) PROVE Apart'
    BY <1>6, <2>1, DropsApart DEF Sweep, Swept
  <2>2. CASE Sweepable(p) = {} /\ Goes(p, "sweep", "ask") /\ UNCHANGED <<running, sessions, ref>>
    BY <1>6, <2>2 DEF Sweep, Goes
  <2> QED
    BY <1>6, <2>1, <2>2 DEF Sweep, Sweepable
<1>7. ASSUME NEW p \in Procs, DiscardDelta(p) PROVE Apart'
    BY <1>7 DEF DiscardDelta, Works, Fails, Goes, Returns
<1>8. ASSUME NEW p \in Procs, NEW g \in Grants, CloneResolve(p, g) PROVE Apart'
    BY <1>8 DEF CloneResolve, Begins, Hold
<1>9. ASSUME NEW p \in Procs, CloneBirth(p) PROVE Apart'
    BY <1>9 DEF CloneBirth, Works, Fails, Goes, Returns
<1>10. ASSUME NEW p \in Procs, CloneCommit(p) PROVE Apart'
  <2>1. on[p] \in Grants /\ pc[p] = "commit"
    BY <1>10 DEF CloneCommit
  <2>2. kept' = kept /\ \A h \in Grants : sessions'[h].delta \in {sessions[h].delta, NoFence}
    <3>1. CASE sessions' = sessions
      BY <1>10, <3>1 DEF CloneCommit
    <3>2. CASE ref[p] # NoFence /\ sessions' = [sessions EXCEPT ![on[p]] = Session("running", fib[p], ref[p])]
      <4>1. ref[p] # NoFence
        BY <3>2
      <4>2. sessions[on[p]] = Parked(ref[p])
        BY <2>1, <4>1 DEF Steady
      <4>3. sessions[on[p]].delta = ref[p]
        BY <4>2 DEF Parked, Session
      <4> QED
        BY <1>10, <2>1, <3>2, <4>3 DEF CloneCommit, Session
    <3>3. CASE sessions' = [sessions EXCEPT ![on[p]] = Session("running", fib[p], NoFence)]
      BY <1>10, <2>1, <3>3 DEF CloneCommit, Session
    <3> QED
      BY <1>10, <3>1, <3>2, <3>3 DEF CloneCommit
  <2>3. \A q \in Procs : (Drops(q)' \/ pc'[q] = "restore") =>
            ref'[q] = ref[q] /\ pc'[q] = pc[q] /\ op'[q] = op[q]
    BY <1>10, <2>1 DEF CloneCommit, Goes, Returns
  <2> QED
    BY <2>2, <2>3
<1>11. ASSUME NEW p \in Procs, NEW g \in Grants, BeginPark(p, g) PROVE Apart'
    BY <1>11 DEF BeginPark, Begins, Hold
<1>12. ASSUME NEW p \in Procs, RuntimePark(p) PROVE Apart'
    BY <1>12 DEF RuntimePark, OkIf, Works, Fails, Goes, Returns
<1>13. ASSUME NEW p \in Procs, OnPark(p) PROVE Apart'
  <2> DEFINE g == on[p] s == sessions[g] f == fib[p]
  <2>1. g \in Grants /\ op[p] = "park" /\ pc[p] = "parked" /\ f \in Fences /\ f[1] = g
    BY <1>13 DEF OnPark, MintedHands, Its
  <2>2. CASE s.st = "running" /\ s.fence = f
    <3>1. /\ kept' = kept /\ op' = op /\ ref' = [ref EXCEPT ![p] = s.delta]
          /\ sessions' = [sessions EXCEPT ![g] = Parked(f)]
          /\ pc' = [pc EXCEPT ![p] = IF s.delta # NoFence THEN "drop" ELSE "ask"]
      BY <1>13, <2>2 DEF OnPark, Goes
    <3>2. InUse(f)
      BY <2>1 DEF InUse
    <3>3. \A h \in Grants : f # sessions[h].delta /\ f # kept[h].delta
      BY <2>1, <3>2 DEF Unparked
    <3>4. \A q \in Procs : (Drops(q) \/ pc[q] = "restore") => ref[q] # f
      BY <2>1, <3>2 DEF Unparked
    <3>5. sessions'[g].delta = f /\ \A h \in Grants : h # g => sessions'[h] = sessions[h]
      BY <2>1, <3>1 DEF Parked, Session
    <3>6. \A h \in Grants : s.delta # NoFence => s.delta # sessions'[h].delta /\ s.delta # kept'[h].delta
      BY <2>1, <3>1, <3>3, <3>5, ByGrant
    <3>7. \A q \in Procs : q # p => pc'[q] = pc[q] /\ ref'[q] = ref[q] /\ op'[q] = op[q]
      BY <3>1
    <3>8. \A q \in Procs, h \in Grants : (Drops(q)' \/ pc'[q] = "restore") /\ ref'[q] # NoFence =>
              ref'[q] # sessions'[h].delta /\ ref'[q] # kept'[h].delta
      <4> SUFFICES ASSUME NEW q \in Procs, NEW h \in Grants, Drops(q)' \/ pc'[q] = "restore", ref'[q] # NoFence
                   PROVE  ref'[q] # sessions'[h].delta /\ ref'[q] # kept'[h].delta
        OBVIOUS
      <4>1. CASE q = p
        BY <3>1, <3>6, <4>1
      <4>2. CASE q # p
        BY <3>1, <3>4, <3>5, <3>7, <4>2
      <4> QED
        BY <4>1, <4>2
    <3>9. \A h \in Grants : sessions'[h].delta # NoFence => kept'[h].delta # sessions'[h].delta
      BY <3>1, <3>3, <3>5
    <3>10. \A r, q \in Procs : /\ pc'[r] = "restore" /\ ref'[r] # NoFence /\ r # q
                               /\ (pc'[q] = "restore" \/ Drops(q)')
                               => ref'[r] # ref'[q]
      BY <2>1, <3>1, <3>7
    <3> QED
      BY <3>8, <3>9, <3>10
  <2>3. CASE ~(s.st = "running" /\ s.fence = f)
    BY <1>13, <2>3 DEF OnPark, Goes
  <2> QED
    BY <2>2, <2>3
<1>14. ASSUME NEW p \in Procs, NEW g \in Grants, NEW drop \in BOOLEAN, End(p, g, drop) PROVE Apart'
  <2>1. CASE drop /\ sessions[g].delta # NoFence
    BY <1>14, <2>1, DropsApart DEF End, Begins
  <2>2. CASE ~(drop /\ sessions[g].delta # NoFence)
    BY <1>14, <2>2 DEF End, Session, NoSession
  <2> QED
    BY <2>1, <2>2
<1>15. ASSUME NEW p \in Procs, NEW g \in Grants, Discard(p, g) PROVE Apart'
    BY <1>15 DEF Discard, Begins, Hold
<1>16. ASSUME NEW p \in Procs, ForgetSession(p) PROVE Apart'
    BY <1>16 DEF ForgetSession, Goes, NoSession, Session
<1>17. ASSUME NEW p \in Procs, NEW g \in Grants, Yield(p, g) PROVE Apart'
    BY <1>17 DEF Yield, Begins
<1>18. ASSUME NEW p \in Procs, NEW g \in Grants, Admit(p, g) PROVE Apart'
    BY <1>18 DEF Admit, Begins
<1>19. ASSUME NEW p \in Procs, TakeHeld(p) PROVE Apart'
    BY <1>19 DEF TakeHeld, Goes, NoSession, Session, MintedLedger, Theirs, Its
<1>20. ASSUME NEW p \in Procs, RestoreParked(p) PROVE Apart'
    BY <1>20 DEF RestoreParked, Goes, Parked, NoSession, Session, MintedLedger, MintedHands, Theirs,
        Its
<1>21. ASSUME NEW p \in Procs, Ask(p) PROVE Apart'
    BY <1>21 DEF Ask, Goes
<1>22. ASSUME NEW p \in Procs, Share(p) PROVE Apart'
    BY <1>22 DEF Share, Answers, Returns
<1>23. ASSUME NEW p \in Procs, TakeTurn(p) PROVE Apart'
    BY <1>23 DEF TakeTurn, Goes, LedgerSnapshot
<1>24. ASSUME NEW p \in Procs, MergeHeld(p) PROVE Apart'
    BY <1>24 DEF MergeHeld, Goes, WithHeld
<1>25. ASSUME NEW p \in Procs, Write(p) PROVE Apart'
    BY <1>25, WroteIs DEF Write, Answers, Returns, OkIf, Works, Fails
<1>26. CASE UNCHANGED <<sessions, kept, ref, pc, op>>
    BY <1>26
<1> HIDE DEF Typed, TypeOK, LedgerType, ProcType, Verbs, Apart, Drops, diskVars, ledgerVars,
    heldVars, storeVars, procVars, bootVars, history
<1> QED
    BY <1>1, <1>2, <1>3, <1>4, <1>5, <1>6, <1>7, <1>8, <1>9, <1>10, <1>11, <1>12, <1>13, <1>14,
        <1>15, <1>16, <1>17, <1>18, <1>19, <1>20, <1>21, <1>22, <1>23, <1>24, <1>25, <1>26 DEF Next,
        vars, OpenEpochStore, Load, ReconcileGrant, AdmitPersist, KillOrphans, SweepDeltas,
        LastPersist, GoBad, diskVars, ledgerVars, heldVars, storeVars, procVars, bootVars, history,
        Begins, Goes, BootPersist

\* A delta that has a name is not the fence of a fiber that may yet be parked.
LEMMA UnparkedStep ==
    Typed /\ Booting /\ Epochs /\ MintedLedger /\ MintedHands /\ Gates /\ Steady /\ Unparked
       /\ [Next]_vars => Unparked'
<1> SUFFICES ASSUME Typed, Booting, Epochs, MintedLedger, MintedHands, Gates, Steady, Unparked,
                    [Next]_vars
             PROVE  Unparked'
    OBVIOUS
<1> USE ConstAssumption, NotFence DEF Typed, TypeOK, LedgerType, ProcType, Verbs, Unparked, Drops,
        InUse, diskVars, ledgerVars, heldVars, storeVars, procVars, bootVars, history
<1>1. CASE ReconcileSessions
    BY <1>1 DEF ReconcileSessions, Usable, SnapSession, Parked, Session, NoSession, Booting,
        MintedLedger, Theirs, Its
<1>2. CASE Stop
    BY <1>2 DEF Stop, Empty, NoSession, Session
<1>3. ASSUME NEW p \in Procs, BeginBump(p) PROVE Unparked'
    BY <1>3 DEF BeginBump, Begins
<1>4. ASSUME NEW p \in Procs, Bump(p) PROVE Unparked'
    BY <1>4, WroteIs DEF Bump, OkIf, Works, Fails, Goes, Returns
<1>5. ASSUME NEW p \in Procs, MoveEpoch(p) PROVE Unparked'
    BY <1>5 DEF MoveEpoch, Goes
<1>6. ASSUME NEW p \in Procs, Sweep(p) PROVE Unparked'
  <2>1. ASSUME NEW g \in Grants, Swept(p, g) PROVE Unparked'
    BY <1>6, <2>1 DEF Sweep, Swept, NoSession, Session
  <2>2. CASE Sweepable(p) = {} /\ Goes(p, "sweep", "ask") /\ UNCHANGED <<running, sessions, ref>>
    BY <1>6, <2>2 DEF Sweep, Goes
  <2> QED
    BY <1>6, <2>1, <2>2 DEF Sweep, Sweepable
<1>7. ASSUME NEW p \in Procs, DiscardDelta(p) PROVE Unparked'
    BY <1>7 DEF DiscardDelta, Works, Fails, Goes, Returns
<1>8. ASSUME NEW p \in Procs, NEW g \in Grants, CloneResolve(p, g) PROVE Unparked'
  <2> DEFINE f == <<g, current, seq[g] + 1>>
  <2>1. f \notin Minted /\ f \in Fences
    BY <1>8, MintsNew DEF Fences
  <2>2. /\ fib' = [fib EXCEPT ![p] = f] /\ pc' = [pc EXCEPT ![p] = "birth"] /\ sessions' = sessions /\ kept' = kept
        /\ \A q \in Procs : q # p => ref'[q] = ref[q] /\ op'[q] = op[q]
    BY <1>8 DEF CloneResolve, Begins
  <2> HIDE DEF f
  <2>3. \A h \in Grants : sessions[h].delta # f /\ kept[h].delta # f
    BY <2>1 DEF MintedLedger, Theirs, Its
  <2>4. \A q \in Procs : ref[q] # NoFence => ref[q] # f
    BY <2>1 DEF MintedHands
  <2> QED
    BY <2>2, <2>3, <2>4
<1>9. ASSUME NEW p \in Procs, CloneBirth(p) PROVE Unparked'
    BY <1>9 DEF CloneBirth, Works, Fails, Goes, Returns
<1>10. ASSUME NEW p \in Procs, CloneCommit(p) PROVE Unparked'
  <2>1. on[p] \in Grants /\ pc[p] = "commit"
    BY <1>10 DEF CloneCommit
  <2>2. kept' = kept /\ \A h \in Grants : sessions'[h].delta \in {sessions[h].delta, NoFence}
    <3>1. CASE sessions' = sessions
      BY <1>10, <3>1 DEF CloneCommit
    <3>2. CASE ref[p] # NoFence /\ sessions' = [sessions EXCEPT ![on[p]] = Session("running", fib[p], ref[p])]
      <4>1. ref[p] # NoFence
        BY <3>2
      <4>2. sessions[on[p]] = Parked(ref[p])
        BY <2>1, <4>1 DEF Steady
      <4>3. sessions[on[p]].delta = ref[p]
        BY <4>2 DEF Parked, Session
      <4> QED
        BY <1>10, <2>1, <3>2, <4>3 DEF CloneCommit, Session
    <3>3. CASE sessions' = [sessions EXCEPT ![on[p]] = Session("running", fib[p], NoFence)]
      BY <1>10, <2>1, <3>3 DEF CloneCommit, Session
    <3> QED
      BY <1>10, <3>1, <3>2, <3>3 DEF CloneCommit
  <2>3. \A q \in Procs : (Drops(q)' \/ pc'[q] = "restore") =>
            ref'[q] = ref[q] /\ pc'[q] = pc[q] /\ op'[q] = op[q]
    BY <1>10, <2>1 DEF CloneCommit, Goes, Returns
  <2>4. \A h \in Grants : sessions'[h].fence \in {sessions[h].fence, fib[p]}
    BY <1>10, <2>1 DEF CloneCommit, Session
  <2>5. \A q \in Procs : pc'[q] \in {"birth", "commit", "park", "parked"} => pc'[q] = pc[q] /\ fib'[q] = fib[q]
    BY <1>10, <2>1 DEF CloneCommit, Goes, Returns
  <2> QED
    BY <2>1, <2>2, <2>3, <2>4, <2>5
<1>11. ASSUME NEW p \in Procs, NEW g \in Grants, BeginPark(p, g) PROVE Unparked'
    BY <1>11 DEF BeginPark, Begins, Hold
<1>12. ASSUME NEW p \in Procs, RuntimePark(p) PROVE Unparked'
    BY <1>12 DEF RuntimePark, OkIf, Works, Fails, Goes, Returns
<1>13. ASSUME NEW p \in Procs, OnPark(p) PROVE Unparked'
  <2> DEFINE g == on[p] s == sessions[g] f == fib[p]
  <2>1. g \in Grants /\ op[p] = "park" /\ pc[p] = "parked" /\ f \in Fences /\ f[1] = g
    BY <1>13 DEF OnPark, MintedHands, Its
  <2>2. CASE s.st = "running" /\ s.fence = f
    <3>1. /\ kept' = kept /\ op' = op /\ ref' = [ref EXCEPT ![p] = s.delta] /\ fib' = fib
          /\ sessions' = [sessions EXCEPT ![g] = Parked(f)]
          /\ pc' = [pc EXCEPT ![p] = IF s.delta # NoFence THEN "drop" ELSE "ask"]
      BY <1>13, <2>2 DEF OnPark, Goes
    <3>2. /\ sessions'[g].delta = f /\ sessions'[g].fence = NoFence
          /\ \A h \in Grants : h # g => sessions'[h] = sessions[h]
      BY <2>1, <3>1 DEF Parked, Session
    <3>3. \A h \in Grants : sessions'[h].fence # f
      BY <2>1, <3>2 DEF MintedLedger, Theirs, Its
    <3>4. \A q \in Procs : pc'[q] \in {"birth", "commit", "park", "parked"} => fib[q] # f
      BY <2>1, <3>1 DEF MintedHands, Its, Gates
    <3>5. ~InUse(f)'
      BY <3>1, <3>3, <3>4
    <3> QED
      BY <2>1, <2>2, <3>1, <3>2, <3>3, <3>4
  <2>3. CASE ~(s.st = "running" /\ s.fence = f)
    BY <1>13, <2>3 DEF OnPark, Goes
  <2> QED
    BY <2>2, <2>3
<1>14. ASSUME NEW p \in Procs, NEW g \in Grants, NEW drop \in BOOLEAN, End(p, g, drop) PROVE Unparked'
  <2>1. CASE drop /\ sessions[g].delta # NoFence
    <3>1. /\ pc' = [pc EXCEPT ![p] = "drop"] /\ fib' = [fib EXCEPT ![p] = NoFence]
          /\ ref' = [ref EXCEPT ![p] = sessions[g].delta] /\ op' = [op EXCEPT ![p] = "end"]
          /\ sessions' = [sessions EXCEPT ![g] = NoSession] /\ kept' = kept
      BY <1>14, <2>1 DEF End, Begins
    <3> QED
      BY <3>1 DEF NoSession, Session
  <2>2. CASE ~(drop /\ sessions[g].delta # NoFence)
    BY <1>14, <2>2 DEF End, Session, NoSession
  <2> QED
    BY <2>1, <2>2
<1>15. ASSUME NEW p \in Procs, NEW g \in Grants, Discard(p, g) PROVE Unparked'
    BY <1>15 DEF Discard, Begins, Hold
<1>16. ASSUME NEW p \in Procs, ForgetSession(p) PROVE Unparked'
    BY <1>16 DEF ForgetSession, Goes, NoSession, Session
<1>17. ASSUME NEW p \in Procs, NEW g \in Grants, Yield(p, g) PROVE Unparked'
    BY <1>17 DEF Yield, Begins
<1>18. ASSUME NEW p \in Procs, NEW g \in Grants, Admit(p, g) PROVE Unparked'
    BY <1>18 DEF Admit, Begins
<1>19. ASSUME NEW p \in Procs, TakeHeld(p) PROVE Unparked'
    BY <1>19 DEF TakeHeld, Goes, NoSession, Session
<1>20. ASSUME NEW p \in Procs, RestoreParked(p) PROVE Unparked'
    BY <1>20 DEF RestoreParked, Goes, Parked, NoSession, Session
<1>21. ASSUME NEW p \in Procs, Ask(p) PROVE Unparked'
    BY <1>21 DEF Ask, Goes
<1>22. ASSUME NEW p \in Procs, Share(p) PROVE Unparked'
    BY <1>22 DEF Share, Answers, Returns
<1>23. ASSUME NEW p \in Procs, TakeTurn(p) PROVE Unparked'
    BY <1>23 DEF TakeTurn, Goes, LedgerSnapshot
<1>24. ASSUME NEW p \in Procs, MergeHeld(p) PROVE Unparked'
    BY <1>24 DEF MergeHeld, Goes, WithHeld
<1>25. ASSUME NEW p \in Procs, Write(p) PROVE Unparked'
    BY <1>25, WroteIs DEF Write, Answers, Returns, OkIf, Works, Fails
<1>26. CASE UNCHANGED <<sessions, kept, fib, ref, pc, op>>
    BY <1>26
<1> HIDE DEF Typed, TypeOK, LedgerType, ProcType, Verbs, Unparked, Drops, InUse, diskVars,
    ledgerVars, heldVars, storeVars, procVars, bootVars, history
<1> QED
    BY <1>1, <1>2, <1>3, <1>4, <1>5, <1>6, <1>7, <1>8, <1>9, <1>10, <1>11, <1>12, <1>13, <1>14,
        <1>15, <1>16, <1>17, <1>18, <1>19, <1>20, <1>21, <1>22, <1>23, <1>24, <1>25, <1>26 DEF Next,
        vars, OpenEpochStore, Load, ReconcileGrant, AdmitPersist, KillOrphans, SweepDeltas,
        LastPersist, GoBad, diskVars, ledgerVars, heldVars, storeVars, procVars, bootVars, history,
        Begins, Goes, BootPersist

\* What a session may be resumed from is on disk: parked, held, about to be
\* parked or restored.
OnDisk ==
    /\ \A g \in Grants : sessions[g].st = "parked" =>
          \/ sessions[g].delta \in deltas
          \/ \E p \in Procs : op[p] = "discard" /\ pc[p] \in {"drop", "forget"} /\ on[p] = g
    /\ \A g \in Grants : kept[g].st = "parked" => kept[g].delta \in deltas
    /\ \A p \in Procs : pc[p] = "restore" /\ ref[p] # NoFence => ref[p] \in deltas
    /\ \A p \in Procs : pc[p] = "parked" => fib[p] \in deltas

\* What the boot has taken from the snapshot was parked there.
Loaded ==
    status \in {"list", "sweep", "persist"} =>
       \A g \in Grants : sessions[g].st = "parked" \/ kept[g].st = "parked" =>
          snap # Torn /\ snap.sess[g].st = "parked"

\* Until the boot serves, the parked sessions are those its snapshot has parked.
LEMMA LoadedStep == Typed /\ Booting /\ Loaded /\ [Next]_vars => Loaded'
<1> SUFFICES ASSUME Typed, Booting, Loaded, [Next]_vars PROVE Loaded'
    OBVIOUS
<1> USE ConstAssumption, NotFence DEF Typed, TypeOK, LedgerType, ProcType, Verbs, Loaded, diskVars,
        ledgerVars, heldVars, storeVars, procVars, bootVars, history
<1>1. CASE OpenEpochStore
    BY <1>1, WroteIs DEF OpenEpochStore, NextEpoch, OkIf, Works, Fails
<1>2. CASE Load
    BY <1>2 DEF Load
<1>3. ASSUME NEW g \in Grants, ReconcileGrant(g) PROVE Loaded'
    BY <1>3 DEF ReconcileGrant
<1>4. CASE AdmitPersist
    BY <1>4, WroteIs DEF AdmitPersist, BootPersist, OkIf, Works, Fails
<1>5. CASE ReconcileSessions
    BY <1>5 DEF ReconcileSessions, Usable, SnapSession, Parked, Session, NoSession, BootType,
        ImageType
<1>6. CASE KillOrphans
    BY <1>6 DEF KillOrphans, Orphans, Spent, SnapSession, OkIf, Works, Fails
<1>7. CASE SweepDeltas
    BY <1>7 DEF SweepDeltas, OkIf, Works, Fails
<1>8. CASE LastPersist
    BY <1>8, WroteIs DEF LastPersist, BootPersist, OkIf, Works, Fails
<1>9. CASE Stop
    BY <1>9 DEF Stop, Empty
<1>10. CASE GoBad
    BY <1>10 DEF GoBad, Fails
<1>11. ASSUME NEW p \in Procs, Sweep(p) PROVE Loaded'
    BY <1>11 DEF Sweep, Sweepable, Swept, Goes, NoSession, Session, Booting
<1>12. ASSUME NEW p \in Procs, CloneCommit(p) PROVE Loaded'
    BY <1>12 DEF CloneCommit, Session, Booting
<1>13. ASSUME NEW p \in Procs, OnPark(p) PROVE Loaded'
    BY <1>13 DEF OnPark, Goes, Parked, Session, Booting
<1>14. ASSUME NEW p \in Procs, NEW g \in Grants, NEW drop \in BOOLEAN, End(p, g, drop) PROVE Loaded'
    BY <1>14 DEF End, Begins, NoSession, Session, Booting
<1>15. ASSUME NEW p \in Procs, ForgetSession(p) PROVE Loaded'
    BY <1>15 DEF ForgetSession, Goes, NoSession, Session
<1>16. ASSUME NEW p \in Procs, TakeHeld(p) PROVE Loaded'
    BY <1>16 DEF TakeHeld, Goes, NoSession, Session
<1>17. ASSUME NEW p \in Procs, RestoreParked(p) PROVE Loaded'
    BY <1>17 DEF RestoreParked, Goes, Parked, NoSession, Session, Booting
<1>18. CASE UNCHANGED <<status, snap, sessions, kept>>
    BY <1>18
<1> HIDE DEF Typed, TypeOK, LedgerType, ProcType, Verbs, Loaded, diskVars, ledgerVars, heldVars,
    storeVars, procVars, bootVars, history
<1> QED
    BY <1>1, <1>2, <1>3, <1>4, <1>5, <1>6, <1>7, <1>8, <1>9, <1>10, <1>11, <1>12, <1>13, <1>14,
        <1>15, <1>16, <1>17, <1>18 DEF Next, vars, BeginBump, Bump, MoveEpoch, DiscardDelta,
        CloneResolve, CloneBirth, BeginPark, RuntimePark, Discard, Yield, Admit, Ask, Share,
        TakeTurn, MergeHeld, Write, diskVars, ledgerVars, heldVars, storeVars, procVars, bootVars,
        history, Begins, Goes

\* Whatever is dropped, swept or superseded, a delta that a session is parked in,
\* held in or about to be restored from stays on disk (discardDelta, sweepDeltas,
\* Reconcile).
LEMMA OnDiskStep ==
    Typed /\ Booting /\ MintedImages /\ MintedLedger /\ Keeps /\ Steady /\ Apart /\ Unparked
       /\ Loaded /\ OnDisk /\ [Next]_vars => OnDisk'
<1> SUFFICES ASSUME Typed, Booting, MintedImages, MintedLedger, Keeps, Steady, Apart, Unparked,
                    Loaded, OnDisk, [Next]_vars
             PROVE  OnDisk'
    OBVIOUS
<1> USE ConstAssumption, NotFence DEF Typed, TypeOK, LedgerType, ProcType, Verbs, OnDisk, diskVars,
        ledgerVars, heldVars, storeVars, procVars, bootVars, history
<1>1. CASE ReconcileSessions
    BY <1>1 DEF ReconcileSessions, Usable, SnapSession, Parked, Session, NoSession, Booting,
        BootType, ImageType, SessionType, DiskType
<1>2. CASE KillOrphans
  <2>1. \A g \in Grants : sessions[g].st = "parked" => sessions[g].delta \notin Spent
    BY <1>2 DEF KillOrphans, Spent, SnapSession, Loaded, Sess, Formed, MintedLedger, MintedImages,
        Theirs, Its, DiskType
  <2>2. \A g \in Grants : kept[g].st = "parked" => kept[g].delta \notin Spent
    BY <1>2 DEF KillOrphans, Spent, SnapSession, Loaded, MintedLedger, MintedImages, Theirs, Its,
        DiskType
  <2>3. deltas \ Spent \subseteq deltas' /\ UNCHANGED <<sessions, kept, pc>>
    BY <1>2 DEF KillOrphans
  <2>4. \A p \in Procs : pc[p] = "idle"
    BY <1>2 DEF KillOrphans, Booting
  <2> QED
    BY <2>1, <2>2, <2>3, <2>4
<1>3. CASE SweepDeltas
    BY <1>3 DEF SweepDeltas, OkIf, Works, Fails, Named, WithHeld, LedgerSnapshot, Booting, Keeps,
        NoSession, Session
<1>4. CASE Stop
    BY <1>4 DEF Stop, Empty, NoSession, Session
<1>5. ASSUME NEW p \in Procs, BeginBump(p) PROVE OnDisk'
    BY <1>5 DEF BeginBump, Begins
<1>6. ASSUME NEW p \in Procs, Bump(p) PROVE OnDisk'
    BY <1>6, WroteIs DEF Bump, OkIf, Works, Fails, Goes, Returns
<1>7. ASSUME NEW p \in Procs, MoveEpoch(p) PROVE OnDisk'
    BY <1>7 DEF MoveEpoch, Goes
<1>8. ASSUME NEW p \in Procs, Sweep(p) PROVE OnDisk'
  <2>1. ASSUME NEW g \in Grants, Swept(p, g) PROVE OnDisk'
    BY <1>8, <2>1 DEF Sweep, Swept, NoSession, Session
  <2>2. CASE Sweepable(p) = {} /\ Goes(p, "sweep", "ask") /\ UNCHANGED <<running, sessions, ref>>
    BY <1>8, <2>2 DEF Sweep, Goes
  <2> QED
    BY <1>8, <2>1, <2>2 DEF Sweep, Sweepable
<1>9. ASSUME NEW p \in Procs, DiscardDelta(p) PROVE OnDisk'
  <2>1. pc[p] = "drop" /\ deltas \ {ref[p]} \subseteq deltas'
    BY <1>9 DEF DiscardDelta
  <2>2. CASE op[p] = "discard"
    <3>1. on[p] \in Grants /\ sessions[on[p]] = Parked(ref[p])
      BY <2>1, <2>2 DEF Steady
    <3>2. sessions[on[p]].delta = ref[p]
      BY <3>1 DEF Parked, Session
    <3>3. \A h \in Grants : sessions[h].st = "parked" /\ h # on[p] => sessions[h].delta \in deltas' \/
              \E q \in Procs : op[q] = "discard" /\ pc[q] \in {"drop", "forget"} /\ on[q] = h
      BY <2>1, <3>1, <3>2, ByGrant DEF DiskType
    <3>4. \A h \in Grants : kept[h].st = "parked" => kept[h].delta \in deltas'
      BY <2>1, <3>1, <3>2, ByGrant DEF DiskType, Apart
    <3>5. \A q \in Procs : pc[q] = "restore" /\ ref[q] # NoFence => ref[q] \in deltas'
      BY <2>1, <3>1, <3>2 DEF Apart
    <3>6. \A q \in Procs : pc[q] = "parked" => fib[q] \in deltas'
      BY <2>1, <3>1, <3>2 DEF Unparked, InUse
    <3> QED
      BY <1>9, <2>1, <2>2, <3>1, <3>3, <3>4, <3>5, <3>6 DEF DiscardDelta, Goes
  <2>3. CASE op[p] # "discard"
    <3>1. Drops(p)
      BY <2>1, <2>3 DEF Drops
    <3>2. \A h \in Grants : /\ sessions[h].st = "parked" => sessions[h].delta # ref[p]
                            /\ kept[h].st = "parked" => kept[h].delta # ref[p]
      BY <3>1 DEF Apart, DiskType, Sess, Formed
    <3>3. \A q \in Procs : /\ pc[q] = "restore" /\ ref[q] # NoFence => ref[q] # ref[p]
                           /\ pc[q] = "parked" => fib[q] # ref[p]
      BY <2>1, <3>1 DEF Apart, Unparked, InUse
    <3>4. /\ UNCHANGED <<sessions, kept>>
          /\ \A q \in Procs : q # p => /\ pc'[q] = pc[q] /\ op'[q] = op[q] /\ on'[q] = on[q]
                                       /\ fib'[q] = fib[q] /\ ref'[q] = ref[q]
      BY <1>9 DEF DiscardDelta, Goes, Returns
    <3>5. pc'[p] \notin {"restore", "parked"}
      BY <1>9 DEF DiscardDelta, Goes, Returns
    <3>6. ASSUME NEW h \in Grants, sessions[h].st = "parked", sessions[h].delta \notin deltas'
          PROVE  \E q \in Procs : op'[q] = "discard" /\ pc'[q] \in {"drop", "forget"} /\ on'[q] = h
      <4>1. PICK q \in Procs : op[q] = "discard" /\ pc[q] \in {"drop", "forget"} /\ on[q] = h
        BY <2>1, <3>2, <3>6
      <4> QED
        BY <2>3, <3>4, <4>1
    <3>7. \A q \in Procs : pc'[q] \in {"restore", "parked"} => q # p
      BY <3>5
    <3> QED
      BY <2>1, <3>2, <3>3, <3>4, <3>6, <3>7
  <2> QED
    BY <2>2, <2>3
<1>10. ASSUME NEW p \in Procs, NEW g \in Grants, CloneResolve(p, g) PROVE OnDisk'
    BY <1>10 DEF CloneResolve, Begins, Hold
<1>11. ASSUME NEW p \in Procs, CloneBirth(p) PROVE OnDisk'
    BY <1>11 DEF CloneBirth, Works, Fails, Goes, Returns
<1>12. ASSUME NEW p \in Procs, CloneCommit(p) PROVE OnDisk'
  <2>1. pc[p] = "commit" /\ op[p] = "clone" /\ on[p] \in Grants /\ UNCHANGED <<deltas, kept>>
    BY <1>12 DEF CloneCommit
  <2>2. \A h \in Grants : sessions'[h].st = "parked" => sessions'[h] = sessions[h]
    BY <1>12, <2>1 DEF CloneCommit, Session
  <2>3. \A q \in Procs : q # p => /\ pc'[q] = pc[q] /\ op'[q] = op[q] /\ on'[q] = on[q]
                                  /\ fib'[q] = fib[q] /\ ref'[q] = ref[q]
    BY <1>12 DEF CloneCommit, Goes, Returns
  <2>4. pc'[p] \notin {"restore", "parked"}
    BY <1>12 DEF CloneCommit, Goes, Returns
  <2> QED
    BY <2>1, <2>2, <2>3, <2>4
<1>13. ASSUME NEW p \in Procs, NEW g \in Grants, BeginPark(p, g) PROVE OnDisk'
    BY <1>13 DEF BeginPark, Begins, Hold
<1>14. ASSUME NEW p \in Procs, RuntimePark(p) PROVE OnDisk'
    BY <1>14 DEF RuntimePark, OkIf, Works, Fails, Goes, Returns
<1>15. ASSUME NEW p \in Procs, OnPark(p) PROVE OnDisk'
  <2>1. pc[p] = "parked" /\ op[p] = "park" /\ on[p] \in Grants /\ UNCHANGED <<deltas, kept, op, on>>
    BY <1>15 DEF OnPark
  <2>2. \A h \in Grants : sessions'[h].st = "parked" => sessions'[h] = sessions[h] \/ sessions'[h].delta = fib[p]
    BY <1>15, <2>1 DEF OnPark, Parked, Session
  <2>3. \A q \in Procs : q # p => pc'[q] = pc[q] /\ fib'[q] = fib[q] /\ ref'[q] = ref[q]
    BY <1>15 DEF OnPark, Goes
  <2>4. pc'[p] \notin {"restore", "parked"}
    BY <1>15 DEF OnPark, Goes
  <2> QED
    BY <2>1, <2>2, <2>3, <2>4
<1>16. ASSUME NEW p \in Procs, NEW g \in Grants, NEW drop \in BOOLEAN, End(p, g, drop) PROVE OnDisk'
  <2>1. CASE drop /\ sessions[g].delta # NoFence
    BY <1>16, <2>1 DEF End, Begins, NoSession, Session
  <2>2. CASE ~(drop /\ sessions[g].delta # NoFence)
    BY <1>16, <2>2 DEF End, NoSession, Session
  <2> QED
    BY <2>1, <2>2
<1>17. ASSUME NEW p \in Procs, NEW g \in Grants, Discard(p, g) PROVE OnDisk'
    BY <1>17 DEF Discard, Begins, Hold
<1>18. ASSUME NEW p \in Procs, ForgetSession(p) PROVE OnDisk'
    BY <1>18 DEF ForgetSession, Goes, NoSession, Session
<1>19. ASSUME NEW p \in Procs, NEW g \in Grants, Yield(p, g) PROVE OnDisk'
    BY <1>19 DEF Yield, Begins
<1>20. ASSUME NEW p \in Procs, NEW g \in Grants, Admit(p, g) PROVE OnDisk'
    BY <1>20 DEF Admit, Begins
<1>21. ASSUME NEW p \in Procs, TakeHeld(p) PROVE OnDisk'
    BY <1>21 DEF TakeHeld, Goes, NoSession, Session, Keeps
<1>22. ASSUME NEW p \in Procs, RestoreParked(p) PROVE OnDisk'
  <2>1. pc[p] = "restore" /\ op[p] = "admit" /\ on[p] \in Grants /\ UNCHANGED <<deltas, kept, op, on, ref, fib>>
    BY <1>22 DEF RestoreParked, Goes
  <2>2. \A h \in Grants : sessions'[h].st = "parked" =>
            sessions'[h] = sessions[h] \/ (ref[p] # NoFence /\ sessions'[h].delta = ref[p])
    BY <1>22, <2>1 DEF RestoreParked, Parked, Session
  <2>3. pc' = [pc EXCEPT ![p] = "ask"]
    BY <1>22 DEF RestoreParked, Goes
  <2> QED
    BY <2>1, <2>2, <2>3
<1>23. ASSUME NEW p \in Procs, Ask(p) PROVE OnDisk'
    BY <1>23 DEF Ask, Goes
<1>24. ASSUME NEW p \in Procs, Share(p) PROVE OnDisk'
    BY <1>24 DEF Share, Answers, Returns
<1>25. ASSUME NEW p \in Procs, TakeTurn(p) PROVE OnDisk'
    BY <1>25 DEF TakeTurn, Goes, LedgerSnapshot
<1>26. ASSUME NEW p \in Procs, MergeHeld(p) PROVE OnDisk'
    BY <1>26 DEF MergeHeld, Goes, WithHeld
<1>27. ASSUME NEW p \in Procs, Write(p) PROVE OnDisk'
    BY <1>27, WroteIs DEF Write, Answers, Returns, OkIf, Works, Fails
<1>28. CASE UNCHANGED <<deltas, sessions, kept, ref, fib, pc, op, on>>
    BY <1>28
<1> HIDE DEF Typed, TypeOK, LedgerType, ProcType, Verbs, OnDisk, diskVars, ledgerVars, heldVars,
    storeVars, procVars, bootVars, history
<1> QED
    BY <1>1, <1>2, <1>3, <1>4, <1>5, <1>6, <1>7, <1>8, <1>9, <1>10, <1>11, <1>12, <1>13, <1>14,
        <1>15, <1>16, <1>17, <1>18, <1>19, <1>20, <1>21, <1>22, <1>23, <1>24, <1>25, <1>26, <1>27,
        <1>28 DEF Next, vars, OpenEpochStore, Load, ReconcileGrant, AdmitPersist, LastPersist,
        GoBad, diskVars, ledgerVars, heldVars, storeVars, procVars, bootVars, history, Begins, Goes,
        BootPersist

(***************************************************************************)
(* The snapshot store.                                                     *)
(***************************************************************************)

\* One write at a time, and a ticket is not above what was asked.
Turns ==
    /\ turn = NoProc => image = Empty
    /\ \A p \in Procs : pc[p] \in {"merge", "write"} <=> turn = p
    /\ covered <= asked
    /\ \A p \in Procs : pc[p] \in {"wait", "merge", "write"} => ticket[p] <= asked

\* One write of the snapshot is in flight at a time.
LEMMA TurnsStep == Typed /\ Booting /\ Turns /\ [Next]_vars => Turns'
<1> SUFFICES ASSUME Typed, Booting, Turns, [Next]_vars PROVE Turns'
    OBVIOUS
<1> USE ConstAssumption, NotFence DEF Typed, TypeOK, LedgerType, ProcType, Verbs, StoreType, Turns,
        diskVars, ledgerVars, heldVars, storeVars, procVars, bootVars, history
<1>1. CASE OpenEpochStore
    BY <1>1, WroteIs DEF OpenEpochStore, NextEpoch, OkIf, Works, Fails
<1>2. CASE Load
    BY <1>2 DEF Load
<1>3. ASSUME NEW g \in Grants, ReconcileGrant(g) PROVE Turns'
    BY <1>3 DEF ReconcileGrant
<1>4. CASE AdmitPersist
    BY <1>4, WroteIs DEF AdmitPersist, BootPersist, OkIf, Works, Fails
<1>5. CASE ReconcileSessions
    BY <1>5 DEF ReconcileSessions, Usable, SnapSession, Parked, Session, NoSession
<1>6. CASE KillOrphans
    BY <1>6 DEF KillOrphans, Orphans, Spent, SnapSession, OkIf, Works, Fails
<1>7. CASE SweepDeltas
    BY <1>7 DEF SweepDeltas, OkIf, Works, Fails
<1>8. CASE LastPersist
    BY <1>8, WroteIs DEF LastPersist, BootPersist, OkIf, Works, Fails
<1>9. CASE Stop
    BY <1>9 DEF Stop, Empty
<1>10. CASE GoBad
    BY <1>10 DEF GoBad, Fails
<1>11. ASSUME NEW p \in Procs, BeginBump(p) PROVE Turns'
    BY <1>11 DEF BeginBump, Begins
<1>12. ASSUME NEW p \in Procs, Bump(p) PROVE Turns'
    BY <1>12, WroteIs DEF Bump, OkIf, Works, Fails, Goes, Returns
<1>13. ASSUME NEW p \in Procs, MoveEpoch(p) PROVE Turns'
    BY <1>13 DEF MoveEpoch, Goes
<1>14. ASSUME NEW p \in Procs, Sweep(p) PROVE Turns'
    BY <1>14 DEF Sweep, Sweepable, Swept, Goes, NoSession, Session
<1>15. ASSUME NEW p \in Procs, DiscardDelta(p) PROVE Turns'
    BY <1>15 DEF DiscardDelta, Works, Fails, Goes, Returns
<1>16. ASSUME NEW p \in Procs, NEW g \in Grants, CloneResolve(p, g) PROVE Turns'
    BY <1>16 DEF CloneResolve, Begins, Hold
<1>17. ASSUME NEW p \in Procs, CloneBirth(p) PROVE Turns'
    BY <1>17 DEF CloneBirth, Works, Fails, Goes, Returns
<1>18. ASSUME NEW p \in Procs, CloneCommit(p) PROVE Turns'
    BY <1>18 DEF CloneCommit, Goes, Returns, Session
<1>19. ASSUME NEW p \in Procs, NEW g \in Grants, BeginPark(p, g) PROVE Turns'
    BY <1>19 DEF BeginPark, Begins, Hold
<1>20. ASSUME NEW p \in Procs, RuntimePark(p) PROVE Turns'
    BY <1>20 DEF RuntimePark, OkIf, Works, Fails, Goes, Returns
<1>21. ASSUME NEW p \in Procs, OnPark(p) PROVE Turns'
    BY <1>21 DEF OnPark, Goes, Parked, Session
<1>22. ASSUME NEW p \in Procs, NEW g \in Grants, NEW drop \in BOOLEAN, End(p, g, drop) PROVE Turns'
  <2>1. CASE drop /\ sessions[g].delta # NoFence
    BY <1>22, <2>1 DEF End, Begins
  <2>2. CASE ~(drop /\ sessions[g].delta # NoFence)
    BY <1>22, <2>2 DEF End
  <2> QED
    BY <2>1, <2>2
<1>23. ASSUME NEW p \in Procs, NEW g \in Grants, Discard(p, g) PROVE Turns'
    BY <1>23 DEF Discard, Begins, Hold
<1>24. ASSUME NEW p \in Procs, ForgetSession(p) PROVE Turns'
    BY <1>24 DEF ForgetSession, Goes, NoSession, Session
<1>25. ASSUME NEW p \in Procs, NEW g \in Grants, Yield(p, g) PROVE Turns'
    BY <1>25 DEF Yield, Begins
<1>26. ASSUME NEW p \in Procs, NEW g \in Grants, Admit(p, g) PROVE Turns'
    BY <1>26 DEF Admit, Begins
<1>27. ASSUME NEW p \in Procs, TakeHeld(p) PROVE Turns'
    BY <1>27 DEF TakeHeld, Goes, NoSession, Session
<1>28. ASSUME NEW p \in Procs, RestoreParked(p) PROVE Turns'
    BY <1>28 DEF RestoreParked, Goes, Parked, NoSession, Session
<1>29. ASSUME NEW p \in Procs, Ask(p) PROVE Turns'
    BY <1>29 DEF Ask, Goes
<1>30. ASSUME NEW p \in Procs, Share(p) PROVE Turns'
    BY <1>30 DEF Share, Answers, Returns
<1>31. ASSUME NEW p \in Procs, TakeTurn(p) PROVE Turns'
    BY <1>31 DEF TakeTurn, Goes, LedgerSnapshot
<1>32. ASSUME NEW p \in Procs, MergeHeld(p) PROVE Turns'
    BY <1>32 DEF MergeHeld, Goes, WithHeld
<1>33. ASSUME NEW p \in Procs, Write(p) PROVE Turns'
    BY <1>33, WroteIs DEF Write, Answers, Returns, OkIf, Works, Fails
<1>34. CASE UNCHANGED <<turn, image, covered, asked, ticket, pc>>
    BY <1>34
<1> HIDE DEF Typed, TypeOK, LedgerType, ProcType, Verbs, StoreType, Turns, diskVars, ledgerVars,
    heldVars, storeVars, procVars, bootVars, history
<1> QED
    BY <1>1, <1>2, <1>3, <1>4, <1>5, <1>6, <1>7, <1>8, <1>9, <1>10, <1>11, <1>12, <1>13, <1>14,
        <1>15, <1>16, <1>17, <1>18, <1>19, <1>20, <1>21, <1>22, <1>23, <1>24, <1>25, <1>26, <1>27,
        <1>28, <1>29, <1>30, <1>31, <1>32, <1>33, <1>34 DEF Next, vars, diskVars, ledgerVars,
        heldVars, storeVars, procVars, bootVars, history, Begins, Goes

\* Does the write in flight, or else the last one if it succeeded, cover p?
InImage(p) == pc[p] \in {"merge", "write"} \/ (pc[p] = "wait" /\ covered >= ticket[p] /\ turn # NoProc)
InFile(p) == pc[p] = "wait" /\ covered >= ticket[p] /\ turn = NoProc /\ ~lastErr

\* A resume that is committed and not answered, and the deltas that no
\* restart may resume again.
Resumed(p) == op[p] = "clone" /\ pc[p] \in {"ask", "wait", "merge", "write"}
Used == consumed \cup {ref[p] : p \in {q \in Procs : Resumed(q)}}

\* No session of sess is parked in d.
NoneIn(sess, d) == \A g \in Grants : sess[g].st = "parked" => sess[g].delta # d

\* The images taken since the commit do not name it, and the file does not
\* once one of them is written.
Unnamed ==
    /\ \A d \in consumed :
          /\ NoneIn(image.sess, d)
          /\ file # Torn => NoneIn(file.sess, d)
          /\ status # "serving" /\ snap # Torn => NoneIn(snap.sess, d)
    /\ \A p \in Procs : Resumed(p) =>
          /\ InImage(p) => NoneIn(image.sess, ref[p])
          /\ InFile(p) /\ file # Torn => NoneIn(file.sess, ref[p])

\* A used delta is nobody's to resume: no session is parked in it, none is
\* held, no fiber may still be parked in it and no admission restores it.
Nobodys ==
    /\ \A g \in Grants : /\ sessions[g].st = "parked" => sessions[g].delta \notin Used
                         /\ kept[g].st = "parked" => kept[g].delta \notin Used
                         /\ sessions[g].fence \notin Used
    /\ \A q \in Procs : /\ pc[q] \in {"birth", "commit", "park", "parked"} => fib[q] \notin Used
                        /\ pc[q] = "restore" => ref[q] \notin Used

\* A step that answers no resume for the first time uses nothing new.
LEMMA UsedFewer ==
    ASSUME consumed' \subseteq Used,
           \A q \in Procs : Resumed(q)' => Resumed(q) /\ ref'[q] = ref[q]
    PROVE  Used' \subseteq Used
    BY DEF Used

\* Only a commit uses a delta.
LEMMA UsedStep == Typed /\ [Next]_vars => (Used' \subseteq Used) \/ \E p \in Procs : CloneCommit(p)
<1> SUFFICES ASSUME Typed, [Next]_vars, ~\E p \in Procs : CloneCommit(p) PROVE Used' \subseteq Used
    OBVIOUS
<1>0. SUFFICES /\ consumed' \subseteq Used
               /\ \A q \in Procs : Resumed(q)' => Resumed(q) /\ ref'[q] = ref[q]
    BY UsedFewer
<1> DEFINE G == /\ consumed' \subseteq Used
                /\ \A q \in Procs : Resumed(q)' => Resumed(q) /\ ref'[q] = ref[q]
<1> USE DEF Typed, TypeOK, ProcType, Verbs, Resumed, diskVars, ledgerVars, heldVars, storeVars,
    procVars, bootVars, history
<1>1. ASSUME Stop PROVE G
    BY <1>1 DEF Used, Stop, Empty
<1>2. ASSUME NEW p \in Procs, BeginBump(p) PROVE G
    BY <1>2 DEF Used, BeginBump, Begins
<1>3. ASSUME NEW p \in Procs, Bump(p) PROVE G
    BY <1>3, WroteIs DEF Used, Bump, OkIf, Works, Fails, Goes, Returns
<1>4. ASSUME NEW p \in Procs, MoveEpoch(p) PROVE G
    BY <1>4 DEF Used, MoveEpoch, Goes
<1>5. ASSUME NEW p \in Procs, Sweep(p) PROVE G
    BY <1>5 DEF Used, Sweep, Sweepable, Swept, Goes, NoSession, Session
<1>6. ASSUME NEW p \in Procs, DiscardDelta(p) PROVE G
    BY <1>6 DEF Used, DiscardDelta, Works, Fails, Goes, Returns
<1>7. ASSUME NEW p \in Procs, NEW g \in Grants, CloneResolve(p, g) PROVE G
    BY <1>7 DEF Used, CloneResolve, Begins, Hold
<1>8. ASSUME NEW p \in Procs, CloneBirth(p) PROVE G
    BY <1>8 DEF Used, CloneBirth, Works, Fails, Goes, Returns
<1>9. ASSUME NEW p \in Procs, NEW g \in Grants, BeginPark(p, g) PROVE G
    BY <1>9 DEF Used, BeginPark, Begins, Hold
<1>10. ASSUME NEW p \in Procs, RuntimePark(p) PROVE G
    BY <1>10 DEF Used, RuntimePark, OkIf, Works, Fails, Goes, Returns
<1>11. ASSUME NEW p \in Procs, OnPark(p) PROVE G
    BY <1>11 DEF Used, OnPark, Goes, Parked, Session
<1>12. ASSUME NEW p \in Procs, NEW g \in Grants, NEW drop \in BOOLEAN, End(p, g, drop) PROVE G
    BY <1>12 DEF Used, End, Begins, NoSession, Session
<1>13. ASSUME NEW p \in Procs, NEW g \in Grants, Discard(p, g) PROVE G
    BY <1>13 DEF Used, Discard, Begins, Hold
<1>14. ASSUME NEW p \in Procs, ForgetSession(p) PROVE G
    BY <1>14 DEF Used, ForgetSession, Goes, NoSession, Session
<1>15. ASSUME NEW p \in Procs, NEW g \in Grants, Yield(p, g) PROVE G
    BY <1>15 DEF Used, Yield, Begins
<1>16. ASSUME NEW p \in Procs, NEW g \in Grants, Admit(p, g) PROVE G
    BY <1>16 DEF Used, Admit, Begins
<1>17. ASSUME NEW p \in Procs, TakeHeld(p) PROVE G
    BY <1>17 DEF Used, TakeHeld, Goes, NoSession, Session
<1>18. ASSUME NEW p \in Procs, RestoreParked(p) PROVE G
    BY <1>18 DEF Used, RestoreParked, Goes, Parked, NoSession, Session
<1>19. ASSUME NEW p \in Procs, Ask(p) PROVE G
    BY <1>19 DEF Used, Ask, Goes
<1>20. ASSUME NEW p \in Procs, Share(p) PROVE G
    BY <1>20 DEF Used, Share, Answers, Returns
<1>21. ASSUME NEW p \in Procs, TakeTurn(p) PROVE G
    BY <1>21 DEF Used, TakeTurn, Goes, LedgerSnapshot
<1>22. ASSUME NEW p \in Procs, MergeHeld(p) PROVE G
    BY <1>22 DEF Used, MergeHeld, Goes, WithHeld
<1>23. ASSUME NEW p \in Procs, Write(p) PROVE G
    BY <1>23, WroteIs DEF Used, Write, Answers, Returns, OkIf, Works, Fails
<1>24. ASSUME UNCHANGED <<consumed, op, pc, ref>> PROVE G
    BY <1>24 DEF Used
<1> HIDE DEF Typed, TypeOK, ProcType, Verbs, Resumed, G
<1>99. G
    BY <1>1, <1>2, <1>3, <1>4, <1>5, <1>6, <1>7, <1>8, <1>9, <1>10, <1>11, <1>12, <1>13, <1>14,
        <1>15, <1>16, <1>17, <1>18, <1>19, <1>20, <1>21, <1>22, <1>23, <1>24 DEF Next, vars,
        OpenEpochStore, Load, ReconcileGrant, AdmitPersist, ReconcileSessions, KillOrphans,
        SweepDeltas, LastPersist, GoBad, diskVars, ledgerVars, heldVars, storeVars, procVars,
        bootVars, history, Begins, Goes, BootPersist
<1> QED
    BY <1>99 DEF G

\* A step that uses no new delta gives none of the used ones away.
LEMMA NobodysKept ==
    Typed /\ Booting /\ Epochs /\ MintedPast /\ MintedLedger /\ MintedHands /\ Keeps /\ Unnamed
       /\ (Used' \subseteq Used) /\ Nobodys /\ [Next]_vars => Nobodys'
<1> SUFFICES ASSUME Typed, Booting, Epochs, MintedPast, MintedLedger, MintedHands, Keeps, Unnamed,
                    (Used' \subseteq Used), Nobodys, [Next]_vars
             PROVE  Nobodys'
    OBVIOUS
<1>n. NoFence \notin Used
    BY NotFence DEF Typed, TypeOK, HistoryType, Verbs, Used, Resumed
<1> USE ConstAssumption, NotFence, <1>n DEF Typed, TypeOK, LedgerType, ProcType, Verbs, Nobodys,
        diskVars, ledgerVars, heldVars, storeVars, procVars, bootVars, history
<1>1. CASE ReconcileSessions
  <2>1. /\ Used' = Used /\ UNCHANGED <<fib, ref, pc>> /\ snap = snap' /\ \A q \in Procs : pc[q] = "idle"
    BY <1>1 DEF ReconcileSessions, Booting, Used, Resumed
  <2>2. Used \subseteq consumed
    BY <1>1, <2>1 DEF ReconcileSessions, Booting, Used, Resumed
  <2>3. snap # Torn => \A g \in Grants : snap.sess[g].st = "parked" => snap.sess[g].delta \notin Used
    BY <1>1, <2>2 DEF Unnamed, NoneIn, ReconcileSessions
  <2> QED
    BY <1>1, <2>1, <2>3 DEF ReconcileSessions, Usable, SnapSession, Parked, NoSession, Session
<1>2. CASE Stop
    BY <1>2 DEF Stop, Empty, NoSession, Session
<1>3. ASSUME NEW p \in Procs, BeginBump(p) PROVE Nobodys'
    BY <1>3 DEF BeginBump, Begins
<1>4. ASSUME NEW p \in Procs, Bump(p) PROVE Nobodys'
    BY <1>4, WroteIs DEF Bump, OkIf, Works, Fails, Goes, Returns
<1>5. ASSUME NEW p \in Procs, MoveEpoch(p) PROVE Nobodys'
    BY <1>5 DEF MoveEpoch, Goes
<1>6. ASSUME NEW p \in Procs, Sweep(p) PROVE Nobodys'
  <2>1. ASSUME NEW g \in Grants, Swept(p, g) PROVE Nobodys'
    BY <1>6, <2>1 DEF Sweep, Swept, NoSession, Session
  <2>2. CASE Sweepable(p) = {} /\ Goes(p, "sweep", "ask") /\ UNCHANGED <<running, sessions, ref>>
    BY <1>6, <2>2 DEF Sweep, Goes
  <2> QED
    BY <1>6, <2>1, <2>2 DEF Sweep, Sweepable
<1>7. ASSUME NEW p \in Procs, DiscardDelta(p) PROVE Nobodys'
    BY <1>7 DEF DiscardDelta, Works, Fails, Goes, Returns
<1>8. ASSUME NEW p \in Procs, NEW g \in Grants, CloneResolve(p, g) PROVE Nobodys'
  <2> DEFINE f == <<g, current, seq[g] + 1>>
  <2>1. f \notin Minted
    BY <1>8, MintsNew
  <2>2. /\ fib' = [fib EXCEPT ![p] = f] /\ pc' = [pc EXCEPT ![p] = "birth"] /\ UNCHANGED <<sessions, kept, consumed>>
        /\ \A q \in Procs : q # p => ref'[q] = ref[q]
    BY <1>8 DEF CloneResolve, Begins
  <2> HIDE DEF f
  <2>3. f \notin Used
    BY <2>1 DEF MintedPast, MintedHands, Used, Resumed
  <2> QED
    BY <2>2, <2>3
<1>9. ASSUME NEW p \in Procs, CloneBirth(p) PROVE Nobodys'
    BY <1>9 DEF CloneBirth, Works, Fails, Goes, Returns
<1>10. ASSUME NEW p \in Procs, CloneCommit(p) PROVE Nobodys'
  <2>1. pc[p] = "commit" /\ op[p] = "clone" /\ on[p] \in Grants /\ UNCHANGED <<kept, consumed>>
    BY <1>10 DEF CloneCommit
  <2>2. \A q \in Procs : q # p => /\ pc'[q] = pc[q] /\ op'[q] = op[q]
                                  /\ fib'[q] = fib[q] /\ ref'[q] = ref[q]
    BY <1>10 DEF CloneCommit, Goes, Returns
  <2>3. /\ \A h \in Grants : sessions'[h].fence \in {sessions[h].fence, fib[p]}
        /\ \A h \in Grants : sessions'[h].st = "parked" => sessions'[h] = sessions[h]
    BY <1>10, <2>1 DEF CloneCommit, Session
  <2>4. pc'[p] \in {"ask", "idle"}
    BY <1>10 DEF CloneCommit, Goes, Returns
  <2> QED
    BY <2>1, <2>2, <2>3, <2>4
<1>11. ASSUME NEW p \in Procs, NEW g \in Grants, BeginPark(p, g) PROVE Nobodys'
    BY <1>11 DEF BeginPark, Begins, Hold
<1>12. ASSUME NEW p \in Procs, RuntimePark(p) PROVE Nobodys'
    BY <1>12 DEF RuntimePark, OkIf, Works, Fails, Goes, Returns
<1>13. ASSUME NEW p \in Procs, OnPark(p) PROVE Nobodys'
  <2>1. pc[p] = "parked" /\ on[p] \in Grants /\ UNCHANGED <<kept, consumed>>
    BY <1>13 DEF OnPark
  <2>2. /\ \A h \in Grants : sessions'[h].fence \in {sessions[h].fence, NoFence}
        /\ \A h \in Grants : sessions'[h].st = "parked" => sessions'[h] = sessions[h] \/ sessions'[h].delta = fib[p]
    BY <1>13, <2>1 DEF OnPark, Parked, Session
  <2>3. \A q \in Procs : q # p => pc'[q] = pc[q] /\ fib'[q] = fib[q] /\ ref'[q] = ref[q]
    BY <1>13 DEF OnPark, Goes
  <2>4. pc'[p] \in {"drop", "ask"}
    BY <1>13 DEF OnPark, Goes
  <2> QED
    BY <2>1, <2>2, <2>3, <2>4
<1>14. ASSUME NEW p \in Procs, NEW g \in Grants, NEW drop \in BOOLEAN, End(p, g, drop) PROVE Nobodys'
  <2>1. CASE drop /\ sessions[g].delta # NoFence
    BY <1>14, <2>1 DEF End, Begins, NoSession, Session
  <2>2. CASE ~(drop /\ sessions[g].delta # NoFence)
    BY <1>14, <2>2 DEF End, NoSession, Session
  <2> QED
    BY <2>1, <2>2
<1>15. ASSUME NEW p \in Procs, NEW g \in Grants, Discard(p, g) PROVE Nobodys'
    BY <1>15 DEF Discard, Begins, Hold
<1>16. ASSUME NEW p \in Procs, ForgetSession(p) PROVE Nobodys'
    BY <1>16 DEF ForgetSession, Goes, NoSession, Session
<1>17. ASSUME NEW p \in Procs, NEW g \in Grants, Yield(p, g) PROVE Nobodys'
    BY <1>17 DEF Yield, Begins
<1>18. ASSUME NEW p \in Procs, NEW g \in Grants, Admit(p, g) PROVE Nobodys'
    BY <1>18 DEF Admit, Begins
<1>19. ASSUME NEW p \in Procs, TakeHeld(p) PROVE Nobodys'
    BY <1>19 DEF TakeHeld, Goes, NoSession, Session, Keeps
<1>20. ASSUME NEW p \in Procs, RestoreParked(p) PROVE Nobodys'
  <2>1. pc[p] = "restore" /\ on[p] \in Grants /\ UNCHANGED <<kept, consumed, ref, fib>>
    BY <1>20 DEF RestoreParked, Goes
  <2>2. /\ \A h \in Grants : sessions'[h].fence \in {sessions[h].fence, NoFence}
        /\ \A h \in Grants : sessions'[h].st = "parked" => sessions'[h] = sessions[h] \/ sessions'[h].delta = ref[p]
    BY <1>20, <2>1 DEF RestoreParked, Parked, Session
  <2>3. pc' = [pc EXCEPT ![p] = "ask"]
    BY <1>20 DEF RestoreParked, Goes
  <2> QED
    BY <2>1, <2>2, <2>3
<1>21. ASSUME NEW p \in Procs, Ask(p) PROVE Nobodys'
    BY <1>21 DEF Ask, Goes
<1>22. ASSUME NEW p \in Procs, Share(p) PROVE Nobodys'
    BY <1>22 DEF Share, Answers, Returns
<1>23. ASSUME NEW p \in Procs, TakeTurn(p) PROVE Nobodys'
    BY <1>23 DEF TakeTurn, Goes, LedgerSnapshot
<1>24. ASSUME NEW p \in Procs, MergeHeld(p) PROVE Nobodys'
    BY <1>24 DEF MergeHeld, Goes, WithHeld
<1>25. ASSUME NEW p \in Procs, Write(p) PROVE Nobodys'
    BY <1>25, WroteIs DEF Write, Answers, Returns, OkIf, Works, Fails
<1>26. CASE UNCHANGED <<sessions, kept, fib, ref, pc>>
    BY <1>26
<1> HIDE DEF Typed, TypeOK, LedgerType, ProcType, Verbs, Nobodys, diskVars, ledgerVars, heldVars,
    storeVars, procVars, bootVars, history
<1> QED
    BY <1>1, <1>2, <1>3, <1>4, <1>5, <1>6, <1>7, <1>8, <1>9, <1>10, <1>11, <1>12, <1>13, <1>14,
        <1>15, <1>16, <1>17, <1>18, <1>19, <1>20, <1>21, <1>22, <1>23, <1>24, <1>25, <1>26 DEF Next,
        vars, OpenEpochStore, Load, ReconcileGrant, AdmitPersist, KillOrphans, SweepDeltas,
        LastPersist, GoBad, diskVars, ledgerVars, heldVars, storeVars, procVars, bootVars, history,
        Begins, Goes, BootPersist

\* The commit of a resume uses the delta it was parked in.
LEMMA NobodysCommit ==
    ASSUME Typed, Booting, MintedLedger, Steady, Apart, Unparked, Nobodys,
           NEW p \in Procs, CloneCommit(p), Resumed(p)'
    PROVE  Nobodys'
<1> USE NotFence DEF Typed, TypeOK, LedgerType, ProcType, Verbs, Nobodys
<1>1. pc[p] = "commit" /\ op[p] = "clone" /\ on[p] \in Grants /\ UNCHANGED <<kept, consumed>>
    BY DEF CloneCommit, heldVars
<1>2. \A q \in Procs : q # p => /\ pc'[q] = pc[q] /\ op'[q] = op[q]
                                /\ fib'[q] = fib[q] /\ ref'[q] = ref[q]
    BY DEF CloneCommit, Goes, Returns
<1>3. /\ \A h \in Grants : sessions'[h].fence \in {sessions[h].fence, fib[p]}
      /\ \A h \in Grants : sessions'[h].st = "parked" => sessions'[h] = sessions[h]
    BY <1>1 DEF CloneCommit, Session
<1>4. pc'[p] \in {"ask", "idle"}
    BY DEF CloneCommit, Goes, Returns
<1>5. /\ ref[p] # NoFence /\ ref' = ref
      /\ sessions' = [sessions EXCEPT ![on[p]] = Session("running", fib[p], ref[p])]
    BY <1>1 DEF CloneCommit, Returns, Goes, Resumed
<1>6. sessions[on[p]] = Parked(ref[p])
    BY <1>1, <1>5 DEF Steady
<1>7. sessions[on[p]].delta = ref[p]
    BY <1>6 DEF Parked, Session
<1>8. ~InUse(ref[p]) /\ \A q \in Procs : pc[q] = "restore" => ref[q] # ref[p]
    BY <1>1, <1>5, <1>7 DEF Unparked, Apart
<1>9. \A h \in Grants : /\ sessions'[h].st = "parked" => sessions'[h].delta # ref[p]
                        /\ kept[h].delta # ref[p]
    BY <1>1, <1>5, <1>7, ByGrant DEF Session, Apart
<1>10. Used' \subseteq Used \cup {ref[p]}
    BY <1>1, <1>2, <1>5 DEF Used, Resumed
<1>11. \A h \in Grants : sessions'[h].fence # ref[p]
    BY <1>1, <1>3, <1>8 DEF InUse
<1>12. \A q \in Procs : pc'[q] \in {"birth", "commit", "park", "parked"} => fib'[q] # ref[p]
    BY <1>2, <1>4, <1>8 DEF InUse
<1> QED
    BY <1>1, <1>2, <1>3, <1>4, <1>8, <1>9, <1>10, <1>11, <1>12

\* A used delta stays nobody's.
LEMMA NobodysStep ==
    Typed /\ Booting /\ Epochs /\ MintedPast /\ MintedLedger /\ MintedHands /\ Keeps /\ Steady /\ Apart
      /\ Unparked /\ Unnamed /\ Nobodys /\ [Next]_vars => Nobodys'
<1> SUFFICES ASSUME Typed, Booting, Epochs, MintedPast, MintedLedger, MintedHands, Keeps, Steady, Apart,
                    Unparked, Unnamed, Nobodys, [Next]_vars
             PROVE  Nobodys'
    OBVIOUS
<1>1. CASE Used' \subseteq Used
    BY <1>1, NobodysKept
<1>2. ASSUME NEW p \in Procs, CloneCommit(p) PROVE Nobodys'
  <2>1. CASE Resumed(p)'
    BY <1>2, <2>1, NobodysCommit
  <2>2. CASE ~Resumed(p)'
    <3>1. /\ consumed' = consumed
          /\ \A q \in Procs : q # p => pc'[q] = pc[q] /\ op'[q] = op[q] /\ ref'[q] = ref[q]
      BY <1>2 DEF CloneCommit, Goes, Returns, Typed, TypeOK, ProcType
    <3>2. Used' \subseteq Used
      BY <2>2, <3>1, UsedFewer DEF Used, Resumed
    <3> QED
      BY <3>2, NobodysKept
  <2> QED
    BY <2>1, <2>2
<1> QED
    BY <1>1, <1>2, UsedStep

\* A snapshot taken after a resume committed does not name the delta, and neither
\* does the file once such a snapshot is written.
LEMMA UnnamedStep == Typed /\ Booting /\ Turns /\ Nobodys /\ Unnamed /\ [Next]_vars => Unnamed'
<1> SUFFICES ASSUME Typed, Booting, Turns, Nobodys, Unnamed, [Next]_vars PROVE Unnamed'
    OBVIOUS
<1> USE ConstAssumption, NotFence DEF Typed, TypeOK, StoreType, ProcType, Verbs, Unnamed, NoneIn,
        Resumed, InImage, InFile, diskVars, ledgerVars, heldVars, storeVars, procVars, bootVars,
        history
<1>1. CASE OpenEpochStore
    BY <1>1, WroteIs DEF OpenEpochStore, NextEpoch, OkIf, Works, Fails, Booting
<1>2. CASE Load
    BY <1>2 DEF Load, Booting
<1>3. ASSUME NEW g \in Grants, ReconcileGrant(g) PROVE Unnamed'
    BY <1>3 DEF ReconcileGrant
<1>4. CASE AdmitPersist
  <2>1. /\ status # "serving" /\ turn = NoProc /\ UNCHANGED <<image, consumed, snap, turn, pc, op, ref, ticket, covered>>
        /\ \A q \in Procs : pc[q] = "idle"
    BY <1>4 DEF AdmitPersist, BootPersist, Booting
  <2>2. file' \in {file, WithHeld(LedgerSnapshot)}
    BY <1>4, WroteIs DEF AdmitPersist, BootPersist
  <2>3. \A d \in consumed, g \in Grants :
            WithHeld(LedgerSnapshot).sess[g].st = "parked" => WithHeld(LedgerSnapshot).sess[g].delta # d
    BY DEF WithHeld, LedgerSnapshot, Nobodys, Used, LedgerType
  <2>4. \A d \in consumed, g \in Grants : file' # Torn /\ file'.sess[g].st = "parked" => file'.sess[g].delta # d
    BY <2>2, <2>3
  <2> QED
    BY <2>1, <2>4
<1>5. CASE ReconcileSessions
    BY <1>5 DEF ReconcileSessions, Usable, SnapSession, Parked, Session, NoSession
<1>6. CASE KillOrphans
    BY <1>6 DEF KillOrphans, Orphans, Spent, SnapSession, OkIf, Works, Fails
<1>7. CASE SweepDeltas
    BY <1>7 DEF SweepDeltas, OkIf, Works, Fails
<1>8. CASE LastPersist
  <2>1. /\ status # "serving" /\ turn = NoProc /\ UNCHANGED <<image, consumed, snap, turn, pc, op, ref, ticket, covered>>
        /\ \A q \in Procs : pc[q] = "idle"
    BY <1>8 DEF LastPersist, BootPersist, Booting
  <2>2. file' \in {file, WithHeld(LedgerSnapshot)}
    BY <1>8, WroteIs DEF LastPersist, BootPersist
  <2>3. \A d \in consumed, g \in Grants :
            WithHeld(LedgerSnapshot).sess[g].st = "parked" => WithHeld(LedgerSnapshot).sess[g].delta # d
    BY DEF WithHeld, LedgerSnapshot, Nobodys, Used, LedgerType
  <2>4. \A d \in consumed, g \in Grants : file' # Torn /\ file'.sess[g].st = "parked" => file'.sess[g].delta # d
    BY <2>2, <2>3
  <2> QED
    BY <2>1, <2>4
<1>9. CASE Stop
    BY <1>9 DEF Stop, Empty, NoSession, Session
<1>10. CASE GoBad
    BY <1>10 DEF GoBad, Fails
<1>11. ASSUME NEW p \in Procs, BeginBump(p) PROVE Unnamed'
    BY <1>11 DEF BeginBump, Begins
<1>12. ASSUME NEW p \in Procs, Bump(p) PROVE Unnamed'
    BY <1>12, WroteIs DEF Bump, OkIf, Works, Fails, Goes, Returns
<1>13. ASSUME NEW p \in Procs, MoveEpoch(p) PROVE Unnamed'
    BY <1>13 DEF MoveEpoch, Goes
<1>14. ASSUME NEW p \in Procs, Sweep(p) PROVE Unnamed'
    BY <1>14 DEF Sweep, Sweepable, Swept, Goes, NoSession, Session
<1>15. ASSUME NEW p \in Procs, DiscardDelta(p) PROVE Unnamed'
    BY <1>15 DEF DiscardDelta, Works, Fails, Goes, Returns
<1>16. ASSUME NEW p \in Procs, NEW g \in Grants, CloneResolve(p, g) PROVE Unnamed'
    BY <1>16 DEF CloneResolve, Begins, Hold
<1>17. ASSUME NEW p \in Procs, CloneBirth(p) PROVE Unnamed'
    BY <1>17 DEF CloneBirth, Works, Fails, Goes, Returns
<1>18. ASSUME NEW p \in Procs, CloneCommit(p) PROVE Unnamed'
    BY <1>18 DEF CloneCommit, Goes, Returns, Session
<1>19. ASSUME NEW p \in Procs, NEW g \in Grants, BeginPark(p, g) PROVE Unnamed'
    BY <1>19 DEF BeginPark, Begins, Hold
<1>20. ASSUME NEW p \in Procs, RuntimePark(p) PROVE Unnamed'
    BY <1>20 DEF RuntimePark, OkIf, Works, Fails, Goes, Returns
<1>21. ASSUME NEW p \in Procs, OnPark(p) PROVE Unnamed'
    BY <1>21 DEF OnPark, Goes, Parked, Session
<1>22. ASSUME NEW p \in Procs, NEW g \in Grants, NEW drop \in BOOLEAN, End(p, g, drop) PROVE Unnamed'
  <2>1. CASE drop /\ sessions[g].delta # NoFence
    BY <1>22, <2>1 DEF End, Begins
  <2>2. CASE ~(drop /\ sessions[g].delta # NoFence)
    BY <1>22, <2>2 DEF End
  <2> QED
    BY <2>1, <2>2
<1>23. ASSUME NEW p \in Procs, NEW g \in Grants, Discard(p, g) PROVE Unnamed'
    BY <1>23 DEF Discard, Begins, Hold
<1>24. ASSUME NEW p \in Procs, ForgetSession(p) PROVE Unnamed'
    BY <1>24 DEF ForgetSession, Goes, NoSession, Session
<1>25. ASSUME NEW p \in Procs, NEW g \in Grants, Yield(p, g) PROVE Unnamed'
    BY <1>25 DEF Yield, Begins
<1>26. ASSUME NEW p \in Procs, NEW g \in Grants, Admit(p, g) PROVE Unnamed'
    BY <1>26 DEF Admit, Begins
<1>27. ASSUME NEW p \in Procs, TakeHeld(p) PROVE Unnamed'
    BY <1>27 DEF TakeHeld, Goes, NoSession, Session
<1>28. ASSUME NEW p \in Procs, RestoreParked(p) PROVE Unnamed'
    BY <1>28 DEF RestoreParked, Goes, Parked, NoSession, Session
<1>29. ASSUME NEW p \in Procs, Ask(p) PROVE Unnamed'
    BY <1>29 DEF Ask, Goes, Turns
<1>30. ASSUME NEW p \in Procs, Share(p) PROVE Unnamed'
  <2>1. /\ \A q \in Procs : q # p => /\ pc'[q] = pc[q] /\ op'[q] = op[q] /\ ref'[q] = ref[q]
                                     /\ ticket'[q] = ticket[q]
        /\ pc'[p] = "idle"
    BY <1>30 DEF Share, Answers, Returns
  <2>2. /\ pc[p] = "wait" /\ turn = NoProc /\ covered >= ticket[p]
        /\ UNCHANGED <<file, image, snap, status, covered, turn, lastErr>>
        /\ consumed' = IF op[p] = "clone" /\ ~lastErr THEN consumed \cup {ref[p]} ELSE consumed
    BY <1>30 DEF Share, Answers, Covers
  <2>3. \A g \in Grants : image.sess[g].st # "parked"
    BY <2>2 DEF Turns, Empty, NoSession, Session
  <2>4. status = "serving"
    BY <2>2 DEF Booting
  <2>5. \A d \in consumed', g \in Grants : file # Torn /\ file.sess[g].st = "parked" => file.sess[g].delta # d
    BY <2>2
  <2> QED
    BY <2>1, <2>2, <2>3, <2>4, <2>5
<1>31. ASSUME NEW p \in Procs, TakeTurn(p) PROVE Unnamed'
  <2>1. /\ turn' = p /\ image'.sess = sessions /\ UNCHANGED <<file, snap, status, consumed, lastErr, op, ref, ticket>>
        /\ pc' = [pc EXCEPT ![p] = "merge"] /\ pc[p] = "wait"
    BY <1>31 DEF TakeTurn, Goes, LedgerSnapshot
  <2>2. \A d \in Used, g \in Grants : sessions[g].st = "parked" => sessions[g].delta # d
    BY DEF Nobodys
  <2>3. consumed \subseteq Used /\ \A q \in Procs : Resumed(q)' => ref[q] \in Used
    BY <2>1 DEF Used
  <2> QED
    BY <2>1, <2>2, <2>3
<1>32. ASSUME NEW p \in Procs, MergeHeld(p) PROVE Unnamed'
  <2>1. /\ UNCHANGED <<turn, covered, file, snap, status, consumed, lastErr, op, ref, ticket>>
        /\ pc' = [pc EXCEPT ![p] = "write"] /\ pc[p] = "merge"
        /\ \A g \in Grants : image'.sess[g] \in {kept[g], image.sess[g]}
    BY <1>32 DEF MergeHeld, Goes, WithHeld
  <2>2. \A d \in Used, g \in Grants : kept[g].st = "parked" => kept[g].delta # d
    BY DEF Nobodys
  <2>3. consumed \subseteq Used /\ \A q \in Procs : Resumed(q)' => Resumed(q) /\ ref[q] \in Used
    BY <2>1 DEF Used
  <2> QED
    BY <2>1, <2>2, <2>3
<1>33. ASSUME NEW p \in Procs, Write(p) PROVE Unnamed'
  <2>1. /\ \A q \in Procs : q # p => /\ pc'[q] = pc[q] /\ op'[q] = op[q] /\ ref'[q] = ref[q]
                                     /\ ticket'[q] = ticket[q]
        /\ pc'[p] = "idle"
    BY <1>33 DEF Write, Answers, Returns
  <2>2. /\ pc[p] = "write" /\ turn = p /\ turn' = NoProc /\ image' = Empty
        /\ UNCHANGED <<snap, status, covered>> /\ status = "serving"
    BY <1>33 DEF Write, Booting, Turns
  <2>3. /\ \/ ~lastErr' /\ file' = image
           \/ lastErr' /\ file' \in {file, image}
        /\ consumed' = IF op[p] = "clone" /\ ~lastErr' THEN consumed \cup {ref[p]} ELSE consumed
    <3>1. PICK w \in Wrote(file, image) : file' = w[1] /\ lastErr' = ~w[2] /\ Answers(p, ~w[2])
      BY <1>33 DEF Write
    <3>2. CASE w[2] = TRUE /\ w[1] = image
      BY <3>1, <3>2 DEF Answers
    <3>3. CASE w[2] = FALSE /\ w[1] \in {file, image}
      BY <3>1, <3>3 DEF Answers
    <3>4. (w[2] = TRUE /\ w[1] = image) \/ (w[2] = FALSE /\ w[1] \in {file, image})
      BY <3>1, WroteIs, Zenon
    <3> QED
      BY <3>2, <3>3, <3>4
  <2>4. \A d \in consumed', g \in Grants : file' # Torn /\ file'.sess[g].st = "parked" => file'.sess[g].delta # d
    BY <2>2, <2>3
  <2>5. \A g \in Grants : image'.sess[g].st # "parked"
    BY <2>2 DEF Empty, NoSession, Session
  <2>6. \A q \in Procs : Resumed(q)' /\ InFile(q)' => Resumed(q) /\ InImage(q) /\ ref'[q] = ref[q] /\ file' = image
    BY <2>1, <2>2, <2>3
  <2>7. \A q \in Procs : ~InImage(q)'
    BY <2>1, <2>2 DEF Turns
  <2> QED
    BY <2>2, <2>4, <2>5, <2>6, <2>7
<1>34. CASE UNCHANGED <<image, file, snap, status, consumed, covered, turn, lastErr, pc, op, ref, ticket>>
    BY <1>34
<1> HIDE DEF Typed, TypeOK, StoreType, ProcType, Verbs, Unnamed, NoneIn, Resumed, InImage, InFile,
    diskVars, ledgerVars, heldVars, storeVars, procVars, bootVars, history
<1> QED
    BY <1>1, <1>2, <1>3, <1>4, <1>5, <1>6, <1>7, <1>8, <1>9, <1>10, <1>11, <1>12, <1>13, <1>14,
        <1>15, <1>16, <1>17, <1>18, <1>19, <1>20, <1>21, <1>22, <1>23, <1>24, <1>25, <1>26, <1>27,
        <1>28, <1>29, <1>30, <1>31, <1>32, <1>33, <1>34 DEF Next, vars, diskVars, ledgerVars,
        heldVars, storeVars, procVars, bootVars, history, Begins, Goes

(***************************************************************************)
(* The theorems.                                                           *)
(***************************************************************************)

IInv ==
    /\ Typed /\ Booting /\ Epochs
    /\ MintedPast /\ MintedLedger /\ MintedImages /\ MintedHands
    /\ Keeps /\ Gates /\ Steady /\ Processes
    /\ Apart /\ Unparked /\ Loaded /\ OnDisk
    /\ Turns /\ Nobodys /\ Unnamed

\* The first start of fiberd satisfies every part of the invariant.
LEMMA IInvInit == Init => IInv
<1> SUFFICES ASSUME Init PROVE IInv
    OBVIOUS
<1> USE ConstAssumption, NotFence DEF Init, Forgotten
<1>1. Typed
  <2>1. DiskType /\ LedgerType /\ StoreType
    BY NoSessionType DEF DiskType, LedgerType, StoreType
  <2>2. ProcType /\ BootType /\ HistoryType
    BY NoSessionType DEF ProcType, BootType, HistoryType
  <2>3. Verbs /\ Sess
    BY DEF Verbs, Sess, Formed, Empty, NoSession, Session
  <2> QED
    BY <2>1, <2>2, <2>3 DEF Typed, TypeOK
<1>2. \A g \in Grants : /\ sessions[g] = NoSession /\ kept[g] = NoSession
                        /\ file.sess[g] = NoSession /\ image.sess[g] = NoSession /\ snap.sess[g] = NoSession
    BY DEF Empty
<1>3. NoSession.st = "none" /\ NoSession.fence = NoFence /\ NoSession.delta = NoFence
    BY DEF NoSession, Session
<1>4. Booting /\ Epochs
    BY <1>2 DEF Booting, Epochs
<1>5. MintedPast
    BY DEF MintedPast, Minted, Fences
<1>6. MintedLedger /\ MintedImages /\ MintedHands
    BY <1>2, <1>3 DEF MintedLedger, MintedImages, MintedHands, Theirs, Its
<1>7. Keeps /\ Gates /\ Steady /\ Processes
    BY <1>2, <1>3 DEF Keeps, Gates, Steady, Processes
<1>8. Apart /\ Unparked /\ Loaded /\ OnDisk
    BY <1>2, <1>3 DEF Apart, Unparked, Loaded, OnDisk, Drops
<1>9. Turns /\ Used = {}
    BY DEF Turns, Used, Resumed
<1>10. Nobodys /\ Unnamed
    BY <1>9 DEF Nobodys, Unnamed, Resumed
<1> QED
    BY <1>1, <1>4, <1>5, <1>6, <1>7, <1>8, <1>9, <1>10 DEF IInv

\* Every step of the boot, of a goroutine and every crash keeps the invariant.
LEMMA IInvStep == IInv /\ [Next]_vars => IInv'
    BY TypedStep, BootingStep, EpochsStep, MintedPastStep, MintedLedgerStep, MintedImagesStep,
       MintedHandsStep, KeepsStep, GatesStep, SteadyStep, ProcessesStep, ApartStep, UnparkedStep,
       LoadedStep, OnDiskStep, TurnsStep, NobodysStep, UnnamedStep DEF IInv

\* The invariant holds in every state fiberd reaches.
THEOREM RestartInvariant == Spec => []IInv
    BY IInvInit, IInvStep, PTL DEF Spec

\* Every variable keeps its type, across crashes and restarts.
THEOREM RestartTypeOK == Spec => []TypeOK
<1>1. IInv => TypeOK
    BY DEF IInv, Typed
<1> QED
    BY RestartInvariant, <1>1, PTL

\* A delta whose resume was answered and written is never resumed again, not
\* by a Clone, an admission or a restart after a crash at any step (Clone's
\* persist; SnapshotStore.Persist; Reconcile).
THEOREM RestartNoneResumedTwice == Spec => []NoneResumedTwice
<1>1. IInv => NoneResumedTwice
  <2> SUFFICES ASSUME IInv, NEW g \in Grants
               PROVE  /\ sessions[g].st = "parked" => sessions[g].delta \notin consumed
                      /\ kept[g].delta \notin consumed
                      /\ file # Torn /\ file.sess[g].st = "parked" => file.sess[g].delta \notin consumed
    BY DEF NoneResumedTwice
  <2>1. consumed \subseteq Used /\ consumed \subseteq Fences
    BY DEF IInv, Typed, TypeOK, HistoryType, Used
  <2>2. sessions[g].st = "parked" => sessions[g].delta \notin consumed
    BY <2>1 DEF IInv, Nobodys
  <2>3. kept[g].delta \notin consumed
    <3>1. CASE kept[g] = NoSession
      BY <2>1, <3>1, NotFence DEF NoSession, Session
    <3>2. CASE kept[g] # NoSession
      BY <2>1, <3>2 DEF IInv, Keeps, Nobodys
    <3> QED
      BY <3>1, <3>2
  <2>4. file # Torn /\ file.sess[g].st = "parked" => file.sess[g].delta \notin consumed
    BY DEF IInv, Unnamed, NoneIn
  <2> QED
    BY <2>2, <2>3, <2>4
<1> QED
    BY RestartInvariant, <1>1, PTL

\* The delta of a parked or held session is on disk (discardDelta, sweepDeltas,
\* OnPark, Reconcile).
THEOREM RestartKeptHaveDelta == Spec => []KeptHaveDelta
<1>1. IInv => KeptHaveDelta
    BY DEF IInv, OnDisk, Gates, KeptHaveDelta
<1> QED
    BY RestartInvariant, <1>1, PTL

\* Once fiberd serves, every process is a session's, in a goroutine's hands or
\* one that boot could not kill (Reconcile, KillOrphans).
THEOREM RestartOrphansGo == Spec => []OrphansGo
<1>1. IInv => OrphansGo
    BY DEF IInv, Processes, OrphansGo
<1> QED
    BY RestartInvariant, <1>1, PTL

\* A fence minted for a grant is newer than all that were minted for it before,
\* across bumps, crashes and an epoch file that does not read (OpenEpochStore,
\* Bump, nextSeq).
THEOREM RestartFencesAscend == Spec => FencesAscend
<1> DEFINE Ascend == \A g \in Grants : seq'[g] > seq[g] =>
                        \/ last'[g][1] > last[g][1]
                        \/ last'[g][1] = last[g][1] /\ last'[g][2] > last[g][2]
<1>1. IInv /\ [Next]_vars => [Ascend]_vars
  <2> SUFFICES ASSUME IInv, [Next]_vars, NEW g \in Grants, seq'[g] > seq[g]
               PROVE  \/ last'[g][1] > last[g][1]
                      \/ last'[g][1] = last[g][1] /\ last'[g][2] > last[g][2]
    OBVIOUS
  <2>1. seq \in [Grants -> Nat] /\ current \in Nat /\ last \in [Grants -> Nat \X Nat]
    BY DEF IInv, Typed, TypeOK, LedgerType, HistoryType
  <2>2. seq' # seq /\ (seq' = [h \in Grants |-> 0] => FALSE)
    BY <2>1
  <2>3. PICK p \in Procs, h \in Grants : CloneResolve(p, h)
    BY <2>2 DEF Next, vars, diskVars, ledgerVars, heldVars, storeVars, procVars, bootVars, history,
        OpenEpochStore, Load, ReconcileGrant, AdmitPersist, LastPersist, BootPersist,
        ReconcileSessions, KillOrphans, SweepDeltas, Stop, GoBad, BeginBump, Bump, MoveEpoch, Sweep,
        DiscardDelta, CloneBirth, CloneCommit, BeginPark, RuntimePark, OnPark, End, Discard,
        ForgetSession, Yield, Admit, TakeHeld, RestoreParked, Ask, Share, TakeTurn, MergeHeld, Write
  <2>4. /\ seq' = [seq EXCEPT ![h] = @ + 1] /\ last' = [last EXCEPT ![h] = <<current, seq[h] + 1>>]
        /\ status = "serving"
    BY <2>3 DEF CloneResolve, Begins
  <2>5. h = g
    BY <2>1, <2>4
  <2>6. last'[g] = <<current, seq[g] + 1>>
    BY <2>1, <2>4, <2>5
  <2>7. <<g, last[g][1], last[g][2]>> \in Minted
    BY DEF IInv, MintedPast
  <2>8. last[g][1] < current \/ (last[g][1] = current /\ last[g][2] <= seq[g])
    BY <2>4, <2>7 DEF Minted
  <2> QED
    BY <2>1, <2>6, <2>8
<1> QED
    BY RestartInvariant, <1>1, PTL DEF Spec, FencesAscend

(***************************************************************************)
(* An answered park is durable.                                            *)
(***************************************************************************)

\* A snapshot names the grant and its session parked in d.
Names(img, g, d) == img # Torn /\ g \in img.grants /\ img.sess[g] = Parked(d)

\* A session whose park was answered and written, through no boot or admission
\* that was cut short.
Safe(g) == acked[g] # NoFence /\ g \notin cut

\* An admission of g that no snapshot taken so far covers.
Uncovered(g) ==
    \E p \in Procs : /\ op[p] = "admit" /\ on[p] = g
                     /\ pc[p] \in {"take", "restore", "ask"} \/ (pc[p] = "wait" /\ covered < ticket[p])

\* Where fiberd has a safe session in memory: in the ledger, held with its grant
\* since boot, or in the hands of the admission that restores it.
InLedger(g) == g \in grants /\ sessions[g] = Parked(acked[g])
IsHeld(g) ==
    g \in held /\ kept[g] = Parked(acked[g]) /\ sessions[g] = NoSession
Restoring(g) ==
    /\ sessions[g] = NoSession
    /\ \E p \in Procs : op[p] = "admit" /\ on[p] = g /\ pc[p] = "restore" /\ ref[p] = acked[g]

InMemory ==
    \A g \in Grants : Safe(g) /\ status \in {"list", "sweep", "persist", "serving"} =>
       \/ InLedger(g)
       \/ IsHeld(g) /\ (g \notin grants \/ \E p \in Procs : op[p] = "admit" /\ on[p] = g /\ pc[p] = "take")
       \/ Restoring(g)

\* The file names it but while its grant is admitted again or a boot is under way.
InTheFile ==
    \A g \in Grants : Safe(g) /\ (status \in {"down", "load"} \/ (status = "serving" /\ ~Admitting(g))) =>
       Names(file, g, acked[g])

\* Boot has read it from the file, and has not lost it on the way to the ledger.
InBoot ==
    \A g \in Grants : Safe(g) /\ status \in {"down", "load", "admit", "admit-persist"} =>
       /\ acked[g] \in deltas
       /\ status \in {"admit", "admit-persist"} =>
             Names(snap, g, acked[g]) /\ g \in todo \cup grants \cup held

\* So does a snapshot under way, or it will once what boot held is added.
InTheImage ==
    \A g \in Grants, p \in Procs : Safe(g) /\ ~Admitting(g) =>
       /\ pc[p] = "merge" => \/ Names(image, g, acked[g])
                             \/ IsHeld(g) /\ g \notin image.grants /\ image.sess[g] = NoSession
       /\ pc[p] = "write" => Names(image, g, acked[g])

\* An admission past its restore has the session in the ledger, and the snapshot
\* that covers it names it.
Admits ==
    /\ \A p, q \in Procs : op[p] = "admit" /\ op[q] = "admit" /\ on[p] = on[q] => p = q
    /\ \A p \in Procs : op[p] = "admit" /\ Safe(on[p]) =>
          /\ on[p] \in grants
          /\ pc[p] \in {"ask", "wait", "merge", "write"} => InLedger(on[p])
          /\ InImage(p) => Names(image, on[p], acked[on[p]])
          /\ InFile(p) => Names(file, on[p], acked[on[p]])

\* A park past OnPark has its session in the ledger, and the snapshot that covers
\* it names the session, with its grant if that is not admitted anew.
Parks ==
    \A p \in Procs :
       op[p] = "park" /\ pc[p] \in {"drop", "ask", "wait", "merge", "write"} /\ fib[p] # NoFence =>
          /\ sessions[on[p]] = Parked(fib[p])
          /\ InImage(p) =>
                /\ image.sess[on[p]] = Parked(fib[p])
                /\ on[p] \in grants /\ p \notin stale => on[p] \in image.grants \/ Uncovered(on[p])
          /\ InFile(p) =>
                /\ file # Torn /\ file.sess[on[p]] = Parked(fib[p])
                /\ on[p] \in grants /\ p \notin stale => on[p] \in file.grants \/ Uncovered(on[p])

\* A session being discarded is no longer promised.
Discards ==
    \A p \in Procs : op[p] = "discard" /\ pc[p] \in {"drop", "forget"} => acked[on[p]] = NoFence

Durable == InMemory /\ InTheFile /\ InBoot /\ InTheImage /\ Admits /\ Parks /\ Discards

\* What a goroutine does and has in hand stays as it is.
SameProc(q) ==
    /\ pc'[q] = pc[q] /\ op'[q] = op[q] /\ on'[q] = on[q]
    /\ fib'[q] = fib[q] /\ ref'[q] = ref[q] /\ ticket'[q] = ticket[q]

\* A parked session is neither running nor none.
LEMMA ParkedIsNot ==
    /\ NoSession.st = "none"
    /\ \A d : Parked(d).st = "parked" /\ Parked(d).delta = d /\ Parked(d) # NoSession
<1>1. NoSession.st = "none" /\ \A d : Parked(d).st = "parked" /\ Parked(d).delta = d
    BY DEF NoSession, Parked, Session
<1> QED
    BY <1>1

\* While no goroutine serves a call, none has a snapshot to take or to answer.
LEMMA IdleDurable ==
    ASSUME \A p \in Procs : pc[p] = "idle" /\ op[p] = "none"
    PROVE  InTheImage /\ Admits /\ Parks /\ Discards
BY DEF InTheImage, Admits, Parks, Discards

\* A step of a goroutine that takes part neither in an admission nor in a
\* snapshot: what it makes of the ledger concerns running sessions, or sessions
\* no longer promised that no other goroutine is parking.
Aside(p) ==
    /\ status = "serving" /\ status' = "serving"
    /\ UNCHANGED <<file, held, kept, turn, image, covered, lastErr>>
    /\ \A g \in Grants : Safe(g)' => Safe(g) /\ acked'[g] = acked[g] /\ (g \in grants' <=> g \in grants)
    /\ \A g \in Grants : acked[g] = NoFence => acked'[g] = NoFence
    /\ \A g \in Grants : \/ sessions'[g] = sessions[g]
                         \/ sessions[g].st = "running"
                         \/ ~Safe(g)' /\ \A q \in Procs \ {p} : op[q] = "park" => on[q] # g
    /\ \A q \in Procs \ {p} : SameProc(q)
    /\ \A q \in Procs \ {p} : on[q] \in grants' /\ q \notin stale' => on[q] \in grants /\ q \notin stale
    /\ op[p] # "admit" /\ op'[p] # "admit" /\ pc'[p] \notin {"wait", "merge", "write"}
    /\ op'[p] = "park" /\ pc'[p] \in {"drop", "ask"} /\ fib'[p] # NoFence =>
          sessions'[on'[p]] = Parked(fib'[p])
    /\ op'[p] = "discard" /\ pc'[p] \in {"drop", "forget"} => acked'[on'[p]] = NoFence

\* Such a step keeps what was promised.
LEMMA AsideDurable ==
    ASSUME Durable, Verbs, NEW p \in Procs, Aside(p) PROVE Durable'
<1> USE DEF Durable, Aside
<1>0. \A q \in Procs : op[q] \notin {"none", "bump"} => on[q] \in Grants
    BY DEF Verbs
<1>1. \A g : (Admitting(g)' <=> Admitting(g)) /\ (Uncovered(g)' <=> Uncovered(g))
    BY DEF Admitting, Uncovered, SameProc
<1>2. \A g \in Grants : Safe(g)' => sessions'[g] = sessions[g]
  <2> SUFFICES ASSUME NEW g \in Grants, Safe(g)', sessions[g].st = "running" PROVE FALSE
      OBVIOUS
  <2>1. sessions[g] = Parked(acked[g]) \/ sessions[g] = NoSession
      BY DEF InMemory, InLedger, IsHeld, Restoring
  <2> QED
      BY <2>1, ParkedIsNot
<1>3. \A g \in Grants : Safe(g)' /\ InLedger(g) => InLedger(g)'
    BY <1>2 DEF InLedger
<1>4. \A g \in Grants : Safe(g)' /\ IsHeld(g) => IsHeld(g)'
    BY <1>2 DEF IsHeld
<1>5. \A g \in Grants : Safe(g)' /\ Restoring(g) => Restoring(g)'
    BY <1>2 DEF Restoring, SameProc
<1>6. InMemory'
  <2>1. \A g : (\E q \in Procs : op[q] = "admit" /\ on[q] = g /\ pc[q] = "take")
               => (\E q \in Procs : op'[q] = "admit" /\ on'[q] = g /\ pc'[q] = "take")
      BY DEF SameProc
  <2> QED
      BY <1>3, <1>4, <1>5, <2>1 DEF InMemory
<1>7. InTheFile' /\ InBoot'
    BY <1>1 DEF InTheFile, InBoot, Names
<1>8. InTheImage'
    BY <1>1, <1>4 DEF InTheImage, Names, SameProc
<1>9. Admits'
    BY <1>0, <1>3 DEF Admits, Names, InImage, InFile, SameProc
<1>10. Parks'
  <2> SUFFICES ASSUME NEW q \in Procs \ {p}, op[q] = "park",
                      pc[q] \in {"drop", "ask", "wait", "merge", "write"}, fib[q] # NoFence
               PROVE  /\ sessions'[on[q]] = Parked(fib[q])
                      /\ InImage(q) =>
                            /\ image.sess[on[q]] = Parked(fib[q])
                            /\ on[q] \in grants' /\ q \notin stale' => on[q] \in image.grants \/ Uncovered(on[q])
                      /\ InFile(q) =>
                            /\ file # Torn /\ file.sess[on[q]] = Parked(fib[q])
                            /\ on[q] \in grants' /\ q \notin stale' => on[q] \in file.grants \/ Uncovered(on[q])
      BY <1>1 DEF Parks, InImage, InFile, SameProc
  <2>1. sessions'[on[q]] = Parked(fib[q])
      BY <1>0, ParkedIsNot DEF Parks
  <2> QED
      BY <2>1 DEF Parks
<1>11. Discards'
    BY <1>0 DEF Discards, SameProc
<1> QED
    BY <1>6, <1>7, <1>8, <1>9, <1>10, <1>11

\* A goroutine is at work only while fiberd serves.
LEMMA AtWork ==
    ASSUME IInv, NEW p \in Procs, pc[p] # "idle"
    PROVE  status = "serving"
BY DEF IInv, Booting

\* The steps of an epoch bump and the sweeps keep what was promised: they end
\* running sessions only.
LEMMA BumpDurable ==
    ASSUME IInv, Durable, NEW p \in Procs, BeginBump(p) \/ Bump(p) \/ MoveEpoch(p) \/ Sweep(p)
    PROVE  Durable'
<1> USE DEF Aside, SameProc, Safe, diskVars, ledgerVars, heldVars, storeVars, procVars, bootVars, history
<1>1. Typed /\ TypeOK /\ Verbs /\ ProcType /\ LedgerType
    BY DEF IInv, Typed, TypeOK
<1>2. CASE BeginBump(p)
  <2>1. Aside(p)
    BY <1>1, <1>2 DEF BeginBump, Begins, Verbs, ProcType
  <2> QED
    BY <1>1, <2>1, AsideDurable
<1>3. CASE Bump(p)
  <2>0. status = "serving" /\ op[p] = "bump"
    BY <1>1, <1>3, AtWork DEF Bump, Verbs
  <2>1. Aside(p)
    BY <1>1, <1>3, <2>0 DEF Bump, Goes, Returns, Verbs, ProcType
  <2> QED
    BY <1>1, <2>1, AsideDurable
<1>4. CASE MoveEpoch(p)
  <2>0. status = "serving" /\ op[p] = "bump"
    BY <1>1, <1>4, AtWork DEF MoveEpoch, Goes, Verbs
  <2>1. Aside(p)
    BY <1>1, <1>4, <2>0 DEF MoveEpoch, Goes, Verbs, ProcType
  <2> QED
    BY <1>1, <2>1, AsideDurable
<1>5. CASE Sweep(p)
  <2>0. status = "serving" /\ op[p] \in {"bump", "yield"}
    BY <1>1, <1>5, AtWork DEF Sweep, Verbs
  <2>1. \A g \in Grants : sessions'[g] = sessions[g] \/ sessions[g].st = "running"
    BY <1>1, <1>5 DEF Sweep, Sweepable, Swept, LedgerType
  <2>2. Aside(p)
    BY <1>1, <1>5, <2>0, <2>1 DEF Sweep, Swept, Goes, Verbs, ProcType
  <2> QED
    BY <1>1, <2>2, AsideDurable
<1> QED
    BY <1>2, <1>3, <1>4, <1>5

\* Clone keeps what was promised: a resume takes the promise with it, and the
\* gate keeps parks of the session out.
LEMMA CloneDurable ==
    ASSUME IInv, Durable, NEW p \in Procs,
           CloneBirth(p) \/ CloneCommit(p) \/ \E g \in Grants : CloneResolve(p, g)
    PROVE  Durable'
<1> USE DEF Aside, SameProc, Safe, diskVars, ledgerVars, heldVars, storeVars, procVars, bootVars, history
<1>1. Typed /\ TypeOK /\ Verbs /\ ProcType /\ LedgerType /\ HistoryType
    BY DEF IInv, Typed, TypeOK
<1>2. ASSUME NEW g \in Grants, CloneResolve(p, g) PROVE Durable'
  <2>1. Aside(p)
    BY <1>1, <1>2 DEF CloneResolve, Begins, Verbs, ProcType
  <2> QED
    BY <1>1, <2>1, AsideDurable
<1>3. CASE CloneBirth(p)
  <2>0. status = "serving" /\ op[p] = "clone"
    BY <1>1, <1>3, AtWork DEF CloneBirth, Verbs
  <2>1. Aside(p)
    BY <1>1, <1>3, <2>0 DEF CloneBirth, Goes, Returns, Verbs, ProcType
  <2> QED
    BY <1>1, <2>1, AsideDurable
<1>4. CASE CloneCommit(p)
  <2>0. status = "serving" /\ op[p] = "clone" /\ on[p] \in Grants
    BY <1>1, <1>4, AtWork DEF CloneCommit, Verbs
  <2>1. \A q \in Procs \ {p} : op[q] = "park" => on[q] # on[p]
    BY <2>0 DEF IInv, Gates
  <2>2. \A g \in Grants : /\ Safe(g)' => Safe(g) /\ acked'[g] = acked[g]
                          /\ acked[g] = NoFence => acked'[g] = NoFence
                          /\ sessions'[g] = sessions[g] \/ (g = on[p] /\ ~Safe(g)')
    <3>1. CASE UNCHANGED <<sessions, acked, cut>>
      BY <3>1
    <3>2. CASE /\ sessions' = [sessions EXCEPT ![on[p]] = Session("running", fib[p], ref[p])]
               /\ acked' = [acked EXCEPT ![on[p]] = NoFence] /\ cut' = cut \ {on[p]}
      BY <1>1, <2>0, <3>2 DEF LedgerType, HistoryType
    <3>3. CASE /\ sessions' = [sessions EXCEPT ![on[p]] = Session("running", fib[p], NoFence)]
               /\ cut' = (IF acked[on[p]] # NoFence THEN cut \cup {on[p]} ELSE cut) /\ acked' = acked
      BY <1>1, <2>0, <3>3 DEF LedgerType, HistoryType
    <3> QED
      BY <1>4, <3>1, <3>2, <3>3 DEF CloneCommit
  <2>3. /\ op'[p] # "admit" /\ pc'[p] \notin {"wait", "merge", "write"} /\ op'[p] \notin {"park", "discard"}
        /\ \A q \in Procs \ {p} : SameProc(q) /\ (q \in stale' <=> q \in stale)
        /\ UNCHANGED <<file, held, kept, turn, image, covered, lastErr, grants, status>>
    BY <1>1, <1>4, <2>0 DEF CloneCommit, Goes, Returns, Verbs, ProcType
  <2>4. Aside(p)
    BY <2>0, <2>1, <2>2, <2>3 DEF SameProc
  <2> QED
    BY <1>1, <2>4, AsideDurable
<1> QED
    BY <1>2, <1>3, <1>4

\* Park keeps what was promised: a running session was promised nothing, and the
\* gate keeps other parks of the session out.
LEMMA ParkDurable ==
    ASSUME IInv, Durable, NEW p \in Procs,
           RuntimePark(p) \/ OnPark(p) \/ DiscardDelta(p) \/ \E g \in Grants : BeginPark(p, g)
    PROVE  Durable'
<1> USE DEF Aside, SameProc, Safe, diskVars, ledgerVars, heldVars, storeVars, procVars, bootVars, history
<1>1. Typed /\ TypeOK /\ Verbs /\ ProcType /\ LedgerType /\ HistoryType
    BY DEF IInv, Typed, TypeOK
<1>2. ASSUME NEW g \in Grants, BeginPark(p, g) PROVE Durable'
  <2>1. Aside(p)
    BY <1>1, <1>2 DEF BeginPark, Begins, Verbs, ProcType
  <2> QED
    BY <1>1, <2>1, AsideDurable
<1>3. CASE RuntimePark(p)
  <2>0. status = "serving" /\ op[p] = "park"
    BY <1>1, <1>3, AtWork DEF RuntimePark, Verbs
  <2>1. Aside(p)
    BY <1>1, <1>3, <2>0 DEF RuntimePark, Goes, Returns, Verbs, ProcType
  <2> QED
    BY <1>1, <2>1, AsideDurable
<1>4. CASE OnPark(p)
  <2>1. status = "serving" /\ op[p] = "park" /\ on[p] \in Grants /\ op' = op /\ on' = on
    BY <1>1, <1>4, AtWork DEF OnPark, Verbs
  <2>2. \A g \in Grants : sessions'[g] = sessions[g] \/ sessions[g].st = "running"
    BY <1>1, <1>4, <2>1 DEF OnPark, LedgerType
  <2>3. fib'[p] # NoFence => sessions'[on[p]] = Parked(fib[p]) /\ fib' = fib
    BY <1>1, <1>4, <2>1 DEF OnPark, LedgerType, ProcType
  <2>4. /\ pc'[p] \notin {"wait", "merge", "write"}
        /\ \A q \in Procs \ {p} : SameProc(q) /\ (q \in stale' <=> q \in stale)
        /\ UNCHANGED <<file, held, kept, turn, image, covered, lastErr, grants, status, acked, cut>>
    BY <1>1, <1>4, <2>1 DEF OnPark, Goes, ProcType
  <2>5. Aside(p)
    BY <2>1, <2>2, <2>3, <2>4
  <2> QED
    BY <1>1, <2>5, AsideDurable
<1>5. CASE DiscardDelta(p)
  <2>1. status = "serving" /\ op[p] \in {"bump", "yield", "park", "discard", "end"}
    BY <1>1, <1>5, AtWork DEF DiscardDelta, Verbs
  <2>2. op[p] = "park" /\ fib[p] # NoFence => sessions[on[p]] = Parked(fib[p])
    BY <1>5 DEF DiscardDelta, Durable, Parks
  <2>3. op[p] = "discard" => acked[on[p]] = NoFence
    BY <1>5 DEF DiscardDelta, Durable, Discards
  <2>4. Aside(p)
    BY <1>1, <1>5, <2>1, <2>2, <2>3 DEF DiscardDelta, Goes, Returns, ProcType
  <2> QED
    BY <1>1, <2>4, AsideDurable
<1> QED
    BY <1>2, <1>3, <1>4, <1>5

\* Release, Discard and Yield keep what was promised, or take the promise back.
LEMMA EndDurable ==
    ASSUME IInv, Durable, NEW p \in Procs,
           \/ ForgetSession(p)
           \/ \E g \in Grants : Discard(p, g) \/ Yield(p, g) \/ \E drop \in BOOLEAN : End(p, g, drop)
    PROVE  Durable'
<1> USE DEF Aside, SameProc, Safe, diskVars, ledgerVars, heldVars, storeVars, procVars, bootVars, history
<1>1. Typed /\ TypeOK /\ Verbs /\ ProcType /\ LedgerType /\ HistoryType
    BY DEF IInv, Typed, TypeOK
<1>2. ASSUME NEW g \in Grants, NEW drop \in BOOLEAN, End(p, g, drop) PROVE Durable'
  <2>1. status = "serving" /\ op[p] = "none"
    BY <1>1, <1>2 DEF End, Begins, Verbs
  <2>2. \A h \in Grants : sessions'[h] = sessions[h] \/ sessions[h].st = "running"
    BY <1>1, <1>2 DEF End, LedgerType
  <2>3. /\ op'[p] \in {"none", "end"} /\ pc'[p] \notin {"wait", "merge", "write"}
        /\ \A q \in Procs \ {p} : SameProc(q)
    <3>1. CASE drop /\ sessions[g].delta # NoFence
      BY <1>1, <1>2, <3>1 DEF End, Begins, ProcType
    <3>2. CASE ~(drop /\ sessions[g].delta # NoFence)
      BY <1>1, <1>2, <2>1, <3>2 DEF End
    <3> QED
      BY <3>1, <3>2
  <2>4. Aside(p)
    BY <1>2, <2>1, <2>2, <2>3 DEF End
  <2> QED
    BY <1>1, <2>4, AsideDurable
<1>3. ASSUME NEW g \in Grants, Discard(p, g) PROVE Durable'
  <2>1. \A h \in Grants : /\ acked[h] = NoFence => acked'[h] = NoFence
                          /\ Safe(h)' => Safe(h) /\ acked'[h] = acked[h]
    BY <1>1, <1>3 DEF Discard, HistoryType
  <2>2. acked'[g] = NoFence
    BY <1>1, <1>3 DEF Discard, HistoryType
  <2>3. Aside(p)
    BY <1>1, <1>3, <2>1, <2>2 DEF Discard, Begins, Verbs, ProcType
  <2> QED
    BY <1>1, <2>3, AsideDurable
<1>4. CASE ForgetSession(p)
  <2>1. status = "serving" /\ op[p] = "discard" /\ on[p] \in Grants /\ acked[on[p]] = NoFence
    BY <1>1, <1>4, AtWork DEF ForgetSession, Goes, Verbs, Durable, Discards
  <2>2. \A q \in Procs \ {p} : op[q] = "park" => on[q] # on[p]
    BY <2>1 DEF IInv, Gates
  <2>3. \A g \in Grants \ {on[p]} : sessions'[g] = sessions[g]
    BY <1>1, <1>4, <2>1 DEF ForgetSession, LedgerType
  <2>4. Aside(p)
    BY <1>1, <1>4, <2>1, <2>2, <2>3 DEF ForgetSession, Goes, ProcType
  <2> QED
    BY <1>1, <2>4, AsideDurable
<1>5. ASSUME NEW g \in Grants, Yield(p, g) PROVE Durable'
  <2>1. \A h \in Grants : /\ acked[h] = NoFence => acked'[h] = NoFence
                          /\ Safe(h)' => Safe(h) /\ acked'[h] = acked[h] /\ h # g
    BY <1>1, <1>5 DEF Yield, HistoryType
  <2>2. Aside(p)
    BY <1>1, <1>5, <2>1 DEF Yield, Begins, Verbs, ProcType
  <2> QED
    BY <1>1, <2>2, AsideDurable
<1> QED
    BY <1>2, <1>3, <1>4, <1>5

\* An admission finds what boot held, and takes it to the ledger.
LEMMA AdmitDurable ==
    ASSUME IInv, Durable, NEW p \in Procs, NEW g \in Grants, Admit(p, g)
    PROVE  Durable'
<1> USE DEF Durable
<1>1. TypeOK /\ Verbs /\ ProcType /\ LedgerType
    BY DEF IInv, Typed, TypeOK
<1>2. /\ status = "serving" /\ status' = "serving" /\ ~Admitting(g) /\ g \notin grants
      /\ grants' = grants \cup {g} /\ op[p] = "none" /\ pc[p] = "idle"
      /\ op'[p] = "admit" /\ on'[p] = g /\ pc'[p] = "take"
      /\ UNCHANGED <<file, deltas, sessions, held, kept, turn, image, covered, lastErr, stale, acked, cut>>
      /\ \A q \in Procs \ {p} : SameProc(q)
    BY <1>1 DEF Admit, Begins, SameProc, Verbs, ProcType, diskVars, heldVars, storeVars, history
<1>3. /\ \A h : Safe(h)' <=> Safe(h)
      /\ \A h : Admitting(h) => Admitting(h)'
      /\ \A h : Uncovered(h) => Uncovered(h)'
      /\ Admitting(g)' /\ Uncovered(g)'
    BY <1>2 DEF Safe, Admitting, Uncovered, SameProc
<1>4. \A h \in Grants : (InLedger(h) => InLedger(h)') /\ (IsHeld(h) => IsHeld(h)') /\ (Restoring(h) => Restoring(h)')
    BY <1>2 DEF InLedger, IsHeld, Restoring, SameProc
<1>5. InMemory'
  <2>1. \A h : (\E q \in Procs : op[q] = "admit" /\ on[q] = h /\ pc[q] = "take")
               => (\E q \in Procs : op'[q] = "admit" /\ on'[q] = h /\ pc'[q] = "take")
    BY <1>2 DEF SameProc
  <2>2. \E q \in Procs : op'[q] = "admit" /\ on'[q] = g /\ pc'[q] = "take"
    BY <1>2
  <2>3. \A h \in Grants : h # g => (h \in grants' <=> h \in grants)
    BY <1>2
  <2> QED
    BY <1>2, <1>3, <1>4, <2>1, <2>2, <2>3 DEF InMemory
<1>6. InTheFile' /\ InBoot'
    BY <1>2, <1>3 DEF InTheFile, InBoot, Names
<1>7. InTheImage'
    BY <1>2, <1>3, <1>4 DEF InTheImage, Names, SameProc
<1>8. Admits'
  <2>1. \A q \in Procs \ {p} : op[q] = "admit" => on[q] # g /\ on[q] \in Grants
    BY <1>1, <1>2 DEF Admitting, Verbs
  <2> QED
    BY <1>2, <1>3, <1>4, <2>1 DEF Admits, Names, InImage, InFile, SameProc
<1>9. Parks'
    BY <1>2, <1>3 DEF Parks, InImage, InFile, SameProc
<1>10. Discards'
    BY <1>2 DEF Discards, SameProc
<1> QED
    BY <1>5, <1>6, <1>7, <1>8, <1>9, <1>10

\* What restoreHeld takes is in its hands until the ledger has it.
LEMMA TakeDurable ==
    ASSUME IInv, Durable, NEW p \in Procs, TakeHeld(p)
    PROVE  Durable'
<1> USE DEF Durable
<1> DEFINE g == on[p]
<1>1. TypeOK /\ Verbs /\ ProcType /\ LedgerType
    BY DEF IInv, Typed, TypeOK
<1>2. status = "serving" /\ op[p] = "admit" /\ g \in Grants /\ pc[p] = "take" /\ pc'[p] = "restore"
    BY <1>1, AtWork DEF TakeHeld, Goes, Verbs, ProcType
<1>3. /\ UNCHANGED <<status, file, deltas, grants, sessions, turn, image, covered, lastErr, stale, acked, cut, op, on, fib, ticket>>
      /\ \A q \in Procs \ {p} : SameProc(q)
      /\ \A h \in Grants \ {g} : (h \in held' <=> h \in held) /\ kept'[h] = kept[h]
      /\ g \in held => ref'[p] = kept[g].delta
    BY <1>1, <1>2 DEF TakeHeld, Goes, SameProc, ProcType, LedgerType, diskVars, ledgerVars, storeVars, history
<1>4. \A h : (Safe(h)' <=> Safe(h)) /\ (Admitting(h)' <=> Admitting(h)) /\ (Uncovered(h)' <=> Uncovered(h))
    BY <1>2, <1>3 DEF Safe, Admitting, Uncovered, SameProc
<1>5. Admitting(g)
    BY <1>2 DEF Admitting
<1>6. \A h \in Grants : InLedger(h) => InLedger(h)'
    BY <1>3 DEF InLedger
<1>7. \A h \in Grants \ {g} : (IsHeld(h) => IsHeld(h)') /\ (Restoring(h) => Restoring(h)')
    BY <1>2, <1>3 DEF IsHeld, Restoring, SameProc
<1>8. IsHeld(g) => \E q \in Procs : /\ op'[q] = "admit" /\ on'[q] = g /\ pc'[q] = "restore" /\ ref'[q] = acked[g]
                                    /\ sessions[g] = NoSession
    BY <1>2, <1>3, ParkedIsNot DEF IsHeld
<1>9. ~Restoring(g)
    BY <1>2 DEF Restoring, Admits
<1>10. InMemory'
  <2> SUFFICES ASSUME NEW h \in Grants, Safe(h)
               PROVE  \/ InLedger(h)'
                      \/ /\ IsHeld(h)'
                         /\ h \notin grants \/ \E q \in Procs : op'[q] = "admit" /\ on'[q] = h /\ pc'[q] = "take"
                      \/ Restoring(h)'
    BY <1>3, <1>4 DEF InMemory
  <2>1. CASE h = g
    BY <1>2, <1>3, <1>6, <1>8, <1>9, <2>1 DEF InMemory, Restoring
  <2>2. CASE h # g
    <3>1. (\E q \in Procs : op[q] = "admit" /\ on[q] = h /\ pc[q] = "take")
               => (\E q \in Procs : op'[q] = "admit" /\ on'[q] = h /\ pc'[q] = "take")
      BY <1>3, <2>2 DEF SameProc
    <3> QED
      BY <1>2, <1>3, <1>6, <1>7, <2>2, <3>1 DEF InMemory
  <2> QED
    BY <2>1, <2>2
<1>11. InTheFile' /\ InBoot'
    BY <1>2, <1>3, <1>4 DEF InTheFile, InBoot, Names
<1>12. InTheImage'
    BY <1>2, <1>3, <1>4, <1>5, <1>7 DEF InTheImage, Names, SameProc
<1>13. Admits'
    BY <1>1, <1>2, <1>3, <1>4, <1>6 DEF Admits, Names, InImage, InFile, SameProc, Verbs
<1>14. Parks'
    BY <1>2, <1>3, <1>4 DEF Parks, InImage, InFile, SameProc
<1>15. Discards'
    BY <1>2, <1>3 DEF Discards, SameProc
<1> QED
    BY <1>10, <1>11, <1>12, <1>13, <1>14, <1>15

\* A promised session the admission has in hand goes to the ledger.
LEMMA RestoreDurable ==
    ASSUME IInv, Durable, NEW p \in Procs, RestoreParked(p)
    PROVE  Durable'
<1> USE DEF Durable
<1> DEFINE g == on[p]
<1>1. TypeOK /\ Verbs /\ ProcType /\ LedgerType
    BY DEF IInv, Typed, TypeOK
<1>2. status = "serving" /\ op[p] = "admit" /\ g \in Grants /\ pc[p] = "restore" /\ pc'[p] = "ask"
    BY <1>1, AtWork DEF RestoreParked, Goes, Verbs, ProcType
<1>3. /\ UNCHANGED <<status, file, deltas, grants, held, kept, turn, image, covered, lastErr, stale, acked, cut, op, on, fib, ref, ticket>>
      /\ \A q \in Procs \ {p} : SameProc(q)
    BY <1>1, <1>2 DEF RestoreParked, Goes, SameProc, ProcType, diskVars, heldVars, storeVars, history
<1>4. /\ \A h \in Grants : h # g \/ sessions[h] # NoSession => sessions'[h] = sessions[h]
      /\ ref[p] # NoFence /\ g \in grants /\ sessions[g] = NoSession => sessions'[g] = Parked(ref[p])
    BY <1>1, <1>2 DEF RestoreParked, LedgerType
<1>5. \A h : (Safe(h)' <=> Safe(h)) /\ (Admitting(h)' <=> Admitting(h)) /\ (Uncovered(h)' <=> Uncovered(h))
    BY <1>2, <1>3 DEF Safe, Admitting, Uncovered, SameProc
<1>6. Admitting(g)
    BY <1>2 DEF Admitting
<1>7. \A h \in Grants : InLedger(h) => InLedger(h)'
    BY <1>3, <1>4, ParkedIsNot DEF InLedger
<1>8. \A h \in Grants \ {g} : (IsHeld(h) => IsHeld(h)') /\ (Restoring(h) => Restoring(h)')
    BY <1>2, <1>3, <1>4 DEF IsHeld, Restoring, SameProc
<1>9. Safe(g) => sessions'[g] = Parked(acked[g]) /\ g \in grants
  <2> SUFFICES ASSUME Safe(g) PROVE sessions'[g] = Parked(acked[g]) /\ g \in grants
    OBVIOUS
  <2>1. g \in grants
    BY <1>2 DEF Admits
  <2>2. \A q \in Procs : op[q] = "admit" /\ on[q] = g => q = p
    BY <1>2 DEF Admits
  <2>3. InLedger(g) \/ Restoring(g)
    BY <1>2, <2>1, <2>2 DEF InMemory
  <2>4. CASE InLedger(g)
    BY <1>2, <1>4, <2>4, ParkedIsNot DEF InLedger
  <2>5. CASE Restoring(g)
    BY <1>2, <1>4, <2>1, <2>2, <2>5 DEF Restoring, Safe
  <2> QED
    BY <2>1, <2>3, <2>4, <2>5
<1>10. InMemory'
  <2> SUFFICES ASSUME NEW h \in Grants, Safe(h)
               PROVE  \/ InLedger(h)'
                      \/ /\ IsHeld(h)'
                         /\ h \notin grants \/ \E q \in Procs : op'[q] = "admit" /\ on'[q] = h /\ pc'[q] = "take"
                      \/ Restoring(h)'
    BY <1>3, <1>5 DEF InMemory
  <2>1. CASE h = g
    BY <1>3, <1>9, <2>1 DEF InLedger
  <2>2. CASE h # g
    <3>1. (\E q \in Procs : op[q] = "admit" /\ on[q] = h /\ pc[q] = "take")
               => (\E q \in Procs : op'[q] = "admit" /\ on'[q] = h /\ pc'[q] = "take")
      BY <1>2, <1>3 DEF SameProc
    <3> QED
      BY <1>2, <1>3, <1>7, <1>8, <2>2, <3>1 DEF InMemory
  <2> QED
    BY <2>1, <2>2
<1>11. InTheFile' /\ InBoot'
    BY <1>2, <1>3, <1>5 DEF InTheFile, InBoot, Names
<1>12. InTheImage'
    BY <1>2, <1>3, <1>5, <1>6, <1>8 DEF InTheImage, Names, SameProc
<1>13. Admits'
  <2>1. Safe(g) => \A h : h = g => InLedger(h)'
    BY <1>3, <1>9 DEF InLedger
  <2> QED
    BY <1>1, <1>2, <1>3, <1>5, <1>7, <2>1 DEF Admits, Names, InImage, InFile, SameProc, Verbs
<1>14. Parks'
    BY <1>1, <1>2, <1>3, <1>4, <1>5, ParkedIsNot DEF Parks, InImage, InFile, SameProc, Verbs
<1>15. Discards'
    BY <1>2, <1>3 DEF Discards, SameProc
<1> QED
    BY <1>10, <1>11, <1>12, <1>13, <1>14, <1>15

\* A call to Persist waits for a snapshot that is taken after it.
LEMMA AskDurable ==
    ASSUME IInv, Durable, NEW p \in Procs, Ask(p)
    PROVE  Durable'
<1> USE DEF Durable
<1>1. TypeOK /\ Verbs /\ ProcType /\ StoreType
    BY DEF IInv, Typed, TypeOK
<1>2. /\ status = "serving" /\ pc[p] = "ask" /\ pc'[p] = "wait" /\ covered < ticket'[p]
      /\ UNCHANGED <<status, file, deltas, grants, sessions, held, kept, turn, image, covered, lastErr, stale, acked, cut, op, on, fib, ref>>
      /\ \A q \in Procs \ {p} : SameProc(q)
  <2>1. status = "serving" /\ pc[p] = "ask" /\ pc'[p] = "wait" /\ ticket'[p] = asked + 1
    BY <1>1, AtWork DEF Ask, Goes, ProcType
  <2>2. covered <= asked /\ covered \in Nat /\ asked \in Nat
    BY <1>1 DEF IInv, Turns, StoreType
  <2>3. covered < ticket'[p]
    BY <2>1, <2>2
  <2> QED
    BY <1>1, <2>1, <2>3 DEF Ask, Goes, SameProc, ProcType, diskVars, ledgerVars, heldVars, history
<1>3. covered \in Nat /\ ticket'[p] \in Nat /\ ~(covered >= ticket'[p])
  <2>1. ticket'[p] \in Nat /\ covered \in Nat
    BY <1>1 DEF Ask, ProcType, StoreType
  <2> QED
    BY <1>2, <2>1
<1>4. \A h : (Safe(h)' <=> Safe(h)) /\ (Admitting(h)' <=> Admitting(h)) /\ (Uncovered(h)' <=> Uncovered(h))
    BY <1>2 DEF Safe, Admitting, Uncovered, SameProc
<1>5. \A h \in Grants : (InLedger(h) => InLedger(h)') /\ (IsHeld(h) => IsHeld(h)') /\ (Restoring(h) => Restoring(h)')
    BY <1>2 DEF InLedger, IsHeld, Restoring, SameProc
<1>6. InMemory'
  <2>1. \A h : (\E q \in Procs : op[q] = "admit" /\ on[q] = h /\ pc[q] = "take")
               => (\E q \in Procs : op'[q] = "admit" /\ on'[q] = h /\ pc'[q] = "take")
    BY <1>2 DEF SameProc
  <2> QED
    BY <1>2, <1>4, <1>5, <2>1 DEF InMemory
<1>7. InTheFile' /\ InBoot'
    BY <1>2, <1>4 DEF InTheFile, InBoot, Names
<1>8. InTheImage'
    BY <1>2, <1>4, <1>5 DEF InTheImage, Names, SameProc
<1>9. \A q \in Procs : (InImage(q)' => q # p /\ InImage(q)) /\ (InFile(q)' => q # p /\ InFile(q))
    BY <1>2, <1>3 DEF InImage, InFile, SameProc
<1>10. Admits'
    BY <1>1, <1>2, <1>4, <1>5, <1>9 DEF Admits, Names, SameProc, Verbs
<1>11. Parks'
    BY <1>2, <1>4, <1>9 DEF Parks, SameProc
<1>12. Discards'
    BY <1>2 DEF Discards, SameProc
<1> QED
    BY <1>6, <1>7, <1>8, <1>10, <1>11, <1>12

\* The snapshot the goroutine captures names every promised session but those
\* held since boot, and covers every call that was made.
LEMMA TurnDurable ==
    ASSUME IInv, Durable, NEW p \in Procs, TakeTurn(p)
    PROVE  Durable'
<1> USE DEF Durable
<1>1. TypeOK /\ Verbs /\ ProcType /\ StoreType /\ LedgerType
    BY DEF IInv, Typed, TypeOK
<1>2. /\ status = "serving" /\ pc[p] = "wait" /\ pc'[p] = "merge" /\ turn' = p /\ turn = NoProc
      /\ image' = LedgerSnapshot /\ covered' = asked
      /\ UNCHANGED <<status, file, deltas, grants, sessions, held, kept, lastErr, stale, acked, cut, op, on, fib, ref, ticket>>
      /\ \A q \in Procs \ {p} : pc'[q] = pc[q]
    BY <1>1, AtWork DEF TakeTurn, Goes, ProcType, diskVars, ledgerVars, heldVars, history
<1>3. /\ image' # Torn /\ image'.grants = grants
      /\ \A h \in Grants : image'.sess[h] = sessions[h]
    BY <1>1, <1>2, SnapshotType, TornAssumption DEF LedgerSnapshot
<1>4. \A q \in Procs : pc[q] \notin {"merge", "write"}
    BY <1>2, ConstAssumption DEF IInv, Turns
<1>5. /\ \A h : (Safe(h)' <=> Safe(h)) /\ (Admitting(h)' <=> Admitting(h))
      /\ \A q \in Procs : ~InFile(q)'
    BY <1>2, ConstAssumption DEF Safe, Admitting, InFile
<1>6. \A h \in Grants : (InLedger(h) => InLedger(h)') /\ (IsHeld(h) => IsHeld(h)') /\ (Restoring(h) => Restoring(h)')
  <2>1. \A q \in Procs : pc[q] = "restore" => pc'[q] = "restore"
    BY <1>2
  <2> QED
    BY <1>2, <2>1 DEF InLedger, IsHeld, Restoring
<1>7. \A h \in Grants : InLedger(h) => Names(image', h, acked[h])
    BY <1>3 DEF InLedger, Names
<1>8. InMemory'
  <2>1. \A q \in Procs : pc[q] = "take" => pc'[q] = "take"
    BY <1>2
  <2> QED
    BY <1>2, <1>5, <1>6, <2>1 DEF InMemory
<1>9. InTheFile' /\ InBoot'
    BY <1>2, <1>5 DEF InTheFile, InBoot, Names
<1>10. InTheImage'
  <2> SUFFICES ASSUME NEW h \in Grants, NEW q \in Procs, Safe(h), ~Admitting(h)
               PROVE  /\ pc'[q] = "merge" => \/ Names(image', h, acked[h])
                                             \/ IsHeld(h)' /\ h \notin image'.grants /\ image'.sess[h] = NoSession
                      /\ pc'[q] = "write" => Names(image', h, acked[h])
    BY <1>2, <1>5 DEF InTheImage
  <2>1. pc'[q] # "write"
    BY <1>2, <1>4
  <2>2. InLedger(h) \/ (IsHeld(h) /\ h \notin grants)
    BY <1>2 DEF InMemory, Restoring, Admitting
  <2>3. IsHeld(h) => sessions[h] = NoSession
    BY DEF IsHeld
  <2> QED
    BY <1>3, <1>6, <1>7, <2>1, <2>2, <2>3
<1>11. Admits'
  <2>1. \A q \in Procs : pc'[q] \in {"ask", "wait", "merge", "write"} => pc[q] \in {"ask", "wait", "merge", "write"}
    BY <1>2
  <2>2. \A q \in Procs : InImage(q)' => pc[q] \in {"ask", "wait", "merge", "write"}
    BY <1>2 DEF InImage
  <2> QED
    BY <1>1, <1>2, <1>5, <1>6, <1>7, <2>1, <2>2 DEF Admits, Verbs
<1>12. Parks'
  <2>1. \A q \in Procs : pc'[q] \in {"drop", "ask", "wait", "merge", "write"} => pc[q] \in {"drop", "ask", "wait", "merge", "write"}
    BY <1>2
  <2>2. \A q \in Procs : op[q] = "park" => on[q] \in Grants
    BY <1>1 DEF Verbs
  <2> QED
    BY <1>2, <1>3, <1>5, <2>1, <2>2 DEF Parks
<1>13. Discards'
    BY <1>2 DEF Discards
<1> QED
    BY <1>8, <1>9, <1>10, <1>11, <1>12, <1>13

\* Adding what boot held leaves out no session the snapshot names, and brings in
\* those held that the ledger does not know.
LEMMA HeldAdded ==
    ASSUME TypeOK, NEW img \in ImageType, NEW h \in Grants, NEW d
    PROVE  /\ Names(img, h, d) => Names(WithHeld(img), h, d)
           /\ h \in img.grants => h \in WithHeld(img).grants
           /\ img.sess[h] = Parked(d) => WithHeld(img).sess[h] = Parked(d)
           /\ h \in held /\ kept[h] = Parked(d) /\ h \notin img.grants /\ img.sess[h] = NoSession =>
                 Names(WithHeld(img), h, d)
<1>1. WithHeld(img) # Torn
    BY WithHeldType, TornAssumption
<1>2. /\ WithHeld(img).grants = img.grants \cup held
      /\ WithHeld(img).sess[h] = IF h \in held \ img.grants /\ img.sess[h] = NoSession THEN kept[h] ELSE img.sess[h]
    BY DEF WithHeld
<1> QED
    BY <1>1, <1>2, ParkedIsNot DEF Names

\* The whole snapshot names every promised session.
LEMMA MergeDurable ==
    ASSUME IInv, Durable, NEW p \in Procs, MergeHeld(p)
    PROVE  Durable'
<1> USE DEF Durable
<1>1. TypeOK /\ Verbs /\ ProcType /\ StoreType /\ LedgerType /\ image \in ImageType
    BY DEF IInv, Typed, TypeOK, StoreType
<1>2. /\ status = "serving" /\ pc[p] = "merge" /\ pc'[p] = "write" /\ turn = p
      /\ image' = WithHeld(image)
      /\ UNCHANGED <<status, file, deltas, grants, sessions, held, kept, turn, covered, lastErr, stale, acked, cut, op, on, fib, ref, ticket>>
      /\ \A q \in Procs \ {p} : pc'[q] = pc[q]
    BY <1>1, AtWork DEF MergeHeld, Goes, ProcType, diskVars, ledgerVars, heldVars, history, IInv, Turns
<1>3. \A q \in Procs : pc'[q] \in {"merge", "write"} => q = p
    BY <1>2 DEF IInv, Turns
<1>4. /\ \A h : (Safe(h)' <=> Safe(h)) /\ (Admitting(h)' <=> Admitting(h)) /\ (Uncovered(h)' <=> Uncovered(h))
      /\ \A q \in Procs : (InFile(q)' <=> InFile(q)) /\ (InImage(q)' <=> InImage(q))
    BY <1>2 DEF Safe, Admitting, Uncovered, InFile, InImage
<1>5. \A h \in Grants : (InLedger(h) => InLedger(h)') /\ (IsHeld(h) => IsHeld(h)') /\ (Restoring(h) => Restoring(h)')
  <2>1. \A q \in Procs : pc[q] = "restore" => pc'[q] = "restore"
    BY <1>2
  <2> QED
    BY <1>2, <2>1 DEF InLedger, IsHeld, Restoring
<1>6. \A h \in Grants : \A d :
          /\ Names(image, h, d) => Names(image', h, d)
          /\ h \in image.grants => h \in image'.grants
          /\ image.sess[h] = Parked(d) => image'.sess[h] = Parked(d)
          /\ h \in held /\ kept[h] = Parked(d) /\ h \notin image.grants /\ image.sess[h] = NoSession =>
                Names(image', h, d)
    BY <1>1, <1>2, HeldAdded
<1>7. InMemory'
  <2>1. \A q \in Procs : pc[q] = "take" => pc'[q] = "take"
    BY <1>2
  <2> QED
    BY <1>2, <1>4, <1>5, <2>1 DEF InMemory
<1>8. InTheFile' /\ InBoot'
    BY <1>2, <1>4 DEF InTheFile, InBoot, Names
<1>9. InTheImage'
    BY <1>2, <1>3, <1>4, <1>6 DEF InTheImage, IsHeld
<1>10. Admits'
  <2>1. \A q \in Procs : pc'[q] \in {"ask", "wait", "merge", "write"} => pc[q] \in {"ask", "wait", "merge", "write"}
    BY <1>2
  <2> QED
    BY <1>1, <1>2, <1>4, <1>5, <1>6, <2>1 DEF Admits, Verbs
<1>11. Parks'
  <2>1. \A q \in Procs : pc'[q] \in {"drop", "ask", "wait", "merge", "write"} => pc[q] \in {"drop", "ask", "wait", "merge", "write"}
    BY <1>2
  <2>2. \A q \in Procs : op[q] = "park" => on[q] \in Grants
    BY <1>1 DEF Verbs
  <2> QED
    BY <1>2, <1>4, <1>6, <2>1, <2>2 DEF Parks
<1>12. Discards'
    BY <1>2 DEF Discards
<1> QED
    BY <1>7, <1>8, <1>9, <1>10, <1>11, <1>12

\* What an answer promises: a park that was written promises its session, and an
\* admission that was not takes its grant's session out of the promise.
LEMMA AnswersIs ==
    ASSUME TypeOK, NEW p \in Procs, NEW failed \in BOOLEAN, Answers(p, failed)
    PROVE  /\ \A g \in Grants : Safe(g)' =>
                 \/ Safe(g) /\ acked'[g] = acked[g] /\ ~(op[p] = "admit" /\ on[p] = g /\ failed)
                 \/ /\ op[p] = "park" /\ on[p] = g /\ fib[p] # NoFence /\ acked'[g] = fib[p]
                    /\ g \in grants /\ p \notin stale /\ ~failed
           /\ \A g \in Grants : acked'[g] = acked[g] \/ (op[p] = "park" /\ on[p] = g)
           /\ \A q \in Procs \ {p} : SameProc(q) /\ (q \in stale' <=> q \in stale)
           /\ pc'[p] = "idle" /\ op'[p] = "none"
<1>1. ProcType /\ acked \in [Grants -> Fences \cup {NoFence}]
    BY DEF TypeOK, HistoryType
<1>2. /\ \A q \in Procs \ {p} : SameProc(q) /\ (q \in stale' <=> q \in stale)
      /\ pc'[p] = "idle" /\ op'[p] = "none"
    BY <1>1 DEF Answers, Returns, ProcType, SameProc
<1>3. CASE acked' = acked
  <2>1. cut' = IF op[p] = "admit" /\ failed /\ acked[on[p]] # NoFence THEN cut \cup {on[p]} ELSE cut
    BY <1>3 DEF Answers
  <2>2. \A g \in Grants : Safe(g)' => Safe(g) /\ ~(op[p] = "admit" /\ on[p] = g /\ failed)
    BY <1>3, <2>1 DEF Safe
  <2> QED
    BY <1>2, <1>3, <2>2
<1>4. CASE acked' # acked
  <2>1. /\ op[p] = "park" /\ fib[p] # NoFence /\ p \notin stale /\ on[p] \in grants /\ ~failed
        /\ acked' = [acked EXCEPT ![on[p]] = fib[p]] /\ cut' = cut \ {on[p]}
    BY <1>4 DEF Answers
  <2>2. \A g \in Grants : g # on[p] => acked'[g] = acked[g] /\ (Safe(g)' => Safe(g))
    BY <1>1, <2>1 DEF Safe
  <2>3. on[p] \in Grants => acked'[on[p]] = fib[p]
    BY <1>1, <2>1
  <2> QED
    BY <1>2, <2>1, <2>2, <2>3
<1> QED
    BY <1>3, <1>4

\* The call takes the result of the write that covers it.
Answered(q) == pc[q] = "wait" /\ covered >= ticket[q]

\* An answer keeps every promise, if the file names what is promised, and names
\* what the calls it covers asked for if they are told the write went well.
LEMMA AnswerDurable ==
    ASSUME IInv, Durable, NEW p \in Procs, NEW failed \in BOOLEAN, Answers(p, failed),
           Answered(p) \/ pc[p] = "write",
           turn' = NoProc, lastErr' = failed,
           UNCHANGED <<status, grants, sessions, held, kept, covered>>,
           \A q \in Procs \ {p} : pc[q] \notin {"merge", "write"},
           \A g \in Grants : Safe(g) /\ ~Admitting(g) => Names(file', g, acked[g]),
           ~failed => \A q \in Procs : q = p \/ Answered(q) =>
              /\ op[q] = "admit" /\ Safe(on[q]) => Names(file', on[q], acked[on[q]])
              /\ op[q] = "park" /\ fib[q] # NoFence =>
                    /\ file' # Torn /\ file'.sess[on[q]] = Parked(fib[q])
                    /\ on[q] \in grants /\ q \notin stale => on[q] \in file'.grants \/ Uncovered(on[q])
    PROVE  Durable'
<1> USE DEF Durable
<1> DEFINE Kept(g) == Safe(g) /\ acked'[g] = acked[g] /\ ~(op[p] = "admit" /\ on[p] = g /\ failed)
           New(g) == /\ op[p] = "park" /\ on[p] = g /\ fib[p] # NoFence /\ acked'[g] = fib[p]
                     /\ g \in grants /\ p \notin stale /\ ~failed
<1>1. TypeOK /\ Verbs /\ ProcType /\ StoreType
    BY DEF IInv, Typed, TypeOK
<1>2. /\ \A g \in Grants : Safe(g)' => Kept(g) \/ New(g)
      /\ \A g \in Grants : acked'[g] = acked[g] \/ (op[p] = "park" /\ on[p] = g)
      /\ \A q \in Procs \ {p} : SameProc(q) /\ (q \in stale' <=> q \in stale)
      /\ pc'[p] = "idle" /\ op'[p] = "none"
    BY <1>1, AnswersIs
<1>3. status = "serving" /\ pc[p] \in {"wait", "write"}
    BY AtWork DEF Answered
<1>4. /\ \A q \in Procs : op[q] \notin {"none", "bump"} => on[q] \in Grants
      /\ covered \in Nat /\ ticket \in [Procs -> Nat]
    BY <1>1 DEF Verbs, ProcType, StoreType
<1>5. \A g : Uncovered(g)' <=> Uncovered(g)
    BY <1>2, <1>3, <1>4 DEF Uncovered, SameProc, Answered
<1>6. \A g : /\ Uncovered(g) => Admitting(g)'
             /\ Admitting(g) /\ ~Admitting(g)' => op[p] = "admit" /\ on[p] = g
    BY <1>2, <1>3, <1>4 DEF Uncovered, Admitting, SameProc, Answered
<1>7. \A g \in Grants : New(g) => sessions[g] = Parked(fib[p])
    BY <1>3 DEF Parks
<1>8. \A g \in Grants : New(g) => InLedger(g)'
    BY <1>7 DEF InLedger
<1>9. \A g \in Grants : Kept(g) => /\ InLedger(g) => InLedger(g)'
                                   /\ IsHeld(g) => IsHeld(g)'
                                   /\ Restoring(g) => Restoring(g)'
    BY <1>2, <1>3 DEF InLedger, IsHeld, Restoring, SameProc
<1>10. \A q \in Procs : ~InImage(q)' /\ (InFile(q)' => q # p /\ Answered(q) /\ ~failed)
    BY <1>2 DEF InImage, InFile, SameProc, Answered
<1>11. InMemory'
  <2>1. \A g : (\E q \in Procs : op[q] = "admit" /\ on[q] = g /\ pc[q] = "take")
               => (\E q \in Procs : op'[q] = "admit" /\ on'[q] = g /\ pc'[q] = "take")
    BY <1>2, <1>3 DEF SameProc
  <2>2. \A g \in Grants : Kept(g) => Safe(g)
    OBVIOUS
  <2> HIDE DEF Kept, New
  <2> QED
    BY <1>2, <1>3, <1>8, <1>9, <2>1, <2>2 DEF InMemory
<1>12. InTheFile'
  <2> SUFFICES ASSUME NEW g \in Grants, Safe(g)', ~Admitting(g)'
               PROVE  Names(file', g, acked'[g])
    BY <1>3 DEF InTheFile
  <2>1. CASE Kept(g)
    <3>1. CASE ~Admitting(g)
      BY <2>1, <3>1
    <3>2. CASE Admitting(g)
      BY <1>6, <2>1, <3>2
    <3> QED
      BY <3>1, <3>2
  <2>2. CASE New(g)
    BY <1>6, <2>2 DEF Names
  <2> QED
    BY <1>2, <2>1, <2>2
<1>13. InBoot' /\ InTheImage'
    BY <1>2, <1>3 DEF InBoot, InTheImage, SameProc
<1>14. Admits'
  <2>1. \A q, r \in Procs : op'[q] = "admit" /\ op'[r] = "admit" /\ on'[q] = on'[r] => q = r
    BY <1>2 DEF Admits, SameProc
  <2>2. ASSUME NEW q \in Procs \ {p}, NEW g \in Grants, op[q] = "admit", on[q] = g, Safe(g)'
        PROVE  /\ g \in grants
               /\ pc[q] \in {"ask", "wait", "merge", "write"} => InLedger(g)'
               /\ InFile(q)' => Names(file', g, acked'[g])
    <3>1. CASE Kept(g)
      BY <1>9, <1>10, <2>2, <3>1 DEF Admits
    <3>2. CASE New(g)
      <4>1. Answered(q) => ~Uncovered(g)
        BY <1>4, <2>2 DEF Admits, Uncovered, Answered
      <4> QED
        BY <1>8, <1>10, <3>2, <4>1 DEF Names
    <3> QED
      BY <1>2, <2>2, <3>1, <3>2
  <2>3. \A q \in Procs : op'[q] = "admit" => q # p /\ op[q] = "admit" /\ on'[q] = on[q] /\ pc'[q] = pc[q] /\ on[q] \in Grants
    BY <1>2, <1>4 DEF SameProc
  <2> HIDE DEF Kept, New
  <2> QED
    BY <1>10, <2>1, <2>2, <2>3 DEF Admits
<1>15. Parks'
  <2> HIDE DEF Kept, New
  <2> QED
    BY <1>2, <1>5, <1>10 DEF Parks, SameProc
<1>16. Discards'
  <2> SUFFICES ASSUME NEW q \in Procs \ {p}, op[q] = "discard", pc[q] \in {"drop", "forget"}
               PROVE  acked'[on[q]] = NoFence
    BY <1>2 DEF Discards, SameProc
  <2>1. ~(op[p] = "park" /\ on[p] = on[q])
    BY DEF IInv, Gates
  <2>2. on[q] \in Grants /\ acked[on[q]] = NoFence
    BY <1>4 DEF Discards
  <2> QED
    BY <1>2, <2>1, <2>2
<1> QED
    BY <1>11, <1>12, <1>13, <1>14, <1>15, <1>16

\* A call that shares the result of the last write keeps every promise.
LEMMA ShareDurable ==
    ASSUME IInv, Durable, NEW p \in Procs, Share(p)
    PROVE  Durable'
<1>1. /\ Answers(p, lastErr) /\ Answered(p) /\ turn = NoProc
      /\ UNCHANGED <<file, status, grants, sessions, held, kept, covered, turn, lastErr>>
    BY DEF Share, Covers, Answered, diskVars, ledgerVars, heldVars, storeVars
<1>2. lastErr \in BOOLEAN
    BY DEF IInv, Typed, TypeOK, StoreType
<1>3. \A q \in Procs : pc[q] \notin {"merge", "write"}
    BY <1>1, ConstAssumption DEF IInv, Turns
<1>4. status = "serving"
    BY <1>1, AtWork DEF Answered
<1>5. \A g \in Grants : Safe(g) /\ ~Admitting(g) => Names(file', g, acked[g])
    BY <1>1, <1>4 DEF Durable, InTheFile
<1>6. ~lastErr => \A q \in Procs : q = p \/ Answered(q) => InFile(q)
    BY <1>1 DEF Answered, InFile
<1>7. ~lastErr => \A q \in Procs : q = p \/ Answered(q) =>
              /\ op[q] = "admit" /\ Safe(on[q]) => Names(file', on[q], acked[on[q]])
              /\ op[q] = "park" /\ fib[q] # NoFence =>
                    /\ file' # Torn /\ file'.sess[on[q]] = Parked(fib[q])
                    /\ on[q] \in grants /\ q \notin stale => on[q] \in file'.grants \/ Uncovered(on[q])
    BY <1>1, <1>6 DEF Durable, Admits, Parks, InFile
<1> QED
    BY <1>1, <1>2, <1>3, <1>5, <1>7, AnswerDurable

\* The goroutine that writes the snapshot keeps every promise, whether the write
\* goes well or not.
LEMMA WriteDurable ==
    ASSUME IInv, Durable, NEW p \in Procs, Write(p)
    PROVE  Durable'
<1>1. /\ pc[p] = "write" /\ turn = p /\ turn' = NoProc /\ status = "serving"
      /\ UNCHANGED <<status, grants, sessions, held, kept, covered>>
    BY AtWork DEF Write, ledgerVars, heldVars, IInv, Turns
<1>2. PICK w \in Wrote(file, image) : file' = w[1] /\ lastErr' = ~w[2] /\ Answers(p, ~w[2])
    BY DEF Write
<1>3. (w[2] = TRUE /\ w[1] = image) \/ (w[2] = FALSE /\ w[1] \in {file, image})
    BY <1>2, WroteIs, Zenon
<1>4. image # Torn
    BY TornAssumption DEF IInv, Typed, TypeOK, StoreType
<1>5. \A q \in Procs \ {p} : pc[q] \notin {"merge", "write"}
    BY <1>1 DEF IInv, Turns
<1>6. \A g \in Grants : Safe(g) /\ ~Admitting(g) => Names(file, g, acked[g]) /\ Names(image, g, acked[g])
    BY <1>1 DEF Durable, InTheFile, InTheImage
<1>7. \A q \in Procs : q = p \/ Answered(q) => InImage(q) /\ pc[q] \in {"wait", "write"}
    BY <1>1, ConstAssumption DEF Answered, InImage
<1>8. \A q \in Procs : q = p \/ Answered(q) =>
              /\ op[q] = "admit" /\ Safe(on[q]) => Names(image, on[q], acked[on[q]])
              /\ op[q] = "park" /\ fib[q] # NoFence =>
                    /\ image.sess[on[q]] = Parked(fib[q])
                    /\ on[q] \in grants /\ q \notin stale => on[q] \in image.grants \/ Uncovered(on[q])
    BY <1>7 DEF Durable, Admits, Parks
<1>9. CASE w[2] = TRUE /\ w[1] = image
    BY <1>1, <1>2, <1>4, <1>5, <1>6, <1>8, <1>9, AnswerDurable
<1>10. CASE w[2] = FALSE /\ w[1] \in {file, image}
    BY <1>1, <1>2, <1>5, <1>6, <1>10, AnswerDurable
<1> QED
    BY <1>3, <1>9, <1>10

\* A promised session's delta is on disk, unless its grant is being admitted: the
\* ledger or boot's hold names it, and no Discard has begun.
LEMMA SafeOnDisk ==
    ASSUME IInv, Durable, NEW g \in Grants, Safe(g), status = "serving", ~Admitting(g)
    PROVE  acked[g] \in deltas
<1>1. InLedger(g) \/ IsHeld(g)
    BY DEF Durable, InMemory, Restoring, Admitting
<1>2. CASE InLedger(g)
  <2>1. sessions[g].st = "parked" /\ sessions[g].delta = acked[g]
    BY <1>2, ParkedIsNot DEF InLedger
  <2>2. \A p \in Procs : ~(op[p] = "discard" /\ pc[p] \in {"drop", "forget"} /\ on[p] = g)
    BY DEF Durable, Discards, Safe
  <2> QED
    BY <2>1, <2>2 DEF IInv, OnDisk
<1>3. CASE IsHeld(g)
    BY <1>3, ParkedIsNot DEF IsHeld, IInv, OnDisk
<1> QED
    BY <1>1, <1>2, <1>3

\* A step of the boot, at which no goroutine serves a call, has only the session's
\* place in memory, in the file and in the boot's hands to answer for.
LEMMA IdleStep ==
    ASSUME IInv, status # "serving", UNCHANGED <<pc, op>>, InMemory', InTheFile', InBoot'
    PROVE  Durable'
<1>1. \A p \in Procs : pc'[p] = "idle" /\ op'[p] = "none"
    BY DEF IInv, Booting, Typed, Verbs
<1>2. InTheImage' /\ Admits' /\ Parks' /\ Discards'
    BY <1>1 DEF InTheImage, Admits, Parks, Discards
<1> QED
    BY <1>2 DEF Durable

\* The start and Load: what the file names is what boot has.
LEMMA LoadDurable ==
    ASSUME IInv, Durable, OpenEpochStore \/ Load
    PROVE  Durable'
<1> USE DEF diskVars, procVars, history
<1>1. CASE OpenEpochStore
  <2>1. /\ status = "down" /\ status' \in {"down", "load"}
        /\ UNCHANGED <<pc, op, file, deltas, acked, cut>>
    BY <1>1 DEF OpenEpochStore
  <2>2. \A g : Safe(g)' <=> Safe(g)
    BY <2>1 DEF Safe
  <2>3. InMemory' /\ InTheFile' /\ InBoot'
    BY <2>1, <2>2 DEF Durable, InMemory, InTheFile, InBoot, Names
  <2> QED
    BY <2>1, <2>3, IdleStep
<1>2. CASE Load
  <2>1. /\ status = "load" /\ status' = "admit" /\ snap' = file /\ (file # Torn => todo' = file.grants)
        /\ UNCHANGED <<pc, op, file, deltas, acked, cut>>
    BY <1>2 DEF Load
  <2>2. \A g : Safe(g)' <=> Safe(g)
    BY <2>1 DEF Safe
  <2>3. InMemory' /\ InTheFile' /\ InBoot'
    BY <2>1, <2>2 DEF Durable, InMemory, InTheFile, InBoot, Names
  <2> QED
    BY <2>1, <2>3, IdleStep
<1> QED
    BY <1>1, <1>2

\* Reconcile: a grant it looks at is admitted or held with its session, or the
\* promise goes with the grant.
LEMMA ReconcileDurable ==
    ASSUME IInv, Durable,
           AdmitPersist \/ ReconcileSessions \/ \E g \in Grants : ReconcileGrant(g)
    PROVE  Durable'
<1> USE DEF diskVars, procVars, history
<1>1. ASSUME NEW g \in Grants, ReconcileGrant(g) PROVE Durable'
  <2>1. /\ status = "admit" /\ status' \in {"admit", "admit-persist"}
        /\ UNCHANGED <<pc, op, file, deltas, snap>>
    BY <1>1 DEF ReconcileGrant
  <2>2. \A h \in Grants : Safe(h)' =>
            Safe(h) /\ acked'[h] = acked[h] /\ (h \in todo \cup grants \cup held => h \in todo' \cup grants' \cup held')
    BY <1>1 DEF ReconcileGrant, Safe, IInv, Typed, TypeOK, HistoryType
  <2>3. InMemory' /\ InTheFile' /\ InBoot'
    BY <2>1, <2>2 DEF Durable, InMemory, InTheFile, InBoot, Names
  <2> QED
    BY <2>1, <2>3, IdleStep
<1>2. CASE AdmitPersist
  <2>1. /\ status = "admit-persist" /\ status' = "admit"
        /\ UNCHANGED <<pc, op, deltas, snap, todo, grants, held, acked, cut>>
    BY <1>2 DEF AdmitPersist, BootPersist, ledgerVars, heldVars
  <2>2. \A g : Safe(g)' <=> Safe(g)
    BY <2>1 DEF Safe
  <2>3. InMemory' /\ InTheFile' /\ InBoot'
    BY <2>1, <2>2 DEF Durable, InMemory, InTheFile, InBoot, Names
  <2> QED
    BY <2>1, <2>3, IdleStep
<1>3. CASE ReconcileSessions
  <2>1. /\ status = "admit" /\ todo = {} /\ status' = "list"
        /\ UNCHANGED <<pc, op, acked, cut, grants, held>>
    BY <1>3 DEF ReconcileSessions
  <2>2. \A g : Safe(g)' <=> Safe(g)
    BY <2>1 DEF Safe
  <2>3. ASSUME NEW g \in Grants, Safe(g) PROVE InLedger(g)' \/ (IsHeld(g)' /\ g \notin grants')
    <3>1. acked[g] \in deltas /\ Names(snap, g, acked[g]) /\ g \in grants \cup held
      BY <2>1, <2>3 DEF Durable, InBoot
    <3>2. SnapSession(g) = Parked(acked[g]) /\ Usable(g)
      BY <3>1, ParkedIsNot DEF Names, SnapSession, Usable
    <3>3. /\ g \in grants => sessions'[g] = Parked(acked[g])
          /\ g \notin grants => sessions'[g] = NoSession /\ kept'[g] = Parked(acked[g])
      BY <1>3, <3>1, <3>2, ParkedIsNot DEF ReconcileSessions
    <3> QED
      BY <2>1, <3>1, <3>3 DEF InLedger, IsHeld
  <2>4. InMemory' /\ InTheFile' /\ InBoot'
    BY <2>1, <2>2, <2>3 DEF InMemory, InTheFile, InBoot
  <2> QED
    BY <2>1, <2>4, IdleStep
<1> QED
    BY <1>1, <1>2, <1>3

\* The end of the boot: what is in memory is written, or the boot was cut short.
LEMMA SweepDurable ==
    ASSUME IInv, Durable, KillOrphans \/ SweepDeltas \/ LastPersist
    PROVE  Durable'
<1> USE DEF diskVars, ledgerVars, heldVars, procVars, history
<1>1. ASSUME status \in {"list", "sweep", "persist"}, UNCHANGED <<sessions, held, kept, grants, pc, op, on, ref, acked>>,
             status' \in {"sweep", "persist", "serving"}, cut \subseteq cut'
      PROVE  InMemory' /\ InBoot'
  <2>1. \A g : Safe(g)' => Safe(g)
    BY <1>1 DEF Safe
  <2>2. \A g : (InLedger(g) <=> InLedger(g)') /\ (IsHeld(g) <=> IsHeld(g)') /\ (Restoring(g) <=> Restoring(g)')
    BY <1>1 DEF InLedger, IsHeld, Restoring
  <2> QED
    BY <1>1, <2>1, <2>2 DEF Durable, InMemory, InBoot
<1>2. CASE KillOrphans \/ SweepDeltas
  <2>1. /\ status \in {"list", "sweep"} /\ status' \in {"sweep", "persist"}
        /\ UNCHANGED <<sessions, held, kept, grants, pc, op, on, ref, acked, cut>>
    BY <1>2 DEF KillOrphans, SweepDeltas
  <2>2. InTheFile'
    BY <2>1 DEF InTheFile
  <2> QED
    BY <1>1, <2>1, <2>2, IdleStep
<1>3. CASE LastPersist
  <2>1. /\ status = "persist" /\ status' = "serving"
        /\ UNCHANGED <<sessions, held, kept, grants, pc, op, on, ref, acked>>
    BY <1>3 DEF LastPersist, BootPersist
  <2>2. PICK w \in Wrote(file, WithHeld(LedgerSnapshot)) :
            file' = w[1] /\ cut' = (IF w[2] THEN cut ELSE cut \cup {g \in Grants : acked[g] # NoFence})
    BY <1>3 DEF LastPersist, BootPersist
  <2>3. (w[2] = TRUE /\ w[1] = WithHeld(LedgerSnapshot)) \/ w[2] = FALSE
    BY <2>2, WroteIs, Zenon
  <2>4. \A g \in Grants : Safe(g)' => Safe(g) /\ file' = WithHeld(LedgerSnapshot)
    BY <2>1, <2>2, <2>3 DEF Safe
  <2>5. ASSUME NEW g \in Grants, Safe(g) PROVE Names(WithHeld(LedgerSnapshot), g, acked[g])
    <3>1. TypeOK /\ LedgerSnapshot \in ImageType
      BY SnapshotType DEF IInv, Typed
    <3>2. LedgerSnapshot # Torn /\ LedgerSnapshot.grants = grants /\ LedgerSnapshot.sess = sessions
      BY <3>1, TornAssumption DEF LedgerSnapshot
    <3>3. \A p \in Procs : op[p] = "none"
      BY <2>1 DEF IInv, Booting, Typed, Verbs
    <3>4. InLedger(g) \/ (IsHeld(g) /\ g \notin grants)
      BY <2>1, <2>5, <3>3 DEF Durable, InMemory, Restoring
    <3>5. CASE InLedger(g)
      <4>1. Names(LedgerSnapshot, g, acked[g])
        BY <3>2, <3>5 DEF InLedger, Names
      <4> QED
        BY <3>1, <4>1, HeldAdded
    <3>6. CASE IsHeld(g) /\ g \notin grants
      <4>1. /\ g \in held /\ kept[g] = Parked(acked[g])
            /\ g \notin LedgerSnapshot.grants /\ LedgerSnapshot.sess[g] = NoSession
        BY <3>2, <3>6 DEF IsHeld
      <4> QED
        BY <3>1, <4>1, HeldAdded
    <3> QED
      BY <3>4, <3>5, <3>6
  <2>6. InTheFile'
    BY <2>1, <2>4, <2>5 DEF InTheFile
  <2>7. cut \subseteq cut'
    BY <2>2
  <2> QED
    BY <1>1, <2>1, <2>6, <2>7, IdleStep
<1> QED
    BY <1>2, <1>3

\* A crash leaves the file and the deltas, and what it cuts short is no longer
\* promised; a file that goes bad promises nothing.
LEMMA StopDurable ==
    ASSUME IInv, Durable, Stop \/ GoBad
    PROVE  Durable'
<1> USE DEF diskVars, procVars, history
<1>1. CASE Stop
  <2>1. /\ status' = "down" /\ UNCHANGED <<file, deltas, acked>>
        /\ \A p \in Procs : pc'[p] = "idle" /\ op'[p] = "none"
    BY <1>1 DEF Stop
  <2>2. \A g \in Grants : Safe(g)' => Safe(g) /\ status = "serving" /\ ~Admitting(g)
    BY <1>1 DEF Stop, Safe
  <2>3. \A g \in Grants : Safe(g)' => acked[g] \in deltas /\ Names(file, g, acked[g])
    BY <2>2, SafeOnDisk DEF Durable, InTheFile
  <2>4. InMemory' /\ InTheFile' /\ InBoot'
    BY <2>1, <2>3 DEF InMemory, InTheFile, InBoot, Names
  <2>5. InTheImage' /\ Admits' /\ Parks' /\ Discards'
    BY <2>1 DEF InTheImage, Admits, Parks, Discards
  <2> QED
    BY <2>4, <2>5 DEF Durable
<1>2. CASE GoBad
  <2>1. status = "down" /\ UNCHANGED <<status, deltas, pc, op>>
    BY <1>2 DEF GoBad
  <2>2. \A g \in Grants : Safe(g)' => Safe(g) /\ UNCHANGED <<file, acked>>
    BY <1>2 DEF GoBad, Safe
  <2>3. InMemory' /\ InTheFile' /\ InBoot'
    BY <2>1, <2>2 DEF Durable, InMemory, InTheFile, InBoot, Names
  <2> QED
    BY <2>1, <2>3, IdleStep
<1> QED
    BY <1>1, <1>2

\* At the first start nothing was promised.
LEMMA DurableInit == Init => Durable
<1> SUFFICES ASSUME Init PROVE Durable
    OBVIOUS
<1>1. \A g \in Grants : ~Safe(g)
    BY DEF Init, Safe
<1>2. \A p \in Procs : pc[p] = "idle" /\ op[p] = "none"
    BY DEF Init, Forgotten
<1>3. InMemory /\ InTheFile /\ InBoot
    BY <1>1 DEF InMemory, InTheFile, InBoot
<1> QED
    BY <1>2, <1>3, IdleDurable DEF Durable

\* Every step of the boot, of a goroutine and every crash keeps what was promised.
LEMMA DurableStep == IInv /\ Durable /\ [Next]_vars => Durable'
<1> SUFFICES ASSUME IInv, Durable, [Next]_vars PROVE Durable'
    OBVIOUS
<1>1. CASE UNCHANGED vars
    BY <1>1 DEF vars, diskVars, ledgerVars, heldVars, storeVars, procVars, bootVars, history,
        Durable, InMemory, InTheFile, InBoot, InTheImage, Admits, Parks, Discards, Safe, Names, InLedger,
        IsHeld, Restoring, Uncovered, Admitting, InImage, InFile
<1> QED
    BY <1>1, BumpDurable, CloneDurable, ParkDurable, EndDurable, AdmitDurable, TakeDurable,
       RestoreDurable, AskDurable, TurnDurable, MergeDurable, ShareDurable, WriteDurable, LoadDurable,
       ReconcileDurable, SweepDurable, StopDurable DEF Next

\* Where a promised session is at every step: in the ledger, held with its grant,
\* in the hands of the boot or of an admission, and in every file and snapshot
\* that would replace them.
THEOREM RestartDurable == Spec => []Durable
    BY RestartInvariant, DurableInit, DurableStep, PTL DEF Spec

\* A session whose park was answered and written is on disk, delta and name, until
\* it is resumed, discarded or its grant goes, across crashes at any step, failed
\* writes and shared ones (SnapshotStore.Persist, Core.snapshot, Reconcile).
THEOREM RestartDurableParked == Spec => []DurableParked
<1>1. IInv /\ Durable => DurableParked
  <2> SUFFICES ASSUME IInv, Durable, NEW g \in Grants, acked[g] # NoFence, g \notin cut,
                      status \in {"serving", "down"}, ~Admitting(g)
               PROVE  /\ acked[g] \in deltas
                      /\ file # Torn /\ g \in file.grants /\ file.sess[g] = Parked(acked[g])
    BY DEF DurableParked
  <2>1. Safe(g)
    BY DEF Safe
  <2>2. Names(file, g, acked[g])
    BY <2>1 DEF Durable, InTheFile
  <2>3. acked[g] \in deltas
    BY <2>1, SafeOnDisk DEF Durable, InBoot
  <2> QED
    BY <2>2, <2>3 DEF Names
<1> QED
    BY RestartInvariant, RestartDurable, <1>1, PTL
=============================================================================
