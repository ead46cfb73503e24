------------------------------- MODULE Restart -------------------------------
(***************************************************************************)
(* What a home keeps on disk and what it makes of it at the next start:    *)
(* the epoch file (pkg/core/fence.go), the ledger snapshot and its shared  *)
(* writes, Reconcile and the sessions it holds (snapshot.go), and the boot *)
(* order of fiberd (pkg/fiberd/fiberd.go), against the operations that     *)
(* change what a restart reads back (core.go).                             *)
(*                                                                         *)
(* fiberd may stop at any step and start again.  A file is replaced as a   *)
(* whole: a write leaves the old content or the new one, and may report an *)
(* error either way (the directory's fsync comes after the rename).        *)
(*                                                                         *)
(* Simplifications.  Each grant has one named session, so a session is     *)
(* named by its grant and its gate is the grant's.  A fence is <<g, e, s>>,*)
(* and a park stores its delta under the fence of the parked fiber, as     *)
(* deltaDir does.  The runtime's own steps, attaches, anonymous fibers and *)
(* the sweeps of many fibers are FiberCore's; devices, leases and denials  *)
(* are Admission's; the registry is Mobility's.                            *)
(***************************************************************************)
EXTENDS Integers, FiniteSets

CONSTANTS
    Procs,      \* goroutines that serve calls
    Grants,     \* grant UIDs, each with one named session
    NoProc, NoGrant, NoFence,
    Torn,       \* a file that does not parse
    UnixTime,   \* the clock at the first start, in seconds
    MaxMoves,   \* bound: starts and epoch bumps
    MaxSeq,     \* bound: fences minted for a grant in one life of fiberd
    MaxAsked,   \* bound: Persist calls while one life serves
    MaxFaults   \* bound: failed writes, kills, discards and births, files gone bad

ASSUME ConstAssumption ==
    /\ NoProc \notin Procs /\ NoGrant \notin Grants
    /\ NoFence \notin Grants \X Nat \X Nat /\ Torn \notin Nat
    /\ MaxMoves \in Nat /\ MaxSeq \in Nat /\ MaxAsked \in Nat /\ MaxFaults \in Nat
    /\ UnixTime \in Nat /\ UnixTime > MaxMoves

Fences == Grants \X Nat \X Nat

\* A session as the ledger and the snapshot keep it: its state, the fence
\* of its running fiber, and its delta (the one it is parked in, or was
\* resumed from).
Session(st, f, d) == [st |-> st, fence |-> f, delta |-> d]
NoSession == Session("none", NoFence, NoFence)
Parked(d) == Session("parked", NoFence, d)

Empty == [grants |-> {}, sess |-> [g \in Grants |-> NoSession]]

VARIABLES
    \* On disk, and in the kernel: these outlive fiberd.
    epochFile,  \* the epoch file's value, or Torn
    file,       \* ledger.json: [grants, sess], or Torn
    deltas,     \* the deltas in DeltaDir, by fence
    running,    \* the fibers' processes, by fence
    \* In memory.
    status,     \* "down", a step of the boot, or "serving"
    epoch,      \* EpochStore.epoch
    current,    \* Ledger.epoch
    seq,        \* nextSeq of each grant
    grants,     \* the admitted grants
    sessions,   \* Ledger.sessions
    held,       \* Core.held: the grants boot could not verify
    kept,       \* the parked session of each held grant
    gate,       \* who holds the session's gate
    \* SnapshotStore.
    asked, covered, lastErr,
    turn,       \* who holds its mutex
    image,      \* what that goroutine has captured so far
    \* Goroutines, the boot among them.
    pc, op, on,
    fib,        \* the fence of the fiber in hand
    ref,        \* the delta in hand: resumed from, superseded or held
    ticket,
    stale,      \* goroutines whose grant was revoked under them
    snap,       \* boot: what Load returned, or Torn
    todo,       \* boot: the snapshot's grants not looked at yet
    \* Bounds and history.
    moves, faults,
    acked,      \* the delta of a session whose park was acked and persisted
    cut,        \* acked sessions that went through a boot that was cut short
    consumed,   \* deltas whose resume was acked and persisted
    stray,      \* processes boot could not kill
    last        \* the last fence minted for each grant

diskVars == <<epochFile, file, deltas, running>>
ledgerVars == <<epoch, current, seq, grants, sessions>>
heldVars == <<held, kept>>
storeVars == <<asked, covered, lastErr, turn, image>>
procVars == <<pc, op, on, fib, ref, ticket, stale>>
bootVars == <<snap, todo>>
history == <<acked, cut, consumed, stray, last>>
vars == <<diskVars, status, ledgerVars, heldVars, gate, storeVars, procVars, bootVars, moves, faults, history>>

\* What is lost with the process.
Forgotten ==
    /\ epoch = 0 /\ current = 0
    /\ seq = [g \in Grants |-> 0]
    /\ grants = {} /\ sessions = Empty.sess
    /\ held = {} /\ kept = Empty.sess
    /\ gate = [g \in Grants |-> NoProc]
    /\ asked = 0 /\ covered = 0 /\ lastErr = FALSE /\ turn = NoProc /\ image = Empty
    /\ pc = [p \in Procs |-> "idle"] /\ op = [p \in Procs |-> "none"]
    /\ on = [p \in Procs |-> NoGrant] /\ fib = [p \in Procs |-> NoFence]
    /\ ref = [p \in Procs |-> NoFence] /\ ticket = [p \in Procs |-> 0] /\ stale = {}
    /\ snap = Empty /\ todo = {}

Init ==
    /\ epochFile = 0 /\ file = Empty /\ deltas = {} /\ running = {}
    /\ status = "down" /\ Forgotten
    /\ moves = 0 /\ faults = 0
    /\ acked = [g \in Grants |-> NoFence] /\ cut = {}
    /\ consumed = {} /\ stray = {} /\ last = [g \in Grants |-> <<0, 0>>]

\* A step that works, and one that fails while the bound on faults allows.
Works == UNCHANGED faults
Fails == faults < MaxFaults /\ faults' = faults + 1
OkIf(ok) == IF ok THEN Works ELSE Fails

Goes(p, from, to) == pc[p] = from /\ pc' = [pc EXCEPT ![p] = to]

\* A call begins: its goroutine has its verb, its grant, the fiber and the
\* delta it works on.
Begins(p, verb, g, f, d, to) ==
    /\ status = "serving" /\ pc[p] = "idle"
    /\ pc' = [pc EXCEPT ![p] = to]
    /\ op' = [op EXCEPT ![p] = verb]
    /\ on' = [on EXCEPT ![p] = g]
    /\ fib' = [fib EXCEPT ![p] = f]
    /\ ref' = [ref EXCEPT ![p] = d]
    /\ UNCHANGED ticket

\* A call ends, and lets the gate go if it holds it.
Returns(p) ==
    /\ pc' = [pc EXCEPT ![p] = "idle"]
    /\ op' = [op EXCEPT ![p] = "none"]
    /\ on' = [on EXCEPT ![p] = NoGrant]
    /\ fib' = [fib EXCEPT ![p] = NoFence]
    /\ ref' = [ref EXCEPT ![p] = NoFence]
    /\ ticket' = [ticket EXCEPT ![p] = 0]
    /\ stale' = stale \ {p}
    /\ gate' = [g \in Grants |-> IF gate[g] = p THEN NoProc ELSE gate[g]]

Hold(p, g) == gate[g] = NoProc /\ gate' = [gate EXCEPT ![g] = p]

(***************************************************************************)
(* writeFileAtomic and the epoch store.                                    *)
(***************************************************************************)

\* The file's next value and whether the write reports success.
Wrote(old, new) == {<<new, TRUE>>, <<old, FALSE>>, <<new, FALSE>>}

\* The epoch stays where it was.
NextEpochSame == IF epochFile = Torn THEN UnixTime + moves ELSE epochFile

\* OpenEpochStore: one above what the file says, the clock if it does not
\* read.  The clock moves a second at least from one start or bump to the
\* next.  The start fails unless the write succeeds.
NextEpoch == IF epochFile = Torn THEN UnixTime + moves ELSE epochFile + 1

OpenEpochStore ==
    /\ status = "down" /\ moves < MaxMoves
    /\ moves' = moves + 1
    /\ \E w \in Wrote(epochFile, NextEpoch) :
          /\ epochFile' = w[1]
          /\ OkIf(w[2])
          /\ IF w[2]
             THEN status' = "load" /\ epoch' = NextEpoch /\ current' = NextEpoch
             ELSE UNCHANGED <<status, epoch, current>>
    /\ UNCHANGED <<file, deltas, running, seq, grants, sessions, heldVars, gate, storeVars,
                   procVars, bootVars, history>>

\* EpochStore.Bump: what the epoch becomes once it is durable.
BeginBump(p) ==
    /\ moves < MaxMoves /\ moves' = moves + 1
    /\ Begins(p, "bump", NoGrant, NoFence, NoFence, "bump")
    /\ \A q \in Procs : op[q] # "bump"       \* one callback at a time, OnScopeLost
    /\ UNCHANGED <<stale, diskVars, status, ledgerVars, heldVars, gate, storeVars, bootVars, faults, history>>

\* The memory moves before the file does.
BumpEarly(p) ==
    /\ pc[p] = "bump"
    /\ \E w \in Wrote(epochFile, epoch + 1) :
          /\ epochFile' = w[1] /\ epoch' = epoch + 1
          /\ OkIf(w[2]) /\ Goes(p, "bump", "move")
    /\ UNCHANGED <<file, deltas, running, status, current, seq, grants, sessions, heldVars, gate,
                   storeVars, op, on, fib, ref, ticket, stale, bootVars, moves, history>>

Bump(p) ==
    /\ pc[p] = "bump"
    /\ \E w \in Wrote(epochFile, epoch + 1) :
          /\ epochFile' = w[1] /\ OkIf(w[2])
          /\ \/ /\ w[2] /\ epoch' = epoch + 1
                /\ Goes(p, "bump", "move") /\ UNCHANGED <<op, on, fib, ref, ticket, stale, gate>>
             \/ ~w[2] /\ Returns(p) /\ UNCHANGED epoch
    /\ UNCHANGED <<file, deltas, running, status, current, seq, grants, sessions, heldVars,
                   storeVars, bootVars, moves, history>>

\* Ledger.BumpEpoch.
MoveEpoch(p) ==
    /\ Goes(p, "move", "sweep")
    /\ current' = IF epoch > current THEN epoch ELSE current
    /\ UNCHANGED <<diskVars, status, epoch, seq, grants, sessions, heldVars, gate, storeVars, op,
                   on, fib, ref, ticket, stale, bootVars, moves, faults, history>>

\* BumpEpoch and Yield, their sweeps: the process goes, then the ledger's
\* entry.  The delta a swept fiber was resumed from is dropped next.
Swept(p, g) ==
    /\ running' = running \ {sessions[g].fence}
    /\ sessions' = [sessions EXCEPT ![g] = NoSession]
    /\ ref' = [ref EXCEPT ![p] = sessions[g].delta]
    /\ pc' = [pc EXCEPT ![p] = "drop"]

Sweepable(p) ==
    {g \in Grants : /\ sessions[g].st = "running"
                    /\ CASE op[p] = "bump" -> sessions[g].fence[2] < current
                         [] OTHER -> g = on[p]}

Sweep(p) ==
    /\ pc[p] = "sweep"
    /\ \/ \E g \in Sweepable(p) : Swept(p, g)
       \/ Sweepable(p) = {} /\ Goes(p, "sweep", "ask") /\ UNCHANGED <<running, sessions, ref>>
    /\ UNCHANGED <<epochFile, file, deltas, status, epoch, current, seq, grants, heldVars, gate,
                   storeVars, op, on, fib, ticket, stale, bootVars, moves, faults, history>>

\* discardDelta, which may fail and is then only logged.
DiscardDelta(p) ==
    /\ pc[p] = "drop"
    /\ (Works /\ deltas' = deltas \ {ref[p]}) \/ (Fails /\ UNCHANGED deltas)
    /\ \/ op[p] \in {"yield", "bump"} /\ Goes(p, "drop", "sweep") /\ UNCHANGED <<op, on, fib, ref, ticket, stale, gate>>
       \/ op[p] = "park" /\ Goes(p, "drop", "ask") /\ UNCHANGED <<op, on, fib, ref, ticket, stale, gate>>
       \/ op[p] = "discard" /\ Goes(p, "drop", "forget") /\ UNCHANGED <<op, on, fib, ref, ticket, stale, gate>>
       \/ op[p] = "end" /\ Returns(p)
    /\ UNCHANGED <<epochFile, file, running, status, ledgerVars, heldVars, storeVars, bootVars,
                   moves, history>>

(***************************************************************************)
(* Clone, Park, Release, Discard, Yield and Admit.                         *)
(***************************************************************************)

\* Clone under the session's gate: the resolve mints the fence.  Locate is
\* Mobility's.
CloneResolve(p, g) ==
    /\ g \in grants /\ sessions[g].st # "running" /\ seq[g] < MaxSeq
    /\ Begins(p, "clone", g, <<g, current, seq[g] + 1>>, sessions[g].delta, "birth")
    /\ Hold(p, g)
    /\ seq' = [seq EXCEPT ![g] = @ + 1]
    /\ last' = [last EXCEPT ![g] = <<current, seq[g] + 1>>]
    /\ UNCHANGED <<diskVars, status, epoch, current, grants, sessions, heldVars, storeVars, stale,
                   bootVars, moves, faults, acked, cut, consumed, stray>>

CloneBirth(p) ==
    /\ pc[p] = "birth"
    /\ \/ Works /\ Goes(p, "birth", "commit") /\ running' = running \cup {fib[p]}
          /\ UNCHANGED <<op, on, fib, ref, ticket, stale, gate>>
       \/ Fails /\ Returns(p) /\ UNCHANGED running
    /\ UNCHANGED <<epochFile, file, deltas, status, ledgerVars, heldVars, storeVars, bootVars, moves,
                   history>>

\* The commit is refused once the grant was revoked or the epoch moved; the
\* process is released and a resumed session stays parked.  Only a resume
\* persists.
CloneCommit(p) ==
    LET g == on[p] refused == g \notin grants \/ p \in stale \/ fib[p][2] # current IN
    /\ pc[p] = "commit"
    /\ \/ /\ refused /\ running' = running \ {fib[p]} /\ Returns(p)
          /\ UNCHANGED <<sessions, acked, cut>>
       \/ /\ ~refused /\ ref[p] # NoFence
          /\ sessions' = [sessions EXCEPT ![g] = Session("running", fib[p], ref[p])]
          /\ acked' = [acked EXCEPT ![g] = NoFence] /\ cut' = cut \ {g}
          /\ Goes(p, "commit", "ask")
          /\ UNCHANGED <<running, op, on, fib, ref, ticket, stale, gate>>
       \/ /\ ~refused /\ ref[p] = NoFence
          /\ sessions' = [sessions EXCEPT ![g] = Session("running", fib[p], NoFence)]
          /\ cut' = IF acked[g] # NoFence THEN cut \cup {g} ELSE cut
          /\ Returns(p) /\ UNCHANGED <<running, acked>>
    /\ UNCHANGED <<epochFile, file, deltas, status, epoch, current, seq, grants, heldVars, storeVars,
                   bootVars, moves, faults, consumed, stray, last>>

BeginPark(p, g) ==
    /\ sessions[g].st = "running"
    /\ Begins(p, "park", g, sessions[g].fence, NoFence, "park")
    /\ Hold(p, g)
    /\ UNCHANGED <<diskVars, status, ledgerVars, heldVars, storeVars, stale, bootVars, moves, faults, history>>

\* Runtime.Park: the delta is on disk and the process is gone, or neither.
RuntimePark(p) ==
    /\ pc[p] = "park"
    /\ \/ /\ Works /\ fib[p] \in running
          /\ deltas' = deltas \cup {fib[p]} /\ running' = running \ {fib[p]}
          /\ Goes(p, "park", "parked")
          /\ UNCHANGED <<op, on, fib, ref, ticket, stale, gate>>
       \/ OkIf(fib[p] \notin running) /\ Returns(p) /\ UNCHANGED <<deltas, running>>
    /\ UNCHANGED <<epochFile, file, status, ledgerVars, heldVars, storeVars, bootVars, moves, 
                   history>>

\* OnPark.  A fiber swept or gone meanwhile leaves the ledger as it is, and
\* its delta belongs to nobody.
OnPark(p) ==
    LET g == on[p] s == sessions[g] IN
    /\ pc[p] = "parked"
    /\ IF s.st = "running" /\ s.fence = fib[p]
       THEN /\ sessions' = [sessions EXCEPT ![g] = Parked(fib[p])]
            /\ ref' = [ref EXCEPT ![p] = s.delta]
            /\ Goes(p, "parked", IF s.delta # NoFence THEN "drop" ELSE "ask")
            /\ UNCHANGED fib
       ELSE /\ Goes(p, "parked", "ask")
            /\ fib' = [fib EXCEPT ![p] = NoFence]
            /\ UNCHANGED <<sessions, ref>>
    /\ UNCHANGED <<diskVars, status, epoch, current, seq, grants, heldVars, gate, storeVars, op, on,
                   ticket, stale, bootVars, moves, faults, history>>

\* Release and OnExit: the session is forgotten.  An exit drops the delta
\* it was resumed from, a release only when asked to.  Neither persists.
End(p, g, drop) ==
    /\ sessions[g].st = "running"
    /\ running' = running \ {sessions[g].fence}
    /\ sessions' = [sessions EXCEPT ![g] = NoSession]
    /\ IF drop /\ sessions[g].delta # NoFence
       THEN Begins(p, "end", g, NoFence, sessions[g].delta, "drop")
       ELSE status = "serving" /\ pc[p] = "idle" /\ UNCHANGED <<pc, op, on, fib, ref, ticket>>
    /\ UNCHANGED <<epochFile, file, deltas, status, epoch, current, seq, grants, heldVars, gate,
                   storeVars, stale, bootVars, moves, faults, history>>

\* Discard of a session parked here: its delta, then its name.
Discard(p, g) ==
    /\ sessions[g].st = "parked"
    /\ Begins(p, "discard", g, NoFence, sessions[g].delta, "drop")
    /\ Hold(p, g)
    /\ acked' = [acked EXCEPT ![g] = NoFence] /\ cut' = cut \ {g}
    /\ UNCHANGED <<diskVars, status, ledgerVars, heldVars, storeVars, stale, bootVars, moves, faults,
                   consumed, stray, last>>

ForgetSession(p) ==
    /\ Goes(p, "forget", "ask")
    /\ sessions' = [sessions EXCEPT ![on[p]] = IF @.st = "parked" THEN NoSession ELSE @]
    /\ UNCHANGED <<diskVars, status, epoch, current, seq, grants, heldVars, gate, storeVars, op, on,
                   fib, ref, ticket, stale, bootVars, moves, faults, history>>

\* Yield: the grant goes first, so a commit in flight is refused.  Its
\* parked session keeps its delta, until the next boot only.
Yield(p, g) ==
    /\ g \in grants
    /\ Begins(p, "yield", g, NoFence, NoFence, "sweep")
    /\ grants' = grants \ {g}
    /\ stale' = stale \cup {q \in Procs : on[q] = g}
    /\ acked' = [acked EXCEPT ![g] = NoFence] /\ cut' = cut \ {g}
    /\ UNCHANGED <<diskVars, status, epoch, current, seq, sessions, heldVars, gate, storeVars,
                   bootVars, moves, faults, consumed, stray, last>>

Admitting(g) == \E p \in Procs : op[p] = "admit" /\ on[p] = g

\* Admit, from the ledger's entry on: what comes before is Admission's.
\* One admission of a grant runs at a time.  The refresh of an admitted
\* grant leaves all of this as it is, and is left out.
Admit(p, g) ==
    /\ ~Admitting(g) /\ g \notin grants
    /\ Begins(p, "admit", g, NoFence, NoFence, "take")
    /\ grants' = grants \cup {g}
    /\ UNCHANGED <<diskVars, status, epoch, current, seq, sessions, heldVars, gate, storeVars, stale,
                   bootVars, moves, faults, history>>

\* restoreHeld: the entry goes under heldMu, the ledger is asked after.
TakeHeld(p) ==
    LET g == on[p] IN
    /\ Goes(p, "take", "restore")
    /\ ref' = [ref EXCEPT ![p] = IF g \in held THEN kept[g].delta ELSE NoFence]
    /\ held' = held \ {g} /\ kept' = [kept EXCEPT ![g] = NoSession]
    /\ UNCHANGED <<diskVars, status, ledgerVars, gate, storeVars, op, on, fib, ticket, stale,
                   bootVars, moves, faults, history>>

RestoreParked(p) ==
    LET g == on[p] IN
    /\ Goes(p, "restore", "ask")
    /\ sessions' = IF ref[p] # NoFence /\ g \in grants /\ sessions[g] = NoSession
                   THEN [sessions EXCEPT ![g] = Parked(ref[p])] ELSE sessions
    /\ UNCHANGED <<diskVars, status, epoch, current, seq, grants, heldVars, gate, storeVars, op, on,
                   fib, ref, ticket, stale, bootVars, moves, faults, history>>

(***************************************************************************)
(* SnapshotStore.Persist.                                                  *)
(***************************************************************************)

Ask(p) ==
    /\ asked < MaxAsked
    /\ Goes(p, "ask", "wait")
    /\ asked' = asked + 1
    /\ ticket' = [ticket EXCEPT ![p] = asked + 1]
    /\ UNCHANGED <<diskVars, status, ledgerVars, heldVars, gate, covered, lastErr, turn, image, op, on,
                   fib, ref, stale, bootVars, moves, faults, history>>

\* Persist returns to the call that made it, which then answers: the
\* caller of a park knows its session is kept, the caller of a resume that
\* its delta is not coming back.  An admission whose write fails is on
\* its own.
Answers(p, failed) ==
    LET g == on[p] IN
    /\ Returns(p)
    /\ acked' = IF op[p] = "park" /\ fib[p] # NoFence /\ p \notin stale /\ g \in grants /\ ~failed
                THEN [acked EXCEPT ![g] = fib[p]] ELSE acked
    /\ cut' = CASE acked' # acked -> cut \ {g}
                [] op[p] = "admit" /\ failed /\ acked[g] # NoFence -> cut \cup {g}
                [] OTHER -> cut
    /\ consumed' = IF op[p] = "clone" /\ ~failed THEN consumed \cup {ref[p]} ELSE consumed
    /\ UNCHANGED <<stray, last>>

\* A call takes the result of the write before the one it needs.
CoversLess(n) == covered + 1 >= n

\* A call that asked before a write began takes that write's result.
Covers(n) == covered >= n

Share(p) ==
    /\ pc[p] = "wait" /\ turn = NoProc /\ Covers(ticket[p])
    /\ Answers(p, lastErr)
    /\ UNCHANGED <<diskVars, status, ledgerVars, heldVars, storeVars, bootVars, moves, faults>>

LedgerSnapshot == [grants |-> grants, sess |-> sessions]

\* What boot held is left out.
WithoutHeld(img) == img

\* Core.snapshot adds what boot held, unless the ledger knows it already.
WithHeld(img) ==
    [grants |-> img.grants \cup held,
     sess |-> [g \in Grants |->
        IF g \in held \ img.grants /\ img.sess[g] = NoSession THEN kept[g] ELSE img.sess[g]]]

TakeTurn(p) ==
    /\ turn = NoProc /\ ~Covers(ticket[p])
    /\ Goes(p, "wait", "merge")
    /\ turn' = p /\ covered' = asked
    /\ image' = LedgerSnapshot
    /\ UNCHANGED <<diskVars, status, ledgerVars, heldVars, gate, asked, lastErr, op, on, fib, ref,
                   ticket, stale, bootVars, moves, faults, history>>

MergeHeld(p) ==
    /\ Goes(p, "merge", "write")
    /\ image' = WithHeld(image)
    /\ UNCHANGED <<diskVars, status, ledgerVars, heldVars, gate, asked, covered, lastErr, turn, op, on,
                   fib, ref, ticket, stale, bootVars, moves, faults, history>>

Write(p) ==
    /\ pc[p] = "write"
    /\ \E w \in Wrote(file, image) :
          file' = w[1] /\ lastErr' = ~w[2] /\ Answers(p, ~w[2]) /\ OkIf(w[2])
    /\ turn' = NoProc /\ image' = Empty
    /\ UNCHANGED <<epochFile, deltas, running, status, ledgerVars, heldVars, asked, covered, bootVars,
                   moves>>

(***************************************************************************)
(* Reconcile and the boot.                                                 *)
(***************************************************************************)

Load ==
    /\ status = "load" /\ status' = "admit"
    /\ snap' = file
    /\ todo' = IF file = Torn THEN {} ELSE file.grants
    /\ UNCHANGED <<diskVars, ledgerVars, heldVars, gate, storeVars, procVars, moves, faults, history>>

\* A grant of the snapshot whose token verifies is admitted, and Admit
\* persists.  One that cannot be checked is held; one that expired, does
\* not verify or does not warm is dropped.
ReconcileGrant(g) ==
    /\ status = "admit" /\ g \in todo /\ todo' = todo \ {g}
    /\ \/ /\ grants' = grants \cup {g}
          /\ status' = "admit-persist" /\ UNCHANGED <<held, acked, cut>>
       \/ /\ held' = held \cup {g} /\ UNCHANGED <<grants, status, acked, cut>>
       \/ /\ acked' = [acked EXCEPT ![g] = NoFence] /\ cut' = cut \ {g}
          /\ UNCHANGED <<grants, held, status>>
    /\ UNCHANGED <<diskVars, epoch, current, seq, sessions, kept, gate, storeVars, procVars, snap,
                   moves, faults, consumed, stray, last>>

\* Persist at boot: nothing else runs, and the calls are not counted.
BootPersist(next) ==
    /\ status' = next
    /\ \E w \in Wrote(file, WithHeld(LedgerSnapshot)) :
          /\ file' = w[1] /\ lastErr' = ~w[2] /\ OkIf(w[2])
          /\ cut' = IF w[2] \/ next # "serving" THEN cut
                    ELSE cut \cup {g \in Grants : acked[g] # NoFence}
    /\ UNCHANGED <<epochFile, deltas, running, ledgerVars, heldVars, gate, asked, covered, turn, image,
                   procVars, snap, todo, moves, acked, consumed, stray, last>>

AdmitPersist == status = "admit-persist" /\ BootPersist("admit")

\* The parked sessions whose delta is still there are held with their grant
\* or restored to the ledger.
SnapSession(g) == IF snap = Torn THEN NoSession ELSE snap.sess[g]

Usable(g) == SnapSession(g).st = "parked" /\ SnapSession(g).delta \in deltas

ReconcileSessions ==
    /\ status = "admit" /\ todo = {} /\ status' = "list"
    /\ kept' = [g \in Grants |-> IF Usable(g) /\ g \in held THEN SnapSession(g) ELSE NoSession]
    /\ sessions' = [g \in Grants |->
          IF Usable(g) /\ g \in grants THEN Parked(SnapSession(g).delta) ELSE NoSession]
    /\ UNCHANGED <<diskVars, epoch, current, seq, grants, held, gate, storeVars, procVars, bootVars,
                   moves, faults, history>>

\* The processes of the last epoch are left.
OrphansLess == {f \in running : f[2] < current - 1}

\* Every process of an earlier epoch is killed, though a kill may fail, and
\* the delta of a session that was running goes.
Orphans == {f \in running : f[2] < current}

\* The deltas the snapshot's running sessions were resumed from.
Spent == {SnapSession(g).delta : g \in {h \in Grants : SnapSession(h).st = "running"}} \cap deltas

KillOrphans ==
    /\ status = "list" /\ status' = "sweep"
    /\ \E failed \in SUBSET Orphans, left \in SUBSET Spent :
          /\ OkIf(failed = {} /\ left = {})
          /\ running' = (running \ Orphans) \cup failed /\ stray' = failed
          /\ deltas' = deltas \ (Spent \ left)
    /\ UNCHANGED <<epochFile, file, ledgerVars, heldVars, gate, storeVars, procVars, bootVars, moves,
                   acked, cut, consumed, last>>

\* sweepDeltas: what no parked session names, held ones included.
Named(img) == {img.sess[g].delta : g \in {h \in Grants : img.sess[h].st = "parked"}}

SweepDeltas ==
    /\ status = "sweep" /\ status' = "persist"
    /\ LET unnamed == IF snap = Torn THEN {} ELSE deltas \ Named(WithHeld(LedgerSnapshot)) IN
       \E left \in SUBSET unnamed : OkIf(left = {}) /\ deltas' = deltas \ (unnamed \ left)
    /\ UNCHANGED <<epochFile, file, running, ledgerVars, heldVars, gate, storeVars, procVars, bootVars,
                   moves, history>>

LastPersist == status = "persist" /\ BootPersist("serving")

\* fiberd stops: a crash at any step, or a boot that returns an error
\* (Runtime.List).  A boot or an admission cut short is remembered.
Stop ==
    /\ status # "down" /\ status' = "down"
    /\ cut' = cut \cup {g \in Grants : acked[g] # NoFence /\ (status # "serving" \/ Admitting(g))}
    /\ epoch' = 0 /\ current' = 0 /\ seq' = [g \in Grants |-> 0]
    /\ grants' = {} /\ sessions' = Empty.sess /\ held' = {} /\ kept' = Empty.sess
    /\ gate' = [g \in Grants |-> NoProc]
    /\ asked' = 0 /\ covered' = 0 /\ lastErr' = FALSE /\ turn' = NoProc /\ image' = Empty
    /\ pc' = [p \in Procs |-> "idle"] /\ op' = [p \in Procs |-> "none"]
    /\ on' = [p \in Procs |-> NoGrant] /\ fib' = [p \in Procs |-> NoFence]
    /\ ref' = [p \in Procs |-> NoFence] /\ ticket' = [p \in Procs |-> 0] /\ stale' = {}
    /\ snap' = Empty /\ todo' = {}
    /\ UNCHANGED <<diskVars, moves, faults, acked, consumed, stray, last>>

\* A file goes bad between two lives, or is edited.
GoBad ==
    /\ status = "down" /\ Fails
    /\ \/ epochFile' = Torn /\ UNCHANGED <<file, acked, cut>>
       \/ file' = Torn /\ acked' = [g \in Grants |-> NoFence] /\ cut' = {} /\ UNCHANGED epochFile
    /\ UNCHANGED <<deltas, running, status, ledgerVars, heldVars, gate, storeVars, procVars, bootVars,
                   moves, consumed, stray, last>>

Next ==
    \/ OpenEpochStore \/ Load \/ AdmitPersist \/ ReconcileSessions \/ KillOrphans
    \/ SweepDeltas \/ LastPersist \/ Stop \/ GoBad
    \/ \E g \in Grants : ReconcileGrant(g)
    \/ \E p \in Procs :
          \/ BeginBump(p) \/ Bump(p) \/ MoveEpoch(p) \/ Sweep(p) \/ DiscardDelta(p)
          \/ CloneBirth(p) \/ CloneCommit(p) \/ RuntimePark(p) \/ OnPark(p) \/ ForgetSession(p)
          \/ TakeHeld(p) \/ RestoreParked(p)
          \/ Ask(p) \/ Share(p) \/ TakeTurn(p) \/ MergeHeld(p) \/ Write(p)
          \/ \E g \in Grants :
                CloneResolve(p, g) \/ BeginPark(p, g) \/ Discard(p, g) \/ Yield(p, g) \/ Admit(p, g)
                \/ \E drop \in BOOLEAN : End(p, g, drop)

Spec == Init /\ [][Next]_vars

(***************************************************************************)
(* Properties.                                                             *)
(***************************************************************************)

\* The type invariant, by the parts of the state.
SessionType ==
    [st : {"none", "running", "parked"}, fence : Fences \cup {NoFence}, delta : Fences \cup {NoFence}]
ImageType == [grants : SUBSET Grants, sess : [Grants -> SessionType]]

ASSUME TornAssumption == Torn \notin ImageType

DiskType ==
    /\ epochFile \in Nat \cup {Torn} /\ file \in ImageType \cup {Torn}
    /\ deltas \subseteq Fences /\ running \subseteq Fences

LedgerType ==
    /\ epoch \in Nat /\ current \in Nat /\ seq \in [Grants -> Nat] /\ grants \subseteq Grants
    /\ sessions \in [Grants -> SessionType]
    /\ held \subseteq Grants /\ kept \in [Grants -> SessionType]

StoreType ==
    /\ asked \in Nat /\ covered \in Nat /\ lastErr \in BOOLEAN
    /\ turn \in Procs \cup {NoProc} /\ image \in ImageType

ProcType ==
    /\ gate \in [Grants -> Procs \cup {NoProc}]
    /\ pc \in [Procs -> {"idle", "bump", "move", "sweep", "drop", "birth", "commit", "park", "parked",
                         "forget", "take", "restore", "ask", "wait", "merge", "write"}]
    /\ op \in [Procs -> {"none", "bump", "clone", "park", "end", "discard", "yield", "admit"}]
    /\ on \in [Procs -> Grants \cup {NoGrant}]
    /\ fib \in [Procs -> Fences \cup {NoFence}] /\ ref \in [Procs -> Fences \cup {NoFence}]
    /\ ticket \in [Procs -> Nat] /\ stale \subseteq Procs

BootType ==
    /\ status \in {"down", "load", "admit", "admit-persist", "list", "sweep", "persist", "serving"}
    /\ snap \in ImageType \cup {Torn} /\ todo \subseteq Grants

HistoryType ==
    /\ moves \in Nat /\ faults \in Nat
    /\ acked \in [Grants -> Fences \cup {NoFence}] /\ cut \subseteq Grants
    /\ consumed \subseteq Fences /\ stray \subseteq Fences
    /\ last \in [Grants -> Nat \X Nat]

TypeOK == DiskType /\ LedgerType /\ StoreType /\ ProcType /\ BootType /\ HistoryType

\* A session whose park was answered and written is on disk until it is
\* resumed, discarded or its grant goes: the snapshot names the grant and
\* the delta, and the delta is there.  While its grant is being admitted
\* again, and after a boot or an admission that was cut short, the code
\* does not keep this (SnapshotStore.Persist, Core.snapshot, Reconcile).
DurableParked ==
    \A g \in Grants :
       acked[g] # NoFence /\ g \notin cut /\ status \in {"serving", "down"} /\ ~Admitting(g) =>
          /\ acked[g] \in deltas
          /\ file # Torn /\ g \in file.grants /\ file.sess[g] = Parked(acked[g])

\* A delta whose resume was answered and written is never what a restart
\* would resume: no session is parked in it, none held, and the file names
\* none (Clone's persist, "boot must not resume it").
NoneResumedTwice ==
    \A g \in Grants :
       /\ sessions[g].st = "parked" => sessions[g].delta \notin consumed
       /\ kept[g].delta \notin consumed
       /\ file # Torn /\ file.sess[g].st = "parked" => file.sess[g].delta \notin consumed

\* A fence minted for a grant is newer than every fence minted for it
\* before, across bumps, crashes and an epoch file that does not read
\* (Fence.Newer; OpenEpochStore and Bump write before the epoch is used).
FencesAscend ==
    [][\A g \in Grants : seq'[g] > seq[g] =>
          \/ last'[g][1] > last[g][1]
          \/ last'[g][1] = last[g][1] /\ last'[g][2] > last[g][2]]_vars

\* The delta of a session parked in the ledger or held since boot is on
\* disk, whatever is dropped, swept or superseded around it; a Discard
\* takes the delta before the name (sweepDeltas, discardDelta).
KeptHaveDelta ==
    \A g \in Grants :
       /\ sessions[g].st = "parked" =>
             \/ sessions[g].delta \in deltas
             \/ \E p \in Procs : op[p] = "discard" /\ gate[g] = p
       /\ kept[g].st = "parked" => kept[g].delta \in deltas

\* Once fiberd serves, a fiber's process is one the ledger knows, one a
\* goroutine has in hand, or one boot tried to kill and could not
\* (Reconcile step 3; the sweeps of Yield and BumpEpoch).
OrphansGo ==
    status = "serving" =>
       running \subseteq {sessions[g].fence : g \in Grants} \cup {fib[p] : p \in Procs} \cup stray

\* The plain promise: a parked session that was answered is there once
\* fiberd serves again ("Grants and parked deltas survive",
\* docs/architecture.md:65).
ParkedSurvives ==
    status = "serving" =>
       \A g \in Grants : acked[g] # NoFence /\ ~Admitting(g) =>
          \/ sessions[g].st = "parked" /\ sessions[g].delta = acked[g]
          \/ g \in held /\ kept[g].delta = acked[g]
=============================================================================
