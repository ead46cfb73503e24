------------------------------ MODULE AuditSpool ------------------------------
(***************************************************************************)
(* The audit spool (pkg/core/audit.go): a log of hash-chained lines, with  *)
(* gaps for the writes that failed, signed checkpoints, a group fsync that *)
(* serves concurrent Sync appends, and a poison that the first failed      *)
(* fsync leaves.  The process may crash anywhere, with or without the      *)
(* machine, and the spool is opened again.                                 *)
(*                                                                         *)
(* A hash is a number no other line has.  What s.mu guards is one record,  *)
(* spool, since an append writes up to three lines under one hold of it.   *)
(***************************************************************************)
EXTENDS Integers, Sequences, FiniteSets, FiniteSetsExt

CONSTANTS
    Procs,      \* goroutines that append or close
    Every,      \* records between checkpoints
    Faults,     \* how a write may fail, a subset of AllFaults
    MaxLines    \* bound: writes attempted

\* "clean": nothing is on disk.  "torn": a part of the line is.  "whole": all
\* of it but its newline.  "gap": the write of a gap may fail and the write that
\* follows it under the same hold of s.mu succeed.
AllFaults == {"clean", "torn", "whole", "gap"}

ASSUME SpoolAssumption == Every \in Nat \ {0} /\ Faults \subseteq AllFaults /\ MaxLines \in Nat

NoRange == [from |-> 0, to |-> 0]
NoFsync == [w |-> 0, lines |-> 0]
Torn == [k |-> "torn", seq |-> 0, prev |-> 0, hash |-> 0, lost |-> NoRange, signs |-> <<>>]

VARIABLES
    up,         \* "down", "open" or "closed": the process has the file open
    spool,      \* what s.mu guards, and the file
    closed,     \* Close has begun
    synced,     \* records of this process that an fsync covers
    syncing,    \* an fsync is in flight
    poison,     \* an fsync has failed
    pc,         \* where each goroutine is
    n,          \* the write its fsync must cover
    mine,       \* the hash of its own record
    upto,       \* what the fsync it leads covers: records and lines
    durable,    \* lines that survive a crash of the machine
    acked       \* hashes of the Sync records whose Append returned nil

vars == <<up, spool, closed, synced, syncing, poison, pc, n, mine, upto, durable, acked>>
syncVars == <<synced, syncing, poison, upto, durable>>

Init ==
    /\ up = "down"
    /\ spool = [file |-> <<>>, ragged |-> FALSE, newline |-> FALSE, seq |-> 0, prev |-> 0,
                lost |-> NoRange, since |-> 0, written |-> 0, ids |-> 0]
    /\ closed = FALSE
    /\ synced = 0 /\ syncing = FALSE /\ poison = FALSE
    /\ pc = [p \in Procs |-> "idle"]
    /\ n = [p \in Procs |-> 0]
    /\ mine = [p \in Procs |-> 0]
    /\ upto = NoFsync
    /\ durable = 0
    /\ acked = {}

-----------------------------------------------------------------------------
(* Writing, under s.mu *)

\* The bytes reach the file: glued to a line without its newline, unless the
\* spool writes one first.
Put(s, line) ==
    IF s.ragged /\ ~s.newline
    THEN [s.file EXCEPT ![Len(s.file)] = Torn]
    ELSE Append(s.file, line)

\* Mutant: only the first lost number is kept.
LoseFirst(range, q) == IF range = NoRange THEN [from |-> q, to |-> q] ELSE range

\* The numbers lost so far and the one that is lost now.
Lose(range, q) == IF range = NoRange THEN [from |-> q, to |-> q] ELSE [range EXCEPT !.to = q]

\* write of a record of kind k that names lost and signs what signs says.
Write(s, k, lost, signs, o) ==
    LET q == s.seq + 1
        line == [k |-> k, seq |-> q, prev |-> s.prev, hash |-> s.ids + 1,
                 lost |-> lost, signs |-> signs]
    IN IF o = "ok"
       THEN [s EXCEPT !.file = Put(s, line), !.ragged = FALSE, !.newline = FALSE,
                      !.seq = q, !.prev = line.hash, !.ids = @ + 1,
                      !.since = @ + 1, !.written = @ + 1]
       ELSE [s EXCEPT !.file = IF o = "clean" THEN @ ELSE Put(s, IF o = "whole" THEN line ELSE Torn),
                      !.ragged = @ \/ o # "clean", !.newline = TRUE,
                      !.seq = q, !.ids = @ + 1, !.lost = Lose(@, q)]

\* Mutant: nothing names what was lost.
WriteGapNever(s, o) == [s EXCEPT !.lost = NoRange]

\* writeGap: the lost numbers get a gap.  Its own failure is taken back into
\* the range and not reported to the append that follows.
WriteGap(s, o) ==
    IF s.lost = NoRange THEN s
    ELSE LET t == Write([s EXCEPT !.lost = NoRange], "gap", s.lost, <<>>, o)
         IN IF o = "ok" THEN t ELSE [t EXCEPT !.lost.from = s.lost.from]

\* checkpoint: the last number and hash are signed.
Checkpoint(s, o) ==
    LET t == Write(s, "checkpoint", NoRange, <<s.seq, s.prev>>, o)
    IN IF o = "ok" THEN [t EXCEPT !.since = 0] ELSE t

\* How a write may end, and which write may follow a gap's in one hold of s.mu.
Outcomes == {"ok"} \cup (Faults \ {"gap"})
Follows(g, o) == "gap" \in Faults \/ g = "ok" \/ o # "ok"

-----------------------------------------------------------------------------
(* Append and Close *)

\* Append, up to its hold of s.mu: the gap, the record, a checkpoint if one is
\* due.  A failed record is the caller's error.
AppendRecord(p, d) ==
    /\ up = "open" /\ ~closed
    /\ pc[p] = "idle"
    /\ spool.ids + 3 <= MaxLines
    /\ \E g \in Outcomes, o \in Outcomes, c \in Outcomes :
          LET s1 == WriteGap(spool, g)
              s2 == Write(s1, "record", NoRange, <<>>, o)
              s3 == IF o = "ok" /\ s2.since >= Every THEN Checkpoint(s2, c) ELSE s2
          IN /\ Follows(g, o)
             /\ spool' = s3
             /\ IF o = "ok" /\ d = "sync"
                THEN /\ pc' = [pc EXCEPT ![p] = "sync"]
                     /\ n' = [n EXCEPT ![p] = s3.written]
                     /\ mine' = [mine EXCEPT ![p] = s2.prev]
                ELSE UNCHANGED <<pc, n, mine>>
    /\ UNCHANGED <<up, closed, syncVars, acked>>

\* Close refuses new appends, signs what no checkpoint covers, and waits for
\* an fsync through the group path.
CloseSpool(p) ==
    /\ up = "open" /\ ~closed
    /\ pc[p] = "idle"
    /\ spool.ids + 2 <= MaxLines
    /\ closed' = TRUE
    /\ \E g \in Outcomes, c \in Outcomes :
          LET s1 == WriteGap(spool, g)
              s2 == IF s1.since > 0 THEN Checkpoint(s1, c) ELSE s1
          IN Follows(g, c) /\ spool' = s2 /\ n' = [n EXCEPT ![p] = s2.written]
    /\ pc' = [pc EXCEPT ![p] = "close"]
    /\ UNCHANGED <<up, syncVars, mine, acked>>

-----------------------------------------------------------------------------
(* syncThrough *)

\* Mutant: an fsync in flight is taken to cover the caller.
LeadOrJoin(p) ==
    /\ pc[p] \in {"sync", "close"}
    /\ synced < n[p] /\ ~poison
    /\ IF syncing
       THEN /\ synced' = n[p] /\ UNCHANGED <<syncing, upto, pc>>
       ELSE /\ syncing' = TRUE /\ synced' = synced
            /\ upto' = [w |-> spool.written, lines |-> Len(spool.file)]
            /\ pc' = [pc EXCEPT ![p] = IF @ = "sync" THEN "lead" ELSE "closeLead"]
    /\ UNCHANGED <<up, spool, closed, poison, n, mine, durable, acked>>

\* The first caller that finds no fsync in flight leads one, for everything
\* written by now.  The others wait for its end.
Lead(p) ==
    /\ pc[p] \in {"sync", "close"}
    /\ synced < n[p] /\ ~poison /\ ~syncing
    /\ syncing' = TRUE
    /\ upto' = [w |-> spool.written, lines |-> Len(spool.file)]
    /\ pc' = [pc EXCEPT ![p] = IF @ = "sync" THEN "lead" ELSE "closeLead"]
    /\ UNCHANGED <<up, spool, closed, synced, poison, n, mine, durable, acked>>

\* The call is over, and its locals with it.
Returns(p) ==
    /\ pc' = [pc EXCEPT ![p] = "idle"]
    /\ n' = [n EXCEPT ![p] = 0]
    /\ mine' = [mine EXCEPT ![p] = 0]

Back(p) == pc' = [pc EXCEPT ![p] = IF @ = "lead" THEN "sync" ELSE "close"]

\* The kernel drops the pages a failed fsync could not write, and a later
\* fsync does not retry them.
FsyncOk(p) ==
    /\ pc[p] \in {"lead", "closeLead"}
    /\ syncing' = FALSE
    /\ synced' = IF synced > upto.w THEN synced ELSE upto.w
    /\ durable' = IF poison THEN durable ELSE upto.lines
    /\ upto' = NoFsync
    /\ Back(p)
    /\ UNCHANGED <<up, spool, closed, poison, n, mine, acked>>

FsyncFails(p) ==
    /\ pc[p] \in {"lead", "closeLead"}
    /\ syncing' = FALSE
    /\ poison' = TRUE
    /\ upto' = NoFsync
    /\ Back(p)
    /\ UNCHANGED <<up, spool, closed, synced, n, mine, durable, acked>>

\* An fsync that began after the write has covered it: Append acks.
SyncDone(p) ==
    /\ pc[p] = "sync"
    /\ synced >= n[p]
    /\ acked' = acked \cup {mine[p]}
    /\ Returns(p)
    /\ UNCHANGED <<up, spool, closed, syncVars>>

\* Mutant: only Close minds the poison, and a Sync append waits on.
SyncRefusedNever(p) ==
    /\ pc[p] = "close"
    /\ synced < n[p] /\ poison
    /\ Returns(p)
    /\ UNCHANGED <<up, spool, closed, syncVars, acked>>

\* A poisoned spool refuses what no earlier fsync covered.
SyncRefused(p) ==
    /\ pc[p] = "sync"
    /\ synced < n[p] /\ poison
    /\ Returns(p)
    /\ UNCHANGED <<up, spool, closed, syncVars, acked>>

\* Close has its fsync, or the failure, and closes the file.
CloseDone(p) ==
    /\ pc[p] = "close"
    /\ synced >= n[p] \/ poison
    /\ up' = "closed"
    /\ Returns(p)
    /\ UNCHANGED <<spool, closed, syncVars, acked>>

-----------------------------------------------------------------------------
(* Crash and OpenSpool *)

Readable(f) == {i \in DOMAIN f : f[i].k # "torn"}

\* The process ends and its goroutines with it.  The machine may end too: of
\* the lines that are not durable a prefix survives, cut anywhere.
Crash ==
    /\ up # "down"
    /\ up' = "down"
    /\ \E m \in durable .. Len(spool.file), cut \in BOOLEAN, r \in BOOLEAN :
          /\ cut => m < Len(spool.file)
          /\ spool' = [spool EXCEPT
                !.file = IF cut THEN Append(SubSeq(@, 1, m), Torn) ELSE SubSeq(@, 1, m),
                !.ragged = IF cut THEN TRUE ELSE m > 0 /\ (r \/ (m = Len(spool.file) /\ @)),
                !.newline = FALSE, !.seq = 0, !.prev = 0,
                !.lost = NoRange, !.since = 0, !.written = 0]
    /\ pc' = [p \in Procs |-> "idle"]
    /\ n' = [p \in Procs |-> 0]
    /\ mine' = [p \in Procs |-> 0]
    /\ closed' = FALSE
    /\ synced' = 0 /\ syncing' = FALSE /\ poison' = FALSE /\ upto' = NoFsync
    /\ UNCHANGED <<durable, acked>>

\* OpenSpool: the sequence and the chain go on from the last line that reads,
\* and an unreadable last line gets a gap.  If that fails, so does the open.
OpenSpool ==
    /\ up = "down"
    /\ spool.ids < MaxLines
    /\ LET R == Readable(spool.file)
           torn == Len(spool.file) > 0 /\ Len(spool.file) \notin R
           s == [spool EXCEPT !.newline = spool.ragged,
                              !.seq = Max({0} \cup {spool.file[i].seq : i \in R}),
                              !.prev = IF R = {} THEN 0 ELSE spool.file[Max(R)].hash,
                              !.lost = NoRange, !.since = 0, !.written = 0]
       IN \E o \in IF torn THEN Outcomes ELSE {"ok"} :
             /\ spool' = IF torn THEN Write(s, "gap", NoRange, <<>>, o) ELSE s
             /\ up' = IF o = "ok" THEN "open" ELSE "down"
    /\ UNCHANGED <<closed, syncVars, pc, n, mine, acked>>

-----------------------------------------------------------------------------
Sync(p) ==
    \/ Lead(p) \/ FsyncOk(p) \/ FsyncFails(p)
    \/ SyncDone(p) \/ SyncRefused(p) \/ CloseDone(p)

Next ==
    \/ \E p \in Procs : \/ \E d \in {"sync", "best"} : AppendRecord(p, d)
                        \/ CloseSpool(p) \/ Sync(p)
    \/ Crash \/ OpenSpool

Spec == Init /\ [][Next]_vars

\* A goroutine that can go on does: an fsync ends, and its end wakes every
\* waiter (syncCond.Broadcast).
FairSpec == Spec /\ \A p \in Procs : WF_vars(Sync(p))

-----------------------------------------------------------------------------
(* Properties *)

\* The lines, what s.mu guards, and the type invariant.
RangeType == [from : Nat, to : Nat]
LineType == [k : {"torn", "record", "gap", "checkpoint"}, seq : Nat, prev : Nat, hash : Nat,
             lost : RangeType, signs : Seq(Nat)]
SpoolType == [file : Seq(LineType), ragged : BOOLEAN, newline : BOOLEAN, seq : Nat, prev : Nat,
              lost : RangeType, since : Nat, written : Nat, ids : Nat]

TypeOK ==
    /\ up \in {"down", "open", "closed"} /\ spool \in SpoolType
    /\ pc \in [Procs -> {"idle", "sync", "lead", "close", "closeLead"}]
    /\ n \in [Procs -> Nat] /\ mine \in [Procs -> Nat]
    /\ closed \in BOOLEAN /\ syncing \in BOOLEAN /\ poison \in BOOLEAN
    /\ upto \in [w : Nat, lines : Nat] /\ acked \subseteq Nat
    /\ synced \in Nat /\ durable \in 0 .. Len(spool.file)

\* The readable line before line j, and whether an unreadable one lies between.
Before(f, j) == Max({i \in Readable(f) : i < j})
TornBefore(f, j) == \E i \in DOMAIN f : i < j /\ i \notin Readable(f)
                        /\ \A r \in Readable(f) : r < j => r < i

\* VerifySpool: a chain from its first line on, numbers that go up by one but
\* across a gap that names the missing ones, a gap after each unreadable line,
\* and checkpoints that sign the line before them.
VerifySpool(f) ==
    \A j \in Readable(f) :
        IF \A i \in Readable(f) : i >= j
        THEN f[j].prev = 0 /\ f[j].k # "checkpoint"
        ELSE LET b == f[Before(f, j)]
                 gap == f[j].k = "gap" /\ f[j].lost # NoRange
             IN /\ f[j].prev = b.hash
                /\ gap => f[j].lost.from = b.seq + 1 /\ f[j].lost.to >= f[j].lost.from
                /\ f[j].seq = (IF gap THEN f[j].lost.to ELSE b.seq) + 1
                /\ TornBefore(f, j) => f[j].k = "gap"
                /\ f[j].k = "checkpoint" => f[j].signs = <<b.seq, b.hash>>

\* What the spool leaves on disk always verifies, after any failed writes,
\* crashes and reopens: audit-verify never takes the spool's own doing for
\* tampering ("no edit, removal or reordering goes unnoticed", VerifySpool).
SpoolVerifies == VerifySpool(spool.file)

\* "Under Sync, Append must not return until the record is durable on local
\* disk" (Auditor): an acked Sync record is among the lines no crash takes,
\* whichever fsync served it and whatever failed since.
AckedSurvive ==
    \A h \in acked : \E i \in 1 .. durable : spool.file[i].hash = h

\* Every number this process assigned is on disk, or named by a gap, or in the
\* range the next gap names (write, writeGap).
LostAreNamed ==
    up # "down" =>
        \A q \in 1 .. spool.seq :
            \/ q \in spool.lost.from .. spool.lost.to
            \/ \E i \in DOMAIN spool.file :
                  \/ spool.file[i].seq = q
                  \/ spool.file[i].lost # NoRange
                     /\ q \in spool.file[i].lost.from .. spool.file[i].lost.to

\* Every Sync append and every Close returns: no waiter misses the end of the
\* fsync it waits for, and a poisoned spool strands nobody.
AppendReturns == \A p \in Procs : (pc[p] # "idle") ~> (pc[p] = "idle")
==============================================================================
