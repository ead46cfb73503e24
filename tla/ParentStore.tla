----------------------------- MODULE ParentStore -----------------------------
(***************************************************************************)
(* The parent store of a home: the template checkpoints that its deltas    *)
(* are taken over, and the prune that removes those nothing names any more *)
(* (pkg/runtime/host/parents_linux.go, with registerParent, parent, Park,  *)
(* merge, ClaimDelta and publishParent as its users).                      *)
(*                                                                         *)
(* A warm instance and a delta's manifest name a parent.  A user of the    *)
(* store works in a section, with storeMu held for reading; the prune      *)
(* scans the names with no lock, then takes storeMu for writing if no one  *)
(* has it, and removes only if no section has ended since before the scan. *)
(*                                                                         *)
(* A delta is worked on by one operation at a time, its session's gate     *)
(* sees to that (SessionGate), and a warm by one PrepareTemplate.          *)
(***************************************************************************)
EXTENDS Integers, FiniteSets

CONSTANTS
    Procs,          \* the goroutines that use the store
    Parents,        \* checkpoints, by hash
    Warms, Deltas,  \* what may name one
    NoParent,
    PruneScans,     \* pruneScans, 3 in the code
    MaxSections,    \* bound: sections
    MaxUnread       \* bound: scans that fail

ASSUME StoreAssumption ==
    /\ NoParent \notin Parents
    /\ Warms \cap Deltas = {}
    /\ MaxSections \in Nat /\ MaxUnread \in Nat /\ PruneScans \in Nat

Names == Warms \cup Deltas
Maybe == Parents \cup {NoParent}

VARIABLES
    disk,               \* the entries of parents/
    open,               \* r.parents: those loaded
    links, images,      \* the entries that are links to images, and the images
    names,              \* what each warm and each delta names
    pc, verb, who, par, \* the operation of a goroutine, its name and its parent
    hold,               \* the images its resolve holds
    uses,               \* storeUses: sections that ended
    poked, again,       \* a prune is asked for; it is to be tried again
    ppc, seen, keep, todo, scans,
    unread,             \* scans that failed
    stuck               \* history: an entry could not be removed

users == <<pc, verb, who, par, hold>>
pruner == <<ppc, seen, keep, todo, scans>>
tree == <<disk, open, links, images>>
ends == <<unread, stuck>>
vars == <<tree, names, users, uses, poked, again, pruner, ends>>

\* The start: no warm yet, deltas and parents as an earlier fiberd left
\* them, and the first prune asked for.
Init ==
    /\ disk \in SUBSET Parents
    /\ open = {} /\ links = {} /\ images = {}
    /\ names \in [Names -> disk \cup {NoParent}] /\ \A w \in Warms : names[w] = NoParent
    /\ pc = [q \in Procs |-> "idle"] /\ verb = [q \in Procs |-> "none"]
    /\ who = [q \in Procs |-> NoParent]
    /\ par = [q \in Procs |-> NoParent] /\ hold = [q \in Procs |-> NoParent]
    /\ uses = 0 /\ poked = TRUE /\ again = FALSE
    /\ ppc = "idle" /\ seen = 0 /\ keep = {} /\ todo = {} /\ scans = 0
    /\ unread = 0 /\ stuck = FALSE

(***************************************************************************)
(* Sections.                                                               *)
(***************************************************************************)

InSection(q) == pc[q] \in {"file", "load", "pull", "using", "end"}

\* RLock waits for the prune's write lock.
UseParents(q, to) ==
    /\ ppc # "remove" /\ uses + Cardinality({r \in Procs : InSection(r)}) < MaxSections
    /\ pc' = [pc EXCEPT ![q] = to]

\* The operation is over.
Finish(q) ==
    /\ pc' = [pc EXCEPT ![q] = "idle"] /\ verb' = [verb EXCEPT ![q] = "none"]
    /\ who' = [who EXCEPT ![q] = NoParent] /\ par' = [par EXCEPT ![q] = NoParent]

After(q) ==
    \/ verb[q] = "warm" /\ pc' = [pc EXCEPT ![q] = "release"] /\ UNCHANGED <<verb, who, par>>
    \/ verb[q] = "claim" /\ pc' = [pc EXCEPT ![q] = "settle"] /\ UNCHANGED <<verb, who, par>>
    \/ verb[q] \notin {"warm", "claim"} /\ Finish(q)

\* The end of a section is not counted.
DoneUncounted(q) ==
    /\ pc[q] = "end" /\ After(q)
    /\ UNCHANGED <<uses, tree, names, hold, poked, again, pruner, ends>>

\* done.
Done(q) ==
    /\ pc[q] = "end" /\ uses' = uses + 1 /\ After(q)
    /\ UNCHANGED <<tree, names, hold, poked, again, pruner, ends>>

Idle(q, n) == pc[q] = "idle" /\ \A r \in Procs : pc[r] # "idle" => who[r] # n

Starts(q, v, n, p) ==
    /\ Idle(q, n)
    /\ verb' = [verb EXCEPT ![q] = v] /\ who' = [who EXCEPT ![q] = n] /\ par' = [par EXCEPT ![q] = p]

\* parent: what is loaded, or what the store has.  publishParent looks at
\* the store alone, and loads nothing.
Found(q) == par[q] \in (IF verb[q] = "push" THEN disk ELSE open \cup disk)

Load(q) ==
    /\ pc[q] = "load"
    /\ \/ /\ Found(q) /\ pc' = [pc EXCEPT ![q] = "using"] /\ UNCHANGED par
          /\ open' = IF verb[q] = "push" THEN open ELSE open \cup {par[q]}
       \/ /\ ~Found(q) /\ verb[q] = "claim"
          /\ pc' = [pc EXCEPT ![q] = "pull"] /\ UNCHANGED <<par, open>>
       \/ /\ ~Found(q) /\ verb[q] # "claim"
          /\ pc' = [pc EXCEPT ![q] = "using"] /\ par' = [par EXCEPT ![q] = NoParent] /\ UNCHANGED open
    /\ UNCHANGED <<disk, links, images, names, verb, who, hold, uses, poked, again, pruner, ends>>

\* A resume's merge, and a push's seal, end.
Used(q) ==
    /\ pc[q] = "using" /\ verb[q] \in {"merge", "push", "claim"} /\ pc' = [pc EXCEPT ![q] = "end"]
    /\ UNCHANGED <<tree, names, verb, who, par, hold, uses, poked, again, pruner, ends>>

(***************************************************************************)
(* PrepareTemplate.                                                        *)
(***************************************************************************)

\* resolve unpacks the artifact's images and holds them; a template without
\* images is checkpointed, and its checkpoint moved into the store.
Resolve(q, w, p) ==
    /\ Starts(q, "warm", w, p) /\ pc' = [pc EXCEPT ![q] = "resolved"]
    /\ \/ images' = images \cup {p} /\ hold' = [hold EXCEPT ![q] = p]
       \/ UNCHANGED <<images, hold>>
    /\ UNCHANGED <<disk, open, links, names, uses, poked, again, pruner, ends>>

WarmSection(q) ==
    /\ pc[q] = "resolved" /\ UseParents(q, "file")
    /\ UNCHANGED <<tree, names, verb, who, par, hold, uses, poked, again, pruner, ends>>

\* registerParent, and a failure of it: the warm then names no parent.
RegisterParent(q) ==
    /\ pc[q] = "file" /\ pc' = [pc EXCEPT ![q] = "using"]
    /\ \/ /\ disk' = disk \cup {par[q]} /\ open' = open \cup {par[q]}
          /\ links' = IF hold[q] = par[q] /\ par[q] \notin disk THEN links \cup {par[q]} ELSE links
          /\ UNCHANGED par
       \/ par' = [par EXCEPT ![q] = NoParent] /\ UNCHANGED <<disk, open, links>>
    /\ UNCHANGED <<images, names, verb, who, hold, uses, poked, again, pruner, ends>>

\* The warm is published, or fails on the way to it.
PublishWarm(q) ==
    /\ pc[q] = "using" /\ verb[q] = "warm" /\ pc' = [pc EXCEPT ![q] = "end"]
    /\ names' \in {names, [names EXCEPT ![who[q]] = par[q]]}
    /\ UNCHANGED <<tree, verb, who, par, hold, uses, poked, again, pruner, ends>>

\* releaseImages, and the poke for images that were never linked.
ReleaseImages(q) ==
    /\ pc[q] = "release" /\ Finish(q)
    /\ hold' = [hold EXCEPT ![q] = NoParent]
    /\ poked' = (poked \/ (hold[q] # NoParent /\ names[who[q]] # par[q]))
    /\ UNCHANGED <<tree, names, uses, again, pruner, ends>>

(***************************************************************************)
(* Park, resume, publish and claim.                                        *)
(***************************************************************************)

\* Park reads the parent of the warm, which may go at any time, and writes
\* the manifest that names it next.
Park(q, w, d) ==
    /\ names[d] = NoParent /\ Starts(q, "park", d, names[w]) /\ UseParents(q, "load")
    /\ UNCHANGED <<tree, names, hold, uses, poked, again, pruner, ends>>

WriteManifest(q) ==
    /\ pc[q] = "using" /\ verb[q] = "park" /\ pc' = [pc EXCEPT ![q] = "end"]
    /\ names' = [names EXCEPT ![who[q]] = par[q]]
    /\ UNCHANGED <<tree, verb, who, par, hold, uses, poked, again, pruner, ends>>

\* merge, and publishParent of a delta here.
UseDelta(q, d) ==
    /\ names[d] # NoParent /\ \E v \in {"merge", "push"} : Starts(q, v, d, names[d])
    /\ UseParents(q, "load")
    /\ UNCHANGED <<tree, names, hold, uses, poked, again, pruner, ends>>

\* ClaimDelta: the manifest that is pulled names its parent before any
\* section is open ...
PullDelta(q, d, p) ==
    /\ names[d] = NoParent /\ Starts(q, "claim", d, p)
    /\ pc' = [pc EXCEPT ![q] = "claim"] /\ names' = [names EXCEPT ![d] = p]
    /\ UNCHANGED <<tree, hold, uses, poked, again, pruner, ends>>

\* ... and ensureParent finds the parent here or pulls it.
EnsureParent(q) ==
    /\ pc[q] = "claim" /\ UseParents(q, "load")
    /\ UNCHANGED <<tree, names, verb, who, par, hold, uses, poked, again, pruner, ends>>

\* pullParent, and a failure of it, which drops the claim.
PullParent(q) ==
    /\ pc[q] = "pull" /\ pc' = [pc EXCEPT ![q] = "end"]
    /\ \/ disk' = disk \cup {par[q]} /\ UNCHANGED par
       \/ par' = [par EXCEPT ![q] = NoParent] /\ UNCHANGED disk
    /\ UNCHANGED <<open, links, images, names, verb, who, hold, uses, poked, again, pruner, ends>>

\* The claim takes the tag and stands, or is dropped.
Settle(q) ==
    /\ pc[q] = "settle" /\ Finish(q)
    /\ \/ par[q] # NoParent /\ UNCHANGED names
       \/ names' = [names EXCEPT ![who[q]] = NoParent]
    /\ UNCHANGED <<tree, hold, uses, poked, again, pruner, ends>>

(***************************************************************************)
(* A warm ends at any time (DropTemplate, its own exit), a delta when no   *)
(* operation has it (DiscardDelta).                                        *)
(***************************************************************************)

Drop(n) ==
    /\ names[n] # NoParent
    /\ n \in Deltas => \A q \in Procs : pc[q] # "idle" => who[q] # n
    /\ names' = [names EXCEPT ![n] = NoParent] /\ poked' = TRUE
    /\ UNCHANGED <<tree, users, uses, again, pruner, ends>>

(***************************************************************************)
(* The prune.                                                              *)
(***************************************************************************)

\* pruneLoop, and pruneParents from the start.
PruneBegin ==
    /\ ppc = "idle" /\ again' = FALSE
    /\ (poked /\ poked' = FALSE) \/ (again /\ UNCHANGED poked)
    /\ ppc' = "warms" /\ seen' = uses /\ keep' = {} /\ todo' = {} /\ scans' = 1
    /\ UNCHANGED <<tree, names, users, uses, ends>>

\* namedParents: the warms under r.mu, then the deltas, one file at a time.
ScanWarms ==
    /\ ppc = "warms" /\ ppc' = "deltas"
    /\ keep' = {names[w] : w \in Warms} \ {NoParent} /\ todo' = Deltas
    /\ UNCHANGED <<tree, names, users, uses, poked, again, seen, scans, ends>>

ScanDelta(d) ==
    /\ ppc = "deltas" /\ d \in todo /\ todo' = todo \ {d}
    /\ keep' = (keep \cup {names[d]}) \ {NoParent}
    /\ UNCHANGED <<tree, names, users, uses, poked, again, ppc, seen, scans, ends>>

PruneEnds == ppc' = "idle" /\ seen' = 0 /\ keep' = {} /\ todo' = {} /\ scans' = 0

\* What was put off is not tried again.
PutOffForGood == PruneEnds /\ UNCHANGED again

PutOff == PruneEnds /\ again' = TRUE

\* A directory that cannot be read puts the prune off.
ScanFails ==
    /\ ppc = "deltas" /\ todo # {} /\ PutOff
    /\ unread < MaxUnread /\ unread' = unread + 1
    /\ UNCHANGED <<tree, names, users, uses, poked, stuck>>

\* The lock is not looked at.
NeverBusy == FALSE

\* TryLock, and the count of sections that ended.
Busy == \E q \in Procs : InSection(q)

TryLock ==
    /\ ppc = "deltas" /\ todo = {}
    /\ \/ Busy /\ PutOff
       \/ /\ ~Busy /\ uses # seen /\ scans < PruneScans
          /\ ppc' = "warms" /\ seen' = uses /\ scans' = scans + 1 /\ UNCHANGED <<keep, todo, again>>
       \/ ~Busy /\ uses # seen /\ scans >= PruneScans /\ PutOff
       \/ ~Busy /\ uses = seen /\ ppc' = "remove" /\ UNCHANGED <<seen, keep, todo, scans, again>>
    /\ UNCHANGED <<tree, names, users, uses, poked, ends>>

\* Images go when no link names them.
HeldNot == {}

\* The images that warms in the making hold.
Held == {hold[q] : q \in Procs}

\* removeUnnamed, and pruneImages: images go when no link names them and no
\* warm in the making holds them.
RemoveUnnamed ==
    /\ ppc = "remove" /\ PruneEnds
    /\ \E bad \in SUBSET (disk \ keep) :
          disk' = (disk \cap keep) \cup bad /\ stuck' = (stuck \/ bad # {})
    /\ open' = open \cap keep /\ links' = links \cap disk'
    /\ images' = images \cap (links' \cup Held)
    /\ UNCHANGED <<names, users, uses, poked, again, unread>>

Step(q) ==
    \/ Done(q) \/ Load(q) \/ Used(q) \/ WarmSection(q) \/ RegisterParent(q) \/ PublishWarm(q)
    \/ ReleaseImages(q) \/ WriteManifest(q) \/ EnsureParent(q) \/ PullParent(q) \/ Settle(q)

Begin(q) ==
    \/ \E w \in Warms, p \in Parents : Resolve(q, w, p)
    \/ \E w \in Warms, d \in Deltas : Park(q, w, d)
    \/ \E d \in Deltas : UseDelta(q, d)
    \/ \E d \in Deltas, p \in Parents : PullDelta(q, d, p)

Prune == PruneBegin \/ ScanWarms \/ (\E d \in Deltas : ScanDelta(d)) \/ TryLock \/ RemoveUnnamed

Next ==
    \/ \E q \in Procs : Step(q) \/ Begin(q)
    \/ \E n \in Names : Drop(n)
    \/ Prune \/ ScanFails

\* The goroutines and the pruner go on; whether anything begins, ends or
\* fails is open.
Fairness == WF_vars(Prune) /\ \A q \in Procs : WF_vars(Step(q))

Spec == Init /\ [][Next]_vars /\ Fairness

(***************************************************************************)
(* Properties.                                                             *)
(***************************************************************************)

TypeOK ==
    /\ disk \subseteq Parents /\ open \subseteq Parents
    /\ links \subseteq Parents /\ images \subseteq Parents
    /\ names \in [Names -> Maybe]
    /\ pc \in [Procs -> {"idle", "resolved", "claim", "file", "load", "pull", "using", "end", "release", "settle"}]
    /\ verb \in [Procs -> {"none", "warm", "park", "merge", "push", "claim"}]
    /\ who \in [Procs -> Names \cup {NoParent}] /\ par \in [Procs -> Maybe] /\ hold \in [Procs -> Maybe]
    /\ uses \in Nat /\ poked \in BOOLEAN /\ again \in BOOLEAN
    /\ ppc \in {"idle", "warms", "deltas", "remove"} /\ seen \in Nat
    /\ keep \subseteq Parents /\ todo \subseteq Deltas /\ scans \in Nat /\ unread \in Nat /\ stuck \in BOOLEAN

\* A claim whose parent is not ensured yet, or could not be.
Pending(n) ==
    \E q \in Procs :
        /\ who[q] = n /\ verb[q] = "claim"
        /\ \/ pc[q] \in {"claim", "load", "pull"}
           \/ pc[q] \in {"end", "settle"} /\ par[q] = NoParent

\* What a warm or a delta names is in the store, whatever prune ran while
\* it was parked, claimed or published (useParents, pruneParents,
\* ClaimDelta), so no parked session loses the pages it is a delta over.
NamedThere ==
    \A n \in Names : names[n] # NoParent /\ ~Pending(n) => names[n] \in disk

\* The prune neither removes nor closes the parent that an open section has
\* loaded, the one it has not named yet included (removeUnnamed).
InUse ==
    \A q \in Procs :
        pc[q] = "using" /\ par[q] # NoParent =>
            par[q] \in disk /\ (verb[q] # "push" => par[q] \in open)

\* No store entry is a link to images that are gone (pruneImages).
LinksHold == links \subseteq disk /\ links \subseteq images

\* An entry that nothing names when a prune is asked for goes, or is named
\* again, however busy the store is meanwhile (pruneLoop's retry).
UnnamedGoes ==
    \A p \in Parents :
        poked /\ (\A n \in Names : names[n] # p) ~>
            p \notin disk \/ stuck \/ (\E n \in Names : names[n] = p)
=============================================================================
