------------------------------ MODULE Mobility ------------------------------
(***************************************************************************)
(* One named session between homes that share a registry: a park publishes *)
(* its delta under the session's tag, another home claims it by taking the *)
(* tag, a resume retires it, and a control plane may ship it as files      *)
(* (pkg/runtime/host/mobility_linux.go, mobility.go; locate and discard of *)
(* pkg/core; the registry of pkg/artifact).                                *)
(*                                                                         *)
(* A version is one parked state of the session.  A digest is <<v, n>>:    *)
(* the version it holds and which push it was, since every push is sealed  *)
(* anew.  On a home one operation works on the session at a time, its      *)
(* gate's holder (KeyedLock); the homes run free of each other.            *)
(*                                                                         *)
(* The protocol is not atomic, and in places cannot be: the tag is read in *)
(* one call and deleted in another, a home may crash between the two       *)
(* halves of a hand-over, the store may be out of reach.  The history      *)
(* variable split is set at exactly the steps by which the session's one   *)
(* line of states can fork or break; Splits lists them.  The properties    *)
(* say that there are no others.                                           *)
(***************************************************************************)
EXTENDS Integers, FiniteSets

CONSTANTS
    Homes,
    MaxVers,    \* bound: parks of the session
    MaxPushes   \* bound: pushes of its tag

ASSUME MobilityAssumption ==
    MaxVers \in Nat /\ MaxPushes \in Nat /\ Homes \cap {"none", "parked"} = {}

VARIABLES
    tag,        \* the digest the session's tag holds
    blobs,      \* the digests whose content the registry has
    vers, pushes,
    sess,       \* a home's ledger entry: state, version, publish record
    file,       \* the version the home's snapshot keeps as parked
    grant,      \* the home has the session's grant admitted
    pc, verb,   \* the operation under the home's gate
    got,        \* the digest it found
    stale,      \* the grant was revoked under it
    crate,      \* the version a control plane has exported
    ship,       \* the digest an export in progress has read
    head,       \* history: the session's latest state
    split       \* history: its one line of states was broken

vars == <<tag, blobs, vers, pushes, sess, file, grant, pc, verb, got, stale, crate, ship, head, split>>

NoDigest == <<0, 0>>
NoCopy == [st |-> "none", ver |-> 0, rec |-> NoDigest]
Parked(v, d) == [st |-> "parked", ver |-> v, rec |-> d]

\* head: nothing, a parked version, or the home that runs the session.
Nothing == [at |-> "none", ver |-> 0]
At(v) == [at |-> "parked", ver |-> v]
Runs(h) == [at |-> h, ver |-> 0]

Init ==
    /\ tag = NoDigest /\ blobs = {} /\ vers = 0 /\ pushes = 0
    /\ sess = [h \in Homes |-> NoCopy] /\ file = [h \in Homes |-> 0]
    /\ grant = [h \in Homes |-> TRUE]
    /\ pc = [h \in Homes |-> "idle"] /\ verb = [h \in Homes |-> "none"]
    /\ got = [h \in Homes |-> NoDigest] /\ stale = [h \in Homes |-> FALSE]
    /\ crate = 0 /\ ship = NoDigest
    /\ head = Nothing /\ split = FALSE

store == <<tag, blobs, vers, pushes>>
call == <<pc, verb, got, stale>>
away == <<crate, ship>>

Goes(h, from, to) == pc[h] = from /\ pc' = [pc EXCEPT ![h] = to] /\ UNCHANGED <<verb, stale>>

Returns(h) ==
    /\ pc' = [pc EXCEPT ![h] = "idle"] /\ verb' = [verb EXCEPT ![h] = "none"]
    /\ got' = [got EXCEPT ![h] = NoDigest] /\ stale' = [stale EXCEPT ![h] = FALSE]

Splits(yes) == split' = (split \/ yes)

(***************************************************************************)
(* The registry.                                                           *)
(***************************************************************************)

\* Push: the tag moves to the new digest, and the content it leaves stays.
Push(v) ==
    /\ pushes < MaxPushes /\ pushes' = pushes + 1
    /\ tag' = <<v, pushes + 1>> /\ blobs' = blobs \cup {<<v, pushes + 1>>}
    /\ UNCHANGED vers

\* Delete of the tag, whatever it holds, with its content.
Delete == tag' = NoDigest /\ blobs' = blobs \ {tag} /\ UNCHANGED <<vers, pushes>>

(***************************************************************************)
(* Clone: locate, then the birth.                                          *)
(***************************************************************************)

\* A published copy is taken for its own as long as any tag is there.
OwnedByAny(h) == sess[h].rec = NoDigest \/ tag # NoDigest

\* A home may resume its parked copy while it was never published, or while
\* the tag holds what it pushed.
Owned(h) == sess[h].rec = NoDigest \/ tag = sess[h].rec

Begins(h, v, to) ==
    /\ pc[h] = "idle"
    /\ pc' = [pc EXCEPT ![h] = to] /\ verb' = [verb EXCEPT ![h] = v]
    /\ UNCHANGED <<got, stale>>

\* The copy of a session claimed elsewhere is forgotten, and dropped.
Forget(h) == sess' = [sess EXCEPT ![h] = NoCopy] /\ file' = [file EXCEPT ![h] = 0]

\* locate, for a session parked here.  A store out of reach counts as ours.
LocateHere(h) ==
    /\ grant[h] /\ sess[h].st = "parked"
    /\ \/ Owned(h) /\ Begins(h, "clone", "birth") /\ UNCHANGED <<sess, file, split>>
       \/ ~Owned(h) /\ Begins(h, "clone", "find") /\ Forget(h) /\ UNCHANGED split
       \/ ~Owned(h) /\ Begins(h, "clone", "birth") /\ Splits(TRUE) /\ UNCHANGED <<sess, file>>
    /\ UNCHANGED <<store, grant, away, head>>

LocateElsewhere(h) ==
    /\ grant[h] /\ sess[h].st = "none" /\ Begins(h, "clone", "find")
    /\ UNCHANGED <<store, sess, file, grant, away, head, split>>

\* FindDelta.  A clone that finds nothing, or cannot ask, creates; a discard
\* returns.
FindDelta(h) ==
    /\ pc[h] = "find"
    /\ \/ /\ tag # NoDigest
          /\ Goes(h, "find", IF verb[h] = "clone" THEN "pull" ELSE "check")
          /\ got' = [got EXCEPT ![h] = tag] /\ UNCHANGED split
       \/ verb[h] = "clone" /\ Goes(h, "find", "birth") /\ Splits(tag # NoDigest) /\ UNCHANGED got
       \/ verb[h] = "discard" /\ Returns(h) /\ UNCHANGED split
    /\ UNCHANGED <<store, sess, file, grant, away, head>>

\* What a clone finds and must not take, by its size, signature, platform or
\* engine, is a miss.
FindRefused(h) ==
    /\ pc[h] = "find" /\ tag # NoDigest /\ verb[h] = "clone" /\ Returns(h)
    /\ UNCHANGED <<store, sess, file, grant, away, head, split>>

\* ClaimDelta pulls by digest, and the parent checkpoint it lacks.
PullDelta(h) ==
    /\ pc[h] = "pull"
    /\ \/ got[h] \in blobs /\ Goes(h, "pull", "check") /\ UNCHANGED got
       \/ Returns(h)
    /\ UNCHANGED <<store, sess, file, grant, away, head, split>>

\* The tag must still hold what was pulled ...
CheckTag(h) ==
    /\ pc[h] = "check"
    /\ \/ tag = got[h] /\ Goes(h, "check", "take") /\ UNCHANGED got
       \/ Returns(h)
    /\ UNCHANGED <<store, sess, file, grant, away, head, split>>

\* A home resumes the copy it published as d, and has not retired the tag.
Resuming(d) ==
    \E h \in Homes :
        \/ pc[h] \in {"birth", "commit"} /\ sess[h].rec = d
        \/ pc[h] \in {"retire", "untag"} /\ verb[h] = "clone" /\ got[h] = d

\* ... and its delete must be ours.  It may take a newer tag than the one
\* checked, or the tag of a home that is resuming its own copy.  A delete
\* that fails half way has taken the tag, and the copy pulled is dropped.
TakeTag(h) ==
    /\ pc[h] = "take" /\ verb[h] = "clone"
    /\ \/ /\ tag # NoDigest /\ Delete /\ Splits(tag # got[h] \/ Resuming(tag))
          /\ Goes(h, "take", "register") /\ UNCHANGED got
       \/ tag # NoDigest /\ Delete /\ Splits(TRUE) /\ Returns(h)
       \/ Returns(h) /\ UNCHANGED <<store, split>>
    /\ UNCHANGED <<sess, file, grant, away, head>>

DeleteDelta(h) ==
    /\ pc[h] = "take" /\ verb[h] = "discard" /\ Returns(h)
    /\ \/ /\ tag # NoDigest /\ Delete /\ Splits(tag # got[h] \/ Resuming(tag))
          /\ head' = IF head = At(tag[1]) THEN Nothing ELSE head
       \/ UNCHANGED <<store, head, split>>
    /\ UNCHANGED <<sess, file, grant, away>>

\* The claim is not written down.
RegisterUnwritten(h) ==
    /\ Goes(h, "register", "birth") /\ grant[h]
    /\ sess' = [sess EXCEPT ![h] = Parked(got[h][1], NoDigest)]
    /\ got' = [got EXCEPT ![h] = NoDigest]
    /\ UNCHANGED <<store, file, grant, away, head, split>>

\* restoreParked and persist.  Under a grant revoked meanwhile the only
\* copy stays on disk with nothing to name it.
Register(h) ==
    /\ pc[h] = "register"
    /\ \/ /\ grant[h]
          /\ sess' = [sess EXCEPT ![h] = Parked(got[h][1], NoDigest)]
          /\ file' = [file EXCEPT ![h] = got[h][1]]
          /\ Goes(h, "register", "birth") /\ got' = [got EXCEPT ![h] = NoDigest] /\ UNCHANGED split
       \/ ~grant[h] /\ Splits(TRUE) /\ Returns(h) /\ UNCHANGED <<sess, file>>
    /\ UNCHANGED <<store, grant, away, head>>

\* The runtime's resume or create.  A failed resume of a copy with no
\* publish record goes back to the registry, unless the home is only short
\* of room.
Birth(h) ==
    /\ pc[h] = "birth"
    /\ \/ Goes(h, "birth", "commit") /\ UNCHANGED got
       \/ sess[h].st = "parked" /\ sess[h].rec = NoDigest /\ Goes(h, "birth", "publish") /\ UNCHANGED got
       \/ Returns(h)
    /\ UNCHANGED <<store, sess, file, grant, away, head, split>>

\* The commit.  A create is a second line if the first one is still there.
\* A birth whose audit record failed and whose release failed too is
\* committed with its tag and its snapshot left as they were.
Commit(h) ==
    LET s == sess[h] refused == ~grant[h] \/ stale[h] IN
    /\ pc[h] = "commit"
    /\ \/ refused /\ Returns(h) /\ UNCHANGED <<sess, head, split>>
       \/ /\ ~refused
          /\ sess' = [sess EXCEPT ![h].st = "running"] /\ head' = Runs(h)
          /\ \/ /\ s.st = "parked" /\ Goes(h, "commit", "retire")
                /\ got' = [got EXCEPT ![h] = s.rec] /\ UNCHANGED split
             \/ s.st = "parked" /\ Returns(h) /\ Splits(TRUE)
             \/ s.st = "none" /\ Returns(h) /\ Splits(head # Nothing)
    /\ UNCHANGED <<store, file, grant, away>>

\* RetireDelta, of a resume and of a discard: the tag is read, deleted if it
\* holds what this home pushed, and the record removed.  A failure leaves a
\* resume to go on, and refuses a discard.
RetireFails(h) ==
    IF verb[h] = "clone" THEN pc' = [pc EXCEPT ![h] = "persist"] /\ UNCHANGED <<verb, stale, got>>
    ELSE Returns(h)

RetireRead(h) ==
    /\ pc[h] = "retire"
    /\ \/ got[h] # NoDigest /\ tag = got[h] /\ Goes(h, "retire", "untag") /\ UNCHANGED <<got, split>>
       \/ (got[h] = NoDigest \/ tag # got[h]) /\ Goes(h, "retire", "unrecord") /\ UNCHANGED <<got, split>>
       \/ got[h] # NoDigest /\ RetireFails(h) /\ Splits(verb[h] = "clone" /\ tag = got[h])
    /\ UNCHANGED <<store, sess, file, grant, away, head>>

\* A tag another home took first is its own; got is cleared by our delete.
RetireDelete(h) ==
    /\ pc[h] = "untag"
    /\ \/ tag = NoDigest /\ Goes(h, "untag", "unrecord") /\ UNCHANGED <<store, got, split>>
       \/ /\ tag # NoDigest /\ Delete /\ Splits(tag # got[h])
          /\ Goes(h, "untag", "unrecord") /\ got' = [got EXCEPT ![h] = NoDigest]
       \/ RetireFails(h) /\ Splits(verb[h] = "clone") /\ UNCHANGED store
       \/ tag # NoDigest /\ RetireFails(h) /\ Delete /\ Splits(verb[h] = "discard" \/ tag # got[h])
    /\ UNCHANGED <<sess, file, grant, away, head>>

RetireRecord(h) ==
    /\ Goes(h, "unrecord", IF verb[h] = "clone" THEN "persist" ELSE "drop")
    /\ sess' = [sess EXCEPT ![h].rec = NoDigest]
    /\ UNCHANGED <<got, store, file, grant, away, head, split>>

\* persist: a running session is not resumed at boot, a parked one is.
Persist(h) ==
    /\ pc[h] = "persist" /\ Returns(h)
    /\ file' = [file EXCEPT ![h] = IF sess[h].st = "parked" /\ grant[h] THEN sess[h].ver ELSE 0]
    /\ UNCHANGED <<store, sess, grant, away, head, split>>

(***************************************************************************)
(* Park, Release and exit, Discard, Yield and Admit.                       *)
(***************************************************************************)

\* Runtime.Park and OnPark: a new version, not published yet.  The delta it
\* was resumed from goes with its record further down; the tag of a retire
\* that failed is a split already.
Park(h) ==
    /\ sess[h].st = "running" /\ vers < MaxVers /\ vers' = vers + 1
    /\ Begins(h, "park", "publish")
    /\ sess' = [sess EXCEPT ![h] = Parked(vers + 1, NoDigest)]
    /\ head' = IF head = Runs(h) THEN At(vers + 1) ELSE head
    /\ UNCHANGED <<tag, blobs, pushes, file, grant, away, split>>

\* The record is not kept.
PublishDeltaUnrecorded(h) ==
    LET then == IF verb[h] = "park" THEN Goes(h, "publish", "persist") /\ UNCHANGED got ELSE Returns(h) IN
    /\ pc[h] = "publish" /\ then
    /\ grant[h] /\ Push(sess[h].ver)
    /\ UNCHANGED <<sess, file, grant, away, head, split>>

\* PublishDelta, of a park and of a failed resume: the tag, then the record
\* of it.  A tag without its record leaves two homes that each think the
\* session theirs.
PublishDelta(h) ==
    LET then == IF verb[h] = "park" THEN Goes(h, "publish", "persist") /\ UNCHANGED got ELSE Returns(h) IN
    /\ pc[h] = "publish" /\ then
    /\ \/ /\ grant[h] /\ Push(sess[h].ver)
          /\ sess' = [sess EXCEPT ![h].rec = <<sess[h].ver, pushes + 1>>] /\ UNCHANGED split
       \/ grant[h] /\ Push(sess[h].ver) /\ Splits(TRUE) /\ UNCHANGED sess
       \/ UNCHANGED <<store, sess, split>>
    /\ UNCHANGED <<file, grant, away, head>>

\* The running fiber is gone, and the delta it was resumed from with it: its
\* tag too, where the resume has not retired it yet.
Ends(h) ==
    LET left == sess[h].st = "running" /\ sess[h].rec # NoDigest /\ tag = sess[h].rec IN
    /\ sess' = [sess EXCEPT ![h] = IF @.st = "running" THEN NoCopy ELSE @]
    /\ head' = IF head = Runs(h) THEN Nothing ELSE head
    /\ \/ left /\ Delete /\ UNCHANGED split
       \/ ~left /\ UNCHANGED <<store, split>>
       \/ left /\ Splits(TRUE) /\ UNCHANGED store

\* Release and exit.
End(h) ==
    /\ sess[h].st = "running" /\ Ends(h)
    /\ UNCHANGED <<file, grant, call, away>>

\* Discard of a session parked here, whose published copy is retired first;
\* of one claimed since, or unknown, what the store has.
Discard(h) ==
    /\ pc[h] = "idle" /\ grant[h]
    /\ pc' = [pc EXCEPT ![h] = IF sess[h].st = "parked" /\ Owned(h) THEN "retire" ELSE "find"]
    /\ verb' = [verb EXCEPT ![h] = "discard"] /\ UNCHANGED stale
    /\ \/ /\ sess[h].st = "parked" /\ Owned(h)
          /\ got' = [got EXCEPT ![h] = sess[h].rec] /\ UNCHANGED <<sess, file>>
       \/ sess[h].st = "parked" /\ ~Owned(h) /\ Forget(h) /\ UNCHANGED got
       \/ sess[h].st = "none" /\ UNCHANGED <<sess, file, got>>
    /\ UNCHANGED <<store, grant, away, head, split>>

\* A copy claimed elsewhere, in the hands of a discard.
Taken(h) == pc[h] = "drop" /\ got[h] # NoDigest

\* DiscardDelta, ForgetSession and persist.  A session another home claimed
\* under the discard lives on there.
DiscardParked(h) ==
    /\ pc[h] = "drop" /\ Forget(h) /\ Returns(h)
    /\ head' = IF head = At(sess[h].ver) /\ ~Taken(h) THEN Nothing ELSE head
    /\ UNCHANGED <<store, grant, away, split>>

\* Yield and Admit, each with its persist.  Yield releases the running fiber
\* and keeps the parked copy, but a boot drops one whose grant the file has
\* no more.
Yield(h) ==
    /\ grant[h] /\ grant' = [grant EXCEPT ![h] = FALSE]
    /\ stale' = [stale EXCEPT ![h] = pc[h] # "idle"]
    /\ Ends(h) /\ file' = [file EXCEPT ![h] = 0]
    /\ UNCHANGED <<pc, verb, got, away>>

Admit(h) ==
    /\ ~grant[h] /\ grant' = [grant EXCEPT ![h] = TRUE]
    /\ file' = [file EXCEPT ![h] = IF sess[h].st = "parked" THEN sess[h].ver ELSE 0]
    /\ UNCHANGED <<store, sess, call, away, head, split>>

(***************************************************************************)
(* Crash and boot of a home: Restart in one step.  The grants the file has *)
(* come back, and the copy it names with the publish record beside it.     *)
(***************************************************************************)

\* The parked copy the file brings back, a resume not yet persisted included.
Back(h) == file[h] # 0 /\ file[h] = sess[h].ver

\* A crash loses what a claim has taken and not registered, and a resume
\* that withdrew its tag and still has the record of it.  It brings back a
\* taken copy, whose record the discard has removed.
Cut(h) ==
    \/ pc[h] = "register"
    \/ head = Runs(h) /\ Back(h) /\ ~Owned(h)
    \/ Taken(h) /\ Back(h)

\* What it may lose: a park it has neither published nor written down, an
\* unpublished copy of a yielded grant, and a discard it has begun.
Unkept(h) ==
    \/ ~Back(h) /\ (verb[h] = "park" \/ ~grant[h]) /\ ~Taken(h) /\ Owned(h) /\ tag[1] # sess[h].ver
    \/ pc[h] = "unrecord" /\ got[h] = NoDigest /\ ~Owned(h)

Crash(h) ==
    LET s == sess[h] IN
    /\ sess' = [sess EXCEPT ![h] = IF Back(h) THEN Parked(s.ver, s.rec) ELSE NoCopy]
    /\ file' = [file EXCEPT ![h] = IF Back(h) THEN @ ELSE 0]
    /\ Returns(h)
    /\ head' = CASE head = Runs(h) -> IF Back(h) THEN At(s.ver) ELSE Nothing
                 [] head = At(s.ver) /\ s.st = "parked" /\ Unkept(h) -> Nothing
                 [] OTHER -> head
    /\ Splits(Cut(h))
    /\ UNCHANGED <<store, grant, away>>

(***************************************************************************)
(* ExportDelta and ImportDelta: the session as files of a control plane.   *)
(***************************************************************************)

Export ==
    /\ ship = NoDigest /\ crate = 0 /\ tag # NoDigest /\ tag \in blobs
    /\ ship' = tag
    /\ UNCHANGED <<store, sess, file, grant, call, crate, head, split>>

\* The tag is deleted whatever it holds by now.
ExportDone ==
    /\ ship # NoDigest /\ ship' = NoDigest
    /\ \/ crate' = ship[1] /\ Splits(tag # ship \/ Resuming(tag))
          /\ IF tag = NoDigest THEN UNCHANGED store ELSE Delete
       \/ UNCHANGED <<store, crate, split>>
       \/ tag # NoDigest /\ Delete /\ Splits(TRUE) /\ UNCHANGED crate
    /\ UNCHANGED <<sess, file, grant, call, head>>

\* An archive kept to be imported again is another line of the same state.
Import ==
    /\ crate # 0 /\ crate' \in {0, crate} /\ Push(crate)
    /\ Splits(head # At(crate) \/ crate' # 0)
    /\ UNCHANGED <<sess, file, grant, call, ship, head>>

Next ==
    \/ Export \/ ExportDone \/ Import
    \/ \E h \in Homes :
          \/ LocateHere(h) \/ LocateElsewhere(h) \/ FindDelta(h) \/ FindRefused(h) \/ PullDelta(h) \/ CheckTag(h)
          \/ TakeTag(h) \/ DeleteDelta(h) \/ Register(h) \/ Birth(h) \/ Commit(h)
          \/ RetireRead(h) \/ RetireDelete(h) \/ RetireRecord(h) \/ Persist(h)
          \/ Park(h) \/ PublishDelta(h) \/ End(h) \/ Discard(h) \/ DiscardParked(h)
          \/ Yield(h) \/ Admit(h) \/ Crash(h)

Spec == Init /\ [][Next]_vars

(***************************************************************************)
(* Properties.                                                             *)
(***************************************************************************)

Versions == 0 .. MaxVers
Digests == Versions \X (0 .. MaxPushes)

StoreType ==
    /\ tag \in Digests /\ blobs \subseteq Digests /\ vers \in Versions /\ pushes \in 0 .. MaxPushes
    /\ crate \in Versions /\ ship \in Digests

CopyType == [st : {"none", "parked", "running"}, ver : Versions, rec : Digests]

CopiesType ==
    /\ sess \in [Homes -> CopyType]
    /\ file \in [Homes -> Versions] /\ grant \in [Homes -> BOOLEAN]

Steps ==
    {"idle", "find", "pull", "check", "take", "register", "birth", "commit", "retire", "untag",
     "unrecord", "persist", "publish", "drop"}

CallType ==
    /\ pc \in [Homes -> Steps]
    /\ verb \in [Homes -> {"none", "clone", "park", "discard"}]
    /\ got \in [Homes -> Digests] /\ stale \in [Homes -> BOOLEAN]

HistoryType == head \in [at : {"none", "parked"} \cup Homes, ver : Versions] /\ split \in BOOLEAN

\* The session, the registry and the homes' operations are well formed.
TypeOK == StoreType /\ CopiesType /\ CallType /\ HistoryType

\* Where a version can still be had: in the store, with a home that may
\* resume it, in the hands of a claim or of a discard, or as files.
Had(v) ==
    \/ tag[1] = v /\ tag \in blobs
    \/ \E h \in Homes : sess[h].st = "parked" /\ sess[h].ver = v /\ Owned(h)
    \/ \E h \in Homes : pc[h] = "register" /\ got[h][1] = v
    \/ \E h \in Homes : verb[h] = "discard" /\ pc[h] = "unrecord" /\ sess[h].ver = v
    \/ crate = v

\* The session runs on one home at most, and what runs is its latest state:
\* a claimed or superseded copy is never resumed, whatever the homes and
\* the control plane do in whatever order (Owned, ClaimDelta, RetireDelta).
RunsOnce ==
    ~split => \A h \in Homes : sess[h].st = "running" => head = Runs(h)

\* A resume carries on from the latest parked state (locate).
CarriesOn ==
    [][\A h \in Homes :
          sess[h].st = "parked" /\ sess'[h].st = "running" /\ ~split' => head = At(sess[h].ver)]_vars

\* The latest parked state can be had somewhere until it is resumed or
\* discarded (PublishDelta, ClaimDelta, ReturnDelta, discardParked).
NotLost ==
    ~split /\ head.at = "parked" => Had(head.ver)
=============================================================================
