--------------------------- MODULE MobilityProofs ---------------------------
(***************************************************************************)
(* Proofs about Mobility: for any homes and any bounds, a session whose    *)
(* line was not broken by one of the steps Splits names runs on one home   *)
(* at most, is resumed from its latest state, and is never lost.           *)
(*                                                                         *)
(* None of the three is inductive.  What makes them hold is that the right *)
(* to go on with the session is in one place: the registry's tag, the      *)
(* control plane's files, or one home (OnePlace), with the latest state    *)
(* (Tagged) and with no state left over (Somewhere).  A resume keeps it    *)
(* because it goes on from that place only (Resumes); a hand-over because  *)
(* no two homes have the same digest on record (OwnRecord, Fresh); a crash *)
(* because the home's snapshot names the copy it holds (Filed).            *)
(***************************************************************************)
EXTENDS Mobility, TLAPS

USE DEF store, call, away

(***************************************************************************)
(* Types.                                                                  *)
(***************************************************************************)

\* Nothing published and no copy are typed.
LEMMA NothingType ==
    /\ NoDigest \in Digests /\ 0 \in Versions
    /\ NoCopy \in CopyType
    /\ \A d \in Digests : d[1] \in Versions /\ d[2] \in 0 .. MaxPushes /\ d = <<d[1], d[2]>>
    /\ \A v \in Versions, n \in 0 .. MaxPushes : <<v, n>> \in Digests
    /\ \A v \in Versions, d \in Digests : Parked(v, d) \in CopyType
    /\ \A c \in CopyType :
          /\ c.st \in {"none", "parked", "running"} /\ c.ver \in Versions /\ c.rec \in Digests
          /\ [c EXCEPT !.st = "running"] \in CopyType
          /\ \A d \in Digests : [c EXCEPT !.rec = d] \in CopyType
<1> USE MobilityAssumption
<1>1. NoDigest \in Digests /\ 0 \in Versions
    BY DEF NoDigest, Versions, Digests
<1>2. /\ \A d \in Digests : d[1] \in Versions /\ d[2] \in 0 .. MaxPushes /\ d = <<d[1], d[2]>>
      /\ \A v \in Versions, n \in 0 .. MaxPushes : <<v, n>> \in Digests
    BY DEF Digests
<1>3. NoCopy \in CopyType /\ \A v \in Versions, d \in Digests : Parked(v, d) \in CopyType
    BY <1>1 DEF NoCopy, Parked, CopyType
<1> QED
    BY <1>1, <1>2, <1>3 DEF CopyType

\* What the homes' copies are made of.
LEMMA Shapes ==
    ASSUME CopiesType, NEW h \in Homes
    PROVE  sess[h].st \in {"none", "parked", "running"} /\ sess[h].ver \in Versions /\ sess[h].rec \in Digests
BY NothingType DEF CopiesType

\* The registry and the control plane's files keep their type.
LEMMA StoreTyped == TypeOK /\ [Next]_vars => StoreType'
<1> SUFFICES ASSUME TypeOK, [Next]_vars PROVE StoreType'
    OBVIOUS
<1> USE MobilityAssumption, NothingType DEF TypeOK, StoreType
<1> HIDE DEF Digests
<1>a. ASSUME NEW v \in Versions, Push(v), UNCHANGED <<crate, ship>> PROVE StoreType'
  <2>1. pushes' \in 0 .. MaxPushes
      BY <1>a DEF Push
  <2> QED
      BY <1>a, <2>1 DEF Push
<1>b. ASSUME Delete, UNCHANGED <<crate, ship>> PROVE StoreType'
    BY <1>b DEF Delete
<1>c. ASSUME UNCHANGED store, UNCHANGED <<crate, ship>> PROVE StoreType'
    BY <1>c
<1>1. CASE Export
    BY <1>1 DEF Export
<1>2. CASE ExportDone
    BY <1>2 DEF ExportDone, Delete
<1>3. CASE Import
  <2>1. Push(crate) /\ crate' \in Versions /\ UNCHANGED ship
      BY <1>3 DEF Import
  <2>2. pushes' \in 0 .. MaxPushes
      BY <2>1 DEF Push
  <2> QED
      BY <2>1, <2>2 DEF Push
<1>4. ASSUME NEW h \in Homes, TakeTag(h) \/ DeleteDelta(h) PROVE StoreType'
    BY <1>4, <1>b, <1>c DEF TakeTag, DeleteDelta
<1>5. ASSUME NEW h \in Homes, RetireDelete(h) PROVE StoreType'
    BY <1>5, <1>b, <1>c DEF RetireDelete
<1>6. ASSUME NEW h \in Homes, Park(h) PROVE StoreType'
    BY <1>6 DEF Park, Versions
<1>7. ASSUME NEW h \in Homes, PublishDelta(h) PROVE StoreType'
    BY <1>7, <1>a, <1>c, Shapes DEF PublishDelta
<1>8. ASSUME NEW h \in Homes, End(h) \/ Yield(h) PROVE StoreType'
    BY <1>8, <1>b, <1>c DEF End, Yield, Ends
<1>9. ASSUME NEW h \in Homes,
             \/ LocateHere(h) \/ LocateElsewhere(h) \/ FindDelta(h) \/ FindRefused(h) \/ PullDelta(h)
             \/ CheckTag(h) \/ Register(h) \/ Birth(h) \/ Commit(h) \/ RetireRead(h) \/ RetireRecord(h)
             \/ Persist(h) \/ Discard(h) \/ DiscardParked(h) \/ Admit(h) \/ Crash(h)
      PROVE  StoreType'
    BY <1>9, <1>c DEF LocateHere, LocateElsewhere, FindDelta, FindRefused, PullDelta, CheckTag, Register,
        Birth, Commit, RetireRead, RetireRecord, Persist, Discard, DiscardParked, Admit, Crash
<1>10. CASE UNCHANGED vars
    BY <1>10, <1>c DEF vars
<1> QED
    BY <1>1, <1>2, <1>3, <1>4, <1>5, <1>6, <1>7, <1>8, <1>9, <1>10 DEF Next

\* The homes' copies, snapshots and grants keep their type.
LEMMA CopiesTyped == TypeOK /\ [Next]_vars => CopiesType'
<1> SUFFICES ASSUME TypeOK, [Next]_vars PROVE CopiesType'
    OBVIOUS
<1> USE NothingType DEF TypeOK, CopiesType
<1>a. ASSUME NEW h \in Homes, Forget(h), UNCHANGED grant PROVE CopiesType'
    BY <1>a DEF Forget
<1>b. ASSUME NEW h \in Homes, Ends(h) PROVE sess' \in [Homes -> CopyType]
    BY <1>b DEF Ends
<1>c. ASSUME UNCHANGED <<sess, file, grant>> PROVE CopiesType'
    BY <1>c
<1>1. CASE Export \/ ExportDone \/ Import
    BY <1>1 DEF Export, ExportDone, Import
<1>2. ASSUME NEW h \in Homes, LocateHere(h) \/ Discard(h) \/ DiscardParked(h) PROVE CopiesType'
    BY <1>2, <1>a, <1>c DEF LocateHere, Discard, DiscardParked
<1>3. ASSUME NEW h \in Homes, Register(h) PROVE CopiesType'
  <2>1. got[h][1] \in Versions
      BY DEF CallType
  <2>2. Parked(got[h][1], NoDigest) \in CopyType
      BY <2>1
  <2> QED
      BY <1>3, <2>1, <2>2 DEF Register
<1>4. ASSUME NEW h \in Homes, Commit(h) PROVE CopiesType'
  <2>1. CASE UNCHANGED sess
      BY <1>4, <2>1 DEF Commit
  <2>2. CASE sess' = [sess EXCEPT ![h].st = "running"]
    <3>1. sess' \in [Homes -> CopyType]
        BY <2>2
    <3> QED
        BY <1>4, <3>1 DEF Commit
  <2> QED
      BY <1>4, <2>1, <2>2 DEF Commit
<1>5. ASSUME NEW h \in Homes, RetireRecord(h) PROVE CopiesType'
    BY <1>5 DEF RetireRecord
<1>6. ASSUME NEW h \in Homes, Persist(h) PROVE CopiesType'
    BY <1>6 DEF Persist
<1>7. ASSUME NEW h \in Homes, Park(h) PROVE CopiesType'
  <2>1. vers + 1 \in Versions
      BY <1>7, MobilityAssumption DEF Park, Versions, StoreType
  <2> QED
      BY <1>7, <2>1 DEF Park
<1>8. ASSUME NEW h \in Homes, PublishDelta(h) PROVE CopiesType'
  <2>1. CASE UNCHANGED sess
      BY <1>8, <2>1 DEF PublishDelta
  <2>2. CASE /\ Push(sess[h].ver)
             /\ sess' = [sess EXCEPT ![h].rec = <<sess[h].ver, pushes + 1>>]
    <3>1. pushes + 1 \in 0 .. MaxPushes
        BY <2>2, MobilityAssumption DEF Push, StoreType
    <3>2. <<sess[h].ver, pushes + 1>> \in Digests
        BY <3>1, Shapes
    <3>3. sess' \in [Homes -> CopyType]
        BY <2>2, <3>2
    <3> QED
        BY <1>8, <3>3 DEF PublishDelta
  <2> QED
      BY <1>8, <2>1, <2>2 DEF PublishDelta
<1>9. ASSUME NEW h \in Homes, End(h) \/ Yield(h) PROVE CopiesType'
    BY <1>9, <1>b DEF End, Yield
<1>10. ASSUME NEW h \in Homes, Admit(h) PROVE CopiesType'
    BY <1>10 DEF Admit
<1>11. ASSUME NEW h \in Homes, Crash(h) PROVE CopiesType'
    BY <1>11 DEF Crash
<1>12. ASSUME NEW h \in Homes,
              \/ LocateElsewhere(h) \/ FindDelta(h) \/ FindRefused(h) \/ PullDelta(h) \/ CheckTag(h)
              \/ TakeTag(h) \/ DeleteDelta(h) \/ Birth(h) \/ RetireRead(h) \/ RetireDelete(h)
       PROVE  CopiesType'
    BY <1>12, <1>c DEF LocateElsewhere, FindDelta, FindRefused, PullDelta, CheckTag, TakeTag, DeleteDelta,
        Birth, RetireRead, RetireDelete
<1>13. CASE UNCHANGED vars
    BY <1>13 DEF vars
<1> QED
    BY <1>1, <1>2, <1>3, <1>4, <1>5, <1>6, <1>7, <1>8, <1>9, <1>10, <1>11, <1>12, <1>13 DEF Next

\* The operations under the homes' gates keep their type.
LEMMA CallTyped == TypeOK /\ [Next]_vars => CallType'
<1> SUFFICES ASSUME TypeOK, [Next]_vars PROVE CallType'
    OBVIOUS
<1> USE NothingType DEF TypeOK
<1>a. ASSUME NEW h \in Homes, Returns(h) PROVE CallType'
    BY <1>a DEF Returns, CallType, Steps
<1>b. ASSUME NEW h \in Homes, NEW p \in Steps, NEW q, NEW d \in Digests, Goes(h, q, p),
             got' \in {got, [got EXCEPT ![h] = d]}
      PROVE  CallType'
    BY <1>b DEF Goes, CallType
<1>c. ASSUME NEW h \in Homes, NEW v \in {"clone", "park", "discard"}, NEW p \in Steps, Begins(h, v, p)
      PROVE  CallType'
    BY <1>c DEF Begins, CallType
<1>d. ASSUME NEW h \in Homes, RetireFails(h) PROVE CallType'
    BY <1>d, <1>a DEF RetireFails, CallType, Steps
<1>e. ASSUME UNCHANGED call PROVE CallType'
    BY <1>e DEF CallType
<1>f. tag \in Digests
    BY DEF StoreType
<1>s. Steps = Steps \cup {"idle", "find", "pull", "check", "take", "register", "birth", "commit", "retire",
                          "untag", "unrecord", "persist", "publish", "drop"}
    BY DEF Steps
<1>1. CASE Export \/ ExportDone \/ Import
    BY <1>1, <1>e DEF Export, ExportDone, Import
<1>2. ASSUME NEW h \in Homes, LocateHere(h) \/ LocateElsewhere(h) PROVE CallType'
    BY <1>2, <1>c, <1>s DEF LocateHere, LocateElsewhere
<1>3. ASSUME NEW h \in Homes, FindDelta(h) \/ FindRefused(h) PROVE CallType'
  <2>1. CASE Returns(h)
      BY <2>1, <1>a
  <2>2. CASE Goes(h, "find", IF verb[h] = "clone" THEN "pull" ELSE "check") /\ got' = [got EXCEPT ![h] = tag]
    <3>1. (IF verb[h] = "clone" THEN "pull" ELSE "check") \in Steps
        BY DEF Steps
    <3> QED
        BY <2>2, <3>1, <1>b, <1>f
  <2>3. CASE Goes(h, "find", "birth") /\ UNCHANGED got
      BY <2>3, <1>b, <1>s
  <2> QED
      BY <1>3, <2>1, <2>2, <2>3 DEF FindDelta, FindRefused
<1>4. ASSUME NEW h \in Homes, PullDelta(h) \/ CheckTag(h) PROVE CallType'
    BY <1>4, <1>a, <1>b, <1>s DEF PullDelta, CheckTag
<1>5. ASSUME NEW h \in Homes, TakeTag(h) \/ DeleteDelta(h) PROVE CallType'
    BY <1>5, <1>a, <1>b, <1>s DEF TakeTag, DeleteDelta
<1>6. ASSUME NEW h \in Homes, Register(h) \/ Birth(h) PROVE CallType'
    BY <1>6, <1>a, <1>b, <1>s DEF Register, Birth
<1>7. ASSUME NEW h \in Homes, Commit(h) PROVE CallType'
    BY <1>7, <1>a, <1>b, <1>s, Shapes DEF Commit
<1>8. ASSUME NEW h \in Homes, RetireRead(h) PROVE CallType'
    BY <1>8, <1>b, <1>d, <1>s DEF RetireRead
<1>9. ASSUME NEW h \in Homes, RetireDelete(h) PROVE CallType'
    BY <1>9, <1>b, <1>d, <1>s DEF RetireDelete
<1>10. ASSUME NEW h \in Homes, RetireRecord(h) PROVE CallType'
  <2>1. (IF verb[h] = "clone" THEN "persist" ELSE "drop") \in Steps
      BY DEF Steps
  <2> QED
      BY <1>10, <2>1, <1>b DEF RetireRecord
<1>11. ASSUME NEW h \in Homes, Park(h) PROVE CallType'
    BY <1>11, <1>c, <1>s DEF Park
<1>12. ASSUME NEW h \in Homes, PublishDelta(h) PROVE CallType'
    BY <1>12, <1>a, <1>b, <1>s DEF PublishDelta
<1>13. ASSUME NEW h \in Homes, Discard(h) PROVE CallType'
    BY <1>13, Shapes DEF Discard, CallType, Steps
<1>14. ASSUME NEW h \in Homes, Yield(h) PROVE CallType'
    BY <1>14 DEF Yield, CallType
<1>15. ASSUME NEW h \in Homes, End(h) \/ Admit(h) PROVE CallType'
    BY <1>15, <1>e DEF End, Admit
<1>16. ASSUME NEW h \in Homes, Persist(h) \/ DiscardParked(h) \/ Crash(h) PROVE CallType'
    BY <1>16, <1>a DEF Persist, DiscardParked, Crash
<1>17. CASE UNCHANGED vars
    BY <1>17, <1>e DEF vars
<1> QED
    BY <1>1, <1>2, <1>3, <1>4, <1>5, <1>6, <1>7, <1>8, <1>9, <1>10, <1>11, <1>12, <1>13, <1>14, <1>15,
       <1>16, <1>17 DEF Next

\* The history keeps its type.
LEMMA HistoryTyped == TypeOK /\ [Next]_vars => HistoryType'
<1> SUFFICES ASSUME TypeOK, [Next]_vars PROVE HistoryType'
    OBVIOUS
<1> USE NothingType DEF TypeOK, HistoryType
<1>a. \A h \in Homes : Runs(h) \in [at : {"none", "parked"} \cup Homes, ver : Versions]
    BY DEF Runs
<1>b. \A v \in Versions : At(v) \in [at : {"none", "parked"} \cup Homes, ver : Versions]
    BY DEF At
<1>c. Nothing \in [at : {"none", "parked"} \cup Homes, ver : Versions]
    BY DEF Nothing
<1>1. split' \in BOOLEAN
  <2>1. CASE Export \/ ExportDone \/ Import
      BY <2>1 DEF Export, ExportDone, Import, Splits
  <2>2. ASSUME NEW h \in Homes, LocateHere(h) \/ FindDelta(h) \/ TakeTag(h) \/ DeleteDelta(h) \/ Register(h)
        PROVE  split' \in BOOLEAN
      BY <2>2 DEF LocateHere, FindDelta, TakeTag, DeleteDelta, Register, Splits
  <2>3. ASSUME NEW h \in Homes, Commit(h) \/ RetireRead(h) \/ RetireDelete(h) \/ PublishDelta(h)
        PROVE  split' \in BOOLEAN
      BY <2>3 DEF Commit, RetireRead, RetireDelete, PublishDelta, Splits
  <2>4. ASSUME NEW h \in Homes, End(h) \/ Yield(h) \/ Crash(h) PROVE split' \in BOOLEAN
      BY <2>4 DEF End, Yield, Ends, Crash, Splits
  <2>5. ASSUME NEW h \in Homes,
               \/ LocateElsewhere(h) \/ FindRefused(h) \/ PullDelta(h) \/ CheckTag(h) \/ Birth(h)
               \/ RetireRecord(h) \/ Persist(h) \/ Park(h) \/ Discard(h) \/ DiscardParked(h) \/ Admit(h)
        PROVE  split' \in BOOLEAN
      BY <2>5 DEF LocateElsewhere, FindRefused, PullDelta, CheckTag, Birth, RetireRecord, Persist, Park,
          Discard, DiscardParked, Admit
  <2>6. CASE UNCHANGED vars
      BY <2>6 DEF vars
  <2> QED
      BY <2>1, <2>2, <2>3, <2>4, <2>5, <2>6 DEF Next
<1>2. head' \in [at : {"none", "parked"} \cup Homes, ver : Versions]
  <2> HIDE DEF Runs, At, Nothing
  <2>1. CASE Export \/ ExportDone \/ Import
      BY <2>1 DEF Export, ExportDone, Import
  <2>2. ASSUME NEW h \in Homes, DeleteDelta(h) \/ DiscardParked(h)
        PROVE  head' \in [at : {"none", "parked"} \cup Homes, ver : Versions]
      BY <2>2, <1>c DEF DeleteDelta, DiscardParked
  <2>3. ASSUME NEW h \in Homes, Commit(h)
        PROVE  head' \in [at : {"none", "parked"} \cup Homes, ver : Versions]
      BY <2>3, <1>a DEF Commit
  <2>4. ASSUME NEW h \in Homes, Park(h)
        PROVE  head' \in [at : {"none", "parked"} \cup Homes, ver : Versions]
    <3>1. vers + 1 \in Versions
        BY <2>4, MobilityAssumption DEF Park, Versions, StoreType
    <3> QED
        BY <2>4, <1>b, <3>1 DEF Park
  <2>5. ASSUME NEW h \in Homes, End(h) \/ Yield(h)
        PROVE  head' \in [at : {"none", "parked"} \cup Homes, ver : Versions]
      BY <2>5, <1>c DEF End, Yield, Ends
  <2>6. ASSUME NEW h \in Homes, Crash(h)
        PROVE  head' \in [at : {"none", "parked"} \cup Homes, ver : Versions]
      BY <2>6, <1>b, <1>c, Shapes DEF Crash
  <2>7. ASSUME NEW h \in Homes,
               \/ LocateHere(h) \/ LocateElsewhere(h) \/ FindDelta(h) \/ FindRefused(h) \/ PullDelta(h)
               \/ CheckTag(h) \/ TakeTag(h) \/ Register(h) \/ Birth(h) \/ RetireRead(h) \/ RetireDelete(h)
               \/ RetireRecord(h) \/ Persist(h) \/ PublishDelta(h) \/ Discard(h) \/ Admit(h)
        PROVE  head' \in [at : {"none", "parked"} \cup Homes, ver : Versions]
      BY <2>7 DEF LocateHere, LocateElsewhere, FindDelta, FindRefused, PullDelta, CheckTag, TakeTag, Register,
          Birth, RetireRead, RetireDelete, RetireRecord, Persist, PublishDelta, Discard, Admit
  <2>8. CASE UNCHANGED vars
      BY <2>8 DEF vars
  <2> QED
      BY <2>1, <2>2, <2>3, <2>4, <2>5, <2>6, <2>7, <2>8 DEF Next
<1> QED
    BY <1>1, <1>2

(***************************************************************************)
(* The invariant of an unbroken line.                                      *)
(***************************************************************************)

\* What a home has in hand at each step of an operation.
AtStep(h) ==
    /\ (pc[h] = "idle") <=> (verb[h] = "none")
    /\ pc[h] \in {"find", "pull", "check", "take", "register"} => sess[h].st = "none"
    /\ pc[h] \in {"pull", "check", "take", "register"} => got[h] # NoDigest /\ got[h][1] # 0
    /\ pc[h] \in {"pull", "register", "birth", "commit"} => verb[h] = "clone"
    /\ pc[h] \in {"birth", "commit"} => sess[h].st # "running"
    /\ pc[h] \in {"publish", "persist"} => verb[h] \in {"clone", "park"}
    /\ pc[h] = "publish" => sess[h].st = "parked" /\ sess[h].rec = NoDigest
    /\ pc[h] \in {"retire", "untag", "unrecord"} => verb[h] \in {"clone", "discard"}
    /\ verb[h] = "clone" /\ pc[h] \in {"retire", "untag", "unrecord", "persist"} => sess[h].st # "parked"
    /\ verb[h] = "discard" =>
          /\ pc[h] \in {"retire", "untag", "unrecord", "drop"} => sess[h].st = "parked"
          /\ pc[h] = "retire" => got[h] = sess[h].rec
          /\ pc[h] = "untag" => got[h] = sess[h].rec /\ got[h] # NoDigest
          /\ pc[h] = "unrecord" => got[h] \in {sess[h].rec, NoDigest}
    /\ pc[h] = "drop" => verb[h] = "discard" /\ sess[h].rec = NoDigest

\* A copy has a version, and a publish record is of that version.
Copy(h) ==
    /\ sess[h].st = "none" => sess[h] = NoCopy
    /\ sess[h].st = "parked" => sess[h].ver # 0
    /\ sess[h].rec # NoDigest => sess[h].rec[1] = sess[h].ver /\ sess[h].ver # 0

\* A parked copy is in the home's snapshot but while its park is under way, and
\* one that is resumed is until its tag is retired; what runs runs under a grant.
Filed(h) ==
    /\ sess[h].st = "parked" /\ grant[h] /\ verb[h] # "park" => file[h] = sess[h].ver
    /\ sess[h].st = "running" => grant[h]
    /\ sess[h].st = "running" /\ pc[h] \in {"retire", "untag"} => file[h] = sess[h].ver /\ sess[h].ver # 0

\* A resume goes on from a copy of this home alone, or from the one the tag
\* holds; and the tag a resume still has to retire is the one of its own copy.
Resumes(h) ==
    /\ pc[h] \in {"birth", "commit"} => sess[h].rec = NoDigest \/ sess[h].rec = tag
    /\ verb[h] = "clone" /\ pc[h] \in {"retire", "untag"} =>
          /\ sess[h].st = "running" => got[h] = sess[h].rec
          /\ sess[h].st = "none" => got[h] = NoDigest \/ got[h] # tag

\* Every digest in somebody's hands is of an earlier push, and what the tag or
\* an export holds is a version.
Fresh ==
    /\ tag[2] <= pushes /\ ship[2] <= pushes
    /\ \A h \in Homes : sess[h].rec[2] <= pushes /\ got[h][2] <= pushes
    /\ tag # NoDigest => tag[1] # 0 /\ tag \in blobs
    /\ ship # NoDigest => ship[1] # 0

\* A digest is on record with one home, the one that pushed it.
OwnRecord ==
    \A h, g \in Homes : h # g =>
        /\ sess[h].rec # NoDigest => sess[h].rec # sess[g].rec
        /\ pc[h] \in {"retire", "untag"} /\ got[h] # NoDigest => got[h] # sess[g].rec

\* What runs is the session's latest state.
Runner == \A h \in Homes : sess[h].st = "running" => head = Runs(h)

\* A home runs the copy it published, and has its tag still to retire.
Retiring(h) ==
    /\ sess[h].st = "running" /\ pc[h] \in {"retire", "untag"} /\ verb[h] = "clone"
    /\ got[h] = tag /\ sess[h].rec = tag

\* A home alone has the session: a copy it has not published, one it has
\* claimed, or one whose tag its discard has withdrawn.
Holds(h) ==
    \/ sess[h].st = "parked" /\ sess[h].rec = NoDigest /\ ~Taken(h)
    \/ pc[h] = "register"
    \/ pc[h] = "unrecord" /\ verb[h] = "discard" /\ got[h] = NoDigest

Held(h) == IF pc[h] = "register" THEN got[h][1] ELSE sess[h].ver

\* The tag holds the latest state, or the home that runs it is about to retire it.
Tagged == tag # NoDigest => head = At(tag[1]) \/ \E h \in Homes : head = Runs(h) /\ Retiring(h)

\* Of the tag, the control plane's files and the homes, one at most has the
\* session; and the files, or the home, have its latest state.
OnePlace ==
    /\ tag # NoDigest => crate = 0 /\ \A h \in Homes : ~Holds(h)
    /\ crate # 0 => head = At(crate) /\ \A h \in Homes : ~Holds(h)
    /\ \A h \in Homes : Holds(h) => head = At(Held(h))
    /\ \A h, g \in Homes : Holds(h) /\ Holds(g) => h = g

\* The latest state, while it is parked, is somewhere.
Somewhere == head.at = "parked" => tag # NoDigest \/ crate # 0 \/ \E h \in Homes : Holds(h)

Local(h) == AtStep(h) /\ Copy(h) /\ Filed(h)

Line ==
    /\ \A h \in Homes : Local(h) /\ Resumes(h)
    /\ Fresh /\ OwnRecord /\ Runner
    /\ Tagged /\ OnePlace /\ Somewhere

IInv == TypeOK /\ (~split => Line)

\* The three kinds of head, and two heads of a kind, are told apart.
LEMMA Heads ==
    /\ \A h \in Homes : Runs(h) # Nothing /\ \A v : Runs(h) # At(v)
    /\ \A h, g \in Homes : Runs(h) = Runs(g) => h = g
    /\ \A v, w : At(v) = At(w) => v = w
    /\ \A v : At(v) # Nothing /\ At(v).at = "parked"
    /\ Nothing.at # "parked"
    /\ \A h \in Homes : Runs(h).at # "parked"
<1>1. \A h \in Homes : h # "none" /\ h # "parked"
    BY MobilityAssumption
<1>2. Nothing.at = "none" /\ \A v : At(v).at = "parked" /\ At(v).ver = v
    BY DEF Nothing, At
<1>3. \A h \in Homes : Runs(h).at = h
    BY DEF Runs
<1> QED
    BY <1>1, <1>2, <1>3

\* What a home has and does stays as it is.
Same(g) ==
    /\ sess'[g] = sess[g] /\ file'[g] = file[g] /\ grant'[g] = grant[g]
    /\ pc'[g] = pc[g] /\ verb'[g] = verb[g] /\ got'[g] = got[g]

\* What is said of a home alone then stays true.
LEMMA SameLocal ==
    ASSUME NEW g \in Homes, Same(g)
    PROVE  /\ Local(g) => Local(g)'
           /\ Holds(g)' <=> Holds(g)
           /\ Held(g)' = Held(g)
<1>1. Local(g) => Local(g)'
    BY DEF Same, Local, AtStep, Copy, Filed
<1>2. Holds(g)' <=> Holds(g)
    BY DEF Same, Holds, Taken
<1>3. Held(g)' = Held(g)
    BY DEF Same, Held
<1> QED
    BY <1>1, <1>2, <1>3

\* A step of one home that leaves the tag, the files and the head, and neither
\* gives the home the session nor takes it away, leaves the line as it was.
LEMMA QuietLine ==
    ASSUME NEW h \in Homes, \A g \in Homes \ {h} : Same(g), UNCHANGED <<tag, crate, head>>,
           Tagged, OnePlace, Somewhere,
           Holds(h)' <=> Holds(h), Holds(h) => Held(h)' = Held(h),
           tag # NoDigest /\ Retiring(h) => Retiring(h)'
    PROVE  Tagged' /\ OnePlace' /\ Somewhere'
<1>1. \A g \in Homes : Holds(g)' <=> Holds(g)
    BY SameLocal
<1>2. \A g \in Homes : Holds(g) => Held(g)' = Held(g)
    BY SameLocal
<1>3. tag # NoDigest => \A g \in Homes : Retiring(g) => Retiring(g)'
    BY DEF Same, Retiring
<1>4. Tagged'
    BY <1>3 DEF Tagged
<1>5. OnePlace'
    BY <1>1, <1>2 DEF OnePlace
<1>6. Somewhere'
    BY <1>1 DEF Somewhere
<1> QED
    BY <1>4, <1>5, <1>6

\* What is said of every home holds after a step of one home, if it does there.
LEMMA OthersLocal ==
    ASSUME NEW h \in Homes, \A g \in Homes \ {h} : Same(g), \A g \in Homes : Local(g), Local(h)'
    PROVE  \A g \in Homes : Local(g)'
BY SameLocal

\* No digest is the digest of no push.
LEMMA NoPush == NoDigest[1] = 0 /\ NoDigest[2] = 0
BY DEF NoDigest

\* A step that pushes nothing, and puts nothing on record, keeps the records
\* apart: it hands over what is on record, and what the tag held.
LEMMA Recorded ==
    ASSUME TypeOK, Fresh, OwnRecord, NEW h \in Homes, \A g \in Homes \ {h} : Same(g),
           UNCHANGED pushes, UNCHANGED <<tag, blobs>> \/ tag' = NoDigest, ship' \in {ship, NoDigest},
           sess'[h].rec \in {sess[h].rec, NoDigest}, got'[h] \in {got[h], NoDigest, tag, sess[h].rec},
           pc'[h] \in {"retire", "untag"} =>
              \/ got'[h] \in {NoDigest, sess[h].rec}
              \/ pc[h] \in {"retire", "untag"} /\ got'[h] = got[h]
    PROVE  Fresh' /\ OwnRecord'
<1>1. pushes \in Nat
    BY MobilityAssumption DEF TypeOK, StoreType
<1>2. Fresh'
    BY <1>1, NoPush DEF Fresh, Same
<1>3. OwnRecord'
    BY DEF OwnRecord, Same
<1> QED
    BY <1>2, <1>3

\* A step of one home that leaves the registry, the files and the head, and
\* neither gives the home the session nor takes it away, keeps the line whole.
LEMMA QuietStep ==
    ASSUME TypeOK, Line, NEW h \in Homes, \A g \in Homes \ {h} : Same(g),
           UNCHANGED <<tag, blobs, pushes, crate, ship, head>>,
           sess'[h].rec \in {sess[h].rec, NoDigest}, got'[h] \in {got[h], NoDigest, tag, sess[h].rec},
           pc'[h] \in {"retire", "untag"} =>
              \/ got'[h] \in {NoDigest, sess[h].rec}
              \/ pc[h] \in {"retire", "untag"} /\ got'[h] = got[h],
           Local(h)', Resumes(h)', sess'[h].st = "running" => sess[h].st = "running",
           Holds(h)' <=> Holds(h), Holds(h) => Held(h)' = Held(h),
           tag # NoDigest /\ Retiring(h) => Retiring(h)'
    PROVE  Line'
<1> USE DEF Line
<1>1. Fresh' /\ OwnRecord'
    BY Recorded
<1>2. \A g \in Homes : Local(g)'
    BY OthersLocal
<1>3. \A g \in Homes : Resumes(g)'
    BY DEF Resumes, Same
<1>4. Runner'
    BY DEF Runner, Same
<1>5. Tagged' /\ OnePlace' /\ Somewhere'
    BY QuietLine
<1> QED
    BY <1>1, <1>2, <1>3, <1>4, <1>5

(***************************************************************************)
(* The steps of a home: a clone.                                           *)
(***************************************************************************)

\* A call of a home that returns, with its copies and the registry as they were.
LEMMA ReturnsLine ==
    ASSUME TypeOK, Line, NEW h \in Homes, Returns(h),
           pc[h] \notin {"idle", "register", "unrecord", "drop", "persist"},
           pc[h] \in {"retire", "untag"} => verb[h] = "discard",
           verb[h] # "park" \/ sess[h].st = "none",
           UNCHANGED <<sess, file, grant, tag, blobs, pushes, crate, ship, head>>
    PROVE  Line'
<1>1. \A g \in Homes \ {h} : Same(g)
    BY DEF Same, TypeOK, CopiesType, CallType, Returns
<1>2. pc'[h] = "idle" /\ verb'[h] = "none" /\ got'[h] = NoDigest
    BY DEF TypeOK, CallType, Returns
<1>3. AtStep(h) /\ Copy(h) /\ Filed(h)
    BY DEF Line, Local
<1>4. Local(h)'
    BY <1>2, <1>3 DEF Local, AtStep, Copy, Filed
<1>5. Resumes(h)' /\ (Holds(h)' <=> Holds(h)) /\ (Holds(h) => Held(h)' = Held(h)) /\ ~Retiring(h)
    BY <1>2, <1>3 DEF Resumes, Holds, Taken, Retiring, Held, AtStep
<1> QED
    BY <1>1, <1>2, <1>4, <1>5, QuietStep

\* locate of a copy parked here: its own is resumed, and one claimed elsewhere
\* was not the home's to keep.
LEMMA LocateHereLine == ASSUME TypeOK, Line, ~split', NEW h \in Homes, LocateHere(h) PROVE Line'
<1>1. /\ pc[h] = "idle" /\ sess[h].st = "parked" /\ verb'[h] = "clone" /\ got' = got
      /\ UNCHANGED <<grant, tag, blobs, pushes, crate, ship, head>>
      /\ \A g \in Homes \ {h} : Same(g)
      /\ \/ Owned(h) /\ pc'[h] = "birth" /\ UNCHANGED <<sess, file>>
         \/ ~Owned(h) /\ pc'[h] = "find" /\ sess'[h] = NoCopy /\ file'[h] = 0
    BY DEF LocateHere, Begins, Forget, Splits, Same, TypeOK, CopiesType, CallType
<1>2. AtStep(h) /\ Copy(h) /\ Filed(h)
    BY DEF Line, Local
<1>3. NoCopy.st = "none" /\ NoCopy.rec = NoDigest
    BY DEF NoCopy
<1>4. Local(h)'
    BY <1>1, <1>2, <1>3 DEF Local, AtStep, Copy, Filed
<1>5. Resumes(h)' /\ ~Retiring(h)
    BY <1>1, <1>2, <1>3 DEF Resumes, Retiring, Owned
<1>6. (Holds(h)' <=> Holds(h)) /\ (Holds(h) => Held(h)' = Held(h))
    BY <1>1, <1>2, <1>3 DEF Holds, Held, Owned, Taken
<1>7. sess'[h].rec \in {sess[h].rec, NoDigest} /\ (sess'[h].st = "running" => sess[h].st = "running")
    BY <1>1, <1>3
<1> QED
    BY <1>1, <1>4, <1>5, <1>6, <1>7, QuietStep

\* locate of a session this home has no copy of.
LEMMA LocateElsewhereLine == ASSUME TypeOK, Line, NEW h \in Homes, LocateElsewhere(h) PROVE Line'
<1>1. /\ pc[h] = "idle" /\ pc'[h] = "find" /\ sess[h].st = "none" /\ verb'[h] = "clone" /\ got' = got
      /\ UNCHANGED <<sess, file, grant, tag, blobs, pushes, crate, ship, head>>
      /\ \A g \in Homes \ {h} : Same(g)
    BY DEF LocateElsewhere, Begins, Same, TypeOK, CopiesType, CallType
<1>2. AtStep(h) /\ Copy(h) /\ Filed(h)
    BY DEF Line, Local
<1>3. Local(h)' /\ Resumes(h)' /\ ~Retiring(h) /\ ~Holds(h) /\ ~Holds(h)'
    BY <1>1, <1>2 DEF Local, AtStep, Copy, Filed, Resumes, Retiring, Holds
<1> QED
    BY <1>1, <1>3, QuietStep

\* FindDelta takes note of the tag; a clone that creates found none.
LEMMA FindDeltaLine == ASSUME TypeOK, Line, ~split', NEW h \in Homes, FindDelta(h) PROVE Line'
<1>1. /\ pc[h] = "find" /\ UNCHANGED <<sess, file, grant, tag, blobs, pushes, crate, ship, head>>
      /\ \/ /\ tag # NoDigest /\ Goes(h, "find", IF verb[h] = "clone" THEN "pull" ELSE "check")
            /\ got' = [got EXCEPT ![h] = tag]
         \/ verb[h] = "clone" /\ Goes(h, "find", "birth") /\ UNCHANGED got
         \/ verb[h] = "discard" /\ Returns(h)
    BY DEF FindDelta
<1>2. AtStep(h) /\ Copy(h) /\ Filed(h) /\ Fresh
    BY DEF Line, Local
<1>3. CASE Returns(h)
    BY <1>1, <1>2, <1>3, ReturnsLine DEF AtStep
<1>4. CASE ~Returns(h)
  <2>1. \A g \in Homes \ {h} : Same(g)
      BY <1>1, <1>4 DEF Same, Goes, TypeOK, CopiesType, CallType
  <2>2. /\ verb'[h] = verb[h]
        /\ \/ /\ pc'[h] \in {"pull", "check"} /\ tag # NoDigest /\ got'[h] = tag
              /\ (pc'[h] = "pull" => verb[h] = "clone")
           \/ pc'[h] = "birth" /\ verb[h] = "clone" /\ got'[h] = got[h]
      BY <1>1, <1>4 DEF Goes, TypeOK, CallType
  <2>3. sess[h].st = "none" /\ sess[h].rec = NoDigest
      BY <1>1, <1>2 DEF AtStep, Copy, NoCopy
  <2>4. Local(h)'
      BY <1>1, <1>2, <2>2, <2>3 DEF Local, AtStep, Copy, Filed, Fresh
  <2>5. Resumes(h)' /\ ~Retiring(h) /\ ~Holds(h) /\ ~Holds(h)'
      BY <1>1, <2>2, <2>3 DEF Resumes, Retiring, Holds
  <2> QED
      BY <1>1, <2>1, <2>2, <2>4, <2>5, QuietStep
<1> QED
    BY <1>1, <1>3, <1>4

\* The look-ups of a claim, before it takes the tag, change nothing.
LEMMA ClaimLine ==
    ASSUME TypeOK, Line, NEW h \in Homes, FindRefused(h) \/ PullDelta(h) \/ CheckTag(h) PROVE Line'
<1>1. /\ pc[h] \in {"find", "pull", "check"}
      /\ UNCHANGED <<sess, file, grant, tag, blobs, pushes, crate, ship, head>>
      /\ \/ Returns(h)
         \/ pc[h] = "pull" /\ Goes(h, "pull", "check") /\ UNCHANGED got
         \/ pc[h] = "check" /\ Goes(h, "check", "take") /\ UNCHANGED got
    BY DEF FindRefused, PullDelta, CheckTag
<1>2. AtStep(h) /\ Copy(h) /\ Filed(h)
    BY DEF Line, Local
<1>3. CASE Returns(h)
    BY <1>1, <1>2, <1>3, ReturnsLine DEF AtStep
<1>4. CASE ~Returns(h)
  <2>1. /\ pc'[h] \in {"check", "take"} /\ verb'[h] = verb[h] /\ got'[h] = got[h]
        /\ pc[h] \in {"pull", "check"}
        /\ \A g \in Homes \ {h} : Same(g)
      BY <1>1, <1>4 DEF Same, Goes, TypeOK, CopiesType, CallType
  <2>2. Local(h)'
      BY <1>1, <1>2, <2>1 DEF Local, AtStep, Copy, Filed
  <2>3. Resumes(h)' /\ ~Retiring(h) /\ ~Holds(h) /\ ~Holds(h)'
      BY <1>1, <1>2, <2>1 DEF Resumes, Retiring, Holds, AtStep
  <2> QED
      BY <1>1, <2>1, <2>2, <2>3, QuietStep
<1> QED
    BY <1>3, <1>4

\* A tag no home is resuming holds the latest state, and the session is nowhere
\* else: it neither runs nor is about to.
LEMMA Unclaimed ==
    ASSUME Line, tag # NoDigest, ~Resuming(tag)
    PROVE  /\ head = At(tag[1]) /\ crate = 0 /\ \A g \in Homes : ~Holds(g)
           /\ \A g \in Homes : sess[g].st # "running"
           /\ \A g \in Homes : pc[g] \in {"birth", "commit"} => sess[g].rec = NoDigest
<1>1. \A g \in Homes : ~Retiring(g)
    BY DEF Resuming, Retiring
<1>2. head = At(tag[1]) /\ crate = 0 /\ \A g \in Homes : ~Holds(g)
    BY <1>1 DEF Line, Tagged, OnePlace
<1>3. \A g \in Homes : sess[g].st # "running"
    BY <1>2, Heads DEF Line, Runner
<1>4. \A g \in Homes : pc[g] \in {"birth", "commit"} => sess[g].rec = NoDigest
    BY DEF Resuming, Line, Resumes
<1> QED
    BY <1>2, <1>3, <1>4

\* ClaimDelta's delete moves the session from the tag to the home.
LEMMA TakeTagLine == ASSUME TypeOK, Line, ~split', NEW h \in Homes, TakeTag(h) PROVE Line'
<1>1. /\ pc[h] = "take" /\ verb[h] = "clone" /\ UNCHANGED <<sess, file, grant, crate, ship, head>>
      /\ \/ /\ tag # NoDigest /\ Delete /\ tag = got[h] /\ ~Resuming(tag)
            /\ Goes(h, "take", "register") /\ UNCHANGED got
         \/ Returns(h) /\ UNCHANGED store
    BY DEF TakeTag, Splits, TypeOK, HistoryType
<1>2. AtStep(h) /\ Copy(h) /\ Filed(h) /\ Fresh /\ OwnRecord
    BY DEF Line, Local
<1>3. CASE Returns(h) /\ UNCHANGED store
    BY <1>1, <1>3, ReturnsLine
<1>4. CASE /\ tag # NoDigest /\ Delete /\ tag = got[h] /\ ~Resuming(tag)
           /\ Goes(h, "take", "register") /\ UNCHANGED got
  <2>1. /\ \A g \in Homes \ {h} : Same(g)
        /\ pc'[h] = "register" /\ verb'[h] = verb[h] /\ got'[h] = got[h]
        /\ tag' = NoDigest /\ UNCHANGED pushes
      BY <1>1, <1>4 DEF Same, Goes, Delete, TypeOK, CopiesType, CallType
  <2>2. /\ head = At(tag[1]) /\ crate = 0 /\ \A g \in Homes : ~Holds(g)
        /\ \A g \in Homes : sess[g].st # "running"
        /\ \A g \in Homes : pc[g] \in {"birth", "commit"} => sess[g].rec = NoDigest
      BY <1>4, Unclaimed
  <2>3. Local(h)'
      BY <1>1, <1>2, <2>1 DEF Local, AtStep, Copy, Filed
  <2>4. \A g \in Homes : Local(g)'
      BY <2>1, <2>3, OthersLocal DEF Line
  <2>5. Fresh' /\ OwnRecord'
      BY <1>1, <1>2, <2>1, Recorded
  <2>6. \A g \in Homes : Resumes(g)'
      BY <1>1, <2>1, <2>2 DEF Resumes, Same, Line
  <2>7. Holds(h)' /\ Held(h)' = tag[1] /\ \A g \in Homes \ {h} : ~Holds(g)'
    <3>1. Holds(h)' /\ Held(h)' = tag[1]
        BY <1>4, <2>1 DEF Holds, Held
    <3> QED
        BY <2>1, <2>2, <3>1, SameLocal
  <2>8. Runner' /\ Tagged' /\ OnePlace' /\ Somewhere'
      BY <1>1, <2>1, <2>2, <2>7 DEF Runner, Tagged, OnePlace, Somewhere
  <2> QED
      BY <2>4, <2>5, <2>6, <2>8 DEF Line
<1> QED
    BY <1>1, <1>3, <1>4

\* DeleteDelta ends the session where the tag alone had it.
LEMMA DeleteDeltaLine == ASSUME TypeOK, Line, ~split', NEW h \in Homes, DeleteDelta(h) PROVE Line'
<1>1. /\ pc[h] = "take" /\ verb[h] = "discard" /\ Returns(h) /\ UNCHANGED <<sess, file, grant, crate, ship>>
      /\ \/ /\ tag # NoDigest /\ Delete /\ tag = got[h] /\ ~Resuming(tag)
            /\ head' = IF head = At(tag[1]) THEN Nothing ELSE head
         \/ UNCHANGED <<store, head>>
    BY DEF DeleteDelta, Splits, TypeOK, HistoryType
<1>2. AtStep(h) /\ Copy(h) /\ Filed(h) /\ Fresh /\ OwnRecord
    BY DEF Line, Local
<1>3. CASE UNCHANGED <<store, head>>
    BY <1>1, <1>3, ReturnsLine
<1>4. CASE tag # NoDigest /\ Delete /\ ~Resuming(tag) /\ head' = IF head = At(tag[1]) THEN Nothing ELSE head
  <2>1. /\ \A g \in Homes \ {h} : Same(g)
        /\ pc'[h] = "idle" /\ verb'[h] = "none" /\ got'[h] = NoDigest /\ tag' = NoDigest /\ UNCHANGED pushes
      BY <1>1, <1>4 DEF Same, Returns, Delete, TypeOK, CopiesType, CallType
  <2>2. /\ head = At(tag[1]) /\ crate = 0 /\ \A g \in Homes : ~Holds(g)
        /\ \A g \in Homes : sess[g].st # "running"
        /\ \A g \in Homes : pc[g] \in {"birth", "commit"} => sess[g].rec = NoDigest
      BY <1>4, Unclaimed
  <2>3. Local(h)'
      BY <1>1, <1>2, <2>1 DEF Local, AtStep, Copy, Filed
  <2>4. \A g \in Homes : Local(g)'
      BY <2>1, <2>3, OthersLocal DEF Line
  <2>5. Fresh' /\ OwnRecord'
      BY <1>1, <1>2, <2>1, Recorded
  <2>6. \A g \in Homes : Resumes(g)'
      BY <1>1, <2>1, <2>2 DEF Resumes, Same, Line
  <2>7. \A g \in Homes : ~Holds(g)'
    <3>1. ~Holds(h)'
        BY <1>1, <1>2, <2>1 DEF Holds, AtStep
    <3> QED
        BY <2>1, <2>2, <3>1, SameLocal
  <2>8. Runner' /\ Tagged' /\ OnePlace' /\ Somewhere'
      BY <1>1, <1>4, <2>1, <2>2, <2>7, Heads DEF Runner, Tagged, OnePlace, Somewhere
  <2> QED
      BY <2>4, <2>5, <2>6, <2>8 DEF Line
<1> QED
    BY <1>1, <1>3, <1>4

\* restoreParked: the home that claimed the session holds it parked, and filed.
LEMMA RegisterLine == ASSUME TypeOK, Line, ~split', NEW h \in Homes, Register(h) PROVE Line'
<1>1. /\ pc[h] = "register" /\ UNCHANGED <<grant, tag, blobs, pushes, crate, ship, head>>
      /\ sess' = [sess EXCEPT ![h] = Parked(got[h][1], NoDigest)] /\ file' = [file EXCEPT ![h] = got[h][1]]
      /\ Goes(h, "register", "birth") /\ got' = [got EXCEPT ![h] = NoDigest]
    BY DEF Register, Splits, TypeOK, HistoryType
<1>2. AtStep(h) /\ Copy(h) /\ Filed(h)
    BY DEF Line, Local
<1>3. \A g \in Homes \ {h} : Same(g)
    BY <1>1 DEF Same, Goes, TypeOK, CopiesType, CallType
<1>4. /\ sess'[h].st = "parked" /\ sess'[h].ver = got[h][1] /\ sess'[h].rec = NoDigest
      /\ file'[h] = got[h][1] /\ got'[h] = NoDigest /\ pc'[h] = "birth" /\ verb'[h] = verb[h]
    BY <1>1 DEF Goes, Parked, TypeOK, CopiesType, CallType
<1>5. Local(h)' /\ Resumes(h)'
    BY <1>1, <1>2, <1>4 DEF Local, AtStep, Copy, Filed, Resumes
<1>6. Holds(h)' /\ Holds(h) /\ Held(h)' = Held(h) /\ ~Retiring(h)
    BY <1>1, <1>4 DEF Holds, Held, Retiring, Taken
<1> QED
    BY <1>1, <1>3, <1>4, <1>5, <1>6, QuietStep

\* The runtime's resume or create moves nothing yet.
LEMMA BirthLine == ASSUME TypeOK, Line, NEW h \in Homes, Birth(h) PROVE Line'
<1>1. /\ pc[h] = "birth" /\ UNCHANGED <<sess, file, grant, tag, blobs, pushes, crate, ship, head>>
      /\ \/ Goes(h, "birth", "commit") /\ UNCHANGED got
         \/ sess[h].st = "parked" /\ sess[h].rec = NoDigest /\ Goes(h, "birth", "publish") /\ UNCHANGED got
         \/ Returns(h)
    BY DEF Birth
<1>2. AtStep(h) /\ Copy(h) /\ Filed(h) /\ Resumes(h)
    BY DEF Line, Local
<1>3. CASE Returns(h)
    BY <1>1, <1>2, <1>3, ReturnsLine DEF AtStep
<1>4. CASE ~Returns(h)
  <2>1. /\ verb'[h] = verb[h] /\ got'[h] = got[h] /\ \A g \in Homes \ {h} : Same(g)
        /\ \/ pc'[h] = "commit"
           \/ pc'[h] = "publish" /\ sess[h].st = "parked" /\ sess[h].rec = NoDigest
      BY <1>1, <1>4 DEF Same, Goes, TypeOK, CopiesType, CallType
  <2>2. Local(h)' /\ Resumes(h)'
      BY <1>1, <1>2, <2>1 DEF Local, AtStep, Copy, Filed, Resumes
  <2>3. (Holds(h)' <=> Holds(h)) /\ (Holds(h) => Held(h)' = Held(h)) /\ ~Retiring(h)
      BY <1>1, <2>1 DEF Holds, Held, Retiring, Taken
  <2> QED
      BY <1>1, <2>1, <2>2, <2>3, QuietStep
<1> QED
    BY <1>3, <1>4

\* A home that is resuming its parked copy has the latest state, and nobody else
\* has the session.
LEMMA ResumeFrom ==
    ASSUME Line, NEW h \in Homes, pc[h] \in {"birth", "commit"}, sess[h].st = "parked"
    PROVE  /\ head = At(sess[h].ver) /\ tag = sess[h].rec /\ crate = 0
           /\ \A g \in Homes \ {h} : ~Holds(g)
<1> USE DEF Line
<1>1. CASE sess[h].rec = NoDigest
  <2>1. Holds(h) /\ Held(h) = sess[h].ver
      BY <1>1 DEF Holds, Held, Taken
  <2> QED
      BY <1>1, <2>1 DEF OnePlace
<1>2. CASE sess[h].rec # NoDigest
  <2>1. tag = sess[h].rec /\ tag[1] = sess[h].ver
      BY <1>2 DEF Resumes, Local, Copy
  <2>2. \A g \in Homes : ~Retiring(g)
      BY <1>2, <2>1 DEF OwnRecord, Retiring
  <2> QED
      BY <1>2, <2>1, <2>2 DEF Tagged, OnePlace
<1> QED
    BY <1>1, <1>2

\* The commit: the latest state runs, and nobody else has the session.
LEMMA CommitLine == ASSUME TypeOK, Line, ~split', NEW h \in Homes, Commit(h) PROVE Line'
<1>1. /\ pc[h] = "commit" /\ UNCHANGED <<file, grant, tag, blobs, pushes, crate, ship>>
      /\ \/ Returns(h) /\ UNCHANGED <<sess, head>>
         \/ /\ grant[h] /\ sess' = [sess EXCEPT ![h].st = "running"] /\ head' = Runs(h)
            /\ sess[h].st = "parked" /\ Goes(h, "commit", "retire") /\ got' = [got EXCEPT ![h] = sess[h].rec]
         \/ /\ grant[h] /\ sess' = [sess EXCEPT ![h].st = "running"] /\ head' = Runs(h)
            /\ sess[h].st = "none" /\ Returns(h) /\ head = Nothing
    BY DEF Commit, Splits, TypeOK, HistoryType
<1>2. AtStep(h) /\ Copy(h) /\ Filed(h) /\ Fresh /\ OwnRecord
    BY DEF Line, Local
<1>3. CASE Returns(h) /\ UNCHANGED <<sess, head>>
    BY <1>1, <1>2, <1>3, ReturnsLine DEF AtStep
<1>4. CASE /\ grant[h] /\ sess' = [sess EXCEPT ![h].st = "running"] /\ head' = Runs(h)
           /\ sess[h].st = "parked" /\ Goes(h, "commit", "retire") /\ got' = [got EXCEPT ![h] = sess[h].rec]
  <2>1. /\ \A g \in Homes \ {h} : Same(g)
        /\ pc'[h] = "retire" /\ verb'[h] = verb[h] /\ got'[h] = sess[h].rec
        /\ sess'[h].st = "running" /\ sess'[h].ver = sess[h].ver /\ sess'[h].rec = sess[h].rec
      BY <1>1, <1>4 DEF Same, Goes, TypeOK, CopiesType, CopyType, CallType
  <2>2. /\ head = At(sess[h].ver) /\ tag = sess[h].rec /\ crate = 0
        /\ \A g \in Homes \ {h} : ~Holds(g)
      BY <1>1, <1>4, ResumeFrom
  <2>3. Local(h)' /\ Resumes(h)'
      BY <1>1, <1>2, <1>4, <2>1 DEF Local, AtStep, Copy, Filed, Resumes
  <2>4. \A g \in Homes : Local(g)'
      BY <2>1, <2>3, OthersLocal DEF Line
  <2>5. \A g \in Homes : Resumes(g)'
      BY <1>1, <2>1, <2>3 DEF Line, Resumes, Same
  <2>6. Fresh' /\ OwnRecord'
      BY <1>1, <1>2, <2>1, Recorded
  <2>7. Runner'
      BY <1>4, <2>1, <2>2, Heads DEF Line, Runner, Same
  <2>8. Retiring(h)' /\ ~Holds(h)'
      BY <1>1, <1>2, <2>1, <2>2 DEF Retiring, Holds, AtStep
  <2>9. \A g \in Homes : ~Holds(g)'
      BY <2>1, <2>2, <2>8, SameLocal
  <2>10. Tagged' /\ OnePlace' /\ Somewhere'
      BY <1>1, <1>4, <2>2, <2>8, <2>9, Heads DEF Tagged, OnePlace, Somewhere
  <2> QED
      BY <2>4, <2>5, <2>6, <2>7, <2>10 DEF Line
<1>5. CASE /\ grant[h] /\ sess' = [sess EXCEPT ![h].st = "running"] /\ head' = Runs(h)
           /\ sess[h].st = "none" /\ Returns(h) /\ head = Nothing
  <2>1. /\ \A g \in Homes \ {h} : Same(g)
        /\ pc'[h] = "idle" /\ verb'[h] = "none" /\ got'[h] = NoDigest
        /\ sess'[h].st = "running" /\ sess'[h].ver = sess[h].ver /\ sess'[h].rec = sess[h].rec
      BY <1>1, <1>5 DEF Same, Returns, TypeOK, CopiesType, CopyType, CallType
  <2>2. tag = NoDigest /\ crate = 0 /\ \A g \in Homes : ~Holds(g)
      BY <1>5, Heads DEF Line, Tagged, OnePlace
  <2>3. Local(h)' /\ Resumes(h)'
      BY <1>1, <1>2, <1>5, <2>1 DEF Local, AtStep, Copy, Filed, Resumes
  <2>4. \A g \in Homes : Local(g)'
      BY <2>1, <2>3, OthersLocal DEF Line
  <2>5. \A g \in Homes : Resumes(g)'
      BY <1>1, <2>1, <2>3 DEF Line, Resumes, Same
  <2>6. Fresh' /\ OwnRecord'
      BY <1>1, <1>2, <2>1, Recorded
  <2>7. Runner'
      BY <1>5, <2>1, <2>2, Heads DEF Line, Runner, Same
  <2>8. ~Holds(h)'
      BY <2>1 DEF Holds
  <2>9. \A g \in Homes : ~Holds(g)'
      BY <2>1, <2>2, <2>8, SameLocal
  <2>10. Tagged' /\ OnePlace' /\ Somewhere'
      BY <1>1, <1>5, <2>2, <2>9, Heads DEF Tagged, OnePlace, Somewhere
  <2> QED
      BY <2>4, <2>5, <2>6, <2>7, <2>10 DEF Line
<1> QED
    BY <1>1, <1>3, <1>4, <1>5

\* RetireDelta's look at the tag moves nothing.
LEMMA RetireReadLine == ASSUME TypeOK, Line, ~split', NEW h \in Homes, RetireRead(h) PROVE Line'
<1>1. /\ pc[h] = "retire" /\ UNCHANGED <<sess, file, grant, tag, blobs, pushes, crate, ship, head>>
      /\ \/ got[h] # NoDigest /\ tag = got[h] /\ Goes(h, "retire", "untag") /\ UNCHANGED got
         \/ (got[h] = NoDigest \/ tag # got[h]) /\ Goes(h, "retire", "unrecord") /\ UNCHANGED got
         \/ /\ got[h] # NoDigest /\ verb[h] = "clone" /\ tag # got[h]
            /\ pc' = [pc EXCEPT ![h] = "persist"] /\ UNCHANGED <<verb, got>>
         \/ verb[h] # "clone" /\ Returns(h)
    BY DEF RetireRead, RetireFails, Splits, TypeOK, HistoryType
<1>2. AtStep(h) /\ Copy(h) /\ Filed(h) /\ Resumes(h) /\ Tagged
    BY DEF Line, Local
<1>3. CASE verb[h] # "clone" /\ Returns(h)
    BY <1>1, <1>2, <1>3, ReturnsLine DEF AtStep
<1>4. CASE ~(verb[h] # "clone" /\ Returns(h))
  <2>1. /\ verb'[h] = verb[h] /\ got'[h] = got[h] /\ \A g \in Homes \ {h} : Same(g)
        /\ \/ pc'[h] = "untag" /\ got[h] # NoDigest
           \/ pc'[h] = "unrecord" /\ (got[h] = NoDigest \/ tag # got[h])
           \/ pc'[h] = "persist" /\ verb[h] = "clone" /\ tag # got[h]
      BY <1>1, <1>4 DEF Same, Goes, TypeOK, CopiesType, CallType
  <2>2. Local(h)' /\ Resumes(h)'
      BY <1>1, <1>2, <2>1 DEF Local, AtStep, Copy, Filed, Resumes
  <2>3. (Holds(h)' <=> Holds(h)) /\ (Holds(h) => Held(h)' = Held(h))
      BY <1>1, <1>2, <2>1 DEF Holds, Held, Taken, AtStep
  <2>4. tag # NoDigest /\ Retiring(h) => Retiring(h)'
      BY <1>1, <2>1 DEF Retiring
  <2> QED
      BY <1>1, <2>1, <2>2, <2>3, <2>4, QuietStep
<1> QED
    BY <1>3, <1>4

\* RetireDelta's delete: a resume's tag was its own, and so was a discard's, which
\* now holds the session alone.
LEMMA RetireDeleteLine == ASSUME TypeOK, Line, ~split', NEW h \in Homes, RetireDelete(h) PROVE Line'
<1>1. /\ pc[h] = "untag" /\ UNCHANGED <<sess, file, grant, crate, ship, head>>
      /\ \/ tag = NoDigest /\ Goes(h, "untag", "unrecord") /\ UNCHANGED <<store, got>>
         \/ /\ tag # NoDigest /\ Delete /\ tag = got[h] /\ Goes(h, "untag", "unrecord")
            /\ got' = [got EXCEPT ![h] = NoDigest]
         \/ verb[h] # "clone" /\ Returns(h) /\ UNCHANGED store
         \/ /\ tag # NoDigest /\ Delete /\ tag = got[h] /\ verb[h] = "clone"
            /\ pc' = [pc EXCEPT ![h] = "persist"] /\ UNCHANGED <<verb, got>>
  <2>1. verb[h] \in {"clone", "discard"}
      BY DEF RetireDelete, Line, Local, AtStep
  <2> QED
      BY <2>1 DEF RetireDelete, RetireFails, Splits, TypeOK, HistoryType
<1>2. AtStep(h) /\ Copy(h) /\ Filed(h) /\ Resumes(h) /\ Fresh /\ OwnRecord
    BY DEF Line, Local
<1>3. CASE verb[h] # "clone" /\ Returns(h) /\ UNCHANGED store
    BY <1>1, <1>2, <1>3, ReturnsLine DEF AtStep
<1>4. CASE tag = NoDigest /\ Goes(h, "untag", "unrecord") /\ UNCHANGED <<store, got>>
  <2>1. /\ pc'[h] = "unrecord" /\ verb'[h] = verb[h] /\ got'[h] = got[h]
        /\ \A g \in Homes \ {h} : Same(g)
      BY <1>1, <1>4 DEF Same, Goes, TypeOK, CopiesType, CallType
  <2>2. Local(h)' /\ Resumes(h)'
      BY <1>1, <1>2, <2>1 DEF Local, AtStep, Copy, Filed, Resumes
  <2>3. (Holds(h)' <=> Holds(h)) /\ (Holds(h) => Held(h)' = Held(h))
      BY <1>1, <1>2, <2>1 DEF Holds, Held, Taken, AtStep
  <2> QED
      BY <1>1, <1>4, <2>1, <2>2, <2>3, QuietStep
<1>5. CASE /\ tag # NoDigest /\ Delete /\ tag = got[h]
           /\ \/ Goes(h, "untag", "unrecord") /\ got' = [got EXCEPT ![h] = NoDigest]
              \/ verb[h] = "clone" /\ pc' = [pc EXCEPT ![h] = "persist"] /\ UNCHANGED <<verb, got>>
  <2>1. /\ \A g \in Homes \ {h} : Same(g)
        /\ verb'[h] = verb[h] /\ tag' = NoDigest /\ UNCHANGED pushes
        /\ \/ pc'[h] = "unrecord" /\ got'[h] = NoDigest
           \/ pc'[h] = "persist" /\ verb[h] = "clone" /\ got'[h] = got[h]
      BY <1>1, <1>5 DEF Same, Goes, Delete, TypeOK, CopiesType, CallType
  <2>2. /\ sess[h].rec = tag /\ sess[h].st \in {"parked", "running"}
        /\ verb[h] = "clone" => sess[h].st = "running"
        /\ verb[h] = "discard" => sess[h].st = "parked"
        /\ verb[h] \in {"clone", "discard"}
      BY <1>1, <1>2, <1>5, Shapes DEF AtStep, Resumes, TypeOK
  <2>3. \A g \in Homes \ {h} : sess[g].rec # tag
      BY <1>2, <1>5, <2>2 DEF OwnRecord
  <2>4. Local(h)'
      BY <1>1, <1>2, <2>1, <2>2 DEF Local, AtStep, Copy, Filed
  <2>5. \A g \in Homes : Local(g)'
      BY <2>1, <2>4, OthersLocal DEF Line
  <2>6. Fresh' /\ OwnRecord'
      BY <1>1, <1>2, <2>1, Recorded
  <2>7. \A g \in Homes : Resumes(g)'
      BY <1>1, <2>1, <2>3 DEF Resumes, Same, Line
  <2>8. crate = 0 /\ \A g \in Homes : ~Holds(g)
      BY <1>5 DEF Line, OnePlace
  <2>9. \A g \in Homes \ {h} : ~Holds(g)'
      BY <2>1, <2>8, SameLocal
  <2>10. Runner'
      BY <1>1 DEF Line, Runner
  <2>11. CASE verb[h] = "discard"
    <3>1. head = At(tag[1])
        BY <1>5, <2>2, <2>3, <2>11 DEF Line, Tagged, Retiring
    <3>2. Holds(h)' /\ Held(h)' = tag[1]
        BY <1>1, <1>2, <1>5, <2>1, <2>2, <2>11 DEF Holds, Held, Copy
    <3> QED
        BY <1>1, <2>1, <2>5, <2>6, <2>7, <2>8, <2>9, <2>10, <3>1, <3>2
           DEF Line, Tagged, OnePlace, Somewhere
  <2>12. CASE verb[h] = "clone"
    <3>1. head = Runs(h)
        BY <2>2, <2>12 DEF Line, Runner
    <3>2. ~Holds(h)'
        BY <1>1, <2>1, <2>2, <2>12 DEF Holds
    <3> QED
        BY <1>1, <2>1, <2>5, <2>6, <2>7, <2>8, <2>9, <2>10, <3>1, <3>2, Heads
           DEF Line, Tagged, OnePlace, Somewhere
  <2> QED
      BY <2>2, <2>11, <2>12
<1> QED
    BY <1>1, <1>3, <1>4, <1>5

\* RetireDelta's record goes once the tag is no longer the home's.
LEMMA RetireRecordLine == ASSUME TypeOK, Line, NEW h \in Homes, RetireRecord(h) PROVE Line'
<1>1. /\ pc[h] = "unrecord" /\ UNCHANGED <<file, grant, tag, blobs, pushes, crate, ship, head>>
      /\ pc'[h] = (IF verb[h] = "clone" THEN "persist" ELSE "drop")
      /\ verb'[h] = verb[h] /\ got'[h] = got[h]
      /\ sess'[h].st = sess[h].st /\ sess'[h].ver = sess[h].ver /\ sess'[h].rec = NoDigest
      /\ \A g \in Homes \ {h} : Same(g)
    BY DEF RetireRecord, Goes, Same, TypeOK, CopiesType, CopyType, CallType
<1>2. AtStep(h) /\ Copy(h) /\ Filed(h)
    BY DEF Line, Local
<1>3. Copy(h)'
  <2>1. sess[h].st = "none" => sess'[h] = [NoCopy EXCEPT !.rec = NoDigest]
      BY <1>2 DEF RetireRecord, Copy, TypeOK, CopiesType
  <2>2. [NoCopy EXCEPT !.rec = NoDigest] = NoCopy
      BY DEF NoCopy
  <2> QED
      BY <1>1, <1>2, <2>1, <2>2 DEF Copy
<1>4. Local(h)' /\ Resumes(h)'
    BY <1>1, <1>2, <1>3 DEF Local, AtStep, Filed, Resumes
<1>5. (Holds(h)' <=> Holds(h)) /\ (Holds(h) => Held(h)' = Held(h)) /\ ~Retiring(h)
    BY <1>1, <1>2 DEF Holds, Held, Taken, AtStep, Retiring
<1> QED
    BY <1>1, <1>4, <1>5, QuietStep

\* persist writes down a parked copy.
LEMMA PersistLine == ASSUME TypeOK, Line, NEW h \in Homes, Persist(h) PROVE Line'
<1>1. /\ pc[h] = "persist" /\ UNCHANGED <<sess, grant, tag, blobs, pushes, crate, ship, head>>
      /\ pc'[h] = "idle" /\ verb'[h] = "none" /\ got'[h] = NoDigest
      /\ file'[h] = (IF sess[h].st = "parked" /\ grant[h] THEN sess[h].ver ELSE 0)
      /\ \A g \in Homes \ {h} : Same(g)
    BY DEF Persist, Returns, Same, TypeOK, CopiesType, CallType
<1>2. AtStep(h) /\ Copy(h) /\ Filed(h)
    BY DEF Line, Local
<1>3. Local(h)' /\ Resumes(h)'
    BY <1>1, <1>2 DEF Local, AtStep, Copy, Filed, Resumes
<1>4. (Holds(h)' <=> Holds(h)) /\ (Holds(h) => Held(h)' = Held(h)) /\ ~Retiring(h)
    BY <1>1, <1>2 DEF Holds, Held, Taken, Retiring
<1> QED
    BY <1>1, <1>3, <1>4, QuietStep

(***************************************************************************)
(* Park, release, discard, yield, admit and crash.                         *)
(***************************************************************************)

\* Park: the home that ran the session holds its new state alone.
LEMMA ParkLine == ASSUME TypeOK, Line, NEW h \in Homes, Park(h) PROVE Line'
<1>1. /\ pc[h] = "idle" /\ sess[h].st = "running"
      /\ UNCHANGED <<file, grant, got, tag, blobs, pushes, crate, ship>>
      /\ pc'[h] = "publish" /\ verb'[h] = "park" /\ sess'[h] = Parked(vers + 1, NoDigest)
      /\ head' = IF head = Runs(h) THEN At(vers + 1) ELSE head
      /\ \A g \in Homes \ {h} : Same(g)
    BY DEF Park, Begins, Same, TypeOK, CopiesType, CallType
<1>2. AtStep(h) /\ Copy(h) /\ Filed(h) /\ Fresh /\ OwnRecord
    BY DEF Line, Local
<1>3. sess'[h].st = "parked" /\ sess'[h].ver = vers + 1 /\ sess'[h].rec = NoDigest /\ vers + 1 # 0
    BY <1>1, MobilityAssumption DEF Parked, TypeOK, StoreType, Versions
<1>4. head = Runs(h)
    BY <1>1 DEF Line, Runner
<1>5. tag = NoDigest /\ crate = 0 /\ \A g \in Homes : ~Holds(g)
    BY <1>1, <1>4, Heads DEF Line, Tagged, OnePlace, Retiring
<1>6. Local(h)' /\ Resumes(h)'
    BY <1>1, <1>2, <1>3 DEF Local, AtStep, Copy, Filed, Resumes
<1>7. \A g \in Homes : Local(g)'
    BY <1>1, <1>6, OthersLocal DEF Line
<1>8. \A g \in Homes : Resumes(g)'
    BY <1>1, <1>6 DEF Line, Resumes, Same
<1>9. Fresh' /\ OwnRecord'
    BY <1>1, <1>2, <1>3, Recorded
<1>10. Runner'
    BY <1>1, <1>3, <1>4, Heads DEF Line, Runner, Same
<1>11. Holds(h)' /\ Held(h)' = vers + 1
    BY <1>1, <1>3 DEF Holds, Held, Taken
<1>12. \A g \in Homes \ {h} : ~Holds(g)'
    BY <1>1, <1>5, SameLocal
<1>13. Tagged' /\ OnePlace' /\ Somewhere'
    BY <1>1, <1>4, <1>5, <1>11, <1>12 DEF Tagged, OnePlace, Somewhere
<1> QED
    BY <1>7, <1>8, <1>9, <1>10, <1>13 DEF Line

\* A push puts the tag at a digest nobody has.
LEMMA PushedIsNew ==
    ASSUME TypeOK, Fresh, NEW v \in Versions, v # 0, Push(v)
    PROVE  /\ tag'[1] = v /\ tag'[2] = pushes' /\ tag' # NoDigest /\ tag' \in blobs'
           /\ \A d \in Digests : d[2] <= pushes => d # tag' /\ d[2] <= pushes'
<1>1. pushes \in Nat /\ pushes' = pushes + 1 /\ tag' = <<v, pushes + 1>> /\ tag' \in blobs'
    BY MobilityAssumption DEF Push, TypeOK, StoreType
<1>2. tag'[1] = v /\ tag'[2] = pushes + 1
    BY <1>1
<1>3. \A d \in Digests : d[2] \in Nat
    BY NothingType, MobilityAssumption
<1> QED
    BY <1>1, <1>2, <1>3, NoPush

\* PublishDelta moves the session from the home to the tag, under a new digest.
LEMMA PublishDeltaLine == ASSUME TypeOK, Line, ~split', NEW h \in Homes, PublishDelta(h) PROVE Line'
<1>1. /\ pc[h] = "publish" /\ UNCHANGED <<file, grant, crate, ship, head>>
      /\ \/ verb[h] = "park" /\ Goes(h, "publish", "persist") /\ UNCHANGED got
         \/ verb[h] # "park" /\ Returns(h)
      /\ \/ Push(sess[h].ver) /\ sess' = [sess EXCEPT ![h].rec = <<sess[h].ver, pushes + 1>>]
         \/ UNCHANGED <<store, sess>>
    BY DEF PublishDelta, Splits, TypeOK, HistoryType
<1>2. AtStep(h) /\ Copy(h) /\ Filed(h) /\ Fresh /\ OwnRecord
    BY DEF Line, Local
<1>3. /\ UNCHANGED <<file, grant>> /\ got'[h] \in {got[h], NoDigest} /\ sess'[h].st = sess[h].st
      /\ \/ pc'[h] = "persist" /\ verb'[h] = verb[h] /\ verb[h] = "park"
         \/ pc'[h] = "idle" /\ verb'[h] = "none" /\ verb[h] # "park"
      /\ sess'[h].ver = sess[h].ver
      /\ \A g \in Homes \ {h} : Same(g)
    BY <1>1 DEF Goes, Returns, Same, TypeOK, CopiesType, CopyType, CallType
<1>4. sess[h].st = "parked" /\ sess[h].rec = NoDigest /\ sess[h].ver # 0 /\ Holds(h) /\ Held(h) = sess[h].ver
    BY <1>1, <1>2 DEF AtStep, Copy, Holds, Held, Taken
<1>5. CASE UNCHANGED <<store, sess>>
  <2>1. Local(h)' /\ Resumes(h)'
      BY <1>2, <1>3, <1>4, <1>5 DEF Local, AtStep, Copy, Filed, Resumes
  <2>2. Holds(h)' /\ Held(h)' = Held(h) /\ ~Retiring(h)
      BY <1>1, <1>3, <1>4, <1>5 DEF Holds, Held, Taken, Retiring
  <2> QED
      BY <1>1, <1>3, <1>4, <1>5, <2>1, <2>2, QuietStep
<1>6. CASE Push(sess[h].ver) /\ sess' = [sess EXCEPT ![h].rec = <<sess[h].ver, pushes + 1>>]
  <2>1. /\ tag'[1] = sess[h].ver /\ tag'[2] = pushes' /\ tag' # NoDigest /\ tag' \in blobs'
        /\ \A d \in Digests : d[2] <= pushes => d # tag' /\ d[2] <= pushes'
      BY <1>2, <1>4, <1>6, PushedIsNew, Shapes DEF TypeOK
  <2>2. sess'[h].rec = tag'
      BY <1>6 DEF Push, TypeOK, CopiesType, CopyType
  <2>3. head = At(sess[h].ver) /\ tag = NoDigest /\ crate = 0 /\ \A g \in Homes \ {h} : ~Holds(g)
      BY <1>4 DEF Line, OnePlace
  <2>4. /\ \A g \in Homes : sess[g].rec \in Digests /\ got[g] \in Digests
        /\ ship \in Digests /\ tag \in Digests /\ NoDigest \in Digests /\ pushes' \in Nat
        /\ \A g \in Homes \ {h} :
              sess'[g] = sess[g] /\ got'[g] = got[g] /\ pc'[g] = pc[g] /\ verb'[g] = verb[g]
    <3>1. pushes' \in Nat
        BY <1>6, MobilityAssumption DEF Push, TypeOK, StoreType
    <3> QED
        BY <1>3, <3>1, Shapes, NothingType DEF TypeOK, StoreType, CallType, Same
  <2>5. Local(h)'
      BY <1>2, <1>3, <1>4, <2>1, <2>2 DEF Local, AtStep, Copy, Filed
  <2>6. \A g \in Homes : Local(g)'
      BY <1>3, <2>5, OthersLocal DEF Line
  <2>7. \A g \in Homes : Resumes(g)'
    <3>1. Resumes(h)'
        BY <1>3 DEF Resumes
    <3>2. ASSUME NEW g \in Homes \ {h} PROVE Resumes(g)'
        BY <1>2, <2>1, <2>3, <2>4 DEF Line, Resumes, Fresh
    <3> QED
        BY <3>1, <3>2
  <2>8. Fresh'
      BY <1>1, <1>2, <1>3, <1>4, <2>1, <2>2, <2>4, NoPush DEF Fresh
  <2>9. OwnRecord'
      BY <1>2, <1>3, <2>1, <2>2, <2>4 DEF OwnRecord, Fresh
  <2>10. Runner'
      BY <1>1, <1>3, <1>4, <2>4 DEF Line, Runner
  <2>11. ~Holds(h)'
      BY <1>3, <1>4, <2>1, <2>2 DEF Holds
  <2>12. \A g \in Homes : ~Holds(g)'
      BY <1>3, <2>3, <2>11, SameLocal
  <2>13. Tagged' /\ OnePlace' /\ Somewhere'
      BY <1>1, <2>1, <2>3, <2>12 DEF Tagged, OnePlace, Somewhere
  <2> QED
      BY <2>6, <2>7, <2>8, <2>9, <2>10, <2>13 DEF Line
<1> QED
    BY <1>1, <1>5, <1>6

\* A running fiber that ends takes its tag with it, where it has one.
LEMMA EndsLine ==
    ASSUME TypeOK, Line, ~split', NEW h \in Homes, Ends(h), UNCHANGED <<pc, verb, got, crate, ship>>,
           \A g \in Homes \ {h} : file'[g] = file[g] /\ grant'[g] = grant[g],
           \/ UNCHANGED <<file, grant>>
           \/ grant'[h] = FALSE
    PROVE  Line'
<1>1. /\ sess'[h] = (IF sess[h].st = "running" THEN NoCopy ELSE sess[h])
      /\ head' = (IF head = Runs(h) THEN Nothing ELSE head)
      /\ \A g \in Homes \ {h} : Same(g)
    BY DEF Ends, Same, TypeOK, CopiesType
<1>2. /\ \/ sess[h].st = "running" /\ sess[h].rec # NoDigest /\ tag = sess[h].rec /\ Delete
         \/ ~(sess[h].st = "running" /\ sess[h].rec # NoDigest /\ tag = sess[h].rec) /\ UNCHANGED store
    BY DEF Ends, Splits, TypeOK, HistoryType
<1>3. AtStep(h) /\ Copy(h) /\ Filed(h) /\ Resumes(h) /\ Fresh /\ OwnRecord
    BY DEF Line, Local
<1>4. NoCopy.st = "none" /\ NoCopy.rec = NoDigest /\ NoCopy.ver = 0
    BY DEF NoCopy
<1>5. /\ UNCHANGED pushes
      /\ UNCHANGED <<tag, blobs>> \/ tag' = NoDigest
      /\ sess'[h].rec \in {sess[h].rec, NoDigest}
    BY <1>1, <1>2, <1>4 DEF Delete
<1>6. Fresh' /\ OwnRecord'
  <2>1. pc'[h] \in {"retire", "untag"} => pc[h] \in {"retire", "untag"} /\ got'[h] = got[h]
      OBVIOUS
  <2> QED
      BY <1>1, <1>3, <1>5, <2>1, Recorded
<1>7. Local(h)'
    BY <1>1, <1>3, <1>4 DEF Local, AtStep, Copy, Filed
<1>8. \A g \in Homes : Local(g)'
    BY <1>1, <1>7, OthersLocal DEF Line
<1>9. sess[h].st = "running" => tag' = NoDigest /\ head = Runs(h)
  <2>1. sess[h].st = "running" => head = Runs(h)
      BY DEF Line, Runner
  <2>2. sess[h].st = "running" /\ tag # NoDigest => Retiring(h)
      BY <2>1, Heads DEF Line, Tagged
  <2> QED
      BY <1>2, <2>1, <2>2 DEF Retiring, Delete
<1>10. \A g \in Homes : Resumes(g)'
  <2>1. Resumes(h)'
      BY <1>1, <1>2, <1>3, <1>4, <1>9 DEF Resumes
  <2>2. ASSUME NEW g \in Homes \ {h} PROVE Resumes(g)'
      BY <1>1, <1>2, <1>3, <1>5 DEF Line, Resumes, Same, OwnRecord
  <2> QED
      BY <2>1, <2>2
<1>11. Runner'
    BY <1>1, <1>4, Heads DEF Line, Runner, Same
<1>12. \A g \in Homes : Holds(g)' <=> Holds(g)
  <2>1. Holds(h)' <=> Holds(h)
      BY <1>1, <1>3, <1>4 DEF Holds, Taken, AtStep
  <2> QED
      BY <1>1, <2>1, SameLocal
<1>13. \A g \in Homes : Holds(g) => Held(g)' = Held(g)
  <2>1. Holds(h) => Held(h)' = Held(h)
      BY <1>1, <1>3, <1>4 DEF Holds, Held, AtStep
  <2> QED
      BY <1>1, <2>1, SameLocal
<1>14. CASE head = Runs(h)
  <2>1. tag' = NoDigest
      BY <1>2, <1>9, <1>14, Heads DEF Line, Tagged, Retiring
  <2> QED
      BY <1>1, <1>6, <1>8, <1>10, <1>11, <1>12, <1>14, <2>1, Heads DEF Line, Tagged, OnePlace, Somewhere
<1>15. CASE head # Runs(h)
  <2>1. UNCHANGED <<tag, head>> /\ sess'[h] = sess[h]
      BY <1>1, <1>2, <1>9, <1>15
  <2>2. \A g \in Homes : Retiring(g) => Retiring(g)'
      BY <1>1, <2>1 DEF Retiring, Same
  <2>3. Tagged'
      BY <2>1, <2>2 DEF Line, Tagged
  <2>4. OnePlace' /\ Somewhere'
      BY <1>12, <1>13, <2>1 DEF Line, OnePlace, Somewhere
  <2> QED
      BY <1>6, <1>8, <1>10, <1>11, <2>3, <2>4 DEF Line
<1> QED
    BY <1>14, <1>15

\* Release, exit and Yield.
LEMMA EndLine == ASSUME TypeOK, Line, ~split', NEW h \in Homes, End(h) \/ Yield(h) PROVE Line'
<1>1. /\ Ends(h) /\ UNCHANGED <<pc, verb, got, crate, ship>>
      /\ \A g \in Homes \ {h} : file'[g] = file[g] /\ grant'[g] = grant[g]
      /\ UNCHANGED <<file, grant>> \/ grant'[h] = FALSE
    BY DEF End, Yield, TypeOK, CopiesType
<1> QED
    BY <1>1, EndsLine

\* Discard's beginning moves nothing.
LEMMA DiscardLine == ASSUME TypeOK, Line, NEW h \in Homes, Discard(h) PROVE Line'
<1>1. /\ pc[h] = "idle" /\ UNCHANGED <<grant, tag, blobs, pushes, crate, ship, head>>
      /\ verb'[h] = "discard" /\ \A g \in Homes \ {h} : Same(g)
      /\ \/ /\ sess[h].st = "parked" /\ pc'[h] = "retire" /\ got'[h] = sess[h].rec /\ UNCHANGED <<sess, file>>
         \/ /\ sess[h].st = "parked" /\ ~Owned(h) /\ pc'[h] = "find" /\ got'[h] = got[h]
            /\ sess'[h] = NoCopy
         \/ sess[h].st = "none" /\ pc'[h] = "find" /\ got'[h] = got[h] /\ UNCHANGED <<sess, file>>
    BY DEF Discard, Forget, Same, TypeOK, CopiesType, CallType
<1>2. AtStep(h) /\ Copy(h) /\ Filed(h)
    BY DEF Line, Local
<1>3. NoCopy.st = "none" /\ NoCopy.rec = NoDigest
    BY DEF NoCopy
<1>4. Local(h)' /\ Resumes(h)'
    BY <1>1, <1>2, <1>3 DEF Local, AtStep, Copy, Filed, Resumes
<1>5. (Holds(h)' <=> Holds(h)) /\ (Holds(h) => Held(h)' = Held(h)) /\ ~Retiring(h)
    BY <1>1, <1>3 DEF Holds, Held, Taken, Owned, Retiring
<1>6. sess'[h].rec \in {sess[h].rec, NoDigest} /\ (sess'[h].st = "running" => sess[h].st = "running")
    BY <1>1, <1>3
<1> QED
    BY <1>1, <1>4, <1>5, <1>6, QuietStep

\* DiscardDelta ends the session the home holds, and not one claimed under it.
LEMMA DiscardParkedLine == ASSUME TypeOK, Line, NEW h \in Homes, DiscardParked(h) PROVE Line'
<1>1. /\ pc[h] = "drop" /\ UNCHANGED <<grant, tag, blobs, pushes, crate, ship>>
      /\ pc'[h] = "idle" /\ verb'[h] = "none" /\ got'[h] = NoDigest /\ sess'[h] = NoCopy
      /\ head' = IF head = At(sess[h].ver) /\ ~Taken(h) THEN Nothing ELSE head
      /\ \A g \in Homes \ {h} : Same(g)
    BY DEF DiscardParked, Forget, Returns, Same, TypeOK, CopiesType, CallType
<1>2. AtStep(h) /\ Copy(h) /\ Filed(h) /\ Fresh /\ OwnRecord
    BY DEF Line, Local
<1>3. NoCopy.st = "none" /\ NoCopy.rec = NoDigest
    BY DEF NoCopy
<1>4. Local(h)' /\ Resumes(h)' /\ ~Holds(h)' /\ ~Retiring(h)
    BY <1>1, <1>2, <1>3 DEF Local, AtStep, Copy, Filed, Resumes, Holds, Retiring
<1>5. CASE Taken(h)
  <2>1. ~Holds(h)
      BY <1>1, <1>2, <1>5 DEF Holds
  <2> QED
      BY <1>1, <1>3, <1>4, <1>5, <2>1, QuietStep
<1>6. CASE ~Taken(h)
  <2>1. Holds(h) /\ Held(h) = sess[h].ver
      BY <1>1, <1>2, <1>6 DEF Holds, Held, AtStep
  <2>2. head = At(sess[h].ver) /\ tag = NoDigest /\ crate = 0 /\ \A g \in Homes \ {h} : ~Holds(g)
      BY <2>1 DEF Line, OnePlace
  <2>3. \A g \in Homes : Local(g)'
      BY <1>1, <1>4, OthersLocal DEF Line
  <2>4. \A g \in Homes : Resumes(g)'
      BY <1>1, <1>4 DEF Line, Resumes, Same
  <2>5. Fresh' /\ OwnRecord'
      BY <1>1, <1>2, <1>3, Recorded
  <2>6. Runner'
      BY <1>1, <1>3, <2>2, Heads DEF Line, Runner, Same
  <2>7. \A g \in Homes : ~Holds(g)'
      BY <1>1, <1>4, <2>2, SameLocal
  <2>8. Tagged' /\ OnePlace' /\ Somewhere'
      BY <1>1, <1>6, <2>2, <2>7, Heads DEF Tagged, OnePlace, Somewhere
  <2> QED
      BY <2>3, <2>4, <2>5, <2>6, <2>8 DEF Line
<1> QED
    BY <1>5, <1>6

\* Admit files the parked copy again.
LEMMA AdmitLine == ASSUME TypeOK, Line, NEW h \in Homes, Admit(h) PROVE Line'
<1>1. /\ ~grant[h] /\ UNCHANGED <<sess, pc, verb, got, tag, blobs, pushes, crate, ship, head>>
      /\ file'[h] = (IF sess[h].st = "parked" THEN sess[h].ver ELSE 0)
      /\ \A g \in Homes \ {h} : Same(g)
    BY DEF Admit, Same, TypeOK, CopiesType
<1>2. AtStep(h) /\ Copy(h) /\ Filed(h) /\ Resumes(h)
    BY DEF Line, Local
<1>3. Local(h)' /\ Resumes(h)'
    BY <1>1, <1>2 DEF Local, AtStep, Copy, Filed, Resumes
<1>4. (Holds(h)' <=> Holds(h)) /\ Held(h)' = Held(h) /\ (Retiring(h) => Retiring(h)')
    BY <1>1 DEF Holds, Held, Taken, Retiring
<1>5. pc'[h] \in {"retire", "untag"} => pc[h] \in {"retire", "untag"} /\ got'[h] = got[h]
    BY <1>1
<1> QED
    BY <1>1, <1>3, <1>4, <1>5, QuietStep

\* A crash and boot that cuts nothing brings the home's copy back, or ends the
\* session with a copy that was not kept.
LEMMA CrashLine == ASSUME TypeOK, Line, ~split', NEW h \in Homes, Crash(h) PROVE Line'
<1>1. /\ UNCHANGED <<grant, tag, blobs, pushes, crate, ship>>
      /\ pc'[h] = "idle" /\ verb'[h] = "none" /\ got'[h] = NoDigest
      /\ sess'[h] = (IF Back(h) THEN Parked(sess[h].ver, sess[h].rec) ELSE NoCopy)
      /\ file'[h] = (IF Back(h) THEN file[h] ELSE 0)
      /\ \A g \in Homes \ {h} : Same(g)
    BY DEF Crash, Returns, Same, TypeOK, CopiesType, CallType
<1>2. head' = (CASE head = Runs(h) -> IF Back(h) THEN At(sess[h].ver) ELSE Nothing
                 [] head = At(sess[h].ver) /\ sess[h].st = "parked" /\ Unkept(h) -> Nothing
                 [] OTHER -> head)
    BY DEF Crash
<1>3. ~Cut(h)
    BY DEF Crash, Splits, TypeOK, HistoryType
<1>4. AtStep(h) /\ Copy(h) /\ Filed(h) /\ Fresh /\ OwnRecord
    BY DEF Line, Local
<1>5. NoCopy.st = "none" /\ NoCopy.rec = NoDigest /\ NoCopy.ver = 0
    BY DEF NoCopy
<1>6. \/ /\ Back(h) /\ sess'[h].st = "parked" /\ sess'[h].ver = sess[h].ver /\ sess'[h].rec = sess[h].rec
         /\ file'[h] = sess[h].ver /\ sess[h].ver # 0
      \/ ~Back(h) /\ sess'[h] = NoCopy
    BY <1>1 DEF Back, Parked
<1>7. Local(h)' /\ Resumes(h)' /\ sess'[h].st # "running" /\ sess'[h].rec \in {sess[h].rec, NoDigest}
    BY <1>1, <1>4, <1>5, <1>6 DEF Local, AtStep, Copy, Filed, Resumes
<1>8. \A g \in Homes : Local(g)'
    BY <1>1, <1>7, OthersLocal DEF Line
<1>9. \A g \in Homes : Resumes(g)'
    BY <1>1, <1>7 DEF Line, Resumes, Same
<1>10. Fresh' /\ OwnRecord'
    BY <1>1, <1>4, <1>7, Recorded
<1>11. \A g \in Homes \ {h} : (Holds(g)' <=> Holds(g)) /\ Held(g)' = Held(g)
    BY <1>1, SameLocal
<1>12. (Holds(h)' <=> Back(h) /\ sess[h].rec = NoDigest) /\ Held(h)' = sess'[h].ver
    BY <1>1, <1>5, <1>6 DEF Holds, Held, Taken
<1>13. CASE head = Runs(h)
  <2>1. crate = 0 /\ \A g \in Homes : ~Holds(g)
      BY <1>13, Heads DEF Line, OnePlace
  <2>2. tag # NoDigest => Retiring(h) /\ Back(h) /\ sess[h].rec = tag /\ sess[h].ver = tag[1]
      BY <1>4, <1>13, Heads DEF Line, Tagged, Retiring, Filed, Back, Copy
  <2>3. Runner'
      BY <1>1, <1>7, <1>13, Heads DEF Line, Runner, Same
  <2>4. CASE Back(h)
    <3>0. sess'[h].ver = sess[h].ver
        BY <1>6, <2>4
    <3>1. head' = At(sess[h].ver)
        BY <1>2, <1>13, <2>4, Heads
    <3>2. sess[h].rec = NoDigest \/ sess[h].rec = tag
        BY <1>3, <1>13, <2>4 DEF Cut, Owned
    <3> QED
        BY <1>1, <1>8, <1>9, <1>10, <1>11, <1>12, <2>1, <2>2, <2>3, <2>4, <3>0, <3>1, <3>2
           DEF Line, Tagged, OnePlace, Somewhere
  <2>5. CASE ~Back(h)
    <3>1. head' = Nothing /\ tag = NoDigest /\ ~Holds(h)'
        BY <1>2, <1>12, <1>13, <2>2, <2>5
    <3> QED
        BY <1>1, <1>8, <1>9, <1>10, <1>11, <2>1, <2>3, <3>1, Heads DEF Line, Tagged, OnePlace, Somewhere
  <2> QED
      BY <2>4, <2>5
<1>14. CASE head # Runs(h) /\ head = At(sess[h].ver) /\ sess[h].st = "parked" /\ Unkept(h)
  <2>1. head' = Nothing
      BY <1>2, <1>14
  <2>2. Holds(h) /\ ~Holds(h)'
    <3>1. CASE ~Back(h) /\ ~Taken(h) /\ Owned(h) /\ tag[1] # sess[h].ver
        BY <1>4, <1>12, <1>14, <3>1 DEF Holds, Owned, Copy
    <3>2. CASE pc[h] = "unrecord" /\ got[h] = NoDigest /\ ~Owned(h)
        BY <1>4, <1>12, <1>14, <3>2 DEF Holds, Owned, AtStep
    <3> QED
        BY <1>14, <3>1, <3>2 DEF Unkept
  <2>3. tag = NoDigest /\ crate = 0 /\ \A g \in Homes \ {h} : ~Holds(g)
      BY <2>2 DEF Line, OnePlace
  <2>4. Runner'
      BY <1>1, <1>7, <1>14, Heads DEF Line, Runner, Same
  <2> QED
      BY <1>1, <1>8, <1>9, <1>10, <1>11, <2>1, <2>2, <2>3, <2>4, Heads
         DEF Line, Tagged, OnePlace, Somewhere
<1>15. CASE head # Runs(h) /\ ~(head = At(sess[h].ver) /\ sess[h].st = "parked" /\ Unkept(h))
  <2>1. UNCHANGED head
      BY <1>2, <1>15
  <2>2. sess[h].st # "running" /\ pc[h] # "register" /\ ~(Taken(h) /\ Back(h)) /\ Held(h) = sess[h].ver
      BY <1>3, <1>15 DEF Line, Runner, Cut, Held
  <2>3. Holds(h) => head = At(sess[h].ver) /\ sess[h].st = "parked" /\ sess[h].ver # 0 /\ tag = NoDigest
      BY <1>4, <2>2 DEF Line, OnePlace, Holds, AtStep, Copy
  <2>4. Holds(h) => Holds(h)' /\ Held(h)' = Held(h)
    <3> SUFFICES ASSUME Holds(h) PROVE Holds(h)' /\ Held(h)' = Held(h)
        OBVIOUS
    <3>1. ~Unkept(h)
        BY <1>15, <2>3
    <3>2. CASE sess[h].rec = NoDigest /\ ~Taken(h)
      <4>1. Owned(h) /\ tag[1] # sess[h].ver
          BY <2>3, <3>2, NoPush DEF Owned
      <4>2. Back(h)
          BY <1>4, <2>3, <3>1, <3>2, <4>1 DEF Unkept, Filed, Back, TypeOK, CopiesType
      <4> QED
          BY <1>6, <1>12, <2>2, <3>2, <4>2
    <3>3. CASE ~(sess[h].rec = NoDigest /\ ~Taken(h))
      <4>1. pc[h] = "unrecord" /\ got[h] = NoDigest /\ ~Taken(h)
          BY <2>2, <3>3 DEF Holds, Taken
      <4> QED
          BY <2>3, <3>1, <3>3, <4>1 DEF Unkept, Owned
    <3> QED
        BY <3>2, <3>3
  <2>5. Holds(h)' => Holds(h)
    <3>1. Back(h) => sess[h].st = "parked"
        BY <1>4, <1>5, <2>2, Shapes DEF Copy, Back, TypeOK
    <3> QED
        BY <1>12, <2>2, <3>1 DEF Holds
  <2>6. Runner'
      BY <1>1, <1>7, <2>1 DEF Line, Runner, Same
  <2>7. ~Retiring(h)
      BY <2>2 DEF Retiring
  <2>8. Tagged' /\ OnePlace' /\ Somewhere'
      BY <1>1, <2>1, <2>4, <2>5, <2>7, QuietLine DEF Line
  <2> QED
      BY <1>8, <1>9, <1>10, <2>6, <2>8 DEF Line
<1> QED
    BY <1>13, <1>14, <1>15

(***************************************************************************)
(* The control plane.                                                      *)
(***************************************************************************)

\* A step of the control plane leaves what is said of each home alone.
LEMMA HomesSame ==
    ASSUME UNCHANGED <<sess, file, grant, pc, verb, got>>
    PROVE  \A g \in Homes :
              Same(g) /\ (Local(g) => Local(g)') /\ (Holds(g)' <=> Holds(g)) /\ Held(g)' = Held(g)
<1>1. \A g \in Homes : Same(g)
    BY DEF Same
<1> QED
    BY <1>1, SameLocal

\* An export's look at the tag moves nothing.
LEMMA ExportLine == ASSUME TypeOK, Line, Export PROVE Line'
<1>1. /\ UNCHANGED <<sess, file, grant, pc, verb, got, tag, blobs, pushes, crate, head>>
      /\ ship' = tag
    BY DEF Export
<1>2. \A g \in Homes : Local(g)' /\ (Holds(g)' <=> Holds(g)) /\ Held(g)' = Held(g)
    BY <1>1, HomesSame DEF Line
<1>3. Fresh' /\ OwnRecord' /\ Runner'
    BY <1>1 DEF Line, Fresh, OwnRecord, Runner
<1>4. \A g \in Homes : Resumes(g)' /\ (Retiring(g)' <=> Retiring(g))
    BY <1>1 DEF Line, Resumes, Retiring
<1>5. Tagged' /\ OnePlace' /\ Somewhere'
    BY <1>1, <1>2, <1>4 DEF Line, Tagged, OnePlace, Somewhere
<1> QED
    BY <1>2, <1>3, <1>4, <1>5 DEF Line

\* An export moves the session from the tag to the files.
LEMMA ExportDoneLine == ASSUME TypeOK, Line, ~split', ExportDone PROVE Line'
<1>1. /\ UNCHANGED <<sess, file, grant, pc, verb, got, head>> /\ ship # NoDigest /\ ship' = NoDigest
      /\ \/ crate' = ship[1] /\ tag = ship /\ ~Resuming(tag) /\ Delete
         \/ UNCHANGED <<store, crate>>
    BY DEF ExportDone, Splits, TypeOK, HistoryType
<1>2. \A g \in Homes : Local(g)' /\ (Holds(g)' <=> Holds(g)) /\ Held(g)' = Held(g)
    BY <1>1, HomesSame DEF Line
<1>3. pushes \in Nat /\ NoDigest[2] = 0
    BY NoPush, MobilityAssumption DEF TypeOK, StoreType
<1>4. Fresh' /\ OwnRecord' /\ Runner'
    BY <1>1, <1>3 DEF Line, Fresh, OwnRecord, Runner, Delete
<1>5. CASE UNCHANGED <<store, crate>>
  <2>1. \A g \in Homes : Resumes(g)' /\ (Retiring(g)' <=> Retiring(g))
      BY <1>1, <1>5 DEF Line, Resumes, Retiring
  <2>2. Tagged' /\ OnePlace' /\ Somewhere'
      BY <1>1, <1>2, <1>5, <2>1 DEF Line, Tagged, OnePlace, Somewhere
  <2> QED
      BY <1>2, <1>4, <2>1, <2>2 DEF Line
<1>6. CASE crate' = ship[1] /\ tag = ship /\ ~Resuming(tag) /\ Delete
  <2>1. /\ head = At(tag[1]) /\ \A g \in Homes : ~Holds(g)
        /\ \A g \in Homes : pc[g] \in {"birth", "commit"} => sess[g].rec = NoDigest
      BY <1>1, <1>6, Unclaimed
  <2>2. tag' = NoDigest /\ crate' = tag[1] /\ crate' # 0
      BY <1>1, <1>6 DEF Line, Fresh, Delete
  <2>3. \A g \in Homes : Resumes(g)'
      BY <1>1, <2>1, <2>2 DEF Line, Resumes
  <2>4. Tagged' /\ OnePlace' /\ Somewhere'
      BY <1>1, <1>2, <2>1, <2>2 DEF Tagged, OnePlace, Somewhere
  <2> QED
      BY <1>2, <1>4, <2>3, <2>4 DEF Line
<1> QED
    BY <1>1, <1>5, <1>6

\* An import moves it from the files to the tag, under a new digest.
LEMMA ImportLine == ASSUME TypeOK, Line, ~split', Import PROVE Line'
<1>1. /\ UNCHANGED <<sess, file, grant, pc, verb, got, ship, head>>
      /\ crate # 0 /\ crate' = 0 /\ Push(crate) /\ head = At(crate)
    BY DEF Import, Splits, TypeOK, HistoryType
<1>2. \A g \in Homes : Local(g)' /\ (Holds(g)' <=> Holds(g)) /\ Held(g)' = Held(g)
    BY <1>1, HomesSame DEF Line
<1>3. tag = NoDigest /\ \A g \in Homes : ~Holds(g)
    BY <1>1 DEF Line, OnePlace
<1>4. /\ tag'[1] = crate /\ tag'[2] = pushes' /\ tag' # NoDigest /\ tag' \in blobs'
      /\ \A d \in Digests : d[2] <= pushes => d # tag' /\ d[2] <= pushes'
    BY <1>1, PushedIsNew DEF TypeOK, StoreType, Line
<1>5. /\ \A g \in Homes : sess[g].rec \in Digests /\ got[g] \in Digests
      /\ ship \in Digests /\ pushes' \in Nat
  <2>1. pushes' \in Nat
      BY <1>1, MobilityAssumption DEF Push, TypeOK, StoreType
  <2> QED
      BY <2>1, Shapes DEF TypeOK, StoreType, CallType
<1>6. Fresh' /\ OwnRecord' /\ Runner'
    BY <1>1, <1>4, <1>5 DEF Line, Fresh, OwnRecord, Runner
<1>7. \A g \in Homes : Resumes(g)'
    BY <1>1, <1>3, <1>4, <1>5 DEF Line, Resumes, Fresh
<1>8. Tagged' /\ OnePlace' /\ Somewhere'
    BY <1>1, <1>2, <1>3, <1>4 DEF Tagged, OnePlace, Somewhere
<1> QED
    BY <1>2, <1>6, <1>7, <1>8 DEF Line

(***************************************************************************)
(* The theorems.                                                           *)
(***************************************************************************)

\* At first the session is nowhere.
LEMMA InitLine == Init => TypeOK /\ Line
<1> SUFFICES ASSUME Init PROVE TypeOK /\ Line
    OBVIOUS
<1>1. TypeOK
  <2>1. StoreType
      BY NothingType, MobilityAssumption DEF Init, StoreType
  <2>2. CopiesType
      BY NothingType DEF Init, CopiesType
  <2>3. CallType
      BY NothingType DEF Init, CallType, Steps
  <2>4. HistoryType
      BY NothingType DEF Init, HistoryType, Nothing
  <2> QED
      BY <2>1, <2>2, <2>3, <2>4 DEF TypeOK
<1>2. ASSUME NEW h \in Homes
      PROVE  /\ sess[h] = NoCopy /\ grant[h] = TRUE /\ pc[h] = "idle" /\ verb[h] = "none" /\ got[h] = NoDigest
             /\ NoCopy.st = "none" /\ NoCopy.rec = NoDigest
      BY DEF Init, NoCopy
<1>3. \A h \in Homes : Local(h) /\ Resumes(h) /\ ~Holds(h)
    BY <1>2 DEF Local, AtStep, Copy, Filed, Resumes, Holds
<1>4. Fresh /\ OwnRecord /\ Runner
    BY <1>2, NoPush DEF Init, Fresh, OwnRecord, Runner
<1>5. Tagged /\ OnePlace /\ Somewhere
    BY <1>3, Heads DEF Init, Tagged, OnePlace, Somewhere
<1> QED
    BY <1>1, <1>3, <1>4, <1>5 DEF Line

\* A broken line stays broken.
LEMMA SplitStays == TypeOK /\ [Next]_vars /\ ~split' => ~split
<1> SUFFICES ASSUME TypeOK, [Next]_vars, ~split' PROVE ~split
    OBVIOUS
<1> USE DEF TypeOK, HistoryType, Splits
<1>1. CASE Export \/ ExportDone \/ Import
    BY <1>1 DEF Export, ExportDone, Import
<1>2. ASSUME NEW h \in Homes, LocateHere(h) \/ FindDelta(h) \/ TakeTag(h) \/ DeleteDelta(h) \/ Register(h)
      PROVE  ~split
    BY <1>2 DEF LocateHere, FindDelta, TakeTag, DeleteDelta, Register
<1>3. ASSUME NEW h \in Homes, Commit(h) \/ RetireRead(h) \/ RetireDelete(h) \/ PublishDelta(h)
      PROVE  ~split
    BY <1>3 DEF Commit, RetireRead, RetireDelete, PublishDelta
<1>4. ASSUME NEW h \in Homes, End(h) \/ Yield(h) \/ Crash(h) PROVE ~split
    BY <1>4 DEF End, Yield, Ends, Crash
<1>5. ASSUME NEW h \in Homes,
             \/ LocateElsewhere(h) \/ FindRefused(h) \/ PullDelta(h) \/ CheckTag(h) \/ Birth(h)
             \/ RetireRecord(h) \/ Persist(h) \/ Park(h) \/ Discard(h) \/ DiscardParked(h) \/ Admit(h)
      PROVE  ~split
    BY <1>5 DEF LocateElsewhere, FindRefused, PullDelta, CheckTag, Birth, RetireRecord, Persist, Park,
        Discard, DiscardParked, Admit
<1>6. CASE UNCHANGED vars
    BY <1>6 DEF vars
<1> QED
    BY <1>1, <1>2, <1>3, <1>4, <1>5, <1>6 DEF Next

\* No step breaks the line but the ones that say so.
LEMMA LineStep == TypeOK /\ Line /\ [Next]_vars /\ ~split' => Line'
<1> SUFFICES ASSUME TypeOK, Line, [Next]_vars, ~split' PROVE Line'
    OBVIOUS
<1>1. CASE Export \/ ExportDone \/ Import
    BY <1>1, ExportLine, ExportDoneLine, ImportLine
<1>2. ASSUME NEW h \in Homes,
             \/ LocateHere(h) \/ LocateElsewhere(h) \/ FindDelta(h)
             \/ FindRefused(h) \/ PullDelta(h) \/ CheckTag(h)
      PROVE  Line'
    BY <1>2, LocateHereLine, LocateElsewhereLine, FindDeltaLine, ClaimLine
<1>3. ASSUME NEW h \in Homes, TakeTag(h) \/ DeleteDelta(h) \/ Register(h) \/ Birth(h) \/ Commit(h)
      PROVE  Line'
    BY <1>3, TakeTagLine, DeleteDeltaLine, RegisterLine, BirthLine, CommitLine
<1>4. ASSUME NEW h \in Homes, RetireRead(h) \/ RetireDelete(h) \/ RetireRecord(h) \/ Persist(h)
      PROVE  Line'
    BY <1>4, RetireReadLine, RetireDeleteLine, RetireRecordLine, PersistLine
<1>5. ASSUME NEW h \in Homes, Park(h) \/ PublishDelta(h) \/ End(h) \/ Discard(h) \/ DiscardParked(h)
      PROVE  Line'
    BY <1>5, ParkLine, PublishDeltaLine, EndLine, DiscardLine, DiscardParkedLine
<1>6. ASSUME NEW h \in Homes, Yield(h) \/ Admit(h) \/ Crash(h) PROVE Line'
    BY <1>6, EndLine, AdmitLine, CrashLine
<1>7. CASE UNCHANGED vars
  <2>1. \A g \in Homes : Local(g)' /\ (Holds(g)' <=> Holds(g)) /\ Held(g)' = Held(g)
      BY <1>7, HomesSame DEF Line, vars
  <2>2. Fresh' /\ OwnRecord' /\ Runner'
      BY <1>7 DEF Line, Fresh, OwnRecord, Runner, vars
  <2>3. \A g \in Homes : Resumes(g)' /\ (Retiring(g)' <=> Retiring(g))
      BY <1>7 DEF Line, Resumes, Retiring, vars
  <2>4. Tagged' /\ OnePlace' /\ Somewhere'
      BY <1>7, <2>1, <2>3 DEF Line, Tagged, OnePlace, Somewhere, vars
  <2> QED
      BY <2>1, <2>2, <2>3, <2>4 DEF Line
<1> QED
    BY <1>1, <1>2, <1>3, <1>4, <1>5, <1>6, <1>7 DEF Next

\* The inductive invariant: the state is typed and, while no step has broken it,
\* the session's line is whole.
THEOREM MobilityInvariant == Spec => []IInv
<1>1. Init => IInv
    BY InitLine DEF IInv
<1>2. IInv /\ [Next]_vars => IInv'
  <2> SUFFICES ASSUME IInv, [Next]_vars PROVE IInv'
      OBVIOUS
  <2>1. TypeOK'
      BY StoreTyped, CopiesTyped, CallTyped, HistoryTyped DEF IInv, TypeOK
  <2>2. ~split' => Line'
      BY SplitStays, LineStep DEF IInv
  <2> QED
      BY <2>1, <2>2 DEF IInv
<1> QED
    BY <1>1, <1>2, PTL DEF Spec

\* The registry, the homes and their operations are well formed.
THEOREM MobilityTypeOK == Spec => []TypeOK
<1>1. IInv => TypeOK
    BY DEF IInv
<1> QED
    BY <1>1, MobilityInvariant, PTL

\* Whatever the homes and the control plane do, in whatever order, an unbroken
\* session runs on one home at most and what runs is its latest state.
THEOREM MobilityRunsOnce == Spec => []RunsOnce
<1>1. IInv => RunsOnce
    BY DEF IInv, Line, Runner, RunsOnce
<1> QED
    BY <1>1, MobilityInvariant, PTL

\* The latest parked state of an unbroken session can be had somewhere: in the
\* store, with a home that may resume it, in a claim's or a discard's hands, or as
\* files.
THEOREM MobilityNotLost == Spec => []NotLost
<1>1. IInv => NotLost
  <2> SUFFICES ASSUME TypeOK, Line, head.at = "parked" PROVE Had(head.ver)
      BY DEF IInv, NotLost
  <2>1. \A v : At(v).ver = v
      BY DEF At
  <2>2. CASE tag # NoDigest
    <3>1. head = At(tag[1])
        BY <2>2, Heads DEF Line, Tagged
    <3> QED
        BY <2>1, <2>2, <3>1 DEF Line, Fresh, Had
  <2>3. CASE crate # 0
      BY <2>1, <2>3 DEF Line, OnePlace, Had
  <2>4. ASSUME NEW h \in Homes, Holds(h) PROVE Had(head.ver)
    <3>1. head.ver = Held(h)
        BY <2>1, <2>4 DEF Line, OnePlace
    <3>2. CASE pc[h] = "register"
        BY <3>1, <3>2 DEF Had, Held
    <3>3. CASE pc[h] # "register" /\ sess[h].st = "parked" /\ sess[h].rec = NoDigest
        BY <3>1, <3>3 DEF Had, Held, Owned
    <3>4. CASE pc[h] = "unrecord" /\ verb[h] = "discard"
        BY <3>1, <3>4 DEF Had, Held
    <3> QED
        BY <2>4, <3>2, <3>3, <3>4 DEF Holds
  <2> QED
      BY <2>2, <2>3, <2>4 DEF Line, Somewhere
<1> QED
    BY <1>1, MobilityInvariant, PTL

\* Only the commit of a home makes its parked copy a running session.
LEMMA OnlyCommitRuns ==
    ASSUME TypeOK, [Next]_vars, NEW h \in Homes, sess[h].st = "parked", sess'[h].st = "running"
    PROVE  Commit(h)
<1> USE DEF TypeOK, CopiesType
<1>1. NoCopy.st = "none" /\ \A v, d : Parked(v, d).st = "parked"
    BY DEF NoCopy, Parked
<1>2. sess'[h] # sess[h] /\ sess'[h] # NoCopy
    BY <1>1
<1>3. CASE Export \/ ExportDone \/ Import
    BY <1>2, <1>3 DEF Export, ExportDone, Import
<1>4. ASSUME NEW g \in Homes, LocateHere(g) \/ Discard(g) \/ DiscardParked(g) PROVE Commit(h)
    BY <1>2, <1>4 DEF LocateHere, Discard, DiscardParked, Forget
<1>5. ASSUME NEW g \in Homes, Register(g) PROVE Commit(h)
  <2>1. UNCHANGED sess \/ sess' = [sess EXCEPT ![g] = Parked(got[g][1], NoDigest)]
      BY <1>5 DEF Register
  <2> QED
      BY <1>1, <1>2, <2>1
<1>6. ASSUME NEW g \in Homes, Commit(g) PROVE Commit(h)
  <2>1. CASE g = h
      BY <1>6, <2>1
  <2>2. CASE g # h
      BY <1>2, <1>6, <2>2 DEF Commit
  <2> QED
      BY <2>1, <2>2
<1>7. ASSUME NEW g \in Homes, RetireRecord(g) PROVE Commit(h)
    BY <1>7 DEF RetireRecord, CopyType
<1>8. ASSUME NEW g \in Homes, Park(g) PROVE Commit(h)
    BY <1>1, <1>2, <1>8 DEF Park
<1>9. ASSUME NEW g \in Homes, PublishDelta(g) PROVE Commit(h)
  <2>1. UNCHANGED sess \/ sess' = [sess EXCEPT ![g].rec = <<sess[g].ver, pushes + 1>>]
      BY <1>9 DEF PublishDelta
  <2> QED
      BY <1>2, <2>1 DEF CopyType
<1>10. ASSUME NEW g \in Homes, End(g) \/ Yield(g) PROVE Commit(h)
    BY <1>2, <1>10 DEF End, Yield, Ends
<1>11. ASSUME NEW g \in Homes, Crash(g) PROVE Commit(h)
    BY <1>1, <1>2, <1>11 DEF Crash
<1>12. ASSUME NEW g \in Homes,
              \/ LocateElsewhere(g) \/ FindDelta(g) \/ FindRefused(g) \/ PullDelta(g) \/ CheckTag(g)
              \/ TakeTag(g) \/ DeleteDelta(g) \/ Birth(g) \/ RetireRead(g) \/ RetireDelete(g)
              \/ Persist(g) \/ Admit(g)
       PROVE  Commit(h)
    BY <1>2, <1>12 DEF LocateElsewhere, FindDelta, FindRefused, PullDelta, CheckTag, TakeTag, DeleteDelta,
        Birth, RetireRead, RetireDelete, Persist, Admit
<1>13. CASE UNCHANGED vars
    BY <1>2, <1>13 DEF vars
<1> QED
    BY <1>3, <1>4, <1>5, <1>6, <1>7, <1>8, <1>9, <1>10, <1>11, <1>12, <1>13 DEF Next

\* A resume of an unbroken session carries on from the latest parked state.
THEOREM MobilityCarriesOn == Spec => CarriesOn
<1> DEFINE From(h) == sess[h].st = "parked" /\ sess'[h].st = "running" /\ ~split' => head = At(sess[h].ver)
<1>1. IInv /\ [Next]_vars => [\A h \in Homes : From(h)]_vars
  <2> SUFFICES ASSUME IInv, [Next]_vars, NEW h \in Homes,
                      sess[h].st = "parked", sess'[h].st = "running", ~split'
               PROVE  head = At(sess[h].ver)
      OBVIOUS
  <2>1. TypeOK /\ Line
      BY SplitStays DEF IInv
  <2>2. Commit(h)
      BY <2>1, OnlyCommitRuns
  <2>3. pc[h] = "commit"
      BY <2>2 DEF Commit
  <2> QED
      BY <2>1, <2>3, ResumeFrom
<1> QED
    BY <1>1, MobilityInvariant, PTL DEF Spec, CarriesOn
=============================================================================
