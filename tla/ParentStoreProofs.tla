-------------------------- MODULE ParentStoreProofs --------------------------
(***************************************************************************)
(* The parent store is safe for any number of goroutines, checkpoints,     *)
(* warms and deltas: NamedThere, InUse and LinksHold are invariants.       *)
(*                                                                         *)
(* NamedThere says nothing of a prune under way.  IInv adds what its scan  *)
(* knows: a name it has passed and does not keep belongs to a section that *)
(* is still open, or to a claim that has not opened its section, as long   *)
(* as no section has ended since the scan began (Scanned).  When the lock  *)
(* is taken no section is open, and only the claims are left (Locked).     *)
(***************************************************************************)
EXTENDS ParentStore, TLAPS

\* The operation of a goroutine, its name and its parent fit each other.
Shape ==
    \A q \in Procs :
        /\ pc[q] = "idle" => verb[q] = "none"
        /\ pc[q] # "idle" => verb[q] # "none" /\ who[q] \in Names
        /\ verb[q] \in {"park", "merge", "push", "claim"} => who[q] \in Deltas
        /\ pc[q] \in {"resolved", "file"} => verb[q] = "warm" /\ par[q] \in Parents
        /\ pc[q] = "release" => verb[q] = "warm"
        /\ pc[q] \in {"claim", "pull", "settle"} => verb[q] = "claim"
        /\ pc[q] \in {"claim", "load", "pull", "using"} /\ verb[q] = "claim" => par[q] \in Parents
        /\ verb[q] = "claim" /\ par[q] # NoParent => names[who[q]] = par[q]
        /\ hold[q] # NoParent => hold[q] \in images

\* No two operations have the same name.
Alone ==
    \A q, r \in Procs : q # r /\ pc[q] # "idle" /\ pc[r] # "idle" => who[q] # who[r]

InSections(n) == \E q \in Procs : who[q] = n /\ InSection(q)

Scanned ==
    ppc = "deltas" /\ seen = uses =>
        \A n \in Names \ todo :
            names[n] # NoParent /\ names[n] \notin keep => Pending(n) \/ InSections(n)

Locked ==
    ppc = "remove" =>
        /\ \A q \in Procs : ~InSection(q)
        /\ \A n \in Names : names[n] # NoParent /\ names[n] \notin keep => Pending(n)

IInv ==
    /\ TypeOK /\ Shape /\ Alone
    /\ open \subseteq disk /\ seen <= uses
    /\ NamedThere /\ InUse /\ LinksHold
    /\ Scanned /\ Locked

\* Done keeps IInv.
LEMMA DoneKeeps ==
    ASSUME IInv, NEW q \in Procs, Done(q)
    PROVE  IInv'
<1>1. TypeOK'
    BY StoreAssumption DEF IInv, TypeOK, Shape, LinksHold, Names, Maybe, Done, After, Finish, tree, users, pruner, ends
<1>2. Shape'
    BY StoreAssumption DEF IInv, TypeOK, Shape, Alone, InSection, Names, Maybe, Done, After, Finish, tree, users, pruner, ends
<1>3. Alone'
    BY StoreAssumption DEF IInv, TypeOK, Shape, Alone, InSection, Names, Maybe, Done, After, Finish, tree, users, pruner, ends
<1>4. (open \subseteq disk)' /\ (seen <= uses)' /\ InUse' /\ LinksHold'
    BY StoreAssumption DEF IInv, TypeOK, Shape, InUse, LinksHold, Locked, InSection, Names, Maybe, Done, After, Finish, tree, users, pruner, ends
<1>5. NamedThere'
    BY StoreAssumption DEF IInv, TypeOK, Shape, Alone, InUse, NamedThere, Locked, Pending, InSection, Names, Maybe, Done, After, Finish, tree, users, pruner, ends
<1>6. Scanned'
    BY StoreAssumption DEF IInv, TypeOK, Shape, Alone, Scanned, InSections, Pending, InSection, Names, Maybe, Done, After, Finish, tree, users, pruner, ends
<1>7. Locked'
    BY StoreAssumption DEF IInv, TypeOK, Shape, Alone, Scanned, Locked, InSections, Pending, InSection, Names, Maybe, Done, After, Finish, tree, users, pruner, ends
<1> QED
    BY <1>1, <1>2, <1>3, <1>4, <1>5, <1>6, <1>7 DEF IInv

\* Load keeps IInv.
LEMMA LoadKeeps ==
    ASSUME IInv, NEW q \in Procs, Load(q)
    PROVE  IInv'
<1>1. TypeOK'
    BY StoreAssumption DEF IInv, TypeOK, Shape, LinksHold, Names, Maybe, Load, Found, tree, users, pruner, ends
<1>2. Shape'
    BY StoreAssumption DEF IInv, TypeOK, Shape, Alone, InSection, Names, Maybe, Load, Found, tree, users, pruner, ends
<1>3. Alone'
    BY StoreAssumption DEF IInv, TypeOK, Shape, Alone, InSection, Names, Maybe, Load, Found, tree, users, pruner, ends
<1>4. (open \subseteq disk)' /\ (seen <= uses)' /\ InUse' /\ LinksHold'
    BY StoreAssumption DEF IInv, TypeOK, Shape, InUse, LinksHold, Locked, InSection, Names, Maybe, Load, Found, tree, users, pruner, ends
<1>5. NamedThere'
    BY StoreAssumption DEF IInv, TypeOK, Shape, Alone, InUse, NamedThere, Locked, Pending, InSection, Names, Maybe, Load, Found, tree, users, pruner, ends
<1>6. Scanned'
    BY StoreAssumption DEF IInv, TypeOK, Shape, Alone, Scanned, InSections, Pending, InSection, Names, Maybe, Load, Found, tree, users, pruner, ends
<1>7. Locked'
    BY StoreAssumption DEF IInv, TypeOK, Shape, Alone, Scanned, Locked, InSections, Pending, InSection, Names, Maybe, Load, Found, tree, users, pruner, ends
<1> QED
    BY <1>1, <1>2, <1>3, <1>4, <1>5, <1>6, <1>7 DEF IInv

\* Used keeps IInv.
LEMMA UsedKeeps ==
    ASSUME IInv, NEW q \in Procs, Used(q)
    PROVE  IInv'
<1>1. TypeOK'
    BY StoreAssumption DEF IInv, TypeOK, Shape, LinksHold, Names, Maybe, Used, tree, users, pruner, ends
<1>2. Shape'
    BY StoreAssumption DEF IInv, TypeOK, Shape, Alone, InSection, Names, Maybe, Used, tree, users, pruner, ends
<1>3. Alone'
    BY StoreAssumption DEF IInv, TypeOK, Shape, Alone, InSection, Names, Maybe, Used, tree, users, pruner, ends
<1>4. (open \subseteq disk)' /\ (seen <= uses)' /\ InUse' /\ LinksHold'
    BY StoreAssumption DEF IInv, TypeOK, Shape, InUse, LinksHold, Locked, InSection, Names, Maybe, Used, tree, users, pruner, ends
<1>5. NamedThere'
    BY StoreAssumption DEF IInv, TypeOK, Shape, Alone, InUse, NamedThere, Locked, Pending, InSection, Names, Maybe, Used, tree, users, pruner, ends
<1>6. Scanned'
    BY StoreAssumption DEF IInv, TypeOK, Shape, Alone, Scanned, InSections, Pending, InSection, Names, Maybe, Used, tree, users, pruner, ends
<1>7. Locked'
    BY StoreAssumption DEF IInv, TypeOK, Shape, Alone, Scanned, Locked, InSections, Pending, InSection, Names, Maybe, Used, tree, users, pruner, ends
<1> QED
    BY <1>1, <1>2, <1>3, <1>4, <1>5, <1>6, <1>7 DEF IInv

\* WarmSection keeps IInv.
LEMMA WarmSectionKeeps ==
    ASSUME IInv, NEW q \in Procs, WarmSection(q)
    PROVE  IInv'
<1>1. TypeOK'
    BY StoreAssumption DEF IInv, TypeOK, Shape, LinksHold, Names, Maybe, WarmSection, UseParents, tree, users, pruner, ends
<1>2. Shape'
    BY StoreAssumption DEF IInv, TypeOK, Shape, Alone, InSection, Names, Maybe, WarmSection, UseParents, tree, users, pruner, ends
<1>3. Alone'
    BY StoreAssumption DEF IInv, TypeOK, Shape, Alone, InSection, Names, Maybe, WarmSection, UseParents, tree, users, pruner, ends
<1>4. (open \subseteq disk)' /\ (seen <= uses)' /\ InUse' /\ LinksHold'
    BY StoreAssumption DEF IInv, TypeOK, Shape, InUse, LinksHold, Locked, InSection, Names, Maybe, WarmSection, UseParents, tree, users, pruner, ends
<1>5. NamedThere'
    BY StoreAssumption DEF IInv, TypeOK, Shape, Alone, InUse, NamedThere, Locked, Pending, InSection, Names, Maybe, WarmSection, UseParents, tree, users, pruner, ends
<1>6. Scanned'
    BY StoreAssumption DEF IInv, TypeOK, Shape, Alone, Scanned, InSections, Pending, InSection, Names, Maybe, WarmSection, UseParents, tree, users, pruner, ends
<1>7. Locked'
    BY StoreAssumption DEF IInv, TypeOK, Shape, Alone, Scanned, Locked, InSections, Pending, InSection, Names, Maybe, WarmSection, UseParents, tree, users, pruner, ends
<1> QED
    BY <1>1, <1>2, <1>3, <1>4, <1>5, <1>6, <1>7 DEF IInv

\* RegisterParent keeps IInv.
LEMMA RegisterParentKeeps ==
    ASSUME IInv, NEW q \in Procs, RegisterParent(q)
    PROVE  IInv'
<1>1. TypeOK'
    BY StoreAssumption DEF IInv, TypeOK, Shape, LinksHold, Names, Maybe, RegisterParent, tree, users, pruner, ends
<1>2. Shape'
    BY StoreAssumption DEF IInv, TypeOK, Shape, Alone, InSection, Names, Maybe, RegisterParent, tree, users, pruner, ends
<1>3. Alone'
    BY StoreAssumption DEF IInv, TypeOK, Shape, Alone, InSection, Names, Maybe, RegisterParent, tree, users, pruner, ends
<1>4. (open \subseteq disk)' /\ (seen <= uses)' /\ InUse' /\ LinksHold'
    BY StoreAssumption DEF IInv, TypeOK, Shape, InUse, LinksHold, Locked, InSection, Names, Maybe, RegisterParent, tree, users, pruner, ends
<1>5. NamedThere'
    BY StoreAssumption DEF IInv, TypeOK, Shape, Alone, InUse, NamedThere, Locked, Pending, InSection, Names, Maybe, RegisterParent, tree, users, pruner, ends
<1>6. Scanned'
    BY StoreAssumption DEF IInv, TypeOK, Shape, Alone, Scanned, InSections, Pending, InSection, Names, Maybe, RegisterParent, tree, users, pruner, ends
<1>7. Locked'
    BY StoreAssumption DEF IInv, TypeOK, Shape, Alone, Scanned, Locked, InSections, Pending, InSection, Names, Maybe, RegisterParent, tree, users, pruner, ends
<1> QED
    BY <1>1, <1>2, <1>3, <1>4, <1>5, <1>6, <1>7 DEF IInv

\* PublishWarm keeps IInv.
LEMMA PublishWarmKeeps ==
    ASSUME IInv, NEW q \in Procs, PublishWarm(q)
    PROVE  IInv'
<1>1. TypeOK'
    BY StoreAssumption DEF IInv, TypeOK, Shape, LinksHold, Names, Maybe, PublishWarm, tree, users, pruner, ends
<1>2. Shape'
    BY StoreAssumption DEF IInv, TypeOK, Shape, Alone, InSection, Names, Maybe, PublishWarm, tree, users, pruner, ends
<1>3. Alone'
    BY StoreAssumption DEF IInv, TypeOK, Shape, Alone, InSection, Names, Maybe, PublishWarm, tree, users, pruner, ends
<1>4. (open \subseteq disk)' /\ (seen <= uses)' /\ InUse' /\ LinksHold'
    BY StoreAssumption DEF IInv, TypeOK, Shape, InUse, LinksHold, Locked, InSection, Names, Maybe, PublishWarm, tree, users, pruner, ends
<1>5. NamedThere'
    BY StoreAssumption DEF IInv, TypeOK, Shape, Alone, InUse, NamedThere, Locked, Pending, InSection, Names, Maybe, PublishWarm, tree, users, pruner, ends
<1>6. Scanned'
    BY StoreAssumption DEF IInv, TypeOK, Shape, Alone, Scanned, InSections, Pending, InSection, Names, Maybe, PublishWarm, tree, users, pruner, ends
<1>7. Locked'
    BY StoreAssumption DEF IInv, TypeOK, Shape, Alone, Scanned, Locked, InSections, Pending, InSection, Names, Maybe, PublishWarm, tree, users, pruner, ends
<1> QED
    BY <1>1, <1>2, <1>3, <1>4, <1>5, <1>6, <1>7 DEF IInv

\* ReleaseImages keeps IInv.
LEMMA ReleaseImagesKeeps ==
    ASSUME IInv, NEW q \in Procs, ReleaseImages(q)
    PROVE  IInv'
<1>1. TypeOK'
    BY StoreAssumption DEF IInv, TypeOK, Shape, LinksHold, Names, Maybe, ReleaseImages, Finish, tree, users, pruner, ends
<1>2. Shape'
    BY StoreAssumption DEF IInv, TypeOK, Shape, Alone, InSection, Names, Maybe, ReleaseImages, Finish, tree, users, pruner, ends
<1>3. Alone'
    BY StoreAssumption DEF IInv, TypeOK, Shape, Alone, InSection, Names, Maybe, ReleaseImages, Finish, tree, users, pruner, ends
<1>4. (open \subseteq disk)' /\ (seen <= uses)' /\ InUse' /\ LinksHold'
    BY StoreAssumption DEF IInv, TypeOK, Shape, InUse, LinksHold, Locked, InSection, Names, Maybe, ReleaseImages, Finish, tree, users, pruner, ends
<1>5. NamedThere'
    BY StoreAssumption DEF IInv, TypeOK, Shape, Alone, InUse, NamedThere, Locked, Pending, InSection, Names, Maybe, ReleaseImages, Finish, tree, users, pruner, ends
<1>6. Scanned'
    BY StoreAssumption DEF IInv, TypeOK, Shape, Alone, Scanned, InSections, Pending, InSection, Names, Maybe, ReleaseImages, Finish, tree, users, pruner, ends
<1>7. Locked'
    BY StoreAssumption DEF IInv, TypeOK, Shape, Alone, Scanned, Locked, InSections, Pending, InSection, Names, Maybe, ReleaseImages, Finish, tree, users, pruner, ends
<1> QED
    BY <1>1, <1>2, <1>3, <1>4, <1>5, <1>6, <1>7 DEF IInv

\* WriteManifest keeps IInv.
LEMMA WriteManifestKeeps ==
    ASSUME IInv, NEW q \in Procs, WriteManifest(q)
    PROVE  IInv'
<1>1. TypeOK'
    BY StoreAssumption DEF IInv, TypeOK, Shape, LinksHold, Names, Maybe, WriteManifest, tree, users, pruner, ends
<1>2. Shape'
    BY StoreAssumption DEF IInv, TypeOK, Shape, Alone, InSection, Names, Maybe, WriteManifest, tree, users, pruner, ends
<1>3. Alone'
    BY StoreAssumption DEF IInv, TypeOK, Shape, Alone, InSection, Names, Maybe, WriteManifest, tree, users, pruner, ends
<1>4. (open \subseteq disk)' /\ (seen <= uses)' /\ InUse' /\ LinksHold'
    BY StoreAssumption DEF IInv, TypeOK, Shape, InUse, LinksHold, Locked, InSection, Names, Maybe, WriteManifest, tree, users, pruner, ends
<1>5. NamedThere'
    BY StoreAssumption DEF IInv, TypeOK, Shape, Alone, InUse, NamedThere, Locked, Pending, InSection, Names, Maybe, WriteManifest, tree, users, pruner, ends
<1>6. Scanned'
    BY StoreAssumption DEF IInv, TypeOK, Shape, Alone, Scanned, InSections, Pending, InSection, Names, Maybe, WriteManifest, tree, users, pruner, ends
<1>7. Locked'
    BY StoreAssumption DEF IInv, TypeOK, Shape, Alone, Scanned, Locked, InSections, Pending, InSection, Names, Maybe, WriteManifest, tree, users, pruner, ends
<1> QED
    BY <1>1, <1>2, <1>3, <1>4, <1>5, <1>6, <1>7 DEF IInv

\* EnsureParent keeps IInv.
LEMMA EnsureParentKeeps ==
    ASSUME IInv, NEW q \in Procs, EnsureParent(q)
    PROVE  IInv'
<1>1. TypeOK'
    BY StoreAssumption DEF IInv, TypeOK, Shape, LinksHold, Names, Maybe, EnsureParent, UseParents, tree, users, pruner, ends
<1>2. Shape'
    BY StoreAssumption DEF IInv, TypeOK, Shape, Alone, InSection, Names, Maybe, EnsureParent, UseParents, tree, users, pruner, ends
<1>3. Alone'
    BY StoreAssumption DEF IInv, TypeOK, Shape, Alone, InSection, Names, Maybe, EnsureParent, UseParents, tree, users, pruner, ends
<1>4. (open \subseteq disk)' /\ (seen <= uses)' /\ InUse' /\ LinksHold'
    BY StoreAssumption DEF IInv, TypeOK, Shape, InUse, LinksHold, Locked, InSection, Names, Maybe, EnsureParent, UseParents, tree, users, pruner, ends
<1>5. NamedThere'
    BY StoreAssumption DEF IInv, TypeOK, Shape, Alone, InUse, NamedThere, Locked, Pending, InSection, Names, Maybe, EnsureParent, UseParents, tree, users, pruner, ends
<1>6. Scanned'
    BY StoreAssumption DEF IInv, TypeOK, Shape, Alone, Scanned, InSections, Pending, InSection, Names, Maybe, EnsureParent, UseParents, tree, users, pruner, ends
<1>7. Locked'
    BY StoreAssumption DEF IInv, TypeOK, Shape, Alone, Scanned, Locked, InSections, Pending, InSection, Names, Maybe, EnsureParent, UseParents, tree, users, pruner, ends
<1> QED
    BY <1>1, <1>2, <1>3, <1>4, <1>5, <1>6, <1>7 DEF IInv

\* PullParent keeps IInv.
LEMMA PullParentKeeps ==
    ASSUME IInv, NEW q \in Procs, PullParent(q)
    PROVE  IInv'
<1>1. TypeOK'
    BY StoreAssumption DEF IInv, TypeOK, Shape, LinksHold, Names, Maybe, PullParent, tree, users, pruner, ends
<1>2. Shape'
    BY StoreAssumption DEF IInv, TypeOK, Shape, Alone, InSection, Names, Maybe, PullParent, tree, users, pruner, ends
<1>3. Alone'
    BY StoreAssumption DEF IInv, TypeOK, Shape, Alone, InSection, Names, Maybe, PullParent, tree, users, pruner, ends
<1>4. (open \subseteq disk)' /\ (seen <= uses)' /\ InUse' /\ LinksHold'
    BY StoreAssumption DEF IInv, TypeOK, Shape, InUse, LinksHold, Locked, InSection, Names, Maybe, PullParent, tree, users, pruner, ends
<1>5. NamedThere'
    BY StoreAssumption DEF IInv, TypeOK, Shape, Alone, InUse, NamedThere, Locked, Pending, InSection, Names, Maybe, PullParent, tree, users, pruner, ends
<1>6. Scanned'
    BY StoreAssumption DEF IInv, TypeOK, Shape, Alone, Scanned, InSections, Pending, InSection, Names, Maybe, PullParent, tree, users, pruner, ends
<1>7. Locked'
    BY StoreAssumption DEF IInv, TypeOK, Shape, Alone, Scanned, Locked, InSections, Pending, InSection, Names, Maybe, PullParent, tree, users, pruner, ends
<1> QED
    BY <1>1, <1>2, <1>3, <1>4, <1>5, <1>6, <1>7 DEF IInv

\* Settle keeps IInv.
LEMMA SettleKeeps ==
    ASSUME IInv, NEW q \in Procs, Settle(q)
    PROVE  IInv'
<1>1. TypeOK'
    BY StoreAssumption DEF IInv, TypeOK, Shape, LinksHold, Names, Maybe, Settle, Finish, tree, users, pruner, ends
<1>2. Shape'
    BY StoreAssumption DEF IInv, TypeOK, Shape, Alone, InSection, Names, Maybe, Settle, Finish, tree, users, pruner, ends
<1>3. Alone'
    BY StoreAssumption DEF IInv, TypeOK, Shape, Alone, InSection, Names, Maybe, Settle, Finish, tree, users, pruner, ends
<1>4. (open \subseteq disk)' /\ (seen <= uses)' /\ InUse' /\ LinksHold'
    BY StoreAssumption DEF IInv, TypeOK, Shape, InUse, LinksHold, Locked, InSection, Names, Maybe, Settle, Finish, tree, users, pruner, ends
<1>5. NamedThere'
    BY StoreAssumption DEF IInv, TypeOK, Shape, Alone, InUse, NamedThere, Locked, Pending, InSection, Names, Maybe, Settle, Finish, tree, users, pruner, ends
<1>6. Scanned'
    BY StoreAssumption DEF IInv, TypeOK, Shape, Alone, Scanned, InSections, Pending, InSection, Names, Maybe, Settle, Finish, tree, users, pruner, ends
<1>7. Locked'
    BY StoreAssumption DEF IInv, TypeOK, Shape, Alone, Scanned, Locked, InSections, Pending, InSection, Names, Maybe, Settle, Finish, tree, users, pruner, ends
<1> QED
    BY <1>1, <1>2, <1>3, <1>4, <1>5, <1>6, <1>7 DEF IInv

\* Resolve keeps IInv.
LEMMA ResolveKeeps ==
    ASSUME IInv, NEW q \in Procs, NEW w \in Warms, NEW p \in Parents, Resolve(q, w, p)
    PROVE  IInv'
<1>1. TypeOK'
    BY StoreAssumption DEF IInv, TypeOK, Shape, LinksHold, Names, Maybe, Resolve, Starts, Idle, tree, users, pruner, ends
<1>2. Shape'
    BY StoreAssumption DEF IInv, TypeOK, Shape, Alone, InSection, Names, Maybe, Resolve, Starts, Idle, tree, users, pruner, ends
<1>3. Alone'
    BY StoreAssumption DEF IInv, TypeOK, Shape, Alone, InSection, Names, Maybe, Resolve, Starts, Idle, tree, users, pruner, ends
<1>4. (open \subseteq disk)' /\ (seen <= uses)' /\ InUse' /\ LinksHold'
    BY StoreAssumption DEF IInv, TypeOK, Shape, InUse, LinksHold, Locked, InSection, Names, Maybe, Resolve, Starts, Idle, tree, users, pruner, ends
<1>5. NamedThere'
    BY StoreAssumption DEF IInv, TypeOK, Shape, Alone, InUse, NamedThere, Locked, Pending, InSection, Names, Maybe, Resolve, Starts, Idle, tree, users, pruner, ends
<1>6. Scanned'
    BY StoreAssumption DEF IInv, TypeOK, Shape, Alone, Scanned, InSections, Pending, InSection, Names, Maybe, Resolve, Starts, Idle, tree, users, pruner, ends
<1>7. Locked'
    BY StoreAssumption DEF IInv, TypeOK, Shape, Alone, Scanned, Locked, InSections, Pending, InSection, Names, Maybe, Resolve, Starts, Idle, tree, users, pruner, ends
<1> QED
    BY <1>1, <1>2, <1>3, <1>4, <1>5, <1>6, <1>7 DEF IInv

\* Park keeps IInv.
LEMMA ParkKeeps ==
    ASSUME IInv, NEW q \in Procs, NEW w \in Warms, NEW d \in Deltas, Park(q, w, d)
    PROVE  IInv'
<1>1. TypeOK'
    BY StoreAssumption DEF IInv, TypeOK, Shape, LinksHold, Names, Maybe, Park, Starts, Idle, UseParents, tree, users, pruner, ends
<1>2. Shape'
    BY StoreAssumption DEF IInv, TypeOK, Shape, Alone, InSection, Names, Maybe, Park, Starts, Idle, UseParents, tree, users, pruner, ends
<1>3. Alone'
    BY StoreAssumption DEF IInv, TypeOK, Shape, Alone, InSection, Names, Maybe, Park, Starts, Idle, UseParents, tree, users, pruner, ends
<1>4. (open \subseteq disk)' /\ (seen <= uses)' /\ InUse' /\ LinksHold'
    BY StoreAssumption DEF IInv, TypeOK, Shape, InUse, LinksHold, Locked, InSection, Names, Maybe, Park, Starts, Idle, UseParents, tree, users, pruner, ends
<1>5. NamedThere'
    BY StoreAssumption DEF IInv, TypeOK, Shape, Alone, InUse, NamedThere, Locked, Pending, InSection, Names, Maybe, Park, Starts, Idle, UseParents, tree, users, pruner, ends
<1>6. Scanned'
    BY StoreAssumption DEF IInv, TypeOK, Shape, Alone, Scanned, InSections, Pending, InSection, Names, Maybe, Park, Starts, Idle, UseParents, tree, users, pruner, ends
<1>7. Locked'
    BY StoreAssumption DEF IInv, TypeOK, Shape, Alone, Scanned, Locked, InSections, Pending, InSection, Names, Maybe, Park, Starts, Idle, UseParents, tree, users, pruner, ends
<1> QED
    BY <1>1, <1>2, <1>3, <1>4, <1>5, <1>6, <1>7 DEF IInv

\* UseDelta keeps IInv.
LEMMA UseDeltaKeeps ==
    ASSUME IInv, NEW q \in Procs, NEW d \in Deltas, UseDelta(q, d)
    PROVE  IInv'
<1>1. TypeOK'
    BY StoreAssumption DEF IInv, TypeOK, Shape, LinksHold, Names, Maybe, UseDelta, Starts, Idle, UseParents, tree, users, pruner, ends
<1>2. Shape'
    BY StoreAssumption DEF IInv, TypeOK, Shape, Alone, InSection, Names, Maybe, UseDelta, Starts, Idle, UseParents, tree, users, pruner, ends
<1>3. Alone'
    BY StoreAssumption DEF IInv, TypeOK, Shape, Alone, InSection, Names, Maybe, UseDelta, Starts, Idle, UseParents, tree, users, pruner, ends
<1>4. (open \subseteq disk)' /\ (seen <= uses)' /\ InUse' /\ LinksHold'
    BY StoreAssumption DEF IInv, TypeOK, Shape, InUse, LinksHold, Locked, InSection, Names, Maybe, UseDelta, Starts, Idle, UseParents, tree, users, pruner, ends
<1>5. NamedThere'
    BY StoreAssumption DEF IInv, TypeOK, Shape, Alone, InUse, NamedThere, Locked, Pending, InSection, Names, Maybe, UseDelta, Starts, Idle, UseParents, tree, users, pruner, ends
<1>6. Scanned'
    BY StoreAssumption DEF IInv, TypeOK, Shape, Alone, Scanned, InSections, Pending, InSection, Names, Maybe, UseDelta, Starts, Idle, UseParents, tree, users, pruner, ends
<1>7. Locked'
    BY StoreAssumption DEF IInv, TypeOK, Shape, Alone, Scanned, Locked, InSections, Pending, InSection, Names, Maybe, UseDelta, Starts, Idle, UseParents, tree, users, pruner, ends
<1> QED
    BY <1>1, <1>2, <1>3, <1>4, <1>5, <1>6, <1>7 DEF IInv

\* PullDelta keeps IInv.
LEMMA PullDeltaKeeps ==
    ASSUME IInv, NEW q \in Procs, NEW d \in Deltas, NEW p \in Parents, PullDelta(q, d, p)
    PROVE  IInv'
<1>1. TypeOK'
    BY StoreAssumption DEF IInv, TypeOK, Shape, LinksHold, Names, Maybe, PullDelta, Starts, Idle, tree, users, pruner, ends
<1>2. Shape'
    BY StoreAssumption DEF IInv, TypeOK, Shape, Alone, InSection, Names, Maybe, PullDelta, Starts, Idle, tree, users, pruner, ends
<1>3. Alone'
    BY StoreAssumption DEF IInv, TypeOK, Shape, Alone, InSection, Names, Maybe, PullDelta, Starts, Idle, tree, users, pruner, ends
<1>4. (open \subseteq disk)' /\ (seen <= uses)' /\ InUse' /\ LinksHold'
    BY StoreAssumption DEF IInv, TypeOK, Shape, InUse, LinksHold, Locked, InSection, Names, Maybe, PullDelta, Starts, Idle, tree, users, pruner, ends
<1>5. NamedThere'
    BY StoreAssumption DEF IInv, TypeOK, Shape, Alone, InUse, NamedThere, Locked, Pending, InSection, Names, Maybe, PullDelta, Starts, Idle, tree, users, pruner, ends
<1>6. Scanned'
    BY StoreAssumption DEF IInv, TypeOK, Shape, Alone, Scanned, InSections, Pending, InSection, Names, Maybe, PullDelta, Starts, Idle, tree, users, pruner, ends
<1>7. Locked'
    BY StoreAssumption DEF IInv, TypeOK, Shape, Alone, Scanned, Locked, InSections, Pending, InSection, Names, Maybe, PullDelta, Starts, Idle, tree, users, pruner, ends
<1> QED
    BY <1>1, <1>2, <1>3, <1>4, <1>5, <1>6, <1>7 DEF IInv

\* Drop keeps IInv.
LEMMA DropKeeps ==
    ASSUME IInv, NEW n \in Names, Drop(n)
    PROVE  IInv'
<1>1. TypeOK'
    BY StoreAssumption DEF IInv, TypeOK, Shape, LinksHold, Names, Maybe, Drop, tree, users, pruner, ends
<1>2. Shape'
    BY StoreAssumption DEF IInv, TypeOK, Shape, Alone, InSection, Names, Maybe, Drop, tree, users, pruner, ends
<1>3. Alone'
    BY StoreAssumption DEF IInv, TypeOK, Shape, Alone, InSection, Names, Maybe, Drop, tree, users, pruner, ends
<1>4. (open \subseteq disk)' /\ (seen <= uses)' /\ InUse' /\ LinksHold'
    BY StoreAssumption DEF IInv, TypeOK, Shape, InUse, LinksHold, Locked, InSection, Names, Maybe, Drop, tree, users, pruner, ends
<1>5. NamedThere'
    BY StoreAssumption DEF IInv, TypeOK, Shape, Alone, InUse, NamedThere, Locked, Pending, InSection, Names, Maybe, Drop, tree, users, pruner, ends
<1>6. Scanned'
    BY StoreAssumption DEF IInv, TypeOK, Shape, Alone, Scanned, InSections, Pending, InSection, Names, Maybe, Drop, tree, users, pruner, ends
<1>7. Locked'
    BY StoreAssumption DEF IInv, TypeOK, Shape, Alone, Scanned, Locked, InSections, Pending, InSection, Names, Maybe, Drop, tree, users, pruner, ends
<1> QED
    BY <1>1, <1>2, <1>3, <1>4, <1>5, <1>6, <1>7 DEF IInv

\* PruneBegin keeps IInv.
LEMMA PruneBeginKeeps ==
    ASSUME IInv, PruneBegin
    PROVE  IInv'
<1>1. TypeOK'
    BY StoreAssumption DEF IInv, TypeOK, Shape, LinksHold, Names, Maybe, PruneBegin, tree, users, pruner, ends
<1>2. Shape'
    BY StoreAssumption DEF IInv, TypeOK, Shape, Alone, InSection, Names, Maybe, PruneBegin, tree, users, pruner, ends
<1>3. Alone'
    BY StoreAssumption DEF IInv, TypeOK, Shape, Alone, InSection, Names, Maybe, PruneBegin, tree, users, pruner, ends
<1>4. (open \subseteq disk)' /\ (seen <= uses)' /\ InUse' /\ LinksHold'
    BY StoreAssumption DEF IInv, TypeOK, Shape, InUse, LinksHold, Locked, InSection, Names, Maybe, PruneBegin, tree, users, pruner, ends
<1>5. NamedThere'
    BY StoreAssumption DEF IInv, TypeOK, Shape, Alone, InUse, NamedThere, Locked, Pending, InSection, Names, Maybe, PruneBegin, tree, users, pruner, ends
<1>6. Scanned'
    BY StoreAssumption DEF IInv, TypeOK, Shape, Alone, Scanned, InSections, Pending, InSection, Names, Maybe, PruneBegin, tree, users, pruner, ends
<1>7. Locked'
    BY StoreAssumption DEF IInv, TypeOK, Shape, Alone, Scanned, Locked, InSections, Pending, InSection, Names, Maybe, PruneBegin, tree, users, pruner, ends
<1> QED
    BY <1>1, <1>2, <1>3, <1>4, <1>5, <1>6, <1>7 DEF IInv

\* ScanWarms keeps IInv.
LEMMA ScanWarmsKeeps ==
    ASSUME IInv, ScanWarms
    PROVE  IInv'
<1>1. TypeOK'
    BY StoreAssumption DEF IInv, TypeOK, Shape, LinksHold, Names, Maybe, ScanWarms, tree, users, pruner, ends
<1>2. Shape'
    BY StoreAssumption DEF IInv, TypeOK, Shape, Alone, InSection, Names, Maybe, ScanWarms, tree, users, pruner, ends
<1>3. Alone'
    BY StoreAssumption DEF IInv, TypeOK, Shape, Alone, InSection, Names, Maybe, ScanWarms, tree, users, pruner, ends
<1>4. (open \subseteq disk)' /\ (seen <= uses)' /\ InUse' /\ LinksHold'
    BY StoreAssumption DEF IInv, TypeOK, Shape, InUse, LinksHold, Locked, InSection, Names, Maybe, ScanWarms, tree, users, pruner, ends
<1>5. NamedThere'
    BY StoreAssumption DEF IInv, TypeOK, Shape, Alone, InUse, NamedThere, Locked, Pending, InSection, Names, Maybe, ScanWarms, tree, users, pruner, ends
<1>6. Scanned'
    BY StoreAssumption DEF IInv, TypeOK, Shape, Alone, Scanned, InSections, Pending, InSection, Names, Maybe, ScanWarms, tree, users, pruner, ends
<1>7. Locked'
    BY StoreAssumption DEF IInv, TypeOK, Shape, Alone, Scanned, Locked, InSections, Pending, InSection, Names, Maybe, ScanWarms, tree, users, pruner, ends
<1> QED
    BY <1>1, <1>2, <1>3, <1>4, <1>5, <1>6, <1>7 DEF IInv

\* ScanDelta keeps IInv.
LEMMA ScanDeltaKeeps ==
    ASSUME IInv, NEW d \in Deltas, ScanDelta(d)
    PROVE  IInv'
<1>1. TypeOK'
    BY StoreAssumption DEF IInv, TypeOK, Shape, LinksHold, Names, Maybe, ScanDelta, tree, users, pruner, ends
<1>2. Shape'
    BY StoreAssumption DEF IInv, TypeOK, Shape, Alone, InSection, Names, Maybe, ScanDelta, tree, users, pruner, ends
<1>3. Alone'
    BY StoreAssumption DEF IInv, TypeOK, Shape, Alone, InSection, Names, Maybe, ScanDelta, tree, users, pruner, ends
<1>4. (open \subseteq disk)' /\ (seen <= uses)' /\ InUse' /\ LinksHold'
    BY StoreAssumption DEF IInv, TypeOK, Shape, InUse, LinksHold, Locked, InSection, Names, Maybe, ScanDelta, tree, users, pruner, ends
<1>5. NamedThere'
    BY StoreAssumption DEF IInv, TypeOK, Shape, Alone, InUse, NamedThere, Locked, Pending, InSection, Names, Maybe, ScanDelta, tree, users, pruner, ends
<1>6. Scanned'
    BY StoreAssumption DEF IInv, TypeOK, Shape, Alone, Scanned, InSections, Pending, InSection, Names, Maybe, ScanDelta, tree, users, pruner, ends
<1>7. Locked'
    BY StoreAssumption DEF IInv, TypeOK, Shape, Alone, Scanned, Locked, InSections, Pending, InSection, Names, Maybe, ScanDelta, tree, users, pruner, ends
<1> QED
    BY <1>1, <1>2, <1>3, <1>4, <1>5, <1>6, <1>7 DEF IInv

\* ScanFails keeps IInv.
LEMMA ScanFailsKeeps ==
    ASSUME IInv, ScanFails
    PROVE  IInv'
<1>1. TypeOK'
    BY StoreAssumption DEF IInv, TypeOK, Shape, LinksHold, Names, Maybe, ScanFails, PutOff, PruneEnds, tree, users, pruner, ends
<1>2. Shape'
    BY StoreAssumption DEF IInv, TypeOK, Shape, Alone, InSection, Names, Maybe, ScanFails, PutOff, PruneEnds, tree, users, pruner, ends
<1>3. Alone'
    BY StoreAssumption DEF IInv, TypeOK, Shape, Alone, InSection, Names, Maybe, ScanFails, PutOff, PruneEnds, tree, users, pruner, ends
<1>4. (open \subseteq disk)' /\ (seen <= uses)' /\ InUse' /\ LinksHold'
    BY StoreAssumption DEF IInv, TypeOK, Shape, InUse, LinksHold, Locked, InSection, Names, Maybe, ScanFails, PutOff, PruneEnds, tree, users, pruner, ends
<1>5. NamedThere'
    BY StoreAssumption DEF IInv, TypeOK, Shape, Alone, InUse, NamedThere, Locked, Pending, InSection, Names, Maybe, ScanFails, PutOff, PruneEnds, tree, users, pruner, ends
<1>6. Scanned'
    BY StoreAssumption DEF IInv, TypeOK, Shape, Alone, Scanned, InSections, Pending, InSection, Names, Maybe, ScanFails, PutOff, PruneEnds, tree, users, pruner, ends
<1>7. Locked'
    BY StoreAssumption DEF IInv, TypeOK, Shape, Alone, Scanned, Locked, InSections, Pending, InSection, Names, Maybe, ScanFails, PutOff, PruneEnds, tree, users, pruner, ends
<1> QED
    BY <1>1, <1>2, <1>3, <1>4, <1>5, <1>6, <1>7 DEF IInv

\* TryLock keeps IInv.
LEMMA TryLockKeeps ==
    ASSUME IInv, TryLock
    PROVE  IInv'
<1>1. TypeOK'
    <2>1. CASE Busy /\ PutOff
        BY <2>1 DEF IInv, TypeOK, TryLock, PutOff, PruneEnds, tree, users, ends
    <2>2. CASE ~Busy /\ uses # seen /\ scans < PruneScans
        BY <2>2, StoreAssumption DEF IInv, TypeOK, TryLock, PutOff, PruneEnds, tree, users, ends
    <2>3. CASE ~Busy /\ uses # seen /\ scans >= PruneScans /\ PutOff
        BY <2>3 DEF IInv, TypeOK, TryLock, PutOff, PruneEnds, tree, users, ends
    <2>4. CASE ~Busy /\ uses = seen
        BY <2>4 DEF IInv, TypeOK, TryLock, PutOff, PruneEnds, tree, users, ends
    <2> QED
        BY <2>1, <2>2, <2>3, <2>4 DEF TryLock
<1>2. Shape'
    BY StoreAssumption DEF IInv, TypeOK, Shape, Alone, InSection, Names, Maybe, TryLock, Busy, PutOff, PruneEnds, tree, users, pruner, ends
<1>3. Alone'
    BY StoreAssumption DEF IInv, TypeOK, Shape, Alone, InSection, Names, Maybe, TryLock, Busy, PutOff, PruneEnds, tree, users, pruner, ends
<1>4. (open \subseteq disk)' /\ (seen <= uses)' /\ InUse' /\ LinksHold'
    BY StoreAssumption DEF IInv, TypeOK, Shape, InUse, LinksHold, Locked, InSection, Names, Maybe, TryLock, Busy, PutOff, PruneEnds, tree, users, pruner, ends
<1>5. NamedThere'
    BY StoreAssumption DEF IInv, TypeOK, Shape, Alone, InUse, NamedThere, Locked, Pending, InSection, Names, Maybe, TryLock, Busy, PutOff, PruneEnds, tree, users, pruner, ends
<1>6. Scanned'
    BY StoreAssumption DEF IInv, TypeOK, Shape, Alone, Scanned, InSections, Pending, InSection, Names, Maybe, TryLock, Busy, PutOff, PruneEnds, tree, users, pruner, ends
<1>7. Locked'
    BY StoreAssumption DEF IInv, TypeOK, Shape, Alone, Scanned, Locked, InSections, Pending, InSection, Names, Maybe, TryLock, Busy, PutOff, PruneEnds, tree, users, pruner, ends
<1> QED
    BY <1>1, <1>2, <1>3, <1>4, <1>5, <1>6, <1>7 DEF IInv

\* RemoveUnnamed keeps IInv.
LEMMA RemoveUnnamedKeeps ==
    ASSUME IInv, RemoveUnnamed
    PROVE  IInv'
<1>1. TypeOK'
    BY StoreAssumption DEF IInv, TypeOK, Shape, LinksHold, Names, Maybe, RemoveUnnamed, PruneEnds, Held, tree, users, pruner, ends
<1>2. Shape'
    BY StoreAssumption DEF IInv, TypeOK, Shape, Alone, InSection, Names, Maybe, RemoveUnnamed, PruneEnds, Held, tree, users, pruner, ends
<1>3. Alone'
    BY StoreAssumption DEF IInv, TypeOK, Shape, Alone, InSection, Names, Maybe, RemoveUnnamed, PruneEnds, Held, tree, users, pruner, ends
<1>4. (open \subseteq disk)' /\ (seen <= uses)' /\ InUse' /\ LinksHold'
    BY StoreAssumption DEF IInv, TypeOK, Shape, InUse, LinksHold, Locked, InSection, Names, Maybe, RemoveUnnamed, PruneEnds, Held, tree, users, pruner, ends
<1>5. NamedThere'
    BY StoreAssumption DEF IInv, TypeOK, Shape, Alone, InUse, NamedThere, Locked, Pending, InSection, Names, Maybe, RemoveUnnamed, PruneEnds, Held, tree, users, pruner, ends
<1>6. Scanned'
    BY StoreAssumption DEF IInv, TypeOK, Shape, Alone, Scanned, InSections, Pending, InSection, Names, Maybe, RemoveUnnamed, PruneEnds, Held, tree, users, pruner, ends
<1>7. Locked'
    BY StoreAssumption DEF IInv, TypeOK, Shape, Alone, Scanned, Locked, InSections, Pending, InSection, Names, Maybe, RemoveUnnamed, PruneEnds, Held, tree, users, pruner, ends
<1> QED
    BY <1>1, <1>2, <1>3, <1>4, <1>5, <1>6, <1>7 DEF IInv

\* The initial states satisfy IInv.
LEMMA InitIInv == Init => IInv
<1> SUFFICES ASSUME Init PROVE IInv
    OBVIOUS
<1>1. TypeOK /\ Shape /\ Alone
    BY StoreAssumption DEF Init, TypeOK, Shape, Alone, Names, Maybe
<1>2. (open \subseteq disk) /\ (seen <= uses) /\ NamedThere /\ InUse /\ LinksHold
    BY StoreAssumption DEF Init, NamedThere, InUse, LinksHold, Names
<1>3. Scanned /\ Locked
    BY DEF Init, Scanned, Locked
<1> QED
    BY <1>1, <1>2, <1>3 DEF IInv

\* Every step keeps IInv.
LEMMA NextKeeps == IInv /\ [Next]_vars => IInv'
<1> SUFFICES ASSUME IInv, [Next]_vars PROVE IInv'
    OBVIOUS
<1>1. CASE UNCHANGED vars
    BY <1>1 DEF IInv, TypeOK, Shape, Alone, NamedThere, InUse, LinksHold, Scanned, Locked, InSections,
        InSection, Pending, vars, tree, users, pruner, ends
<1>2. ASSUME NEW q \in Procs, Step(q) PROVE IInv'
    BY <1>2, DoneKeeps, LoadKeeps, UsedKeeps, WarmSectionKeeps, RegisterParentKeeps, PublishWarmKeeps,
        ReleaseImagesKeeps, WriteManifestKeeps, EnsureParentKeeps, PullParentKeeps, SettleKeeps DEF Step
<1>3. ASSUME NEW q \in Procs, Begin(q) PROVE IInv'
    BY <1>3, ResolveKeeps, ParkKeeps, UseDeltaKeeps, PullDeltaKeeps DEF Begin
<1>4. ASSUME NEW n \in Names, Drop(n) PROVE IInv'
    BY <1>4, DropKeeps
<1>5. CASE Prune \/ ScanFails
    BY <1>5, PruneBeginKeeps, ScanWarmsKeeps, ScanDeltaKeeps, TryLockKeeps, RemoveUnnamedKeeps, ScanFailsKeeps
    DEF Prune
<1> QED
    BY <1>1, <1>2, <1>3, <1>4, <1>5 DEF Next

\* Whatever a warm or a delta names is in the store, for any number of
\* goroutines, warms, deltas and checkpoints (pruneParents, useParents).
THEOREM NamedThereHolds == Spec => []NamedThere
<1>1. IInv => NamedThere
    BY DEF IInv
<1> QED
    BY InitIInv, NextKeeps, <1>1, PTL DEF Spec

\* No open section loses the parent it has loaded (removeUnnamed).
THEOREM InUseHolds == Spec => []InUse
<1>1. IInv => InUse
    BY DEF IInv
<1> QED
    BY InitIInv, NextKeeps, <1>1, PTL DEF Spec

\* No link in the store dangles (registerParent, pruneImages).
THEOREM LinksHoldHolds == Spec => []LinksHold
<1>1. IInv => LinksHold
    BY DEF IInv
<1> QED
    BY InitIInv, NextKeeps, <1>1, PTL DEF Spec
=============================================================================
