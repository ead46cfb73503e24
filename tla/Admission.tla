------------------------------ MODULE Admission ------------------------------
(***************************************************************************)
(* How one grant UID comes to a home and leaves it: Core's Admit, Remove,  *)
(* Redeliver, Yield and Sweep (pkg/core/core.go, snapshot.go), the         *)
(* deny-list (revoked.go) and the loop that feeds them (pkg/home, Drive).  *)
(*                                                                         *)
(* Three kinds of goroutines meet here.  Home is Drive: it delivers and    *)
(* removes the grant, one event after the other.  Callers run Clone, which *)
(* admits a token whose UID it does not know.  Yielders take the grant     *)
(* away on their own: the lease reaper and the pressure ladder.            *)
(*                                                                         *)
(* Simplifications.  All state is kept by UID, so one UID is enough.  A    *)
(* token is what Admit tells apart: its lease, its caller and the fields a *)
(* re-delivery may not change (shape).  The zero time, "no lease", is a    *)
(* lease later than all others.  A home that admits its own grant in a     *)
(* Clone admits some token of the UID, as here.  The fibers a Yield        *)
(* releases and a Clone starts are FiberCore's; the deny-list's file, the  *)
(* snapshot and sessions held since boot matter to a restart only.  A tier *)
(* or an isolation this home lacks refuses a token before any of this.     *)
(***************************************************************************)
EXTENDS Integers, FiniteSets

CONSTANTS
    Callers,    \* goroutines that serve a Clone
    Yielders,   \* {Reaper, Ladder} or a part of it
    Home, Reaper, Ladder,
    Tokens,     \* the grants an issuer may sign: [lease, caller, shape]
    TTL,        \* -max-lease: the longest lease signed, and the deny-list's ttl
    Channels,   \* device channels the home can provision
    Budget,     \* does the grant carry a device budget?
    NoProc, NoChan, NoToken,
    MaxNow      \* bound: the clock

Procs == Callers \cup Yielders \cup {Home}

ASSUME ConstAssumption ==
    /\ Yielders \subseteq {Reaper, Ladder}
    /\ Home \notin Callers \cup {Reaper, Ladder}
    /\ Callers \cap {Reaper, Ladder} = {} /\ Reaper # Ladder
    /\ NoProc \notin Procs /\ NoChan \notin Channels /\ NoToken \notin Tokens
    /\ TTL \in Nat \ {0} /\ MaxNow \in Nat /\ Budget \in BOOLEAN
    /\ \A t \in Tokens : t.lease \in Nat

VARIABLES
    now,        \* the clock
    issued,     \* when the issuer last signed a token for the UID
    held,       \* the ledger's grant, or NoToken
    deny,       \* Revoked.until of the UID, 0 when it has no entry
    slot,       \* admitting: the goroutine whose admission is in flight
    devices,    \* Core.devices: the channel the grant holds
    out,        \* channels provisioned and not released (external)
    attached,   \* Runtime.deviceChannels
    warm,       \* Runtime.warms: does the UID have a warm template?
    stopping,   \* has the context of Drive ended?
    pc,         \* where each goroutine is
    tok,        \* the token it admits
    fresh,      \* the channel its admission has provisioned
    removed     \* history: the home removed the grant and has not sent it since

grantVars == <<held, deny>>
deviceVars == <<devices, out, attached>>
vars == <<now, issued, grantVars, slot, deviceVars, warm, stopping, pc, tok, fresh, removed>>

Expired(t) == now >= t.lease
RenewsLease(h, t) == t.lease > h.lease
ChangesFixedFields(h, t) == h # NoToken /\ t.shape # h.shape

\* The issuer signs no token for longer than TTL, which Verify checks, and
\* none after the home has removed the grant.
Signed(t) == t.lease <= issued + TTL

Init ==
    /\ now = 0 /\ issued = 0
    /\ held = NoToken /\ deny = 0
    /\ slot = NoProc
    /\ devices = NoChan /\ out = {} /\ attached = NoChan
    /\ warm = FALSE /\ stopping = FALSE
    /\ pc = [p \in Procs |-> "idle"]
    /\ tok = [p \in Procs |-> NoToken]
    /\ fresh = [p \in Procs |-> NoChan]
    /\ removed = FALSE

\* p goes on; its token is its call's and goes with it.
Goes(p, from, to) ==
    /\ pc[p] = from /\ pc' = [pc EXCEPT ![p] = to]
    /\ tok' = [tok EXCEPT ![p] = IF to = "idle" THEN NoToken ELSE @]

Begins(p, t, to) ==
    /\ pc[p] = "idle" /\ pc' = [pc EXCEPT ![p] = to]
    /\ tok' = [tok EXCEPT ![p] = t]

(***************************************************************************)
(* Calls.                                                                  *)
(***************************************************************************)

\* Clone: an unknown UID is admitted from the token, a known one is used.
BeginClone(p, t) ==
    /\ p \in Callers /\ Signed(t)
    /\ Begins(p, t, IF held = NoToken THEN "admit" ELSE "admitted")
    /\ UNCHANGED <<now, issued, grantVars, slot, deviceVars, warm, stopping, fresh, removed>>

\* Redeliver lifts the denial.  The home has the grant again, and its
\* issuer signs for it.
Redeliver == deny' = 0 /\ removed' = FALSE /\ issued' = now

\* Drive, GrantAdded: Redeliver, then Admit.
Deliver(t) ==
    /\ ~stopping /\ t.lease <= now + TTL
    /\ Begins(Home, t, "admit")
    /\ Redeliver
    /\ UNCHANGED <<now, held, slot, deviceVars, warm, stopping, fresh>>

Later(a, b) == IF a > b THEN a ELSE b

\* Revoked.Add: the UID is denied until the later of lease and the ttl from
\* now, unless its entry outlasts that.
Add(lease) == deny' = Later(deny, Later(lease, now + TTL))

\* Drive, GrantRemoved: Remove denies the UID by the lease it knows.
Remove ==
    /\ ~stopping
    /\ Goes(Home, "idle", "removing")
    /\ Add(IF held # NoToken THEN held.lease ELSE now)
    /\ UNCHANGED <<now, issued, held, slot, deviceVars, warm, stopping, fresh, removed>>

\* The reaper finds a lapsed lease, the ladder a grant under pressure.
BeginYield(p) ==
    /\ p \in Yielders /\ held # NoToken
    /\ p = Reaper => Expired(held)
    /\ Goes(p, "idle", "yield")
    /\ UNCHANGED <<now, issued, grantVars, slot, deviceVars, warm, stopping, fresh, removed>>

(***************************************************************************)
(* Admit.                                                                  *)
(***************************************************************************)

\* Where an admission leaves its goroutine: a Clone goes on if it succeeded.
After(p, ok) == IF ok /\ p \in Callers THEN "admitted" ELSE "idle"

AdmitExpired(p) ==
    /\ Goes(p, "admit", "idle")
    /\ Expired(tok[p])
    /\ UNCHANGED <<now, issued, grantVars, slot, deviceVars, warm, stopping, fresh, removed>>

AdmitLive(p) ==
    /\ Goes(p, "admit", "enter")
    /\ ~Expired(tok[p])
    /\ UNCHANGED <<now, issued, grantVars, slot, deviceVars, warm, stopping, fresh, removed>>

\* Under admitMu: take the slot, or wait for the admission that has it.
Enter(p) ==
    /\ \/ slot = NoProc /\ Goes(p, "enter", "deny") /\ slot' = p
       \/ slot # NoProc /\ Goes(p, "enter", "wait") /\ slot' = slot
    /\ UNCHANGED <<now, issued, grantVars, deviceVars, warm, stopping, fresh, removed>>

\* The admission waited for has ended.  Its result stands in for this one,
\* unless this one would change it.
StandsIn(t) ==
    /\ held # NoToken
    /\ ~RenewsLease(held, t) /\ held.caller = t.caller /\ ~ChangesFixedFields(held, t)

Woken(p) ==
    /\ Goes(p, "woken", IF StandsIn(tok[p]) THEN After(p, TRUE) ELSE "enter")
    /\ UNCHANGED <<now, issued, grantVars, slot, deviceVars, warm, stopping, fresh, removed>>

\* The context of the call ends first.
WaitCut(p) ==
    /\ p \in Callers \/ stopping
    /\ Goes(p, "wait", "idle")
    /\ UNCHANGED <<now, issued, grantVars, slot, deviceVars, warm, stopping, fresh, removed>>

\* Denied: an entry that has lapsed goes, one that holds is extended to the
\* lease of the token it refuses.
Denied(p) ==
    /\ deny > now
    /\ Goes(p, "deny", "refused")
    /\ deny' = Later(deny, tok[p].lease)
    /\ UNCHANGED <<now, issued, held, slot, deviceVars, warm, stopping, fresh, removed>>

NotDenied(p) ==
    /\ deny <= now
    /\ Goes(p, "deny", "fixed")
    /\ deny' = 0
    /\ UNCHANGED <<now, issued, held, slot, deviceVars, warm, stopping, fresh, removed>>

\* A changed fixed field refuses the token, and so does a home that has no
\* devices for it.
NotEquipped(p) ==
    /\ Goes(p, "fixed", "refused")
    /\ UNCHANGED <<now, issued, grantVars, slot, deviceVars, warm, stopping, fresh, removed>>

\* Mutant of Equip: the fixed fields are compared by waiters only.
EquipAnyShape(p, c) ==
    /\ Goes(p, "fixed", "prepare")
    /\ c \in Channels \ out
    /\ out' = out \cup {c} /\ attached' = c
    /\ fresh' = [fresh EXCEPT ![p] = c]
    /\ UNCHANGED <<now, issued, grantVars, slot, devices, warm, stopping, removed>>

Equip(p, c) ==
    /\ Goes(p, "fixed", "prepare")
    /\ ~ChangesFixedFields(held, tok[p])
    /\ c \in Channels \ out
    /\ out' = out \cup {c} /\ attached' = c
    /\ fresh' = [fresh EXCEPT ![p] = c]
    /\ UNCHANGED <<now, issued, grantVars, slot, devices, warm, stopping, removed>>

\* PrepareTemplate keeps a template that is warm and publishes one that it
\* has warmed.
Prepare(p) ==
    /\ Goes(p, "prepare", "swap")
    /\ warm' = TRUE
    /\ UNCHANGED <<now, issued, grantVars, slot, deviceVars, stopping, fresh, removed>>

\* PrepareTemplate fails, or it succeeds and the engine it started has too
\* little for the grant's device budget.
NotPrepared(p) ==
    /\ Goes(p, "prepare", "refuse")
    /\ \/ warm' = warm
       \/ Budget /\ warm' = TRUE
    /\ UNCHANGED <<now, issued, grantVars, slot, deviceVars, stopping, fresh, removed>>

\* Mutant of Refuse: the runtime keeps the channel that was released.
RefuseDetached(p) ==
    /\ Goes(p, "refuse", "refused")
    /\ out' = out \ {fresh[p]}
    /\ fresh' = [fresh EXCEPT ![p] = NoChan]
    /\ UNCHANGED <<now, issued, grantVars, slot, devices, attached, warm, stopping, removed>>

\* refuse: the new channel goes, and the runtime gets back the one the
\* grant still holds.
Refuse(p) ==
    /\ Goes(p, "refuse", "refused")
    /\ out' = out \ {fresh[p]}
    /\ fresh' = [fresh EXCEPT ![p] = NoChan]
    /\ attached' = IF devices # NoChan THEN devices ELSE attached
    /\ UNCHANGED <<now, issued, grantVars, slot, devices, warm, stopping, removed>>

\* Mutant of Swap: the old channel is not released.
SwapLeaks(p) ==
    /\ Goes(p, "swap", "record")
    /\ devices' = fresh[p]
    /\ fresh' = [fresh EXCEPT ![p] = NoChan]
    /\ UNCHANGED <<now, issued, grantVars, slot, out, attached, warm, stopping, removed>>

\* The new channel takes the place of the old one, which is released.
Swap(p) ==
    /\ Goes(p, "swap", "record")
    /\ devices' = fresh[p] /\ out' = out \ {devices}
    /\ fresh' = [fresh EXCEPT ![p] = NoChan]
    /\ UNCHANGED <<now, issued, grantVars, slot, attached, warm, stopping, removed>>

\* Ledger.AdmitGrant.
Record(p) ==
    /\ Goes(p, "record", "done")
    /\ held' = tok[p]
    /\ UNCHANGED <<now, issued, deny, slot, deviceVars, warm, stopping, fresh, removed>>

\* Mutant of EndFlight: an admission that was refused returns without it.
EndFlightAdmitted(p) ==
    \/ /\ Goes(p, "refused", "idle")
       /\ UNCHANGED <<now, issued, grantVars, slot, deviceVars, warm, stopping, fresh, removed>>
    \/ /\ pc[p] = "done"
       /\ slot' = NoProc
       /\ pc' = [q \in Procs |->
                   IF q = p THEN After(p, TRUE)
                   ELSE IF pc[q] = "wait" THEN "woken"
                   ELSE IF pc[q] = "removeWait" THEN "yield"
                   ELSE pc[q]]
       /\ UNCHANGED <<now, issued, grantVars, deviceVars, warm, stopping, tok, fresh, removed>>

\* The deferred end of the admission, on every path: the slot is free and
\* all that wait for this admission go on, a Remove to its yield.
EndFlight(p) ==
    /\ pc[p] \in {"refused", "done"}
    /\ slot' = NoProc
    /\ pc' = [q \in Procs |->
                IF q = p THEN After(p, pc[p] = "done")
                ELSE IF pc[q] = "wait" THEN "woken"
                ELSE IF pc[q] = "removeWait" THEN "yield"
                ELSE pc[q]]
    /\ tok' = [tok EXCEPT ![p] = IF After(p, pc[p] = "done") = "idle" THEN NoToken ELSE @]
    /\ UNCHANGED <<now, issued, grantVars, deviceVars, warm, stopping, fresh, removed>>

(***************************************************************************)
(* The rest of Clone, as far as it touches the template.                   *)
(***************************************************************************)

\* Clone reads the admitted grant, compares the caller and resolves.
CloneResolve(p) ==
    /\ Goes(p, "admitted",
            IF held # NoToken /\ held.caller = tok[p].caller /\ ~Expired(held) THEN "spawn" ELSE "idle")
    /\ UNCHANGED <<now, issued, grantVars, slot, deviceVars, warm, stopping, fresh, removed>>

\* Runtime.Clone warms the template on demand, which may fail.
CloneSpawn(p) ==
    /\ Goes(p, "spawn", "idle")
    /\ warm' \in {warm, TRUE}
    /\ UNCHANGED <<now, issued, grantVars, slot, deviceVars, stopping, fresh, removed>>

(***************************************************************************)
(* Remove's wait, and Yield.                                               *)
(***************************************************************************)

\* Mutant of RemoveWaits: the yield does not wait.
RemoveAtOnce ==
    /\ Goes(Home, "removing", "yield")
    /\ UNCHANGED <<now, issued, grantVars, slot, deviceVars, warm, stopping, fresh, removed>>

\* Remove waits for an admission that may have passed its deny check.
RemoveWaits ==
    /\ Goes(Home, "removing", IF slot = NoProc THEN "yield" ELSE "removeWait")
    /\ UNCHANGED <<now, issued, grantVars, slot, deviceVars, warm, stopping, fresh, removed>>

RemoveCut ==
    /\ stopping
    /\ Goes(Home, "removeWait", "yield")
    /\ UNCHANGED <<now, issued, grantVars, slot, deviceVars, warm, stopping, fresh, removed>>

\* Revoke: the ledger's entry first, then the device channel.
RevokeGrant(p) ==
    /\ Goes(p, "yield", "give")
    /\ held' = NoToken
    /\ UNCHANGED <<now, issued, deny, slot, deviceVars, warm, stopping, fresh, removed>>

ReleaseDevices(p) ==
    /\ Goes(p, "give", "drop")
    /\ devices' = NoChan /\ out' = out \ {devices}
    /\ UNCHANGED <<now, issued, grantVars, slot, attached, warm, stopping, fresh, removed>>

\* The fibers are released, then the warm template goes.
DropTemplate(p) ==
    /\ Goes(p, "drop", "idle")
    /\ warm' = FALSE
    /\ removed' = (removed \/ p = Home)
    /\ UNCHANGED <<now, issued, grantVars, slot, deviceVars, stopping, fresh>>

(***************************************************************************)
(* The environment.                                                        *)
(***************************************************************************)

\* The issuer goes on signing until the home removes the grant.
Tick ==
    /\ now < MaxNow
    /\ now' = now + 1
    /\ issued' = IF removed \/ pc[Home] \in {"removing", "removeWait", "yield", "give", "drop"}
                 THEN issued ELSE now'
    /\ UNCHANGED <<grantVars, slot, deviceVars, warm, stopping, pc, tok, fresh, removed>>

WarmGone ==
    /\ warm /\ warm' = FALSE
    /\ UNCHANGED <<now, issued, grantVars, slot, deviceVars, stopping, pc, tok, fresh, removed>>

Stop ==
    /\ ~stopping /\ stopping' = TRUE
    /\ UNCHANGED <<now, issued, grantVars, slot, deviceVars, warm, pc, tok, fresh, removed>>

Admit(p) ==
    \/ AdmitExpired(p) \/ AdmitLive(p) \/ Enter(p) \/ Woken(p)
    \/ Denied(p) \/ NotDenied(p)
    \/ NotEquipped(p) \/ \E c \in Channels : Equip(p, c)
    \/ Prepare(p) \/ NotPrepared(p) \/ Refuse(p) \/ Swap(p) \/ Record(p)
    \/ EndFlight(p)

Clone(p) == CloneResolve(p) \/ CloneSpawn(p)

Yield(p) == RevokeGrant(p) \/ ReleaseDevices(p) \/ DropTemplate(p)

Next ==
    \/ \E t \in Tokens : Deliver(t) \/ \E p \in Callers : BeginClone(p, t)
    \/ Remove \/ RemoveWaits \/ RemoveCut
    \/ \E p \in Procs : BeginYield(p) \/ Admit(p) \/ WaitCut(p) \/ Clone(p) \/ Yield(p)
    \/ Tick \/ WarmGone \/ Stop

Spec == Init /\ [][Next]_vars

\* A goroutine that can go on does, and PrepareTemplate and the provisioning
\* of devices return.  Calls, clocks and faults need not come.
Fairness ==
    /\ WF_vars(RemoveWaits)
    /\ \A p \in Procs : WF_vars(Admit(p) \/ Clone(p) \/ Yield(p))

FairSpec == Spec /\ Fairness
(***************************************************************************)
(* Properties.                                                             *)
(***************************************************************************)

\* Once Remove has returned, no token a caller still holds brings the grant
\* back before the home delivers it again.  (An admission that found its
\* token live may end after it lapsed; the resolve refuses that grant and
\* the reaper takes it.)  Remove's denial, its wait and its yield, in this
\* order, against Admit's slot and deny check, are what makes it so.
RemovedStaysOut ==
    removed /\ ~stopping /\ held # NoToken => Expired(held)

\* The goroutines whose admission has a channel of its own.
Equipped == {p \in Procs : pc[p] \in {"prepare", "swap", "refuse"}}

\* Every provisioned channel is the grant's or one admission's, and no two
\* have the same: Admit, its refusals and releaseDevices release each
\* channel once, however they interleave.
ChannelsExact ==
    /\ out = ({devices} \ {NoChan}) \cup {fresh[p] : p \in Equipped}
    /\ \A p \in Equipped : fresh[p] # devices
    /\ \A p, q \in Equipped : fresh[p] = fresh[q] => p = q

\* With no admission in flight, the channel the grant holds is the one the
\* runtime would warm its next instance with, also after a refresh that
\* failed and across yields.
RuntimeHasChannel ==
    slot = NoProc /\ devices # NoChan => attached = devices

\* Nothing but the lease, the caller and the token of an admitted grant ever
\* changes: Admit compares under its slot, long before it records.
FixedStays ==
    [][held # NoToken /\ held' # NoToken => held'.shape = held.shape]_vars

\* A Remove ends, whatever the admission it waits for comes to.
RemoveCompletes == pc[Home] = "removing" ~> pc[Home] = "idle"
==============================================================================
