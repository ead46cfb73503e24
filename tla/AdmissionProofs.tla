--------------------------- MODULE AdmissionProofs ---------------------------
(***************************************************************************)
(* What TLAPS proves of Admission, for every set of callers, of yielders,  *)
(* of tokens and of channels, and for every TTL and clock bound.           *)
(*                                                                         *)
(* RemovedStaysOut, ChannelsExact, RuntimeHasChannel and the action        *)
(* property FixedStays each follow from an inductive invariant of a few    *)
(* parts.  They share Lanes: the goroutine between its deny check and the  *)
(* end of its admission is the one that has the slot, so that there is at  *)
(* most one.                                                               *)
(***************************************************************************)
EXTENDS Admission, TLAPS

\* Where a goroutine is before its admission has the slot, while it has it,
\* and in a Remove or a Yield.
Waiting == {"admit", "enter", "wait", "woken"}
Flying == {"deny", "fixed", "prepare", "swap", "refuse", "record", "refused", "done"}
Leaving == {"removing", "removeWait", "yield", "give", "drop"}

TypeOK ==
    /\ now \in Nat /\ issued \in Nat /\ deny \in Nat
    /\ held \in Tokens \cup {NoToken}
    /\ slot \in Procs \cup {NoProc}
    /\ devices \in Channels \cup {NoChan} /\ out \subseteq Channels
    /\ attached \in Channels \cup {NoChan}
    /\ warm \in BOOLEAN /\ stopping \in BOOLEAN /\ removed \in BOOLEAN
    /\ pc \in [Procs -> {"idle", "admitted", "spawn"} \cup Waiting \cup Flying \cup Leaving]
    /\ tok \in [Procs -> Tokens \cup {NoToken}]
    /\ \A p \in Procs : pc[p] \in Waiting \cup Flying => tok[p] \in Tokens
    /\ fresh \in [Procs -> Channels \cup {NoChan}]

\* Admit's slot is held by the one goroutine whose admission is in flight,
\* and each kind of goroutine keeps to its own calls.
Lanes ==
    /\ \A p \in Procs : pc[p] \in Flying <=> slot = p
    /\ pc[Home] \notin {"admitted", "spawn"}
    /\ \A p \in Yielders : pc[p] \in {"idle", "yield", "give", "drop"}
    /\ \A p \in Callers : pc[p] \notin Leaving

\* Every step of Drive, Clone, Admit and Yield keeps the types.
LEMMA TypeStep == TypeOK /\ [Next]_vars => TypeOK'
<1> SUFFICES ASSUME TypeOK, [Next]_vars PROVE TypeOK'
    OBVIOUS
<1> USE ConstAssumption DEF TypeOK, Procs, Waiting, Flying, Leaving, grantVars, deviceVars
<1>1. ASSUME NEW t \in Tokens, Deliver(t) PROVE TypeOK'
    BY <1>1 DEF Deliver, Begins, Redeliver
<1>2. ASSUME NEW t \in Tokens, NEW p \in Callers, BeginClone(p, t) PROVE TypeOK'
    BY <1>2 DEF BeginClone, Begins, Signed
<1>3. CASE Remove
    BY <1>3 DEF Remove, Goes, Add, Later
<1>4. CASE RemoveWaits
    BY <1>4 DEF RemoveWaits, Goes
<1>5. CASE RemoveCut
    BY <1>5 DEF RemoveCut, Goes
<1>6. CASE Tick
    BY <1>6 DEF Tick
<1>7. CASE WarmGone
    BY <1>7 DEF WarmGone
<1>8. CASE Stop
    BY <1>8 DEF Stop
<1>9. ASSUME NEW p \in Procs, Admit(p) PROVE TypeOK'
  <2>1. CASE AdmitExpired(p)
    BY <2>1 DEF AdmitExpired, Goes
  <2>2. CASE AdmitLive(p)
    BY <2>2 DEF AdmitLive, Goes
  <2>3. CASE Enter(p)
    BY <2>3 DEF Enter, Goes
  <2>4. CASE Woken(p)
    BY <2>4 DEF Woken, Goes, After
  <2>5. CASE Denied(p)
    BY <2>5 DEF Denied, Goes, Later
  <2>6. CASE NotDenied(p)
    BY <2>6 DEF NotDenied, Goes
  <2>7. CASE NotEquipped(p)
    BY <2>7 DEF NotEquipped, Goes
  <2>8. CASE Prepare(p)
    BY <2>8 DEF Prepare, Goes
  <2>9. CASE NotPrepared(p)
    BY <2>9 DEF NotPrepared, Goes
  <2>10. CASE Refuse(p)
    BY <2>10 DEF Refuse, Goes
  <2>11. CASE Swap(p)
    BY <2>11 DEF Swap, Goes
  <2>12. CASE Record(p)
    BY <2>12 DEF Record, Goes
  <2>13. CASE EndFlight(p)
    BY <2>13 DEF EndFlight, After
  <2>14. ASSUME NEW c \in Channels, Equip(p, c) PROVE TypeOK'
    BY <2>14 DEF Equip, Goes
  <2> QED
    BY <1>9, <2>1, <2>2, <2>3, <2>4, <2>5, <2>6, <2>7, <2>8, <2>9, <2>10, <2>11, <2>12, <2>13, <2>14 DEF Admit
<1>10. ASSUME NEW p \in Procs, BeginYield(p) \/ WaitCut(p) \/ Clone(p) \/ Yield(p) PROVE TypeOK'
  <2>1. CASE BeginYield(p)
    BY <2>1 DEF BeginYield, Goes
  <2>2. CASE WaitCut(p)
    BY <2>2 DEF WaitCut, Goes
  <2>3. CASE CloneResolve(p)
    BY <2>3 DEF CloneResolve, Goes
  <2>4. CASE CloneSpawn(p)
    BY <2>4 DEF CloneSpawn, Goes
  <2>5. CASE RevokeGrant(p)
    BY <2>5 DEF RevokeGrant, Goes
  <2>6. CASE ReleaseDevices(p)
    BY <2>6 DEF ReleaseDevices, Goes
  <2>7. CASE DropTemplate(p)
    BY <2>7 DEF DropTemplate, Goes
  <2> QED
    BY <1>10, <2>1, <2>2, <2>3, <2>4, <2>5, <2>6, <2>7 DEF Clone, Yield
<1>11. CASE UNCHANGED vars
    BY <1>11 DEF vars
<1> QED
    BY <1>1, <1>2, <1>3, <1>4, <1>5, <1>6, <1>7, <1>8, <1>9, <1>10, <1>11 DEF Next

\* Only Enter takes the slot, when it is free, and only the deferred end of
\* the admission that has it gives it back.
LEMMA LanesStep == TypeOK /\ Lanes /\ [Next]_vars => Lanes'
<1> SUFFICES ASSUME TypeOK, Lanes, [Next]_vars PROVE Lanes'
    OBVIOUS
<1> USE ConstAssumption DEF TypeOK, Lanes, Procs, Waiting, Flying, Leaving, grantVars, deviceVars
<1>1. ASSUME NEW t \in Tokens, Deliver(t) PROVE Lanes'
    BY <1>1 DEF Deliver, Begins, Redeliver
<1>2. ASSUME NEW t \in Tokens, NEW p \in Callers, BeginClone(p, t) PROVE Lanes'
    BY <1>2 DEF BeginClone, Begins, Signed
<1>3. CASE Remove
    BY <1>3 DEF Remove, Goes, Add, Later
<1>4. CASE RemoveWaits
    BY <1>4 DEF RemoveWaits, Goes
<1>5. CASE RemoveCut
    BY <1>5 DEF RemoveCut, Goes
<1>6. CASE Tick
    BY <1>6 DEF Tick
<1>7. CASE WarmGone
    BY <1>7 DEF WarmGone
<1>8. CASE Stop
    BY <1>8 DEF Stop
<1>9. ASSUME NEW p \in Procs, Admit(p) PROVE Lanes'
  <2>1. CASE AdmitExpired(p)
    BY <2>1 DEF AdmitExpired, Goes
  <2>2. CASE AdmitLive(p)
    BY <2>2 DEF AdmitLive, Goes
  <2>3. CASE Enter(p)
    BY <2>3 DEF Enter, Goes
  <2>4. CASE Woken(p)
    BY <2>4 DEF Woken, Goes, After
  <2>5. CASE Denied(p)
    BY <2>5 DEF Denied, Goes, Later
  <2>6. CASE NotDenied(p)
    BY <2>6 DEF NotDenied, Goes
  <2>7. CASE NotEquipped(p)
    BY <2>7 DEF NotEquipped, Goes
  <2>8. CASE Prepare(p)
    BY <2>8 DEF Prepare, Goes
  <2>9. CASE NotPrepared(p)
    BY <2>9 DEF NotPrepared, Goes
  <2>10. CASE Refuse(p)
    BY <2>10 DEF Refuse, Goes
  <2>11. CASE Swap(p)
    BY <2>11 DEF Swap, Goes
  <2>12. CASE Record(p)
    BY <2>12 DEF Record, Goes
  <2>13. CASE EndFlight(p)
    BY <2>13 DEF EndFlight, After
  <2>14. ASSUME NEW c \in Channels, Equip(p, c) PROVE Lanes'
    BY <2>14 DEF Equip, Goes
  <2> QED
    BY <1>9, <2>1, <2>2, <2>3, <2>4, <2>5, <2>6, <2>7, <2>8, <2>9, <2>10, <2>11, <2>12, <2>13, <2>14 DEF Admit
<1>10. ASSUME NEW p \in Procs, BeginYield(p) \/ WaitCut(p) \/ Clone(p) \/ Yield(p) PROVE Lanes'
  <2>1. CASE BeginYield(p)
    BY <2>1 DEF BeginYield, Goes
  <2>2. CASE WaitCut(p)
    BY <2>2 DEF WaitCut, Goes
  <2>3. CASE CloneResolve(p)
    BY <2>3 DEF CloneResolve, Goes
  <2>4. CASE CloneSpawn(p)
    BY <2>4 DEF CloneSpawn, Goes
  <2>5. CASE RevokeGrant(p)
    BY <2>5 DEF RevokeGrant, Goes
  <2>6. CASE ReleaseDevices(p)
    BY <2>6 DEF ReleaseDevices, Goes
  <2>7. CASE DropTemplate(p)
    BY <2>7 DEF DropTemplate, Goes
  <2> QED
    BY <1>10, <2>1, <2>2, <2>3, <2>4, <2>5, <2>6, <2>7 DEF Clone, Yield
<1>11. CASE UNCHANGED vars
    BY <1>11 DEF vars
<1> QED
    BY <1>1, <1>2, <1>3, <1>4, <1>5, <1>6, <1>7, <1>8, <1>9, <1>10, <1>11 DEF Next

(***************************************************************************)
(* Device channels.                                                        *)
(***************************************************************************)

\* A channel that an admission has provisioned is its own until the swap or
\* the refusal, and it is the one the runtime has.  Once no admission has
\* one, the runtime has the grant's.
Devices ==
    /\ \A p \in Procs : p \in Equipped <=> fresh[p] # NoChan
    /\ ChannelsExact
    /\ \A p \in Equipped : attached = fresh[p]
    /\ Equipped = {} /\ devices # NoChan => attached = devices

\* Equip, Refuse, Swap and ReleaseDevices keep the channels apart and release
\* each one once, in every order of an admission and a yield.
LEMMA DevicesStep == TypeOK /\ Lanes /\ Devices /\ [Next]_vars => Devices'
<1> SUFFICES ASSUME TypeOK, Lanes, Devices, [Next]_vars PROVE Devices'
    OBVIOUS
<1> USE ConstAssumption DEF TypeOK, Lanes, Devices, ChannelsExact, Equipped, Procs, Waiting, Flying, Leaving, grantVars, deviceVars
<1>1. ASSUME NEW t \in Tokens, Deliver(t) PROVE Devices'
    BY <1>1 DEF Deliver, Begins, Redeliver
<1>2. ASSUME NEW t \in Tokens, NEW p \in Callers, BeginClone(p, t) PROVE Devices'
    BY <1>2 DEF BeginClone, Begins, Signed
<1>3. CASE Remove
    BY <1>3 DEF Remove, Goes, Add, Later
<1>4. CASE RemoveWaits
    BY <1>4 DEF RemoveWaits, Goes
<1>5. CASE RemoveCut
    BY <1>5 DEF RemoveCut, Goes
<1>6. CASE Tick
    BY <1>6 DEF Tick
<1>7. CASE WarmGone
    BY <1>7 DEF WarmGone
<1>8. CASE Stop
    BY <1>8 DEF Stop
<1>9. ASSUME NEW p \in Procs, Admit(p) PROVE Devices'
  <2>1. CASE AdmitExpired(p)
    BY <2>1 DEF AdmitExpired, Goes
  <2>2. CASE AdmitLive(p)
    BY <2>2 DEF AdmitLive, Goes
  <2>3. CASE Enter(p)
    BY <2>3 DEF Enter, Goes
  <2>4. CASE Woken(p)
    BY <2>4 DEF Woken, Goes, After
  <2>5. CASE Denied(p)
    BY <2>5 DEF Denied, Goes, Later
  <2>6. CASE NotDenied(p)
    BY <2>6 DEF NotDenied, Goes
  <2>7. CASE NotEquipped(p)
    BY <2>7 DEF NotEquipped, Goes
  <2>8. CASE Prepare(p)
    BY <2>8 DEF Prepare, Goes
  <2>9. CASE NotPrepared(p)
    BY <2>9 DEF NotPrepared, Goes
  <2>10. CASE Refuse(p)
    BY <2>10 DEF Refuse, Goes
  <2>11. CASE Swap(p)
    BY <2>11 DEF Swap, Goes
  <2>12. CASE Record(p)
    BY <2>12 DEF Record, Goes
  <2>13. CASE EndFlight(p)
    BY <2>13 DEF EndFlight, After
  <2>14. ASSUME NEW c \in Channels, Equip(p, c) PROVE Devices'
    BY <2>14 DEF Equip, Goes
  <2> QED
    BY <1>9, <2>1, <2>2, <2>3, <2>4, <2>5, <2>6, <2>7, <2>8, <2>9, <2>10, <2>11, <2>12, <2>13, <2>14 DEF Admit
<1>10. ASSUME NEW p \in Procs, BeginYield(p) \/ WaitCut(p) \/ Clone(p) \/ Yield(p) PROVE Devices'
  <2>1. CASE BeginYield(p)
    BY <2>1 DEF BeginYield, Goes
  <2>2. CASE WaitCut(p)
    BY <2>2 DEF WaitCut, Goes
  <2>3. CASE CloneResolve(p)
    BY <2>3 DEF CloneResolve, Goes
  <2>4. CASE CloneSpawn(p)
    BY <2>4 DEF CloneSpawn, Goes
  <2>5. CASE RevokeGrant(p)
    BY <2>5 DEF RevokeGrant, Goes
  <2>6. CASE ReleaseDevices(p)
    BY <2>6 DEF ReleaseDevices, Goes
  <2>7. CASE DropTemplate(p)
    BY <2>7 DEF DropTemplate, Goes
  <2> QED
    BY <1>10, <2>1, <2>2, <2>3, <2>4, <2>5, <2>6, <2>7 DEF Clone, Yield
<1>11. CASE UNCHANGED vars
    BY <1>11 DEF vars
<1> QED
    BY <1>1, <1>2, <1>3, <1>4, <1>5, <1>6, <1>7, <1>8, <1>9, <1>10, <1>11 DEF Next

(***************************************************************************)
(* Fixed fields.                                                           *)
(***************************************************************************)

\* What Admit compared before it prepared still holds when it records: the
\* held grant may have gone since, but no other admission has changed it.
Compared ==
    \A p \in Procs : pc[p] \in {"prepare", "swap", "record"} /\ held # NoToken
                        => tok[p].shape = held.shape

\* Only a Record changes the held grant to another, and then no other
\* admission is in flight.
LEMMA ComparedStep == TypeOK /\ Lanes /\ Compared /\ [Next]_vars => Compared'
<1> SUFFICES ASSUME TypeOK, Lanes, Compared, [Next]_vars PROVE Compared'
    OBVIOUS
<1> USE ConstAssumption DEF TypeOK, Lanes, Compared, ChangesFixedFields, Procs, Waiting, Flying, Leaving, grantVars, deviceVars
<1>1. ASSUME NEW t \in Tokens, Deliver(t) PROVE Compared'
    BY <1>1 DEF Deliver, Begins, Redeliver
<1>2. ASSUME NEW t \in Tokens, NEW p \in Callers, BeginClone(p, t) PROVE Compared'
    BY <1>2 DEF BeginClone, Begins, Signed
<1>3. CASE Remove
    BY <1>3 DEF Remove, Goes, Add, Later
<1>4. CASE RemoveWaits
    BY <1>4 DEF RemoveWaits, Goes
<1>5. CASE RemoveCut
    BY <1>5 DEF RemoveCut, Goes
<1>6. CASE Tick
    BY <1>6 DEF Tick
<1>7. CASE WarmGone
    BY <1>7 DEF WarmGone
<1>8. CASE Stop
    BY <1>8 DEF Stop
<1>9. ASSUME NEW p \in Procs, Admit(p) PROVE Compared'
  <2>1. CASE AdmitExpired(p)
    BY <2>1 DEF AdmitExpired, Goes
  <2>2. CASE AdmitLive(p)
    BY <2>2 DEF AdmitLive, Goes
  <2>3. CASE Enter(p)
    BY <2>3 DEF Enter, Goes
  <2>4. CASE Woken(p)
    BY <2>4 DEF Woken, Goes, After
  <2>5. CASE Denied(p)
    BY <2>5 DEF Denied, Goes, Later
  <2>6. CASE NotDenied(p)
    BY <2>6 DEF NotDenied, Goes
  <2>7. CASE NotEquipped(p)
    BY <2>7 DEF NotEquipped, Goes
  <2>8. CASE Prepare(p)
    BY <2>8 DEF Prepare, Goes
  <2>9. CASE NotPrepared(p)
    BY <2>9 DEF NotPrepared, Goes
  <2>10. CASE Refuse(p)
    BY <2>10 DEF Refuse, Goes
  <2>11. CASE Swap(p)
    BY <2>11 DEF Swap, Goes
  <2>12. CASE Record(p)
    BY <2>12 DEF Record, Goes
  <2>13. CASE EndFlight(p)
    BY <2>13 DEF EndFlight, After
  <2>14. ASSUME NEW c \in Channels, Equip(p, c) PROVE Compared'
    BY <2>14 DEF Equip, Goes
  <2> QED
    BY <1>9, <2>1, <2>2, <2>3, <2>4, <2>5, <2>6, <2>7, <2>8, <2>9, <2>10, <2>11, <2>12, <2>13, <2>14 DEF Admit
<1>10. ASSUME NEW p \in Procs, BeginYield(p) \/ WaitCut(p) \/ Clone(p) \/ Yield(p) PROVE Compared'
  <2>1. CASE BeginYield(p)
    BY <2>1 DEF BeginYield, Goes
  <2>2. CASE WaitCut(p)
    BY <2>2 DEF WaitCut, Goes
  <2>3. CASE CloneResolve(p)
    BY <2>3 DEF CloneResolve, Goes
  <2>4. CASE CloneSpawn(p)
    BY <2>4 DEF CloneSpawn, Goes
  <2>5. CASE RevokeGrant(p)
    BY <2>5 DEF RevokeGrant, Goes
  <2>6. CASE ReleaseDevices(p)
    BY <2>6 DEF ReleaseDevices, Goes
  <2>7. CASE DropTemplate(p)
    BY <2>7 DEF DropTemplate, Goes
  <2> QED
    BY <1>10, <2>1, <2>2, <2>3, <2>4, <2>5, <2>6, <2>7 DEF Clone, Yield
<1>11. CASE UNCHANGED vars
    BY <1>11 DEF vars
<1> QED
    BY <1>1, <1>2, <1>3, <1>4, <1>5, <1>6, <1>7, <1>8, <1>9, <1>10, <1>11 DEF Next

(***************************************************************************)
(* Removal.                                                                *)
(***************************************************************************)

\* Remove has denied the UID and the home has not delivered it since.
Gone == removed \/ pc[Home] \in Leaving

\* Remove is past its wait.
Waited == removed \/ pc[Home] \in {"yield", "give", "drop"}

\* Remove is past its Revoke.
Yielded == removed \/ pc[Home] \in {"give", "drop"}

\* No token outlasts what the issuer may have signed.
Leases ==
    /\ issued <= now
    /\ \A p \in Procs : tok[p] # NoToken => tok[p].lease <= issued + TTL
    /\ held # NoToken => held.lease <= issued + TTL

\* The denial outlasts every token that may be in a caller's hands; an
\* admission that passed its deny check before the denial is waited for, so
\* one that is past it later has a token that lapsed; and so has the grant
\* that such an admission records after the yield.
Removal ==
    /\ Gone => deny >= issued + TTL \/ now >= issued + TTL
    /\ ~stopping /\ Waited =>
         \A p \in Procs : pc[p] \in {"fixed", "prepare", "swap", "record"} => Expired(tok[p])
    /\ ~stopping /\ Yielded => held = NoToken \/ Expired(held)

\* The issuer signs for TTL at most, and time does not go back.
LEMMA LeasesStep == TypeOK /\ Lanes /\ Leases /\ [Next]_vars => Leases'
<1> SUFFICES ASSUME TypeOK, Lanes, Leases, [Next]_vars PROVE Leases'
    OBVIOUS
<1> USE ConstAssumption DEF TypeOK, Lanes, Leases, Procs, Waiting, Flying, Leaving, grantVars, deviceVars
<1>1. ASSUME NEW t \in Tokens, Deliver(t) PROVE Leases'
    BY <1>1 DEF Deliver, Begins, Redeliver
<1>2. ASSUME NEW t \in Tokens, NEW p \in Callers, BeginClone(p, t) PROVE Leases'
    BY <1>2 DEF BeginClone, Begins, Signed
<1>3. CASE Remove
    BY <1>3 DEF Remove, Goes, Add, Later
<1>4. CASE RemoveWaits
    BY <1>4 DEF RemoveWaits, Goes
<1>5. CASE RemoveCut
    BY <1>5 DEF RemoveCut, Goes
<1>6. CASE Tick
    BY <1>6 DEF Tick
<1>7. CASE WarmGone
    BY <1>7 DEF WarmGone
<1>8. CASE Stop
    BY <1>8 DEF Stop
<1>9. ASSUME NEW p \in Procs, Admit(p) PROVE Leases'
  <2>1. CASE AdmitExpired(p)
    BY <2>1 DEF AdmitExpired, Goes
  <2>2. CASE AdmitLive(p)
    BY <2>2 DEF AdmitLive, Goes
  <2>3. CASE Enter(p)
    BY <2>3 DEF Enter, Goes
  <2>4. CASE Woken(p)
    BY <2>4 DEF Woken, Goes, After
  <2>5. CASE Denied(p)
    BY <2>5 DEF Denied, Goes, Later
  <2>6. CASE NotDenied(p)
    BY <2>6 DEF NotDenied, Goes
  <2>7. CASE NotEquipped(p)
    BY <2>7 DEF NotEquipped, Goes
  <2>8. CASE Prepare(p)
    BY <2>8 DEF Prepare, Goes
  <2>9. CASE NotPrepared(p)
    BY <2>9 DEF NotPrepared, Goes
  <2>10. CASE Refuse(p)
    BY <2>10 DEF Refuse, Goes
  <2>11. CASE Swap(p)
    BY <2>11 DEF Swap, Goes
  <2>12. CASE Record(p)
    BY <2>12 DEF Record, Goes
  <2>13. CASE EndFlight(p)
    BY <2>13 DEF EndFlight, After
  <2>14. ASSUME NEW c \in Channels, Equip(p, c) PROVE Leases'
    BY <2>14 DEF Equip, Goes
  <2> QED
    BY <1>9, <2>1, <2>2, <2>3, <2>4, <2>5, <2>6, <2>7, <2>8, <2>9, <2>10, <2>11, <2>12, <2>13, <2>14 DEF Admit
<1>10. ASSUME NEW p \in Procs, BeginYield(p) \/ WaitCut(p) \/ Clone(p) \/ Yield(p) PROVE Leases'
  <2>1. CASE BeginYield(p)
    BY <2>1 DEF BeginYield, Goes
  <2>2. CASE WaitCut(p)
    BY <2>2 DEF WaitCut, Goes
  <2>3. CASE CloneResolve(p)
    BY <2>3 DEF CloneResolve, Goes
  <2>4. CASE CloneSpawn(p)
    BY <2>4 DEF CloneSpawn, Goes
  <2>5. CASE RevokeGrant(p)
    BY <2>5 DEF RevokeGrant, Goes
  <2>6. CASE ReleaseDevices(p)
    BY <2>6 DEF ReleaseDevices, Goes
  <2>7. CASE DropTemplate(p)
    BY <2>7 DEF DropTemplate, Goes
  <2> QED
    BY <1>10, <2>1, <2>2, <2>3, <2>4, <2>5, <2>6, <2>7 DEF Clone, Yield
<1>11. CASE UNCHANGED vars
    BY <1>11 DEF vars
<1> QED
    BY <1>1, <1>2, <1>3, <1>4, <1>5, <1>6, <1>7, <1>8, <1>9, <1>10, <1>11 DEF Next

\* Remove's denial, its wait and its yield, in this order, against the slot
\* and the deny check of Admit.
LEMMA RemovalStep == TypeOK /\ Lanes /\ Leases /\ Removal /\ [Next]_vars => Removal'
<1> SUFFICES ASSUME TypeOK, Lanes, Leases, Removal, [Next]_vars PROVE Removal'
    OBVIOUS
<1> USE ConstAssumption DEF TypeOK, Lanes, Leases, Removal, Gone, Waited, Yielded, Expired, Procs, Waiting, Flying, Leaving, grantVars, deviceVars
<1>1. ASSUME NEW t \in Tokens, Deliver(t) PROVE Removal'
    BY <1>1 DEF Deliver, Begins, Redeliver
<1>2. ASSUME NEW t \in Tokens, NEW p \in Callers, BeginClone(p, t) PROVE Removal'
    BY <1>2 DEF BeginClone, Begins, Signed
<1>3. CASE Remove
    BY <1>3 DEF Remove, Goes, Add, Later
<1>4. CASE RemoveWaits
    BY <1>4 DEF RemoveWaits, Goes
<1>5. CASE RemoveCut
    BY <1>5 DEF RemoveCut, Goes
<1>6. CASE Tick
    BY <1>6 DEF Tick
<1>7. CASE WarmGone
    BY <1>7 DEF WarmGone
<1>8. CASE Stop
    BY <1>8 DEF Stop
<1>9. ASSUME NEW p \in Procs, Admit(p) PROVE Removal'
  <2>1. CASE AdmitExpired(p)
    BY <2>1 DEF AdmitExpired, Goes
  <2>2. CASE AdmitLive(p)
    BY <2>2 DEF AdmitLive, Goes
  <2>3. CASE Enter(p)
    BY <2>3 DEF Enter, Goes
  <2>4. CASE Woken(p)
    BY <2>4 DEF Woken, Goes, After
  <2>5. CASE Denied(p)
    BY <2>5 DEF Denied, Goes, Later
  <2>6. CASE NotDenied(p)
    BY <2>6 DEF NotDenied, Goes
  <2>7. CASE NotEquipped(p)
    BY <2>7 DEF NotEquipped, Goes
  <2>8. CASE Prepare(p)
    BY <2>8 DEF Prepare, Goes
  <2>9. CASE NotPrepared(p)
    BY <2>9 DEF NotPrepared, Goes
  <2>10. CASE Refuse(p)
    BY <2>10 DEF Refuse, Goes
  <2>11. CASE Swap(p)
    BY <2>11 DEF Swap, Goes
  <2>12. CASE Record(p)
    BY <2>12 DEF Record, Goes
  <2>13. CASE EndFlight(p)
    BY <2>13 DEF EndFlight, After
  <2>14. ASSUME NEW c \in Channels, Equip(p, c) PROVE Removal'
    BY <2>14 DEF Equip, Goes
  <2> QED
    BY <1>9, <2>1, <2>2, <2>3, <2>4, <2>5, <2>6, <2>7, <2>8, <2>9, <2>10, <2>11, <2>12, <2>13, <2>14 DEF Admit
<1>10. ASSUME NEW p \in Procs, BeginYield(p) \/ WaitCut(p) \/ Clone(p) \/ Yield(p) PROVE Removal'
  <2>1. CASE BeginYield(p)
    BY <2>1 DEF BeginYield, Goes
  <2>2. CASE WaitCut(p)
    BY <2>2 DEF WaitCut, Goes
  <2>3. CASE CloneResolve(p)
    BY <2>3 DEF CloneResolve, Goes
  <2>4. CASE CloneSpawn(p)
    BY <2>4 DEF CloneSpawn, Goes
  <2>5. CASE RevokeGrant(p)
    BY <2>5 DEF RevokeGrant, Goes
  <2>6. CASE ReleaseDevices(p)
    BY <2>6 DEF ReleaseDevices, Goes
  <2>7. CASE DropTemplate(p)
    BY <2>7 DEF DropTemplate, Goes
  <2> QED
    BY <1>10, <2>1, <2>2, <2>3, <2>4, <2>5, <2>6, <2>7 DEF Clone, Yield
<1>11. CASE UNCHANGED vars
    BY <1>11 DEF vars
<1> QED
    BY <1>1, <1>2, <1>3, <1>4, <1>5, <1>6, <1>7, <1>8, <1>9, <1>10, <1>11 DEF Next

(***************************************************************************)
(* Theorems.                                                               *)
(***************************************************************************)

\* The inductive invariant of Admission.
IInv == TypeOK /\ Lanes /\ Devices /\ Compared /\ Leases /\ Removal

\* Every behaviour of Admission keeps the inductive invariant.
THEOREM AdmissionInvariant == Spec => []IInv
<1>1. Init => IInv
  <2> SUFFICES ASSUME Init PROVE IInv
    OBVIOUS
  <2> USE ConstAssumption DEF Init
  <2>1. TypeOK
    BY DEF TypeOK, Waiting, Flying
  <2>2. Lanes
    BY DEF Lanes, Procs, Flying, Leaving
  <2>3. Devices
    BY DEF Devices, ChannelsExact, Equipped
  <2>4. Compared /\ Leases /\ Removal
    BY DEF Compared, Leases, Removal, Gone, Waited, Yielded, Leaving, Procs
  <2> QED
    BY <2>1, <2>2, <2>3, <2>4 DEF IInv
<1>2. IInv /\ [Next]_vars => IInv'
    BY TypeStep, LanesStep, DevicesStep, ComparedStep, LeasesStep, RemovalStep DEF IInv
<1> QED
    BY <1>1, <1>2, PTL DEF Spec

\* Once Remove has returned, no token a caller still holds brings the grant
\* back before the home delivers it again, however Remove, the admissions and
\* the yields interleave and whatever the leases.
THEOREM AdmissionRemovedStaysOut == Spec => []RemovedStaysOut
<1>1. IInv => RemovedStaysOut
    BY DEF IInv, Removal, Yielded, RemovedStaysOut
<1> QED
    BY <1>1, AdmissionInvariant, PTL

\* Every provisioned channel is the grant's or one admission's, and is
\* released once.
THEOREM AdmissionChannelsExact == Spec => []ChannelsExact
<1>1. IInv => ChannelsExact
    BY DEF IInv, Devices
<1> QED
    BY <1>1, AdmissionInvariant, PTL

\* With no admission in flight the runtime has the channel the grant holds,
\* also after a refused refresh.
THEOREM AdmissionRuntimeHasChannel == Spec => []RuntimeHasChannel
<1>1. IInv => RuntimeHasChannel
    BY ConstAssumption DEF IInv, Devices, Equipped, TypeOK, Lanes, Flying, RuntimeHasChannel
<1> QED
    BY <1>1, AdmissionInvariant, PTL

\* An admitted grant keeps its fixed fields through every re-delivery: what
\* Admit compared under its slot is what its Record replaces.
THEOREM AdmissionFixedStays == Spec => FixedStays
<1>1. IInv /\ [Next]_vars => [held # NoToken /\ held' # NoToken => held'.shape = held.shape]_vars
  <2> SUFFICES ASSUME IInv, Next, held # NoToken, held' # NoToken
               PROVE  held'.shape = held.shape
    BY DEF vars, grantVars
  <2>1. CASE \E p \in Procs : Record(p)
    BY <2>1 DEF Record, Goes, IInv, Compared
  <2>2. CASE \E p \in Procs : RevokeGrant(p)
    BY <2>2 DEF RevokeGrant
  <2>3. CASE held' = held
    BY <2>3
  <2> QED
    BY <2>1, <2>2, <2>3 DEF Next, Deliver, BeginClone, Remove, RemoveWaits, RemoveCut, Tick, WarmGone,
        Stop, BeginYield, WaitCut, Clone, CloneResolve, CloneSpawn, Yield, ReleaseDevices, DropTemplate,
        Admit, AdmitExpired, AdmitLive, Enter, Woken, Denied, NotDenied, NotEquipped, Equip, Prepare,
        NotPrepared, Refuse, Swap, EndFlight, grantVars
<1> QED
    BY <1>1, AdmissionInvariant, PTL DEF Spec, FixedStays
==============================================================================
