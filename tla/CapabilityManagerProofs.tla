----------------------- MODULE CapabilityManagerProofs -----------------------
(***************************************************************************)
(* Proofs about CapabilityManager, for any number of Reloads, leases,      *)
(* calls, revocations and Close calls: its type invariant, its safety      *)
(* properties, and that it implements CapabilityFence.                     *)
(*                                                                         *)
(* The heart is RefsCount: the counter of a generation is the number of    *)
(* leases and calls inside it.  With it, a started cleanup means that      *)
(* nobody is inside, and since only the current generation lets new leases *)
(* in and only a lease that is held lets calls in, nobody will be.         *)
(***************************************************************************)
EXTENDS CapabilityManager, FiniteSetTheorems, TLAPS

InGate == {"gated", "awaiting", "clear", "building", "discarding", "finishing", "leaving"}

\* The gate serializes the Reloads, and a candidate is built alone.
GateInv ==
    \A r \in Reloads :
        /\ gate = r <=> at[r] \in InGate
        /\ building = r <=> at[r] \in {"building", "discarding", "finishing"}
        /\ at[r] \in {"clear", "building", "discarding"} => retiring = None

\* Epochs and revisions are those of the past.
EpochInv ==
    \A r \in Reloads :
        /\ ep[r] <= epoch
        /\ at[r] \notin {"new", "ended"} => rev[r] > 0

Published(g) == g = current \/ g \in retired

\* A generation is published once, then retired, then cleaned up.
PublishedInv ==
    \A g \in Reloads :
        /\ Published(g) => at[g] \in {"finishing", "leaving", "ended"} /\ rev[g] > 0
        /\ g \in retired => g # current
        /\ g = retiring \/ g \in closing => g \in retired
        /\ g \in retired => g \in closing \cup done \/ (g = retiring /\ ~closed)

CleanupInv ==
    \A g \in Reloads :
        /\ cleanups[g] <= 1
        /\ cleanups[g] > 0 => g \in retired /\ refs[g] = 0
        /\ g \in done => scope[g] = "closed"

\* The resources of a generation are open from its build to its cleanup.
ScopeInv ==
    \A g \in Reloads :
        /\ scope[g] = "open" => Published(g) \/ at[g] \in {"building", "discarding"}
        /\ at[g] \in {"building", "discarding"} => scope[g] = "open"
        /\ at[g] \in {"new", "gating", "gated", "awaiting", "clear"} => scope[g] = "none"
        /\ Published(g) /\ scope[g] # "open" => cleanups[g] > 0

UserInv ==
    /\ \A l \in Leases : lease[l] # "none" => leaseGen[l] \in Reloads /\ Published(leaseGen[l])
    /\ \A c \in Calls : InCall(c) => parent[c] \in Leases /\ lease[parent[c]] # "none"

Inside(g) == {u \in Leases \cup Calls : Holds(u, g)}

RefsCount == \A g \in Reloads : refs[g] = Cardinality(Inside(g))

ClosedInv ==
    /\ closed => current = None
    /\ ~closed => closing = {}
    /\ \A k \in Closers : close[k] # "none" =>
         /\ closed
         /\ \A g \in Reloads : scope[g] = "open" => g \in awaits[k]
         /\ close[k] = "returned" => Drained(k)

OpenScopes == {g \in Reloads : scope[g] = "open"}

FewOwners == \E x, y \in Reloads \cup {None} : OpenScopes \subseteq {x, y}

LifeInv == GateInv /\ EpochInv /\ PublishedInv /\ CleanupInv /\ ScopeInv

ManagerInv == TypeOK /\ LifeInv /\ UserInv /\ RefsCount /\ ClosedInv /\ FewOwners

-----------------------------------------------------------------------------
(* Counting references *)

\* A generation has finitely many users.
LEMMA InsideFinite == \A g \in Reloads : IsFiniteSet(Inside(g))
  BY ManagerAssumption, FS_Union, FS_Subset DEF Inside

\* Whoever is inside is counted.
LEMMA InsideCounted ==
    ASSUME TypeOK, RefsCount, NEW g \in Reloads, NEW u \in Inside(g)
    PROVE  refs[g] \in Nat /\ refs[g] > 0
<1>1. Cardinality(Inside(g)) # 0
  BY InsideFinite, FS_EmptySet
<1>2. refs[g] = Cardinality(Inside(g)) /\ refs[g] \in Nat
  BY DEF RefsCount, TypeOK, GenTypeOK
<1>3. QED
  BY <1>1, <1>2

\* Nobody is inside at the start.
LEMMA CountInit == Init => RefsCount
<1>1. ASSUME Init, NEW g \in Reloads PROVE Inside(g) = {}
  BY <1>1 DEF Init, Inside, Holds, InCall
<1>2. QED
  BY <1>1, FS_EmptySet DEF Init, RefsCount

\* One more user, or one less.
LEMMA CountChanges ==
    ASSUME RefsCount, TypeOK, NEW g \in Reloads, NEW u
    PROVE  /\ Inside(g)' = Inside(g) /\ refs'[g] = refs[g] => refs'[g] = Cardinality(Inside(g)')
           /\ u \notin Inside(g) /\ Inside(g)' = Inside(g) \cup {u} /\ refs'[g] = refs[g] + 1
              => refs'[g] = Cardinality(Inside(g)')
           /\ u \in Inside(g) /\ Inside(g)' = Inside(g) \ {u} /\ refs'[g] = refs[g] - 1
              => refs'[g] = Cardinality(Inside(g)')
  BY InsideFinite, FS_AddElement, FS_RemoveElement DEF RefsCount

\* Every step keeps the count: Acquire and BeginCall add themselves, a release
\* takes itself away, and nothing else moves a counter or a user.
LEMMA CountStep == TypeOK /\ UserInv /\ RefsCount /\ Next => RefsCount'
<1> SUFFICES ASSUME TypeOK, UserInv, RefsCount, Next, NEW g \in Reloads
             PROVE  refs'[g] = Cardinality(Inside(g)')
  BY DEF RefsCount, Inside, Holds, InCall
<1> USE DEF TypeOK, OwnerTypeOK, ReloadTypeOK, GenTypeOK, UserTypeOK
<1>1. ASSUME UNCHANGED <<refs, userVars>> PROVE refs'[g] = Cardinality(Inside(g)')
  <2>1. Inside(g)' = Inside(g) /\ refs'[g] = refs[g]
    BY <1>1 DEF Inside, Holds, InCall, userVars
  <2>2. QED
    BY <2>1, CountChanges
<1>2. ASSUME NEW l \in Leases, Acquire(l) PROVE refs'[g] = Cardinality(Inside(g)')
  <2>1. l \notin Inside(g)
    BY <1>2, ManagerAssumption DEF Acquire, Inside, Holds
  <2>2. \A c \in Calls : InCall(c) => parent[c] # l
    BY <1>2 DEF Acquire, UserInv
  <2>3. \A u \in Leases \cup Calls : Holds(u, g)' <=> Holds(u, g) \/ (u = l /\ g = current)
    BY <1>2, <2>2, ManagerAssumption DEF Acquire, Holds, InCall, UserInv
  <2>4. CASE g = current
    <3>1. Inside(g)' = Inside(g) \cup {l}
      BY <2>3, <2>4 DEF Inside
    <3>2. refs'[g] = refs[g] + 1
      BY <1>2, <2>4 DEF Acquire
    <3>3. QED
      BY <2>1, <3>1, <3>2, CountChanges
  <2>5. CASE g # current
    <3>1. Inside(g)' = Inside(g) /\ refs'[g] = refs[g]
      BY <1>2, <2>3, <2>5 DEF Acquire, Inside
    <3>2. QED
      BY <3>1, CountChanges
  <2>6. QED
    BY <2>4, <2>5
<1>3. ASSUME NEW c \in Calls, NEW l \in Leases, BeginCall(c, l) PROVE refs'[g] = Cardinality(Inside(g)')
  <2>1. c \notin Inside(g)
    BY <1>3, ManagerAssumption DEF BeginCall, Inside, Holds, InCall
  <2>2. \A u \in Leases \cup Calls : Holds(u, g)' <=> Holds(u, g) \/ (u = c /\ g = leaseGen[l])
    BY <1>3, ManagerAssumption DEF BeginCall, Holds, InCall
  <2>3. CASE g = leaseGen[l]
    <3>1. Inside(g)' = Inside(g) \cup {c}
      BY <2>2, <2>3 DEF Inside
    <3>2. refs'[g] = refs[g] + 1
      BY <1>3, <2>3 DEF BeginCall
    <3>3. QED
      BY <2>1, <3>1, <3>2, CountChanges
  <2>4. CASE g # leaseGen[l]
    <3>1. Inside(g)' = Inside(g) /\ refs'[g] = refs[g]
      BY <1>3, <2>2, <2>4 DEF BeginCall, Inside
    <3>2. QED
      BY <3>1, CountChanges
  <2>5. QED
    BY <2>3, <2>4
<1>4. ASSUME NEW u \in Leases \cup Calls, NEW h, Holds(u, h), releaseLocked(h),
             \A v \in Leases \cup Calls : Holds(v, g)' <=> Holds(v, g) /\ v # u
      PROVE  refs'[g] = Cardinality(Inside(g)')
  <2>1. u \in Inside(g) <=> g = h
    BY <1>4, ManagerAssumption DEF Inside, Holds
  <2>2. CASE g = h
    <3>1. Inside(g)' = Inside(g) \ {u}
      BY <1>4 DEF Inside
    <3>2. refs'[g] = refs[g] - 1
      BY <1>4, <2>2 DEF releaseLocked
    <3>3. QED
      BY <2>1, <2>2, <3>1, <3>2, CountChanges
  <2>3. CASE g # h
    <3>1. Inside(g)' = Inside(g) /\ refs'[g] = refs[g]
      BY <1>4, <2>1, <2>3 DEF Inside, releaseLocked
    <3>2. QED
      BY <3>1, CountChanges
  <2>4. QED
    BY <2>2, <2>3
<1>5. ASSUME NEW l \in Leases, ReleaseLease(l) PROVE refs'[g] = Cardinality(Inside(g)')
  <2>1. Holds(l, leaseGen[l])
    BY <1>5 DEF ReleaseLease, Holds
  <2>2. \A v \in Leases \cup Calls : Holds(v, g)' <=> Holds(v, g) /\ v # l
    BY <1>5, ManagerAssumption DEF ReleaseLease, Holds, InCall
  <2>3. QED
    BY <1>4, <1>5, <2>1, <2>2 DEF ReleaseLease
<1>6. ASSUME NEW c \in Calls, ReleaseCall(c) PROVE refs'[g] = Cardinality(Inside(g)')
  <2>1. Holds(c, leaseGen[parent[c]])
    BY <1>6 DEF ReleaseCall, Holds
  <2>2. \A v \in Leases \cup Calls : Holds(v, g)' <=> Holds(v, g) /\ v # c
    BY <1>6, ManagerAssumption DEF ReleaseCall, Holds, InCall
  <2>3. QED
    BY <1>4, <1>6, <2>1, <2>2 DEF ReleaseCall
<1>7. ASSUME NEW c \in Calls, Complete(c) PROVE refs'[g] = Cardinality(Inside(g)')
  <2>1. \A v \in Leases \cup Calls : Holds(v, g)' <=> Holds(v, g)
    BY <1>7, ManagerAssumption DEF Complete, Holds, InCall
  <2>2. Inside(g)' = Inside(g) /\ refs'[g] = refs[g]
    BY <1>7, <2>1 DEF Complete, Inside, genVars
  <2>3. QED
    BY <2>2, CountChanges
<1>8. ASSUME NEW r \in Reloads, Reload(r) \/ ReloadStep(r) \/ ReloadCanceled(r) \/ CleanupStep(r)
      PROVE  UNCHANGED <<refs, userVars>>
  BY <1>8 DEF Reload, ReloadStep, TakeGate, CheckRetiring, RetiringDone, ReloadCanceled, BeginBuild,
              Publish, Discard, CloseCandidate, EndBuild, ReturnGate, CleanupStep, CloseScope,
              CleanupEnds, genVars
<1>9. ASSUME Revoke \/ \E k \in Closers : Close(k) \/ CloseReturns(k) \/ CloseGivesUp(k)
      PROVE  UNCHANGED <<refs, userVars>>
  BY <1>9 DEF Revoke, Close, CloseReturns, CloseGivesUp, genVars
<1>10. QED
  BY <1>1, <1>2, <1>3, <1>5, <1>6, <1>7, <1>8, <1>9 DEF Next

-----------------------------------------------------------------------------
(* Types *)

\* A group of variables that a step leaves alone keeps its types.
LEMMA TypeFrame ==
    /\ ControlTypeOK /\ UNCHANGED controlVars => ControlTypeOK'
    /\ OwnerTypeOK /\ UNCHANGED ownerVars => OwnerTypeOK'
    /\ ReloadTypeOK /\ UNCHANGED reloadVars => ReloadTypeOK'
    /\ GenTypeOK /\ UNCHANGED genVars => GenTypeOK'
    /\ UserTypeOK /\ UNCHANGED userVars => UserTypeOK'
    /\ CloseTypeOK /\ UNCHANGED closeVars => CloseTypeOK'
<1> USE DEF controlVars, ownerVars, reloadVars, genVars, userVars, closeVars
<1>1. ControlTypeOK /\ UNCHANGED controlVars => ControlTypeOK'
  BY DEF ControlTypeOK
<1>2. OwnerTypeOK /\ UNCHANGED ownerVars => OwnerTypeOK'
  BY DEF OwnerTypeOK
<1>3. ReloadTypeOK /\ UNCHANGED reloadVars => ReloadTypeOK'
  BY DEF ReloadTypeOK
<1>4. GenTypeOK /\ UNCHANGED genVars => GenTypeOK'
  BY DEF GenTypeOK
<1>5. UserTypeOK /\ UNCHANGED userVars => UserTypeOK'
  BY DEF UserTypeOK
<1>6. CloseTypeOK /\ UNCHANGED closeVars => CloseTypeOK'
  BY DEF CloseTypeOK
<1>7. QED
  BY <1>1, <1>2, <1>3, <1>4, <1>5, <1>6

\* Every step keeps the types; that a counter stays natural needs the count.
LEMMA TypeStep == TypeOK /\ UserInv /\ RefsCount /\ Next => TypeOK'
<1> SUFFICES ASSUME TypeOK, UserInv, RefsCount, Next
             PROVE  TypeOK'
  OBVIOUS
<1> USE TypeFrame DEF TypeOK, GoTo
<1>1. ASSUME NEW r \in Reloads, Reload(r) PROVE TypeOK'
  BY <1>1 DEF Reload, ReloadTypeOK, ReloadStates, ControlTypeOK
<1>2. ASSUME NEW r \in Reloads,
             \/ TakeGate(r) \/ CheckRetiring(r) \/ RetiringDone(r) \/ ReloadCanceled(r)
             \/ Discard(r) \/ EndBuild(r) \/ ReturnGate(r)
      PROVE  TypeOK'
  <2>1. ReloadTypeOK'
    BY <1>2 DEF TakeGate, CheckRetiring, RetiringDone, ReloadCanceled, Discard, EndBuild, ReturnGate,
                ReloadTypeOK, ReloadStates
  <2>2. QED
    BY <1>2, <2>1 DEF TakeGate, CheckRetiring, RetiringDone, ReloadCanceled, Discard, EndBuild, ReturnGate
<1>3. ASSUME NEW r \in Reloads, BeginBuild(r) PROVE TypeOK'
  BY <1>3 DEF BeginBuild, ReloadTypeOK, ReloadStates, GenTypeOK
<1>4. ASSUME NEW r \in Reloads, CloseCandidate(r) PROVE TypeOK'
  BY <1>4 DEF CloseCandidate, ReloadTypeOK, ReloadStates, GenTypeOK, ControlTypeOK
<1>5. ASSUME NEW S, StartCleanup(S) PROVE cleanups' \in [Reloads -> Nat]
  BY <1>5 DEF StartCleanup, GenTypeOK
<1>6. ASSUME NEW r \in Reloads, Publish(r) PROVE TypeOK'
  <2>1. ReloadTypeOK' /\ OwnerTypeOK'
    BY <1>6 DEF Publish, ReloadTypeOK, ReloadStates, OwnerTypeOK
  <2>2. GenTypeOK'
    BY <1>5, <1>6 DEF Publish, GenTypeOK, OwnerTypeOK
  <2>3. QED
    BY <1>6, <2>1, <2>2 DEF Publish
<1>7. ASSUME NEW l \in Leases, Acquire(l) PROVE TypeOK'
  <2>1. UserTypeOK' /\ GenTypeOK'
    BY <1>7 DEF Acquire, UserTypeOK, GenTypeOK, OwnerTypeOK
  <2>2. QED
    BY <1>7, <2>1 DEF Acquire
<1>8. ASSUME NEW u \in Leases \cup Calls, NEW g \in Reloads, Holds(u, g), releaseLocked(g),
             UNCHANGED <<retired, scope, done>>
      PROVE  GenTypeOK'
  <2>1. refs[g] \in Nat /\ refs[g] > 0
    BY <1>8, InsideCounted DEF Inside
  <2>2. QED
    BY <1>5, <1>8, <2>1 DEF releaseLocked, GenTypeOK
<1>9. ASSUME NEW l \in Leases, ReleaseLease(l) PROVE TypeOK'
  <2>1. GenTypeOK'
    BY <1>8, <1>9 DEF ReleaseLease, Holds, UserInv
  <2>2. QED
    BY <1>9, <2>1 DEF ReleaseLease, UserTypeOK
<1>10. ASSUME NEW c \in Calls, ReleaseCall(c) PROVE TypeOK'
  <2>1. GenTypeOK'
    BY <1>8, <1>10 DEF ReleaseCall, Holds, UserInv
  <2>2. QED
    BY <1>10, <2>1 DEF ReleaseCall, UserTypeOK
<1>11. ASSUME NEW c \in Calls, NEW l \in Leases, BeginCall(c, l) PROVE TypeOK'
  <2>1. leaseGen[l] \in Reloads
    BY <1>11 DEF BeginCall, UserInv
  <2>2. UserTypeOK' /\ GenTypeOK'
    BY <1>11, <2>1 DEF BeginCall, UserTypeOK, GenTypeOK
  <2>3. QED
    BY <1>11, <2>2 DEF BeginCall
<1>12. ASSUME NEW c \in Calls, Complete(c) PROVE TypeOK'
  BY <1>12 DEF Complete, UserTypeOK
<1>13. ASSUME NEW k \in Closers, Close(k) PROVE TypeOK'
  <2>1. Owned \subseteq Reloads /\ OwnedOrBuilding \subseteq Reloads
    BY DEF Owned, OwnedOrBuilding, NonNil, OwnerTypeOK, ReloadTypeOK
  <2>2. ControlTypeOK' /\ OwnerTypeOK'
    BY <1>13, <2>1 DEF Close, ControlTypeOK, OwnerTypeOK
  <2>3. GenTypeOK'
    BY <1>5, <1>13 DEF Close, GenTypeOK, NonNil, OwnerTypeOK
  <2>4. CloseTypeOK'
    BY <1>13, <2>1 DEF Close, CloseTypeOK
  <2>5. QED
    BY <1>13, <2>2, <2>3, <2>4 DEF Close
<1>14. ASSUME NEW k \in Closers, CloseReturns(k) \/ CloseGivesUp(k) PROVE TypeOK'
  BY <1>14 DEF CloseReturns, CloseGivesUp, CloseTypeOK
<1>15. ASSUME NEW g \in Reloads, CleanupStep(g) PROVE TypeOK'
  <2>1. GenTypeOK' /\ ControlTypeOK' /\ OwnerTypeOK'
    BY <1>15 DEF CleanupStep, CloseScope, CleanupEnds, GenTypeOK, ControlTypeOK, OwnerTypeOK,
                 controlVars, ownerVars
  <2>2. QED
    BY <1>15, <2>1 DEF CleanupStep, CloseScope, CleanupEnds
<1>16. ASSUME Revoke PROVE TypeOK'
  BY <1>16 DEF Revoke, ControlTypeOK
<1>17. QED
  BY <1>1, <1>2, <1>3, <1>4, <1>6, <1>7, <1>9, <1>10, <1>11, <1>12, <1>13, <1>14, <1>15, <1>16
     DEF Next, ReloadStep

-----------------------------------------------------------------------------
(* The invariant *)

\* The gate serializes the Reloads.
LEMMA GateStep == TypeOK /\ GateInv /\ Next => GateInv'
<1> SUFFICES ASSUME TypeOK, GateInv, Next PROVE GateInv'
  OBVIOUS
<1> USE ManagerAssumption DEF TypeOK, GateInv, InGate, GoTo, ReloadTypeOK, ReloadStates
<1>1. ASSUME NEW r \in Reloads,
             \/ Reload(r) \/ TakeGate(r) \/ CheckRetiring(r) \/ RetiringDone(r) \/ ReloadCanceled(r)
      PROVE  GateInv'
  BY <1>1 DEF Reload, TakeGate, CheckRetiring, RetiringDone, ReloadCanceled, ownerVars
<1>2. ASSUME NEW r \in Reloads, BeginBuild(r) \/ Discard(r) \/ CloseCandidate(r) PROVE GateInv'
  BY <1>2 DEF BeginBuild, Discard, CloseCandidate, ownerVars
<1>3. ASSUME NEW r \in Reloads, EndBuild(r) \/ ReturnGate(r) PROVE GateInv'
  BY <1>3 DEF EndBuild, ReturnGate, ownerVars
<1>4. ASSUME NEW r \in Reloads, Publish(r) PROVE GateInv'
  BY <1>4 DEF Publish
<1>5. ASSUME UNCHANGED reloadVars, retiring' \in {retiring, None} PROVE GateInv'
  BY <1>5 DEF reloadVars
<1>6. ASSUME ~ \E r \in Reloads : Reload(r) \/ ReloadStep(r) \/ ReloadCanceled(r)
      PROVE  UNCHANGED reloadVars /\ retiring' \in {retiring, None}
  BY <1>6 DEF Next, Acquire, ReleaseLease, BeginCall, Complete, ReleaseCall, Close, CloseReturns,
              CloseGivesUp, Revoke, CleanupStep, CloseScope, CleanupEnds, ownerVars
<1>7. QED
  BY <1>1, <1>2, <1>3, <1>4, <1>5, <1>6 DEF ReloadStep

\* Epochs and revisions are those of the past.
LEMMA EpochStep == TypeOK /\ EpochInv /\ Next => EpochInv'
<1> SUFFICES ASSUME TypeOK, EpochInv, Next PROVE EpochInv'
  OBVIOUS
<1> USE DEF TypeOK, EpochInv, GoTo, ReloadTypeOK, ControlTypeOK
<1>1. ASSUME NEW r \in Reloads, Reload(r) PROVE EpochInv'
  BY <1>1 DEF Reload
<1>2. ASSUME NEW r \in Reloads, ReloadStep(r) \/ ReloadCanceled(r)
      PROVE  UNCHANGED <<epoch, rev, ep>> /\ at[r] \notin {"new", "ended"}
             /\ \E state : at' = [at EXCEPT ![r] = state]
  BY <1>2 DEF ReloadStep, ReloadCanceled, TakeGate, CheckRetiring, RetiringDone, BeginBuild, Publish,
              Discard, CloseCandidate, EndBuild, ReturnGate, controlVars
<1>3. ASSUME ~ \E r \in Reloads : Reload(r) \/ ReloadStep(r) \/ ReloadCanceled(r)
      PROVE  UNCHANGED <<at, rev, ep>> /\ epoch' \in {epoch, epoch + 1}
  BY <1>3 DEF Next, Acquire, ReleaseLease, BeginCall, Complete, ReleaseCall, Close, CloseReturns,
              CloseGivesUp, Revoke, CleanupStep, CloseScope, CleanupEnds, controlVars, reloadVars
<1>4. QED
  BY <1>1, <1>2, <1>3

\* A generation is published once, then retired, then cleaned up.
LEMMA PublishedStep == TypeOK /\ LifeInv /\ Next => PublishedInv'
<1> SUFFICES ASSUME TypeOK, LifeInv, Next PROVE PublishedInv'
  OBVIOUS
<1> USE ManagerAssumption
    DEF TypeOK, LifeInv, PublishedInv, Published, GoTo, ReloadTypeOK, ReloadStates, OwnerTypeOK
<1>1. ASSUME NEW r \in Reloads, Reload(r) PROVE PublishedInv'
  BY <1>1 DEF Reload, controlVars, ownerVars, genVars
<1>2. ASSUME NEW r \in Reloads, ReloadStep(r) \/ ReloadCanceled(r), ~Publish(r) PROVE PublishedInv'
  <2>1. UNCHANGED <<rev, closed, ownerVars, retired, done>>
    BY <1>2 DEF ReloadStep, ReloadCanceled, TakeGate, CheckRetiring, RetiringDone, BeginBuild,
                Discard, CloseCandidate, EndBuild, ReturnGate, controlVars, genVars
  <2>2. \A g \in Reloads : at[g] \in {"finishing", "leaving", "ended"} =>
                             at'[g] \in {"finishing", "leaving", "ended"}
    BY <1>2 DEF ReloadStep, ReloadCanceled, TakeGate, CheckRetiring, RetiringDone, BeginBuild,
                Discard, CloseCandidate, EndBuild, ReturnGate
  <2>3. QED
    BY <2>1, <2>2 DEF ownerVars
<1>3. ASSUME NEW r \in Reloads, Publish(r) PROVE PublishedInv'
  <2>1. /\ at[r] = "building" /\ rev[r] > 0 /\ retiring = None /\ ~closed
        /\ at' = [at EXCEPT ![r] = "finishing"] /\ current' = r
        /\ UNCHANGED <<rev, closed, closing, done>>
    BY <1>3 DEF Publish, Superseded, GateInv, EpochInv, controlVars
  <2>2. \/ current = None /\ UNCHANGED <<retiring, retired>>
        \/ current # None /\ retiring' = current /\ retired' = retired \cup {current}
    BY <1>3 DEF Publish
  <2>3. QED
    BY <2>1, <2>2
<1>4. ASSUME NEW k \in Closers, Close(k) PROVE PublishedInv'
  BY <1>4 DEF Close, Owned, NonNil, reloadVars
<1>5. ASSUME NEW g \in Reloads, CleanupStep(g) PROVE PublishedInv'
  BY <1>5 DEF CleanupStep, CloseScope, CleanupEnds, controlVars, ownerVars, reloadVars
<1>6. ASSUME ~ \E r \in Reloads : Reload(r) \/ ReloadStep(r) \/ ReloadCanceled(r) \/ CleanupStep(r),
             ~ \E k \in Closers : Close(k)
      PROVE  UNCHANGED <<closed, ownerVars, reloadVars, retired, done>>
  BY <1>6 DEF Next, Acquire, ReleaseLease, BeginCall, Complete, ReleaseCall, CloseReturns,
              CloseGivesUp, Revoke, controlVars, genVars
<1>7. QED
  BY <1>1, <1>2, <1>3, <1>4, <1>5, <1>6 DEF ownerVars, reloadVars

\* A cleanup is started once, when nobody is inside nor can come in any more.
LEMMA CleanupStarts == TypeOK /\ LifeInv /\ UserInv /\ RefsCount /\ Next => CleanupInv'
<1> SUFFICES ASSUME TypeOK, LifeInv, UserInv, RefsCount, Next PROVE CleanupInv'
  OBVIOUS
<1> USE ManagerAssumption DEF TypeOK, LifeInv, CleanupInv, GenTypeOK
<1>1. ASSUME NEW S, StartCleanup(S), retired \subseteq retired',
             \A g \in S \cap Reloads : cleanups[g] = 0 /\ refs'[g] = 0 /\ g \in retired',
             \A g \in Reloads : cleanups[g] > 0 => refs'[g] = 0,
             UNCHANGED <<done, scope>>
      PROVE  CleanupInv'
  BY <1>1 DEF StartCleanup
<1>2. ASSUME UNCHANGED <<refs, cleanups, done>>, retired \subseteq retired',
             \A g \in Reloads : scope[g] = "closed" => scope'[g] = "closed"
      PROVE  CleanupInv'
  BY <1>2
<1>3. ASSUME NEW r \in Reloads, Publish(r) PROVE CleanupInv'
  <2>1. CASE current = None
    BY <1>2, <1>3, <2>1 DEF Publish
  <2>2. CASE current # None
    <3>1. cleanups[current] = 0
      BY <2>2 DEF PublishedInv, OwnerTypeOK
    <3>2. QED
      BY <1>1, <1>3, <2>2, <3>1 DEF Publish
  <2>3. QED
    BY <2>1, <2>2
<1>4. ASSUME NEW r \in Reloads,
             \/ Reload(r) \/ ReloadCanceled(r) \/ TakeGate(r) \/ CheckRetiring(r) \/ RetiringDone(r)
             \/ BeginBuild(r) \/ Discard(r) \/ CloseCandidate(r) \/ EndBuild(r) \/ ReturnGate(r)
      PROVE  CleanupInv'
  <2>1. UNCHANGED <<refs, cleanups, done, retired>>
    BY <1>4 DEF Reload, ReloadCanceled, TakeGate, CheckRetiring, RetiringDone, BeginBuild, Discard,
                CloseCandidate, EndBuild, ReturnGate, genVars
  <2>2. \A g \in Reloads : scope[g] = "closed" => scope'[g] = "closed"
    BY <1>4 DEF Reload, ReloadCanceled, TakeGate, CheckRetiring, RetiringDone, BeginBuild, Discard,
                CloseCandidate, EndBuild, ReturnGate, genVars, ScopeInv
  <2>3. QED
    BY <1>2, <2>1, <2>2
<1>5. ASSUME NEW u \in Leases \cup Calls, NEW g \in Reloads, Holds(u, g), releaseLocked(g),
             UNCHANGED <<retired, scope, done>>
      PROVE  CleanupInv'
  <2>1. refs[g] \in Nat /\ refs[g] > 0
    BY <1>5, InsideCounted DEF Inside
  <2>2. QED
    BY <1>1, <1>5, <2>1 DEF releaseLocked, LastReference
<1>6. ASSUME NEW l \in Leases, ReleaseLease(l) PROVE CleanupInv'
  BY <1>5, <1>6 DEF ReleaseLease, Holds, UserInv
<1>7. ASSUME NEW c \in Calls, ReleaseCall(c) PROVE CleanupInv'
  BY <1>5, <1>7 DEF ReleaseCall, Holds, UserInv
<1>8. ASSUME NEW l \in Leases, Acquire(l) PROVE CleanupInv'
  BY <1>8 DEF Acquire, PublishedInv
<1>9. ASSUME NEW c \in Calls, NEW l \in Leases, BeginCall(c, l) PROVE CleanupInv'
  <2>1. leaseGen[l] \in Reloads /\ Holds(l, leaseGen[l])
    BY <1>9 DEF BeginCall, Holds, UserInv
  <2>2. refs[leaseGen[l]] > 0
    BY <2>1, InsideCounted DEF Inside
  <2>3. cleanups[leaseGen[l]] = 0
    BY <2>1, <2>2
  <2>4. QED
    BY <1>9, <2>1, <2>3 DEF BeginCall
<1>10. ASSUME NEW k \in Closers, Close(k) PROVE CleanupInv'
  <2>1. \A g \in Owned : g \in retired'
    BY <1>10 DEF Close, Owned, NonNil, PublishedInv, OwnerTypeOK
  <2>2. QED
    BY <1>1, <1>10, <2>1 DEF Close, Unused
<1>11. ASSUME NEW g \in Reloads, CleanupStep(g) PROVE CleanupInv'
  BY <1>11 DEF CleanupStep, CloseScope, CleanupEnds
<1>12. ASSUME Revoke \/ (\E c \in Calls : Complete(c)) \/ \E k \in Closers : CloseReturns(k) \/ CloseGivesUp(k)
       PROVE  CleanupInv'
  BY <1>2, <1>12 DEF Revoke, Complete, CloseReturns, CloseGivesUp, genVars
<1>13. QED
  BY <1>3, <1>4, <1>6, <1>7, <1>8, <1>9, <1>10, <1>11, <1>12 DEF Next, ReloadStep

\* The resources of a generation are open from its build to its cleanup.
LEMMA ScopeStep == TypeOK /\ LifeInv /\ Next => ScopeInv'
<1> SUFFICES ASSUME TypeOK, LifeInv, Next PROVE ScopeInv'
  OBVIOUS
<1> USE ManagerAssumption
    DEF TypeOK, LifeInv, ScopeInv, Published, GoTo, ReloadTypeOK, ReloadStates, GenTypeOK, OwnerTypeOK
<1>1. ASSUME NEW r \in Reloads,
             \/ Reload(r) \/ ReloadCanceled(r) \/ TakeGate(r) \/ CheckRetiring(r) \/ RetiringDone(r)
             \/ Discard(r) \/ EndBuild(r) \/ ReturnGate(r)
      PROVE  ScopeInv'
  <2>1. UNCHANGED <<current, retired, cleanups, scope>>
    BY <1>1 DEF Reload, ReloadCanceled, TakeGate, CheckRetiring, RetiringDone, Discard, EndBuild,
                ReturnGate, genVars, ownerVars
  <2>2. \E state \in ReloadStates :
          /\ at' = [at EXCEPT ![r] = state]
          /\ state \in {"building", "discarding"} <=> at[r] \in {"building", "discarding"}
          /\ state \in {"new", "gating", "gated", "awaiting", "clear"} =>
               at[r] \in {"new", "gating", "gated", "awaiting", "clear"}
    BY <1>1 DEF Reload, ReloadCanceled, TakeGate, CheckRetiring, RetiringDone, Discard, EndBuild, ReturnGate
  <2>3. QED
    BY <2>1, <2>2
<1>2. ASSUME NEW r \in Reloads, BeginBuild(r) PROVE ScopeInv'
  BY <1>2 DEF BeginBuild, ownerVars, PublishedInv
<1>3. ASSUME NEW r \in Reloads, CloseCandidate(r) PROVE ScopeInv'
  BY <1>3 DEF CloseCandidate, ownerVars, PublishedInv
<1>4. ASSUME NEW r \in Reloads, Publish(r) PROVE ScopeInv'
  <2>1. /\ at[r] = "building" /\ scope[r] = "open"
        /\ at' = [at EXCEPT ![r] = "finishing"] /\ current' = r
        /\ UNCHANGED scope
    BY <1>4 DEF Publish
  <2>2. \A g \in Reloads : Published(g)' <=> Published(g) \/ g = r
    BY <1>4 DEF Publish
  <2>3. \A g \in Reloads : cleanups[g] > 0 => cleanups'[g] > 0
    BY <1>4 DEF Publish, StartCleanup
  <2>4. QED
    BY <2>1, <2>2, <2>3
<1>5. ASSUME NEW k \in Closers, Close(k) PROVE ScopeInv'
  BY <1>5 DEF Close, StartCleanup, NonNil, reloadVars
<1>6. ASSUME NEW g \in Reloads, CleanupStep(g) PROVE ScopeInv'
  <2>1. CASE CloseScope(g)
    <3>1. /\ cleanups[g] > 0 /\ scope' = [scope EXCEPT ![g] = "closed"]
          /\ UNCHANGED <<current, retired, cleanups, at>>
      BY <2>1 DEF CloseScope, ownerVars, reloadVars
    <3>2. Published(g) /\ at[g] \in {"finishing", "leaving", "ended"}
      BY <3>1 DEF CleanupInv, PublishedInv
    <3>3. QED
      BY <3>1, <3>2
  <2>2. CASE CleanupEnds(g)
    <3>1. UNCHANGED <<current, retired, cleanups, at, scope>>
      BY <2>2 DEF CleanupEnds, reloadVars
    <3>2. QED
      BY <3>1
  <2>3. QED
    BY <1>6, <2>1, <2>2 DEF CleanupStep
<1>7. ASSUME UNCHANGED <<current, retired, scope, at>>,
             \A g \in Reloads : cleanups[g] > 0 => cleanups'[g] > 0
      PROVE  ScopeInv'
  BY <1>7
<1>8. ASSUME ~ \E r \in Reloads : Reload(r) \/ ReloadStep(r) \/ ReloadCanceled(r) \/ CleanupStep(r),
             ~ \E k \in Closers : Close(k)
      PROVE  UNCHANGED <<current, retired, scope, at>>
  BY <1>8 DEF Next, Acquire, ReleaseLease, BeginCall, Complete, ReleaseCall, CloseReturns,
              CloseGivesUp, Revoke, genVars, ownerVars, reloadVars
<1>9. ASSUME ~ \E r \in Reloads : Reload(r) \/ ReloadStep(r) \/ ReloadCanceled(r) \/ CleanupStep(r),
             ~ \E k \in Closers : Close(k)
      PROVE  UNCHANGED cleanups \/ \E S : StartCleanup(S)
  BY <1>9 DEF Next, Acquire, ReleaseLease, BeginCall, Complete, ReleaseCall, CloseReturns,
              CloseGivesUp, Revoke, genVars, releaseLocked
<1>10. ASSUME UNCHANGED cleanups \/ \E S : StartCleanup(S)
       PROVE  \A g \in Reloads : cleanups[g] > 0 => cleanups'[g] > 0
  BY <1>10 DEF StartCleanup
<1>11. QED
  BY <1>1, <1>2, <1>3, <1>4, <1>5, <1>6, <1>7, <1>8, <1>9, <1>10 DEF ReloadStep

\* A generation that was published stays so, replaced or closed.
LEMMA PublishedLasts ==
    ASSUME TypeOK, LifeInv, Next, NEW g \in Reloads, Published(g)
    PROVE  Published(g)'
<1> USE DEF Published
<1>1. CASE \E r \in Reloads : Publish(r)
  BY <1>1, ManagerAssumption DEF Publish, TypeOK, OwnerTypeOK
<1>2. CASE \E k \in Closers : Close(k)
  BY <1>2, ManagerAssumption DEF Close, NonNil
<1>3. CASE ~(\E r \in Reloads : Publish(r)) /\ ~(\E k \in Closers : Close(k))
  BY <1>3 DEF Next, ReloadStep, Reload, ReloadCanceled, TakeGate, CheckRetiring, RetiringDone,
              BeginBuild, Discard, CloseCandidate, EndBuild, ReturnGate, Acquire, ReleaseLease,
              BeginCall, Complete, ReleaseCall, CloseReturns, CloseGivesUp, Revoke, CleanupStep,
              CloseScope, CleanupEnds, ownerVars, genVars
<1>4. QED
  BY <1>1, <1>2, <1>3

\* Users hold published generations, and a call was let in by a lease.
LEMMA UserStep == TypeOK /\ LifeInv /\ UserInv /\ Next => UserInv'
<1> SUFFICES ASSUME TypeOK, LifeInv, UserInv, Next PROVE UserInv'
  OBVIOUS
<1>1. \A g \in Reloads : Published(g) => Published(g)'
  BY PublishedLasts
<1> USE <1>1 DEF TypeOK, UserTypeOK, UserInv, InCall
<1>2. ASSUME NEW l \in Leases, Acquire(l) PROVE UserInv'
  <2>1. current \in Reloads /\ Published(current)
    BY <1>2 DEF Acquire, OwnerTypeOK, Published
  <2>2. QED
    BY <1>2, <2>1 DEF Acquire, Published
<1>3. ASSUME NEW l \in Leases, ReleaseLease(l) PROVE UserInv'
  BY <1>3 DEF ReleaseLease, Published
<1>4. ASSUME NEW c \in Calls, NEW l \in Leases, BeginCall(c, l) PROVE UserInv'
  BY <1>4 DEF BeginCall, Published
<1>5. ASSUME NEW c \in Calls, Complete(c) \/ ReleaseCall(c) PROVE UserInv'
  BY <1>5 DEF Complete, ReleaseCall, Published
<1>6. ASSUME UNCHANGED userVars PROVE UserInv'
  BY <1>6 DEF userVars, Published
<1>7. ASSUME ~ \E l \in Leases : Acquire(l) \/ ReleaseLease(l) \/ \E c \in Calls : BeginCall(c, l),
             ~ \E c \in Calls : Complete(c) \/ ReleaseCall(c)
      PROVE  UNCHANGED userVars
  BY <1>7 DEF Next, ReloadStep, Reload, ReloadCanceled, TakeGate, CheckRetiring, RetiringDone,
              BeginBuild, Discard, Publish, CloseCandidate, EndBuild, ReturnGate, Close, CloseReturns,
              CloseGivesUp, Revoke, CleanupStep, CloseScope, CleanupEnds
<1>8. QED
  BY <1>2, <1>3, <1>4, <1>5, <1>6, <1>7

\* What Close waits for covers what is open from then on.
LEMMA ClosedStep == TypeOK /\ LifeInv /\ ClosedInv /\ Next => ClosedInv'
<1> SUFFICES ASSUME TypeOK, LifeInv, ClosedInv, Next PROVE ClosedInv'
  OBVIOUS
<1> USE ManagerAssumption DEF TypeOK, ClosedInv, CloseTypeOK, ControlTypeOK
<1>1. ASSUME NEW k \in Closers, Drained(k), closed,
             UNCHANGED awaits, UNCHANGED closing, done \subseteq done',
             \A g \in Reloads : at[g] \in {"leaving", "ended"} => at'[g] \in {"leaving", "ended"}
      PROVE  Drained(k)'
  BY <1>1 DEF Drained
<1>2. ASSUME UNCHANGED <<closed, current, closing, awaits, close>>, done \subseteq done',
             \A g \in Reloads : at[g] \in {"leaving", "ended"} => at'[g] \in {"leaving", "ended"},
             \A g \in Reloads : scope'[g] = "open" => scope[g] = "open" \/ ~closed
      PROVE  ClosedInv'
  BY <1>1, <1>2
<1>3. ASSUME NEW r \in Reloads, Reload(r) \/ ReloadStep(r) \/ ReloadCanceled(r), ~Publish(r)
      PROVE  ClosedInv'
  <2>1. UNCHANGED <<closed, current, closing, awaits, close, done>>
    BY <1>3 DEF ReloadStep, Reload, ReloadCanceled, TakeGate, CheckRetiring, RetiringDone, BeginBuild,
                Discard, CloseCandidate, EndBuild, ReturnGate, controlVars, ownerVars, genVars, closeVars
  <2>2. \A g \in Reloads : at[g] \in {"leaving", "ended"} => at'[g] \in {"leaving", "ended"}
    BY <1>3 DEF ReloadStep, Reload, ReloadCanceled, TakeGate, CheckRetiring, RetiringDone, BeginBuild,
                Discard, CloseCandidate, EndBuild, ReturnGate, GoTo, ReloadTypeOK
  <2>3. \A g \in Reloads : scope'[g] = "open" => scope[g] = "open" \/ ~closed
    BY <1>3 DEF ReloadStep, Reload, ReloadCanceled, TakeGate, CheckRetiring, RetiringDone, BeginBuild,
                Discard, CloseCandidate, EndBuild, ReturnGate, Superseded, genVars, GenTypeOK
  <2>4. QED
    BY <1>2, <2>1, <2>2, <2>3
<1>4. ASSUME NEW r \in Reloads, Publish(r) PROVE ClosedInv'
  <2>1. ~closed /\ UNCHANGED <<closed, closing, close, awaits>>
    BY <1>4 DEF Publish, Superseded, controlVars, closeVars
  <2>2. QED
    BY <2>1
<1>5. ASSUME NEW k \in Closers, Close(k) PROVE ClosedInv'
  <2>1. closed' /\ current' = None /\ closing' = Owned /\ UNCHANGED <<scope, at, done>>
    BY <1>5 DEF Close, reloadVars
  <2>2. \A g \in Reloads : scope[g] = "open" => g \in OwnedOrBuilding \/ g \in done
    BY DEF LifeInv, ScopeInv, PublishedInv, GateInv, Published, OwnedOrBuilding, Owned, NonNil
  <2>3. \A g \in done : scope[g] = "closed"
    BY DEF LifeInv, CleanupInv, GenTypeOK
  <2>4. \A j \in Closers : close[j] = "returned" => Drained(j)'
    <3>1. SUFFICES ASSUME NEW j \in Closers, close[j] = "returned" PROVE Drained(j)'
      OBVIOUS
    <3>2. closed /\ Drained(j) /\ j # k /\ current = None
      BY <1>5, <3>1 DEF Close
    <3>3. awaits'[j] = awaits[j] /\ closing' = closing \cup NonNil({retiring})
      BY <1>5, <3>2 DEF Close, Owned, NonNil
    <3>4. \A g \in awaits[j] : g \in NonNil({retiring}) => g \in closing \/ g \in done
      BY <3>2 DEF LifeInv, PublishedInv, NonNil
    <3>5. QED
      BY <2>1, <3>2, <3>3, <3>4 DEF Drained
  <2>5. \A j \in Closers : close'[j] # "none" => j = k \/ close[j] # "none"
    BY <1>5 DEF Close
  <2>6. \A j \in Closers : j # k => awaits'[j] = awaits[j] /\ close'[j] = close[j]
    BY <1>5 DEF Close
  <2>7. awaits'[k] = OwnedOrBuilding /\ close'[k] = "waiting"
    BY <1>5 DEF Close
  <2>8. QED
    BY <2>1, <2>2, <2>3, <2>4, <2>6, <2>7
<1>6. ASSUME NEW k \in Closers, CloseReturns(k) PROVE ClosedInv'
  BY <1>6 DEF CloseReturns, Drained, controlVars, ownerVars, genVars, reloadVars
<1>7. ASSUME NEW k \in Closers, CloseGivesUp(k) PROVE ClosedInv'
  BY <1>7 DEF CloseGivesUp, Drained, controlVars, ownerVars, genVars, reloadVars
<1>8. ASSUME NEW g \in Reloads, CleanupStep(g) PROVE ClosedInv'
  <2>1. UNCHANGED <<closed, current, closing, awaits, close, at>> /\ done \subseteq done'
    BY <1>8 DEF CleanupStep, CloseScope, CleanupEnds, controlVars, ownerVars, reloadVars, closeVars
  <2>2. \A h \in Reloads : scope'[h] = "open" => scope[h] = "open"
    BY <1>8 DEF CleanupStep, CloseScope, CleanupEnds, GenTypeOK
  <2>3. QED
    BY <1>2, <2>1, <2>2
<1>9. ASSUME ~ \E r \in Reloads : Reload(r) \/ ReloadStep(r) \/ ReloadCanceled(r) \/ CleanupStep(r),
             ~ \E k \in Closers : Close(k) \/ CloseReturns(k) \/ CloseGivesUp(k)
      PROVE  UNCHANGED <<closed, ownerVars, at, scope, done, closeVars>>
  BY <1>9 DEF Next, Acquire, ReleaseLease, BeginCall, Complete, ReleaseCall, Revoke, controlVars,
              genVars, reloadVars
<1>10. QED
  BY <1>2, <1>3, <1>4, <1>5, <1>6, <1>7, <1>8, <1>9 DEF ReloadStep, ownerVars, closeVars

\* Whoever builds a candidate finds nothing open but the current generation.
LEMMA BuiltAlone ==
    ASSUME TypeOK, LifeInv, ClosedInv, NEW r \in Reloads, BeginBuild(r), ~Superseded(r)
    PROVE  OpenScopes \subseteq {current} /\ scope[r] = "none"
<1>1. at[r] = "clear" /\ gate = r /\ retiring = None /\ ~closed /\ closing = {}
  BY DEF BeginBuild, Superseded, LifeInv, GateInv, InGate, ClosedInv
<1>2. SUFFICES ASSUME NEW g \in Reloads, scope[g] = "open" PROVE g = current
  BY <1>1 DEF OpenScopes, LifeInv, ScopeInv
<1>3. at[g] \notin {"building", "discarding"}
  BY <1>1 DEF LifeInv, GateInv, InGate
<1>4. g = current \/ g \in retired
  BY <1>2, <1>3 DEF LifeInv, ScopeInv, Published
<1>5. g \notin done
  BY <1>2 DEF LifeInv, CleanupInv
<1>6. g \notin retired
  BY <1>1, <1>5, ManagerAssumption DEF LifeInv, PublishedInv
<1>7. QED
  BY <1>4, <1>6

\* A candidate is built beside one open generation only.
LEMMA FewStep == TypeOK /\ LifeInv /\ ClosedInv /\ FewOwners /\ Next => FewOwners'
<1> SUFFICES ASSUME TypeOK, LifeInv, ClosedInv, FewOwners, Next PROVE FewOwners'
  OBVIOUS
<1>1. ASSUME NEW r \in Reloads, BeginBuild(r), ~Superseded(r) PROVE FewOwners'
  <2>1. OpenScopes' \subseteq {current, r}
    BY <1>1, BuiltAlone DEF BeginBuild, OpenScopes, TypeOK, GenTypeOK
  <2>2. current \in Reloads \cup {None} /\ r \in Reloads \cup {None}
    BY DEF TypeOK, OwnerTypeOK
  <2>3. QED
    BY <2>1, <2>2 DEF FewOwners
<1>2. ASSUME OpenScopes' \subseteq OpenScopes PROVE FewOwners'
  BY <1>2 DEF FewOwners
<1>3. ASSUME ~ \E r \in Reloads : BeginBuild(r) /\ ~Superseded(r)
      PROVE  OpenScopes' \subseteq OpenScopes
  <2>1. UNCHANGED scope \/ \E g \in Reloads : scope' = [scope EXCEPT ![g] = "closed"]
    BY <1>3 DEF Next, ReloadStep, Reload, ReloadCanceled, TakeGate, CheckRetiring, RetiringDone,
                BeginBuild, Discard, Publish, CloseCandidate, EndBuild, ReturnGate, Acquire, ReleaseLease,
                BeginCall, Complete, ReleaseCall, Close, CloseReturns, CloseGivesUp, Revoke, CleanupStep,
                CloseScope, CleanupEnds, genVars
  <2>2. QED
    BY <2>1 DEF OpenScopes, TypeOK, GenTypeOK
<1>4. QED
  BY <1>1, <1>2, <1>3

\* The manager starts empty.
LEMMA InitInv == Init => ManagerInv
<1> SUFFICES ASSUME Init PROVE ManagerInv
  OBVIOUS
<1> USE ManagerAssumption
<1>1. TypeOK
  BY DEF Init, TypeOK, ControlTypeOK, OwnerTypeOK, ReloadTypeOK, ReloadStates, GenTypeOK, UserTypeOK,
         CloseTypeOK
<1>2. LifeInv
  BY DEF Init, LifeInv, GateInv, InGate, EpochInv, Published, PublishedInv, CleanupInv, ScopeInv
<1>3. UserInv /\ ClosedInv
  BY DEF Init, UserInv, InCall, ClosedInv
<1>4. FewOwners
  BY DEF Init, FewOwners, OpenScopes
<1>5. QED
  BY <1>1, <1>2, <1>3, <1>4, CountInit DEF ManagerInv

\* Every step keeps the invariant.
LEMMA InvStep == ManagerInv /\ [Next]_vars => ManagerInv'
<1> SUFFICES ASSUME ManagerInv, [Next]_vars PROVE ManagerInv'
  OBVIOUS
<1>1. CASE Next
  <2>1. TypeOK' /\ UserInv' /\ RefsCount' /\ ClosedInv' /\ FewOwners'
    BY <1>1, TypeStep, UserStep, CountStep, ClosedStep, FewStep DEF ManagerInv
  <2>2. GateInv' /\ EpochInv' /\ PublishedInv' /\ CleanupInv' /\ ScopeInv'
    BY <1>1, GateStep, EpochStep, PublishedStep, CleanupStarts, ScopeStep DEF ManagerInv, LifeInv
  <2>3. QED
    BY <2>1, <2>2 DEF ManagerInv, LifeInv
<1>2. CASE UNCHANGED vars
  <2>1. UNCHANGED <<controlVars, ownerVars, reloadVars, genVars, userVars, closeVars>>
    BY <1>2 DEF vars
  <2>2. TypeOK'
    BY <2>1, TypeFrame DEF ManagerInv, TypeOK
  <2> USE <2>1 DEF ManagerInv, controlVars, ownerVars, reloadVars, genVars, userVars, closeVars
  <2>3. GateInv' /\ EpochInv'
    BY DEF LifeInv, GateInv, EpochInv
  <2>4. PublishedInv' /\ CleanupInv' /\ ScopeInv'
    BY DEF LifeInv, PublishedInv, Published, CleanupInv, ScopeInv
  <2>5. UserInv' /\ FewOwners'
    BY DEF UserInv, InCall, Published, FewOwners, OpenScopes
  <2>6. ClosedInv'
    BY DEF ClosedInv, Drained
  <2>7. RefsCount'
    BY DEF RefsCount, Inside, Holds, InCall
  <2>8. QED
    BY <2>2, <2>3, <2>4, <2>5, <2>6, <2>7 DEF LifeInv
<1>3. QED
  BY <1>1, <1>2

\* The inductive invariant holds throughout.
THEOREM ManagerInvariant == Spec => []ManagerInv
  BY InitInv, InvStep, PTL DEF Spec

-----------------------------------------------------------------------------
(* The properties of the manager *)

\* Every counter and every record keeps its range; the counter of a
\* generation, an int in the source, never goes below zero.
THEOREM ManagerTypes == Spec => []TypeOK
<1>1. ManagerInv => TypeOK
  BY DEF ManagerInv
<1>2. QED
  BY <1>1, ManagerInvariant, PTL

\* Whoever is inside a published generation finds it open.
LEMMA OpenInside == ManagerInv => PinnedStaysOpen
<1> SUFFICES ASSUME ManagerInv, NEW u \in Leases \cup Calls, NEW g \in Reloads, Holds(u, g)
             PROVE  scope[g] = "open"
  BY DEF PinnedStaysOpen
<1>1. refs[g] > 0
  BY InsideCounted DEF Inside, ManagerInv
<1>2. Published(g)
  BY DEF Holds, ManagerInv, UserInv
<1>3. QED
  BY <1>1, <1>2 DEF ManagerInv, LifeInv, ScopeInv, CleanupInv

\* The resources of a generation stay open for every lease and call inside it,
\* whatever is replaced, revoked or closed meanwhile (releaseLocked, cleanup).
THEOREM NobodyLosesCapabilities == Spec => []PinnedStaysOpen
  BY OpenInside, ManagerInvariant, PTL

\* No generation is cleaned up twice, by the last release, Reload and Close
\* together (the cleanupStarted flag of generation).
THEOREM CleanedUpOnce == Spec => []CleanupOnce
<1>1. ManagerInv => CleanupOnce
  BY DEF ManagerInv, LifeInv, CleanupInv, CleanupOnce
<1>2. QED
  BY <1>1, ManagerInvariant, PTL

\* At most two generations own resources at a time (the gate of Reload).
THEOREM AtMostTwoOwners == Spec => []TwoOwners
<1>1. ASSUME ManagerInv PROVE TwoOwners
  <2>1. PICK x, y \in Reloads \cup {None} : OpenScopes \subseteq {x, y}
    BY <1>1 DEF ManagerInv, FewOwners
  <2>2. IsFiniteSet({x}) /\ Cardinality({x}) = 1
    BY FS_Singleton
  <2>3. {x, y} = {x} \cup {y}
    OBVIOUS
  <2>4. IsFiniteSet({x, y}) /\ Cardinality({x, y}) <= 2
    BY <2>2, <2>3, FS_AddElement
  <2>5. Cardinality(OpenScopes) <= 2
    BY <2>1, <2>4, FS_Subset, FS_CardinalityType
  <2>6. QED
    BY <2>5 DEF TwoOwners, OpenScopes
<1>2. QED
  BY <1>1, ManagerInvariant, PTL

\* A Close that returned before its deadline leaves no resource open.
THEOREM CloseLeavesNothing == Spec => []CloseIsComplete
<1>1. ASSUME ManagerInv, NEW k \in Closers, close[k] = "returned", NEW g \in Reloads, scope[g] = "open"
      PROVE  FALSE
  <2>1. g \in awaits[k] /\ Drained(k) /\ closed
    BY <1>1 DEF ManagerInv, ClosedInv
  <2>2. at[g] \in {"leaving", "ended"} /\ g \notin done
    BY <1>1, <2>1 DEF Drained, ManagerInv, LifeInv, CleanupInv
  <2>3. Published(g)
    BY <1>1, <2>2 DEF ManagerInv, LifeInv, ScopeInv
  <2>4. g # current
    BY <1>1, <2>1, ManagerAssumption DEF ManagerInv, ClosedInv
  <2>5. g \in closing
    BY <1>1, <2>1, <2>2, <2>3, <2>4 DEF Published, ManagerInv, LifeInv, PublishedInv
  <2>6. QED
    BY <2>1, <2>2, <2>5 DEF Drained
<1>2. ManagerInv => CloseIsComplete
  BY <1>1 DEF CloseIsComplete
<1>3. QED
  BY <1>2, ManagerInvariant, PTL

\* Every generation is cleaned up, and no more than once, by the time Close has
\* returned (cleanupStarted, Close).
THEOREM CleanupsAreExact == Spec => []CleanupIsExact
<1>1. CleanupOnce /\ CloseIsComplete => CleanupIsExact
  BY DEF CleanupIsExact
<1>2. QED
  BY <1>1, CleanedUpOnce, CloseLeavesNothing, PTL

-----------------------------------------------------------------------------
(* Nobody waits for what never comes *)

\* Whatever somebody waits for is still to come: a retired generation is being
\* cleaned up or has somebody inside who will start that; the generation that holds
\* a Reload back is not done; the gate is with a Reload that returns it; and what
\* holds back a Close is a generation that is not done, or a build (releaseLocked,
\* the loop of reload over retiring, buildDone).
NobodyWaitsInVain ==
    /\ \A g \in retired : cleanups[g] > 0 \/ \E u \in Leases \cup Calls : Holds(u, g)
    /\ retiring # None => retiring \in retired \ done
    /\ gate # None => at[gate] \in InGate
    /\ \A k \in Closers : close[k] = "waiting" =>
          Drained(k) \/ \E g \in awaits[k] : g \in retired \ done \/ g = gate

Built == {"building", "discarding", "finishing", "leaving", "ended"}

\* What that rests on beyond ManagerInv.
EndInv ==
    /\ \A g \in done : cleanups[g] > 0
    /\ retiring \notin done
    /\ \A g \in retired : refs[g] = 0 => cleanups[g] > 0
    /\ \A k \in Closers : close[k] # "none" => \A g \in awaits[k] : at[g] \in Built

\* Cleanups are only added.
LEMMA CleanupsGrow ==
    ASSUME TypeOK, NEW S, StartCleanup(S)
    PROVE  \A g \in Reloads : /\ cleanups[g] > 0 => cleanups'[g] > 0
                              /\ g \in S => cleanups'[g] > 0
  BY DEF StartCleanup, TypeOK, GenTypeOK

\* The steps of a Reload keep EndInv.
LEMMA EndReloadStep ==
    ASSUME ManagerInv, EndInv, NEW r \in Reloads, Reload(r) \/ ReloadStep(r) \/ ReloadCanceled(r)
    PROVE  EndInv'
<1> USE ManagerAssumption DEF EndInv
<1>0. TypeOK /\ PublishedInv /\ CleanupInv /\ at \in [Reloads -> ReloadStates]
  BY DEF ManagerInv, LifeInv, TypeOK, ReloadTypeOK
<1>1. \A g \in Reloads : at[g] \in Built => at'[g] \in Built
  BY <1>0 DEF Reload, ReloadStep, ReloadCanceled, TakeGate, CheckRetiring, RetiringDone, BeginBuild,
              Publish, Discard, CloseCandidate, EndBuild, ReturnGate, GoTo, Built
<1>2. UNCHANGED closeVars /\ awaits \in [Closers -> SUBSET Reloads]
  BY <1>0 DEF Reload, ReloadStep, ReloadCanceled, TakeGate, CheckRetiring, RetiringDone, BeginBuild,
              Publish, Discard, CloseCandidate, EndBuild, ReturnGate, TypeOK, CloseTypeOK
<1>3. \A k \in Closers : close'[k] # "none" => \A g \in awaits'[k] : at'[g] \in Built
  BY <1>1, <1>2 DEF closeVars
<1>4. CASE Publish(r)
  <2>1. UNCHANGED <<done, refs>>
    BY <1>4 DEF Publish
  <2>2. CASE current = None
    <3>1. UNCHANGED <<retiring, retired, cleanups>>
      BY <1>4, <2>2 DEF Publish
    <3>2. QED
      BY <1>3, <2>1, <3>1
  <2>3. CASE current # None
    <3>1. /\ retiring' = current /\ retired' = retired \cup {current}
          /\ StartCleanup({current} \cap {g \in Reloads : refs[g] = 0})
      BY <1>4, <2>3 DEF Publish
    <3>2. current \in Reloads /\ done \subseteq Reloads /\ retired \subseteq Reloads
      BY <1>0, <2>3 DEF TypeOK, OwnerTypeOK, GenTypeOK
    <3>3. current \notin done
      BY <1>0, <3>2 DEF PublishedInv, CleanupInv
    <3>4. \A g \in Reloads : /\ cleanups[g] > 0 => cleanups'[g] > 0
                             /\ g = current /\ refs[g] = 0 => cleanups'[g] > 0
      BY <1>0, <3>1, CleanupsGrow
    <3>5. QED
      BY <1>3, <2>1, <3>1, <3>2, <3>3, <3>4
  <2>4. QED
    BY <2>2, <2>3
<1>5. CASE ~Publish(r)
  <2>1. UNCHANGED <<done, refs, retired, cleanups, retiring>>
    BY <1>5 DEF Reload, ReloadStep, ReloadCanceled, TakeGate, CheckRetiring, RetiringDone, BeginBuild,
                Discard, CloseCandidate, EndBuild, ReturnGate, genVars, ownerVars
  <2>2. QED
    BY <1>3, <2>1
<1>6. QED
  BY <1>4, <1>5

\* Every step keeps EndInv: whoever takes the last reference to a retired
\* generation starts its cleanup, as do Reload and Close when there is none.
LEMMA EndStep == ManagerInv /\ EndInv /\ [Next]_vars => EndInv'
<1> SUFFICES ASSUME ManagerInv, EndInv, [Next]_vars PROVE EndInv'
  OBVIOUS
<1> USE ManagerAssumption
<1>0. /\ TypeOK /\ UserInv /\ RefsCount /\ PublishedInv
      /\ done \subseteq Reloads /\ retired \subseteq Reloads /\ refs \in [Reloads -> Nat]
      /\ awaits \in [Closers -> SUBSET Reloads] /\ close \in [Closers -> {"none", "waiting", "returned", "gave up"}]
  BY DEF ManagerInv, LifeInv, TypeOK, GenTypeOK, CloseTypeOK
<1>1. ASSUME UNCHANGED <<done, retiring, retired, at, closeVars>>,
             \A g \in Reloads : cleanups[g] > 0 => cleanups'[g] > 0,
             \A g \in retired : refs'[g] = 0 => refs[g] = 0 \/ cleanups'[g] > 0
      PROVE  EndInv'
  BY <1>0, <1>1 DEF EndInv, closeVars
<1>2. ASSUME NEW u \in Leases \cup Calls, NEW g \in Reloads, Holds(u, g), releaseLocked(g),
             UNCHANGED <<done, retiring, retired, at, closeVars>>
      PROVE  EndInv'
  <2>1. refs[g] \in Nat /\ refs[g] > 0
    BY <1>0, <1>2, InsideCounted DEF Inside
  <2>2. /\ \A h \in Reloads : cleanups[h] > 0 => cleanups'[h] > 0
        /\ LastReference(g) => cleanups'[g] > 0
    <3> DEFINE S == {g} \cap {h \in Reloads : LastReference(h)}
    <3>1. StartCleanup(S)
      BY <1>2 DEF releaseLocked
    <3>2. \A h \in Reloads : (cleanups[h] > 0 => cleanups'[h] > 0) /\ (h \in S => cleanups'[h] > 0)
      <4> HIDE DEF S
      <4>1. QED
        BY <1>0, <3>1, CleanupsGrow
    <3>3. LastReference(g) => g \in S
      OBVIOUS
    <3>4. QED
      BY <1>2, <3>2, <3>3
  <2>3. \A h \in Reloads : refs'[h] = IF h = g THEN refs[h] - 1 ELSE refs[h]
    BY <1>0, <1>2 DEF releaseLocked
  <2>4. cleanups[g] \in Nat
    BY <1>0 DEF TypeOK, GenTypeOK
  <2>5. ASSUME NEW h \in retired, refs'[h] = 0 PROVE refs[h] = 0 \/ cleanups'[h] > 0
    <3>1. CASE h = g
      <4>1. refs'[g] = refs[g] - 1 /\ refs'[g] = 0
        BY <2>3, <2>5, <3>1
      <4>2. refs[g] = 1
        BY <2>1, <4>1
      <4>3. QED
        BY <2>2, <2>4, <2>5, <3>1, <4>2 DEF LastReference
    <3>2. CASE h # g
      BY <1>0, <2>3, <2>5, <3>2
    <3>3. QED
      BY <3>1, <3>2
  <2>6. QED
    BY <1>1, <1>2, <2>2, <2>5
<1>3. ASSUME NEW l \in Leases, ReleaseLease(l) PROVE EndInv'
  <2>1. Holds(l, leaseGen[l]) /\ leaseGen[l] \in Reloads
    BY <1>0, <1>3 DEF ReleaseLease, Holds, UserInv
  <2>2. QED
    BY <1>2, <1>3, <2>1 DEF ReleaseLease, ownerVars, reloadVars
<1>4. ASSUME NEW c \in Calls, ReleaseCall(c) PROVE EndInv'
  <2>1. Holds(c, leaseGen[parent[c]]) /\ leaseGen[parent[c]] \in Reloads
    BY <1>0, <1>4 DEF ReleaseCall, Holds, UserInv
  <2>2. QED
    BY <1>2, <1>4, <2>1 DEF ReleaseCall, ownerVars, reloadVars
<1>5. ASSUME NEW l \in Leases, Acquire(l) \/ \E c \in Calls : BeginCall(c, l) PROVE EndInv'
  <2>1. UNCHANGED <<done, retiring, retired, at, closeVars, cleanups>>
    BY <1>5 DEF Acquire, BeginCall, ownerVars, reloadVars
  <2>2. \A g \in Reloads : refs'[g] \in {refs[g], refs[g] + 1} /\ refs[g] \in Nat
    BY <1>0, <1>5 DEF Acquire, BeginCall
  <2>3. ASSUME NEW g \in retired, refs'[g] = 0 PROVE refs[g] = 0
    <3>1. refs'[g] \in {refs[g], refs[g] + 1} /\ refs[g] \in Nat
      BY <1>0, <2>2
    <3>2. QED
      BY <2>3, <3>1
  <2>4. QED
    BY <1>1, <2>1, <2>3
<1>6. ASSUME NEW k \in Closers, Close(k) PROVE EndInv'
  <2>1. /\ UNCHANGED <<done, refs, retiring, at>>
        /\ retired' = retired \cup NonNil({current})
        /\ StartCleanup(Unused)
        /\ awaits' = [awaits EXCEPT ![k] = OwnedOrBuilding]
        /\ close' = [close EXCEPT ![k] = "waiting"]
    BY <1>6 DEF Close, reloadVars
  <2>2. \A g \in Reloads : (cleanups[g] > 0 => cleanups'[g] > 0) /\ (g \in Unused => cleanups'[g] > 0)
    BY <1>0, <2>1, CleanupsGrow
  <2>3. \A g \in done : cleanups'[g] > 0
    BY <1>0, <2>2 DEF EndInv
  <2>4. \A g \in retired' : refs'[g] = 0 => cleanups'[g] > 0
    <3>1. \A g \in Reloads : cleanups[g] \in Nat
      BY <1>0 DEF TypeOK, GenTypeOK
    <3>2. current # None => current \in Reloads /\ current \in Owned
      BY <1>0 DEF TypeOK, OwnerTypeOK, Owned, NonNil
    <3>3. SUFFICES ASSUME NEW g \in retired', refs'[g] = 0 PROVE cleanups'[g] > 0
      OBVIOUS
    <3>4. g \in Reloads /\ refs[g] = 0
      BY <1>0, <2>1, <3>2, <3>3 DEF NonNil
    <3>5. g \in retired => cleanups[g] > 0
      BY <3>4 DEF EndInv
    <3>6. g \notin retired => g \in Owned
      BY <2>1, <3>2, <3>3 DEF NonNil
    <3>7. g \in Owned => cleanups[g] > 0 \/ g \in Unused
      BY <3>1, <3>4 DEF Unused
    <3>8. QED
      BY <2>2, <3>4, <3>5, <3>6, <3>7
  <2>5. \A g \in OwnedOrBuilding : at[g] \in Built
    BY <1>0 DEF OwnedOrBuilding, Owned, NonNil, PublishedInv, Published, ManagerInv, LifeInv, GateInv,
                Built, TypeOK, OwnerTypeOK, ReloadTypeOK
  <2>6. \A j \in Closers : close'[j] # "none" => \A g \in awaits'[j] : at'[g] \in Built
    BY <1>0, <2>1, <2>5 DEF EndInv
  <2>7. QED
    BY <2>1, <2>3, <2>4, <2>6 DEF EndInv
<1>7. ASSUME NEW k \in Closers, CloseReturns(k) \/ CloseGivesUp(k) PROVE EndInv'
  BY <1>0, <1>7 DEF CloseReturns, CloseGivesUp, EndInv, ownerVars, reloadVars, genVars
<1>8. ASSUME NEW g \in Reloads, CleanupStep(g) PROVE EndInv'
  BY <1>0, <1>8 DEF CleanupStep, CloseScope, CleanupEnds, EndInv, ownerVars, reloadVars, closeVars
<1>9. CASE Revoke \/ (\E c \in Calls : Complete(c)) \/ UNCHANGED vars
  <2>1. UNCHANGED <<done, retiring, retired, at, closeVars, cleanups, refs>>
    BY <1>9 DEF Revoke, Complete, vars, ownerVars, reloadVars, genVars
  <2>2. QED
    BY <1>1, <2>1
<1>10. QED
  BY <1>3, <1>4, <1>5, <1>6, <1>7, <1>8, <1>9, EndReloadStep DEF Next

\* Manager: every wait inside it, of a Reload for the gate or for the generation
\* that retires, and of Close for what it took over, is for something that is
\* under way, as long as runs release their leases and calls.
THEOREM WaitsAreForSomeone == Spec => []NobodyWaitsInVain
<1>1. Init => EndInv
  BY ManagerAssumption DEF Init, EndInv
<1>2. ManagerInv /\ EndInv => NobodyWaitsInVain
  <2> SUFFICES ASSUME ManagerInv, EndInv PROVE NobodyWaitsInVain
    OBVIOUS
  <2>0. TypeOK /\ RefsCount /\ PublishedInv /\ GateInv
    BY DEF ManagerInv, LifeInv
  <2>1. \A g \in retired : cleanups[g] > 0 \/ \E u \in Leases \cup Calls : Holds(u, g)
    <3> SUFFICES ASSUME NEW g \in retired, ~(cleanups[g] > 0)
                 PROVE  \E u \in Leases \cup Calls : Holds(u, g)
      OBVIOUS
    <3>1. g \in Reloads /\ refs[g] # 0
      BY <2>0 DEF EndInv, TypeOK, GenTypeOK
    <3>2. Inside(g) # {}
      BY <2>0, <3>1, FS_EmptySet DEF RefsCount
    <3>3. QED
      BY <3>2 DEF Inside
  <2>2. retiring # None => retiring \in retired \ done
    BY <2>0 DEF EndInv, PublishedInv, TypeOK, OwnerTypeOK
  <2>3. gate # None => at[gate] \in InGate
    BY <2>0 DEF GateInv, TypeOK, ReloadTypeOK
  <2>4. ASSUME NEW k \in Closers, close[k] = "waiting", ~Drained(k)
        PROVE  \E g \in awaits[k] : g \in retired \ done \/ g = gate
    <3>1. PICK g \in awaits[k] : ~(at[g] \in {"leaving", "ended"} /\ (g \in closing => g \in done))
      BY <2>4 DEF Drained
    <3>2. g \in Reloads /\ at[g] \in Built
      BY <2>0, <2>4 DEF EndInv, TypeOK, CloseTypeOK
    <3>3. CASE at[g] \notin {"leaving", "ended"}
      BY <2>0, <3>2, <3>3 DEF Built, GateInv, InGate
    <3>4. CASE g \in closing /\ g \notin done
      BY <2>0, <3>2, <3>4 DEF PublishedInv
    <3>5. QED
      BY <3>1, <3>3, <3>4
  <2>5. QED
    BY <2>1, <2>2, <2>3, <2>4 DEF NobodyWaitsInVain
<1>3. QED
  BY <1>1, <1>2, EndStep, ManagerInvariant, PTL DEF Spec

-----------------------------------------------------------------------------
(* The manager implements the fence *)

\* The fence's variables, as FenceSpec maps them.
Trusted == {r \in Reloads : rev[r] > 0 /\ ep[r] = epoch}

Pinned == [u \in Leases \cup Calls |->
              IF u \in Leases
              THEN IF lease[u] = "held" THEN leaseGen[u] ELSE None
              ELSE IF InCall(u) THEN leaseGen[parent[u]] ELSE None]

Accepted == {c \in Calls : call[c] = "accepted"}

\* A user is mapped to the generation it holds.
LEMMA PinnedIsHeld ==
    ASSUME NEW u \in Leases \cup Calls, NEW g \in Reloads
    PROVE  Pinned[u] = g <=> Holds(u, g)
  BY ManagerAssumption DEF Pinned, Holds

\* What a step leaves alone, the fence sees unchanged.
LEMMA FenceFrame ==
    /\ UNCHANGED <<rev, ep, epoch>> => Trusted' = Trusted
    /\ UNCHANGED scope => OpenScopes' = OpenScopes
    /\ UNCHANGED userVars => Pinned' = Pinned /\ Accepted' = Accepted
  BY DEF Trusted, OpenScopes, Pinned, Accepted, InCall, userVars

\* An empty manager is an empty fence.
LEMMA FenceInitially == Init => fence!FenceInit
<1> SUFFICES ASSUME Init PROVE fence!FenceInit
  OBVIOUS
<1>1. Trusted = {} /\ OpenScopes = {} /\ Accepted = {} /\ current = None
  BY DEF Init, Trusted, OpenScopes, Accepted
<1>2. Pinned = [u \in Leases \cup Calls |-> None]
  BY DEF Init, Pinned, InCall
<1>3. QED
  BY <1>1, <1>2 DEF fence!FenceInit, fence!Users, Trusted, OpenScopes, Accepted, Pinned

\* A step that the fence does not see.
Stutters ==
    /\ current' = current /\ Trusted' = Trusted /\ OpenScopes' = OpenScopes
    /\ Pinned' = Pinned /\ Accepted' = Accepted

\* Such a step is a stutter of the fence.
LEMMA StutterMaps == Stutters => UNCHANGED fence!fenceVars
  BY DEF Stutters, fence!fenceVars, Trusted, OpenScopes, Pinned, Accepted

\* The steps of a Reload open and publish its generation, or close it unseen.
LEMMA ReloadMaps ==
    ASSUME ManagerInv, NEW r \in Reloads, Reload(r) \/ ReloadStep(r) \/ ReloadCanceled(r)
    PROVE  fence!FenceNext \/ Stutters
<1> USE DEF ManagerInv, TypeOK, ReloadTypeOK, ControlTypeOK, GenTypeOK
<1>1. UNCHANGED userVars /\ Pinned' = Pinned /\ Accepted' = Accepted
  <2>1. UNCHANGED userVars
    BY DEF Reload, ReloadStep, TakeGate, CheckRetiring, RetiringDone, ReloadCanceled, BeginBuild,
           Publish, Discard, CloseCandidate, EndBuild, ReturnGate
  <2>2. QED
    BY <2>1, FenceFrame
<1>2. ASSUME Reload(r), ~closed PROVE fence!Request(r)
  <2>1. Trusted' = Trusted \cup {r}
    BY <1>2 DEF Reload, Trusted
  <2>2. UNCHANGED <<current, scope>>
    BY <1>2 DEF Reload, ownerVars, genVars
  <2>3. QED
    BY <1>1, <2>1, <2>2, FenceFrame DEF fence!Request, Trusted, OpenScopes, Pinned, Accepted
<1>3. ASSUME BeginBuild(r), ~Superseded(r) PROVE fence!Open(r)
  <2>1. OpenScopes \subseteq {current} /\ scope[r] = "none"
    BY <1>3, BuiltAlone
  <2>2. \A a, b \in OpenScopes : a = b
    BY <2>1
  <2>3. OpenScopes' = OpenScopes \cup {r} /\ r \notin OpenScopes
    BY <1>3, <2>1 DEF BeginBuild, OpenScopes
  <2>4. UNCHANGED <<current, rev, ep, epoch>>
    BY <1>3 DEF BeginBuild, ownerVars, controlVars
  <2>5. Trusted' = Trusted
    BY <2>4, FenceFrame
  <2>6. QED
    BY <1>1, <2>2, <2>3, <2>4, <2>5 DEF fence!Open, Trusted, OpenScopes, Pinned, Accepted
<1>4. ASSUME Publish(r) PROVE fence!Publish(r)
  <2>1. r \in Trusted /\ r \in OpenScopes
    BY <1>4 DEF Publish, Superseded, Trusted, OpenScopes, LifeInv, EpochInv, ScopeInv
  <2>2. current' = r /\ UNCHANGED <<rev, ep, epoch, scope>>
    BY <1>4 DEF Publish, controlVars
  <2>3. QED
    BY <1>1, <2>1, <2>2, FenceFrame DEF fence!Publish, Trusted, OpenScopes, Pinned, Accepted
<1>5. ASSUME CloseCandidate(r) PROVE fence!Free(r)
  <2>1. at[r] = "discarding" /\ scope[r] = "open" /\ ~Published(r)
    BY <1>5 DEF CloseCandidate, LifeInv, ScopeInv, PublishedInv
  <2>2. \A u \in Leases \cup Calls : ~Holds(u, r)
    BY <2>1 DEF Holds, UserInv
  <2>3. OpenScopes' = OpenScopes \ {r} /\ r \in OpenScopes \ {current}
    BY <1>5, <2>1 DEF CloseCandidate, OpenScopes, Published
  <2>4. UNCHANGED <<current, rev, ep, epoch>>
    BY <1>5 DEF CloseCandidate, ownerVars, controlVars
  <2>5. \A u \in Leases \cup Calls : Pinned[u] # r
    BY <2>2, PinnedIsHeld
  <2>6. QED
    BY <1>1, <2>3, <2>4, <2>5, FenceFrame
       DEF fence!Free, fence!Users, Trusted, OpenScopes, Pinned, Accepted
<1>6. ASSUME ~(Reload(r) /\ ~closed), ~(BeginBuild(r) /\ ~Superseded(r)), ~Publish(r), ~CloseCandidate(r)
      PROVE  UNCHANGED <<current, rev, ep, epoch, scope>>
  BY <1>6 DEF Reload, ReloadStep, TakeGate, CheckRetiring, RetiringDone, ReloadCanceled, BeginBuild,
              Discard, EndBuild, ReturnGate, ownerVars, controlVars, genVars
<1>7. QED
  BY <1>1, <1>2, <1>3, <1>4, <1>5, <1>6, FenceFrame DEF fence!FenceNext, Stutters

UserAction(l, c) ==
    \/ l \in Leases /\ (Acquire(l) \/ ReleaseLease(l))
    \/ l \in Leases /\ c \in Calls /\ BeginCall(c, l)
    \/ c \in Calls /\ (Complete(c) \/ ReleaseCall(c))

\* Leases and calls pin, are let in, vouch for a result and let go.
LEMMA UserMaps ==
    ASSUME ManagerInv, NEW l, NEW c, UserAction(l, c)
    PROVE  fence!FenceNext \/ Stutters
<1> USE ManagerAssumption DEF ManagerInv, TypeOK, UserTypeOK
<1>1. current' = current /\ Trusted' = Trusted /\ OpenScopes' = OpenScopes
  <2>1. UNCHANGED <<current, rev, ep, epoch, scope>>
    BY DEF UserAction, Acquire, ReleaseLease, BeginCall, Complete, ReleaseCall, ownerVars, reloadVars,
           controlVars, genVars
  <2>2. QED
    BY <2>1, FenceFrame
<1>2. ASSUME l \in Leases, Acquire(l) PROVE fence!Pin(l)
  <2>1. \A d \in Calls : InCall(d) => parent[d] # l
    BY <1>2 DEF Acquire, UserInv
  <2>2. Pinned[l] = None
    BY <1>2 DEF Acquire, Pinned
  <2>3. ASSUME NEW u \in Leases \cup Calls
        PROVE  Pinned'[u] = IF u = l THEN current ELSE Pinned[u]
    BY <1>2, <2>1 DEF Acquire, Pinned, InCall
  <2>4. Pinned' = [Pinned EXCEPT ![l] = current]
    BY <2>3 DEF Pinned
  <2>5. Accepted' = Accepted /\ current # None
    BY <1>2 DEF Acquire, Accepted
  <2>6. QED
    BY <1>1, <2>2, <2>4, <2>5 DEF fence!Pin, Trusted, OpenScopes, Pinned, Accepted
<1>3. ASSUME l \in Leases, c \in Calls, BeginCall(c, l) PROVE fence!LetIn(c, l)
  <2>1. leaseGen[l] \in Reloads /\ Published(leaseGen[l])
    BY <1>3 DEF BeginCall, UserInv
  <2>2. Pinned[l] = leaseGen[l] /\ leaseGen[l] \in Trusted
    BY <1>3, <2>1 DEF BeginCall, Pinned, Authorized, Trusted, LifeInv, PublishedInv
  <2>3. Pinned[c] = None
    BY <1>3 DEF BeginCall, Pinned, InCall
  <2>4. Pinned' = [Pinned EXCEPT ![c] = leaseGen[l]]
    BY <1>3 DEF BeginCall, Pinned, InCall
  <2>5. Accepted' = Accepted
    BY <1>3 DEF BeginCall, Accepted
  <2>6. QED
    BY <1>1, <2>2, <2>3, <2>4, <2>5 DEF fence!LetIn, Trusted, OpenScopes, Pinned, Accepted
<1>4. ASSUME c \in Calls, Complete(c) PROVE fence!Accept(c) \/ Stutters
  <2>1. Pinned' = Pinned
    BY <1>4 DEF Complete, Pinned, InCall
  <2>2. CASE call'[c] = "accepted"
    <3>1. parent[c] \in Leases /\ leaseGen[parent[c]] \in Reloads /\ Published(leaseGen[parent[c]])
      BY <1>4 DEF Complete, UserInv, InCall
    <3>2. Pinned[c] = leaseGen[parent[c]] /\ leaseGen[parent[c]] \in Trusted
      BY <1>4, <2>2, <3>1 DEF Complete, Pinned, InCall, Authorized, Trusted, LifeInv, PublishedInv
    <3>3. Accepted' = Accepted \cup {c}
      BY <1>4, <2>2 DEF Complete, Accepted
    <3>4. QED
      BY <1>1, <2>1, <3>2, <3>3 DEF fence!Accept, Trusted, OpenScopes, Pinned, Accepted
  <2>3. CASE call'[c] # "accepted"
    <3>1. Accepted' = Accepted
      BY <1>4, <2>3 DEF Complete, Accepted
    <3>2. QED
      BY <1>1, <2>1, <3>1 DEF Stutters
  <2>4. QED
    BY <2>2, <2>3
<1>5. ASSUME l \in Leases, ReleaseLease(l) PROVE fence!Unpin(l)
  <2>1. Pinned[l] # None
    BY <1>5 DEF ReleaseLease, Pinned, UserInv
  <2>2. Pinned' = [Pinned EXCEPT ![l] = None]
    BY <1>5 DEF ReleaseLease, Pinned, InCall
  <2>3. Accepted' = Accepted \ {l}
    BY <1>5 DEF ReleaseLease, Accepted
  <2>4. QED
    BY <1>1, <2>1, <2>2, <2>3 DEF fence!Unpin, Trusted, OpenScopes, Pinned, Accepted
<1>6. ASSUME c \in Calls, ReleaseCall(c) PROVE fence!Unpin(c)
  <2>1. Pinned[c] # None
    BY <1>6 DEF ReleaseCall, Pinned, UserInv
  <2>2. Pinned' = [Pinned EXCEPT ![c] = None]
    BY <1>6 DEF ReleaseCall, Pinned, InCall
  <2>3. Accepted' = Accepted \ {c}
    BY <1>6 DEF ReleaseCall, Accepted
  <2>4. QED
    BY <1>1, <2>1, <2>2, <2>3 DEF fence!Unpin, Trusted, OpenScopes, Pinned, Accepted
<1>7. QED
  BY <1>2, <1>3, <1>4, <1>5, <1>6 DEF UserAction, fence!FenceNext, fence!Users

\* Revocation, Close and the cleanup of a generation.
LEMMA OthersMap ==
    ASSUME ManagerInv, NEW g, NEW k,
           \/ g \in Reloads /\ CleanupStep(g)
           \/ Revoke
           \/ k \in Closers /\ (Close(k) \/ CloseReturns(k) \/ CloseGivesUp(k))
    PROVE  fence!FenceNext \/ Stutters
<1> USE DEF ManagerInv, TypeOK, ReloadTypeOK, ControlTypeOK, GenTypeOK
<1>1. Pinned' = Pinned /\ Accepted' = Accepted
  <2>1. UNCHANGED userVars
    BY DEF CleanupStep, CloseScope, CleanupEnds, Revoke, Close, CloseReturns, CloseGivesUp
  <2>2. QED
    BY <2>1, FenceFrame
<1>2. ASSUME epoch' = epoch + 1, UNCHANGED <<rev, ep>> PROVE Trusted' = {}
  BY <1>2 DEF LifeInv, EpochInv, Trusted
<1>3. ASSUME g \in Reloads, CloseScope(g) PROVE fence!Free(g)
  <2>1. refs[g] = 0 /\ g \in retired /\ g # current
    BY <1>3 DEF CloseScope, LifeInv, CleanupInv, PublishedInv
  <2>2. \A u \in Leases \cup Calls : ~Holds(u, g)
    BY <1>3, <2>1, InsideCounted DEF Inside
  <2>3. \A u \in Leases \cup Calls : Pinned[u] # g
    BY <1>3, <2>2, PinnedIsHeld
  <2>4. OpenScopes' = OpenScopes \ {g} /\ g \in OpenScopes \ {current}
    BY <1>3, <2>1 DEF CloseScope, OpenScopes
  <2>5. UNCHANGED <<current, rev, ep, epoch>>
    BY <1>3 DEF CloseScope, ownerVars, reloadVars, controlVars
  <2>6. QED
    BY <1>1, <2>3, <2>4, <2>5, FenceFrame
       DEF fence!Free, fence!Users, Trusted, OpenScopes, Pinned, Accepted
<1>4. ASSUME Revoke PROVE fence!Revoke
  <2>1. epoch' = epoch + 1 /\ UNCHANGED <<rev, ep, current, scope>>
    BY <1>4 DEF Revoke, reloadVars, ownerVars, genVars
  <2>2. QED
    BY <1>1, <1>2, <2>1, FenceFrame DEF fence!Revoke, Trusted, OpenScopes, Pinned, Accepted
<1>5. ASSUME Close(k) PROVE fence!Shut
  <2>1. epoch' = epoch + 1 /\ current' = None /\ UNCHANGED <<rev, ep, scope>>
    BY <1>5 DEF Close, reloadVars
  <2>2. QED
    BY <1>1, <1>2, <2>1, FenceFrame DEF fence!Shut, Trusted, OpenScopes, Pinned, Accepted
<1>6. ASSUME CleanupEnds(g) \/ CloseReturns(k) \/ CloseGivesUp(k) PROVE Stutters
  <2>1. UNCHANGED <<current, rev, ep, epoch, scope>>
    BY <1>6 DEF CleanupEnds, CloseReturns, CloseGivesUp, ownerVars, reloadVars, controlVars, genVars
  <2>2. QED
    BY <1>1, <2>1, FenceFrame DEF Stutters
<1>7. QED
  BY <1>3, <1>4, <1>5, <1>6 DEF fence!FenceNext, CleanupStep

\* The manager implements the fence: what a run or a call sees of generations,
\* revocation and Close is what CapabilityFence allows (manager.go).
THEOREM ManagerImplementsFence == Spec => FenceSpec
<1>1. ASSUME ManagerInv, [Next]_vars PROVE fence!FenceNext \/ Stutters
  <2>1. CASE \E r \in Reloads : Reload(r) \/ ReloadStep(r) \/ ReloadCanceled(r)
    BY <1>1, <2>1, ReloadMaps
  <2>2. CASE \E l \in Leases : Acquire(l) \/ ReleaseLease(l) \/ \E c \in Calls : BeginCall(c, l)
    BY <1>1, <2>2, UserMaps DEF UserAction
  <2>3. CASE \E c \in Calls : Complete(c) \/ ReleaseCall(c)
    BY <1>1, <2>3, UserMaps DEF UserAction
  <2>4. CASE Revoke \/ (\E k \in Closers : Close(k) \/ CloseReturns(k) \/ CloseGivesUp(k))
    BY <1>1, <2>4, OthersMap
  <2>5. CASE \E g \in Reloads : CleanupStep(g)
    BY <1>1, <2>5, OthersMap
  <2>6. CASE UNCHANGED vars
    <3>1. UNCHANGED <<current, rev, ep, epoch, scope, userVars>>
      BY <2>6 DEF vars, ownerVars, reloadVars, controlVars, genVars
    <3>2. QED
      BY <3>1, FenceFrame DEF Stutters
  <2>7. QED
    BY <1>1, <2>1, <2>2, <2>3, <2>4, <2>5, <2>6 DEF Next
<1>2. ManagerInv /\ [Next]_vars => [fence!FenceNext]_fence!fenceVars
  BY <1>1, StutterMaps
<1>3. QED
  BY <1>2, FenceInitially, ManagerInvariant, PTL DEF Spec, FenceSpec, fence!FenceSpec
=============================================================================
