------------------------- MODULE AssemblyCloseProofs -------------------------
(***************************************************************************)
(* Proofs about the run slot and about closing the assembly that owns it,  *)
(* for any set of runs and any number of calls of Close.                   *)
(*                                                                         *)
(* The run slot.  The clients know what they have called (ownerDone,       *)
(* wrapper), the guard knows what it recorded (current).  The safety       *)
(* properties speak of the first, the code decides on the second: GuardInv *)
(* ties them together.                                                     *)
(*                                                                         *)
(* The assembly.  Each of its steps is a step of the slot or leaves it     *)
(* alone, so that what is proved of the slot holds in the assembly too.    *)
(* AssemblyInv places every kind of work and every resource at the steps   *)
(* of the plan that bar, join and release it: the joins come before the    *)
(* releases of what the work uses, and the wait for idle before them all.  *)
(***************************************************************************)
EXTENDS AssemblyClose, TLAPS

(***************************************************************************)
(* The run slot                                                            *)
(***************************************************************************)

\* The flags recorded for the holder are the calls its own run has made, and
\* a holder that was fully released would have left.
HolderAgrees ==
    \A r \in Runs :
        Holds(r) =>
            /\ call[r] = "claimed"
            /\ current.ownerReleased <=> ownerDone[r]
            /\ current.wrapperRegistered <=> wrapper[r] \in {"registered", "finished"}
            /\ current.wrapperFinished <=> wrapper[r] = "finished"
            /\ ownerDone[r] => wrapper[r] = "registered"

\* A claimed run that is not the holder has finished with the slot.
OthersGone ==
    \A r \in Runs :
        call[r] = "claimed" /\ ~Holds(r) =>
            ownerDone[r] /\ wrapper[r] # "registered"

\* Only claimed runs have touched their lease.
UnclaimedUntouched ==
    \A r \in Runs :
        call[r] # "claimed" => ownerDone[r] = FALSE /\ wrapper[r] = "none"

\* The idle channel has been closed exactly when admission is closed and the
\* slot is free.
IdleCount ==
    idleCloses = IF closed /\ current.claim = NoRun THEN 1 ELSE 0

\* Waiters hold the current channel or one that was closed, and the current
\* one only while there is a holder.
EpochsBounded ==
    \A r \in Runs :
        call[r] = "waiting" =>
            /\ waitEpoch[r] <= epoch
            /\ current.claim = NoRun => waitEpoch[r] < epoch

GuardInv ==
    /\ TypeOK
    /\ HolderAgrees
    /\ OthersGone
    /\ UnclaimedUntouched
    /\ IdleCount
    /\ EpochsBounded

-----------------------------------------------------------------------------

\* The states in which a new guard starts satisfy the invariant.
LEMMA GuardInit == Init => GuardInv
<1> SUFFICES ASSUME Init
             PROVE  GuardInv
  OBVIOUS
<1> USE NoRunIsNotARun DEF Init, NoClaim
<1>1. TypeOK
  BY DEF TypeOK, Claims, CallStates, WrapperStates
<1>2. HolderAgrees /\ OthersGone /\ UnclaimedUntouched
  BY DEF HolderAgrees, OthersGone, UnclaimedUntouched, Holds
<1>3. IdleCount /\ EpochsBounded
  BY DEF IdleCount, EpochsBounded
<1>4. QED
  BY <1>1, <1>2, <1>3 DEF GuardInv

\* Raising a flag of a claim leaves it a claim.
LEMMA ClaimUpdates ==
    \A c \in Claims : /\ [c EXCEPT !.ownerReleased = TRUE] \in Claims
                      /\ [c EXCEPT !.wrapperFinished = TRUE] \in Claims
  BY DEF Claims

\* Publishing a claim in the free slot, as Claim and TryClaim do, preserves the
\* invariant.
LEMMA PublishKeeps ==
    ASSUME GuardInv, NEW r \in Runs, call[r] # "claimed", ~closed,
           current.claim = NoRun, Publish(r)
    PROVE  GuardInv'
<1> USE NoRunIsNotARun DEF Publish, leaseVars
<1>1. /\ current' \in Claims /\ current'.claim = r
      /\ ~current'.ownerReleased /\ ~current'.wrapperRegistered /\ ~current'.wrapperFinished
  BY DEF NoClaim, Claims
<1>2. /\ call' \in [Runs -> CallStates] /\ call'[r] = "claimed"
      /\ \A s \in Runs \ {r} : call'[s] = call[s]
  BY DEF GuardInv, TypeOK, CallStates
<1>3. TypeOK'
  BY <1>1, <1>2 DEF GuardInv, TypeOK
<1>4. ownerDone[r] = FALSE /\ wrapper[r] = "none"
  BY DEF GuardInv, UnclaimedUntouched
<1>5. HolderAgrees'
  BY <1>1, <1>2, <1>4 DEF HolderAgrees, Holds
<1>6. OthersGone'
  <2> SUFFICES ASSUME NEW s \in Runs, call'[s] = "claimed", s # r
               PROVE  ownerDone[s] /\ wrapper[s] # "registered"
    BY <1>1 DEF OthersGone, Holds
  <2>1. call[s] = "claimed" /\ ~Holds(s)
    BY <1>2 DEF Holds
  <2>2. QED
    BY <2>1 DEF GuardInv, OthersGone
<1>7. UnclaimedUntouched'
  BY <1>2 DEF GuardInv, UnclaimedUntouched
<1>8. IdleCount'
  BY <1>1 DEF GuardInv, IdleCount
<1>9. EpochsBounded'
  BY <1>1, <1>2 DEF GuardInv, EpochsBounded
<1>10. QED
  BY <1>3, <1>5, <1>6, <1>7, <1>8, <1>9 DEF GuardInv

\* Every critical section of the guard preserves the invariant.
LEMMA GuardStep == GuardInv /\ [Next]_vars => GuardInv'
<1> SUFFICES ASSUME GuardInv, [Next]_vars
             PROVE  GuardInv'
  OBVIOUS
<1> USE NoRunIsNotARun
    DEF GuardInv, TypeOK, HolderAgrees, OthersGone, UnclaimedUntouched,
        IdleCount, EpochsBounded, NoClaim, Claims, CallStates, WrapperStates,
        Holds, guardVars, callVars, leaseVars
<1>1. CASE CloseAdmission
  BY <1>1 DEF CloseAdmission
<1>2. ASSUME NEW r \in Runs, ClaimAdmitted(r)
      PROVE  GuardInv'
  BY <1>2, PublishKeeps DEF ClaimAdmitted, Unclaimed
<1>3. ASSUME NEW r \in Runs, ClaimRejected(r)
      PROVE  GuardInv'
  BY <1>3 DEF ClaimRejected, Unclaimed
<1>4. ASSUME NEW r \in Runs, ClaimWaits(r)
      PROVE  GuardInv'
  BY <1>4 DEF ClaimWaits, Unclaimed
<1>5. ASSUME NEW r \in Runs, ClaimCanceled(r)
      PROVE  GuardInv'
  BY <1>5 DEF ClaimCanceled, Unclaimed
<1>6. ASSUME NEW r \in Runs, TryClaimAdmitted(r)
      PROVE  GuardInv'
  BY <1>6, PublishKeeps DEF TryClaimAdmitted
<1>7. ASSUME NEW r \in Runs, TryClaimRefused(r)
      PROVE  GuardInv'
  BY <1>7 DEF TryClaimRefused
<1>8. ASSUME NEW r \in Runs, Release(r)
      PROVE  GuardInv'
  <2>1. CASE ~Holds(r)
    BY <1>8, <2>1 DEF Release
  <2>2. CASE Holds(r) /\ current.wrapperRegistered /\ ~current.wrapperFinished
    <3>1. TypeOK'
      <4>1. current' \in Claims
        <5>1. current' = [current EXCEPT !.ownerReleased = TRUE]
          BY <1>8, <2>2 DEF Release
        <5>2. [current EXCEPT !.ownerReleased = TRUE] \in Claims
          BY ClaimUpdates
        <5>3. QED
          BY <5>1, <5>2
      <4>2. ownerDone' \in [Runs -> BOOLEAN]
        BY <1>8 DEF Release
      <4>3. UNCHANGED <<closed, epoch, idleCloses, call, waitEpoch, wrapper>>
        BY <1>8, <2>2 DEF Release
      <4>4. QED
        BY <4>1, <4>2, <4>3
    <3>2. (HolderAgrees /\ OthersGone /\ UnclaimedUntouched)'
      BY <1>8, <2>2 DEF Release
    <3>3. (IdleCount /\ EpochsBounded)'
      BY <1>8, <2>2 DEF Release
    <3>4. QED
      BY <3>1, <3>2, <3>3
  <2>3. CASE Holds(r) /\ ~(current.wrapperRegistered /\ ~current.wrapperFinished)
    <3>1. TypeOK'
      <4>1. current' \in Claims
        <5>1. current' = NoClaim
          BY <1>8, <2>3 DEF Release, Finalize
        <5>2. NoClaim \in Claims
          OBVIOUS
        <5>3. QED
          BY <5>1, <5>2
      <4>2. epoch' \in Nat /\ idleCloses' \in Nat
        BY <1>8, <2>3 DEF Release, Finalize
      <4>3. ownerDone' \in [Runs -> BOOLEAN] /\ wrapper' \in [Runs -> WrapperStates]
        BY <1>8, <2>3 DEF Release
      <4>4. UNCHANGED <<closed, call, waitEpoch>>
        BY <1>8, <2>3 DEF Release, Finalize
      <4>5. QED
        BY <4>1, <4>2, <4>3, <4>4
    <3>2. (HolderAgrees /\ OthersGone /\ UnclaimedUntouched)'
      BY <1>8, <2>3 DEF Release, Finalize
    <3>3. (IdleCount /\ EpochsBounded)'
      BY <1>8, <2>3 DEF Release, Finalize
    <3>4. QED
      BY <3>1, <3>2, <3>3
  <2>4. QED
    BY <2>1, <2>2, <2>3
<1>9. ASSUME NEW r \in Runs, WrapperDone(r)
      PROVE  GuardInv'
  <2>1. CASE ~Holds(r)
    BY <1>9, <2>1 DEF WrapperDone
  <2>2. CASE Holds(r) /\ ~current.ownerReleased
    <3>1. TypeOK'
      <4>1. current' \in Claims
        <5>1. current' = [current EXCEPT !.wrapperFinished = TRUE]
          BY <1>9, <2>2 DEF WrapperDone
        <5>2. [current EXCEPT !.wrapperFinished = TRUE] \in Claims
          BY ClaimUpdates
        <5>3. QED
          BY <5>1, <5>2
      <4>2. wrapper' \in [Runs -> WrapperStates]
        BY <1>9 DEF WrapperDone
      <4>3. UNCHANGED <<closed, epoch, idleCloses, call, waitEpoch, ownerDone>>
        BY <1>9, <2>2 DEF WrapperDone
      <4>4. QED
        BY <4>1, <4>2, <4>3
    <3>2. (HolderAgrees /\ OthersGone /\ UnclaimedUntouched)'
      BY <1>9, <2>2 DEF WrapperDone
    <3>3. (IdleCount /\ EpochsBounded)'
      BY <1>9, <2>2 DEF WrapperDone
    <3>4. QED
      BY <3>1, <3>2, <3>3
  <2>3. CASE Holds(r) /\ current.ownerReleased
    <3>1. TypeOK'
      <4>1. current' \in Claims
        <5>1. current' = NoClaim
          BY <1>9, <2>3 DEF WrapperDone, Finalize
        <5>2. NoClaim \in Claims
          OBVIOUS
        <5>3. QED
          BY <5>1, <5>2
      <4>2. epoch' \in Nat /\ idleCloses' \in Nat
        BY <1>9, <2>3 DEF WrapperDone, Finalize
      <4>3. ownerDone' \in [Runs -> BOOLEAN] /\ wrapper' \in [Runs -> WrapperStates]
        BY <1>9, <2>3 DEF WrapperDone
      <4>4. UNCHANGED <<closed, call, waitEpoch>>
        BY <1>9, <2>3 DEF WrapperDone, Finalize
      <4>5. QED
        BY <4>1, <4>2, <4>3, <4>4
    <3>2. (HolderAgrees /\ OthersGone /\ UnclaimedUntouched)'
      BY <1>9, <2>3 DEF WrapperDone, Finalize
    <3>3. (IdleCount /\ EpochsBounded)'
      BY <1>9, <2>3 DEF WrapperDone, Finalize
    <3>4. QED
      BY <3>1, <3>2, <3>3
  <2>4. QED
    BY <2>1, <2>2, <2>3
<1>10. ASSUME NEW r \in Runs, NEW withStatus \in BOOLEAN,
              RegisterRunWrapper(r, withStatus)
       PROVE  GuardInv'
  <2>1. TypeOK'
    BY <1>10 DEF RegisterRunWrapper
  <2>2. HolderAgrees'
    BY <1>10 DEF RegisterRunWrapper
  <2>3. OthersGone' /\ UnclaimedUntouched'
    BY <1>10 DEF RegisterRunWrapper
  <2>4. IdleCount' /\ EpochsBounded'
    BY <1>10 DEF RegisterRunWrapper
  <2>5. QED
    BY <2>1, <2>2, <2>3, <2>4
<1>11. ASSUME NEW r \in Runs, RegisterRunWrapperStale(r)
       PROVE  GuardInv'
  BY <1>11 DEF RegisterRunWrapperStale
<1>12. ASSUME NEW r \in Runs, SetRunWrapperStatus(r)
       PROVE  GuardInv'
  BY <1>12 DEF SetRunWrapperStatus
<1>13. CASE UNCHANGED vars
  BY <1>13 DEF vars
<1> HIDE DEF GuardInv
<1>14. QED
  BY <1>1, <1>2, <1>3, <1>4, <1>5, <1>6, <1>7, <1>8, <1>9, <1>10, <1>11,
     <1>12, <1>13 DEF Next

\* The invariant holds in every behaviour of the guard.
THEOREM GuardInvariance == Spec => []GuardInv
  BY GuardInit, GuardStep, PTL DEF Spec

\* Type correctness of the guard and its clients.
THEOREM TypeCorrect == Spec => []TypeOK
<1>1. GuardInv => TypeOK
  BY DEF GuardInv
<1>2. QED
  BY <1>1, GuardInvariance, PTL

\* At most one run is active, for any number of runs (Release and
\* RegisterRunWrapper free the slot only when both have completed).
THEOREM OneActiveRun == Spec => []MutualExclusion
<1>1. GuardInv => MutualExclusion
  BY DEF GuardInv, OthersGone, MutualExclusion, Active, Holds
<1>2. QED
  BY <1>1, GuardInvariance, PTL

\* A step never takes the slot from a run that is still active after it
\* (Release and the done callback compare the claim).
THEOREM OnlyOwnersRelease == Spec => OnlyOwnRelease
<1>1. ASSUME GuardInv', NEW r \in Runs, Active(r)' PROVE current'.claim = r
  BY <1>1 DEF GuardInv, OthersGone, Active, Holds
<1>2. GuardInv' => \A r \in Runs : Holds(r) /\ Active(r)' => current'.claim = r
  BY <1>1
<1>3. QED
  BY <1>2, GuardInvariance, PTL DEF OnlyOwnRelease

\* The idle signal is closed at most once, and only when admission is closed
\* and no run is active.
THEOREM IdleSignalIsFinal == Spec => []IdleIsFinal
<1>1. GuardInv => IdleIsFinal
  BY NoRunIsNotARun
  DEF GuardInv, TypeOK, OthersGone, IdleCount, IdleIsFinal, Active, Holds
<1>2. QED
  BY <1>1, GuardInvariance, PTL

\* No claimant waits for a release that has already happened.
THEOREM WakeupsAreNotLost == Spec => []NoLostWakeup
<1>1. GuardInv => NoLostWakeup
  BY DEF GuardInv, TypeOK, EpochsBounded, NoLostWakeup
<1>2. QED
  BY <1>1, GuardInvariance, PTL

\* The slot is held by a run that is still at work, and an idle signal that is
\* waited for and has not come has such a run to send it: a release or a completion
\* that arrives late, twice or in the other order leaves neither the slot busy nor
\* the teardown waiting for good (Release, finalizeReleaseLocked).
HolderIsActive ==
    /\ \A r \in Runs : Holds(r) => Active(r)
    /\ closed /\ idleCloses = 0 => \E r \in Runs : Active(r)

\* The slot does not leak.
THEOREM SlotNeverLeaks == Spec => []HolderIsActive
<1>1. GuardInv => HolderIsActive
  <2> SUFFICES ASSUME GuardInv PROVE HolderIsActive
    OBVIOUS
  <2>1. \A r \in Runs : Holds(r) => Active(r)
    BY DEF GuardInv, HolderAgrees, Active
  <2>2. ASSUME closed, idleCloses = 0 PROVE \E r \in Runs : Active(r)
    <3>1. current.claim \in Runs
      BY <2>2 DEF GuardInv, IdleCount, TypeOK, Claims
    <3>2. Holds(current.claim)
      BY DEF Holds
    <3>3. QED
      BY <2>1, <3>1, <3>2
  <2>3. QED
    BY <2>1, <2>2 DEF HolderIsActive
<1>2. QED
  BY <1>1, GuardInvariance, PTL

-----------------------------------------------------------------------------
(* Refinement *)

\* A step of the guard is an admission, a departure, the closing of
\* admission, or invisible to the abstract specification.
LEMMA GuardSimulates ==
    GuardInv /\ GuardInv' /\ [Next]_vars
        => [Admission!AdmissionNext]_(Admission!admissionVars)
<1> SUFFICES ASSUME GuardInv, GuardInv', [Next]_vars
             PROVE  [Admission!AdmissionNext]_(Admission!admissionVars)
  OBVIOUS
<1> DEFINE Admitted == {r \in Runs : call[r] = "claimed"}
<1> USE NoRunIsNotARun DEF Admission!admissionVars, guardVars, callVars, leaseVars
<1>1. CASE CloseAdmission
  <2>1. (idleCloses' > 0) <=> current.claim = NoRun
    BY <1>1 DEF CloseAdmission, GuardInv, IdleCount
  <2>2. ~closed /\ closed' = TRUE /\ UNCHANGED <<current, call>>
    BY <1>1 DEF CloseAdmission
  <2>3. UNCHANGED Admitted /\ UNCHANGED current.claim
    BY <2>2
  <2>4. Admission!Close
    <3>1. CASE current.claim = NoRun
      BY <2>1, <2>2, <2>3, <3>1 DEF Admission!Close
    <3>2. CASE current.claim # NoRun
      BY <2>1, <2>2, <2>3, <3>2 DEF Admission!Close
    <3>3. QED
      BY <3>1, <3>2
  <2>5. QED
    BY <2>4 DEF Admission!AdmissionNext
<1>2. ASSUME NEW r \in Runs, Publish(r), Unclaimed(r), ~closed,
             current.claim = NoRun
      PROVE  Admission!Admit(r)
  <2>1. current'.claim = r /\ UNCHANGED <<closed, idleCloses>>
    BY <1>2 DEF Publish, NoClaim
  <2>2. r \notin Admitted
    BY <1>2 DEF Unclaimed
  <2>3. Admitted' = Admitted \union {r}
    BY <1>2 DEF Publish, GuardInv, TypeOK
  <2>4. QED
    BY <2>1, <2>2, <2>3, <1>2 DEF Admission!Admit
<1>4. ASSUME Finalize, UNCHANGED callVars, current.claim # NoRun
      PROVE  Admission!Vacate
  BY <1>4 DEF Finalize, NoClaim, GuardInv, TypeOK, IdleCount, Admission!Vacate
<1>5. ASSUME NEW r \in Runs, ClaimAdmitted(r) \/ TryClaimAdmitted(r)
      PROVE  Admission!AdmissionNext
  BY <1>2, <1>5
  DEF ClaimAdmitted, TryClaimAdmitted, Unclaimed, Admission!AdmissionNext
<1>6. ASSUME NEW r \in Runs,
             \/ ClaimRejected(r) \/ ClaimWaits(r) \/ ClaimCanceled(r)
             \/ TryClaimRefused(r)
      PROVE  UNCHANGED Admission!admissionVars
  BY <1>6 DEF ClaimRejected, ClaimWaits, ClaimCanceled, TryClaimRefused,
              Unclaimed, GuardInv, TypeOK
<1>7. ASSUME NEW r \in Runs, Release(r)
      PROVE  Admission!Vacate \/ UNCHANGED Admission!admissionVars
  <2>1. CASE ~Holds(r)
    BY <1>7, <2>1 DEF Release
  <2>2. CASE Holds(r) /\ current.wrapperRegistered /\ ~current.wrapperFinished
    <3>1. current'.claim = current.claim
      BY <1>7, <2>2 DEF Release, GuardInv, TypeOK, Claims
    <3>2. QED
      BY <1>7, <2>2, <3>1 DEF Release
  <2>3. CASE Holds(r) /\ ~(current.wrapperRegistered /\ ~current.wrapperFinished)
    BY <1>4, <1>7, <2>3 DEF Release, Holds
  <2>4. QED
    BY <2>1, <2>2, <2>3
<1>8. ASSUME NEW r \in Runs, WrapperDone(r)
      PROVE  Admission!Vacate \/ UNCHANGED Admission!admissionVars
  <2>1. CASE ~Holds(r)
    BY <1>8, <2>1 DEF WrapperDone
  <2>2. CASE Holds(r) /\ ~current.ownerReleased
    <3>1. current'.claim = current.claim
      BY <1>8, <2>2 DEF WrapperDone, GuardInv, TypeOK, Claims
    <3>2. QED
      BY <1>8, <2>2, <3>1 DEF WrapperDone
  <2>3. CASE Holds(r) /\ current.ownerReleased
    BY <1>4, <1>8, <2>3 DEF WrapperDone, Holds
  <2>4. QED
    BY <2>1, <2>2, <2>3
<1>9. ASSUME NEW r \in Runs,
             \/ \E withStatus \in BOOLEAN : RegisterRunWrapper(r, withStatus)
             \/ RegisterRunWrapperStale(r)
             \/ SetRunWrapperStatus(r)
      PROVE  UNCHANGED Admission!admissionVars
  BY <1>9 DEF RegisterRunWrapper, RegisterRunWrapperStale,
              SetRunWrapperStatus, GuardInv, TypeOK, Claims
<1>10. CASE UNCHANGED vars
  BY <1>10 DEF vars
<1>11. QED
  BY <1>1, <1>5, <1>6, <1>7, <1>8, <1>9, <1>10
  DEF Next, Admission!AdmissionNext

\* The guard implements one-at-a-time admission with a final idle signal.
THEOREM GuardImplementsAdmission == Spec => AdmissionSpec
<1>1. Init => Admission!AdmissionInit
  BY DEF Init, NoClaim, Admission!AdmissionInit
<1>2. QED
  BY <1>1, GuardInvariance, GuardSimulates, PTL
  DEF Spec, AdmissionSpec, Admission!AdmissionSpec

(***************************************************************************)
(* Closing the assembly                                                    *)
(***************************************************************************)

CallerStates == {"new", "fence", "admission", "server", "once", "waiting", "result", "pending"}

\* Inside the once that starts the owner.
Starting == {"fence", "admission", "server"}

AssemblyTypeOK ==
    /\ at \in [Closers -> CallerStates]
    /\ owner \in 0..Done
    /\ outcome \in {"none", "unknown", "session"}
    /\ owned \subseteq Kinds /\ barred \subseteq owned
    /\ work \in [Kinds -> {"none", "busy", "ended"}]
    /\ released \subseteq Resources
    /\ expired \in BOOLEAN

\* The step of Plan behind which a kind of work cannot begin, and the one behind
\* which it has ended: child, memory, reload ... in the order of requestStop and
\* closeResources.  The server is barred before the owner starts; extractions
\* are never barred, no new one begins once Close was called.
BarredBy == [child |-> 1, server |-> 0, memory |-> 2, switch |-> 8, reload |-> 3,
             plugin |-> 11, extraction |-> 0, transition |-> 16]

JoinedBy == [child |-> 4, server |-> 5, memory |-> 7, switch |-> 9, reload |-> 10,
             plugin |-> 12, extraction |-> 19, transition |-> 17]

\* The step that releases a resource.
ReleasedBy == [clients |-> 13, acp |-> 14, tools |-> 15, session |-> 17, store |-> 18,
               memstore |-> 20, bus |-> 21, model |-> 22]

IdleStep == 6
SessionStep == 17

\* One Close is inside the once, before the owner starts.
OnceInv ==
    /\ \A k, l \in Closers : at[k] \in Starting /\ at[l] \in Starting => k = l
    /\ \A k \in Closers :
          /\ at[k] \in Starting => owner = 0
          /\ at[k] \in {"waiting", "result", "pending"} => owner > 0
          /\ at[k] = "server" => closed
          /\ at[k] = "result" => owner = Done
    /\ owner > 0 => /\ closed
                    /\ \E k \in Closers : at[k] \in {"waiting", "result", "pending"}

\* What the owner has left behind, as far as its plan has come.
PlanInv ==
    /\ \A k \in Kinds : work[k] = "busy" => k \in owned
    /\ \A k \in owned \ {"extraction"} : owner > BarredBy[k] => k \in barred
    /\ \A k \in Kinds : owner > JoinedBy[k] => work[k] # "busy"
    /\ released = {r \in Resources : ReleasedBy[r] < owner}
    /\ owner > IdleStep => idleCloses > 0

AssemblyInv == GuardInv /\ AssemblyTypeOK /\ OnceInv /\ PlanInv

-----------------------------------------------------------------------------

\* The plan has 22 steps.
LEMMA PlanLength == Len(Plan) = 22 /\ Done = 23
  BY DEF Plan, Done

\* What each step of the plan bars.
LEMMA PlanBars ==
    /\ Plan[1].bars = {"child"} /\ Plan[2].bars = {"memory"} /\ Plan[3].bars = {"reload"}
    /\ Plan[4].bars = {} /\ Plan[5].bars = {} /\ Plan[6].bars = {}
    /\ Plan[7].bars = {} /\ Plan[8].bars = {"switch"} /\ Plan[9].bars = {}
    /\ Plan[10].bars = {} /\ Plan[11].bars = {"plugin"} /\ Plan[12].bars = {}
    /\ Plan[13].bars = {} /\ Plan[14].bars = {} /\ Plan[15].bars = {}
    /\ Plan[16].bars = {"transition"} /\ Plan[17].bars = {} /\ Plan[18].bars = {}
    /\ Plan[19].bars = {} /\ Plan[20].bars = {} /\ Plan[21].bars = {}
    /\ Plan[22].bars = {}
  BY DEF Plan, Stop, Join, Free, MayHang, Idle, Session, Nothing

\* What each step of the plan joins.
LEMMA PlanJoins ==
    /\ Plan[1].joins = {} /\ Plan[2].joins = {} /\ Plan[3].joins = {}
    /\ Plan[4].joins = {"child"} /\ Plan[5].joins = {"server"} /\ Plan[6].joins = {}
    /\ Plan[7].joins = {"memory"} /\ Plan[8].joins = {} /\ Plan[9].joins = {"switch"}
    /\ Plan[10].joins = {"reload"} /\ Plan[11].joins = {} /\ Plan[12].joins = {"plugin"}
    /\ Plan[13].joins = {} /\ Plan[14].joins = {} /\ Plan[15].joins = {}
    /\ Plan[16].joins = {} /\ Plan[17].joins = {} /\ Plan[18].joins = {}
    /\ Plan[19].joins = {"extraction"} /\ Plan[20].joins = {} /\ Plan[21].joins = {}
    /\ Plan[22].joins = {}
  BY DEF Plan, Stop, Join, Free, MayHang, Idle, Session, Nothing

\* What each step of the plan releases.
LEMMA PlanCloses ==
    /\ Plan[1].closes = {} /\ Plan[2].closes = {} /\ Plan[3].closes = {}
    /\ Plan[4].closes = {} /\ Plan[5].closes = {} /\ Plan[6].closes = {}
    /\ Plan[7].closes = {} /\ Plan[8].closes = {} /\ Plan[9].closes = {}
    /\ Plan[10].closes = {} /\ Plan[11].closes = {} /\ Plan[12].closes = {}
    /\ Plan[13].closes = {"clients"} /\ Plan[14].closes = {"acp"} /\ Plan[15].closes = {"tools"}
    /\ Plan[16].closes = {} /\ Plan[17].closes = {"session"} /\ Plan[18].closes = {"store"}
    /\ Plan[19].closes = {} /\ Plan[20].closes = {"memstore"} /\ Plan[21].closes = {"bus"}
    /\ Plan[22].closes = {"model"}
  BY DEF Plan, Stop, Join, Free, MayHang, Idle, Session, Nothing


\* The tables are the plan: what a step bars, joins and releases is what the
\* tables place at it.
LEMMA PlanSteps ==
    ASSUME NEW i \in 1..22
    PROVE  /\ Plan[i].bars = {k \in Kinds \ {"server", "extraction"} : BarredBy[k] = i}
           /\ i # SessionStep => Plan[i].joins = {k \in Kinds : JoinedBy[k] = i}
           /\ Plan[i].closes = {r \in Resources : ReleasedBy[r] = i}
<1>1. /\ i = 1 => Plan[i].bars = {"child"}
      /\ i = 2 => Plan[i].bars = {"memory"}
      /\ i = 3 => Plan[i].bars = {"reload"}
      /\ i = 8 => Plan[i].bars = {"switch"}
      /\ i = 11 => Plan[i].bars = {"plugin"}
      /\ i = 16 => Plan[i].bars = {"transition"}
      /\ i \notin {1, 2, 3, 8, 11, 16} => Plan[i].bars = {}
  BY PlanBars
<1>2. /\ i = 4 => Plan[i].joins = {"child"}
      /\ i = 5 => Plan[i].joins = {"server"}
      /\ i = 7 => Plan[i].joins = {"memory"}
      /\ i = 9 => Plan[i].joins = {"switch"}
      /\ i = 10 => Plan[i].joins = {"reload"}
      /\ i = 12 => Plan[i].joins = {"plugin"}
      /\ i = 19 => Plan[i].joins = {"extraction"}
      /\ i \notin {4, 5, 7, 9, 10, 12, 19} => Plan[i].joins = {}
  BY PlanJoins
<1>3. /\ i = 13 => Plan[i].closes = {"clients"}
      /\ i = 14 => Plan[i].closes = {"acp"}
      /\ i = 15 => Plan[i].closes = {"tools"}
      /\ i = 17 => Plan[i].closes = {"session"}
      /\ i = 18 => Plan[i].closes = {"store"}
      /\ i = 20 => Plan[i].closes = {"memstore"}
      /\ i = 21 => Plan[i].closes = {"bus"}
      /\ i = 22 => Plan[i].closes = {"model"}
      /\ i \notin {13, 14, 15, 17, 18, 20, 21, 22} => Plan[i].closes = {}
  BY PlanCloses
<1>4. Plan[i].bars = {k \in Kinds \ {"server", "extraction"} : BarredBy[k] = i}
  BY <1>1 DEF Kinds, HandedOver, BarredBy
<1>5. i # SessionStep => Plan[i].joins = {k \in Kinds : JoinedBy[k] = i}
  BY <1>2 DEF Kinds, HandedOver, JoinedBy, SessionStep
<1>6. Plan[i].closes = {r \in Resources : ReleasedBy[r] = i}
  BY <1>3 DEF Resources, ReleasedBy
<1>7. QED
  BY <1>4, <1>5, <1>6

\* The two steps that have actions of their own.
LEMMA PlanMarks ==
    /\ Session.closes = {"session"}
    /\ \A i \in 1..22 : /\ Plan[i] = Idle <=> i = IdleStep
                        /\ Plan[i] = Session <=> i = SessionStep
<1>1. Idle.bars = {} /\ Idle.joins = {} /\ Idle.closes = {}
  BY DEF Idle, Nothing
<1>2. Session.closes = {"session"}
  BY DEF Session, Free, Nothing
<1>3. Plan[6] = Idle /\ Plan[17] = Session
  BY DEF Plan
<1>4. ASSUME NEW i \in 1..22, Plan[i].bars = {}, Plan[i].joins = {}, Plan[i].closes = {}
      PROVE  i = 6
  <2>1. i \in {1, 2, 3, 8, 11, 16} => Plan[i].bars # {}
    BY PlanBars
  <2>2. i \in {4, 5, 7, 9, 10, 12, 19} => Plan[i].joins # {}
    BY PlanJoins
  <2>3. i \in {13, 14, 15, 17, 18, 20, 21, 22} => Plan[i].closes # {}
    BY PlanCloses
  <2>4. QED
    BY <1>4, <2>1, <2>2, <2>3
<1>5. ASSUME NEW i \in 1..22, Plan[i].closes = {"session"}
      PROVE  i = 17
  <2>1. i \notin {13, 14, 15, 17, 18, 20, 21, 22} => Plan[i].closes = {}
    BY PlanCloses
  <2>2. i \in {13, 14, 15, 18, 20, 21, 22} => Plan[i].closes # {"session"}
    BY PlanCloses
  <2>3. QED
    BY <1>5, <2>1, <2>2
<1>6. QED
  BY <1>1, <1>2, <1>3, <1>4, <1>5 DEF IdleStep, SessionStep

\* Where the tables place a kind of work and a resource: the order on which the
\* safety of the shutdown rests.
LEMMA TableOrder ==
    /\ \A k \in Kinds : /\ BarredBy[k] \in 0..16 /\ JoinedBy[k] \in 4..19
                        /\ BarredBy[k] < JoinedBy[k]
                        /\ BarredBy[k] \notin {IdleStep, SessionStep}
                        /\ JoinedBy[k] # IdleStep
                        /\ BarredBy[k] = 0 => k \in {"server", "extraction"}
                        /\ JoinedBy[k] = SessionStep => k = "transition"
    /\ \A r \in Resources : /\ ReleasedBy[r] \in 13..22
                            /\ ReleasedBy[r] = SessionStep <=> r = "session"
    /\ \A k \in Kinds : \A r \in Uses[k] : r \in Resources /\ JoinedBy[k] <= ReleasedBy[r]
<1> USE DEF Kinds, HandedOver, Resources, IdleStep, SessionStep
<1>1. \A k \in Kinds : /\ BarredBy[k] \in 0..16 /\ JoinedBy[k] \in 4..19
                       /\ BarredBy[k] < JoinedBy[k]
                       /\ BarredBy[k] \notin {IdleStep, SessionStep}
                       /\ JoinedBy[k] # IdleStep
                       /\ BarredBy[k] = 0 => k \in {"server", "extraction"}
                       /\ JoinedBy[k] = SessionStep => k = "transition"
  BY DEF BarredBy, JoinedBy
<1>2. \A r \in Resources : /\ ReleasedBy[r] \in 13..22
                           /\ ReleasedBy[r] = SessionStep <=> r = "session"
  BY DEF ReleasedBy
<1>3. \A k \in Kinds : \A r \in Uses[k] : r \in Resources /\ JoinedBy[k] <= ReleasedBy[r]
  BY DEF Uses, JoinedBy, ReleasedBy
<1>4. QED
  BY <1>1, <1>2, <1>3

\* Admission never reopens and the idle signal is never withdrawn.
LEMMA SlotForward ==
    ASSUME GuardInv, [Next]_vars
    PROVE  /\ closed => closed'
           /\ idleCloses > 0 => idleCloses' > 0
<1> USE DEF guardVars, callVars, leaseVars, GuardInv, TypeOK, Finalize
<1>1. CASE CloseAdmission
  BY <1>1 DEF CloseAdmission
<1>2. ASSUME NEW r \in Runs,
             \/ ClaimAdmitted(r) \/ ClaimRejected(r) \/ ClaimWaits(r)
             \/ ClaimCanceled(r) \/ TryClaimAdmitted(r) \/ TryClaimRefused(r)
      PROVE  UNCHANGED <<closed, idleCloses>>
  BY <1>2 DEF ClaimAdmitted, ClaimRejected, ClaimWaits, ClaimCanceled,
              TryClaimAdmitted, TryClaimRefused, Publish
<1>3. ASSUME NEW r \in Runs, Release(r) \/ WrapperDone(r)
      PROVE  closed' = closed /\ (idleCloses > 0 => idleCloses' > 0)
  BY <1>3 DEF Release, WrapperDone
<1>4. ASSUME NEW r \in Runs,
             \/ \E withStatus \in BOOLEAN : RegisterRunWrapper(r, withStatus)
             \/ RegisterRunWrapperStale(r)
             \/ SetRunWrapperStatus(r)
      PROVE  UNCHANGED <<closed, idleCloses>>
  BY <1>4 DEF RegisterRunWrapper, RegisterRunWrapperStale, SetRunWrapperStatus
<1>5. CASE UNCHANGED vars
  BY <1>5 DEF vars
<1>6. QED
  BY <1>1, <1>2, <1>3, <1>4, <1>5 DEF Next

\* Once the idle signal has fired, no run is active.
LEMMA QuietWhenIdle ==
    ASSUME GuardInv, idleCloses > 0, NEW r \in Runs
    PROVE  ~Active(r)
  BY NoRunIsNotARun DEF GuardInv, TypeOK, OthersGone, IdleCount, Active, Holds

\* Closing the assembly does nothing to the slot but steps of the slot.
LEMMA AssemblyStepsSlot ==
    ASSUME [AssemblyNext]_assemblyVars
    PROVE  [Next]_vars
<1>1. ASSUME NEW k \in Closers, CloseRuns(k)
      PROVE  [Next]_vars
  BY <1>1 DEF CloseRuns, Next
<1>2. ASSUME NEW k \in Closers, CloseCall(k), ~CloseRuns(k)
      PROVE  UNCHANGED vars
  BY <1>2 DEF CloseCall, EnterOnce, FenceReloads, SealServer, CallOnce,
              LeaveOnce, ReturnResult, ReturnPending
<1>3. ASSUME NEW k \in Kinds, Register(k) \/ Begin(k) \/ End(k)
      PROVE  UNCHANGED vars
  BY <1>3 DEF Register, Begin, End
<1>4. CASE BudgetExpires \/ Owner \/ OwnerUnknown
  BY <1>4 DEF BudgetExpires, Owner, OwnerStep, OwnerIdle, OwnerSession,
              OwnerSessionPending, OwnerUnknown, Leave, GiveUp
<1>5. QED
  BY <1>1, <1>2, <1>3, <1>4 DEF AssemblyNext, SlotStep, assemblyVars

\* The assembly runs its slot as RunSlotGuard describes it.
THEOREM AssemblyRunsSlot == AssemblySpec => Spec
<1>1. AssemblyInit => Init
  BY DEF AssemblyInit
<1>2. [AssemblyNext]_assemblyVars => [Next]_vars
  BY AssemblyStepsSlot
<1>3. QED
  BY <1>1, <1>2, PTL DEF AssemblySpec, Spec

\* At most one run is active in the assembly, while it is closed as before
\* (CloseAdmission is called by Close and by the selector of models).
THEOREM OneRunInAssembly == AssemblySpec => []MutualExclusion
  BY AssemblyRunsSlot, OneActiveRun, PTL

\* The assembly as a whole implements one-at-a-time admission.
THEOREM AssemblyImplementsAdmission == AssemblySpec => AdmissionSpec
  BY AssemblyRunsSlot, GuardImplementsAdmission

-----------------------------------------------------------------------------

\* A new assembly satisfies the invariant.
LEMMA AssemblyStarts == AssemblyInit => AssemblyInv
<1> SUFFICES ASSUME AssemblyInit PROVE AssemblyInv
  OBVIOUS
<1> USE DEF AssemblyInit
<1>1. GuardInv
  BY GuardInit
<1>2. AssemblyTypeOK
  <2>1. at \in [Closers -> CallerStates] /\ work \in [Kinds -> {"none", "busy", "ended"}]
    BY DEF CallerStates
  <2>2. owner \in 0..Done
    BY PlanLength
  <2>3. QED
    BY <2>1, <2>2 DEF AssemblyTypeOK
<1>3. OnceInv
  BY DEF OnceInv, Starting
<1>4. PlanInv
  <2>1. \A k \in Kinds : work[k] = "none"
    OBVIOUS
  <2>2. owner = 0 /\ released = {}
    OBVIOUS
  <2>3. owned \subseteq Kinds
    OBVIOUS
  <2> HIDE DEF AssemblyInit
  <2>4. QED
    BY <2>1, <2>2, <2>3, TableOrder DEF PlanInv, IdleStep
<1>5. QED
  BY <1>1, <1>2, <1>3, <1>4 DEF AssemblyInv

\* Once the owner has started, the deadline is set and the reloads are fenced.
LEMMA OwnerAfterOnce ==
    ASSUME OnceInv, owner > 0
    PROVE  DeadlineSet /\ ReloadFenced
  BY DEF OnceInv, DeadlineSet, ReloadFenced

\* What the calls of Close and the timer leave of the owner's books.
LEMMA PlanKept ==
    ASSUME PlanInv, UNCHANGED <<owner, owned, barred, work, released>>,
           idleCloses > 0 => idleCloses' > 0
    PROVE  PlanInv'
  BY DEF PlanInv

\* Steps of the work preserve the invariant.
LEMMA WorkKeeps ==
    ASSUME AssemblyInv, NEW k \in Kinds, Register(k) \/ Begin(k) \/ End(k)
    PROVE  (AssemblyTypeOK /\ OnceInv /\ PlanInv)'
<1> USE DEF AssemblyInv
<1>1. AssemblyTypeOK'
  <2>1. CASE Register(k)
    BY <2>1 DEF AssemblyTypeOK, Register, ownerVars
  <2>2. CASE Begin(k)
    BY <2>2 DEF AssemblyTypeOK, Begin, ownerVars
  <2>3. CASE End(k)
    BY <2>3 DEF AssemblyTypeOK, End, ownerVars
  <2>4. QED
    BY <2>1, <2>2, <2>3
<1>2. OnceInv'
  BY DEF OnceInv, Register, Begin, End, ownerVars, vars, guardVars
<1>3. UNCHANGED <<owner, released, barred, idleCloses>>
  BY DEF Register, Begin, End, ownerVars, vars, guardVars
<1>4. CASE Register(k)
  <2>1. owner = 0
    BY <1>4, OwnerAfterOnce DEF Register, AssemblyTypeOK
  <2>2. work' = work /\ owned' = owned \union {k}
    BY <1>4 DEF Register
  <2>3. k = "server" \/ k = "reload"
    BY <1>4 DEF Register, HandedOver
  <2>4. QED
    BY <1>1, <1>2, <1>3, <2>1, <2>2, TableOrder DEF PlanInv
<1>5. CASE Begin(k)
  <2>1. k \in owned \ barred /\ owned' = owned
    BY <1>5 DEF Begin
  <2>2. work'[k] = "busy" /\ \A j \in Kinds \ {k} : work'[j] = work[j]
    BY <1>5 DEF Begin, AssemblyTypeOK
  <2>3. owner <= JoinedBy[k]
    <3>1. CASE k = "extraction"
      BY <1>5, <3>1, OwnerAfterOnce, TableOrder DEF Begin, AssemblyTypeOK
    <3>2. CASE k # "extraction"
      <4>1. ~(owner > BarredBy[k])
        BY <2>1, <3>2 DEF PlanInv
      <4>2. QED
        BY <4>1, TableOrder DEF AssemblyTypeOK
    <3>3. QED
      BY <3>1, <3>2
  <2>4. ~(owner > JoinedBy[k])
    BY <2>3, TableOrder DEF AssemblyTypeOK
  <2>5. QED
    BY <1>1, <1>2, <1>3, <2>1, <2>2, <2>4 DEF PlanInv
<1>6. CASE End(k)
  <2>1. work'[k] = "ended" /\ \A j \in Kinds \ {k} : work'[j] = work[j]
    BY <1>6 DEF End, AssemblyTypeOK
  <2>2. owned' = owned
    BY <1>6 DEF End
  <2>3. QED
    BY <1>1, <1>2, <1>3, <2>1, <2>2 DEF PlanInv
<1>7. QED
  BY <1>4, <1>5, <1>6

\* Steps of a call of Close preserve the invariant.
LEMMA CallKeeps ==
    ASSUME AssemblyInv, GuardInv', NEW k \in Closers, CloseCall(k)
    PROVE  (AssemblyTypeOK /\ OnceInv /\ PlanInv)'
<1> USE DEF AssemblyInv
<1>0. closed => closed'
  BY DEF CloseCall, EnterOnce, FenceReloads, CloseRuns, SealServer, CallOnce,
         LeaveOnce, ReturnResult, ReturnPending, CloseAdmission, vars, guardVars
<1>1. idleCloses > 0 => idleCloses' > 0
  BY DEF CloseCall, EnterOnce, FenceReloads, CloseRuns, SealServer, CallOnce,
         LeaveOnce, ReturnResult, ReturnPending, CloseAdmission, vars, guardVars,
         GuardInv, TypeOK
<1>2. ASSUME NEW from \in CallerStates, NEW to \in CallerStates, Advance(k, from, to)
      PROVE  /\ at[k] = from /\ at' \in [Closers -> CallerStates] /\ at'[k] = to
             /\ \A j \in Closers \ {k} : at'[j] = at[j]
  BY <1>2 DEF Advance, AssemblyTypeOK
<1>3. ASSUME \/ EnterOnce(k) \/ FenceReloads(k) \/ CloseRuns(k)
             \/ CallOnce(k) \/ LeaveOnce(k) \/ ReturnResult(k) \/ ReturnPending(k)
      PROVE  UNCHANGED <<owner, outcome, owned, barred, work, released, expired>>
  BY <1>3 DEF EnterOnce, FenceReloads, CloseRuns, CallOnce, LeaveOnce,
              ReturnResult, ReturnPending, ownerVars, workVars
<1>4. CASE EnterOnce(k)
  <2>1. at[k] = "new" /\ at'[k] = "fence" /\ \A j \in Closers \ {k} : at'[j] = at[j] /\ at[j] = "new"
    BY <1>2, <1>4 DEF EnterOnce, CallerStates, DeadlineSet
  <2>2. owner = 0
    BY <1>4, OwnerAfterOnce DEF EnterOnce, AssemblyTypeOK
  <2>3. OnceInv'
    BY <1>0, <1>3, <1>4, <2>1, <2>2 DEF OnceInv, Starting
  <2>4. AssemblyTypeOK'
    BY <1>2, <1>3, <1>4 DEF EnterOnce, AssemblyTypeOK, CallerStates
  <2>5. QED
    BY <1>1, <1>3, <1>4, <2>3, <2>4, PlanKept
<1>5. CASE FenceReloads(k)
  <2>1. at[k] = "fence" /\ at'[k] = "admission" /\ \A j \in Closers \ {k} : at'[j] = at[j]
    BY <1>2, <1>5 DEF FenceReloads, CallerStates
  <2>2. OnceInv'
    BY <1>0, <1>3, <1>5, <2>1 DEF OnceInv, Starting
  <2>3. AssemblyTypeOK'
    BY <1>2, <1>3, <1>5 DEF FenceReloads, AssemblyTypeOK, CallerStates
  <2>4. QED
    BY <1>1, <1>3, <1>5, <2>2, <2>3, PlanKept
<1>6. CASE CloseRuns(k)
  <2>1. at[k] = "admission" /\ at'[k] = "server" /\ \A j \in Closers \ {k} : at'[j] = at[j]
    BY <1>2, <1>6 DEF CloseRuns, CallerStates
  <2>2. closed'
    BY <1>6 DEF CloseRuns, CloseAdmission, vars, guardVars
  <2>3. OnceInv'
    BY <1>0, <1>3, <1>6, <2>1, <2>2 DEF OnceInv, Starting
  <2>4. AssemblyTypeOK'
    BY <1>2, <1>3, <1>6 DEF CloseRuns, AssemblyTypeOK, CallerStates
  <2>5. QED
    BY <1>1, <1>3, <1>6, <2>3, <2>4, PlanKept
<1>7. CASE SealServer(k)
  <2>1. at[k] = "server" /\ at'[k] = "waiting" /\ \A j \in Closers \ {k} : at'[j] = at[j]
    BY <1>2, <1>7 DEF SealServer, CallerStates
  <2>2. owner = 0 /\ closed
    BY <2>1 DEF OnceInv, Starting
  <2>3. /\ owner' = 1 /\ barred' = barred \union (owned \intersect {"server"})
        /\ UNCHANGED <<outcome, owned, work, released, expired>>
    BY <1>7 DEF SealServer
  <2>4. OnceInv'
    BY <1>0, <2>1, <2>2, <2>3 DEF OnceInv, Starting
  <2>5. AssemblyTypeOK'
    BY <1>2, <1>7, <2>3, PlanLength DEF SealServer, AssemblyTypeOK, CallerStates
  <2>6. PlanInv'
    BY <2>2, <2>3, TableOrder DEF PlanInv, IdleStep, AssemblyTypeOK
  <2>7. QED
    BY <2>4, <2>5, <2>6
<1>8. CASE CallOnce(k)
  <2>1. at[k] = "new" /\ at'[k] = "once" /\ \A j \in Closers \ {k} : at'[j] = at[j]
    BY <1>2, <1>8 DEF CallOnce, CallerStates
  <2>2. OnceInv'
    BY <1>0, <1>3, <1>8, <2>1 DEF OnceInv, Starting
  <2>3. AssemblyTypeOK'
    BY <1>2, <1>3, <1>8 DEF CallOnce, AssemblyTypeOK, CallerStates
  <2>4. QED
    BY <1>1, <1>3, <1>8, <2>2, <2>3, PlanKept
<1>9. CASE LeaveOnce(k)
  <2>1. at[k] = "once" /\ at'[k] = "waiting" /\ \A j \in Closers \ {k} : at'[j] = at[j]
    BY <1>2, <1>9 DEF LeaveOnce, CallerStates
  <2>2. owner > 0
    BY <1>9 DEF LeaveOnce, OnceDone, OnceInv
  <2>3. OnceInv'
    BY <1>0, <1>3, <1>9, <2>1, <2>2 DEF OnceInv, Starting
  <2>4. AssemblyTypeOK'
    BY <1>2, <1>3, <1>9 DEF LeaveOnce, AssemblyTypeOK, CallerStates
  <2>5. QED
    BY <1>1, <1>3, <1>9, <2>3, <2>4, PlanKept
<1>10. CASE ReturnResult(k)
  <2>1. at[k] = "waiting" /\ at'[k] = "result" /\ \A j \in Closers \ {k} : at'[j] = at[j]
    BY <1>2, <1>10 DEF ReturnResult, CallerStates
  <2>2. owner = Done
    BY <1>10 DEF ReturnResult, Finished
  <2>3. OnceInv'
    BY <1>0, <1>3, <1>10, <2>1, <2>2 DEF OnceInv, Starting
  <2>4. AssemblyTypeOK'
    BY <1>2, <1>3, <1>10 DEF ReturnResult, AssemblyTypeOK, CallerStates
  <2>5. QED
    BY <1>1, <1>3, <1>10, <2>3, <2>4, PlanKept
<1>11. CASE ReturnPending(k)
  <2>1. at[k] = "waiting" /\ at'[k] = "pending" /\ \A j \in Closers \ {k} : at'[j] = at[j]
    BY <1>2, <1>11 DEF ReturnPending, CallerStates
  <2>2. OnceInv'
    BY <1>0, <1>3, <1>11, <2>1 DEF OnceInv, Starting
  <2>3. AssemblyTypeOK'
    BY <1>2, <1>3, <1>11 DEF ReturnPending, AssemblyTypeOK, CallerStates
  <2>4. QED
    BY <1>1, <1>3, <1>11, <2>2, <2>3, PlanKept
<1>12. QED
  BY <1>4, <1>5, <1>6, <1>7, <1>8, <1>9, <1>10, <1>11 DEF CloseCall

\* A step of the owner that goes on takes it to the next step of its plan.
LEMMA OwnerGoesOn ==
    ASSUME AssemblyInv, GuardInv', Working, Leave, released' \subseteq Resources,
           barred \subseteq barred', barred' \subseteq owned
    PROVE  (AssemblyTypeOK /\ OnceInv)'
<1> USE DEF AssemblyInv, Leave
<1>1. owner \in 1..22 /\ owner' = owner + 1
  BY PlanLength DEF Working
<1>2. AssemblyTypeOK'
  BY <1>1, PlanLength DEF AssemblyTypeOK
<1>3. OnceInv'
  BY <1>1, PlanLength DEF OnceInv, Starting, vars, guardVars
<1>4. QED
  BY <1>2, <1>3

\* Steps of the owner preserve the invariant.
LEMMA OwnerKeeps ==
    ASSUME AssemblyInv, GuardInv', Owner \/ OwnerUnknown
    PROVE  (AssemblyTypeOK /\ OnceInv /\ PlanInv)'
<1> USE DEF AssemblyInv
<1>1. CASE OwnerStep
  <2>1. /\ owner \in 1..22 /\ owner \notin {IdleStep, SessionStep}
        /\ owner' = owner + 1
        /\ UNCHANGED <<owned, work, idleCloses>>
    BY <1>1, PlanLength, PlanMarks DEF OwnerStep, Working, Leave, vars, guardVars
  <2>2. barred' = barred \union ({k \in Kinds \ {"server", "extraction"} : BarredBy[k] = owner} \intersect owned)
    BY <1>1, <2>1, PlanSteps DEF OwnerStep
  <2>3. released' = released \union {r \in Resources : ReleasedBy[r] = owner}
    BY <1>1, <2>1, PlanSteps DEF OwnerStep
  <2>4. \A k \in owned : JoinedBy[k] = owner => work[k] # "busy"
    <3>1. Plan[owner].joins = {k \in Kinds : JoinedBy[k] = owner}
      BY <2>1, PlanSteps
    <3>2. QED
      BY <1>1, <3>1 DEF OwnerStep, AssemblyTypeOK
  <2>5. (AssemblyTypeOK /\ OnceInv)'
    BY <1>1, <2>2, <2>3, OwnerGoesOn DEF OwnerStep, AssemblyTypeOK
  <2>6. \A k \in Kinds : work'[k] = "busy" => k \in owned'
    BY <2>1 DEF PlanInv
  <2>7. \A k \in owned' \ {"extraction"} : owner' > BarredBy[k] => k \in barred'
    <3>1. ASSUME NEW k \in owned, k # "extraction", owner' > BarredBy[k]
          PROVE  k \in barred'
      <4>1. BarredBy[k] \in 0..16 /\ k \in Kinds
        BY TableOrder DEF AssemblyTypeOK
      <4>2. CASE owner > BarredBy[k]
        BY <2>2, <3>1, <4>2 DEF PlanInv
      <4>3. CASE owner = BarredBy[k]
        BY <2>1, <2>2, <3>1, <4>1, <4>3 DEF BarredBy
      <4>4. QED
        BY <2>1, <3>1, <4>1, <4>2, <4>3
    <3>2. QED
      BY <2>1, <3>1
  <2>8. \A k \in Kinds : owner' > JoinedBy[k] => work'[k] # "busy"
    <3>1. ASSUME NEW k \in Kinds, owner' > JoinedBy[k]
          PROVE  work[k] # "busy"
      <4>1. JoinedBy[k] \in 4..19
        BY TableOrder
      <4>2. owner > JoinedBy[k] \/ JoinedBy[k] = owner
        BY <2>1, <3>1, <4>1
      <4>3. QED
        BY <2>4, <4>2 DEF PlanInv
    <3>2. QED
      BY <2>1, <3>1
  <2>9. released' = {r \in Resources : ReleasedBy[r] < owner'}
    BY <2>1, <2>3, TableOrder DEF PlanInv
  <2>10. owner' > IdleStep => idleCloses' > 0
    BY <2>1 DEF PlanInv, IdleStep, SessionStep
  <2>11. QED
    BY <2>5, <2>6, <2>7, <2>8, <2>9, <2>10 DEF PlanInv
<1>2. CASE OwnerIdle
  <2>1. /\ owner = IdleStep /\ owner' = owner + 1 /\ idleCloses > 0
        /\ UNCHANGED <<owned, barred, work, released, idleCloses>>
    BY <1>2, PlanLength, PlanMarks DEF OwnerIdle, Working, Leave, vars, guardVars
  <2>2. (AssemblyTypeOK /\ OnceInv)'
    BY <1>2, <2>1, OwnerGoesOn DEF OwnerIdle, AssemblyTypeOK
  <2>3. \A k \in Kinds : /\ owner' > BarredBy[k] => owner > BarredBy[k]
                         /\ owner' > JoinedBy[k] => owner > JoinedBy[k]
    BY <2>1, TableOrder DEF IdleStep, SessionStep
  <2>4. \A r \in Resources : ReleasedBy[r] < owner' <=> ReleasedBy[r] < owner
    BY <2>1, TableOrder DEF IdleStep, SessionStep
  <2>5. QED
    BY <2>1, <2>2, <2>3, <2>4 DEF PlanInv, AssemblyTypeOK
<1>3. CASE OwnerSession
  <2>1. /\ owner = SessionStep /\ owner' = owner + 1
        /\ work["transition"] # "busy"
        /\ released' = released \union {"session"}
        /\ UNCHANGED <<owned, barred, work, idleCloses>>
    BY <1>3, PlanLength, PlanMarks DEF OwnerSession, Working, Leave, vars, guardVars
  <2>2. (AssemblyTypeOK /\ OnceInv)'
    BY <1>3, <2>1, OwnerGoesOn DEF OwnerSession, AssemblyTypeOK, Resources
  <2>3. \A k \in Kinds : /\ owner' > BarredBy[k] => owner > BarredBy[k]
                         /\ owner' > JoinedBy[k] => owner > JoinedBy[k] \/ k = "transition"
    BY <2>1, TableOrder DEF IdleStep, SessionStep
  <2>4. released' = {r \in Resources : ReleasedBy[r] < owner'}
    <3>1. released = {r \in Resources : ReleasedBy[r] < owner}
      BY DEF PlanInv
    <3>2. \A r \in Resources : ReleasedBy[r] < owner' <=> ReleasedBy[r] < owner \/ r = "session"
      BY <2>1, TableOrder DEF IdleStep, SessionStep
    <3>3. QED
      BY <2>1, <3>1, <3>2 DEF Resources
  <2>5. QED
    BY <2>1, <2>2, <2>3, <2>4 DEF PlanInv, AssemblyTypeOK, IdleStep, SessionStep
<1>4. CASE OwnerSessionPending \/ OwnerUnknown
  <2>1. /\ outcome' \in {"unknown", "session"}
        /\ UNCHANGED <<vars, at, owner, released, workVars, expired>>
    BY <1>4 DEF OwnerSessionPending, OwnerUnknown, GiveUp
  <2>2. (AssemblyTypeOK /\ OnceInv)'
    BY <2>1 DEF AssemblyTypeOK, OnceInv, workVars, vars, guardVars
  <2>3. PlanInv'
    BY <2>1, PlanKept DEF workVars, vars, guardVars
  <2>4. QED
    BY <2>2, <2>3
<1>5. QED
  BY <1>1, <1>2, <1>3, <1>4 DEF Owner

\* Every step of the assembly preserves the invariant.
LEMMA AssemblyStep == AssemblyInv /\ [AssemblyNext]_assemblyVars => AssemblyInv'
<1> SUFFICES ASSUME AssemblyInv, [AssemblyNext]_assemblyVars
             PROVE  AssemblyInv'
  OBVIOUS
<1>1. GuardInv'
  BY AssemblyStepsSlot, GuardStep DEF AssemblyInv
<1>2. CASE SlotStep \/ BudgetExpires \/ UNCHANGED assemblyVars
  <2>1. UNCHANGED <<at, owner, outcome, owned, barred, work, released>>
    BY <1>2 DEF SlotStep, BudgetExpires, closeVars, ownerVars, workVars, assemblyVars
  <2>2. expired' \in BOOLEAN
    BY <1>2 DEF SlotStep, BudgetExpires, closeVars, assemblyVars, AssemblyInv, AssemblyTypeOK
  <2>3. AssemblyTypeOK'
    BY <2>1, <2>2 DEF AssemblyInv, AssemblyTypeOK
  <2>4. (closed => closed') /\ (idleCloses > 0 => idleCloses' > 0)
    BY AssemblyStepsSlot, SlotForward DEF AssemblyInv
  <2>5. OnceInv'
    BY <2>1, <2>4 DEF AssemblyInv, OnceInv
  <2>6. PlanInv'
    BY <2>1, <2>4, PlanKept DEF AssemblyInv
  <2>7. QED
    BY <1>1, <2>3, <2>5, <2>6 DEF AssemblyInv
<1>3. ASSUME NEW k \in Kinds, Register(k) \/ Begin(k) \/ End(k)
      PROVE  AssemblyInv'
  BY <1>1, <1>3, WorkKeeps DEF AssemblyInv
<1>4. ASSUME NEW k \in Closers, CloseCall(k)
      PROVE  AssemblyInv'
  BY <1>1, <1>4, CallKeeps DEF AssemblyInv
<1>5. CASE Owner \/ OwnerUnknown
  BY <1>1, <1>5, OwnerKeeps DEF AssemblyInv
<1>6. QED
  BY <1>2, <1>3, <1>4, <1>5 DEF AssemblyNext

\* The invariant holds in every behaviour of the assembly.
THEOREM AssemblyInvariant == AssemblySpec => []AssemblyInv
  BY AssemblyStarts, AssemblyStep, PTL DEF AssemblySpec

\* Type correctness of the assembly.
THEOREM AssemblyTypes == AssemblySpec => []AssemblyTypeOK
<1>1. AssemblyInv => AssemblyTypeOK
  BY DEF AssemblyInv
<1>2. QED
  BY <1>1, AssemblyInvariant, PTL

\* No resource is closed under its user.
THEOREM UsersOutliveNothing == AssemblySpec => []NothingClosedInUse
<1>1. ASSUME AssemblyInv
      PROVE  NothingClosedInUse
  <2>1. ASSUME NEW k \in Kinds, work[k] = "busy", NEW r \in Uses[k] \intersect released
        PROVE  FALSE
    <3>1. r \in Resources /\ ReleasedBy[r] < owner /\ JoinedBy[k] <= ReleasedBy[r]
      BY <1>1, <2>1, TableOrder DEF AssemblyInv, PlanInv
    <3>2. owner > JoinedBy[k]
      BY <1>1, <3>1, TableOrder DEF AssemblyInv, AssemblyTypeOK
    <3>3. QED
      BY <1>1, <2>1, <3>2 DEF AssemblyInv, PlanInv
  <2>2. ASSUME NEW r \in Runs, Active(r), NEW s \in released
        PROVE  FALSE
    <3>1. s \in Resources /\ ReleasedBy[s] < owner
      BY <1>1, <2>2 DEF AssemblyInv, PlanInv
    <3>2. idleCloses > 0
      BY <1>1, <3>1, TableOrder DEF AssemblyInv, AssemblyTypeOK, PlanInv, IdleStep
    <3>3. QED
      BY <1>1, <2>2, <3>2, QuietWhenIdle DEF AssemblyInv
  <2>3. QED
    BY <2>1, <2>2 DEF NothingClosedInUse
<1>2. QED
  BY <1>1, AssemblyInvariant, PTL

\* What a call of Close returns is true.
THEOREM CloseReturnsTruth == AssemblySpec => []ReturnsAreTrue
<1>1. ASSUME AssemblyInv, NEW k \in Closers, Returned(k)
      PROVE  closed /\ ("server" \in owned => "server" \in barred)
  <2>1. owner > 0 /\ closed
    BY <1>1 DEF AssemblyInv, OnceInv, Returned
  <2>2. BarredBy["server"] = 0
    BY DEF BarredBy
  <2>3. QED
    BY <1>1, <2>1, <2>2 DEF AssemblyInv, PlanInv
<1>2. ASSUME AssemblyInv, NEW k \in Closers, at[k] = "result"
      PROVE  /\ released = Resources
             /\ owned \ {"extraction"} \subseteq barred
             /\ \A w \in Kinds : work[w] # "busy"
             /\ \A r \in Runs : ~Active(r)
  <2>1. owner = 23
    BY <1>2, PlanLength DEF AssemblyInv, OnceInv
  <2>2. released = Resources
    BY <1>2, <2>1, TableOrder DEF AssemblyInv, PlanInv
  <2>3. owned \ {"extraction"} \subseteq barred
    BY <1>2, <2>1, TableOrder DEF AssemblyInv, AssemblyTypeOK, PlanInv
  <2>4. \A w \in Kinds : work[w] # "busy"
    BY <1>2, <2>1, TableOrder DEF AssemblyInv, PlanInv
  <2>5. idleCloses > 0
    BY <1>2, <2>1 DEF AssemblyInv, PlanInv, IdleStep
  <2>6. \A r \in Runs : ~Active(r)
    BY <1>2, <2>5, QuietWhenIdle DEF AssemblyInv
  <2>7. QED
    BY <2>2, <2>3, <2>4, <2>6
<1>3. AssemblyInv => ReturnsAreTrue
  BY <1>1, <1>2 DEF ReturnsAreTrue
<1>4. QED
  BY <1>3, AssemblyInvariant, PTL
=============================================================================
