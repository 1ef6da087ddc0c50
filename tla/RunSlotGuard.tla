---------------------------- MODULE RunSlotGuard ----------------------------
(***************************************************************************)
(* DefaultRunSlotGuard (internal/core/run_slot.go): the lock that admits   *)
(* one primary model run at a time, together with the way its clients use  *)
(* it (internal/core/harness.go, turnrunner.go): a run claims the slot,    *)
(* may register a wrapper lease, is released by its owner and, later or    *)
(* earlier, has its wrapper completed.  Every action is one critical       *)
(* section under the guard's mutex.                                        *)
(*                                                                         *)
(* A Go channel that is only ever closed is modelled by what closing does: *)
(* availableCh, replaced on every release, is an epoch that a waiter       *)
(* captured and that has moved on once the channel it holds was closed;    *)
(* closedCh is the flag closed; idleCh is the number of times it was       *)
(* closed, because closing it twice would panic.                           *)
(***************************************************************************)
EXTENDS Naturals

CONSTANTS Runs, NoRun

ASSUME NoRunIsNotARun == NoRun \notin Runs

VARIABLES
    current,     \* the activeRunClaim; claim = NoRun is the nil pointer
    closed,      \* closedCh is closed
    epoch,       \* identity of the current availableCh
    idleCloses,  \* how many times idleCh has been closed
    call,        \* per run: where its ClaimRun / TryClaimRun call stands
    waitEpoch,   \* per run: the availableCh it captured before waiting
    ownerDone,   \* per run: its owner has called Release
    wrapper      \* per run: its wrapper lease, as its entrypoint sees it

guardVars == <<current, closed, epoch, idleCloses>>
callVars  == <<call, waitEpoch>>
leaseVars == <<ownerDone, wrapper>>
vars == <<guardVars, callVars, leaseVars>>

NoClaim == [claim |-> NoRun, ownerReleased |-> FALSE,
            wrapperRegistered |-> FALSE, wrapperFinished |-> FALSE,
            statusAttached |-> FALSE]

Init ==
    /\ current = NoClaim
    /\ closed = FALSE
    /\ epoch = 0
    /\ idleCloses = 0
    /\ call = [r \in Runs |-> "new"]
    /\ waitEpoch = [r \in Runs |-> 0]
    /\ ownerDone = [r \in Runs |-> FALSE]
    /\ wrapper = [r \in Runs |-> "none"]

-----------------------------------------------------------------------------
(* Claiming *)

Unclaimed(r) == call[r] \in {"new", "waiting"}

\* A blocked claimant runs again when the channel it captured was closed.
Awake(r) == call[r] = "new" \/ waitEpoch[r] # epoch \/ closed

Publish(r) ==
    /\ current' = [NoClaim EXCEPT !.claim = r]
    /\ call' = [call EXCEPT ![r] = "claimed"]
    /\ UNCHANGED <<closed, epoch, idleCloses, waitEpoch, leaseVars>>

ClaimAdmitted(r) ==
    /\ Unclaimed(r) /\ Awake(r)
    /\ ~closed
    /\ current.claim = NoRun
    /\ Publish(r)

ClaimRejected(r) ==
    /\ Unclaimed(r) /\ Awake(r)
    /\ closed
    /\ call' = [call EXCEPT ![r] = "rejected"]
    /\ UNCHANGED <<guardVars, waitEpoch, leaseVars>>

ClaimWaits(r) ==
    /\ Unclaimed(r) /\ Awake(r)
    /\ ~closed
    /\ current.claim # NoRun
    /\ call' = [call EXCEPT ![r] = "waiting"]
    /\ waitEpoch' = [waitEpoch EXCEPT ![r] = epoch]
    /\ UNCHANGED <<guardVars, leaseVars>>

\* The caller's context ends before the call, in the loop, or in the select.
ClaimCanceled(r) ==
    /\ Unclaimed(r)
    /\ call' = [call EXCEPT ![r] = "canceled"]
    /\ UNCHANGED <<guardVars, waitEpoch, leaseVars>>

\* Variant: the try path forgets that admission was closed.
TryClaimAdmittedAfterClose(r) ==
    /\ call[r] = "new"
    /\ current.claim = NoRun
    /\ Publish(r)

TryClaimAdmitted(r) ==
    /\ call[r] = "new"
    /\ ~closed
    /\ current.claim = NoRun
    /\ Publish(r)

\* Closed admission takes precedence over a busy slot.
TryClaimRefused(r) ==
    /\ call[r] = "new"
    /\ closed \/ current.claim # NoRun
    /\ call' = [call EXCEPT ![r] = IF closed THEN "rejected" ELSE "busy"]
    /\ UNCHANGED <<guardVars, waitEpoch, leaseVars>>

-----------------------------------------------------------------------------
(* Releasing *)

Holds(r) == current.claim = r

Finalize ==
    /\ current' = NoClaim
    /\ epoch' = epoch + 1
    /\ idleCloses' = IF closed THEN idleCloses + 1 ELSE idleCloses
    /\ UNCHANGED closed

\* Variant: the owner's release does not wait for the wrapper.
ReleaseIgnoringWrapper(r) ==
    /\ call[r] = "claimed"
    /\ ownerDone' = [ownerDone EXCEPT ![r] = TRUE]
    /\ IF Holds(r) THEN Finalize ELSE UNCHANGED guardVars
    /\ UNCHANGED <<callVars, wrapper>>

\* Variant: the release does not compare the claim with the holder's.
ReleaseUnchecked(r) ==
    /\ call[r] = "claimed"
    /\ ownerDone' = [ownerDone EXCEPT ![r] = TRUE]
    /\ IF current.claim = NoRun THEN UNCHANGED guardVars ELSE Finalize
    /\ UNCHANGED <<callVars, wrapper>>

\* The owner of an accepted claim releases it, possibly more than once and
\* possibly after the slot has moved on to another run.
Release(r) ==
    /\ call[r] = "claimed"
    /\ ownerDone' = [ownerDone EXCEPT ![r] = TRUE]
    /\ IF ~Holds(r)
       THEN UNCHANGED guardVars
       ELSE IF current.wrapperRegistered /\ ~current.wrapperFinished
            THEN /\ current' = [current EXCEPT !.ownerReleased = TRUE]
                 /\ UNCHANGED <<closed, epoch, idleCloses>>
            ELSE Finalize
    /\ UNCHANGED <<callVars, wrapper>>

RegisterRunWrapper(r, withStatus) ==
    /\ call[r] = "claimed"
    /\ Holds(r)
    /\ ~current.wrapperRegistered
    /\ current' = [current EXCEPT !.wrapperRegistered = TRUE,
                                  !.statusAttached = withStatus]
    /\ wrapper' = [wrapper EXCEPT ![r] = "registered"]
    /\ UNCHANGED <<closed, epoch, idleCloses, callVars, ownerDone>>

\* ErrRunSlotStaleClaim: the entrypoint registers after the claim has gone.
RegisterRunWrapperStale(r) ==
    /\ call[r] = "claimed"
    /\ wrapper[r] = "none"
    /\ ~Holds(r)
    /\ wrapper' = [wrapper EXCEPT ![r] = "refused"]
    /\ UNCHANGED <<guardVars, callVars, ownerDone>>

\* Variant: the callback leaves the slot to an owner that is already gone.
WrapperDoneWithoutFinalize(r) ==
    /\ wrapper[r] = "registered"
    /\ wrapper' = [wrapper EXCEPT ![r] = "finished"]
    /\ current' = IF Holds(r)
                  THEN [current EXCEPT !.wrapperFinished = TRUE]
                  ELSE current
    /\ UNCHANGED <<closed, epoch, idleCloses, callVars, ownerDone>>

\* The done callback of the wrapper lease: the first call runs, under a
\* sync.Once, the later ones return at once.
WrapperDone(r) ==
    /\ wrapper[r] = "registered"
    /\ wrapper' = [wrapper EXCEPT ![r] = "finished"]
    /\ IF ~Holds(r)
       THEN UNCHANGED guardVars
       ELSE IF current.ownerReleased
            THEN Finalize
            ELSE /\ current' = [current EXCEPT !.wrapperFinished = TRUE]
                 /\ UNCHANGED <<closed, epoch, idleCloses>>
    /\ UNCHANGED <<callVars, ownerDone>>

SetRunWrapperStatus(r) ==
    /\ Holds(r)
    /\ current.wrapperRegistered
    /\ ~current.wrapperFinished
    /\ ~current.statusAttached
    /\ current' = [current EXCEPT !.statusAttached = TRUE]
    /\ UNCHANGED <<closed, epoch, idleCloses, callVars, leaseVars>>

CloseAdmission ==
    /\ ~closed
    /\ closed' = TRUE
    /\ idleCloses' = IF current.claim = NoRun THEN idleCloses + 1
                                              ELSE idleCloses
    /\ UNCHANGED <<current, epoch, callVars, leaseVars>>

-----------------------------------------------------------------------------

Next ==
    \/ CloseAdmission
    \/ \E r \in Runs :
          \/ ClaimAdmitted(r) \/ ClaimRejected(r) \/ ClaimWaits(r)
          \/ ClaimCanceled(r) \/ TryClaimAdmitted(r) \/ TryClaimRefused(r)
          \/ Release(r) \/ WrapperDone(r)
          \/ \E withStatus \in BOOLEAN : RegisterRunWrapper(r, withStatus)
          \/ RegisterRunWrapperStale(r)
          \/ SetRunWrapperStatus(r)

Spec == Init /\ [][Next]_vars

\* What a run owes: a claimant that is blocked and can run is scheduled, a run
\* owner always releases its claim (deferred in harness.go and in the owner's
\* supervisor) and an entrypoint always completes its wrapper (deferred).
\* Cancellation, closing admission and the optional calls are promised by
\* nobody.
Progress(r) ==
    \/ call[r] = "waiting" /\ (ClaimAdmitted(r) \/ ClaimRejected(r) \/ ClaimWaits(r))
    \/ ~ownerDone[r] /\ Release(r)
    \/ WrapperDone(r)

FairSpec == Spec /\ \A r \in Runs : WF_vars(Progress(r))

-----------------------------------------------------------------------------
(* Properties *)

CallStates == {"new", "waiting", "claimed", "rejected", "canceled", "busy"}

WrapperStates == {"none", "registered", "refused", "finished"}

Claims == [claim : Runs \union {NoRun}, ownerReleased : BOOLEAN,
           wrapperRegistered : BOOLEAN, wrapperFinished : BOOLEAN,
           statusAttached : BOOLEAN]

\* Type invariant of the guard and of its clients.
TypeOK ==
    /\ current \in Claims
    /\ closed \in BOOLEAN
    /\ epoch \in Nat
    /\ idleCloses \in Nat
    /\ call \in [Runs -> CallStates]
    /\ waitEpoch \in [Runs -> Nat]
    /\ ownerDone \in [Runs -> BOOLEAN]
    /\ wrapper \in [Runs -> WrapperStates]

\* A run is active, in the eyes of its own goroutines, from the claim until
\* its owner has released and its wrapper, if it has one, has completed.
Active(r) ==
    /\ call[r] = "claimed"
    /\ ~ownerDone[r] \/ wrapper[r] = "registered"

\* At most one run is ever active: neither the owner's release nor the
\* wrapper's completion, in whatever order they come, frees the slot early
\* (run_slot.go, Release and RegisterRunWrapper).
MutualExclusion ==
    \A r, s \in Runs : Active(r) /\ Active(s) => r = s

\* The idle signal is closed at most once (a second close panics) and never
\* before admission is closed and the last active run is gone: teardown that
\* waited for it touches nothing a run still uses (CloseAdmission,
\* finalizeReleaseLocked).
IdleIsFinal ==
    /\ idleCloses <= 1
    /\ idleCloses = 1 => closed /\ \A r \in Runs : ~Active(r)

\* No claimant sleeps on a free slot: whoever waits on the channel that the
\* next release will close waits for a run that is still there (ClaimRun
\* captures availableCh in the critical section that saw the slot busy).
NoLostWakeup ==
    \A r \in Runs :
        call[r] = "waiting" /\ waitEpoch[r] = epoch /\ ~closed
            => current.claim # NoRun

\* The slot is given back by its own run only: a step never takes the slot
\* from a run that is still active after the step, whatever stale releases
\* and late wrapper callbacks of earlier runs arrive meanwhile.
OnlyOwnRelease ==
    [][\A r \in Runs : Holds(r) /\ Active(r)' => current'.claim = r]_vars

\* Nobody waits for ever: every claimant that blocks is answered, and once
\* admission is closed the idle signal fires, so that teardown is not stuck.
WaitsEnd ==
    /\ \A r \in Runs : call[r] = "waiting" ~> call[r] # "waiting"
    /\ closed ~> idleCloses = 1

\* The guard implements one-at-a-time admission with a final idle signal.
Admission ==
    INSTANCE RunAdmission WITH
        holder <- current.claim,
        admitted <- {r \in Runs : call[r] = "claimed"},
        idle <- (idleCloses > 0)

AdmissionSpec == Admission!AdmissionSpec
=============================================================================
