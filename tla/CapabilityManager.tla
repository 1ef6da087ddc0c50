-------------------------- MODULE CapabilityManager --------------------------
(***************************************************************************)
(* Manager, Lease and Invocation (internal/capability/manager.go): one     *)
(* current generation of runtime capabilities, at most one candidate or    *)
(* retiring one beside it, the leases and calls that pin a generation, its *)
(* revocation and its cleanup.                                             *)
(*                                                                         *)
(* A generation is named by the Reload that builds it.  Every action is    *)
(* one critical section under the manager's mutex, or a step of a Reload,  *)
(* a Close or a cleanup goroutine between two of them.  The contexts that  *)
(* Revoke and Close cancel are not represented: a builder may fail at any  *)
(* time, and a call ends when its callback returns.                        *)
(***************************************************************************)
EXTENDS Naturals, FiniteSets

CONSTANTS
    Reloads,   \* Reload calls, each with its candidate generation
    Leases,
    Calls,
    Closers,   \* Close calls
    None,
    MaxEpoch   \* bound on revocations

ASSUME ManagerAssumption ==
    /\ None \notin Reloads \cup Leases
    /\ Leases \cap Calls = {}
    /\ IsFiniteSet(Leases) /\ IsFiniteSet(Calls)
    /\ MaxEpoch \in Nat

VARIABLES
    revision, epoch, closed, cleanupErr,
    gate,      \* the Reload that holds the gate
    current,
    retiring,
    building,  \* the Reload that registered buildDone
    closing,   \* the generations that Close took over
    at,        \* per Reload: where it stands
    rev, ep,   \* per Reload: the revision and epoch it started with
    refs,      \* per generation: the references its cleanup waits for
    retired,   \* generations that were replaced or closed
    cleanups,  \* per generation: how often its cleanup was started
    scope,     \* per generation: its resources
    done,      \* generations whose cleanup ended
    lease, call,
    leaseGen,  \* per lease: the generation it pins
    parent,    \* per call: its lease
    close,     \* per Close: where it stands
    awaits     \* per Close: the build and the generations it waits for

controlVars == <<revision, epoch, closed, cleanupErr>>
ownerVars   == <<current, retiring, closing>>
reloadVars  == <<gate, building, at, rev, ep>>
genVars     == <<refs, retired, cleanups, scope, done>>
userVars    == <<lease, call, leaseGen, parent>>
closeVars   == <<close, awaits>>
vars == <<controlVars, ownerVars, reloadVars, genVars, userVars, closeVars>>

ReloadStates == {"new", "gating", "gated", "awaiting", "clear", "building",
                 "discarding", "finishing", "leaving", "ended"}

ControlTypeOK ==
    /\ revision \in Nat /\ epoch \in Nat
    /\ closed \in BOOLEAN /\ cleanupErr \in BOOLEAN

OwnerTypeOK ==
    /\ current \in Reloads \cup {None}
    /\ retiring \in Reloads \cup {None}
    /\ closing \subseteq Reloads

ReloadTypeOK ==
    /\ gate \in Reloads \cup {None}
    /\ building \in Reloads \cup {None}
    /\ at \in [Reloads -> ReloadStates]
    /\ rev \in [Reloads -> Nat] /\ ep \in [Reloads -> Nat]

GenTypeOK ==
    /\ refs \in [Reloads -> Nat]
    /\ cleanups \in [Reloads -> Nat]
    /\ retired \subseteq Reloads /\ done \subseteq Reloads
    /\ scope \in [Reloads -> {"none", "open", "closed"}]

UserTypeOK ==
    /\ lease \in [Leases -> {"none", "held", "released"}]
    /\ call \in [Calls -> {"none", "active", "accepted", "rejected", "released"}]
    /\ leaseGen \in [Leases -> Reloads \cup {None}]
    /\ parent \in [Calls -> Leases \cup {None}]

CloseTypeOK ==
    /\ close \in [Closers -> {"none", "waiting", "returned", "gave up"}]
    /\ awaits \in [Closers -> SUBSET Reloads]

TypeOK ==
    /\ ControlTypeOK /\ OwnerTypeOK /\ ReloadTypeOK
    /\ GenTypeOK /\ UserTypeOK /\ CloseTypeOK

Init ==
    /\ revision = 0 /\ epoch = 0 /\ closed = FALSE /\ cleanupErr = FALSE
    /\ gate = None /\ current = None /\ retiring = None /\ building = None
    /\ closing = {}
    /\ at = [r \in Reloads |-> "new"]
    /\ rev = [r \in Reloads |-> 0] /\ ep = [r \in Reloads |-> 0]
    /\ refs = [r \in Reloads |-> 0]
    /\ cleanups = [r \in Reloads |-> 0]
    /\ retired = {} /\ done = {}
    /\ scope = [r \in Reloads |-> "none"]
    /\ lease = [l \in Leases |-> "none"]
    /\ call = [c \in Calls |-> "none"]
    /\ leaseGen = [l \in Leases |-> None]
    /\ parent = [c \in Calls |-> None]
    /\ close = [k \in Closers |-> "none"]
    /\ awaits = [k \in Closers |-> {}]

-----------------------------------------------------------------------------
(* Reload *)

GoTo(r, state) == at' = [at EXCEPT ![r] = state]

\* A later Reload, a revocation or Close superseded r.
Superseded(r) == closed \/ rev[r] # revision \/ ep[r] # epoch

Reload(r) ==
    /\ at[r] = "new"
    /\ IF closed
       THEN GoTo(r, "ended") /\ UNCHANGED <<revision, rev, ep>>
       ELSE /\ GoTo(r, "gating")
            /\ revision' = revision + 1
            /\ rev' = [rev EXCEPT ![r] = revision + 1]
            /\ ep' = [ep EXCEPT ![r] = epoch]
    /\ UNCHANGED <<epoch, closed, cleanupErr, gate, building, ownerVars, genVars, userVars, closeVars>>

TakeGate(r) ==
    /\ at[r] = "gating" /\ gate = None
    /\ gate' = r
    /\ GoTo(r, "gated")
    /\ UNCHANGED <<building, rev, ep, controlVars, ownerVars, genVars, userVars, closeVars>>

\* The round of checks before a candidate is built; with a generation still
\* retiring, r waits and starts the round again.
CheckRetiring(r) ==
    /\ at[r] = "gated"
    /\ GoTo(r, IF Superseded(r) \/ cleanupErr THEN "leaving"
               ELSE IF retiring = None THEN "clear" ELSE "awaiting")
    /\ UNCHANGED <<gate, building, rev, ep, controlVars, ownerVars, genVars, userVars, closeVars>>

RetiringDone(r) ==
    /\ at[r] = "awaiting" /\ retiring = None
    /\ GoTo(r, "gated")
    /\ UNCHANGED <<gate, building, rev, ep, controlVars, ownerVars, genVars, userVars, closeVars>>

\* The caller's context ends.
ReloadCanceled(r) ==
    /\ \/ at[r] = "gating" /\ GoTo(r, "ended")
       \/ at[r] \in {"awaiting", "clear"} /\ GoTo(r, "leaving")
    /\ UNCHANGED <<gate, building, rev, ep, controlVars, ownerVars, genVars, userVars, closeVars>>

BeginBuild(r) ==
    /\ at[r] = "clear"
    /\ IF Superseded(r)
       THEN GoTo(r, "leaving") /\ UNCHANGED <<building, scope>>
       ELSE /\ GoTo(r, "building")
            /\ building' = r
            /\ scope' = [scope EXCEPT ![r] = "open"]
    /\ UNCHANGED <<gate, rev, ep, refs, retired, cleanups, done, controlVars, ownerVars, userVars, closeVars>>

\* cleanup(g) is called for the generations g \in S.
StartCleanup(S) ==
    cleanups' = [g \in Reloads |-> IF g \in S THEN cleanups[g] + 1 ELSE cleanups[g]]

Publish(r) ==
    /\ at[r] = "building"
    /\ ~Superseded(r)
    /\ current' = r
    /\ IF current = None
       THEN UNCHANGED <<retiring, retired, cleanups>>
       ELSE /\ retiring' = current
            /\ retired' = retired \cup {current}
            /\ StartCleanup({current} \cap {g \in Reloads : refs[g] = 0})
    /\ GoTo(r, "finishing")
    /\ UNCHANGED <<closing, gate, building, rev, ep, refs, scope, done, controlVars, userVars, closeVars>>

\* The builder fails or was canceled, its snapshot is empty, r was superseded,
\* or the host's commit step refuses.
Discard(r) ==
    /\ at[r] = "building"
    /\ GoTo(r, "discarding")
    /\ UNCHANGED <<gate, building, rev, ep, controlVars, ownerVars, genVars, userVars, closeVars>>

CloseCandidate(r) ==
    /\ at[r] = "discarding"
    /\ scope' = [scope EXCEPT ![r] = "closed"]
    /\ cleanupErr' \in {cleanupErr, TRUE}
    /\ GoTo(r, "finishing")
    /\ UNCHANGED <<revision, epoch, closed, gate, building, rev, ep, refs, retired, cleanups, done,
                   ownerVars, userVars, closeVars>>

EndBuild(r) ==
    /\ at[r] = "finishing"
    /\ building' = None
    /\ GoTo(r, "leaving")
    /\ UNCHANGED <<gate, rev, ep, controlVars, ownerVars, genVars, userVars, closeVars>>

ReturnGate(r) ==
    /\ at[r] = "leaving"
    /\ gate' = None
    /\ GoTo(r, "ended")
    /\ UNCHANGED <<building, rev, ep, controlVars, ownerVars, genVars, userVars, closeVars>>

-----------------------------------------------------------------------------
(* Leases and calls *)

CallGen(c) == leaseGen[parent[c]]

LastReference(g) == g \in retired /\ refs[g] = 1 /\ cleanups[g] = 0

\* The last reference to a generation that was replaced starts its cleanup.
releaseLocked(g) ==
    /\ refs' = [refs EXCEPT ![g] = @ - 1]
    /\ StartCleanup({g} \cap {h \in Reloads : LastReference(h)})

Acquire(l) ==
    /\ lease[l] = "none"
    /\ ~closed /\ current # None
    /\ lease' = [lease EXCEPT ![l] = "held"]
    /\ leaseGen' = [leaseGen EXCEPT ![l] = current]
    /\ refs' = [refs EXCEPT ![current] = @ + 1]
    /\ UNCHANGED <<call, parent, retired, cleanups, scope, done, controlVars, ownerVars, reloadVars, closeVars>>

ReleaseLease(l) ==
    /\ lease[l] = "held"
    /\ lease' = [lease EXCEPT ![l] = "released"]
    /\ releaseLocked(leaseGen[l])
    /\ UNCHANGED <<call, leaseGen, parent, retired, scope, done, controlVars, ownerVars, reloadVars, closeVars>>

\* Variant: only Close ends an authorization.
AuthorizedUntilClose(l) == ~closed

Authorized(l) == ~closed /\ ep[leaseGen[l]] = epoch

BeginCall(c, l) ==
    /\ call[c] = "none"
    /\ lease[l] = "held" /\ Authorized(l)
    /\ call' = [call EXCEPT ![c] = "active"]
    /\ parent' = [parent EXCEPT ![c] = l]
    /\ refs' = [refs EXCEPT ![leaseGen[l]] = @ + 1]
    /\ UNCHANGED <<lease, leaseGen, retired, cleanups, scope, done, controlVars, ownerVars, reloadVars, closeVars>>

\* A result is also rejected when the call's own context was canceled.
Complete(c) ==
    /\ call[c] = "active"
    /\ \E verdict \in {"accepted", "rejected"} :
        /\ verdict = "accepted" => Authorized(parent[c])
        /\ call' = [call EXCEPT ![c] = verdict]
    /\ UNCHANGED <<lease, leaseGen, parent, controlVars, ownerVars, reloadVars, genVars, closeVars>>

InCall(c) == call[c] \in {"active", "accepted", "rejected"}

ReleaseCall(c) ==
    /\ InCall(c)
    /\ call' = [call EXCEPT ![c] = "released"]
    /\ releaseLocked(leaseGen[parent[c]])
    /\ UNCHANGED <<lease, leaseGen, parent, retired, scope, done, controlVars, ownerVars, reloadVars, closeVars>>

-----------------------------------------------------------------------------
(* Revoke, Close and the cleanup goroutine *)

Revoke ==
    /\ epoch < MaxEpoch
    /\ epoch' = epoch + 1
    /\ UNCHANGED <<revision, closed, cleanupErr, ownerVars, reloadVars, genVars, userVars, closeVars>>

NonNil(S) == S \ {None}

\* What Close owns: also what an earlier Close took over.
Owned == closing \cup NonNil({retiring, current})

Unused == {g \in Owned : refs[g] = 0 /\ cleanups[g] = 0}

\* Variant: Close does not wait for the candidate.
OwnedOnly == Owned

OwnedOrBuilding == Owned \cup NonNil({building})

Close(k) ==
    /\ close[k] = "none"
    /\ closed' = TRUE
    /\ epoch' = epoch + 1
    /\ closing' = Owned
    /\ retired' = retired \cup NonNil({current})
    /\ current' = None
    /\ StartCleanup(Unused)
    /\ close' = [close EXCEPT ![k] = "waiting"]
    /\ awaits' = [awaits EXCEPT ![k] = OwnedOrBuilding]
    /\ UNCHANGED <<revision, cleanupErr, retiring, refs, scope, done, reloadVars, userVars>>

\* buildDone was closed, and done of each generation.
Drained(k) ==
    \A g \in awaits[k] :
        /\ at[g] \in {"leaving", "ended"}
        /\ g \in closing => g \in done

CloseReturns(k) ==
    /\ close[k] = "waiting"
    /\ Drained(k)
    /\ close' = [close EXCEPT ![k] = "returned"]
    /\ UNCHANGED <<awaits, controlVars, ownerVars, reloadVars, genVars, userVars>>

\* The deadline of Close bounds the waiting, not the cleanup.
CloseGivesUp(k) ==
    /\ close[k] = "waiting"
    /\ close' = [close EXCEPT ![k] = "gave up"]
    /\ UNCHANGED <<awaits, controlVars, ownerVars, reloadVars, genVars, userVars>>

CloseScope(g) ==
    /\ cleanups[g] > 0 /\ scope[g] = "open"
    /\ scope' = [scope EXCEPT ![g] = "closed"]
    /\ UNCHANGED <<refs, retired, cleanups, done, controlVars, ownerVars, reloadVars, userVars, closeVars>>

\* Variant: the generation stays the retiring one.
CleanupEndsRetiring(g) ==
    /\ cleanups[g] > 0 /\ scope[g] = "closed" /\ g \notin done
    /\ done' = done \cup {g}
    /\ cleanupErr' \in {cleanupErr, TRUE}
    /\ UNCHANGED <<revision, epoch, closed, refs, retired, cleanups, scope, ownerVars, reloadVars,
                   userVars, closeVars>>

CleanupEnds(g) ==
    /\ cleanups[g] > 0 /\ scope[g] = "closed" /\ g \notin done
    /\ done' = done \cup {g}
    /\ cleanupErr' \in {cleanupErr, TRUE}
    /\ retiring' = IF retiring = g THEN None ELSE retiring
    /\ UNCHANGED <<revision, epoch, closed, current, closing, refs, retired, cleanups, scope,
                   reloadVars, userVars, closeVars>>

-----------------------------------------------------------------------------
ReloadStep(r) ==
    \/ TakeGate(r) \/ CheckRetiring(r) \/ RetiringDone(r) \/ BeginBuild(r)
    \/ Publish(r) \/ Discard(r) \/ CloseCandidate(r) \/ EndBuild(r) \/ ReturnGate(r)

CleanupStep(g) == CloseScope(g) \/ CleanupEnds(g)

Next ==
    \/ \E r \in Reloads : Reload(r) \/ ReloadStep(r) \/ ReloadCanceled(r) \/ CleanupStep(r)
    \/ \E l \in Leases : \/ Acquire(l) \/ ReleaseLease(l)
                         \/ \E c \in Calls : BeginCall(c, l)
    \/ \E c \in Calls : Complete(c) \/ ReleaseCall(c)
    \/ \E k \in Closers : Close(k) \/ CloseReturns(k) \/ CloseGivesUp(k)
    \/ Revoke

Spec == Init /\ [][Next]_vars

-----------------------------------------------------------------------------
(* Safety *)

Holds(u, g) ==
    \/ u \in Leases /\ lease[u] = "held" /\ leaseGen[u] = g
    \/ u \in Calls /\ InCall(u) /\ leaseGen[parent[u]] = g

\* Nobody's capabilities are closed under him: neither a run's, nor those of a
\* call that outlives the lease of its run, the revocation or Close: releaseLocked
\* hands a generation to cleanup only when it is retired and nobody counts in it.
PinnedStaysOpen ==
    \A u \in Leases \cup Calls, g \in Reloads : Holds(u, g) => scope[g] = "open"

\* No cleanup is started twice, whoever calls releaseLocked last (Release, a call's
\* Release, reload, Close); the second one would panic on closing done.
CleanupOnce == \A g \in Reloads : cleanups[g] <= 1

\* "Manager owns one current and at most one candidate or retiring generation."
TwoOwners == Cardinality({g \in Reloads : scope[g] = "open"}) <= 2

\* A Close that did not give up leaves no resource open and nobody inside.
CloseIsComplete ==
    \A k \in Closers : close[k] = "returned" =>
        \A g \in Reloads : scope[g] # "open"

\* Between them the parties that may end a generation (Release, a call's Release,
\* reload, Close) clean it up neither twice nor, once Close has returned, not at all.
CleanupIsExact == CleanupOnce /\ CloseIsComplete

\* The manager implements the fence.
fence == INSTANCE CapabilityFence WITH
    Generations <- Reloads,
    trusted  <- {r \in Reloads : rev[r] > 0 /\ ep[r] = epoch},
    open     <- {r \in Reloads : scope[r] = "open"},
    pinned   <- [u \in Leases \cup Calls |->
                    IF u \in Leases
                    THEN IF lease[u] = "held" THEN leaseGen[u] ELSE None
                    ELSE IF InCall(u) THEN leaseGen[parent[u]] ELSE None],
    accepted <- {c \in Calls : call[c] = "accepted"}

FenceSpec == fence!FenceSpec

-----------------------------------------------------------------------------
(* Liveness *)

\* Builders, finalizers and callbacks return, and a run releases its lease.
Progress ==
    \/ \E r \in Reloads : ReloadStep(r) \/ CleanupStep(r)
    \/ \E l \in Leases : ReleaseLease(l)
    \/ \E c \in Calls : ReleaseCall(c)
    \/ \E k \in Closers : CloseReturns(k)

\* A generation, a lease and a call take finitely many of these steps, so that
\* none of them is put off for ever by the others.
FairSpec == Spec /\ WF_vars(Progress)

Unsettled ==
    \/ \E r \in Reloads : at[r] \notin {"new", "ended"} \/ r \in retired \ done
    \/ \E k \in Closers : close[k] = "waiting"

\* Manager comes to rest: every Reload ends, however many generations drain
\* before it in reload's loop over retiring; what it replaced, or Close retired, is
\* cleaned up; and Close ends, with or without its deadline.
AllSettles == Unsettled ~> ~Unsettled
=============================================================================
