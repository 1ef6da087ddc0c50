----------------------------- MODULE MemoryWorker -----------------------------
(***************************************************************************)
(* Worker (internal/memory/worker.go): one goroutine that extracts facts   *)
(* from completed turns and publishes them in the shared memory store,     *)
(* with the callers of Submit, SetEnabled and Stop.                        *)
(*                                                                         *)
(* Submit reads two atomics while it holds `mu`; SetEnabled writes them    *)
(* before it takes `mu`; the worker tests them one after the other.  Each  *)
(* of these reads and writes is a step.  The store is reduced to the       *)
(* markers of processed sources, which another process may write too,      *)
(* under the lock that PublishExtraction holds.                            *)
(***************************************************************************)
EXTENDS Naturals, FiniteSets

CONSTANTS
    Jobs, Sources,
    SourceOf,          \* the source a job was made from
    Callers,           \* calls of SetEnabled and Stop
    NoJob

ASSUME WorkerAssumption ==
    /\ SourceOf \in [Jobs -> Sources]
    /\ NoJob \notin Jobs

VARIABLES
    enabled, epoch,    \* the two atomics
    ctxDone,           \* the worker's context
    pending, active, stopped, wake,
    submitting,        \* the call of Submit that holds mu
    admitted,          \* jobs Submit has accepted
    jobEpoch,
    wpc, cur,          \* the worker: the next step, and its job
    jobCtxDone,        \* the context of that job
    markers,           \* per source: markers in the store
    call,              \* per caller: where it stands
    kind,              \* per caller: what it calls
    revoked            \* history: per caller, the jobs it has revoked

flagVars   == <<enabled, epoch, ctxDone>>
submitVars == <<submitting, admitted, jobEpoch>>
jobVars    == <<cur, jobCtxDone>>
callVars   == <<call, kind, revoked>>
vars == <<flagVars, pending, active, stopped, wake, submitVars, wpc, jobVars, markers, callVars>>

Kinds      == {"enable", "disable", "stop"}
CallStates == {"idle", "store", "bump", "lock", "barrier", "seal", "returned"}

\* The steps of process, in order; a test that fails leads to "finish".
After == [start_enabled |-> "start_epoch",     start_epoch |-> "processed",
          processed |-> "extract",             extract |-> "commit",
          commit |-> "commit_enabled",         commit_enabled |-> "commit_epoch",
          commit_epoch |-> "commit_ctx",       commit_ctx |-> "store",
          store |-> "publish_enabled",         publish_enabled |-> "publish_epoch",
          publish_epoch |-> "publish_ctx",     publish_ctx |-> "write"]
WorkerStates == DOMAIN After \cup {"select", "take", "write", "finish", "done"}

StoreLocked  == wpc \in {"publish_enabled", "publish_epoch", "publish_ctx", "write"}
CommitLocked == StoreLocked \/ wpc \in {"commit_enabled", "commit_epoch", "commit_ctx", "store"}
JobCancelled == jobCtxDone \/ ctxDone
MuFree       == submitting = NoJob

Init ==
    /\ enabled = TRUE /\ epoch = 0 /\ ctxDone = FALSE
    /\ pending = NoJob /\ active = FALSE /\ stopped = FALSE /\ wake = FALSE
    /\ submitting = NoJob /\ admitted = {} /\ jobEpoch = [j \in Jobs |-> 0]
    /\ wpc = "select" /\ cur = NoJob /\ jobCtxDone = FALSE
    /\ markers = [s \in Sources |-> 0]
    /\ call = [c \in Callers |-> "idle"]
    /\ kind = [c \in Callers |-> "enable"]
    /\ revoked = [c \in Callers |-> {}]

-----------------------------------------------------------------------------
(* Submit.  A job that is refused may be submitted again. *)

SubmitTests(j) ==
    /\ MuFree /\ j \notin admitted
    /\ ~stopped /\ enabled /\ ~ctxDone
    /\ submitting' = j
    /\ UNCHANGED <<flagVars, pending, active, stopped, wake, admitted, jobEpoch, wpc, jobVars, markers, callVars>>

\* Variant: the worker is not signalled.
SubmitStoresSilently ==
    /\ submitting # NoJob
    /\ jobEpoch' = [jobEpoch EXCEPT ![submitting] = epoch]
    /\ pending' = submitting
    /\ admitted' = admitted \cup {submitting}
    /\ submitting' = NoJob
    /\ UNCHANGED <<flagVars, active, stopped, wake, wpc, jobVars, markers, callVars>>

SubmitStores ==
    /\ submitting # NoJob
    /\ jobEpoch' = [jobEpoch EXCEPT ![submitting] = epoch]
    /\ pending' = submitting
    /\ admitted' = admitted \cup {submitting}
    /\ wake' = TRUE
    /\ submitting' = NoJob
    /\ UNCHANGED <<flagVars, active, stopped, wpc, jobVars, markers, callVars>>

-----------------------------------------------------------------------------
(* SetEnabled and Stop *)

CallTo(c, s) == call' = [call EXCEPT ![c] = s]

Begin(c) ==
    /\ call[c] = "idle"
    /\ \E k \in Kinds :
          /\ kind' = [kind EXCEPT ![c] = k]
          /\ ctxDone' = (ctxDone \/ k = "stop")
    /\ CallTo(c, "store")
    /\ UNCHANGED <<enabled, epoch, pending, active, stopped, wake, submitVars, wpc, jobVars, markers, revoked>>

StoreEnabled(c) ==
    /\ call[c] = "store"
    /\ enabled' = (kind[c] = "enable")
    /\ CallTo(c, "bump")
    /\ UNCHANGED <<epoch, ctxDone, pending, active, stopped, wake, submitVars, wpc, jobVars, markers, kind, revoked>>

BumpEpoch(c) ==
    /\ call[c] = "bump"
    /\ epoch' = epoch + 1
    /\ CallTo(c, "lock")
    /\ UNCHANGED <<enabled, ctxDone, pending, active, stopped, wake, submitVars, wpc, jobVars, markers, kind, revoked>>

\* Under mu: drop the pending job, cancel the running one.
Revoke(c) ==
    /\ call[c] = "lock" /\ MuFree
    /\ \/ kind[c] = "enable" /\ UNCHANGED <<pending, jobCtxDone, revoked>>
       \/ /\ kind[c] # "enable"
          /\ pending' = NoJob
          /\ jobCtxDone' = (jobCtxDone \/ active)
          /\ revoked' = [revoked EXCEPT ![c] = admitted]
    /\ CallTo(c, "barrier")
    /\ UNCHANGED <<flagVars, active, stopped, wake, submitVars, wpc, cur, markers, kind>>

\* Variant: no barrier.
NoBarrier(c) ==
    /\ call[c] = "barrier"
    /\ CallTo(c, IF kind[c] = "stop" THEN "seal" ELSE "returned")
    /\ UNCHANGED <<flagVars, pending, active, stopped, wake, submitVars, wpc, jobVars, markers, kind, revoked>>

\* commitMu taken and released: no publication is under way.
Barrier(c) ==
    /\ call[c] = "barrier" /\ ~CommitLocked
    /\ CallTo(c, IF kind[c] = "stop" THEN "seal" ELSE "returned")
    /\ UNCHANGED <<flagVars, pending, active, stopped, wake, submitVars, wpc, jobVars, markers, kind, revoked>>

Seal(c) ==
    /\ call[c] = "seal" /\ MuFree
    /\ stopped' = TRUE
    /\ CallTo(c, "returned")
    /\ UNCHANGED <<flagVars, pending, active, wake, submitVars, wpc, jobVars, markers, kind, revoked>>

-----------------------------------------------------------------------------
(* The worker *)

Exit ==
    /\ wpc = "select" /\ ctxDone
    /\ wpc' = "done"
    /\ UNCHANGED <<flagVars, pending, active, stopped, wake, submitVars, jobVars, markers, callVars>>

Wake ==
    /\ wpc = "select" /\ wake
    /\ wake' = FALSE
    /\ wpc' = "take"
    /\ UNCHANGED <<flagVars, pending, active, stopped, submitVars, jobVars, markers, callVars>>

Take ==
    /\ wpc = "take" /\ MuFree
    /\ pending' = NoJob
    /\ \/ /\ pending = NoJob \/ stopped
          /\ wpc' = "select"
          /\ UNCHANGED <<active, jobVars>>
       \/ /\ pending # NoJob /\ ~stopped
          /\ cur' = pending /\ jobCtxDone' = FALSE
          /\ active' = TRUE
          /\ wpc' = "start_enabled"
    /\ UNCHANGED <<flagVars, stopped, wake, submitVars, markers, callVars>>

EnabledHolds == wpc \in {"start_enabled", "commit_enabled", "publish_enabled"} => enabled
EpochHolds   == wpc \in {"start_epoch", "commit_epoch", "publish_epoch"} => jobEpoch[cur] = epoch
CtxHolds     == wpc \in {"commit_ctx", "store", "publish_ctx"} => ~JobCancelled
SourceIsNew  == wpc = "processed" => markers[SourceOf[cur]] = 0

Pass ==
    /\ wpc \in DOMAIN After
    /\ EnabledHolds /\ EpochHolds /\ CtxHolds /\ SourceIsNew
    /\ wpc' = After[wpc]
    /\ UNCHANGED <<flagVars, pending, active, stopped, wake, submitVars, jobVars, markers, callVars>>

\* A test fails, the policy refuses the job, the extractor or the store
\* returns an error.  commitMu and the store's lock are released.
Fail ==
    /\ wpc \in DOMAIN After \ {"commit"}
    /\ wpc' = "finish"
    /\ UNCHANGED <<flagVars, pending, active, stopped, wake, submitVars, jobVars, markers, callVars>>

\* Variant: the marker was looked up before the extraction only.
WriteUnchecked ==
    /\ wpc = "write"
    /\ \/ markers' = [markers EXCEPT ![SourceOf[cur]] = @ + 1]
       \/ UNCHANGED markers
    /\ wpc' = "finish"
    /\ UNCHANGED <<flagVars, pending, active, stopped, wake, submitVars, jobVars, callVars>>

\* The append and its sync succeed, or are rolled back.
Write ==
    /\ wpc = "write"
    /\ \/ /\ markers[SourceOf[cur]] = 0
          /\ markers' = [markers EXCEPT ![SourceOf[cur]] = @ + 1]
       \/ UNCHANGED markers
    /\ wpc' = "finish"
    /\ UNCHANGED <<flagVars, pending, active, stopped, wake, submitVars, jobVars, callVars>>

Finish ==
    /\ wpc = "finish" /\ MuFree
    /\ active' = FALSE
    /\ cur' = NoJob /\ jobCtxDone' = FALSE
    /\ wpc' = "take"
    /\ UNCHANGED <<flagVars, pending, stopped, wake, submitVars, markers, callVars>>

-----------------------------------------------------------------------------
(* The environment *)

\* The job's own timeout.
JobTimesOut ==
    /\ active /\ ~jobCtxDone
    /\ jobCtxDone' = TRUE
    /\ UNCHANGED <<flagVars, pending, active, stopped, wake, submitVars, wpc, cur, markers, callVars>>

\* The assembly's lifetime ends before it stops its worker.
LifetimeEnds ==
    /\ ~ctxDone
    /\ ctxDone' = TRUE
    /\ UNCHANGED <<enabled, epoch, pending, active, stopped, wake, submitVars, wpc, jobVars, markers, callVars>>

\* A worker of another process publishes the same source.
OtherProcess(s) ==
    /\ ~StoreLocked /\ markers[s] = 0
    /\ markers' = [markers EXCEPT ![s] = @ + 1]
    /\ UNCHANGED <<flagVars, pending, active, stopped, wake, submitVars, wpc, jobVars, callVars>>

-----------------------------------------------------------------------------

run       == Exit \/ Wake \/ Take \/ Pass \/ Fail \/ Write \/ Finish
Caller(c) == StoreEnabled(c) \/ BumpEpoch(c) \/ Revoke(c) \/ Barrier(c) \/ Seal(c)

Next ==
    \/ \E j \in Jobs : SubmitTests(j)
    \/ SubmitStores
    \/ \E c \in Callers : Begin(c) \/ Caller(c)
    \/ run
    \/ JobTimesOut \/ LifetimeEnds
    \/ \E s \in Sources : OtherProcess(s)

Spec == Init /\ [][Next]_vars

\* Every call that was begun goes on, and so does the worker: the model, the
\* store and the lock of the file return, because the job has a deadline.
\* There are finitely many jobs and calls, so that it is enough that one of
\* them goes on now and then.
Progress == SubmitStores \/ run \/ \E c \in Callers : Caller(c)

FairSpec == Spec /\ WF_vars(Progress)

-----------------------------------------------------------------------------
(* Properties *)

\* Every variable has its type, and a running worker has a job (run
\* dereferences the pending job it took).
TypeOK ==
    /\ enabled \in BOOLEAN /\ epoch \in Nat /\ ctxDone \in BOOLEAN
    /\ pending \in Jobs \cup {NoJob} /\ submitting \in Jobs \cup {NoJob} /\ cur \in Jobs \cup {NoJob}
    /\ active \in BOOLEAN /\ stopped \in BOOLEAN /\ wake \in BOOLEAN /\ jobCtxDone \in BOOLEAN
    /\ active => cur \in admitted
    /\ admitted \in SUBSET Jobs /\ jobEpoch \in [Jobs -> Nat]
    /\ wpc \in WorkerStates
    /\ markers \in [Sources -> Nat]
    /\ call \in [Callers -> CallStates] /\ kind \in [Callers -> Kinds]
    /\ revoked \in [Callers -> SUBSET Jobs]

\* Once SetEnabled(false) has returned, no job it revoked is being written,
\* though memory may have been enabled again ("revoked jobs never regain
\* authority").  A job that read the new epoch while it was admitted is
\* revoked as well.
RevokedStayOut ==
    \A c \in Callers :
        call[c] \in {"seal", "returned"} /\ wpc = "write" => cur \notin revoked[c]

\* No publication is under way, and none begins, after Stop has returned.
StopSeals ==
    \A c \in Callers : call[c] = "returned" /\ kind[c] = "stop" => ~StoreLocked

\* What a returned SetEnabled(false) or Stop has promised stays true.
RevocationHolds == RevokedStayOut /\ StopSeals

\* A source is published once, by whichever process comes first.
PublishedOnce == \A s \in Sources : markers[s] <= 1

\* Work that was admitted is done with, or the worker's life has ended, so that
\* a Drain that waits for it ends; a caller of SetEnabled or Stop returns, and
\* after a Stop the worker is done.
EverythingSettles ==
    /\ (pending # NoJob \/ active) ~> ((pending = NoJob /\ ~active) \/ ctxDone)
    /\ (\E c \in Callers : call[c] \notin {"idle", "returned"})
         ~> \A c \in Callers : /\ call[c] \in {"idle", "returned"}
                              /\ call[c] = "returned" /\ kind[c] = "stop" => wpc = "done"

=============================================================================
