--------------------------- MODULE DurableDispatch ---------------------------
(***************************************************************************)
(* How a tool call becomes durable before it runs, and what is left of it  *)
(* afterwards: the run-commit consumer (internal/core/run_commit_consumer  *)
(* .go) drives the sink of its session (internal/session/run_commit.go),   *)
(* which writes the session's ActionJournal and the WorkspaceIndex that    *)
(* all sessions share; the run owner (internal/core/run_owner.go) drains   *)
(* late proofs; PrepareResume (internal/session/durable_jsonl.go) recovers *)
(* a journal after a crash; an operator settles what stays unknown         *)
(* (internal/session/operator_reconciliation.go).                          *)
(*                                                                         *)
(* The sink holds its mutex for a whole operation, but the two files are   *)
(* two steps: leg says which operation is between its journal rows and its *)
(* index rows, and a crash or another session may come in between.         *)
(***************************************************************************)
EXTENDS ActionJournal, Naturals

CONSTANTS
    Sessions,
    SessionOf,   \* the session whose run proposes a batch
    Processes,   \* actions executed by an owned process group, which a crash
                 \* of the program may leave running
    MaxFaults    \* bound on crashes, power losses and failing writes

ASSUME DispatchAssumption ==
    /\ SessionOf \in [Batches -> Sessions]
    /\ Processes \subseteq Actions
    /\ MaxFaults \in Nat

VARIABLES
    process,   \* per session: the process that holds its lock
    run,       \* per session: the run the process executes
    leg,       \* per session: the operation that holds the sink's mutex
    subject,   \* per session: the actions that operation is about
    owned,     \* per session: the actions this run has reserved
    abandoned, \* calls that had not returned when their group was cancelled
    poisoned,  \* sessions whose handle refuses appends
    exec,      \* per action: its executor
    faults

volatileVars == <<run, leg, subject, owned, abandoned>>
sessionVars  == <<process, volatileVars, poisoned>>
vars == <<indexVars, journalVars, sessionVars, exec, faults>>

\* "idle": not reserved in a living process; "unproven": ended, but nothing
\* can prove it.
ExecStates == {"idle", "reserved", "refused", "running", "stopped", "unproven"}
Started(a) == exec[a] \in {"running", "stopped", "unproven"}

TypeOK ==
    /\ IndexTypeOK
    /\ JournalTypeOK
    /\ process \in [Sessions -> {"down", "opening", "recovering", "open"}]
    /\ run \in [Sessions -> {"none", "active", "failed", "terminal"}]
    /\ leg \in [Sessions -> {"none", "marking", "rejecting", "reconciling", "mirroring"}]
    /\ subject \in [Sessions -> SUBSET Actions]
    /\ owned \in [Sessions -> SUBSET Actions]
    /\ abandoned \subseteq Actions
    /\ poisoned \subseteq Sessions
    /\ exec \in [Actions -> ExecStates]
    /\ faults \in 0..MaxFaults

Init ==
    /\ IndexInit
    /\ JournalInit
    /\ process = [s \in Sessions |-> "down"]
    /\ run = [s \in Sessions |-> "none"]
    /\ leg = [s \in Sessions |-> "none"]
    /\ subject = [s \in Sessions |-> {}]
    /\ owned = [s \in Sessions |-> {}]
    /\ abandoned = {}
    /\ poisoned = {}
    /\ exec = [a \in Actions |-> "idle"]
    /\ faults = 0

-----------------------------------------------------------------------------
Owner(a) == SessionOf[BatchOf[a]]
ActionsIn(s) == {a \in Actions : Owner(a) = s}
Resolved(s)  == {a \in ActionsIn(s) : resolution[a] # "none"}
PendingIn(s) == {a \in ActionsIn(s) : Pending(a)}

\* The owner releases nothing before the resources of its calls have joined.
Joined(s) == \A a \in owned[s] : exec[a] \notin {"reserved", "running"}

\* The sink of s is free and its journal accepts appends.
Writable(s) == process[s] = "open" /\ leg[s] = "none" /\ s \notin poisoned
Idle(s)     == Writable(s) /\ run[s] = "none"
Runs(s)     == Writable(s) /\ run[s] = "active"

Fault == faults < MaxFaults /\ faults' = faults + 1

Goto(s, l, A) == leg' = [leg EXCEPT ![s] = l] /\ subject' = [subject EXCEPT ![s] = A]
Free(s) == Goto(s, "none", {})

\* An error that the consumer or the drain gets back: nothing is retried.
RunFails(s) ==
    run' = [run EXCEPT ![s] = IF @ = "none" THEN "none" ELSE "failed"]

\* An append to the journal of s fails, whatever rows it left in the file.
Poison(s) ==
    /\ Fault
    /\ poisoned' = poisoned \cup {s}
    /\ RunFails(s)
    /\ Free(s)
    /\ UNCHANGED <<process, owned, abandoned, exec>>

\* Nothing but the run changes: the index, or the call's context, refused.
Refused(s) ==
    /\ Fault
    /\ RunFails(s)
    /\ Free(s)
    /\ UNCHANGED <<process, owned, abandoned, poisoned, exec, journalVars>>

\* What a successful append to the journal leaves alone.
Appended == UNCHANGED <<indexVars, process, abandoned, poisoned, faults>>

-----------------------------------------------------------------------------
(* Reserving a batch *)

\* ValidateNewTurn: no turn starts while an action of the session is pending.
StartRun(s) ==
    /\ Idle(s)
    /\ PendingIn(s) = {}
    /\ run' = [run EXCEPT ![s] = "active"]
    /\ UNCHANGED <<leg, subject, owned, abandoned, process, poisoned, exec,
                   faults, indexVars, journalVars>>

\* The consumer goes on to the next batch only after every call of the last
\* one was resolved and none of them left the outcome unknown.
\* A batch the index denied is the last one of its run.
Settled(s) ==
    \A a \in owned[s] : ~Pending(a) /\ receipt[a] # "unknown" /\ exec[a] # "idle"

\* BeginIntentBatch, first leg: the intents.
BeginIntentBatch(s, b) ==
    /\ Runs(s) /\ Settled(s)
    /\ SessionOf[b] = s
    /\ AppendIntents(ActionsOf(b))
    /\ owned' = [owned EXCEPT ![s] = @ \cup ActionsOf(b)]
    /\ Goto(s, "marking", ActionsOf(b))
    /\ UNCHANGED <<run, exec>> /\ Appended

BeginIntentBatchFails(s, b) ==
    /\ Runs(s) /\ Settled(s)
    /\ SessionOf[b] = s
    /\ ActionsOf(b) \cap intent = {}
    /\ \E kept \in SUBSET ActionsOf(b) : AppendIntents(kept)
    /\ UNCHANGED indexVars
    /\ Poison(s)

Marking(s, b) == leg[s] = "marking" /\ subject[s] = ActionsOf(b)

\* BeginIntentBatch, second leg: the marker grants one permit per action.
BeginDispatchBatch(s, b) ==
    /\ Marking(s, b)
    /\ MarkBatch(b)
    /\ exec' = [a \in Actions |-> IF a \in subject[s] THEN "reserved" ELSE exec[a]]
    /\ Free(s)
    /\ UNCHANGED <<run, owned, abandoned, process, poisoned, faults, journalVars>>

\* Quarantined before any append: the sink closes the batch itself.
BeginDispatchBatchDenied(s, b) ==
    /\ Marking(s, b)
    /\ DenyBatch(b)
    /\ Goto(s, "rejecting", subject[s])
    /\ UNCHANGED <<run, owned, abandoned, process, poisoned, exec, faults, journalVars>>

\* Variant: a marker that could not be synced still grants the permits.
BeginDispatchBatchFailsOpen(s, b) ==
    /\ Marking(s, b)
    /\ MarkBatchFails(b)
    /\ Fault
    /\ exec' = [a \in Actions |-> IF a \in subject[s] THEN "reserved" ELSE exec[a]]
    /\ Free(s)
    /\ UNCHANGED <<run, owned, abandoned, process, poisoned, journalVars>>

\* NotCommitted, although the marker may be visible to the next reader.
BeginDispatchBatchFails(s, b) ==
    /\ Marking(s, b)
    /\ MarkBatchFails(b) \/ DenyBatch(b) \/ UNCHANGED indexVars
    /\ Refused(s)

\* closeRejectedBatchLocked, for one call after another.
RejectReceipt(s, a) ==
    /\ leg[s] = "rejecting" /\ a \in subject[s]
    /\ \A other \in subject[s] \ {a} : receipt[other] # "none" => ~Pending(other)
    /\ AppendReceipt(a, "not_dispatched")
    /\ UNCHANGED <<run, leg, subject, owned, exec>> /\ Appended

RejectResolve(s, a) ==
    /\ leg[s] = "rejecting" /\ a \in subject[s]
    /\ AppendResolution(a, "never_dispatched")
    /\ applyResolutions({a}, [resolution EXCEPT ![a] = "never_dispatched"])
    /\ UNCHANGED <<run, owned, exec, process, abandoned, poisoned, faults>>
    /\ IF \A other \in subject[s] \ {a} : ~Pending(other)
       THEN Free(s)
       ELSE UNCHANGED <<leg, subject>>

RejectFails(s) ==
    /\ leg[s] = "rejecting"
    /\ UNCHANGED <<indexVars, journalVars>>
    /\ Poison(s) \/ Refused(s)

-----------------------------------------------------------------------------
(* The executors *)

\* The prepared invocation passes its single-use dispatch fence.
Dispatch(a) ==
    /\ exec[a] = "reserved"
    /\ exec' = [exec EXCEPT ![a] = "running"]
    /\ UNCHANGED <<indexVars, journalVars, sessionVars, faults>>

\* The fence refuses it: cancellation, a revoked capability, a lost policy.
DispatchRefused(a) ==
    /\ exec[a] = "reserved"
    /\ exec' = [exec EXCEPT ![a] = "refused"]
    /\ UNCHANGED <<indexVars, journalVars, sessionVars, faults>>

\* The resources of the call end; only its own process can prove that.
ExecutorEnds(a) ==
    /\ exec[a] = "running"
    /\ \E end \in {"stopped", "unproven"} :
        /\ end = "stopped" => a \in owned[Owner(a)]
        /\ exec' = [exec EXCEPT ![a] = end]
    /\ UNCHANGED <<indexVars, journalVars, sessionVars, faults>>

\* The identity of an owned process group is recorded while it runs.
RecordIdentity(s, a) ==
    /\ Writable(s) /\ run[s] \in {"active", "failed"}
    /\ a \in owned[s] \cap Processes
    /\ exec[a] = "running"
    /\ "identity" \notin rows[a]
    /\ AppendExecution(a, {"identity"})
    /\ UNCHANGED <<run, leg, subject, owned, exec>> /\ Appended

-----------------------------------------------------------------------------
(* What the consumer records of a call: one row after another *)

Observed(a) == rows[a] \cap {"dispatched", "refused"} # {}

\* Dispatch returned; its resources may still be open.
ExecutionRow(a) ==
    /\ ~Observed(a)
    /\ \/ exec[a] = "refused" /\ AppendExecution(a, {"refused"})
       \/ exec[a] \in {"running", "unproven"} /\ AppendExecution(a, {"dispatched"})
       \/ exec[a] = "stopped"
          /\ \E proof \in SUBSET {"proof"} : AppendExecution(a, {"dispatched"} \cup proof)

\* Variant: a call that has not returned is taken for not dispatched.
AbandonedAsRefused(a, r) ==
    \/ "refused" \in rows[a] /\ r = "not_dispatched"
    \/ "dispatched" \in rows[a] /\ a \notin abandoned /\ r \in {"known", "unknown"}
    \/ a \in abandoned /\ r = "not_dispatched"

OutcomeOf(a, r) ==
    \/ "refused" \in rows[a] /\ r = "not_dispatched"
    \/ "dispatched" \in rows[a] /\ a \notin abandoned /\ r \in {"known", "unknown"}
    \/ a \in abandoned /\ r = "unknown"

ReceiptRow(a) ==
    /\ Observed(a)
    /\ \E r \in Receipts : OutcomeOf(a, r) /\ AppendReceipt(a, r)

\* A proof that became ready after the first execution row.
ProofRow(a) ==
    /\ DispatchedReceipt(a) /\ Pending(a)
    /\ exec[a] = "stopped" /\ "proof" \notin rows[a]
    /\ AppendExecution(a, {"proof"})

\* A call that has not returned when its group is cancelled is taken for
\* dispatched, whatever becomes of it.
RecordAbandoned(s, a) ==
    /\ Runs(s) /\ a \in owned[s]
    /\ exec[a] # "idle" /\ ~Observed(a)
    /\ AppendExecution(a, {"dispatched"})
    /\ abandoned' = abandoned \cup {a}
    /\ UNCHANGED <<run, leg, subject, owned, exec, indexVars, process, poisoned, faults>>

RecordExecution(s, a) ==
    /\ Runs(s) /\ a \in owned[s]
    /\ ExecutionRow(a)
    /\ UNCHANGED <<run, leg, subject, owned, exec>> /\ Appended

RecordReceipt(s, a) ==
    /\ Runs(s) /\ a \in owned[s]
    /\ ReceiptRow(a)
    /\ UNCHANGED <<run, leg, subject, owned, exec>> /\ Appended

\* The owner's drain writes after the terminal checkpoint, and only for calls
\* whose receipt is durable; the consumer waits only for calls that returned.
MayResolve(s, a) ==
    /\ Writable(s) /\ a \in owned[s]
    /\ \/ run[s] = "active" /\ a \notin abandoned
       \/ run[s] = "terminal" /\ Joined(s) /\ exec[a] = "stopped"

RecordProof(s, a) ==
    /\ MayResolve(s, a)
    /\ ProofRow(a)
    /\ UNCHANGED <<run, leg, subject, owned, exec>> /\ Appended

\* Variant: the index is told before the journal.
ResolveExecutionIndexFirst(s, a) ==
    /\ MayResolve(s, a)
    /\ Pending(a)
    /\ \E e \in {"never_dispatched", "local_resources_stopped"} :
        EvidenceFor(a, e) /\ applyResolutions({a}, [resolution EXCEPT ![a] = e])
    /\ UNCHANGED <<exec, faults, sessionVars, journalVars>>

ResolveExecution(s, a) ==
    /\ MayResolve(s, a)
    /\ \E e \in {"never_dispatched", "local_resources_stopped"} : AppendResolution(a, e)
    /\ Goto(s, "mirroring", {a})
    /\ UNCHANGED <<run, owned, exec>> /\ Appended

\* The second leg of every resolution.
Mirror(s) ==
    /\ leg[s] = "mirroring"
    /\ applyResolutions(subject[s], resolution)
    /\ Free(s)
    /\ UNCHANGED <<run, owned, abandoned, process, poisoned, exec, faults, journalVars>>

MirrorFails(s) ==
    /\ leg[s] = "mirroring"
    /\ applyResolutionsFails(subject[s], resolution) \/ UNCHANGED indexVars
    /\ Refused(s)

\* A write of the run fails: its row may be found by the next PrepareResume.
RunWriteFails(s) ==
    /\ Writable(s) /\ run[s] # "none"
    /\ \/ UNCHANGED journalVars
       \/ \E a \in owned[s] : Runs(s) /\ (ExecutionRow(a) \/ ReceiptRow(a))
       \/ \E a \in owned[s] : MayResolve(s, a) /\ ProofRow(a)
       \/ \E a \in owned[s], e \in {"never_dispatched", "local_resources_stopped"} :
            MayResolve(s, a) /\ AppendResolution(a, e)
    /\ UNCHANGED indexVars
    /\ Poison(s)

\* The deadline of the commit context passes between two writes.
RunWriteRefused(s) ==
    /\ Writable(s) /\ run[s] \in {"active", "terminal"}
    /\ UNCHANGED indexVars
    /\ Refused(s)

-----------------------------------------------------------------------------
(* The end of a run *)

\* Every call has its receipt, and the consumer did what it does after them.
CommitTerminal(s) ==
    /\ Writable(s) /\ run[s] \in {"active", "failed"}
    /\ \A a \in owned[s] : receipt[a] # "none"
    /\ run[s] = "active" => \A a \in owned[s] : receipt[a] = "not_dispatched" => ~Pending(a)
    /\ run' = [run EXCEPT ![s] = "terminal"]
    /\ UNCHANGED <<leg, subject, owned, exec, journalVars>> /\ Appended

\* Variant: the lease is returned without waiting for the drain.
DrainedAtOnce(s) == run[s] = "terminal"

Drained(s) ==
    \A a \in owned[s] : Pending(a) /\ DispatchedReceipt(a) => exec[a] # "stopped"

\* Variant: only a terminal checkpoint lets the lease go.
EndRunAfterTerminal(s) ==
    /\ process[s] = "open" /\ leg[s] = "none"
    /\ Joined(s)
    /\ run[s] = "terminal" /\ Drained(s)
    /\ run' = [run EXCEPT ![s] = "none"]
    /\ abandoned' = abandoned \ owned[s]
    /\ owned' = [owned EXCEPT ![s] = {}]
    /\ UNCHANGED <<leg, subject, process, poisoned, exec, faults, indexVars, journalVars>>

\* The run returns its lease.
EndRun(s) ==
    /\ process[s] = "open" /\ leg[s] = "none"
    /\ Joined(s)
    /\ run[s] = "failed" \/ (run[s] = "terminal" /\ Drained(s))
    /\ run' = [run EXCEPT ![s] = "none"]
    /\ abandoned' = abandoned \ owned[s]
    /\ owned' = [owned EXCEPT ![s] = {}]
    /\ UNCHANGED <<leg, subject, process, poisoned, exec, faults, indexVars, journalVars>>

-----------------------------------------------------------------------------
(* Between runs: the operator *)

\* Variant: the recorded process group is not inspected.
MayReconcileUninspected(a) ==
    /\ receipt[a] = "unknown"
    /\ MarkerState(a) = "present"

MayReconcile(a) ==
    /\ receipt[a] = "unknown"
    /\ "identity" \in rows[a] => exec[a] # "running"
    /\ MarkerState(a) = "present"

\* ReconcileUnknownAction: the checkpoint, its resolution, the index.
ReconcileUnknownAction(s, a) ==
    /\ Idle(s) /\ a \in PendingIn(s)
    /\ MayReconcile(a)
    /\ AppendCheckpoint(a)
    /\ SyncIndex
    /\ Goto(s, "reconciling", {a})
    /\ UNCHANGED <<run, owned, abandoned, process, poisoned, exec, faults, marked, mirror>>

ReconcileResolve(s, a) ==
    /\ leg[s] = "reconciling" /\ subject[s] = {a}
    /\ AppendResolution(a, "operator_reconciled")
    /\ Goto(s, "mirroring", {a})
    /\ UNCHANGED <<run, owned, exec>> /\ Appended

ReconcileFails(s) ==
    /\ \/ /\ Idle(s)
          /\ \E a \in PendingIn(s) : MayReconcile(a) /\ AppendCheckpoint(a)
          /\ SyncIndex
          /\ UNCHANGED <<marked, mirror>>
       \/ /\ leg[s] = "reconciling"
          /\ UNCHANGED indexVars
          /\ UNCHANGED journalVars \/ \E a \in subject[s] : AppendResolution(a, "operator_reconciled")
    /\ Poison(s)

\* /session pending first mirrors every resolution the journal holds.
SyncRecordedResolutions(s) ==
    /\ Idle(s)
    /\ applyResolutions(Resolved(s), resolution)
    /\ UNCHANGED <<sessionVars, exec, faults, journalVars>>

SyncRecordedResolutionsFails(s) ==
    /\ Idle(s)
    /\ applyResolutionsFails(Resolved(s), resolution)
    /\ Refused(s)

-----------------------------------------------------------------------------
(* Crashes and recovery *)

\* The process that holds the session ends, orderly between two runs or not.
Release(S) ==
    /\ process' = [s \in Sessions |-> IF s \in S THEN "down" ELSE process[s]]
    /\ run' = [s \in Sessions |-> IF s \in S THEN "none" ELSE run[s]]
    /\ leg' = [s \in Sessions |-> IF s \in S THEN "none" ELSE leg[s]]
    /\ subject' = [s \in Sessions |-> IF s \in S THEN {} ELSE subject[s]]
    /\ abandoned' = {a \in abandoned : Owner(a) \notin S}
    /\ owned' = [s \in Sessions |-> IF s \in S THEN {} ELSE owned[s]]
    /\ poisoned' = poisoned \ S

Close(s) ==
    /\ process[s] = "open" /\ run[s] = "none" /\ leg[s] = "none"
    /\ Release({s})
    /\ UNCHANGED <<exec, faults, indexVars, journalVars>>

\* What becomes of the executor of a when its program is gone; survivors are
\* the process groups that go on running.
AfterCrash(a, survivors) ==
    CASE exec[a] \in {"reserved", "refused"} -> "idle"
      [] exec[a] = "running" /\ a \notin survivors -> "unproven"
      [] OTHER -> exec[a]

Crash(s) ==
    /\ process[s] # "down"
    /\ Fault
    /\ Release({s})
    /\ \E survivors \in SUBSET {a \in Processes : Owner(a) = s /\ exec[a] = "running"} :
        exec' = [a \in Actions |-> IF Owner(a) = s THEN AfterCrash(a, survivors) ELSE exec[a]]
    /\ UNCHANGED <<indexVars, journalVars>>

PowerLoss ==
    /\ Fault
    /\ Release(Sessions)
    /\ exec' = [a \in Actions |-> AfterCrash(a, {})]
    /\ LoseUnsynced
    /\ UNCHANGED journalVars

Enter(s, p) ==
    /\ process' = [process EXCEPT ![s] = p]
    /\ UNCHANGED <<volatileVars, poisoned, exec>>

\* PrepareResume takes the session's lock and reads the journal ...
BeginResume(s) ==
    /\ process[s] = "down"
    /\ Enter(s, "opening")
    /\ UNCHANGED <<faults, indexVars, journalVars>>

\* ... mirrors the resolutions it holds ...
ResumeMirrors(s) ==
    /\ process[s] = "opening"
    /\ applyResolutions(Resolved(s), resolution)
    /\ Enter(s, "recovering")
    /\ UNCHANGED <<faults, journalVars>>

\* ... refuses a journal that the index contradicts ...
Contradicted(a) ==
    \/ MarkerState(a) = "absent" /\ rows[a] \cap {"identity", "dispatched", "proof"} # {}
    \/ MarkerState(a) = "absent" /\ DispatchedReceipt(a)
    \/ MarkerState(a) # "absent" /\ receipt[a] = "not_dispatched"

ResumeRejected(s) ==
    /\ process[s] = "recovering"
    /\ \E a \in PendingIn(s) : Contradicted(a)
    /\ SyncIndex
    /\ Enter(s, "down")
    /\ UNCHANGED <<faults, marked, mirror, journalVars>>

\* ... and gives each call that has no receipt the one its marker calls for.
Recovered(A) ==
    [a \in Actions |->
        IF a \notin A THEN receipt[a]
        ELSE IF MarkerState(a) = "absent" THEN "not_dispatched" ELSE "unknown"]

\* Variant: recovery writes a receipt for every open call.
UnreceiptedOrNot(s) == PendingIn(s)

Unreceipted(s) == {a \in PendingIn(s) : receipt[a] = "none"}

PrepareResume(s) ==
    /\ process[s] = "recovering"
    /\ \A a \in PendingIn(s) : ~Contradicted(a)
    /\ receipt' = Recovered(Unreceipted(s))
    /\ IF PendingIn(s) = {} THEN UNCHANGED unsynced ELSE SyncIndex
    /\ Enter(s, "open")
    /\ UNCHANGED <<faults, marked, mirror, intent, rows, checkpoint, resolution>>

\* An input or output error: some recovery receipts may have been written.
ResumeFails(s) ==
    /\ Fault
    /\ \/ /\ process[s] \in {"opening", "recovering"}
          /\ UNCHANGED <<indexVars, journalVars>>
       \/ /\ process[s] = "opening"
          /\ applyResolutionsFails(Resolved(s), resolution)
          /\ UNCHANGED journalVars
       \/ /\ process[s] = "recovering"
          /\ \A a \in PendingIn(s) : ~Contradicted(a)
          /\ \E kept \in SUBSET Unreceipted(s) : receipt' = Recovered(kept)
          /\ SyncIndex
          /\ UNCHANGED <<marked, mirror, intent, rows, checkpoint, resolution>>
    /\ Enter(s, "down")

-----------------------------------------------------------------------------
ConsumerStep(s) ==
    \/ \E b \in Batches : \/ BeginDispatchBatch(s, b)
                          \/ BeginDispatchBatchDenied(s, b)
    \/ \E a \in Actions : \/ RejectReceipt(s, a) \/ RejectResolve(s, a)
                          \/ RecordExecution(s, a) \/ RecordReceipt(s, a)
                          \/ RecordProof(s, a) \/ ResolveExecution(s, a)
                          \/ ReconcileResolve(s, a)
    \/ Mirror(s)
    \/ EndRun(s)

ConsumerFails(s) ==
    \/ \E b \in Batches : BeginIntentBatchFails(s, b) \/ BeginDispatchBatchFails(s, b)
    \/ RejectFails(s) \/ MirrorFails(s) \/ RunWriteFails(s) \/ RunWriteRefused(s)
    \/ ReconcileFails(s) \/ SyncRecordedResolutionsFails(s)

ResumeStep(s) ==
    BeginResume(s) \/ ResumeMirrors(s) \/ ResumeRejected(s) \/ PrepareResume(s)

ExecutorStep(a) == Dispatch(a) \/ DispatchRefused(a) \/ ExecutorEnds(a)

SessionNext(s) ==
    \/ StartRun(s)
    \/ \E b \in Batches : BeginIntentBatch(s, b)
    \/ ConsumerStep(s)
    \/ \E a \in Actions : \/ RecordIdentity(s, a) \/ RecordAbandoned(s, a)
                          \/ ReconcileUnknownAction(s, a)
    \/ CommitTerminal(s)
    \/ SyncRecordedResolutions(s)
    \/ ConsumerFails(s)
    \/ Close(s) \/ Crash(s)
    \/ ResumeStep(s) \/ ResumeFails(s)

Next ==
    \/ \E s \in Sessions : SessionNext(s)
    \/ \E a \in Actions : ExecutorStep(a)
    \/ PowerLoss

Spec == Init /\ [][Next]_vars

-----------------------------------------------------------------------------
(* Safety *)

\* No executor starts unless its intent and the marker of its batch are on
\* disk: whatever crashes afterwards, recovery sees that it may have run.
StartedIsMarked ==
    \A a \in Actions :
        Started(a) \/ exec[a] = "reserved" => a \in intent /\ BatchOf[a] \in marked \ unsynced

Exclusive(a) == BatchOf[a] \notin ScopedReads /\ a \notin Delegations

\* The workspace quarantine: calls of different batches that may write never
\* run at the same time, unless an operator accepted that risk for one of them.
QuarantineHolds ==
    \A a, b \in Actions :
        /\ exec[a] = "running" /\ exec[b] = "running"
        /\ Exclusive(a) /\ Exclusive(b) /\ BatchOf[a] # BatchOf[b]
        => "operator_reconciled" \in {resolution[a], resolution[b]}

\* A receipt that says a call was not dispatched is true and stays true,
\* whether the consumer, the denied batch or recovery wrote it.
UndispatchedNeverStarts ==
    \A a \in Actions : receipt[a] = "not_dispatched" => exec[a] \in {"idle", "refused"}

\* A call resolved by its completion proof has really stopped.
ProofIsTrue ==
    \A a \in Actions : resolution[a] = "local_resources_stopped" => exec[a] = "stopped"

\* What the journal says of a call is true, however late its executor answers and
\* whoever gave it up meanwhile.
RecordsAreTrue == UndispatchedNeverStarts /\ ProofIsTrue

\* An operator never releases a call whose recorded process group is alive.
ReconciledIsGone ==
    \A a \in Actions :
        resolution[a] = "operator_reconciled" /\ "identity" \in rows[a] => exec[a] # "running"

\* The index never gets ahead of a journal or contradicts it, so that mirroring
\* a session's resolutions again is always accepted.
JournalLeads ==
    /\ \A a \in Actions : mirror[a] \in {"none", resolution[a]}
    /\ \A s \in Sessions : ~Conflicting(Resolved(s), resolution)

\* Nothing that was recorded of a call is ever replaced, not by a late answer,
\* nor by recovery, nor by an operator.
HistoryIsFinal ==
    [][\A a \in Actions :
        /\ receipt[a] # "none" => receipt'[a] = receipt[a]
        /\ resolution[a] # "none" => resolution'[a] = resolution[a]]_vars

\* A session can always be opened again: "recovers the exact same physical ID
\* before permitting another run" (durable_session_manager.go, reopenPoisoned).
ReopenSucceeds ==
    \A s \in Sessions : process[s] = "recovering" => \A a \in PendingIn(s) : ~Contradicted(a)

-----------------------------------------------------------------------------
(* Liveness *)

Fairness ==
    /\ \A s \in Sessions : WF_vars(ConsumerStep(s)) /\ WF_vars(CommitTerminal(s))
    /\ \A a \in Actions : WF_vars(ExecutorStep(a))

FairSpec == Spec /\ Fairness

\* A run gives its session back, whatever writes fail on the way.
RunsEnd == \A s \in Sessions : run[s] # "none" ~> run[s] = "none"

\* While nothing fails, a call that is proven to have stopped leaves the
\* workspace quarantine, at the latest when the owner drains its late proof.
ProvenCallsLeaveQuarantine ==
    \A a \in Actions :
        (exec[a] = "stopped" /\ faults = 0) ~> (mirror[a] # "none" \/ faults > 0)
=============================================================================
