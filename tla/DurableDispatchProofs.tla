----------------------- MODULE DurableDispatchProofs -----------------------
(***************************************************************************)
(* Proofs about DurableDispatch, for any sessions, batches, actions and    *)
(* number of faults: its type invariant and its safety properties.         *)
(*                                                                         *)
(* What the properties say of a call is decided by what its own session    *)
(* was doing at the time, so the invariant ties the rows of a call to the  *)
(* leg of its session: while a batch is being marked nothing is recorded   *)
(* of its calls and none of them started, and only the session that owns a *)
(* call writes about it.  The step relations (ExecMove, ReceiptMove, ...)  *)
(* say what any step may do to one variable; each invariant then follows   *)
(* from a few of them instead of from every action.                        *)
(***************************************************************************)
EXTENDS DurableDispatch, TLAPS

\* The batches whose marker is known to be on disk.
Durable == marked \ unsynced

\* Nothing is recorded of a call that has no intent, nor does it do anything.
IntentFirst ==
    \A a \in Actions \ intent :
        exec[a] = "idle" /\ rows[a] = {} /\ receipt[a] = "none" /\ resolution[a] = "none"

\* A session owns and is busy with its own calls only.
OwnActions ==
    \A s \in Sessions : owned[s] \subseteq ActionsIn(s) /\ subject[s] \subseteq ActionsIn(s)

LegIsOpen == \A s \in Sessions : leg[s] # "none" => process[s] = "open"

\* A run that is over owns nothing, and a permit belongs to a run.
RunOwns ==
    /\ \A s \in Sessions : run[s] = "none" => owned[s] = {}
    /\ \A a \in Actions : exec[a] = "reserved" => a \in owned[Owner(a)]

\* The calls of a batch that waits for its marker are new.
MarkingIsFresh ==
    \A s \in Sessions : leg[s] = "marking" =>
        \A a \in subject[s] :
            /\ a \in intent \cap owned[s]
            /\ exec[a] = "idle" /\ rows[a] = {} /\ receipt[a] = "none"

RejectingIsIdle ==
    \A s \in Sessions : leg[s] = "rejecting" => \A a \in subject[s] : exec[a] = "idle"

\* The operator inspected the call under reconciliation, and its run is over.
ReconcilingIsGone ==
    \A s \in Sessions : leg[s] = "reconciling" =>
        \A a \in subject[s] :
            /\ a \in intent \ owned[s]
            /\ BatchOf[a] \in Durable
            /\ "identity" \in rows[a] => exec[a] # "running"

\* The execution rows are true of the executor, and stay true.
RowsAreTrue ==
    \A a \in Actions :
        /\ "refused" \in rows[a] => exec[a] \in {"idle", "refused"}
        /\ "proof" \in rows[a] => exec[a] = "stopped"

\* What each kind of resolution rests on.
ResolutionsRest ==
    \A a \in Actions :
        /\ resolution[a] = "never_dispatched" => receipt[a] = "not_dispatched"
        /\ resolution[a] = "local_resources_stopped" => "proof" \in rows[a]
        /\ resolution[a] = "operator_reconciled" =>
             BatchOf[a] \in Durable /\ a \notin owned[Owner(a)]

MirrorsJournal == \A a \in Actions : mirror[a] \in {"none", resolution[a]}

\* QuarantineHolds, already when the permits are granted.
Admitted(a) == exec[a] \in {"reserved", "running"}

QuarantineAdmits ==
    \A a, b \in Actions :
        /\ Admitted(a) /\ Admitted(b)
        /\ Exclusive(a) /\ Exclusive(b) /\ BatchOf[a] # BatchOf[b]
        => "operator_reconciled" \in {resolution[a], resolution[b]}

SessionInv == LegIsOpen /\ OwnActions /\ RunOwns

CallInv ==
    /\ IntentFirst
    /\ MarkingIsFresh
    /\ RejectingIsIdle
    /\ StartedIsMarked
    /\ RowsAreTrue
    /\ UndispatchedNeverStarts

ResolutionInv ==
    /\ ReconcilingIsGone
    /\ ResolutionsRest
    /\ MirrorsJournal
    /\ ReconciledIsGone
    /\ QuarantineAdmits

DispatchInv == TypeOK /\ SessionInv /\ CallInv /\ ResolutionInv

-----------------------------------------------------------------------------
(* Types *)

\* How an executor ends is one of its states.
LEMMA ExecutionTyped ==
    ASSUME TypeOK, NEW a \in Actions, NEW new \in SUBSET Executions, AppendExecution(a, new)
    PROVE  JournalTypeOK'
  BY DEF AppendExecution, TypeOK, JournalTypeOK

\* The row a resolution adds is an execution row.
LEMMA RowTyped ==
    ASSUME TypeOK, NEW a \in Actions, ExecutionRow(a) \/ ReceiptRow(a) \/ ProofRow(a)
    PROVE  JournalTypeOK'
<1>1. CASE ExecutionRow(a)
  <2>1. PICK new \in SUBSET Executions : AppendExecution(a, new)
    BY <1>1 DEF ExecutionRow, Executions
  <2>2. QED
    BY <2>1, ExecutionTyped
<1>2. CASE ReceiptRow(a)
  BY <1>2 DEF ReceiptRow, AppendReceipt, TypeOK, JournalTypeOK
<1>3. CASE ProofRow(a)
  BY <1>3, ExecutionTyped DEF ProofRow, Executions
<1>4. QED
  BY <1>1, <1>2, <1>3

\* A resolution is one of those the journal knows.
LEMMA ResolutionTyped ==
    ASSUME TypeOK, NEW a \in Actions, NEW e \in Evidence, AppendResolution(a, e)
    PROVE  JournalTypeOK'
  BY DEF AppendResolution, TypeOK, JournalTypeOK

\* Every step keeps the types.
LEMMA TypeStep == TypeOK /\ Next => TypeOK'
<1> SUFFICES ASSUME TypeOK, Next
             PROVE  TypeOK'
  OBVIOUS
<1> USE IndexAssumption, DispatchAssumption
    DEF TypeOK, IndexTypeOK, ExecStates, indexVars, sessionVars, volatileVars, Goto, Free,
        RunFails, Fault, SyncIndex, ActionsOf, ActionsIn
<1>1. ASSUME NEW s \in Sessions, Enter(s, "opening") \/ Enter(s, "recovering") \/ Enter(s, "open")
                                 \/ Enter(s, "down"),
             JournalTypeOK', IndexTypeOK', faults' \in 0..MaxFaults
      PROVE  TypeOK'
  BY <1>1 DEF Enter
<1>2. ASSUME NEW s \in Sessions, Poison(s), JournalTypeOK', IndexTypeOK' PROVE TypeOK'
  BY <1>2 DEF Poison
<1>3. ASSUME NEW s \in Sessions, Refused(s), IndexTypeOK' PROVE TypeOK'
  BY <1>3 DEF Refused, JournalTypeOK, journalVars
<1>4. ASSUME NEW s \in Sessions, \/ applyResolutions(Resolved(s), resolution)
                                 \/ applyResolutionsFails(Resolved(s), resolution)
                                 \/ applyResolutions(subject[s], resolution)
                                 \/ applyResolutionsFails(subject[s], resolution)
      PROVE  IndexTypeOK'
  BY <1>4 DEF applyResolutions, applyResolutionsFails, Mirrored, Resolved, Marked, Fresh,
              JournalTypeOK
<1>5. UNCHANGED journalVars => JournalTypeOK'
  BY DEF JournalTypeOK, journalVars
<1>6. UNCHANGED indexVars => IndexTypeOK'
  OBVIOUS
<1>7. ASSUME NEW s \in Sessions, StartRun(s) \/ CommitTerminal(s) \/ EndRun(s) PROVE TypeOK'
  BY <1>5, <1>7 DEF StartRun, CommitTerminal, EndRun, Appended
<1>8. ASSUME NEW s \in Sessions, NEW b \in Batches,
             \/ BeginIntentBatch(s, b) \/ BeginDispatchBatch(s, b) \/ BeginDispatchBatchDenied(s, b)
      PROVE  TypeOK'
  <2>1. CASE BeginIntentBatch(s, b)
    BY <2>1 DEF BeginIntentBatch, AppendIntents, Appended, JournalTypeOK
  <2>2. CASE BeginDispatchBatch(s, b)
    BY <1>5, <2>2 DEF BeginDispatchBatch, MarkBatch
  <2>3. CASE BeginDispatchBatchDenied(s, b)
    BY <1>5, <2>3 DEF BeginDispatchBatchDenied, DenyBatch
  <2>4. QED
    BY <1>8, <2>1, <2>2, <2>3
<1>9. ASSUME NEW s \in Sessions, NEW b \in Batches,
             BeginIntentBatchFails(s, b) \/ BeginDispatchBatchFails(s, b)
      PROVE  TypeOK'
  BY <1>2, <1>3, <1>6, <1>9 DEF BeginIntentBatchFails, BeginDispatchBatchFails, AppendIntents,
                                JournalTypeOK, DenyBatch, MarkBatchFails
<1>10. ASSUME NEW s \in Sessions, NEW a \in Actions,
              \/ RecordIdentity(s, a) \/ RecordAbandoned(s, a) \/ RecordExecution(s, a)
              \/ RecordReceipt(s, a) \/ RecordProof(s, a)
       PROVE  TypeOK'
  <2>1. JournalTypeOK'
    BY <1>10, ExecutionTyped, RowTyped
       DEF RecordIdentity, RecordAbandoned, RecordExecution, RecordReceipt, RecordProof, Executions
  <2>2. QED
    BY <1>10, <2>1 DEF RecordIdentity, RecordAbandoned, RecordExecution, RecordReceipt, RecordProof,
                       Appended
<1>11. ASSUME NEW s \in Sessions, NEW a \in Actions, RejectReceipt(s, a) \/ RejectResolve(s, a)
       PROVE  TypeOK'
  <2>1. CASE RejectReceipt(s, a)
    BY <2>1 DEF RejectReceipt, AppendReceipt, Appended, Receipts, JournalTypeOK
  <2>2. CASE RejectResolve(s, a)
    <3>1. JournalTypeOK'
      BY <2>2, ResolutionTyped DEF RejectResolve, Evidence
    <3>2. IndexTypeOK'
      BY <2>2 DEF RejectResolve, applyResolutions, Mirrored, Marked, Fresh, Evidence, JournalTypeOK
    <3>3. QED
      BY <2>2, <3>1, <3>2 DEF RejectResolve
  <2>3. QED
    BY <1>11, <2>1, <2>2
<1>12. ASSUME NEW s \in Sessions, NEW a \in Actions, ResolveExecution(s, a) \/ ReconcileResolve(s, a)
       PROVE  TypeOK'
  BY <1>12, ResolutionTyped DEF ResolveExecution, ReconcileResolve, Appended, Evidence
<1>13. ASSUME NEW s \in Sessions, NEW a \in Actions, ReconcileUnknownAction(s, a) PROVE TypeOK'
  BY <1>13 DEF ReconcileUnknownAction, AppendCheckpoint, JournalTypeOK
<1>14. ASSUME NEW s \in Sessions, Mirror(s) \/ SyncRecordedResolutions(s) PROVE TypeOK'
  BY <1>4, <1>5, <1>14 DEF Mirror, SyncRecordedResolutions
<1>15. ASSUME NEW s \in Sessions, \/ RejectFails(s) \/ MirrorFails(s) \/ RunWriteRefused(s)
                                  \/ SyncRecordedResolutionsFails(s)
       PROVE  TypeOK'
  BY <1>2, <1>3, <1>4, <1>5, <1>6, <1>15
     DEF RejectFails, MirrorFails, RunWriteRefused, SyncRecordedResolutionsFails
<1>16. ASSUME NEW s \in Sessions, RunWriteFails(s) PROVE TypeOK'
  <2>1. JournalTypeOK'
    BY <1>5, <1>16, RowTyped, ResolutionTyped DEF RunWriteFails, MayResolve, Evidence
  <2>2. QED
    BY <1>2, <1>6, <1>16, <2>1 DEF RunWriteFails
<1>17. ASSUME NEW s \in Sessions, ReconcileFails(s) PROVE TypeOK'
  <2>1. JournalTypeOK'
    BY <1>5, <1>17, ResolutionTyped DEF ReconcileFails, AppendCheckpoint, PendingIn, Evidence,
                                        JournalTypeOK
  <2>2. QED
    BY <1>2, <1>6, <1>17, <2>1 DEF ReconcileFails
<1>18. ASSUME NEW s \in Sessions, Close(s) \/ Crash(s) PROVE TypeOK'
  BY <1>5, <1>6, <1>18 DEF Close, Crash, Release, AfterCrash
<1>19. CASE PowerLoss
  <2>1. IndexTypeOK'
    BY <1>19 DEF PowerLoss, LoseUnsynced
  <2>2. QED
    BY <1>5, <1>19, <2>1 DEF PowerLoss, Release, AfterCrash
<1>20. ASSUME NEW s \in Sessions, ResumeStep(s) PROVE TypeOK'
  <2>1. IndexTypeOK'
    BY <1>4, <1>6, <1>20 DEF ResumeStep, BeginResume, ResumeMirrors, ResumeRejected, PrepareResume
  <2>2. JournalTypeOK'
    BY <1>5, <1>20 DEF ResumeStep, BeginResume, ResumeMirrors, ResumeRejected, PrepareResume,
                       Recovered, Receipts, JournalTypeOK
  <2>3. QED
    BY <1>1, <1>20, <2>1, <2>2 DEF ResumeStep, BeginResume, ResumeMirrors, ResumeRejected,
                                   PrepareResume
<1>21. ASSUME NEW s \in Sessions, ResumeFails(s) PROVE TypeOK'
  <2>1. IndexTypeOK'
    BY <1>4, <1>6, <1>21 DEF ResumeFails
  <2>2. JournalTypeOK'
    BY <1>5, <1>21 DEF ResumeFails, Recovered, Receipts, JournalTypeOK
  <2>3. QED
    BY <1>1, <1>21, <2>1, <2>2 DEF ResumeFails
<1>22. ASSUME NEW a \in Actions, ExecutorStep(a) PROVE TypeOK'
  BY <1>5, <1>22 DEF ExecutorStep, Dispatch, DispatchRefused, ExecutorEnds
<1>23. QED
  BY <1>7, <1>8, <1>9, <1>10, <1>11, <1>12, <1>13, <1>14, <1>15, <1>16, <1>17, <1>18, <1>19, <1>20,
     <1>21, <1>22 DEF Next, SessionNext, ConsumerStep, ConsumerFails

-----------------------------------------------------------------------------
(* What one step may do *)

ExecMove(a) ==
    \/ exec'[a] = exec[a]
    \/ exec[a] = "reserved" /\ exec'[a] \in {"running", "refused"}
    \/ exec[a] = "running" /\ exec'[a] \in {"stopped", "unproven"}
    \/ exec[a] \in {"reserved", "refused"} /\ exec'[a] = "idle"
    \/ \E s \in Sessions, b \in Batches : BeginDispatchBatch(s, b) /\ a \in subject[s]

\* No step names a call of another session, nor one without an intent.
RowsMove(a) ==
    \/ rows'[a] = rows[a]
    \/ /\ leg[Owner(a)] = "none" /\ a \in intent \cap owned[Owner(a)]
       /\ exec'[a] = exec[a]
       /\ rows[a] \subseteq rows'[a]
       /\ "refused" \in rows'[a] => "refused" \in rows[a] \/ exec[a] = "refused"
       /\ "proof" \in rows'[a] => "proof" \in rows[a] \/ exec[a] = "stopped"

ReceiptMove(a) ==
    \/ receipt'[a] = receipt[a]
    \/ /\ receipt[a] = "none" /\ a \in intent
       /\ exec'[a] = exec[a]
       /\ \/ leg[Owner(a)] = "rejecting" /\ a \in subject[Owner(a)]
          \/ leg[Owner(a)] = "none" /\ OutcomeOf(a, receipt'[a])
          \/ /\ process[Owner(a)] = "recovering"
             /\ receipt'[a] = "not_dispatched" => BatchOf[a] \notin marked

ResolutionMove(a) ==
    \/ resolution'[a] = resolution[a]
    \/ /\ Pending(a) /\ EvidenceFor(a, resolution'[a])
       /\ UNCHANGED <<exec, rows, receipt, intent, owned>>
       /\ resolution'[a] = "operator_reconciled" =>
            leg[Owner(a)] = "reconciling" /\ a \in subject[Owner(a)]

LegMove(s) ==
    \/ leg'[s] = "none" /\ subject'[s] = {}
    \/ /\ leg'[s] = leg[s] /\ subject'[s] = subject[s]
       /\ leg[s] # "none" => process'[s] = process[s] /\ owned'[s] = owned[s]
    \/ /\ process'[s] = "open"
       /\ \E b \in Batches :
            /\ SessionOf[b] = s /\ ActionsOf(b) \cap intent = {}
            /\ leg'[s] = "marking" /\ subject'[s] = ActionsOf(b)
            /\ ActionsOf(b) \subseteq intent' \cap owned'[s]
            /\ UNCHANGED <<exec, rows, receipt>>
    \/ /\ process'[s] = "open" /\ leg[s] = "marking"
       /\ leg'[s] = "rejecting" /\ subject'[s] = subject[s]
       /\ UNCHANGED exec
    \/ /\ process'[s] = "open" /\ leg'[s] = "mirroring"
       /\ subject'[s] \subseteq ActionsIn(s)
    \/ /\ process'[s] = "open" /\ run[s] = "none"
       /\ leg'[s] = "reconciling"
       /\ \E a \in ActionsIn(s) \cap intent :
            subject'[s] = {a} /\ MayReconcile(a)
       /\ unsynced' = {}
       /\ UNCHANGED <<exec, rows, intent, owned, marked>>

OwnedMove(s) ==
    \/ owned'[s] = owned[s] /\ (run'[s] = "none" => run[s] = "none")
    \/ owned'[s] = {} /\ \A a \in owned[s] : exec'[a] # "reserved"
    \/ /\ run'[s] # "none"
       /\ \E b \in Batches :
            /\ SessionOf[b] = s /\ ActionsOf(b) \cap intent = {}
            /\ owned'[s] = owned[s] \cup ActionsOf(b)
       /\ UNCHANGED exec

-----------------------------------------------------------------------------
(* Each step is one of those *)

\* Markers that are on disk stay there, and intents are never dropped.
LEMMA MarksStay ==
    TypeOK /\ Next => Durable \subseteq Durable' /\ intent \subseteq intent'
<1> SUFFICES ASSUME TypeOK, Next
             PROVE  Durable \subseteq Durable' /\ intent \subseteq intent'
  OBVIOUS
<1> USE IndexAssumption
    DEF Durable, TypeOK, IndexTypeOK, indexVars, journalVars, sessionVars, volatileVars,
        Appended, Poison, Refused, Enter, SyncIndex, AppendExecution, AppendReceipt,
        AppendCheckpoint, AppendResolution
<1>1. ASSUME NEW s \in Sessions, ConsumerStep(s)
      PROVE  Durable \subseteq Durable' /\ intent \subseteq intent'
  BY <1>1 DEF ConsumerStep, BeginDispatchBatch, BeginDispatchBatchDenied, MarkBatch, DenyBatch,
              RejectReceipt, RejectResolve, RecordExecution, RecordReceipt, RecordProof,
              ResolveExecution, ReconcileResolve, Mirror, EndRun, applyResolutions,
              ExecutionRow, ReceiptRow, ProofRow
<1>2. ASSUME NEW s \in Sessions, ConsumerFails(s)
      PROVE  Durable \subseteq Durable' /\ intent \subseteq intent'
  <2>1. CASE \E b \in Batches : BeginIntentBatchFails(s, b)
    BY <2>1 DEF BeginIntentBatchFails, AppendIntents
  <2>2. CASE \E b \in Batches : BeginDispatchBatchFails(s, b)
    BY <2>2 DEF BeginDispatchBatchFails, MarkBatchFails, DenyBatch
  <2>3. CASE RejectFails(s) \/ RunWriteRefused(s)
    BY <2>3 DEF RejectFails, RunWriteRefused
  <2>4. CASE MirrorFails(s)
    BY <2>4 DEF MirrorFails, applyResolutionsFails, Fresh, Marked
  <2>5. CASE RunWriteFails(s)
    BY <2>5 DEF RunWriteFails, ExecutionRow, ReceiptRow, ProofRow
  <2>6. CASE ReconcileFails(s)
    BY <2>6 DEF ReconcileFails
  <2>7. CASE SyncRecordedResolutionsFails(s)
    BY <2>7 DEF SyncRecordedResolutionsFails, applyResolutionsFails, Fresh, Marked, Resolved, ActionsIn
  <2>8. QED
    BY <1>2, <2>1, <2>2, <2>3, <2>4, <2>5, <2>6, <2>7 DEF ConsumerFails
<1>3. ASSUME NEW s \in Sessions, ResumeStep(s) \/ ResumeFails(s)
      PROVE  Durable \subseteq Durable' /\ intent \subseteq intent'
  BY <1>3 DEF ResumeStep, BeginResume, ResumeMirrors, ResumeRejected, PrepareResume, ResumeFails,
              applyResolutions, applyResolutionsFails, Fresh, Marked, Resolved, ActionsIn
<1>4. ASSUME NEW s \in Sessions,
             StartRun(s) \/ CommitTerminal(s) \/ SyncRecordedResolutions(s) \/ Close(s) \/ Crash(s)
      PROVE  Durable \subseteq Durable' /\ intent \subseteq intent'
  BY <1>4 DEF StartRun, CommitTerminal, SyncRecordedResolutions, Close, Crash, applyResolutions
<1>5. ASSUME NEW s \in Sessions,
             \/ \E b \in Batches : BeginIntentBatch(s, b)
             \/ \E a \in Actions : RecordIdentity(s, a) \/ RecordAbandoned(s, a)
             \/ \E a \in Actions : ReconcileUnknownAction(s, a)
      PROVE  Durable \subseteq Durable' /\ intent \subseteq intent'
  BY <1>5 DEF BeginIntentBatch, AppendIntents, RecordIdentity, RecordAbandoned,
              ReconcileUnknownAction
<1>6. ASSUME NEW a \in Actions, ExecutorStep(a)
      PROVE  Durable \subseteq Durable' /\ intent \subseteq intent'
  BY <1>6 DEF ExecutorStep, Dispatch, DispatchRefused, ExecutorEnds
<1>7. CASE PowerLoss
  BY <1>7 DEF PowerLoss, LoseUnsynced
<1>8. QED
  BY <1>1, <1>2, <1>3, <1>4, <1>5, <1>6, <1>7 DEF Next, SessionNext

\* Executors move forward; only BeginDispatchBatch grants permits.
LEMMA ExecMoves == TypeOK /\ Next => \A a \in Actions : ExecMove(a)
<1> SUFFICES ASSUME TypeOK, Next, NEW c \in Actions
             PROVE  ExecMove(c)
  OBVIOUS
<1> USE DEF ExecMove
<1>1. ASSUME NEW s \in Sessions, ConsumerStep(s) PROVE ExecMove(c)
  <2>1. ASSUME NEW b \in Batches, BeginDispatchBatch(s, b) PROVE ExecMove(c)
    BY <2>1 DEF BeginDispatchBatch, TypeOK
  <2>2. ASSUME ~ \E b \in Batches : BeginDispatchBatch(s, b) PROVE UNCHANGED exec
    BY <1>1, <2>2 DEF ConsumerStep, BeginDispatchBatchDenied, RejectReceipt, RejectResolve,
                      RecordExecution, RecordReceipt, RecordProof, ResolveExecution,
                      ReconcileResolve, Mirror, EndRun
  <2>3. QED
    BY <2>1, <2>2
<1>2. ASSUME NEW s \in Sessions, ConsumerFails(s) PROVE ExecMove(c)
  BY <1>2 DEF ConsumerFails, BeginIntentBatchFails, BeginDispatchBatchFails, RejectFails,
              MirrorFails, RunWriteFails, RunWriteRefused, ReconcileFails,
              SyncRecordedResolutionsFails, Poison, Refused
<1>3. ASSUME NEW s \in Sessions, ResumeStep(s) \/ ResumeFails(s) PROVE ExecMove(c)
  BY <1>3 DEF ResumeStep, BeginResume, ResumeMirrors, ResumeRejected, PrepareResume, ResumeFails,
              Enter
<1>4. ASSUME NEW s \in Sessions, Crash(s) PROVE ExecMove(c)
  BY <1>4 DEF Crash, AfterCrash, TypeOK, ExecStates
<1>5. ASSUME NEW s \in Sessions,
             \/ StartRun(s) \/ CommitTerminal(s) \/ SyncRecordedResolutions(s) \/ Close(s)
             \/ \E b \in Batches : BeginIntentBatch(s, b)
             \/ \E a \in Actions : RecordIdentity(s, a) \/ RecordAbandoned(s, a)
             \/ \E a \in Actions : ReconcileUnknownAction(s, a)
      PROVE  ExecMove(c)
  BY <1>5 DEF StartRun, CommitTerminal, SyncRecordedResolutions, Close, BeginIntentBatch,
              RecordIdentity, RecordAbandoned, ReconcileUnknownAction
<1>6. ASSUME NEW a \in Actions, ExecutorStep(a) PROVE ExecMove(c)
  BY <1>6 DEF ExecutorStep, Dispatch, DispatchRefused, ExecutorEnds, TypeOK, ExecStates
<1>7. CASE PowerLoss
  BY <1>7 DEF PowerLoss, AfterCrash, TypeOK, ExecStates
<1>8. QED
  BY <1>1, <1>2, <1>3, <1>4, <1>5, <1>6, <1>7 DEF Next, SessionNext

\* What appending one of the rows of a run does to the rows of a call.
LEMMA RowAppended ==
    ASSUME TypeOK, NEW a \in Actions, NEW c \in Actions, UNCHANGED exec,
           \/ ExecutionRow(a) \/ ProofRow(a)
           \/ AppendExecution(a, {"identity"}) \/ AppendExecution(a, {"dispatched"})
    PROVE  rows'[c] = rows[c] \/
           /\ c = a /\ a \in intent
           /\ rows[c] \subseteq rows'[c]
           /\ "refused" \in rows'[c] => "refused" \in rows[c] \/ exec[c] = "refused"
           /\ "proof" \in rows'[c] => "proof" \in rows[c] \/ exec[c] = "stopped"
  BY DEF ExecutionRow, ProofRow, AppendExecution, TypeOK, JournalTypeOK

\* Execution rows are added by the run that owns the call, while its sink is
\* free, and say what the executor did.
LEMMA RowsMoves == TypeOK /\ SessionInv /\ Next => \A a \in Actions : RowsMove(a)
<1> SUFFICES ASSUME TypeOK, SessionInv, Next, NEW c \in Actions
             PROVE  RowsMove(c)
  OBVIOUS
<1> USE DEF RowsMove, SessionInv
<1>1. ASSUME NEW s \in Sessions, NEW a \in Actions,
             RecordExecution(s, a) \/ RecordProof(s, a) \/ RecordIdentity(s, a) \/ RecordAbandoned(s, a)
      PROVE  RowsMove(c)
  <2>1. a \in owned[s] /\ Owner(a) = s /\ leg[s] = "none" /\ UNCHANGED exec
    BY <1>1 DEF RecordExecution, RecordProof, RecordIdentity, RecordAbandoned, MayResolve, Runs,
                Writable, OwnActions, ActionsIn
  <2>2. QED
    BY <1>1, <2>1, RowAppended DEF RecordExecution, RecordProof, RecordIdentity, RecordAbandoned
<1>2. ASSUME NEW s \in Sessions, RunWriteFails(s) PROVE RowsMove(c)
  <2>1. leg[s] = "none" /\ UNCHANGED exec
    BY <1>2 DEF RunWriteFails, Poison, Writable
  <2>2. CASE \E a \in owned[s] : ExecutionRow(a) \/ ProofRow(a)
    <3>1. PICK a \in owned[s] : ExecutionRow(a) \/ ProofRow(a)
      BY <2>2
    <3>2. a \in Actions /\ Owner(a) = s
      BY <3>1 DEF OwnActions, ActionsIn
    <3>3. QED
      BY <2>1, <3>1, <3>2, RowAppended
  <2>3. CASE UNCHANGED rows
    BY <2>3
  <2>4. QED
    BY <1>2, <2>2, <2>3 DEF RunWriteFails, ReceiptRow, AppendReceipt, AppendResolution, journalVars
<1>3. ASSUME NEW s \in Sessions, ConsumerStep(s),
             ~ \E a \in Actions : RecordExecution(s, a) \/ RecordProof(s, a)
      PROVE  UNCHANGED rows
  BY <1>3 DEF ConsumerStep, BeginDispatchBatch, BeginDispatchBatchDenied, RejectReceipt,
              RejectResolve, RecordReceipt, ReceiptRow, ResolveExecution, ReconcileResolve,
              Mirror, EndRun, AppendReceipt, AppendResolution, journalVars
<1>4. ASSUME NEW s \in Sessions, ConsumerFails(s), ~RunWriteFails(s) PROVE UNCHANGED rows
  BY <1>4 DEF ConsumerFails, BeginIntentBatchFails, BeginDispatchBatchFails, RejectFails,
              MirrorFails, RunWriteRefused, ReconcileFails, SyncRecordedResolutionsFails, Refused,
              AppendIntents, AppendCheckpoint, AppendResolution, journalVars
<1>5. ASSUME NEW s \in Sessions, ResumeStep(s) \/ ResumeFails(s) PROVE UNCHANGED rows
  BY <1>5 DEF ResumeStep, BeginResume, ResumeMirrors, ResumeRejected, PrepareResume, ResumeFails,
              journalVars
<1>6. ASSUME NEW s \in Sessions,
             \/ StartRun(s) \/ CommitTerminal(s) \/ SyncRecordedResolutions(s) \/ Close(s)
             \/ Crash(s) \/ \E b \in Batches : BeginIntentBatch(s, b)
             \/ \E a \in Actions : ReconcileUnknownAction(s, a)
      PROVE  UNCHANGED rows
  BY <1>6 DEF StartRun, CommitTerminal, SyncRecordedResolutions, Close, Crash, BeginIntentBatch,
              ReconcileUnknownAction, AppendIntents, AppendCheckpoint, journalVars
<1>7. ASSUME NEW a \in Actions, ExecutorStep(a) PROVE UNCHANGED rows
  BY <1>7 DEF ExecutorStep, Dispatch, DispatchRefused, ExecutorEnds, journalVars
<1>8. CASE PowerLoss
  BY <1>8 DEF PowerLoss, journalVars
<1>9. QED
  BY <1>1, <1>2, <1>3, <1>4, <1>5, <1>6, <1>7, <1>8 DEF Next, SessionNext

\* A receipt is written once: by a denied batch, by the run that owns the
\* call, or by recovery, according to the marker.
LEMMA ReceiptMoves == TypeOK /\ SessionInv /\ Next => \A a \in Actions : ReceiptMove(a)
<1> SUFFICES ASSUME TypeOK, SessionInv, Next, NEW c \in Actions
             PROVE  ReceiptMove(c)
  OBVIOUS
<1> USE DEF ReceiptMove, SessionInv
<1>1. ASSUME NEW s \in Sessions, NEW a \in Actions, RejectReceipt(s, a) PROVE ReceiptMove(c)
  <2>1. Owner(a) = s
    BY <1>1 DEF RejectReceipt, OwnActions, ActionsIn
  <2>2. QED
    BY <1>1, <2>1 DEF RejectReceipt, AppendReceipt, TypeOK, JournalTypeOK
<1>2. ASSUME NEW s \in Sessions, NEW a \in owned[s], ReceiptRow(a), UNCHANGED exec, leg[s] = "none"
      PROVE  ReceiptMove(c)
  <2>1. a \in Actions /\ Owner(a) = s
    BY DEF OwnActions, ActionsIn
  <2>2. QED
    BY <1>2, <2>1 DEF ReceiptRow, AppendReceipt, TypeOK, JournalTypeOK
<1>3. ASSUME NEW s \in Sessions, NEW a \in Actions, RecordReceipt(s, a) PROVE ReceiptMove(c)
  BY <1>2, <1>3 DEF RecordReceipt, Runs, Writable
<1>4. ASSUME NEW s \in Sessions, RunWriteFails(s) PROVE ReceiptMove(c)
  <2>1. leg[s] = "none" /\ UNCHANGED exec
    BY <1>4 DEF RunWriteFails, Poison, Writable
  <2>2. CASE \E a \in owned[s] : ReceiptRow(a)
    BY <1>2, <2>1, <2>2
  <2>3. CASE UNCHANGED receipt
    BY <2>3
  <2>4. QED
    BY <1>4, <2>2, <2>3 DEF RunWriteFails, ExecutionRow, ProofRow, AppendExecution,
                            AppendResolution, journalVars
<1>5. ASSUME NEW s \in Sessions, process[s] = "recovering", UNCHANGED exec,
             NEW A \in SUBSET Unreceipted(s), receipt' = Recovered(A)
      PROVE  ReceiptMove(c)
  <2>1. CASE c \in A
    <3>1. Owner(c) = s /\ receipt[c] = "none" /\ c \in intent
      BY <2>1 DEF Unreceipted, PendingIn, Pending, ActionsIn
    <3>2. receipt'[c] = IF BatchOf[c] \notin marked THEN "not_dispatched" ELSE "unknown"
      BY <1>5, <2>1 DEF Recovered, MarkerState
    <3>3. QED
      BY <1>5, <3>1, <3>2
  <2>2. CASE c \notin A
    BY <1>5, <2>2 DEF Recovered
  <2>3. QED
    BY <2>1, <2>2
<1>6. ASSUME NEW s \in Sessions, PrepareResume(s) \/ ResumeFails(s) PROVE ReceiptMove(c)
  <2>1. CASE UNCHANGED receipt
    BY <2>1
  <2>2. CASE process[s] = "recovering" /\ \E A \in SUBSET Unreceipted(s) : receipt' = Recovered(A)
    BY <1>5, <1>6, <2>2 DEF PrepareResume, ResumeFails, Enter
  <2>3. QED
    BY <1>6, <2>1, <2>2 DEF PrepareResume, ResumeFails, journalVars
<1>7. ASSUME NEW s \in Sessions, ConsumerStep(s),
             ~ \E a \in Actions : RejectReceipt(s, a) \/ RecordReceipt(s, a)
      PROVE  UNCHANGED receipt
  BY <1>7 DEF ConsumerStep, BeginDispatchBatch, BeginDispatchBatchDenied, RejectResolve,
              RecordExecution, RecordProof, ExecutionRow, ProofRow, ResolveExecution,
              ReconcileResolve, Mirror, EndRun, AppendExecution, AppendResolution, journalVars
<1>8. ASSUME NEW s \in Sessions, ConsumerFails(s), ~RunWriteFails(s) PROVE UNCHANGED receipt
  BY <1>8 DEF ConsumerFails, BeginIntentBatchFails, BeginDispatchBatchFails, RejectFails,
              MirrorFails, RunWriteRefused, ReconcileFails, SyncRecordedResolutionsFails, Refused,
              AppendIntents, AppendCheckpoint, AppendResolution, journalVars
<1>9. ASSUME NEW s \in Sessions, BeginResume(s) \/ ResumeMirrors(s) \/ ResumeRejected(s)
      PROVE  UNCHANGED receipt
  BY <1>9 DEF BeginResume, ResumeMirrors, ResumeRejected, journalVars
<1>10. ASSUME NEW s \in Sessions,
              \/ StartRun(s) \/ CommitTerminal(s) \/ SyncRecordedResolutions(s) \/ Close(s)
              \/ Crash(s) \/ \E b \in Batches : BeginIntentBatch(s, b)
              \/ \E a \in Actions : RecordIdentity(s, a) \/ RecordAbandoned(s, a)
              \/ \E a \in Actions : ReconcileUnknownAction(s, a)
       PROVE  UNCHANGED receipt
  BY <1>10 DEF StartRun, CommitTerminal, SyncRecordedResolutions, Close, Crash, BeginIntentBatch,
               RecordIdentity, RecordAbandoned, ReconcileUnknownAction, AppendIntents,
               AppendExecution, AppendCheckpoint, journalVars
<1>11. ASSUME (\E a \in Actions : ExecutorStep(a)) \/ PowerLoss PROVE UNCHANGED receipt
  BY <1>11 DEF ExecutorStep, Dispatch, DispatchRefused, ExecutorEnds, PowerLoss, journalVars
<1>12. QED
  BY <1>1, <1>3, <1>4, <1>6, <1>7, <1>8, <1>9, <1>10, <1>11 DEF Next, SessionNext, ResumeStep

\* A resolution is written once, with its evidence in the journal; the
\* operator's only by the reconciliation that inspected the call.
LEMMA ResolutionMoves == TypeOK /\ SessionInv /\ Next => \A a \in Actions : ResolutionMove(a)
<1> SUFFICES ASSUME TypeOK, SessionInv, Next, NEW c \in Actions
             PROVE  ResolutionMove(c)
  OBVIOUS
<1> USE DEF ResolutionMove, SessionInv
<1>1. ASSUME NEW a \in Actions, NEW e \in Evidence, AppendResolution(a, e), UNCHANGED <<exec, owned>>,
             e = "operator_reconciled" => leg[Owner(a)] = "reconciling" /\ a \in subject[Owner(a)]
      PROVE  ResolutionMove(c)
  BY <1>1 DEF AppendResolution, EvidenceFor, DispatchedReceipt, TypeOK, JournalTypeOK
<1>2. ASSUME NEW s \in Sessions, NEW a \in Actions, RejectResolve(s, a) \/ ResolveExecution(s, a)
      PROVE  ResolutionMove(c)
  BY <1>1, <1>2 DEF RejectResolve, ResolveExecution, Evidence
<1>3. ASSUME NEW s \in Sessions, NEW a \in subject[s], leg[s] = "reconciling",
             AppendResolution(a, "operator_reconciled"), UNCHANGED <<exec, owned>>
      PROVE  ResolutionMove(c)
  <2>1. a \in Actions /\ Owner(a) = s
    BY DEF OwnActions, ActionsIn
  <2>2. QED
    BY <1>1, <1>3, <2>1 DEF Evidence
<1>4. ASSUME NEW s \in Sessions, NEW a \in Actions, ReconcileResolve(s, a) PROVE ResolutionMove(c)
  BY <1>3, <1>4 DEF ReconcileResolve
<1>5. ASSUME NEW s \in Sessions, RunWriteFails(s) PROVE ResolutionMove(c)
  <2>1. UNCHANGED <<exec, owned>>
    BY <1>5 DEF RunWriteFails, Poison
  <2>2. ASSUME NEW a \in owned[s], NEW e \in {"never_dispatched", "local_resources_stopped"},
               AppendResolution(a, e)
        PROVE  ResolutionMove(c)
    <3>1. a \in Actions
      BY DEF OwnActions, ActionsIn
    <3>2. QED
      BY <1>1, <2>1, <2>2, <3>1 DEF Evidence
  <2>3. CASE UNCHANGED resolution
    BY <2>3
  <2>4. QED
    BY <1>5, <2>2, <2>3 DEF RunWriteFails, ExecutionRow, ProofRow, ReceiptRow, AppendExecution,
                            AppendReceipt, journalVars
<1>6. ASSUME NEW s \in Sessions, ReconcileFails(s) PROVE ResolutionMove(c)
  <2>1. UNCHANGED <<exec, owned>>
    BY <1>6 DEF ReconcileFails, Poison
  <2>2. CASE leg[s] = "reconciling" /\ \E a \in subject[s] : AppendResolution(a, "operator_reconciled")
    BY <1>3, <2>1, <2>2
  <2>3. CASE UNCHANGED resolution
    BY <2>3
  <2>4. QED
    BY <1>6, <2>2, <2>3 DEF ReconcileFails, AppendCheckpoint, journalVars
<1>7. ASSUME NEW s \in Sessions, ConsumerStep(s),
             ~ \E a \in Actions : RejectResolve(s, a) \/ ResolveExecution(s, a) \/ ReconcileResolve(s, a)
      PROVE  UNCHANGED resolution
  BY <1>7 DEF ConsumerStep, BeginDispatchBatch, BeginDispatchBatchDenied, RejectReceipt,
              RecordExecution, RecordReceipt, RecordProof, ExecutionRow, ProofRow, ReceiptRow,
              Mirror, EndRun, AppendExecution, AppendReceipt, journalVars
<1>8. ASSUME NEW s \in Sessions, ConsumerFails(s), ~RunWriteFails(s), ~ReconcileFails(s)
      PROVE  UNCHANGED resolution
  BY <1>8 DEF ConsumerFails, BeginIntentBatchFails, BeginDispatchBatchFails, RejectFails,
              MirrorFails, RunWriteRefused, SyncRecordedResolutionsFails, Refused,
              AppendIntents, journalVars
<1>9. ASSUME NEW s \in Sessions, ResumeStep(s) \/ ResumeFails(s) PROVE UNCHANGED resolution
  BY <1>9 DEF ResumeStep, BeginResume, ResumeMirrors, ResumeRejected, PrepareResume, ResumeFails,
              journalVars
<1>10. ASSUME NEW s \in Sessions,
              \/ StartRun(s) \/ CommitTerminal(s) \/ SyncRecordedResolutions(s) \/ Close(s)
              \/ Crash(s) \/ \E b \in Batches : BeginIntentBatch(s, b)
              \/ \E a \in Actions : RecordIdentity(s, a) \/ RecordAbandoned(s, a)
              \/ \E a \in Actions : ReconcileUnknownAction(s, a)
       PROVE  UNCHANGED resolution
  BY <1>10 DEF StartRun, CommitTerminal, SyncRecordedResolutions, Close, Crash, BeginIntentBatch,
               RecordIdentity, RecordAbandoned, ReconcileUnknownAction, AppendIntents,
               AppendExecution, AppendCheckpoint, journalVars
<1>11. ASSUME (\E a \in Actions : ExecutorStep(a)) \/ PowerLoss PROVE UNCHANGED resolution
  BY <1>11 DEF ExecutorStep, Dispatch, DispatchRefused, ExecutorEnds, PowerLoss, journalVars
<1>12. QED
  BY <1>2, <1>4, <1>5, <1>6, <1>7, <1>8, <1>9, <1>10, <1>11 DEF Next, SessionNext

\* A session goes through the legs of one operation after another, about its
\* own calls.
LEMMA LegMoves == TypeOK /\ SessionInv /\ Next => \A s \in Sessions : LegMove(s)
<1> SUFFICES ASSUME TypeOK, SessionInv, Next, NEW t \in Sessions
             PROVE  LegMove(t)
  OBVIOUS
<1> DEFINE Same == UNCHANGED <<leg, subject, process, owned>>
<1> USE DEF SessionInv, Goto, Free
<1> HIDE DEF Same
<1>1. Same => LegMove(t)
  BY DEF LegMove, Same
<1>2. ASSUME NEW s \in Sessions, Free(s), UNCHANGED <<process, owned>> PROVE LegMove(t)
  BY <1>2 DEF LegMove, TypeOK
<1>3. ASSUME NEW s \in Sessions, NEW b \in Batches, BeginIntentBatch(s, b) PROVE LegMove(t)
  BY <1>3 DEF LegMove, BeginIntentBatch, AppendIntents, Appended, Runs, Writable, TypeOK,
              JournalTypeOK
<1>4. ASSUME NEW s \in Sessions, NEW b \in Batches, BeginDispatchBatchDenied(s, b) PROVE LegMove(t)
  BY <1>4 DEF LegMove, BeginDispatchBatchDenied, Marking, LegIsOpen, TypeOK
<1>5. ASSUME NEW s \in Sessions, NEW a \in Actions, ResolveExecution(s, a) \/ ReconcileResolve(s, a)
      PROVE  LegMove(t)
  <2>1. process[s] = "open" /\ a \in ActionsIn(s)
    BY <1>5 DEF ResolveExecution, ReconcileResolve, MayResolve, Writable, LegIsOpen, OwnActions
  <2>2. QED
    BY <1>5, <2>1 DEF LegMove, ResolveExecution, ReconcileResolve, Appended, TypeOK
<1>6. ASSUME NEW s \in Sessions, NEW a \in Actions, ReconcileUnknownAction(s, a) PROVE LegMove(t)
  <2>1. /\ process[s] = "open" /\ run[s] = "none" /\ a \in ActionsIn(s) \cap intent
        /\ UNCHANGED <<process, exec, rows, intent, owned, marked>> /\ unsynced' = {}
    BY <1>6 DEF ReconcileUnknownAction, Idle, Writable, PendingIn, Pending, AppendCheckpoint, SyncIndex
  <2>2. QED
    BY <1>6, <2>1 DEF LegMove, ReconcileUnknownAction, TypeOK
<1>7. ASSUME NEW s \in Sessions, Close(s) \/ Crash(s) PROVE LegMove(t)
  BY <1>7 DEF LegMove, Close, Crash, Release, TypeOK
<1>8. CASE PowerLoss
  BY <1>8 DEF LegMove, PowerLoss, Release, TypeOK
<1>9. ASSUME NEW s \in Sessions, NEW p, process[s] # "open", Enter(s, p) PROVE LegMove(t)
  BY <1>9 DEF LegMove, Enter, volatileVars, LegIsOpen, TypeOK
<1>10. ASSUME NEW s \in Sessions, ResumeStep(s) \/ ResumeFails(s) PROVE LegMove(t)
  BY <1>9, <1>10 DEF ResumeStep, BeginResume, ResumeMirrors, ResumeRejected, PrepareResume, ResumeFails
<1>11. ASSUME NEW s \in Sessions, EndRun(s) PROVE LegMove(t)
  BY <1>11 DEF LegMove, EndRun, TypeOK
<1>12. ASSUME NEW s \in Sessions, Poison(s) \/ Refused(s) PROVE LegMove(t)
  BY <1>2, <1>12 DEF Poison, Refused
<1>13. ASSUME NEW s \in Sessions, ConsumerFails(s) PROVE LegMove(t)
  BY <1>12, <1>13 DEF ConsumerFails, BeginIntentBatchFails, BeginDispatchBatchFails, RejectFails,
                      MirrorFails, RunWriteFails, RunWriteRefused, ReconcileFails,
                      SyncRecordedResolutionsFails
<1>14. ASSUME NEW s \in Sessions,
              \/ \E b \in Batches : BeginDispatchBatch(s, b)
              \/ \E a \in Actions : RejectResolve(s, a)
              \/ Mirror(s)
       PROVE  LegMove(t)
  <2>1. (Free(s) /\ UNCHANGED <<process, owned>>) \/ Same
    BY <1>14 DEF BeginDispatchBatch, RejectResolve, Mirror, Same
  <2>2. QED
    BY <1>1, <1>2, <2>1
<1>15. ASSUME NEW s \in Sessions,
              \/ StartRun(s) \/ CommitTerminal(s) \/ SyncRecordedResolutions(s)
              \/ \E a \in Actions : \/ RecordIdentity(s, a) \/ RecordAbandoned(s, a)
                                    \/ RejectReceipt(s, a) \/ RecordExecution(s, a)
                                    \/ RecordReceipt(s, a) \/ RecordProof(s, a)
       PROVE  Same
  BY <1>15 DEF StartRun, CommitTerminal, SyncRecordedResolutions, RecordIdentity, RecordAbandoned,
               RejectReceipt, RecordExecution, RecordReceipt, RecordProof, Appended, Same,
               sessionVars, volatileVars
<1>16. ASSUME NEW a \in Actions, ExecutorStep(a) PROVE Same
  BY <1>16 DEF ExecutorStep, Dispatch, DispatchRefused, ExecutorEnds, Same, sessionVars, volatileVars
<1>17. ASSUME NEW s \in Sessions, SessionNext(s) PROVE LegMove(t)
  BY <1>1, <1>3, <1>4, <1>5, <1>6, <1>7, <1>10, <1>11, <1>13, <1>14, <1>15, <1>17
     DEF SessionNext, ConsumerStep
<1>18. QED
  BY <1>1, <1>8, <1>16, <1>17 DEF Next

\* A run reserves new calls only, and lets go of them when none of them may
\* still start.
LEMMA OwnedMoves == TypeOK /\ SessionInv /\ Next => \A s \in Sessions : OwnedMove(s)
<1> SUFFICES ASSUME TypeOK, SessionInv, Next, NEW t \in Sessions
             PROVE  OwnedMove(t)
  OBVIOUS
<1> DEFINE Same == UNCHANGED owned /\ (run'[t] = "none" => run[t] = "none")
<1> USE DEF SessionInv
<1> HIDE DEF Same
<1>1. Same => OwnedMove(t)
  BY DEF OwnedMove, Same
<1>2. ASSUME NEW s \in Sessions, NEW b \in Batches, BeginIntentBatch(s, b) PROVE OwnedMove(t)
  BY <1>2 DEF OwnedMove, BeginIntentBatch, AppendIntents, Runs, Writable, TypeOK
<1>3. ASSUME NEW s \in Sessions, EndRun(s) PROVE OwnedMove(t)
  BY <1>3 DEF OwnedMove, EndRun, Joined, TypeOK
<1>4. ASSUME NEW s \in Sessions, Close(s) PROVE OwnedMove(t)
  BY <1>4 DEF OwnedMove, Close, Release, RunOwns, TypeOK
<1>5. ASSUME NEW s \in Sessions, Crash(s) PROVE OwnedMove(t)
  <2>1. CASE t = s
    <3>1. owned'[t] = {}
      BY <1>5, <2>1 DEF Crash, Release
    <3>2. \A a \in owned[t] : exec'[a] # "reserved"
      BY <1>5, <2>1 DEF Crash, AfterCrash, OwnActions, ActionsIn, TypeOK, ExecStates
    <3>3. QED
      BY <3>1, <3>2 DEF OwnedMove
  <2>2. CASE t # s
    BY <1>5, <2>2 DEF OwnedMove, Crash, Release, TypeOK
  <2>3. QED
    BY <2>1, <2>2
<1>6. CASE PowerLoss
  <2>1. owned'[t] = {}
    BY <1>6 DEF PowerLoss, Release
  <2>2. \A a \in owned[t] : exec'[a] # "reserved"
    BY <1>6 DEF PowerLoss, AfterCrash, OwnActions, ActionsIn, TypeOK, ExecStates
  <2>3. QED
    BY <2>1, <2>2 DEF OwnedMove
<1>7. ASSUME NEW s \in Sessions, RunFails(s), UNCHANGED owned PROVE Same
  BY <1>7 DEF RunFails, Same, TypeOK
<1>8. ASSUME NEW s \in Sessions, ConsumerFails(s) PROVE Same
  BY <1>7, <1>8 DEF ConsumerFails, BeginIntentBatchFails, BeginDispatchBatchFails, RejectFails,
                    MirrorFails, RunWriteFails, RunWriteRefused, ReconcileFails,
                    SyncRecordedResolutionsFails, Poison, Refused
<1>9. ASSUME NEW s \in Sessions, ConsumerStep(s), ~EndRun(s) PROVE Same
  BY <1>9 DEF ConsumerStep, BeginDispatchBatch, BeginDispatchBatchDenied, RejectReceipt,
              RejectResolve, RecordExecution, RecordReceipt, RecordProof, ResolveExecution,
              ReconcileResolve, Mirror, Same
<1>10. ASSUME NEW s \in Sessions, ResumeStep(s) \/ ResumeFails(s) PROVE Same
  BY <1>10 DEF ResumeStep, BeginResume, ResumeMirrors, ResumeRejected, PrepareResume, ResumeFails,
               Enter, volatileVars, Same
<1>11. ASSUME NEW s \in Sessions,
              \/ StartRun(s) \/ CommitTerminal(s) \/ SyncRecordedResolutions(s)
              \/ \E a \in Actions : RecordIdentity(s, a) \/ RecordAbandoned(s, a)
              \/ \E a \in Actions : ReconcileUnknownAction(s, a)
       PROVE  Same
  BY <1>11 DEF StartRun, CommitTerminal, SyncRecordedResolutions, RecordIdentity, RecordAbandoned,
               ReconcileUnknownAction, Same, TypeOK, sessionVars, volatileVars
<1>12. ASSUME NEW a \in Actions, ExecutorStep(a) PROVE Same
  BY <1>12 DEF ExecutorStep, Dispatch, DispatchRefused, ExecutorEnds, Same, sessionVars, volatileVars
<1>13. QED
  BY <1>1, <1>2, <1>3, <1>4, <1>5, <1>6, <1>8, <1>9, <1>10, <1>11, <1>12 DEF Next, SessionNext

-----------------------------------------------------------------------------
(* The invariant *)

\* A call belongs to the session of its batch.
LEMMA OwnerIsSession ==
    /\ \A a \in Actions : Owner(a) \in Sessions
    /\ \A s \in Sessions, b \in Batches : SessionOf[b] = s => ActionsOf(b) \subseteq ActionsIn(s)
  BY IndexAssumption, DispatchAssumption DEF Owner, ActionsIn, ActionsOf

\* Nothing is recorded at the start.
LEMMA InitInv == Init => DispatchInv
<1> SUFFICES ASSUME Init PROVE DispatchInv
  OBVIOUS
<1> USE OwnerIsSession, IndexAssumption, DispatchAssumption DEF Init, IndexInit, JournalInit
<1>1. TypeOK
  BY DEF TypeOK, IndexTypeOK, JournalTypeOK, ExecStates, Receipts
<1>2. SessionInv
  BY DEF SessionInv, LegIsOpen, OwnActions, RunOwns
<1>3. CallInv
  BY DEF CallInv, IntentFirst, MarkingIsFresh, RejectingIsIdle, StartedIsMarked, Started,
         RowsAreTrue, UndispatchedNeverStarts
<1>4. ResolutionInv
  BY DEF ResolutionInv, ReconcilingIsGone, ResolutionsRest, MirrorsJournal, ReconciledIsGone,
         QuarantineAdmits, Admitted
<1>5. QED
  BY <1>1, <1>2, <1>3, <1>4 DEF DispatchInv

\* A session stays with its own calls, and only an open one is at work.
LEMMA SessionStep == DispatchInv /\ Next => SessionInv'
<1> SUFFICES ASSUME DispatchInv, Next PROVE SessionInv'
  OBVIOUS
<1> USE OwnerIsSession DEF DispatchInv, SessionInv, CallInv
<1>1. \A s \in Sessions : LegMove(s)
  BY LegMoves
<1>2. \A s \in Sessions : OwnedMove(s)
  BY OwnedMoves
<1>3. LegIsOpen'
  BY <1>1 DEF LegMove, LegIsOpen
<1>4. ASSUME NEW s \in Sessions
      PROVE  owned'[s] \subseteq ActionsIn(s) /\ subject'[s] \subseteq ActionsIn(s)
  <2>1. owned'[s] \subseteq ActionsIn(s)
    BY <1>2 DEF OwnedMove, OwnActions
  <2>2. subject'[s] \subseteq ActionsIn(s)
    BY <1>1 DEF LegMove, OwnActions
  <2>3. QED
    BY <2>1, <2>2
<1>5. OwnActions'
  BY <1>4 DEF OwnActions, ActionsIn, Owner
<1>6. ASSUME NEW a \in Actions, exec'[a] = "reserved"
      PROVE  a \in owned'[Owner(a)]
  <2>1. CASE \E s \in Sessions, b \in Batches : BeginDispatchBatch(s, b) /\ a \in subject[s]
    BY <2>1 DEF BeginDispatchBatch, Marking, MarkingIsFresh, OwnActions, ActionsIn
  <2>2. CASE exec[a] = "reserved"
    BY <1>2, <1>6, <2>2 DEF OwnedMove, RunOwns
  <2>3. QED
    BY <1>6, <2>1, <2>2, ExecMoves DEF ExecMove
<1>7. \A s \in Sessions : run'[s] = "none" => owned'[s] = {}
  BY <1>2 DEF OwnedMove, RunOwns
<1>8. RunOwns'
  BY <1>6, <1>7 DEF RunOwns, Owner
<1>9. QED
  BY <1>3, <1>5, <1>8

\* A permit is granted to a new call, whose marker is then on disk.
LEMMA GrantIsFresh ==
    ASSUME TypeOK, SessionInv, MarkingIsFresh, NEW a \in Actions,
           NEW s \in Sessions, NEW b \in Batches, BeginDispatchBatch(s, b), a \in subject[s]
    PROVE  /\ s = Owner(a) /\ b = BatchOf[a]
           /\ leg[s] = "marking" /\ leg'[s] = "none"
           /\ a \in intent
           /\ exec[a] = "idle" /\ rows[a] = {} /\ receipt[a] = "none"
           /\ b \in Durable'
  BY DEF SessionInv, OwnActions, ActionsIn, ActionsOf, MarkingIsFresh, BeginDispatchBatch, Marking,
         MarkBatch, SyncIndex, Free, Goto, Durable, TypeOK

\* What is recorded of a call stays true of it.
LEMMA CallStep == DispatchInv /\ Next => CallInv'
<1> SUFFICES ASSUME DispatchInv, Next PROVE CallInv'
  OBVIOUS
<1> USE OwnerIsSession DEF DispatchInv, CallInv
<1>1. /\ \A s \in Sessions : LegMove(s)
      /\ \A a \in Actions : RowsMove(a) /\ ReceiptMove(a) /\ ResolutionMove(a) /\ ExecMove(a)
  BY LegMoves, ExecMoves, RowsMoves, ReceiptMoves, ResolutionMoves
<1>2. Durable \subseteq Durable' /\ intent \subseteq intent'
  BY MarksStay
<1> DEFINE Granted(a) == \E s \in Sessions, b \in Batches : BeginDispatchBatch(s, b) /\ a \in subject[s]
<1>3. ASSUME NEW a \in Actions, Granted(a)
      PROVE  /\ leg[Owner(a)] = "marking" /\ leg'[Owner(a)] = "none"
             /\ a \in intent /\ BatchOf[a] \in Durable'
             /\ exec[a] = "idle" /\ rows[a] = {} /\ receipt[a] = "none"
  BY <1>3, GrantIsFresh
<1>4. ASSUME NEW a \in Actions, ~Granted(a)
      PROVE  \/ exec'[a] = exec[a]
             \/ exec[a] = "reserved" /\ exec'[a] \in {"running", "refused"}
             \/ exec[a] = "running" /\ exec'[a] \in {"stopped", "unproven"}
             \/ exec[a] \in {"reserved", "refused"} /\ exec'[a] = "idle"
  BY <1>1, <1>4 DEF ExecMove
<1> HIDE DEF Granted
<1>5. IntentFirst'
  <2>1. ASSUME NEW a \in Actions, a \notin intent'
        PROVE  exec'[a] = "idle" /\ rows'[a] = {} /\ receipt'[a] = "none" /\ resolution'[a] = "none"
    BY <1>1, <1>2, <1>3, <1>4, <2>1 DEF IntentFirst, RowsMove, ReceiptMove, ResolutionMove, Pending
  <2>2. QED
    BY <2>1 DEF IntentFirst
<1>6. ASSUME NEW s \in Sessions, leg'[s] = "marking", NEW a \in subject'[s]
      PROVE  /\ a \in intent' \cap owned'[s]
             /\ exec'[a] = "idle" /\ rows'[a] = {} /\ receipt'[a] = "none"
  <2>1. CASE leg[s] = "marking" /\ subject'[s] = subject[s] /\ owned'[s] = owned[s]
    <3>1. /\ a \in Actions /\ Owner(a) = s /\ process[s] = "open"
          /\ a \in intent \cap owned[s]
          /\ exec[a] = "idle" /\ rows[a] = {} /\ receipt[a] = "none"
      BY <2>1 DEF MarkingIsFresh, SessionInv, OwnActions, ActionsIn, LegIsOpen
    <3>2. QED
      BY <1>1, <1>2, <1>3, <1>4, <1>6, <2>1, <3>1 DEF RowsMove, ReceiptMove
  <2>2. CASE \E b \in Batches :
               /\ ActionsOf(b) \cap intent = {} /\ subject'[s] = ActionsOf(b)
               /\ ActionsOf(b) \subseteq intent' \cap owned'[s]
               /\ UNCHANGED <<exec, rows, receipt>>
    BY <2>2 DEF ActionsOf, IntentFirst
  <2>3. QED
    BY <1>1, <1>6, <2>1, <2>2 DEF LegMove
<1>7. MarkingIsFresh'
  BY <1>6 DEF MarkingIsFresh
<1>8. ASSUME NEW s \in Sessions, leg'[s] = "rejecting", NEW a \in subject'[s]
      PROVE  exec'[a] = "idle"
  <2>1. /\ leg[s] \in {"marking", "rejecting"} /\ subject'[s] = subject[s]
        /\ leg[s] = "marking" => UNCHANGED exec
    BY <1>1, <1>8 DEF LegMove
  <2>2. a \in Actions /\ Owner(a) = s /\ exec[a] = "idle"
    BY <2>1 DEF MarkingIsFresh, RejectingIsIdle, SessionInv, OwnActions, ActionsIn
  <2>3. QED
    BY <1>3, <1>4, <1>8, <2>1, <2>2
<1>9. RejectingIsIdle'
  BY <1>8 DEF RejectingIsIdle
<1>10. ASSUME NEW a \in Actions, exec'[a] \in {"reserved", "running", "stopped", "unproven"}
       PROVE  a \in intent' /\ BatchOf[a] \in Durable'
  <2>1. CASE Granted(a)
    BY <1>2, <1>3, <2>1
  <2>2. CASE ~Granted(a)
    BY <1>2, <1>4, <1>10, <2>2 DEF StartedIsMarked, Started, Durable
  <2>3. QED
    BY <2>1, <2>2
<1>11. StartedIsMarked'
  BY <1>10 DEF StartedIsMarked, Started, Durable
<1>12. ASSUME NEW a \in Actions
       PROVE  /\ "refused" \in rows'[a] => exec'[a] \in {"idle", "refused"}
              /\ "proof" \in rows'[a] => exec'[a] = "stopped"
  BY <1>1, <1>3, <1>4 DEF RowsMove, RowsAreTrue
<1>13. RowsAreTrue'
  BY <1>12 DEF RowsAreTrue
<1>14. ASSUME NEW a \in Actions, receipt'[a] = "not_dispatched"
       PROVE  exec'[a] \in {"idle", "refused"}
  <2>1. CASE receipt[a] = "not_dispatched"
    BY <1>3, <1>4, <2>1 DEF UndispatchedNeverStarts
  <2>2. CASE receipt[a] # "not_dispatched"
    <3>1. /\ exec'[a] = exec[a]
          /\ \/ leg[Owner(a)] = "rejecting" /\ a \in subject[Owner(a)]
             \/ OutcomeOf(a, "not_dispatched")
             \/ BatchOf[a] \notin marked
      BY <1>1, <1>14, <2>2 DEF ReceiptMove
    <3>2. CASE BatchOf[a] \notin marked
      BY <3>1, <3>2 DEF StartedIsMarked, Started, TypeOK, ExecStates
    <3>3. CASE OutcomeOf(a, "not_dispatched")
      BY <3>1, <3>3 DEF OutcomeOf, RowsAreTrue
    <3>4. QED
      BY <3>1, <3>2, <3>3 DEF RejectingIsIdle
  <2>3. QED
    BY <2>1, <2>2
<1>15. UndispatchedNeverStarts'
  BY <1>14 DEF UndispatchedNeverStarts
<1>16. QED
  BY <1>5, <1>7, <1>9, <1>11, <1>13, <1>15

\* The index only ever copies what a journal holds.
LEMMA MirrorMoves ==
    TypeOK /\ Next => \A a \in Actions : mirror'[a] \in {mirror[a], resolution'[a], "none"}
<1> SUFFICES ASSUME TypeOK, Next, NEW c \in Actions
             PROVE  mirror'[c] \in {mirror[c], resolution'[c], "none"}
  OBVIOUS
<1>1. ASSUME NEW R, \/ applyResolutions(R, resolution')
                    \/ applyResolutionsFails(R, resolution')
      PROVE  mirror'[c] \in {mirror[c], resolution'[c], "none"}
  BY <1>1 DEF applyResolutions, applyResolutionsFails, Mirrored
<1>2. ASSUME NEW s \in Sessions, NEW a \in Actions, RejectResolve(s, a)
      PROVE  mirror'[c] \in {mirror[c], resolution'[c], "none"}
  BY <1>1, <1>2 DEF RejectResolve, AppendResolution
<1>3. ASSUME NEW s \in Sessions,
             \/ Mirror(s) \/ MirrorFails(s) \/ ResumeMirrors(s) \/ ResumeFails(s)
             \/ SyncRecordedResolutions(s) \/ SyncRecordedResolutionsFails(s)
      PROVE  mirror'[c] \in {mirror[c], resolution'[c], "none"}
  BY <1>1, <1>3 DEF Mirror, MirrorFails, ResumeMirrors, ResumeFails, SyncRecordedResolutions,
                    SyncRecordedResolutionsFails, Refused, journalVars, indexVars
<1>4. ASSUME NEW s \in Sessions, ConsumerStep(s), ~Mirror(s),
             ~ \E a \in Actions : RejectResolve(s, a)
      PROVE  UNCHANGED mirror
  BY <1>4 DEF ConsumerStep, BeginDispatchBatch, BeginDispatchBatchDenied, RejectReceipt,
              RecordExecution, RecordReceipt, RecordProof, ResolveExecution, ReconcileResolve,
              EndRun, MarkBatch, DenyBatch, Appended, indexVars
<1>5. ASSUME NEW s \in Sessions, ConsumerFails(s), ~MirrorFails(s), ~SyncRecordedResolutionsFails(s)
      PROVE  UNCHANGED mirror
  BY <1>5 DEF ConsumerFails, BeginIntentBatchFails, BeginDispatchBatchFails, RejectFails,
              RunWriteFails, RunWriteRefused, ReconcileFails, MarkBatchFails, DenyBatch, indexVars
<1>6. ASSUME NEW s \in Sessions, ResumeStep(s), ~ResumeMirrors(s) PROVE UNCHANGED mirror
  BY <1>6 DEF ResumeStep, BeginResume, ResumeRejected, PrepareResume, indexVars
<1>7. ASSUME NEW s \in Sessions,
             \/ StartRun(s) \/ CommitTerminal(s) \/ Close(s) \/ Crash(s)
             \/ \E b \in Batches : BeginIntentBatch(s, b)
             \/ \E a \in Actions : RecordIdentity(s, a) \/ RecordAbandoned(s, a)
             \/ \E a \in Actions : ReconcileUnknownAction(s, a)
      PROVE  UNCHANGED mirror
  BY <1>7 DEF StartRun, CommitTerminal, Close, Crash, BeginIntentBatch, RecordIdentity,
              RecordAbandoned, ReconcileUnknownAction, Appended, indexVars
<1>8. ASSUME NEW a \in Actions, ExecutorStep(a) PROVE UNCHANGED mirror
  BY <1>8 DEF ExecutorStep, Dispatch, DispatchRefused, ExecutorEnds, indexVars
<1>9. CASE PowerLoss
  BY <1>9 DEF PowerLoss, LoseUnsynced
<1>10. QED
  BY <1>2, <1>3, <1>4, <1>5, <1>6, <1>7, <1>8, <1>9 DEF Next, SessionNext

\* What a resolution rests on stays, and the index follows it.
LEMMA ResolutionStep == DispatchInv /\ Next => ResolutionInv'
<1> SUFFICES ASSUME DispatchInv, Next PROVE ResolutionInv'
  OBVIOUS
<1> USE OwnerIsSession DEF DispatchInv, CallInv, SessionInv, ResolutionInv
<1>1. /\ \A s \in Sessions : LegMove(s) /\ OwnedMove(s)
      /\ \A a \in Actions : RowsMove(a) /\ ReceiptMove(a) /\ ResolutionMove(a) /\ ExecMove(a)
  BY LegMoves, OwnedMoves, ExecMoves, RowsMoves, ReceiptMoves, ResolutionMoves
<1>2. Durable \subseteq Durable' /\ intent \subseteq intent'
  BY MarksStay
<1>3. ASSUME NEW a \in Actions, exec'[a] = "running"
      PROVE  exec[a] = "running" \/ (exec[a] = "reserved" /\ a \in owned[Owner(a)])
  <2>1. CASE \E s \in Sessions, b \in Batches : BeginDispatchBatch(s, b) /\ a \in subject[s]
    BY <1>3, <2>1 DEF BeginDispatchBatch
  <2>2. QED
    <3>1. exec[a] \in {"running", "reserved"}
      BY <1>1, <1>3, <2>1 DEF ExecMove
    <3>2. QED
      BY <3>1 DEF RunOwns
<1>4. ASSUME NEW a \in Actions, resolution[a] # "none"
      PROVE  resolution'[a] = resolution[a] /\ a \in intent
  BY <1>1, <1>4 DEF ResolutionMove, Pending, IntentFirst
<1>5. ASSUME NEW s \in Sessions, leg'[s] = "reconciling", NEW a \in subject'[s]
      PROVE  /\ a \in intent' \ owned'[s]
             /\ BatchOf[a] \in Durable'
             /\ "identity" \in rows'[a] => exec'[a] # "running"
  <2>1. CASE leg[s] = "reconciling" /\ subject'[s] = subject[s] /\ owned'[s] = owned[s]
    <3>1. /\ a \in Actions /\ Owner(a) = s /\ a \in intent \ owned[s] /\ BatchOf[a] \in Durable
          /\ "identity" \in rows[a] => exec[a] # "running"
      BY <2>1 DEF ReconcilingIsGone, OwnActions, ActionsIn
    <3>2. rows'[a] = rows[a]
      BY <1>1, <2>1, <3>1 DEF RowsMove
    <3>3. QED
      BY <1>2, <1>3, <2>1, <3>1, <3>2
  <2>2. CASE /\ run[s] = "none" /\ \E c \in ActionsIn(s) \cap intent : subject'[s] = {c} /\ MayReconcile(c)
             /\ unsynced' = {} /\ UNCHANGED <<exec, rows, intent, owned, marked>>
    BY <2>2 DEF MayReconcile, MarkerState, RunOwns, Durable
  <2>3. QED
    BY <1>1, <1>5, <2>1, <2>2 DEF LegMove
<1>6. ReconcilingIsGone'
  BY <1>5 DEF ReconcilingIsGone, Durable
<1>7. ASSUME NEW a \in Actions
      PROVE  /\ resolution'[a] = "never_dispatched" => receipt'[a] = "not_dispatched"
             /\ resolution'[a] = "local_resources_stopped" => "proof" \in rows'[a]
             /\ resolution'[a] = "operator_reconciled" =>
                  BatchOf[a] \in Durable' /\ a \notin owned'[Owner(a)]
  <2>1. CASE resolution'[a] = resolution[a]
    <3>1. resolution[a] = "never_dispatched" => receipt'[a] = "not_dispatched"
      BY <1>1 DEF ResolutionsRest, ReceiptMove
    <3>2. resolution[a] = "local_resources_stopped" => "proof" \in rows'[a]
      BY <1>1 DEF ResolutionsRest, RowsMove
    <3>3. resolution[a] = "operator_reconciled" =>
            BatchOf[a] \in Durable' /\ a \notin owned'[Owner(a)]
      BY <1>1, <1>2, <1>4 DEF ResolutionsRest, OwnedMove
    <3>4. QED
      BY <2>1, <3>1, <3>2, <3>3
  <2>2. CASE resolution'[a] # resolution[a]
    <3>1. /\ EvidenceFor(a, resolution'[a]) /\ UNCHANGED <<rows, receipt, owned>>
          /\ resolution'[a] = "operator_reconciled" =>
               leg[Owner(a)] = "reconciling" /\ a \in subject[Owner(a)]
      BY <1>1, <2>2 DEF ResolutionMove
    <3>2. QED
      BY <1>2, <3>1 DEF EvidenceFor, ReconcilingIsGone
  <2>3. QED
    BY <2>1, <2>2
<1>8. ResolutionsRest'
  BY <1>7 DEF ResolutionsRest, Durable, Owner
<1>9. MirrorsJournal'
  BY <1>1, <1>4, MirrorMoves DEF MirrorsJournal, ResolutionMove, Pending
<1>10. ASSUME NEW a \in Actions, resolution'[a] = "operator_reconciled", "identity" \in rows'[a]
       PROVE  exec'[a] # "running"
  <2>1. CASE resolution[a] = "operator_reconciled"
    <3>1. rows'[a] = rows[a]
      BY <1>1, <2>1 DEF RowsMove, ResolutionsRest
    <3>2. QED
      BY <1>3, <1>10, <2>1, <3>1 DEF ReconciledIsGone, ResolutionsRest
  <2>2. CASE resolution[a] # "operator_reconciled"
    BY <1>1, <1>10, <2>2 DEF ResolutionMove, ReconcilingIsGone
  <2>3. QED
    BY <2>1, <2>2
<1>11. ReconciledIsGone'
  BY <1>10 DEF ReconciledIsGone
<1>12. ASSUME NEW s \in Sessions, NEW a \in subject[s], NEW c \in Actions,
              a \in Actions, BeginDispatchBatch(s, BatchOf[a]),
              exec'[c] \in {"reserved", "running"}, BatchOf[a] # BatchOf[c],
              Exclusive(a), Exclusive(c)
       PROVE  resolution'[c] = "operator_reconciled"
  <2>1. exec'[c] = exec[c] /\ ~DispatchDenied(BatchOf[a])
    BY <1>12 DEF BeginDispatchBatch, MarkBatch, Marking, ActionsOf
  <2>2. mirror[c] # "none"
    BY <1>12, <2>1 DEF StartedIsMarked, Started, DispatchDenied, hasUnresolvedMarker, Unresolved,
                       Exclusive
  <2>3. resolution[c] \in Evidence
    BY <2>2 DEF MirrorsJournal, TypeOK, JournalTypeOK
  <2>4. resolution[c] = "operator_reconciled"
    BY <1>12, <2>1, <2>3 DEF Evidence, ResolutionsRest, RowsAreTrue, UndispatchedNeverStarts
  <2>5. QED
    BY <1>4, <2>4
<1>13. ASSUME NEW a \in Actions, NEW c \in Actions,
              exec'[a] \in {"reserved", "running"}, exec'[c] \in {"reserved", "running"},
              Exclusive(a), Exclusive(c), BatchOf[a] # BatchOf[c]
       PROVE  "operator_reconciled" \in {resolution'[a], resolution'[c]}
  <2>1. CASE \E s \in Sessions, b \in Batches : BeginDispatchBatch(s, b) /\ a \in subject[s]
    BY <1>12, <1>13, <2>1, GrantIsFresh
  <2>2. CASE \E s \in Sessions, b \in Batches : BeginDispatchBatch(s, b) /\ c \in subject[s]
    BY <1>12, <1>13, <2>2, GrantIsFresh
  <2>3. CASE /\ ~ \E s \in Sessions, b \in Batches : BeginDispatchBatch(s, b) /\ a \in subject[s]
             /\ ~ \E s \in Sessions, b \in Batches : BeginDispatchBatch(s, b) /\ c \in subject[s]
    <3>1. Admitted(a) /\ Admitted(c)
      BY <1>1, <1>13, <2>3 DEF ExecMove, Admitted
    <3>2. "operator_reconciled" \in {resolution[a], resolution[c]}
      BY <1>13, <3>1 DEF QuarantineAdmits
    <3>3. QED
      BY <1>4, <3>2
  <2>4. QED
    BY <2>1, <2>2, <2>3
<1>14. QuarantineAdmits'
  BY <1>13 DEF QuarantineAdmits, Admitted, Exclusive
<1>15. QED
  BY <1>6, <1>8, <1>9, <1>11, <1>14

\* Every step keeps the invariant.
LEMMA InvStep == DispatchInv /\ [Next]_vars => DispatchInv'
<1> SUFFICES ASSUME DispatchInv, [Next]_vars PROVE DispatchInv'
  OBVIOUS
<1>1. CASE Next
  BY <1>1, TypeStep, SessionStep, CallStep, ResolutionStep DEF DispatchInv
<1>2. CASE UNCHANGED vars
  <2> USE <1>2 DEF vars, indexVars, journalVars, sessionVars, volatileVars
  <2>1. TypeOK'
    BY DEF DispatchInv, TypeOK, IndexTypeOK, JournalTypeOK
  <2>2. SessionInv'
    BY DEF DispatchInv, SessionInv, LegIsOpen, OwnActions, ActionsIn, Owner, RunOwns
  <2>3. CallInv'
    BY DEF DispatchInv, CallInv, IntentFirst, MarkingIsFresh, RejectingIsIdle, StartedIsMarked,
           Started, RowsAreTrue, UndispatchedNeverStarts
  <2>4. ResolutionInv'
    BY DEF DispatchInv, ResolutionInv, ReconcilingIsGone, ResolutionsRest, MirrorsJournal,
           ReconciledIsGone, QuarantineAdmits, Admitted, Exclusive, Durable, Owner
  <2>5. QED
    BY <2>1, <2>2, <2>3, <2>4 DEF DispatchInv
<1>3. QED
  BY <1>1, <1>2

\* The inductive invariant holds throughout.
THEOREM DispatchInvariant == Spec => []DispatchInv
  BY InitInv, InvStep, PTL DEF Spec

-----------------------------------------------------------------------------
(* The properties of DurableDispatch *)

\* Every variable keeps its type, for any sessions, batches and faults.
THEOREM DispatchTypes == Spec => []TypeOK
<1>1. DispatchInv => TypeOK
  BY DEF DispatchInv
<1>2. QED
  BY <1>1, DispatchInvariant, PTL

\* BeginIntentBatch: a call that holds a permit, runs or ran has its intent
\* and the marker of its batch on disk, whatever crashes or fails to sync.
THEOREM DurableBeforeStart == Spec => []StartedIsMarked
<1>1. DispatchInv => StartedIsMarked
  BY DEF DispatchInv, CallInv
<1>2. QED
  BY <1>1, DispatchInvariant, PTL

\* A not_dispatched receipt, written by the consumer, by a denied batch or by
\* recovery, is never followed by the call; and a call resolved by its completion
\* proof (ResolveExecution) has stopped.
THEOREM WhatIsRecordedIsTrue == Spec => []RecordsAreTrue
<1>1. DispatchInv => UndispatchedNeverStarts
  BY DEF DispatchInv, CallInv
<1>2. DispatchInv => ProofIsTrue
  BY DEF DispatchInv, CallInv, ResolutionInv, RowsAreTrue, ResolutionsRest, ProofIsTrue
<1>3. DispatchInv => RecordsAreTrue
  BY <1>1, <1>2 DEF RecordsAreTrue
<1>4. QED
  BY <1>3, DispatchInvariant, PTL

\* BeginDispatchBatch: two calls of different batches that may write run
\* together only if an operator accepted one of them as gone.
THEOREM WorkspaceIsExclusive == Spec => []QuarantineHolds
<1>1. DispatchInv => QuarantineHolds
  BY DEF DispatchInv, ResolutionInv, QuarantineAdmits, Admitted, QuarantineHolds
<1>2. QED
  BY <1>1, DispatchInvariant, PTL

\* The two-step resolution: what the index mirrors is in a journal, and
\* mirroring a journal again is always accepted.
THEOREM IndexFollowsJournal == Spec => []JournalLeads
<1>1. ASSUME DispatchInv PROVE JournalLeads
  <2>1. ASSUME NEW s \in Sessions, NEW a \in Resolved(s)
        PROVE  /\ BatchOf[a] \notin marked => resolution[a] = "never_dispatched"
               /\ mirror[a] \in {"none", resolution[a]}
    <3>1. a \in Actions /\ resolution[a] \in Evidence
      BY <1>1 DEF Resolved, ActionsIn, DispatchInv, TypeOK, JournalTypeOK
    <3>2. mirror[a] \in {"none", resolution[a]}
      BY <1>1, <3>1 DEF DispatchInv, ResolutionInv, MirrorsJournal
    <3>3. CASE resolution[a] = "local_resources_stopped"
      BY <1>1, <3>1, <3>2, <3>3 DEF DispatchInv, ResolutionInv, CallInv, ResolutionsRest,
                                    RowsAreTrue, StartedIsMarked, Started
    <3>4. CASE resolution[a] = "operator_reconciled"
      BY <1>1, <3>1, <3>2, <3>4 DEF DispatchInv, ResolutionInv, ResolutionsRest, Durable
    <3>5. QED
      BY <3>1, <3>2, <3>3, <3>4 DEF Evidence
  <2>2. \A s \in Sessions : ~Conflicting(Resolved(s), resolution)
    BY <2>1 DEF Conflicting, Fresh, Marked
  <2>3. QED
    BY <1>1, <2>2 DEF JournalLeads, DispatchInv, ResolutionInv, MirrorsJournal
<1>2. QED
  BY <1>1, DispatchInvariant, PTL

\* ReconcileUnknownAction: no call whose recorded process group is alive is
\* released by an operator, nor starts again after that.
THEOREM OperatorReleasesDeadGroups == Spec => []ReconciledIsGone
<1>1. DispatchInv => ReconciledIsGone
  BY DEF DispatchInv, ResolutionInv
<1>2. QED
  BY <1>1, DispatchInvariant, PTL

\* Receipts and resolutions are written once, whoever writes them.
THEOREM RecordsAreFinal == Spec => HistoryIsFinal
<1> DEFINE Kept == \A a \in Actions :
                     /\ receipt[a] # "none" => receipt'[a] = receipt[a]
                     /\ resolution[a] # "none" => resolution'[a] = resolution[a]
<1>1. DispatchInv /\ [Next]_vars => [Kept]_vars
  <2> SUFFICES ASSUME DispatchInv, Next PROVE Kept
    OBVIOUS
  <2>1. QED
    BY ReceiptMoves, ResolutionMoves DEF DispatchInv, ReceiptMove, ResolutionMove, Pending
<1>2. QED
  BY <1>1, DispatchInvariant, PTL DEF Spec, HistoryIsFinal
=============================================================================
