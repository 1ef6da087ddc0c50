---------------------------- MODULE ActionJournal ----------------------------
(***************************************************************************)
(* The action rows of the durable JSONL session journals, and what the     *)
(* run-commit sink (internal/session/run_commit.go) requires before it     *)
(* appends one.  Every append is synced before the memory view of the      *)
(* journal changes; one that fails poisons the handle, which then refuses  *)
(* further appends (internal/session/durable_jsonl.go).  Nobody reads the  *)
(* file again before PrepareResume, which syncs what it finds, so a failed *)
(* append decides at once which of its rows that reader will find.         *)
(***************************************************************************)
EXTENDS WorkspaceIndex

VARIABLES
    intent,      \* actions with a durable intent row
    rows,        \* per action: its execution rows
    receipt,     \* per action: its receipt row
    checkpoint,  \* actions with an operator reconciliation checkpoint
    resolution   \* per action: the evidence of its resolution checkpoint

journalVars == <<intent, rows, receipt, checkpoint, resolution>>

\* "identity": dispatched, with the identity of the owned process group;
\* "dispatched" and "refused": what the consumer observed of the dispatch;
\* "proof": dispatched and quiescent, with a positive completion proof.
Executions == {"identity", "dispatched", "refused", "proof"}

\* "known" and "unknown" are the outcomes of a dispatched call.
Receipts == {"none", "not_dispatched", "known", "unknown"}

JournalTypeOK ==
    /\ intent \subseteq Actions
    /\ rows \in [Actions -> SUBSET Executions]
    /\ receipt \in [Actions -> Receipts]
    /\ checkpoint \subseteq Actions
    /\ resolution \in [Actions -> Evidence \cup {"none"}]

JournalInit ==
    /\ intent = {}
    /\ rows = [a \in Actions |-> {}]
    /\ receipt = [a \in Actions |-> "none"]
    /\ checkpoint = {}
    /\ resolution = [a \in Actions |-> "none"]

-----------------------------------------------------------------------------
\* Reserved and not resolved.
Pending(a) == a \in intent /\ resolution[a] = "none"

DispatchedReceipt(a) == receipt[a] \in {"known", "unknown"}

\* What resolveEvidenceReferenceLocked accepts as the proof of a resolution.
EvidenceFor(a, e) ==
    \/ e = "never_dispatched" /\ receipt[a] = "not_dispatched"
    \/ e = "local_resources_stopped" /\ DispatchedReceipt(a) /\ "proof" \in rows[a]
    \/ e = "operator_reconciled" /\ a \in checkpoint

\* The rows of the actions A \subseteq intent' that were not there before.
AppendIntents(A) ==
    /\ A \cap intent = {}
    /\ intent' = intent \cup A
    /\ UNCHANGED <<rows, receipt, checkpoint, resolution>>

AppendExecution(a, new) ==
    /\ a \in intent
    /\ rows' = [rows EXCEPT ![a] = @ \cup new]
    /\ UNCHANGED <<intent, receipt, checkpoint, resolution>>

AppendReceipt(a, r) ==
    /\ a \in intent
    /\ receipt[a] = "none"
    /\ receipt' = [receipt EXCEPT ![a] = r]
    /\ UNCHANGED <<intent, rows, checkpoint, resolution>>

AppendCheckpoint(a) ==
    /\ a \in intent
    /\ checkpoint' = checkpoint \cup {a}
    /\ UNCHANGED <<intent, rows, receipt, resolution>>

AppendResolution(a, e) ==
    /\ Pending(a)
    /\ receipt[a] # "none"
    /\ EvidenceFor(a, e)
    /\ resolution' = [resolution EXCEPT ![a] = e]
    /\ UNCHANGED <<intent, rows, receipt, checkpoint>>
=============================================================================
