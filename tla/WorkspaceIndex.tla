--------------------------- MODULE WorkspaceIndex ---------------------------
(***************************************************************************)
(* WorkspaceQuarantineIndex (internal/session/workspace_index.go): the     *)
(* append-only file, shared by all sessions of a workspace and locked for  *)
(* each operation, in which a batch of actions is marked before any of its *)
(* executors may start and in which the resolution of each action is       *)
(* mirrored once the session's own journal holds it.                       *)
(*                                                                         *)
(* The rows of the file are the set marked and the function mirror.        *)
(* unsynced holds the batches and the actions whose row is visible to the  *)
(* next reader although the fsync after it failed: such a row is lost if   *)
(* the machine stops before a later operation syncs the file.  A torn last *)
(* row is cut off by the next reader, which is the append having left no   *)
(* row.                                                                    *)
(*                                                                         *)
(* Each operation is given as what it does when it succeeds and what the   *)
(* file may look like when it fails; the callers are in DurableDispatch.   *)
(***************************************************************************)
CONSTANTS
    Actions,      \* reserved tool calls
    Batches,      \* action batches
    BatchOf,      \* the batch of each action
    ScopedReads,  \* the batches whose every action carries a scoped read proof
    Delegations   \* the actions marked NonBlockingDelegation

ASSUME IndexAssumption ==
    /\ BatchOf \in [Actions -> Batches]
    /\ Actions \cap Batches = {}
    /\ ScopedReads \subseteq Batches
    /\ Delegations \subseteq Actions

VARIABLES
    marked,    \* batches with a dispatch_ready row
    mirror,    \* per action: the evidence of its execution_resolution row
    unsynced   \* batches and actions whose row is not known to be on disk

indexVars == <<marked, mirror, unsynced>>

\* The evidence of a resolution; "none" is the absence of one.
Evidence == {"never_dispatched", "local_resources_stopped", "operator_reconciled"}

ActionsOf(b) == {a \in Actions : BatchOf[a] = b}

IndexTypeOK ==
    /\ marked \subseteq Batches
    /\ mirror \in [Actions -> Evidence \cup {"none"}]
    /\ unsynced \subseteq Batches \cup Actions

IndexInit ==
    /\ marked = {}
    /\ mirror = [a \in Actions |-> "none"]
    /\ unsynced = {}

-----------------------------------------------------------------------------
Unresolved == {a \in Actions : BatchOf[a] \in marked /\ mirror[a] = "none"}

hasUnresolvedMarker == Unresolved \ Delegations # {}

MarkerState(a) ==
    IF BatchOf[a] \notin marked THEN "absent"
    ELSE IF mirror[a] = "none" THEN "present" ELSE "resolved"

\* Every operation that admits or inspects first syncs what it has read.
SyncIndex == unsynced' = {}

\* The workspace is quarantined for a batch that is not a scoped read.  The
\* refusal comes after the sync and before any append.
DispatchDenied(b) == b \notin ScopedReads /\ hasUnresolvedMarker

DenyBatch(b) ==
    /\ DispatchDenied(b)
    /\ SyncIndex
    /\ UNCHANGED <<marked, mirror>>

\* Variant: the batch is admitted whatever is unresolved.
MarkBatchUnchecked(b) ==
    /\ b \notin marked
    /\ marked' = marked \cup {b}
    /\ SyncIndex
    /\ UNCHANGED mirror

MarkBatch(b) ==
    /\ b \notin marked
    /\ ~DispatchDenied(b)
    /\ marked' = marked \cup {b}
    /\ SyncIndex
    /\ UNCHANGED mirror

\* The marker's append or its sync failed: no permit, but the row may be seen.
MarkBatchFails(b) ==
    /\ b \notin marked
    /\ ~DispatchDenied(b)
    /\ \E visible \in SUBSET {b} :
        /\ marked' = marked \cup visible
        /\ unsynced' = visible
    /\ UNCHANGED mirror

-----------------------------------------------------------------------------
(* Mirroring the resolutions res[a], a \in R, of a session's journal *)

Marked(R) == {a \in R : BatchOf[a] \in marked}
Fresh(R)  == {a \in Marked(R) : mirror[a] = "none"}

\* A resolution needs its marker, except one that says nothing was dispatched;
\* a mirrored resolution never changes.
Conflicting(R, res) ==
    \/ \E a \in R \ Marked(R) : res[a] # "never_dispatched"
    \/ \E a \in Marked(R) \ Fresh(R) : mirror[a] # res[a]

Mirrored(R, res) == [a \in Actions |-> IF a \in R THEN res[a] ELSE mirror[a]]

applyResolutions(R, res) ==
    /\ ~Conflicting(R, res)
    /\ mirror' = Mirrored(Fresh(R), res)
    /\ IF Marked(R) = {} THEN UNCHANGED unsynced ELSE SyncIndex
    /\ UNCHANGED marked

\* Some of the new rows were written, none of them is known to be on disk.
applyResolutionsFails(R, res) ==
    /\ ~Conflicting(R, res)
    /\ \E visible \in SUBSET Fresh(R) :
        /\ mirror' = Mirrored(visible, res)
        /\ unsynced' = unsynced \cup visible
    /\ UNCHANGED marked

-----------------------------------------------------------------------------
\* The machine stops: rows that were not synced may be gone.  They are a
\* suffix of the file, so no resolution outlives the marker it refers to.
LoseUnsynced ==
    \E lost \in SUBSET unsynced :
        /\ marked' = marked \ lost
        /\ mirror' = [a \in Actions |->
                        IF a \in lost \/ BatchOf[a] \in lost THEN "none" ELSE mirror[a]]
        /\ unsynced' = {}
=============================================================================
