------------------------------- MODULE RunOwner -------------------------------
(***************************************************************************)
(* The owner of one run (internal/core/run_owner.go).  It runs the         *)
(* callback, counts the workers and the resources that the run has         *)
(* started, and releases the run's lease, generation and slot when all of  *)
(* them have joined (supervise).  The caller of run waits for that, but    *)
(* only for a bounded time once a cleanup has begun or the event stream    *)
(* has been blocked for too long; then it leaves with a snapshot that says *)
(* the cleanup is pending.                                                 *)
(*                                                                         *)
(* A prepared tool call is a completion task: a worker until its dispatch  *)
(* is handed off, then a resource until its channels close, then ready     *)
(* with or without a proof.  What became ready too late for the callback   *)
(* is written by the supervisor (drainLateCompletionTasks).                *)
(***************************************************************************)
EXTENDS Naturals, FiniteSets

CONSTANTS
  Workers,   \* goroutines of the run
  Tasks,     \* completion tasks
  Leases,    \* calls of BeginBackpressure
  Bound      \* the run has a session that its transcript is committed to

ASSUME RunOwnerAssumption ==
  /\ IsFiniteSet(Workers) /\ IsFiniteSet(Tasks) /\ IsFiniteSet(Leases)
  /\ Bound \in BOOLEAN

VARIABLES
  cb,          \* the callback: "starting" until run dispatches it
  caller,      \* the call of run
  told,        \* what run returned
  ctxDone,     \* the owner's context has ended
  state, outcome, unknown, runErr,
  cancelRequested, timedOut, cleanup, committed,
  syncRequired, synced,
  changed,     \* the signal to the supervisor
  sup,         \* where the supervisor stands
  released,
  failures,    \* what failed during the release
  workers, resources,  \* the counters
  worker,      \* the goroutine behind each worker
  held,        \* the pending resource each worker has registered
  task,
  lease, expired, bpSignal

callerVars == <<caller, told>>
statusVars == <<state, outcome, unknown, runErr>>
flagVars   == <<cancelRequested, timedOut, cleanup>>
syncVars   == <<committed, syncRequired, synced>>
supVars    == <<sup, released, failures>>
workVars   == <<workers, resources, worker, held, task>>
leaseVars  == <<lease, expired, bpSignal>>
vars == <<cb, callerVars, ctxDone, statusVars, flagVars, syncVars, changed,
          supVars, workVars, leaseVars>>

States == {"running", "cancel_requested", "draining", "cleanup_pending",
           "quiescent", "quarantined"}
Outcomes == {"none", "success", "error", "cancelled", "unknown"}
Channels == {"absent", "open", "closed"}
TaskRecords ==
  [state   : {"none", "handoff", "no_proof", "open", "ready"},
   done    : Channels,                          \* signal.Done()
   pend    : Channels \cup {"nil"},             \* the pending execution's
   chans   : SUBSET {"done", "pend"},           \* resourceChannels
   proof   : {"empty", "valid"},                \* what the signal proves
   seen    : {"none", "empty", "valid"},        \* task.proof
   readers : SUBSET {"observer", "waiter"},     \* have seen the channels closed
   receipt : BOOLEAN, recorded : BOOLEAN, resolved : BOOLEAN]

TypeOK ==
  /\ cb \in {"starting", "running", "done"}
  /\ caller \in {"starting", "select", "timing", "pending", "returned"}
  /\ told \in [outcome : Outcomes, state : States, err : BOOLEAN]
  /\ state \in States /\ outcome \in Outcomes
  /\ {ctxDone, unknown, runErr, cancelRequested, timedOut, cleanup, committed,
      syncRequired, synced, changed, released, bpSignal} \subseteq BOOLEAN
  /\ sup \in {"none", "wait", "drain", "lease", "generation", "slot",
              "publish", "gone"}
  /\ failures \subseteq {"drain", "lease", "generation", "slot"}
  /\ workers \in 0 .. Cardinality(Workers) + Cardinality(Tasks)
  /\ resources \in 0 .. Cardinality(Workers) + Cardinality(Tasks)
  /\ worker \in [Workers -> {"idle", "live", "finishing", "gone"}]
  /\ held \in [Workers -> {"none", "open", "nil", "joined"}]
  /\ task \in [Tasks -> TaskRecords]
  /\ lease \in [Leases -> {"idle", "active", "expired", "ended"}]
  /\ expired \in 0 .. Cardinality(Leases)

Init ==
  /\ cb = "starting" /\ caller = "starting"
  /\ told = [outcome |-> "none", state |-> "running", err |-> FALSE]
  /\ ctxDone = FALSE
  /\ state = "running" /\ outcome = "none" /\ unknown = FALSE /\ runErr = FALSE
  /\ cancelRequested = FALSE /\ timedOut = FALSE /\ cleanup = FALSE
  /\ committed = FALSE /\ syncRequired = FALSE /\ synced = TRUE
  /\ changed = FALSE
  /\ sup = "none" /\ released = FALSE /\ failures = {}
  /\ workers = 0 /\ resources = 0
  /\ worker = [w \in Workers |-> "idle"]
  /\ held = [w \in Workers |-> "none"]
  /\ task = [t \in Tasks |->
               [state |-> "none", done |-> "absent", pend |-> "absent",
                chans |-> {}, proof |-> "empty", seen |-> "none",
                readers |-> {}, receipt |-> FALSE, recorded |-> FALSE,
                resolved |-> FALSE]]
  /\ lease = [l \in Leases |-> "idle"] /\ expired = 0 /\ bpSignal = FALSE

------------------------------------------------------------------------------
ReleaseStarted == sup \in {"drain", "lease", "generation", "slot", "publish", "gone"}

\* Variant: pending resources are not waited for.
JoinedWithoutResources == cb = "done" /\ workers = 0

(* localResourcesJoinedLocked: what the owner can see has ended. *)
Joined == cb = "done" /\ workers = 0 /\ resources = 0

Signal == changed' = TRUE

(* The outcome after the callback or a mark made it unknown. *)
MarkUnknown == unknown' = TRUE /\ outcome' = "unknown"

(* run: the commit binding is read, the supervisor started, and the        *)
(* callback dispatched unless the binding is invalid or the context ended. *)
Start ==
  /\ cb = "starting"
  /\ caller' = "select"
  /\ sup' = "wait"
  /\ \/ (* finishUndispatched, by an invalid binding or an ended context *)
        /\ \/ /\ Bound
              /\ outcome' = "error"
              /\ UNCHANGED <<cancelRequested, synced>>
           \/ /\ ctxDone
              /\ outcome' = "cancelled"
              /\ cancelRequested' = TRUE
              /\ synced' = ~Bound
        /\ cb' = "done"
        /\ committed' = TRUE
        /\ runErr' = TRUE
        /\ state' = "draining"
        /\ Signal
        /\ UNCHANGED <<unknown, syncRequired>>
     \/ /\ ~ctxDone
        /\ cb' = "running"
        /\ syncRequired' = Bound
        /\ synced' = ~Bound
        /\ UNCHANGED <<statusVars, cancelRequested, committed, changed>>
  /\ UNCHANGED <<told, ctxDone, timedOut, cleanup, released, failures, workVars,
                 leaseVars>>

\* Variant: an earlier doubt about the outcome is forgotten.
CallbackReturnsKnown(result) ==
  /\ cb = "running"
  /\ result = "cancelled" => ctxDone
  /\ \A t \in Tasks : "waiter" \notin task[t].readers
  /\ cb' = "done"
  /\ LET lost == result \in {"panic", "uncommitted"}
         unsynced == syncRequired /\ ~synced
         unsure == lost \/ unsynced \/ result = "unknown"
     IN /\ committed' = ~lost
        /\ runErr' = (result # "success" \/ unsynced)
        /\ unknown' = unsure
        /\ outcome' = IF unsure THEN "unknown"
                      ELSE result
        /\ state' = IF lost \/ unsynced THEN "quarantined"
                    ELSE IF state \in {"cleanup_pending", "quarantined"} THEN state
                    ELSE "draining"
        /\ cleanup' = ( \/ cleanup \/ lost \/ unsynced
                        \/ workers > 0 \/ resources > 0 )
  /\ Signal
  /\ UNCHANGED <<callerVars, ctxDone, cancelRequested, timedOut, syncRequired,
                 synced, supVars, workVars, leaseVars>>

(* The callback returns, or panics, whatever it has left running. *)
CallbackReturns(result) ==
  /\ cb = "running"
  /\ result = "cancelled" => ctxDone
  /\ \A t \in Tasks : "waiter" \notin task[t].readers
  /\ cb' = "done"
  /\ LET lost == result \in {"panic", "uncommitted"}
         unsynced == syncRequired /\ ~synced
         unsure == unknown \/ lost \/ unsynced \/ result = "unknown"
     IN /\ committed' = ~lost
        /\ runErr' = (result # "success" \/ unsynced)
        /\ unknown' = unsure
        /\ outcome' = IF unsure THEN "unknown"
                      ELSE result
        /\ state' = IF lost \/ unsynced THEN "quarantined"
                    ELSE IF state \in {"cleanup_pending", "quarantined"} THEN state
                    ELSE "draining"
        /\ cleanup' = ( \/ cleanup \/ lost \/ unsynced
                        \/ workers > 0 \/ resources > 0 )
  /\ Signal
  /\ UNCHANGED <<callerVars, ctxDone, cancelRequested, timedOut, syncRequired,
                 synced, supVars, workVars, leaseVars>>

(* The callback has committed the end of its transcript. *)
TerminalSynced ==
  /\ cb = "running" /\ syncRequired /\ ~synced
  /\ synced' = TRUE
  /\ Signal
  /\ UNCHANGED <<cb, callerVars, ctxDone, statusVars, flagVars, committed,
                 syncRequired, supVars, workVars, leaseVars>>

------------------------------------------------------------------------------
(* Workers.  The callback, or a worker, registers one and starts it. *)
RegisterWorker(w) ==
  /\ worker[w] = "idle"
  /\ cb = "running" \/ \E v \in Workers : worker[v] = "live"
  /\ worker' = [worker EXCEPT ![w] = "live"]
  /\ IF ReleaseStarted
     THEN UNCHANGED <<workers, changed>>
     ELSE workers' = workers + 1 /\ Signal
  /\ UNCHANGED <<cb, callerVars, ctxDone, statusVars, flagVars, syncVars, supVars,
                 resources, held, task, leaseVars>>

(* Its tool has left something running: RegisterPendingResource. *)
RegisterPendingResource(w, channel) ==
  /\ worker[w] = "live" /\ held[w] = "none"
  /\ held' = [held EXCEPT ![w] = channel]
  /\ IF ReleaseStarted
     THEN UNCHANGED <<resources, changed>>
     ELSE resources' = resources + 1 /\ Signal
  /\ UNCHANGED <<cb, callerVars, ctxDone, statusVars, flagVars, syncVars, supVars,
                 workers, worker, task, leaseVars>>

(* The callback, a worker or a dispatch doubts the outcome. *)
MarkOutcomeUnknown ==
  /\ \/ cb = "running"
     \/ \E w \in Workers : worker[w] \in {"live", "finishing"}
     \/ \E t \in Tasks : task[t].state = "handoff"
  /\ ~unknown
  /\ MarkUnknown
  /\ Signal
  /\ UNCHANGED <<cb, callerVars, ctxDone, state, runErr, flagVars, syncVars,
                 supVars, workVars, leaseVars>>

\* Variant: the supervisor is not told.
WorkerDoneSilent(w) ==
  /\ worker[w] = "live"
  /\ worker' = [worker EXCEPT ![w] = "finishing"]
  /\ workers' = IF workers > 0 THEN workers - 1 ELSE 0
  /\ UNCHANGED changed
  /\ UNCHANGED <<cb, callerVars, ctxDone, statusVars, flagVars, syncVars, supVars,
                 resources, held, task, leaseVars>>

WorkerDone(w) ==
  /\ worker[w] = "live"
  /\ worker' = [worker EXCEPT ![w] = "finishing"]
  /\ workers' = IF workers > 0 THEN workers - 1 ELSE 0
  /\ Signal
  /\ UNCHANGED <<cb, callerVars, ctxDone, statusVars, flagVars, syncVars, supVars,
                 resources, held, task, leaseVars>>

(* After it is done a worker still ends its capability call, which may     *)
(* mark the outcome once more.                                             *)
WorkerLeaves(w) ==
  /\ worker[w] = "finishing"
  /\ worker' = [worker EXCEPT ![w] = "gone"]
  /\ UNCHANGED <<cb, callerVars, ctxDone, statusVars, flagVars, syncVars, changed,
                 supVars, workers, resources, held, task, leaseVars>>

ResourceEnds(w) ==
  /\ held[w] = "open"
  /\ held' = [held EXCEPT ![w] = "joined"]
  /\ resources' = IF resources > 0 THEN resources - 1 ELSE 0
  /\ Signal
  /\ UNCHANGED <<cb, callerVars, ctxDone, statusVars, flagVars, syncVars, supVars,
                 workers, worker, task, leaseVars>>

------------------------------------------------------------------------------
(* Completion tasks. *)
workRest == <<cb, callerVars, ctxDone, statusVars, flagVars, syncVars, supVars,
              worker, held, leaseVars>>

SetTask(t, record) == task' = [task EXCEPT ![t] = record]

RegisterCompletionTask(t) ==
  /\ task[t].state = "none"
  /\ cb = "running" /\ ~ReleaseStarted
  /\ SetTask(t, [task[t] EXCEPT !.state = "handoff"])
  /\ workers' = workers + 1
  /\ Signal
  /\ UNCHANGED <<resources, workRest>>

(* The dispatch attaches the signal's channel, and may report a pending    *)
(* execution with or without one.                                          *)
AttachDone(t) ==
  /\ task[t].state = "handoff" /\ task[t].done = "absent"
  /\ \E p \in {"empty", "valid"} :
       SetTask(t, [task[t] EXCEPT !.done = "open", !.proof = p])
  /\ UNCHANGED <<workers, resources, changed, workRest>>

AttachPendingExecution(t) ==
  /\ task[t].state = "handoff" /\ task[t].pend = "absent"
  /\ \E c \in {"nil", "open"} : SetTask(t, [task[t] EXCEPT !.pend = c])
  /\ UNCHANGED <<workers, resources, changed, workRest>>

ChannelCloses(t) ==
  /\ \/ task[t].done = "open" /\ SetTask(t, [task[t] EXCEPT !.done = "closed"])
     \/ task[t].pend = "open" /\ SetTask(t, [task[t] EXCEPT !.pend = "closed"])
  /\ UNCHANGED <<workers, resources, changed, workRest>>

AllClosed(t) ==
  /\ "done" \in task[t].chans => task[t].done = "closed"
  /\ "pend" \in task[t].chans => task[t].pend = "closed"

ReadProof(t) == IF "done" \in task[t].chans THEN task[t].proof ELSE "empty"

(* HandoffCompletionTask: the worker becomes a resource, or ends. *)
HandoffCompletionTask(t) ==
  /\ task[t].state = "handoff"
  /\ LET chans == {c \in {"done", "pend"} :
                     task[t][c] \in {"open", "closed"}}
         closed == \A c \in chans : task[t][c] = "closed"
     IN \/ /\ chans = {}
           /\ SetTask(t, [task[t] EXCEPT !.state = "no_proof"])
           /\ UNCHANGED resources
        \/ /\ chans # {} /\ closed
           /\ SetTask(t, [task[t] EXCEPT !.state = "ready", !.chans = chans,
                !.seen = IF "done" \in chans THEN task[t].proof ELSE "empty"])
           /\ UNCHANGED resources
        \/ /\ chans # {} /\ ~closed
           /\ SetTask(t, [task[t] EXCEPT !.state = "open", !.chans = chans])
           /\ resources' = resources + 1
  /\ workers' = workers - 1
  /\ Signal
  /\ UNCHANGED workRest

(* Both the observer of the channels and a wait of the callback            *)
(* (refreshClosedCompletionTasks) see them closed, and then both finish    *)
(* the task under the lock.                                                *)
SeesClosed(t, reader) ==
  /\ task[t].state = "open" /\ AllClosed(t)
  /\ reader \notin task[t].readers
  /\ reader = "waiter" => cb = "running"
  /\ SetTask(t, [task[t] EXCEPT !.readers = @ \cup {reader}])
  /\ UNCHANGED <<workers, resources, changed, workRest>>

FinishCompletionTaskResource(t, reader) ==
  /\ reader \in task[t].readers
  /\ IF task[t].state = "open"
     THEN /\ SetTask(t, [task[t] EXCEPT !.state = "ready", !.seen = ReadProof(t),
                                        !.readers = @ \ {reader}])
          /\ resources' = IF resources > 0 THEN resources - 1 ELSE 0
          /\ Signal
     ELSE /\ SetTask(t, [task[t] EXCEPT !.readers = @ \ {reader}])
          /\ UNCHANGED <<resources, changed>>
  /\ UNCHANGED <<workers, workRest>>

(* What may be resolved by its proof. *)
Proven(t) ==
  task[t].state = "ready" /\ task[t].pend # "nil" /\ task[t].seen = "valid"

(* The callback makes the receipt durable and, when there is a proof,      *)
(* records it and resolves the action.                                     *)
ReceiptDurable(t) ==
  /\ cb = "running" /\ Bound
  /\ task[t].state \in {"no_proof", "open", "ready"} /\ ~task[t].receipt
  /\ SetTask(t, [task[t] EXCEPT !.receipt = TRUE])
  /\ Signal
  /\ UNCHANGED <<workers, resources, workRest>>

ResolvePreparedTask(t) ==
  /\ cb = "running" /\ task[t].receipt /\ Proven(t) /\ ~task[t].resolved
  /\ SetTask(t, [task[t] EXCEPT !.recorded = TRUE, !.resolved = @ \/ task[t].recorded])
  /\ Signal
  /\ UNCHANGED <<workers, resources, workRest>>

------------------------------------------------------------------------------
(* Cancellation: the context ends, by a cancel or from outside, and the    *)
(* cancel is marked by Cancel itself or by the goroutine that watches.     *)
ContextEnds ==
  /\ ~ctxDone
  /\ ctxDone' = TRUE
  /\ UNCHANGED <<cb, callerVars, statusVars, flagVars, syncVars, changed, supVars,
                 workVars, leaseVars>>

MarkCancelRequested ==
  /\ ~cancelRequested \/ state # "cancel_requested"
  /\ caller # "returned" \/ ctxDone
  /\ ~released /\ ~timedOut /\ state \notin {"quiescent", "quarantined"}
  /\ cancelRequested' = TRUE
  /\ state' = "cancel_requested"
  /\ cleanup' = TRUE
  /\ Signal
  /\ UNCHANGED <<cb, callerVars, ctxDone, outcome, unknown, runErr, timedOut,
                 syncVars, supVars, workVars, leaseVars>>

------------------------------------------------------------------------------
(* Backpressure: a send that blocks holds a lease, which may expire. *)
BeginBackpressure(l) ==
  /\ lease[l] = "idle" /\ cb = "running"
  /\ ~ReleaseStarted /\ ~timedOut
  /\ lease' = [lease EXCEPT ![l] = "active"]
  /\ UNCHANGED <<cb, callerVars, ctxDone, statusVars, flagVars, syncVars, changed,
                 supVars, workVars, expired, bpSignal>>

LeaseExpires(l) ==
  /\ lease[l] = "active" /\ ~ReleaseStarted /\ ~timedOut /\ cb # "done"
  /\ lease' = [lease EXCEPT ![l] = "expired"]
  /\ expired' = expired + 1
  /\ bpSignal' = TRUE
  /\ UNCHANGED <<cb, callerVars, ctxDone, statusVars, flagVars, syncVars, changed,
                 supVars, workVars>>

EndBackpressure(l) ==
  /\ lease[l] \in {"active", "expired"}
  /\ lease' = [lease EXCEPT ![l] = "ended"]
  /\ expired' = IF lease[l] = "expired" /\ expired > 0 THEN expired - 1 ELSE expired
  /\ UNCHANGED <<cb, callerVars, ctxDone, statusVars, flagVars, syncVars, changed,
                 supVars, workVars, bpSignal>>

------------------------------------------------------------------------------
(* The supervisor: one look per signal, and the release in order. *)
supRest == <<cb, callerVars, ctxDone, cancelRequested, timedOut, syncVars,
             workVars, leaseVars>>

Look ==
  /\ sup = "wait" /\ changed
  /\ changed' = FALSE
  /\ state' = IF timedOut /\ ~Joined THEN "quarantined" ELSE state
  /\ IF Joined
     THEN /\ cleanup' = TRUE
          /\ sup' = IF syncRequired /\ ~synced THEN "lease" ELSE "drain"
     ELSE UNCHANGED <<cleanup, sup>>
  /\ UNCHANGED <<supRest, outcome, unknown, runErr, released, failures>>

(* drainLateCompletionTasks writes one task after another until one fails. *)
Late(t) == task[t].receipt /\ ~task[t].resolved /\ Proven(t)

DrainTask(t) ==
  /\ sup = "drain" /\ Late(t)
  /\ \/ /\ SetTask(t, [task[t] EXCEPT !.recorded = TRUE, !.resolved = TRUE])
        /\ UNCHANGED <<sup, failures>>
     \/ /\ \E r \in {task[t].recorded, TRUE} :
             SetTask(t, [task[t] EXCEPT !.recorded = r])
        /\ failures' = failures \cup {"drain"}
        /\ sup' = "lease"
  /\ UNCHANGED <<cb, callerVars, ctxDone, statusVars, flagVars, syncVars, changed,
                 released, workers, resources, worker, held, leaseVars>>

\* Variant: late proofs may be left behind.
DrainEndsEarly ==
  /\ sup = "drain"
  /\ sup' = "lease"
  /\ UNCHANGED <<supRest, statusVars, cleanup, changed, released, failures>>

DrainEnds ==
  /\ sup = "drain" /\ \A t \in Tasks : ~Late(t)
  /\ sup' = "lease"
  /\ UNCHANGED <<supRest, statusVars, cleanup, changed, released, failures>>

(* The lease, the generation and the slot, each of which may fail. *)
ReleaseStep ==
  /\ \/ sup = "lease" /\ sup' = "generation"
     \/ sup = "generation" /\ sup' = "slot"
     \/ sup = "slot" /\ sup' = "publish"
  /\ failures' \in {failures, failures \cup {sup}}
  /\ UNCHANGED <<supRest, statusVars, cleanup, changed, released>>

Publish ==
  /\ sup = "publish"
  /\ sup' = "gone"
  /\ released' = TRUE
  /\ IF failures = {} THEN UNCHANGED <<runErr, unknown, outcome>>
     ELSE runErr' = TRUE /\ MarkUnknown
  /\ state' = IF failures = {} /\ committed /\ (syncRequired => synced)
              THEN "quiescent" ELSE "quarantined"
  /\ ctxDone' = TRUE
  /\ UNCHANGED <<cb, callerVars, flagVars, syncVars, changed, failures, workVars,
                 leaseVars>>

------------------------------------------------------------------------------
(* The caller. *)
callerRest == <<cb, syncVars, supVars, workVars, lease, expired>>

Return(o, s, e) ==
  /\ caller' = "returned"
  /\ told' = [outcome |-> o, state |-> s, err |-> e]

CallerDone ==
  /\ caller \in {"select", "timing"} /\ released
  /\ Return(outcome, state, runErr)
  /\ UNCHANGED <<callerRest, ctxDone, statusVars, flagVars, changed, bpSignal>>

CallerCleanup ==
  /\ caller = "select" /\ cleanup
  /\ caller' = "timing"
  /\ UNCHANGED <<callerRest, told, ctxDone, statusVars, flagVars, changed, bpSignal>>

CallerTimer ==
  /\ caller = "timing" /\ ~released
  /\ caller' = "pending"
  /\ UNCHANGED <<callerRest, told, ctxDone, statusVars, flagVars, changed, bpSignal>>

CallerBackpressure ==
  /\ caller = "select" /\ bpSignal
  /\ bpSignal' = FALSE
  /\ caller' = IF expired > 0 /\ ~ReleaseStarted /\ ~timedOut
               THEN "pending" ELSE "select"
  /\ UNCHANGED <<callerRest, told, ctxDone, statusVars, flagVars, changed>>

\* Variant: a pending cleanup is no error.
CleanupPendingSilent ==
  /\ caller = "pending"
  /\ \/ /\ released
        /\ Return(outcome, state, runErr)
        /\ UNCHANGED <<statusVars, timedOut, changed, ctxDone>>
     \/ /\ ~released
        /\ timedOut' = TRUE
        /\ state' = "cleanup_pending"
        /\ IF \/ workers > 0 \/ cb # "done"
              \/ ReleaseStarted /\ outcome \in {"success", "none"}
           THEN MarkUnknown
           ELSE /\ outcome' = IF outcome # "none" THEN outcome
                              ELSE IF cancelRequested THEN "cancelled" ELSE "error"
                /\ UNCHANGED unknown
        /\ ctxDone' = TRUE
        /\ Signal
        /\ Return(outcome', "cleanup_pending", runErr)
        /\ UNCHANGED runErr
  /\ UNCHANGED <<callerRest, cancelRequested, cleanup, bpSignal>>

(* cleanupPending: the caller leaves and the run goes on without it. *)
CleanupPending ==
  /\ caller = "pending"
  /\ \/ /\ released
        /\ Return(outcome, state, runErr)
        /\ UNCHANGED <<statusVars, timedOut, changed, ctxDone>>
     \/ /\ ~released
        /\ timedOut' = TRUE
        /\ state' = "cleanup_pending"
        /\ IF \/ workers > 0 \/ cb # "done"
              \/ ReleaseStarted /\ outcome \in {"success", "none"}
           THEN MarkUnknown
           ELSE /\ outcome' = IF outcome # "none" THEN outcome
                              ELSE IF cancelRequested THEN "cancelled" ELSE "error"
                /\ UNCHANGED unknown
        /\ ctxDone' = TRUE
        /\ Signal
        /\ Return(outcome', "cleanup_pending", TRUE)
        /\ UNCHANGED runErr
  /\ UNCHANGED <<callerRest, cancelRequested, cleanup, bpSignal>>

------------------------------------------------------------------------------
Results == {"success", "error", "cancelled", "unknown", "panic", "uncommitted"}

Caller == CallerDone \/ CallerCleanup \/ CallerTimer \/ CleanupPending

Supervisor == Look \/ (\E t \in Tasks : DrainTask(t)) \/ DrainEnds
              \/ ReleaseStep \/ Publish

Finishers ==
  \E t \in Tasks : \/ HandoffCompletionTask(t)
                   \/ \E r \in {"observer", "waiter"} :
                        FinishCompletionTaskResource(t, r)
                   \/ SeesClosed(t, "observer")

Next ==
  \/ Start \/ TerminalSynced \/ ContextEnds \/ MarkCancelRequested
  \/ MarkOutcomeUnknown
  \/ \E result \in Results : CallbackReturns(result)
  \/ \E w \in Workers :
       \/ RegisterWorker(w) \/ WorkerDone(w)
       \/ WorkerLeaves(w) \/ ResourceEnds(w)
       \/ \E c \in {"open", "nil"} : RegisterPendingResource(w, c)
  \/ \E t \in Tasks :
       \/ RegisterCompletionTask(t) \/ AttachDone(t) \/ AttachPendingExecution(t)
       \/ ChannelCloses(t) \/ ReceiptDurable(t) \/ ResolvePreparedTask(t)
       \/ SeesClosed(t, "waiter")
  \/ Finishers
  \/ \E l \in Leases : BeginBackpressure(l) \/ LeaseExpires(l) \/ EndBackpressure(l)
  \/ Supervisor \/ Caller \/ CallerBackpressure

Spec == Init /\ [][Next]_vars

(* The owner's own goroutines run and its timer fires; the caller, whose   *)
(* context has ended, says so.  Callback, workers and resources may take   *)
(* for ever.  One weak fairness condition is enough: a run takes these     *)
(* steps finitely often, so that none of them is put off for ever.         *)
Progress ==
  \/ Start \/ Supervisor \/ Finishers \/ Caller \/ CallerBackpressure
  \/ ctxDone /\ cb = "running" /\ MarkCancelRequested

FairSpec == Spec /\ WF_vars(Progress)

------------------------------------------------------------------------------
(* The counters stand for what really runs: one for every goroutine that   *)
(* has not reported its end and every dispatch not handed off, one for     *)
(* every resource that has not ended (RegisterWorker, handoff, finish).    *)
CountersAgree ==
  /\ workers = Cardinality({w \in Workers : worker[w] = "live"})
               + Cardinality({t \in Tasks : task[t].state = "handoff"})
  /\ resources = Cardinality({w \in Workers : held[w] \in {"open", "nil"}})
                 + Cardinality({t \in Tasks : task[t].state = "open"})

(* Lease and slot of a run are released only when the callback has         *)
(* returned and nothing it started is left, and nothing starts afterwards  *)
(* (supervise, the refusals after releaseStarted).                         *)
ReleasedWhenJoined ==
  ReleaseStarted =>
    /\ cb = "done"
    /\ \A w \in Workers : worker[w] # "live" /\ held[w] \notin {"open", "nil"}
    /\ \A t \in Tasks : task[t].state \notin {"handoff", "open"}

(* durablePublicationLocked after the release. *)
PublishedSynced ==
  /\ Bound /\ released
  /\ syncRequired /\ synced /\ committed
  /\ failures \cap {"lease", "slot"} = {}
  /\ state = "quiescent"

(* A publication that is reported as synced leaves no proven action with a *)
(* durable receipt unresolved (drainLateCompletionTasks before publish).   *)
SyncedMeansResolved == PublishedSynced => \A t \in Tasks : ~Late(t)

(* A caller that is told of success without an error is told of a run      *)
(* whose lease and slot are released, and whose outcome no failed release  *)
(* has made unknown (startCleanupLocked before the release).               *)
SuccessIsReleased ==
  caller = "returned" /\ told.outcome = "success" /\ ~told.err =>
    released /\ failures = {}

(* Once the outcome of a run is unknown it never becomes a known one,      *)
(* whichever of callback, release and timeout writes the status last.      *)
UnknownStays == [][outcome = "unknown" => outcome' = "unknown"]_vars

(* The run ends.  When its callback has returned and its work has ended    *)
(* its slot is released: no signal to the supervisor is lost.  And RunTurn *)
(* waits a bounded time: after its context has ended, after the callback   *)
(* has returned, and while the event stream stays blocked.                 *)
RunEnds ==
  /\ Joined ~> released
  /\ ((ctxDone /\ cb = "running") \/ cb = "done") ~> caller = "returned"
  /\ expired > 0 ~> (caller = "returned" \/ expired = 0)

==============================================================================
