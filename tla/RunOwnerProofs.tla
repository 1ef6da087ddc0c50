---------------------------- MODULE RunOwnerProofs ----------------------------
(***************************************************************************)
(* Proofs about RunOwner, for any finite number of workers, tasks and      *)
(* blocked sends.                                                          *)
(*                                                                         *)
(* The counters of the owner are the cardinalities of what really runs     *)
(* (Counters); from that the supervisor's test of them is a test of the    *)
(* run, and what has been tested stays true, because only what runs can    *)
(* start something (ReleasedWhenJoined).  PublishInv follows the release   *)
(* to the publication.                                                     *)
(***************************************************************************)
EXTENDS RunOwner, FiniteSetTheorems, TLAPS

Live    == {w \in Workers : worker[w] = "live"}
Handing == {t \in Tasks : task[t].state = "handoff"}
Holding == {w \in Workers : held[w] \in {"open", "nil"}}
Opened  == {t \in Tasks : task[t].state = "open"}

WorkTypes ==
    /\ worker \in [Workers -> {"idle", "live", "finishing", "gone"}]
    /\ held \in [Workers -> {"none", "open", "nil", "joined"}]
    /\ task \in [Tasks -> TaskRecords]

Counters ==
    /\ workers = Cardinality(Live) + Cardinality(Handing)
    /\ resources = Cardinality(Holding) + Cardinality(Opened)

\* Before run has dispatched its callback nothing has been started.
StartInv ==
    cb = "starting" =>
      /\ \A w \in Workers : worker[w] = "idle"
      /\ \A t \in Tasks : task[t].state = "none"
      /\ outcome = "none" /\ caller = "starting"

AfterDrain == sup \in {"lease", "generation", "slot", "publish", "gone"}

PublishInv ==
    /\ released => sup = "gone"
    /\ AfterDrain /\ "drain" \notin failures /\ synced => \A t \in Tasks : ~Late(t)
    /\ released /\ state = "quiescent" => failures = {}
    /\ released /\ failures # {} => runErr
    /\ outcome = "unknown" => unknown

OwnerInv ==
    /\ WorkTypes /\ Counters /\ ReleasedWhenJoined
    /\ StartInv /\ PublishInv /\ SuccessIsReleased

-----------------------------------------------------------------------------

\* What runs is finite.
LEMMA FiniteWork ==
    /\ IsFiniteSet(Live) /\ IsFiniteSet(Handing)
    /\ IsFiniteSet(Holding) /\ IsFiniteSet(Opened)
<1>1. Live \subseteq Workers /\ Holding \subseteq Workers
  BY DEF Live, Holding
<1>2. Handing \subseteq Tasks /\ Opened \subseteq Tasks
  BY DEF Handing, Opened
<1>3. QED
  BY <1>1, <1>2, RunOwnerAssumption, FS_Subset

\* One element more.
LEMMA OneMore ==
    ASSUME NEW S, NEW T, NEW x, IsFiniteSet(S), x \notin S, T = S \cup {x}
    PROVE  /\ Cardinality(S) \in Nat
           /\ Cardinality(T) = Cardinality(S) + 1
  BY FS_AddElement, FS_CardinalityType

\* One element less.
LEMMA OneLess ==
    ASSUME NEW S, NEW T, NEW x, IsFiniteSet(S), x \in S, T = S \ {x}
    PROVE  /\ Cardinality(T) \in Nat
           /\ Cardinality(S) = Cardinality(T) + 1
<1>1. IsFiniteSet(T)
  BY FS_Subset
<1>2. S = T \cup {x} /\ x \notin T
  OBVIOUS
<1>3. QED
  BY <1>1, <1>2, OneMore

\* Counters of nothing are zero, and zero counters count nothing.
LEMMA ZeroCounters ==
    ASSUME Counters
    PROVE  /\ workers \in Nat /\ resources \in Nat
           /\ workers = 0 => Live = {} /\ Handing = {}
           /\ resources = 0 => Holding = {} /\ Opened = {}
<1>1. /\ Cardinality(Live) \in Nat /\ Cardinality(Handing) \in Nat
      /\ Cardinality(Holding) \in Nat /\ Cardinality(Opened) \in Nat
  BY FiniteWork, FS_CardinalityType
<1>2. /\ Cardinality(Live) = 0 => Live = {}
      /\ Cardinality(Handing) = 0 => Handing = {}
      /\ Cardinality(Holding) = 0 => Holding = {}
      /\ Cardinality(Opened) = 0 => Opened = {}
  BY FiniteWork, FS_EmptySet
<1>3. QED
  BY <1>1, <1>2 DEF Counters

\* A new owner satisfies the invariant.
LEMMA OwnerInit == Init => OwnerInv
<1> SUFFICES ASSUME Init PROVE OwnerInv
  OBVIOUS
<1>1. WorkTypes
  BY DEF Init, WorkTypes, TaskRecords, Channels
<1>2. Live = {} /\ Handing = {} /\ Holding = {} /\ Opened = {}
  BY DEF Init, Live, Handing, Holding, Opened
<1>3. Counters
  BY <1>2, FS_EmptySet DEF Init, Counters
<1>4. ReleasedWhenJoined /\ StartInv /\ SuccessIsReleased
  BY DEF Init, ReleasedWhenJoined, ReleaseStarted, StartInv, SuccessIsReleased
<1>5. PublishInv
  BY DEF Init, PublishInv, AfterDrain
<1>6. QED
  BY <1>1, <1>3, <1>4, <1>5 DEF OwnerInv

-----------------------------------------------------------------------------
\* Workers and their resources.

\* A step of a worker leaves the run, the release and the tasks alone.
WorkerFrame ==
    UNCHANGED <<cb, callerVars, ctxDone, statusVars, flagVars, syncVars, supVars,
                task, leaseVars>>

\* Within that frame everything but the counters is kept, as long as
\* nothing runs after the release has started.
LEMMA WorkerKeeps ==
    ASSUME OwnerInv, WorkerFrame, ~ReleaseStarted, cb # "starting"
    PROVE  ReleasedWhenJoined' /\ StartInv' /\ PublishInv' /\ SuccessIsReleased'
<1>1. ReleasedWhenJoined'
  BY DEF ReleasedWhenJoined, ReleaseStarted, WorkerFrame, supVars
<1>2. StartInv'
  BY DEF StartInv, WorkerFrame
<1>3. PublishInv' /\ SuccessIsReleased'
  BY DEF OwnerInv, PublishInv, SuccessIsReleased, AfterDrain, Late, Proven,
         WorkerFrame, supVars, statusVars, syncVars, callerVars
<1>4. QED
  BY <1>1, <1>2, <1>3

\* Who may register or end something runs before the release.
LEMMA NotReleased ==
    ASSUME OwnerInv,
           \/ cb = "running"
           \/ \E w \in Workers : worker[w] = "live" \/ held[w] \in {"open", "nil"}
           \/ \E t \in Tasks : task[t].state \in {"handoff", "open"}
    PROVE  ~ReleaseStarted
  BY DEF OwnerInv, ReleasedWhenJoined

\* Every step of a worker keeps the invariant.
LEMMA WorkerStep ==
    ASSUME OwnerInv, NEW w \in Workers,
           \/ RegisterWorker(w) \/ WorkerDone(w) \/ WorkerLeaves(w)
           \/ ResourceEnds(w)
           \/ \E c \in {"open", "nil"} : RegisterPendingResource(w, c)
    PROVE  OwnerInv'
<1>0. WorkTypes /\ Counters
  BY DEF OwnerInv
<1>f. WorkerFrame
  BY DEF RegisterWorker, WorkerDone, WorkerLeaves, ResourceEnds,
         RegisterPendingResource, WorkerFrame
<1>n. ASSUME UNCHANGED task PROVE Handing' = Handing /\ Opened' = Opened
  BY <1>n DEF Handing, Opened
<1>t. UNCHANGED task
  BY <1>f DEF WorkerFrame
<1>1. CASE RegisterWorker(w)
  <2>1. ~ReleaseStarted
    BY <1>1, NotReleased DEF RegisterWorker
  <2>2. cb # "starting"
    BY <1>1 DEF RegisterWorker, OwnerInv, StartInv
  <2>3. WorkTypes' /\ Holding' = Holding /\ Live' = Live \cup {w} /\ w \notin Live
    BY <1>0, <1>1, <1>t DEF RegisterWorker, WorkTypes, Holding, Live
  <2>4. workers' = workers + 1 /\ resources' = resources
    BY <1>1, <2>1 DEF RegisterWorker
  <2>5. Counters'
    <3>1. Cardinality(Live') = Cardinality(Live) + 1 /\ Cardinality(Live) \in Nat
      BY <1>0, <2>3, OneMore, FiniteWork
    <3>2. Cardinality(Handing) \in Nat
      BY FiniteWork, FS_CardinalityType
    <3>3. QED
      BY <1>0, <1>n, <1>t, <2>3, <2>4, <3>1, <3>2 DEF Counters
  <2>6. QED
    BY <1>f, <2>1, <2>2, <2>3, <2>5, WorkerKeeps DEF OwnerInv
<1>2. CASE WorkerDone(w)
  <2>1. ~ReleaseStarted
    BY <1>2, NotReleased DEF WorkerDone
  <2>2. cb # "starting"
    BY <1>2 DEF WorkerDone, OwnerInv, StartInv
  <2>3. WorkTypes' /\ Holding' = Holding /\ Live' = Live \ {w} /\ w \in Live
    BY <1>0, <1>2, <1>t DEF WorkerDone, WorkTypes, Holding, Live
  <2>4. Counters'
    <3>1. Cardinality(Live) = Cardinality(Live') + 1 /\ Cardinality(Live') \in Nat
      BY <1>0, <2>3, OneLess, FiniteWork
    <3>2. Cardinality(Handing) \in Nat
      BY FiniteWork, FS_CardinalityType
    <3>3. workers' = (IF workers > 0 THEN workers - 1 ELSE 0) /\ resources' = resources
      BY <1>2 DEF WorkerDone
    <3>4. QED
      BY <1>0, <1>n, <1>t, <2>3, <3>1, <3>2, <3>3 DEF Counters
  <2>5. QED
    BY <1>f, <2>1, <2>2, <2>3, <2>4, WorkerKeeps DEF OwnerInv
<1>3. CASE WorkerLeaves(w)
  <2>1. WorkTypes' /\ Holding' = Holding /\ Live' = Live
    BY <1>0, <1>3, <1>t DEF WorkerLeaves, WorkTypes, Holding, Live
  <2>2. Counters'
    BY <1>0, <1>3, <1>n, <1>t, <2>1 DEF Counters, WorkerLeaves
  <2>3. cb # "starting"
    BY <1>3 DEF WorkerLeaves, OwnerInv, StartInv
  <2>4. \A v \in Workers : worker'[v] = "live" => worker[v] = "live"
    BY <1>0, <1>3 DEF WorkerLeaves, WorkTypes
  <2>5. ReleasedWhenJoined'
    BY <1>3, <1>f, <2>4 DEF OwnerInv, ReleasedWhenJoined, ReleaseStarted, WorkerLeaves,
                            WorkerFrame, supVars
  <2>6. StartInv' /\ PublishInv' /\ SuccessIsReleased'
    BY <1>f, <2>3 DEF OwnerInv, StartInv, PublishInv, SuccessIsReleased, AfterDrain,
       Late, Proven, WorkerFrame, supVars, statusVars, syncVars, callerVars
  <2>7. QED
    BY <2>1, <2>2, <2>5, <2>6 DEF OwnerInv
<1>4. CASE ResourceEnds(w)
  <2>1. ~ReleaseStarted
    BY <1>4, NotReleased DEF ResourceEnds
  <2>2. WorkTypes' /\ Live' = Live /\ Holding' = Holding \ {w} /\ w \in Holding
    BY <1>0, <1>4, <1>t DEF ResourceEnds, WorkTypes, Holding, Live
  <2>3. Counters'
    <3>1. Cardinality(Holding) = Cardinality(Holding') + 1 /\ Cardinality(Holding') \in Nat
      BY <1>0, <2>2, OneLess, FiniteWork
    <3>2. Cardinality(Opened) \in Nat
      BY FiniteWork, FS_CardinalityType
    <3>3. resources' = (IF resources > 0 THEN resources - 1 ELSE 0) /\ workers' = workers
      BY <1>4 DEF ResourceEnds
    <3>4. QED
      BY <1>0, <1>n, <1>t, <2>2, <3>1, <3>2, <3>3 DEF Counters
  <2>4. ReleasedWhenJoined'
    BY <1>f, <2>1 DEF ReleasedWhenJoined, ReleaseStarted, WorkerFrame, supVars
  <2>5. StartInv' /\ PublishInv' /\ SuccessIsReleased'
    BY <1>4, <1>f DEF OwnerInv, StartInv, PublishInv, SuccessIsReleased, AfterDrain,
       Late, Proven, ResourceEnds, WorkerFrame, supVars, statusVars, syncVars, callerVars
  <2>6. QED
    BY <2>2, <2>3, <2>4, <2>5 DEF OwnerInv
<1>5. ASSUME NEW c \in {"open", "nil"}, RegisterPendingResource(w, c) PROVE OwnerInv'
  <2>1. ~ReleaseStarted
    BY <1>5, NotReleased DEF RegisterPendingResource
  <2>2. cb # "starting"
    BY <1>5 DEF RegisterPendingResource, OwnerInv, StartInv
  <2>3. WorkTypes' /\ Live' = Live /\ Holding' = Holding \cup {w} /\ w \notin Holding
    BY <1>0, <1>5, <1>t DEF RegisterPendingResource, WorkTypes, Holding, Live
  <2>4. resources' = resources + 1 /\ workers' = workers
    BY <1>5, <2>1 DEF RegisterPendingResource
  <2>5. Counters'
    <3>1. Cardinality(Holding') = Cardinality(Holding) + 1 /\ Cardinality(Holding) \in Nat
      BY <1>0, <2>3, OneMore, FiniteWork
    <3>2. Cardinality(Opened) \in Nat
      BY FiniteWork, FS_CardinalityType
    <3>3. QED
      BY <1>0, <1>n, <1>t, <2>3, <2>4, <3>1, <3>2 DEF Counters
  <2>6. QED
    BY <1>f, <2>1, <2>2, <2>3, <2>5, WorkerKeeps DEF OwnerInv
<1>6. QED
  BY <1>1, <1>2, <1>3, <1>4, <1>5

-----------------------------------------------------------------------------
\* Completion tasks.

\* Until the release a step of a task keeps everything but the counters.
LEMMA TaskKeepsBefore ==
    ASSUME OwnerInv, UNCHANGED workRest, ~ReleaseStarted, cb # "starting"
    PROVE  ReleasedWhenJoined' /\ StartInv' /\ PublishInv' /\ SuccessIsReleased'
<1>1. ReleasedWhenJoined'
  BY DEF ReleasedWhenJoined, ReleaseStarted, workRest, supVars
<1>2. StartInv'
  BY DEF StartInv, workRest
<1>3. ~AfterDrain'
  BY DEF ReleaseStarted, AfterDrain, workRest, supVars
<1>4. PublishInv' /\ SuccessIsReleased'
  BY <1>3 DEF OwnerInv, PublishInv, SuccessIsReleased,
         workRest, supVars, statusVars, syncVars, callerVars
<1>5. QED
  BY <1>1, <1>2, <1>4

\* A step that changes neither the state of a task nor what the supervisor
\* has to write for it keeps everything.
LEMMA TaskKeeps ==
    ASSUME OwnerInv, UNCHANGED workRest, UNCHANGED <<workers, resources>>, WorkTypes',
           \A u \in Tasks : task'[u].state = task[u].state,
           \A u \in Tasks : Late(u)' => Late(u)
    PROVE  OwnerInv'
<1>1. Handing' = Handing /\ Opened' = Opened /\ Live' = Live /\ Holding' = Holding
  BY DEF Handing, Opened, Live, Holding, workRest
<1>2. Counters'
  BY <1>1 DEF OwnerInv, Counters
<1>3. ReleasedWhenJoined'
  BY DEF OwnerInv, ReleasedWhenJoined, ReleaseStarted, workRest, supVars
<1>4. StartInv'
  BY DEF OwnerInv, StartInv, workRest, statusVars, callerVars
<1>5. UNCHANGED <<sup, failures, synced, released, state, runErr, outcome, unknown,
                  caller, told>>
  BY DEF workRest, supVars, statusVars, syncVars, callerVars
<1>6. AfterDrain' = AfterDrain
  BY <1>5 DEF AfterDrain
<1>7. PublishInv' /\ SuccessIsReleased'
  BY <1>5, <1>6 DEF OwnerInv, PublishInv, SuccessIsReleased
<1>8. QED
  BY <1>2, <1>3, <1>4, <1>7 DEF OwnerInv

\* Registering a task and handing it off move the counters with it.
LEMMA TaskCounts ==
    ASSUME OwnerInv, NEW t \in Tasks, RegisterCompletionTask(t) \/ HandoffCompletionTask(t)
    PROVE  OwnerInv'
<1>0. WorkTypes /\ Counters
  BY DEF OwnerInv
<1>1. ~ReleaseStarted /\ cb # "starting"
  BY NotReleased DEF RegisterCompletionTask, HandoffCompletionTask, OwnerInv, StartInv
<1>2. UNCHANGED workRest
  BY DEF RegisterCompletionTask, HandoffCompletionTask
<1>3. Live' = Live /\ Holding' = Holding
  BY <1>2 DEF Live, Holding, workRest
<1>4. /\ Cardinality(Live) \in Nat /\ Cardinality(Holding) \in Nat
      /\ Cardinality(Handing) \in Nat /\ Cardinality(Opened) \in Nat
  BY FiniteWork, FS_CardinalityType
<1>5. CASE RegisterCompletionTask(t)
  <2>1. WorkTypes' /\ Opened' = Opened /\ Handing' = Handing \cup {t} /\ t \notin Handing
    BY <1>0, <1>2, <1>5 DEF RegisterCompletionTask, SetTask, WorkTypes, TaskRecords,
       Handing, Opened, workRest
  <2>2. workers' = workers + 1 /\ resources' = resources
    BY <1>5 DEF RegisterCompletionTask
  <2>3. Cardinality(Handing') = Cardinality(Handing) + 1
    BY <2>1, OneMore, FiniteWork
  <2>4. Counters'
    BY <1>0, <1>3, <1>4, <2>1, <2>2, <2>3 DEF Counters
  <2>5. QED
    BY <1>1, <1>2, <2>1, <2>4, TaskKeepsBefore DEF OwnerInv
<1>6. CASE HandoffCompletionTask(t)
  <2>1. t \in Handing /\ workers' = workers - 1
    BY <1>6 DEF HandoffCompletionTask, Handing
  <2>2. PICK r \in TaskRecords :
          /\ SetTask(t, r)
          /\ r.state # "handoff"
          /\ resources' = IF r.state = "open" THEN resources + 1 ELSE resources
    <3> DEFINE chans == {c \in {"done", "pend"} : task[t][c] \in {"open", "closed"}}
               seen  == IF "done" \in chans THEN task[t].proof ELSE "empty"
    <3>1. chans \in SUBSET {"done", "pend"} /\ seen \in {"none", "empty", "valid"}
      BY <1>0 DEF WorkTypes, TaskRecords
    <3>2. \/ /\ SetTask(t, [task[t] EXCEPT !.state = "no_proof"])
             /\ UNCHANGED resources
          \/ /\ SetTask(t, [task[t] EXCEPT !.state = "ready", !.chans = chans, !.seen = seen])
             /\ UNCHANGED resources
          \/ /\ SetTask(t, [task[t] EXCEPT !.state = "open", !.chans = chans])
             /\ resources' = resources + 1
      BY <1>6 DEF HandoffCompletionTask
    <3> HIDE DEF chans, seen
    <3>3. task[t] \in TaskRecords
      BY <1>0 DEF WorkTypes
    <3>4. /\ [task[t] EXCEPT !.state = "no_proof"] \in TaskRecords
          /\ [task[t] EXCEPT !.state = "ready", !.chans = chans, !.seen = seen] \in TaskRecords
          /\ [task[t] EXCEPT !.state = "open", !.chans = chans] \in TaskRecords
      BY <3>1, <3>3 DEF TaskRecords
    <3>5. /\ [task[t] EXCEPT !.state = "no_proof"].state = "no_proof"
          /\ [task[t] EXCEPT !.state = "ready", !.chans = chans, !.seen = seen].state = "ready"
          /\ [task[t] EXCEPT !.state = "open", !.chans = chans].state = "open"
      BY <3>3 DEF TaskRecords
    <3>6. QED
      BY <3>2, <3>4, <3>5
  <2>3. task' = [task EXCEPT ![t] = r] /\ task \in [Tasks -> TaskRecords]
    BY <1>0, <2>2 DEF SetTask, WorkTypes
  <2>4. WorkTypes'
    BY <1>0, <1>2, <2>2, <2>3 DEF WorkTypes, workRest
  <2>5. Handing' = Handing \ {t}
    BY <2>2, <2>3 DEF Handing
  <2>6. Cardinality(Handing) = Cardinality(Handing') + 1 /\ Cardinality(Handing') \in Nat
    BY <2>1, <2>5, OneLess, FiniteWork
  <2>7. CASE r.state = "open"
    <3>1. Opened' = Opened \cup {t} /\ t \notin Opened
      BY <2>1, <2>3, <2>7 DEF Opened, Handing
    <3>2. Cardinality(Opened') = Cardinality(Opened) + 1
      BY <3>1, OneMore, FiniteWork
    <3>3. QED
      BY <1>0, <1>1, <1>2, <1>3, <1>4, <2>1, <2>2, <2>4, <2>6, <2>7, <3>2, TaskKeepsBefore
      DEF OwnerInv, Counters
  <2>8. CASE r.state # "open"
    <3>1. Opened' = Opened
      BY <2>1, <2>3, <2>8 DEF Opened, Handing
    <3>2. QED
      BY <1>0, <1>1, <1>2, <1>3, <1>4, <2>1, <2>2, <2>4, <2>6, <2>8, <3>1, TaskKeepsBefore
      DEF OwnerInv, Counters
  <2>9. QED
    BY <2>7, <2>8
<1>7. QED
  BY <1>5, <1>6

\* A task whose resource has ended becomes ready, once.
LEMMA TaskFinishes ==
    ASSUME OwnerInv, NEW t \in Tasks, NEW reader \in {"observer", "waiter"},
           FinishCompletionTaskResource(t, reader)
    PROVE  OwnerInv'
<1>0. WorkTypes /\ Counters /\ task[t] \in TaskRecords
  BY DEF OwnerInv, WorkTypes
<1>1. UNCHANGED workRest /\ workers' = workers
  BY DEF FinishCompletionTaskResource
<1>2. CASE task[t].state = "open"
  <2>1. ~ReleaseStarted /\ cb # "starting"
    BY <1>2, NotReleased DEF OwnerInv, StartInv
  <2>2. Live' = Live /\ Holding' = Holding
    BY <1>1 DEF Live, Holding, workRest
  <2> DEFINE r == [task[t] EXCEPT !.state = "ready", !.seen = ReadProof(t),
                                  !.readers = @ \ {reader}]
  <2>3. /\ task' = [task EXCEPT ![t] = r]
        /\ resources' = IF resources > 0 THEN resources - 1 ELSE 0
    BY <1>2 DEF FinishCompletionTaskResource, SetTask
  <2>4. r \in TaskRecords /\ r.state = "ready"
    BY <1>0 DEF TaskRecords, ReadProof
  <2> HIDE DEF r
  <2>5. WorkTypes'
    BY <1>0, <1>1, <2>3, <2>4 DEF WorkTypes, workRest
  <2>6. Handing' = Handing /\ Opened' = Opened \ {t} /\ t \in Opened
    BY <1>0, <1>2, <2>3, <2>4 DEF WorkTypes, Handing, Opened
  <2>7. Cardinality(Opened) = Cardinality(Opened') + 1 /\ Cardinality(Opened') \in Nat
    BY <2>6, OneLess, FiniteWork
  <2>8. Cardinality(Holding) \in Nat
    BY FiniteWork, FS_CardinalityType
  <2>9. Counters'
    BY <1>0, <1>1, <2>2, <2>3, <2>6, <2>7, <2>8 DEF Counters
  <2>10. QED
    BY <1>1, <2>1, <2>5, <2>9, TaskKeepsBefore DEF OwnerInv
<1>3. CASE task[t].state # "open"
  <2> DEFINE r == [task[t] EXCEPT !.readers = @ \ {reader}]
  <2>1. task' = [task EXCEPT ![t] = r] /\ UNCHANGED <<workers, resources>>
    BY <1>1, <1>3 DEF FinishCompletionTaskResource, SetTask
  <2>2. /\ r \in TaskRecords /\ r.state = task[t].state /\ r.pend = task[t].pend
        /\ r.seen = task[t].seen /\ r.receipt = task[t].receipt
        /\ r.resolved = task[t].resolved
    BY <1>0 DEF TaskRecords
  <2> HIDE DEF r
  <2>3. WorkTypes'
    BY <1>0, <1>1, <2>1, <2>2 DEF WorkTypes, workRest
  <2>4. \A u \in Tasks : task'[u].state = task[u].state /\ (Late(u)' => Late(u))
    BY <1>0, <2>1, <2>2 DEF WorkTypes, Late, Proven
  <2>5. QED
    BY <1>1, <2>1, <2>3, <2>4, TaskKeeps
<1>4. QED
  BY <1>2, <1>3

\* The other steps of a task do not touch the counters.
LEMMA TaskGoesOn ==
    ASSUME OwnerInv, NEW t \in Tasks,
           \/ AttachDone(t) \/ AttachPendingExecution(t) \/ ChannelCloses(t)
           \/ ReceiptDurable(t) \/ ResolvePreparedTask(t)
           \/ \E reader \in {"observer", "waiter"} : SeesClosed(t, reader)
    PROVE  OwnerInv'
<1>0. WorkTypes /\ Counters /\ task[t] \in TaskRecords
  BY DEF OwnerInv, WorkTypes
<1>1. UNCHANGED workRest /\ UNCHANGED <<workers, resources>>
  BY DEF AttachDone, AttachPendingExecution, ChannelCloses, ReceiptDurable,
         ResolvePreparedTask, SeesClosed
<1>2. PICK r \in TaskRecords :
        /\ task' = [task EXCEPT ![t] = r]
        /\ r.state = task[t].state
        /\ \/ ~ReleaseStarted /\ cb # "starting"
           \/ /\ r.pend = "nil" <=> task[t].pend = "nil"
              /\ r.seen = task[t].seen /\ r.receipt = task[t].receipt
              /\ r.resolved = task[t].resolved
  <2>1. CASE AttachDone(t)
    <3>1. PICK p \in {"empty", "valid"} :
             task' = [task EXCEPT ![t] = [task[t] EXCEPT !.done = "open", !.proof = p]]
      BY <2>1 DEF AttachDone, SetTask
    <3>2. ~ReleaseStarted /\ cb # "starting"
      BY <2>1, NotReleased DEF AttachDone, OwnerInv, StartInv
    <3>3. /\ [task[t] EXCEPT !.done = "open", !.proof = p] \in TaskRecords
          /\ [task[t] EXCEPT !.done = "open", !.proof = p].state = task[t].state
      BY <1>0 DEF TaskRecords, Channels
    <3>4. QED
      BY <3>1, <3>2, <3>3
  <2>2. CASE AttachPendingExecution(t)
    <3>1. PICK c \in {"nil", "open"} :
             task' = [task EXCEPT ![t] = [task[t] EXCEPT !.pend = c]]
      BY <2>2 DEF AttachPendingExecution, SetTask
    <3>2. ~ReleaseStarted /\ cb # "starting"
      BY <2>2, NotReleased DEF AttachPendingExecution, OwnerInv, StartInv
    <3>3. /\ [task[t] EXCEPT !.pend = c] \in TaskRecords
          /\ [task[t] EXCEPT !.pend = c].state = task[t].state
      BY <1>0 DEF TaskRecords, Channels
    <3>4. QED
      BY <3>1, <3>2, <3>3
  <2>3. CASE ChannelCloses(t)
    <3>1. \/ task' = [task EXCEPT ![t] = [task[t] EXCEPT !.done = "closed"]]
          \/ /\ task[t].pend = "open"
             /\ task' = [task EXCEPT ![t] = [task[t] EXCEPT !.pend = "closed"]]
      BY <2>3 DEF ChannelCloses, SetTask
    <3>2. /\ [task[t] EXCEPT !.done = "closed"] \in TaskRecords
          /\ [task[t] EXCEPT !.pend = "closed"] \in TaskRecords
      BY <1>0 DEF TaskRecords, Channels
    <3>3. QED
      BY <1>0, <3>1, <3>2 DEF TaskRecords
  <2>4. CASE ReceiptDurable(t)
    <3>1. task' = [task EXCEPT ![t] = [task[t] EXCEPT !.receipt = TRUE]]
      BY <2>4 DEF ReceiptDurable, SetTask
    <3>2. ~ReleaseStarted /\ cb # "starting"
      BY <2>4, NotReleased DEF ReceiptDurable
    <3>3. /\ [task[t] EXCEPT !.receipt = TRUE] \in TaskRecords
          /\ [task[t] EXCEPT !.receipt = TRUE].state = task[t].state
      BY <1>0 DEF TaskRecords
    <3>4. QED
      BY <3>1, <3>2, <3>3
  <2>5. CASE ResolvePreparedTask(t)
    <3>1. task' = [task EXCEPT ![t] =
             [task[t] EXCEPT !.recorded = TRUE, !.resolved = @ \/ task[t].recorded]]
      BY <2>5 DEF ResolvePreparedTask, SetTask
    <3>2. ~ReleaseStarted /\ cb # "starting"
      BY <2>5, NotReleased DEF ResolvePreparedTask
    <3>3. task[t].resolved \in BOOLEAN /\ task[t].recorded \in BOOLEAN
      BY <1>0, Zenon DEF TaskRecords
    <3>4. (task[t].resolved \/ task[t].recorded) \in BOOLEAN
      BY <3>3
    <3>5. /\ [task[t] EXCEPT !.recorded = TRUE, !.resolved = @ \/ task[t].recorded]
                \in TaskRecords
          /\ [task[t] EXCEPT !.recorded = TRUE,
                             !.resolved = @ \/ task[t].recorded].state = task[t].state
      BY <1>0, <3>4 DEF TaskRecords
    <3>6. QED
      BY <3>1, <3>2, <3>5
  <2>6. ASSUME NEW reader \in {"observer", "waiter"}, SeesClosed(t, reader)
        PROVE  \E r \in TaskRecords :
                 /\ task' = [task EXCEPT ![t] = r]
                 /\ r.state = task[t].state
                 /\ ~ReleaseStarted /\ cb # "starting"
    <3>1. task' = [task EXCEPT ![t] = [task[t] EXCEPT !.readers = @ \cup {reader}]]
      BY <2>6 DEF SeesClosed, SetTask
    <3>2. ~ReleaseStarted /\ cb # "starting"
      BY <2>6, NotReleased DEF SeesClosed, OwnerInv, StartInv
    <3>3. /\ [task[t] EXCEPT !.readers = @ \cup {reader}] \in TaskRecords
          /\ [task[t] EXCEPT !.readers = @ \cup {reader}].state = task[t].state
      BY <1>0 DEF TaskRecords
    <3>4. QED
      BY <3>1, <3>2, <3>3
  <2>7. QED
    BY <2>1, <2>2, <2>3, <2>4, <2>5, <2>6
<1>3. WorkTypes'
  BY <1>0, <1>1, <1>2 DEF WorkTypes, workRest
<1>4. \A u \in Tasks : task'[u].state = task[u].state
  BY <1>0, <1>2 DEF WorkTypes
<1>5. CASE ~ReleaseStarted /\ cb # "starting"
  <2>1. Handing' = Handing /\ Opened' = Opened /\ Live' = Live /\ Holding' = Holding
    BY <1>1, <1>4 DEF Handing, Opened, Live, Holding, workRest
  <2>2. Counters'
    BY <1>0, <1>1, <2>1 DEF Counters
  <2>3. QED
    BY <1>1, <1>3, <1>5, <2>2, TaskKeepsBefore DEF OwnerInv
<1>6. CASE ~(~ReleaseStarted /\ cb # "starting")
  <2>1. \A u \in Tasks : Late(u)' => Late(u)
    BY <1>0, <1>2, <1>6 DEF WorkTypes, Late, Proven
  <2>2. QED
    BY <1>1, <1>3, <1>4, <2>1, TaskKeeps
<1>7. QED
  BY <1>5, <1>6

-----------------------------------------------------------------------------
\* The run, its release and its caller.

\* Steps that start and end nothing.
LEMMA WorkKept ==
    ASSUME OwnerInv, UNCHANGED workVars
    PROVE  WorkTypes' /\ Counters' /\ \A t \in Tasks : Late(t)' = Late(t)
<1>1. Handing' = Handing /\ Opened' = Opened /\ Live' = Live /\ Holding' = Holding
  BY DEF Handing, Opened, Live, Holding, workVars
<1>2. WorkTypes' /\ Counters'
  BY <1>1 DEF OwnerInv, WorkTypes, Counters, workVars
<1>3. \A t \in Tasks : Late(t)' = Late(t)
  BY DEF Late, Proven, workVars
<1>4. QED
  BY <1>2, <1>3

\* As long as the release stands still, the callback may go on.
LEMMA ReleaseKept ==
    ASSUME OwnerInv, UNCHANGED <<workVars, supVars>>,
           cb' = cb \/ ~ReleaseStarted,
           synced' = synced \/ ~ReleaseStarted,
           released => (state' = "quiescent" => state = "quiescent") /\ runErr' = runErr,
           outcome' = "unknown" => unknown'
    PROVE  ReleasedWhenJoined' /\ PublishInv'
<1>1. ReleaseStarted' = ReleaseStarted /\ AfterDrain' = AfterDrain
  BY DEF ReleaseStarted, AfterDrain, supVars
<1>2. ReleasedWhenJoined'
  BY <1>1 DEF OwnerInv, ReleasedWhenJoined, workVars
<1>3. AfterDrain => ReleaseStarted
  BY DEF AfterDrain, ReleaseStarted
<1>4. PublishInv'
  BY <1>1, <1>3, WorkKept DEF OwnerInv, PublishInv, supVars
<1>5. QED
  BY <1>2, <1>4

\* The run's first step, its callback and the marks on its status.
LEMMA RunStep ==
    ASSUME OwnerInv,
           \/ Start \/ TerminalSynced \/ ContextEnds \/ MarkCancelRequested
           \/ MarkOutcomeUnknown
           \/ \E result \in Results : CallbackReturns(result)
           \/ \E l \in Leases : BeginBackpressure(l) \/ LeaseExpires(l) \/ EndBackpressure(l)
    PROVE  OwnerInv'
<1>0. StartInv /\ PublishInv /\ SuccessIsReleased /\ ReleasedWhenJoined
  BY DEF OwnerInv
<1>1. CASE Start
  <2>1. ~ReleaseStarted /\ ~released
    BY <1>0, <1>1 DEF Start, ReleasedWhenJoined, PublishInv, ReleaseStarted
  <2>2. UNCHANGED <<workVars, released, failures>> /\ sup' = "wait" /\ caller' = "select"
        /\ cb' # "starting"
    BY <1>1 DEF Start
  <2>3. outcome' = "unknown" => unknown'
    BY <1>0, <1>1 DEF Start, StartInv, statusVars
  <2>4. ReleasedWhenJoined' /\ StartInv' /\ SuccessIsReleased'
    BY <2>2 DEF ReleasedWhenJoined, ReleaseStarted, StartInv, SuccessIsReleased
  <2>5. PublishInv'
    BY <2>1, <2>2, <2>3 DEF PublishInv, AfterDrain
  <2>6. QED
    BY <2>2, <2>4, <2>5, WorkKept DEF OwnerInv
<1>2. ASSUME NEW result \in Results, CallbackReturns(result) PROVE OwnerInv'
  <2>1. ~ReleaseStarted /\ ~released
    BY <1>0, <1>2 DEF CallbackReturns, ReleasedWhenJoined, PublishInv, ReleaseStarted
  <2>2. UNCHANGED <<workVars, supVars, callerVars, synced>> /\ cb' # "starting"
    BY <1>2 DEF CallbackReturns
  <2>3. outcome' = "unknown" => unknown'
    BY <1>2 DEF CallbackReturns
  <2>4. ReleasedWhenJoined' /\ PublishInv'
    BY <2>1, <2>2, <2>3, ReleaseKept
  <2>5. StartInv' /\ SuccessIsReleased'
    BY <1>0, <2>2 DEF StartInv, SuccessIsReleased, supVars, callerVars
  <2>6. QED
    BY <2>2, <2>4, <2>5, WorkKept DEF OwnerInv
<1>3. CASE \/ TerminalSynced \/ ContextEnds \/ MarkCancelRequested
           \/ \E l \in Leases : BeginBackpressure(l) \/ LeaseExpires(l) \/ EndBackpressure(l)
  <2>1. UNCHANGED <<workVars, supVars, callerVars, cb, outcome, unknown, runErr>>
    BY <1>3, Zenon DEF TerminalSynced, ContextEnds, MarkCancelRequested, BeginBackpressure,
       LeaseExpires, EndBackpressure, statusVars
  <2>2. state' = state \/ ~released
    BY <1>3 DEF TerminalSynced, ContextEnds, MarkCancelRequested, BeginBackpressure,
       LeaseExpires, EndBackpressure, statusVars
  <2>3. synced' = synced \/ ~ReleaseStarted
    BY <1>0, <1>3 DEF TerminalSynced, ContextEnds, MarkCancelRequested, BeginBackpressure,
       LeaseExpires, EndBackpressure, syncVars, ReleasedWhenJoined
  <2>4. outcome' = "unknown" => unknown'
    BY <1>0, <2>1 DEF PublishInv
  <2>5. ReleasedWhenJoined' /\ PublishInv'
    BY <2>1, <2>2, <2>3, <2>4, ReleaseKept
  <2>6. StartInv' /\ SuccessIsReleased'
    BY <1>0, <2>1 DEF StartInv, SuccessIsReleased, workVars, supVars, callerVars
  <2>7. QED
    BY <2>1, <2>5, <2>6, WorkKept DEF OwnerInv
<1>4. CASE MarkOutcomeUnknown
  <2>1. /\ UNCHANGED <<workVars, supVars, callerVars, cb, state, runErr, syncVars>>
        /\ unknown' = TRUE
    BY <1>4 DEF MarkOutcomeUnknown, MarkUnknown
  <2>2. ReleasedWhenJoined' /\ PublishInv'
    BY <2>1, ReleaseKept DEF syncVars
  <2>3. cb # "starting"
    BY <1>0, <1>4 DEF MarkOutcomeUnknown, StartInv
  <2>4. StartInv' /\ SuccessIsReleased'
    BY <1>0, <2>1, <2>3 DEF StartInv, SuccessIsReleased, supVars, callerVars
  <2>5. QED
    BY <2>1, <2>2, <2>4, WorkKept DEF OwnerInv
<1>5. QED
  BY <1>1, <1>2, <1>3, <1>4

\* The supervisor: what it has seen joined stays joined.
LEMMA SupervisorStep ==
    ASSUME OwnerInv, Supervisor
    PROVE  OwnerInv'
<1>0. StartInv /\ PublishInv /\ SuccessIsReleased /\ ReleasedWhenJoined /\ Counters /\ WorkTypes
  BY DEF OwnerInv
<1>1. CASE Look
  <2>1. UNCHANGED <<workVars, released, failures, syncVars, cb, callerVars>> /\ ~released
        /\ sup = "wait"
    BY <1>0, <1>1 DEF Look, supRest, PublishInv
  <2>2. UNCHANGED <<outcome, unknown, runErr>>
    BY <1>1 DEF Look
  <2>3. \/ sup' = "wait"
        \/ Joined /\ sup' = "drain"
        \/ Joined /\ sup' = "lease" /\ ~synced
    BY <1>1 DEF Look
  <2>4. Joined => /\ cb = "done"
                  /\ \A w \in Workers : worker[w] # "live" /\ held[w] \notin {"open", "nil"}
                  /\ \A t \in Tasks : task[t].state \notin {"handoff", "open"}
    BY <1>0, ZeroCounters DEF Joined, Live, Handing, Holding, Opened
  <2>5. ReleasedWhenJoined'
    BY <2>1, <2>3, <2>4 DEF ReleasedWhenJoined, ReleaseStarted, workVars
  <2>6. StartInv' /\ SuccessIsReleased'
    BY <1>0, <2>1, <2>2 DEF StartInv, SuccessIsReleased, workVars, callerVars
  <2>7. PublishInv'
    BY <1>0, <2>1, <2>2, <2>3 DEF PublishInv, AfterDrain, syncVars
  <2>8. QED
    BY <2>1, <2>5, <2>6, <2>7, WorkKept DEF OwnerInv
<1>2. ASSUME NEW t \in Tasks, DrainTask(t) PROVE OwnerInv'
  <2>1. /\ UNCHANGED <<cb, callerVars, statusVars, released, workers, resources, worker, held>>
        /\ sup = "drain" /\ ~released
    BY <1>0, <1>2 DEF DrainTask, PublishInv
  <2>2. PICK r \in TaskRecords :
          task' = [task EXCEPT ![t] = r] /\ r.state = task[t].state
    <3>1. \E b \in BOOLEAN, c \in BOOLEAN :
             task' = [task EXCEPT ![t] = [task[t] EXCEPT !.recorded = b, !.resolved = c]]
      <4>1. CASE SetTask(t, [task[t] EXCEPT !.recorded = TRUE, !.resolved = TRUE])
        BY <4>1 DEF SetTask
      <4>2. ASSUME NEW q \in {task[t].recorded, TRUE},
                   SetTask(t, [task[t] EXCEPT !.recorded = q])
            PROVE  \E b \in BOOLEAN, c \in BOOLEAN : task' = [task EXCEPT ![t] =
                     [task[t] EXCEPT !.recorded = b, !.resolved = c]]
        <5>1. task[t] \in TaskRecords
          BY <1>0 DEF WorkTypes
        <5>2. q \in BOOLEAN /\ task[t].resolved \in BOOLEAN
          BY <5>1, Zenon DEF TaskRecords
        <5>3. [task[t] EXCEPT !.recorded = q]
                = [task[t] EXCEPT !.recorded = q, !.resolved = task[t].resolved]
          BY <5>1 DEF TaskRecords
        <5>4. QED
          BY <4>2, <5>2, <5>3 DEF SetTask
      <4>3. QED
        BY <1>2, <4>1, <4>2 DEF DrainTask
    <3>2. \A b \in BOOLEAN, c \in BOOLEAN :
             /\ [task[t] EXCEPT !.recorded = b, !.resolved = c] \in TaskRecords
             /\ [task[t] EXCEPT !.recorded = b, !.resolved = c].state = task[t].state
      <4>1. task[t] \in TaskRecords
        BY <1>0 DEF WorkTypes
      <4>2. QED
        BY <4>1 DEF TaskRecords
    <3>3. QED
      BY <3>1, <3>2
  <2>3. WorkTypes' /\ Handing' = Handing /\ Opened' = Opened /\ Live' = Live
        /\ Holding' = Holding
    BY <1>0, <2>1, <2>2 DEF WorkTypes, Handing, Opened, Live, Holding
  <2>4. Counters'
    BY <1>0, <2>1, <2>3 DEF Counters
  <2>5. sup' = "drain" \/ (sup' = "lease" /\ "drain" \in failures')
    BY <1>2, <2>1 DEF DrainTask
  <2>6. ReleasedWhenJoined' /\ StartInv'
    <3>1. \A u \in Tasks : task'[u].state = task[u].state
      BY <1>0, <2>2 DEF WorkTypes
    <3>2. cb' = cb /\ worker' = worker /\ held' = held /\ ReleaseStarted
      BY <2>1 DEF ReleaseStarted
    <3>3. ReleasedWhenJoined'
      BY <1>0, <3>1, <3>2 DEF ReleasedWhenJoined
    <3>4. StartInv'
      BY <1>0, <3>2 DEF ReleasedWhenJoined, StartInv
    <3>5. QED
      BY <3>3, <3>4
  <2>7. PublishInv' /\ SuccessIsReleased'
    <3>1. PublishInv'
      BY <1>0, <2>1, <2>5 DEF PublishInv, AfterDrain, statusVars
    <3>2. SuccessIsReleased'
      BY <1>0, <2>1 DEF SuccessIsReleased, callerVars
    <3>3. QED
      BY <3>1, <3>2
  <2>8. QED
    BY <2>3, <2>4, <2>6, <2>7 DEF OwnerInv
<1>3. CASE DrainEnds \/ ReleaseStep
  <2>1. UNCHANGED <<workVars, released, syncVars, cb, callerVars, statusVars>> /\ ~released
    BY <1>0, <1>3 DEF DrainEnds, ReleaseStep, supRest, PublishInv
  <2>2. ReleaseStarted /\ ReleaseStarted'
    BY <1>3 DEF DrainEnds, ReleaseStep, ReleaseStarted
  <2>3. ReleasedWhenJoined'
    BY <1>0, <2>1, <2>2 DEF ReleasedWhenJoined, workVars
  <2>4. StartInv' /\ SuccessIsReleased'
    BY <1>0, <2>1 DEF StartInv, SuccessIsReleased, workVars, callerVars, statusVars
  <2>5. \/ \A t \in Tasks : ~Late(t)
        \/ AfterDrain /\ ("drain" \in failures => "drain" \in failures')
    BY <1>3 DEF DrainEnds, ReleaseStep, AfterDrain
  <2>6. PublishInv'
    BY <1>0, <2>1, <2>5, WorkKept DEF PublishInv, syncVars, statusVars
  <2>7. QED
    BY <2>1, <2>3, <2>4, <2>6, WorkKept DEF OwnerInv
<1>4. CASE Publish
  <2>1. UNCHANGED <<workVars, failures, syncVars, cb, callerVars>> /\ ~released
        /\ sup = "publish" /\ sup' = "gone" /\ released'
    BY <1>0, <1>4 DEF Publish, PublishInv
  <2>2. ReleasedWhenJoined'
    BY <1>0, <2>1 DEF ReleasedWhenJoined, ReleaseStarted, workVars
  <2>3. StartInv' /\ SuccessIsReleased'
    BY <1>0, <2>1 DEF StartInv, SuccessIsReleased, ReleasedWhenJoined, ReleaseStarted,
                      callerVars
  <2>4. PublishInv'
    <3>1. /\ state' = "quiescent" => failures = {}
          /\ failures # {} => runErr'
          /\ outcome' = "unknown" => unknown'
      BY <1>0, <1>4 DEF Publish, PublishInv, MarkUnknown
    <3>2. QED
      BY <1>0, <2>1, <3>1, WorkKept DEF PublishInv, AfterDrain, syncVars
  <2>5. QED
    BY <2>1, <2>2, <2>3, <2>4, WorkKept DEF OwnerInv
<1>5. QED
  BY <1>1, <1>2, <1>3, <1>4 DEF Supervisor

\* The caller, which leaves with what the owner says at that moment.
LEMMA CallerStep ==
    ASSUME OwnerInv, Caller \/ CallerBackpressure
    PROVE  OwnerInv'
<1>0. StartInv /\ PublishInv /\ SuccessIsReleased /\ ReleasedWhenJoined
  BY DEF OwnerInv
<1>1. UNCHANGED <<cb, syncVars, supVars, workVars>>
  BY Zenon DEF Caller, CallerDone, CallerCleanup, CallerTimer, CleanupPending,
         CallerBackpressure, callerRest
<1>2. outcome' = "unknown" => unknown'
  BY <1>0 DEF Caller, CallerDone, CallerCleanup, CallerTimer, CleanupPending,
         CallerBackpressure, statusVars, PublishInv, MarkUnknown
<1>3. runErr' = runErr /\ (state' = state \/ ~released)
  BY DEF Caller, CallerDone, CallerCleanup, CallerTimer, CleanupPending,
         CallerBackpressure, statusVars
<1>4. ReleasedWhenJoined' /\ PublishInv'
  BY <1>1, <1>2, <1>3, ReleaseKept DEF syncVars
<1>5. StartInv'
  <2>1. cb # "starting"
    BY <1>0 DEF Caller, CallerDone, CallerCleanup, CallerTimer, CleanupPending,
           CallerBackpressure, StartInv
  <2>2. QED
    BY <1>1, <2>1 DEF StartInv
<1>6. SuccessIsReleased'
  <2>1. CASE CallerDone \/ CleanupPending
    <3>1. \/ released /\ told' = [outcome |-> outcome, state |-> state, err |-> runErr]
          \/ told' = [outcome |-> outcome', state |-> "cleanup_pending", err |-> TRUE]
      BY <2>1 DEF CallerDone, CleanupPending, Return
    <3>2. QED
      BY <1>0, <1>1, <3>1 DEF SuccessIsReleased, PublishInv, supVars
  <2>2. CASE CallerCleanup \/ CallerTimer \/ CallerBackpressure
    BY <2>2 DEF CallerCleanup, CallerTimer, CallerBackpressure, SuccessIsReleased
  <2>3. QED
    BY <2>1, <2>2 DEF Caller
<1>7. QED
  BY <1>1, <1>4, <1>5, <1>6, WorkKept DEF OwnerInv

-----------------------------------------------------------------------------
\* The invariant and what it means.

LEMMA OwnerNext == OwnerInv /\ [Next]_vars => OwnerInv'
<1> SUFFICES ASSUME OwnerInv, [Next]_vars PROVE OwnerInv'
  OBVIOUS
<1>1. CASE Next
  <2>1. ASSUME \/ Start \/ TerminalSynced \/ ContextEnds \/ MarkCancelRequested
               \/ MarkOutcomeUnknown
               \/ \E result \in Results : CallbackReturns(result)
               \/ \E l \in Leases :
                     BeginBackpressure(l) \/ LeaseExpires(l) \/ EndBackpressure(l)
        PROVE  OwnerInv'
    BY <2>1, RunStep
  <2>2. ASSUME NEW w \in Workers,
               \/ RegisterWorker(w) \/ WorkerDone(w)
               \/ WorkerLeaves(w) \/ ResourceEnds(w)
               \/ \E c \in {"open", "nil"} : RegisterPendingResource(w, c)
        PROVE  OwnerInv'
    BY <2>2, WorkerStep
  <2>3. ASSUME NEW t \in Tasks, RegisterCompletionTask(t) \/ HandoffCompletionTask(t)
        PROVE  OwnerInv'
    BY <2>3, TaskCounts
  <2>4. ASSUME NEW t \in Tasks, NEW r \in {"observer", "waiter"},
               FinishCompletionTaskResource(t, r)
        PROVE  OwnerInv'
    BY <2>4, TaskFinishes
  <2>5. ASSUME NEW t \in Tasks,
               \/ AttachDone(t) \/ AttachPendingExecution(t) \/ ChannelCloses(t)
               \/ ReceiptDurable(t) \/ ResolvePreparedTask(t)
               \/ SeesClosed(t, "waiter") \/ SeesClosed(t, "observer")
        PROVE  OwnerInv'
    BY <2>5, TaskGoesOn
  <2>6. CASE Finishers
    BY <2>3, <2>4, <2>5, <2>6 DEF Finishers
  <2>7. CASE Supervisor \/ Caller \/ CallerBackpressure
    BY <2>7, SupervisorStep, CallerStep
  <2>8. QED
    BY <1>1, <2>1, <2>2, <2>3, <2>5, <2>6, <2>7, Zenon DEF Next
<1>2. CASE UNCHANGED vars
  <2>1. UNCHANGED <<workVars, supVars, syncVars, statusVars, callerVars, cb>>
    BY <1>2 DEF vars
  <2>2. ReleasedWhenJoined' /\ PublishInv'
    BY <2>1, ReleaseKept DEF syncVars, statusVars, OwnerInv, PublishInv
  <2>3. StartInv' /\ SuccessIsReleased'
    BY <2>1 DEF OwnerInv, StartInv, SuccessIsReleased, workVars, supVars, statusVars,
                callerVars
  <2>4. QED
    BY <2>1, <2>2, <2>3, WorkKept DEF OwnerInv
<1>3. QED
  BY <1>1, <1>2

\* The inductive invariant of the owner: typed work, exact counters, and a
\* release that began only when everything had joined (run_owner.go).
THEOREM OwnerInvariant == Spec => []OwnerInv
<1>1. Init => OwnerInv
  BY OwnerInit
<1>2. OwnerInv /\ [Next]_vars => OwnerInv'
  BY OwnerNext
<1>3. QED
  BY <1>1, <1>2, PTL DEF Spec

\* The counters of workers and resources count what runs
\* (RegisterWorker, HandoffCompletionTask, finishCompletionTaskResource).
THEOREM CountersCountWork == Spec => []CountersAgree
<1>1. OwnerInv => CountersAgree
  BY DEF OwnerInv, Counters, CountersAgree, Live, Handing, Holding, Opened
<1>2. QED
  BY <1>1, OwnerInvariant, PTL

\* Lease and slot are released only after callback, workers and resources
\* have ended, and nothing starts afterwards (supervise).
THEOREM ReleaseAfterJoin == Spec => []ReleasedWhenJoined
<1>1. OwnerInv => ReleasedWhenJoined
  BY DEF OwnerInv
<1>2. QED
  BY <1>1, OwnerInvariant, PTL

\* A publication reported as synced leaves no proven action with a durable
\* receipt behind (drainLateCompletionTasks before the publication).
THEOREM SyncedResolves == Spec => []SyncedMeansResolved
<1>1. OwnerInv => SyncedMeansResolved
  <2> SUFFICES ASSUME OwnerInv, PublishedSynced PROVE \A t \in Tasks : ~Late(t)
    BY DEF SyncedMeansResolved
  <2>1. released /\ synced /\ state = "quiescent"
    BY DEF PublishedSynced
  <2>2. failures = {} /\ AfterDrain
    BY <2>1 DEF OwnerInv, PublishInv, AfterDrain
  <2>3. QED
    BY <2>1, <2>2 DEF OwnerInv, PublishInv
<1>2. QED
  BY <1>1, OwnerInvariant, PTL

\* A caller that is told of success is told of a released run
\* (run, cleanupPending).
THEOREM SuccessAfterRelease == Spec => []SuccessIsReleased
<1>1. OwnerInv => SuccessIsReleased
  BY DEF OwnerInv
<1>2. QED
  BY <1>1, OwnerInvariant, PTL

\* No status written later makes an unknown outcome a known one
\* (invoke, markOutcomeUnknown, publish, cleanupPending).
THEOREM UnknownIsFinal == Spec => UnknownStays
<1>1. ASSUME OwnerInv, [Next]_vars, outcome = "unknown" PROVE outcome' = "unknown"
  <2>1. unknown /\ cb # "starting"
    BY <1>1 DEF OwnerInv, PublishInv, StartInv
  <2>2. CASE Next
    <3>1. ASSUME NEW result \in Results, CallbackReturns(result)
          PROVE  outcome' = "unknown"
      BY <2>1, <3>1 DEF CallbackReturns
    <3>2. CASE \/ Start \/ TerminalSynced \/ ContextEnds \/ MarkCancelRequested
               \/ MarkOutcomeUnknown
               \/ \E l \in Leases :
                     BeginBackpressure(l) \/ LeaseExpires(l) \/ EndBackpressure(l)
      BY <1>1, <2>1, <3>2 DEF Start, TerminalSynced, ContextEnds, MarkCancelRequested,
         MarkOutcomeUnknown, BeginBackpressure, LeaseExpires, EndBackpressure,
         statusVars, MarkUnknown
    <3>3. ASSUME NEW w \in Workers,
                 \/ RegisterWorker(w) \/ WorkerDone(w)
                 \/ WorkerLeaves(w) \/ ResourceEnds(w)
                 \/ \E c \in {"open", "nil"} : RegisterPendingResource(w, c)
          PROVE  outcome' = "unknown"
      BY <1>1, <3>3 DEF RegisterWorker, WorkerDone, WorkerLeaves, ResourceEnds,
         RegisterPendingResource, statusVars
    <3>4. ASSUME NEW t \in Tasks,
                 \/ RegisterCompletionTask(t) \/ AttachDone(t) \/ AttachPendingExecution(t)
                 \/ ChannelCloses(t) \/ ReceiptDurable(t) \/ ResolvePreparedTask(t)
                 \/ HandoffCompletionTask(t)
                 \/ \E r \in {"observer", "waiter"} :
                      SeesClosed(t, r) \/ FinishCompletionTaskResource(t, r)
          PROVE  outcome' = "unknown"
      <4>1. UNCHANGED workRest
        BY <3>4, Zenon DEF RegisterCompletionTask, AttachDone, AttachPendingExecution, ChannelCloses,
           ReceiptDurable, ResolvePreparedTask, HandoffCompletionTask, SeesClosed,
           FinishCompletionTaskResource
      <4>2. QED
        BY <1>1, <4>1 DEF workRest, statusVars
    <3>5. CASE Finishers
      BY <3>4, <3>5, Zenon DEF Finishers
    <3>6. CASE Supervisor
      BY <1>1, <3>6 DEF Supervisor, Look, DrainTask, DrainEnds, ReleaseStep, Publish,
         statusVars, MarkUnknown
    <3>7. CASE Caller \/ CallerBackpressure
      BY <1>1, <3>7 DEF Caller, CallerDone, CallerCleanup, CallerTimer, CleanupPending,
         CallerBackpressure, statusVars, MarkUnknown
    <3>8. QED
      BY <2>2, <3>1, <3>2, <3>3, <3>4, <3>5, <3>6, <3>7, Zenon DEF Next
  <2>3. CASE UNCHANGED vars
    BY <1>1, <2>3 DEF vars, statusVars
  <2>4. QED
    BY <1>1, <2>2, <2>3
<1>2. OwnerInv /\ [Next]_vars => [outcome = "unknown" => outcome' = "unknown"]_vars
  BY <1>1
<1>3. QED
  BY <1>2, OwnerInvariant, PTL DEF Spec, UnknownStays

-----------------------------------------------------------------------------
\* Types.

OwnerTypesInv ==
    /\ cb \in {"starting", "running", "done"}
    /\ caller \in {"starting", "select", "timing", "pending", "returned"}
    /\ told \in [outcome : Outcomes, state : States, err : BOOLEAN]
    /\ state \in States /\ outcome \in Outcomes
    /\ ctxDone \in BOOLEAN /\ unknown \in BOOLEAN /\ runErr \in BOOLEAN
    /\ cancelRequested \in BOOLEAN /\ timedOut \in BOOLEAN /\ cleanup \in BOOLEAN
    /\ committed \in BOOLEAN /\ syncRequired \in BOOLEAN /\ synced \in BOOLEAN
    /\ changed \in BOOLEAN /\ released \in BOOLEAN /\ bpSignal \in BOOLEAN
    /\ sup \in {"none", "wait", "drain", "lease", "generation", "slot", "publish", "gone"}
    /\ failures \subseteq {"drain", "lease", "generation", "slot"}

ExpiredLeases == {l \in Leases : lease[l] = "expired"}

\* The counter of expired sends counts them.
LeaseInv ==
    /\ lease \in [Leases -> {"idle", "active", "expired", "ended"}]
    /\ expired = Cardinality(ExpiredLeases)

\* What a step of a worker, a task or a blocked send leaves alone.
OwnerFrame == UNCHANGED <<cb, callerVars, ctxDone, statusVars, flagVars, syncVars, supVars>>

\* Every step keeps the types of the owner.
LEMMA TypesStep == OwnerTypesInv /\ [Next]_vars => OwnerTypesInv'
<1> SUFFICES ASSUME OwnerTypesInv, [Next]_vars PROVE OwnerTypesInv'
  OBVIOUS
<1> USE DEF OwnerTypesInv
<1>1. ASSUME OwnerFrame, changed' \in BOOLEAN, bpSignal' \in BOOLEAN PROVE OwnerTypesInv'
  BY <1>1 DEF OwnerFrame, callerVars, statusVars, flagVars, syncVars, supVars
<1>2. ASSUME NEW w \in Workers,
             \/ RegisterWorker(w) \/ WorkerDone(w) \/ WorkerLeaves(w) \/ ResourceEnds(w)
             \/ \E c \in {"open", "nil"} : RegisterPendingResource(w, c)
      PROVE  OwnerTypesInv'
  <2>1. OwnerFrame /\ UNCHANGED leaseVars
    BY <1>2 DEF OwnerFrame, RegisterWorker, WorkerDone, WorkerLeaves, ResourceEnds,
                RegisterPendingResource
  <2>2. changed' = changed \/ changed' = TRUE
    BY <1>2 DEF RegisterWorker, WorkerDone, WorkerLeaves, ResourceEnds,
                RegisterPendingResource, Signal
  <2>3. QED
    BY <1>1, <2>1, <2>2 DEF leaseVars
<1>3. ASSUME NEW t \in Tasks,
             \/ RegisterCompletionTask(t) \/ AttachDone(t) \/ AttachPendingExecution(t)
             \/ ChannelCloses(t) \/ ReceiptDurable(t) \/ ResolvePreparedTask(t)
             \/ HandoffCompletionTask(t)
             \/ \E r \in {"observer", "waiter"} :
                   SeesClosed(t, r) \/ FinishCompletionTaskResource(t, r)
      PROVE  OwnerTypesInv'
  <2>1. UNCHANGED workRest
    BY <1>3 DEF RegisterCompletionTask, AttachDone, AttachPendingExecution, ChannelCloses,
                ReceiptDurable, ResolvePreparedTask, HandoffCompletionTask, SeesClosed,
                FinishCompletionTaskResource
  <2>2. changed' = changed \/ changed' = TRUE
    BY <1>3 DEF RegisterCompletionTask, AttachDone, AttachPendingExecution, ChannelCloses,
                ReceiptDurable, ResolvePreparedTask, HandoffCompletionTask, SeesClosed,
                FinishCompletionTaskResource, Signal
  <2>3. OwnerFrame /\ UNCHANGED leaseVars
    BY <2>1 DEF workRest, OwnerFrame
  <2>4. QED
    BY <1>1, <2>2, <2>3 DEF leaseVars
<1>4. ASSUME NEW l \in Leases, BeginBackpressure(l) \/ LeaseExpires(l) \/ EndBackpressure(l)
      PROVE  OwnerTypesInv'
  <2>1. OwnerFrame /\ UNCHANGED changed
    BY <1>4 DEF BeginBackpressure, LeaseExpires, EndBackpressure, OwnerFrame
  <2>2. bpSignal' = bpSignal \/ bpSignal' = TRUE
    BY <1>4 DEF BeginBackpressure, LeaseExpires, EndBackpressure
  <2>3. QED
    BY <1>1, <2>1, <2>2
<1>5. CASE Start
  <2>1. state' \in States /\ outcome' \in Outcomes /\ cb' \in {"running", "done"}
    BY <1>5 DEF Start, States, Outcomes, statusVars
  <2>2. /\ cancelRequested' \in BOOLEAN /\ synced' \in BOOLEAN /\ committed' \in BOOLEAN
        /\ runErr' \in BOOLEAN /\ changed' \in BOOLEAN
    BY <1>5, RunOwnerAssumption DEF Start, Signal, statusVars
  <2>3. unknown' \in BOOLEAN /\ syncRequired' \in BOOLEAN
    BY <1>5, RunOwnerAssumption DEF Start, statusVars
  <2>4. caller' = "select" /\ sup' = "wait"
        /\ UNCHANGED <<told, ctxDone, timedOut, released, failures, leaseVars>>
    BY <1>5 DEF Start
  <2>5. cleanup' = cleanup
    BY <1>5 DEF Start
  <2>6. QED
    BY <2>1, <2>2, <2>3, <2>4, <2>5 DEF leaseVars
<1>6. ASSUME NEW result \in Results, CallbackReturns(result) PROVE OwnerTypesInv'
  <2>1. state' \in States /\ outcome' \in Outcomes
    BY <1>6 DEF CallbackReturns, States, Outcomes, Results
  <2>2. committed' \in BOOLEAN /\ runErr' \in BOOLEAN /\ unknown' \in BOOLEAN /\ cleanup' \in BOOLEAN
    BY <1>6 DEF CallbackReturns
  <2>3. QED
    BY <1>6, <2>1, <2>2 DEF CallbackReturns, Signal, callerVars, supVars, leaseVars
<1>7. CASE TerminalSynced \/ ContextEnds
  <2>1. CASE TerminalSynced
    BY <2>1 DEF TerminalSynced, Signal, callerVars, statusVars, flagVars, supVars, leaseVars
  <2>2. CASE ContextEnds
    BY <2>2 DEF ContextEnds, callerVars, statusVars, flagVars, syncVars, supVars, leaseVars
  <2>3. QED
    BY <1>7, <2>1, <2>2
<1>8. CASE MarkCancelRequested \/ MarkOutcomeUnknown
  <2>1. CASE MarkCancelRequested
    BY <2>1 DEF MarkCancelRequested, Signal, States, callerVars, syncVars, supVars, leaseVars
  <2>2. CASE MarkOutcomeUnknown
    BY <2>2 DEF MarkOutcomeUnknown, MarkUnknown, Signal, Outcomes, callerVars, flagVars, syncVars,
                supVars, leaseVars
  <2>3. QED
    BY <1>8, <2>1, <2>2
<1>9. CASE Look
  <2>1. state' \in States
    BY <1>9 DEF Look, States
  <2>2. cleanup' \in BOOLEAN /\ sup' \in {"wait", "lease", "drain"}
    BY <1>9 DEF Look
  <2>3. QED
    <3>1. changed' = FALSE /\ UNCHANGED <<supRest, outcome, unknown, runErr, released, failures>>
      BY <1>9 DEF Look
    <3>2. UNCHANGED <<cb, caller, told, ctxDone, cancelRequested, timedOut, committed,
                      syncRequired, synced, bpSignal>>
      BY <3>1 DEF supRest, callerVars, syncVars, leaseVars
    <3>3. changed' \in BOOLEAN /\ UNCHANGED <<outcome, unknown, runErr, released, failures>>
      BY <3>1
    <3>4. QED
      BY <2>1, <2>2, <3>2, <3>3
<1>10. ASSUME NEW t \in Tasks, DrainTask(t) PROVE OwnerTypesInv'
  BY <1>10 DEF DrainTask, callerVars, statusVars, flagVars, syncVars, leaseVars
<1>11. CASE DrainEnds \/ ReleaseStep
  <2>1. sup' \in {"lease", "generation", "slot", "publish"}
    BY <1>11 DEF DrainEnds, ReleaseStep
  <2>2. failures' \subseteq {"drain", "lease", "generation", "slot"}
    BY <1>11 DEF DrainEnds, ReleaseStep
  <2>3. UNCHANGED <<supRest, statusVars, cleanup, changed, released>>
    BY <1>11 DEF DrainEnds, ReleaseStep
  <2>4. QED
    BY <2>1, <2>2, <2>3 DEF supRest, callerVars, statusVars, syncVars, leaseVars
<1>12. CASE Publish
  <2>1. state' \in States /\ outcome' \in Outcomes /\ runErr' \in BOOLEAN /\ unknown' \in BOOLEAN
    BY <1>12 DEF Publish, MarkUnknown, States, Outcomes
  <2>2. QED
    BY <1>12, <2>1 DEF Publish, callerVars, flagVars, syncVars, leaseVars
<1>13. CASE CallerDone \/ CallerCleanup \/ CallerTimer \/ CallerBackpressure
  <2>1. told' \in [outcome : Outcomes, state : States, err : BOOLEAN]
    BY <1>13 DEF CallerDone, CallerCleanup, CallerTimer, CallerBackpressure, Return
  <2>2. caller' \in {"select", "timing", "pending", "returned"}
    BY <1>13 DEF CallerDone, CallerCleanup, CallerTimer, CallerBackpressure, Return
  <2>3. bpSignal' \in BOOLEAN
    BY <1>13 DEF CallerDone, CallerCleanup, CallerTimer, CallerBackpressure
  <2>4. UNCHANGED <<callerRest, ctxDone, statusVars, flagVars, changed>>
    BY <1>13 DEF CallerDone, CallerCleanup, CallerTimer, CallerBackpressure
  <2>5. QED
    BY <2>1, <2>2, <2>3, <2>4 DEF callerRest, statusVars, flagVars, syncVars, supVars
<1>14. CASE CleanupPending
  <2>1. state' \in States /\ outcome' \in Outcomes /\ unknown' \in BOOLEAN
        /\ timedOut' \in BOOLEAN /\ changed' \in BOOLEAN /\ ctxDone' \in BOOLEAN
    BY <1>14 DEF CleanupPending, MarkUnknown, Signal, States, Outcomes, statusVars
  <2>2. told' \in [outcome : Outcomes, state : States, err : BOOLEAN]
    <3>1. PICK o \in Outcomes, s \in States, e \in BOOLEAN :
             told' = [outcome |-> o, state |-> s, err |-> e]
      BY <1>14, <2>1 DEF CleanupPending, Return, States
    <3>2. QED
      BY <3>1
  <2>3. caller' = "returned" /\ UNCHANGED <<callerRest, cancelRequested, cleanup, bpSignal>>
    BY <1>14 DEF CleanupPending, Return
  <2>4. runErr' = runErr
    BY <1>14 DEF CleanupPending, statusVars
  <2>5. QED
    BY <2>1, <2>2, <2>3, <2>4 DEF callerRest, syncVars, supVars
<1>15. CASE UNCHANGED vars
  BY <1>1, <1>15 DEF vars, OwnerFrame, leaseVars
<1>16. QED
  BY <1>2, <1>3, <1>4, <1>5, <1>6, <1>7, <1>8, <1>9, <1>10, <1>11, <1>12, <1>13, <1>14, <1>15
     DEF Next, Finishers, Supervisor, Caller

\* Every step keeps the count of expired sends.
LEMMA LeaseStep == LeaseInv /\ [Next]_vars => LeaseInv'
<1> SUFFICES ASSUME LeaseInv, [Next]_vars PROVE LeaseInv'
  OBVIOUS
<1>0. lease \in [Leases -> {"idle", "active", "expired", "ended"}]
      /\ expired = Cardinality(ExpiredLeases)
  BY DEF LeaseInv
<1>f. IsFiniteSet(ExpiredLeases) /\ Cardinality(ExpiredLeases) \in Nat
  BY RunOwnerAssumption, FS_Subset, FS_CardinalityType DEF ExpiredLeases
<1>1. CASE UNCHANGED <<lease, expired>>
  BY <1>0, <1>1 DEF LeaseInv, ExpiredLeases
<1>2. ASSUME NEW l \in Leases, BeginBackpressure(l) PROVE LeaseInv'
  <2>1. lease' \in [Leases -> {"idle", "active", "expired", "ended"}]
    BY <1>0, <1>2 DEF BeginBackpressure
  <2>2. ExpiredLeases' = ExpiredLeases
    BY <1>0, <1>2 DEF BeginBackpressure, ExpiredLeases
  <2>3. QED
    BY <1>0, <1>2, <2>1, <2>2 DEF BeginBackpressure, LeaseInv
<1>3. ASSUME NEW l \in Leases, LeaseExpires(l) PROVE LeaseInv'
  <2>1. lease' \in [Leases -> {"idle", "active", "expired", "ended"}]
    BY <1>0, <1>3 DEF LeaseExpires
  <2>2. ExpiredLeases' = ExpiredLeases \cup {l} /\ l \notin ExpiredLeases
    BY <1>0, <1>3 DEF LeaseExpires, ExpiredLeases
  <2>3. Cardinality(ExpiredLeases') = Cardinality(ExpiredLeases) + 1
    BY <1>f, <2>2, OneMore
  <2>4. QED
    BY <1>0, <1>3, <2>1, <2>3 DEF LeaseExpires, LeaseInv
<1>4. ASSUME NEW l \in Leases, EndBackpressure(l) PROVE LeaseInv'
  <2>1. lease' \in [Leases -> {"idle", "active", "expired", "ended"}]
    BY <1>0, <1>4 DEF EndBackpressure
  <2>2. ExpiredLeases' = ExpiredLeases \ {l}
    BY <1>0, <1>4 DEF EndBackpressure, ExpiredLeases
  <2>3. CASE lease[l] = "expired"
    <3>1. /\ Cardinality(ExpiredLeases') \in Nat
          /\ Cardinality(ExpiredLeases) = Cardinality(ExpiredLeases') + 1
      BY <1>f, <2>2, <2>3, OneLess DEF ExpiredLeases
    <3>2. expired' = expired - 1
      BY <1>0, <1>4, <2>3, <3>1 DEF EndBackpressure
    <3>3. QED
      BY <1>0, <2>1, <3>1, <3>2 DEF LeaseInv
  <2>4. CASE lease[l] # "expired"
    <3>1. ExpiredLeases' = ExpiredLeases /\ expired' = expired
      BY <1>4, <2>2, <2>4 DEF EndBackpressure, ExpiredLeases
    <3>2. QED
      BY <1>0, <2>1, <3>1 DEF LeaseInv
  <2>5. QED
    BY <2>3, <2>4
<1>5. ASSUME NEW w \in Workers,
             \/ RegisterWorker(w) \/ WorkerDone(w) \/ WorkerLeaves(w) \/ ResourceEnds(w)
             \/ \E c \in {"open", "nil"} : RegisterPendingResource(w, c)
      PROVE  LeaseInv'
  BY <1>1, <1>5 DEF RegisterWorker, WorkerDone, WorkerLeaves, ResourceEnds,
                    RegisterPendingResource, leaseVars
<1>6. ASSUME NEW t \in Tasks,
             \/ RegisterCompletionTask(t) \/ AttachDone(t) \/ AttachPendingExecution(t)
             \/ ChannelCloses(t) \/ ReceiptDurable(t) \/ ResolvePreparedTask(t)
             \/ HandoffCompletionTask(t) \/ DrainTask(t)
             \/ \E r \in {"observer", "waiter"} :
                   SeesClosed(t, r) \/ FinishCompletionTaskResource(t, r)
      PROVE  LeaseInv'
  <2>1. UNCHANGED leaseVars
    BY <1>6 DEF RegisterCompletionTask, AttachDone, AttachPendingExecution, ChannelCloses,
                ReceiptDurable, ResolvePreparedTask, HandoffCompletionTask, DrainTask,
                SeesClosed, FinishCompletionTaskResource, workRest
  <2>2. QED
    BY <1>1, <2>1 DEF leaseVars
<1>7. CASE \/ Start \/ TerminalSynced \/ ContextEnds \/ MarkCancelRequested \/ MarkOutcomeUnknown
           \/ \E result \in Results : CallbackReturns(result)
           \/ Look \/ DrainEnds \/ ReleaseStep \/ Publish
  <2>1. UNCHANGED leaseVars
    BY <1>7 DEF Start, TerminalSynced, ContextEnds, MarkCancelRequested, MarkOutcomeUnknown,
                CallbackReturns, Look, DrainEnds, ReleaseStep, Publish, supRest
  <2>2. QED
    BY <1>1, <2>1 DEF leaseVars
<1>8. CASE Caller \/ CallerBackpressure
  <2>1. UNCHANGED callerRest
    BY <1>8 DEF Caller, CallerDone, CallerCleanup, CallerTimer, CleanupPending, CallerBackpressure
  <2>2. QED
    BY <1>1, <2>1 DEF callerRest
<1>9. CASE UNCHANGED vars
  BY <1>1, <1>9 DEF vars, leaseVars
<1>10. QED
  BY <1>2, <1>3, <1>4, <1>5, <1>6, <1>7, <1>8, <1>9 DEF Next, Finishers, Supervisor

\* A counter of two kinds of work is bounded by how much there is.
LEMMA CountersBounded ==
    ASSUME Counters
    PROVE  /\ workers \in 0 .. Cardinality(Workers) + Cardinality(Tasks)
           /\ resources \in 0 .. Cardinality(Workers) + Cardinality(Tasks)
<1>1. Live \subseteq Workers /\ Holding \subseteq Workers /\ Handing \subseteq Tasks /\ Opened \subseteq Tasks
  BY DEF Live, Holding, Handing, Opened
<1>2. /\ Cardinality(Live) <= Cardinality(Workers) /\ Cardinality(Holding) <= Cardinality(Workers)
      /\ Cardinality(Handing) <= Cardinality(Tasks) /\ Cardinality(Opened) <= Cardinality(Tasks)
  BY <1>1, RunOwnerAssumption, FS_Subset
<1>3. /\ Cardinality(Live) \in Nat /\ Cardinality(Holding) \in Nat /\ Cardinality(Handing) \in Nat
      /\ Cardinality(Opened) \in Nat /\ Cardinality(Workers) \in Nat /\ Cardinality(Tasks) \in Nat
  BY FiniteWork, RunOwnerAssumption, FS_CardinalityType
<1>4. QED
  BY <1>2, <1>3 DEF Counters

\* Every reachable state of the owner is well typed; no counter goes below
\* zero or beyond the work there is (the decrements of WorkerDone,
\* finishPendingResource and EndBackpressure).
THEOREM OwnerTypes == Spec => []TypeOK
<1>1. Init => OwnerTypesInv /\ LeaseInv
  <2> SUFFICES ASSUME Init PROVE OwnerTypesInv /\ LeaseInv
    OBVIOUS
  <2>1. OwnerTypesInv
    BY DEF Init, OwnerTypesInv, States, Outcomes
  <2>2. ExpiredLeases = {} /\ lease \in [Leases -> {"idle", "active", "expired", "ended"}]
    BY DEF Init, ExpiredLeases
  <2>3. QED
    BY <2>1, <2>2, FS_EmptySet DEF Init, LeaseInv
<1>2. OwnerInv /\ OwnerTypesInv /\ LeaseInv => TypeOK
  <2> SUFFICES ASSUME OwnerInv, OwnerTypesInv, LeaseInv PROVE TypeOK
    OBVIOUS
  <2>1. workers \in 0 .. Cardinality(Workers) + Cardinality(Tasks)
        /\ resources \in 0 .. Cardinality(Workers) + Cardinality(Tasks)
    BY CountersBounded DEF OwnerInv
  <2>2. expired \in 0 .. Cardinality(Leases)
    <3>1. ExpiredLeases \subseteq Leases
      BY DEF ExpiredLeases
    <3>2. Cardinality(ExpiredLeases) <= Cardinality(Leases) /\ IsFiniteSet(ExpiredLeases)
      BY <3>1, RunOwnerAssumption, FS_Subset
    <3>3. Cardinality(ExpiredLeases) \in Nat /\ Cardinality(Leases) \in Nat
      BY <3>2, RunOwnerAssumption, FS_CardinalityType
    <3>4. QED
      BY <3>2, <3>3 DEF LeaseInv
  <2>3. {ctxDone, unknown, runErr, cancelRequested, timedOut, cleanup, committed,
         syncRequired, synced, changed, released, bpSignal} \subseteq BOOLEAN
    BY DEF OwnerTypesInv
  <2>4. QED
    BY <2>1, <2>2, <2>3 DEF TypeOK, OwnerInv, WorkTypes, OwnerTypesInv, LeaseInv
<1>3. QED
  BY <1>1, <1>2, TypesStep, LeaseStep, OwnerInvariant, PTL DEF Spec

-----------------------------------------------------------------------------
(* No signal is lost *)

\* Nobody sleeps on what he waits for: the supervisor has a signal when the run has
\* joined; a run whose callback has ended is in its cleanup, or the supervisor is
\* about to begin it; and a caller that may leave for a blocked send has been told,
\* or is told of the cleanup (signal, startCleanupLocked, expireBackpressure).
SignalsAreKept ==
    /\ sup = "wait" /\ Joined => changed
    /\ cb = "done" /\ ~cleanup => Joined /\ sup = "wait" /\ changed
    /\ caller = "select" /\ expired > 0 => bpSignal \/ cleanup

\* Nothing runs that could start something.
Idle == cb # "running" /\ workers = 0 /\ resources = 0

WakeInv ==
    /\ SignalsAreKept
    /\ cb = "starting" => Idle
    /\ caller = "starting" /\ expired > 0 => bpSignal \/ cleanup
    /\ timedOut => caller = "returned"
    /\ ReleaseStarted => cleanup
    /\ cb # "starting" => sup # "none"

\* An idle run keeps its counters: only what runs can start something.
LEMMA IdleStays ==
    ASSUME OwnerInv, Idle,
           \/ \E w \in Workers :
                 \/ RegisterWorker(w) \/ WorkerDone(w) \/ WorkerLeaves(w) \/ ResourceEnds(w)
                 \/ \E c \in {"open", "nil"} : RegisterPendingResource(w, c)
           \/ \E t \in Tasks :
                 \/ RegisterCompletionTask(t) \/ AttachDone(t) \/ AttachPendingExecution(t)
                 \/ ChannelCloses(t) \/ ReceiptDurable(t) \/ ResolvePreparedTask(t)
                 \/ HandoffCompletionTask(t)
                 \/ \E r \in {"observer", "waiter"} :
                       SeesClosed(t, r) \/ FinishCompletionTaskResource(t, r)
    PROVE  UNCHANGED <<workers, resources>>
<1>1. cb # "running" /\ workers = 0 /\ resources = 0
  BY DEF Idle
<1>2. Live = {} /\ Handing = {} /\ Holding = {} /\ Opened = {}
  BY <1>1, ZeroCounters DEF OwnerInv
<1>3. \A w \in Workers : worker[w] # "live" /\ held[w] \notin {"open", "nil"}
  BY <1>2 DEF Live, Holding
<1>4. \A t \in Tasks : task[t].state \notin {"handoff", "open"}
  BY <1>2 DEF Handing, Opened
<1>5. ASSUME NEW w \in Workers,
             \/ RegisterWorker(w) \/ WorkerDone(w) \/ WorkerLeaves(w) \/ ResourceEnds(w)
             \/ \E c \in {"open", "nil"} : RegisterPendingResource(w, c)
      PROVE  UNCHANGED <<workers, resources>>
  BY <1>1, <1>3, <1>5 DEF RegisterWorker, WorkerDone, WorkerLeaves, ResourceEnds,
                          RegisterPendingResource
<1>6. ASSUME NEW t \in Tasks,
             \/ RegisterCompletionTask(t) \/ AttachDone(t) \/ AttachPendingExecution(t)
             \/ ChannelCloses(t) \/ ReceiptDurable(t) \/ ResolvePreparedTask(t)
             \/ HandoffCompletionTask(t)
             \/ \E r \in {"observer", "waiter"} :
                   SeesClosed(t, r) \/ FinishCompletionTaskResource(t, r)
      PROVE  UNCHANGED <<workers, resources>>
  BY <1>1, <1>4, <1>6 DEF RegisterCompletionTask, AttachDone, AttachPendingExecution,
         ChannelCloses, ReceiptDurable, ResolvePreparedTask, HandoffCompletionTask, SeesClosed,
         FinishCompletionTaskResource
<1>7. QED
  BY <1>5, <1>6

\* A step that starts or ends work signals the supervisor.
LEMMA WorkSignals ==
    ASSUME OwnerInv, WakeInv, OwnerFrame, UNCHANGED leaseVars,
           changed' = TRUE \/ UNCHANGED <<changed, workers, resources>>,
           Idle => UNCHANGED <<workers, resources>>
    PROVE  WakeInv'
<1>1. UNCHANGED <<cb, sup, caller, cleanup, timedOut, expired, bpSignal>>
  BY DEF OwnerFrame, callerVars, flagVars, supVars, leaseVars
<1>2. ReleaseStarted' = ReleaseStarted
  BY <1>1 DEF ReleaseStarted
<1>3. (Joined => Joined') /\ (Idle => Idle')
  BY <1>1 DEF Joined, Idle
<1>4. changed' = TRUE \/ (changed' = changed /\ Joined' = Joined)
  BY <1>1 DEF Joined
<1>5. QED
  BY <1>1, <1>2, <1>3, <1>4 DEF WakeInv, SignalsAreKept

\* Every step keeps the signals.
LEMMA WakeStep == OwnerInv /\ OwnerTypesInv /\ LeaseInv /\ WakeInv /\ [Next]_vars => WakeInv'
<1> SUFFICES ASSUME OwnerInv, OwnerTypesInv, LeaseInv, WakeInv, [Next]_vars PROVE WakeInv'
  OBVIOUS
<1>0. expired \in Nat
  <2>1. IsFiniteSet(ExpiredLeases)
    BY RunOwnerAssumption, FS_Subset DEF ExpiredLeases
  <2>2. QED
    BY <2>1, FS_CardinalityType DEF LeaseInv
<1>1. ASSUME NEW w \in Workers,
             \/ RegisterWorker(w) \/ WorkerDone(w) \/ WorkerLeaves(w) \/ ResourceEnds(w)
             \/ \E c \in {"open", "nil"} : RegisterPendingResource(w, c)
      PROVE  WakeInv'
  <2>1. OwnerFrame /\ UNCHANGED leaseVars
    BY <1>1 DEF OwnerFrame, RegisterWorker, WorkerDone, WorkerLeaves, ResourceEnds,
                RegisterPendingResource
  <2>2. changed' = TRUE \/ UNCHANGED <<changed, workers, resources>>
    BY <1>1 DEF RegisterWorker, WorkerDone, WorkerLeaves, ResourceEnds,
                RegisterPendingResource, Signal
  <2>3. QED
    BY <1>1, <2>1, <2>2, IdleStays, WorkSignals
<1>2. ASSUME NEW t \in Tasks,
             \/ RegisterCompletionTask(t) \/ AttachDone(t) \/ AttachPendingExecution(t)
             \/ ChannelCloses(t) \/ ReceiptDurable(t) \/ ResolvePreparedTask(t)
             \/ HandoffCompletionTask(t)
             \/ \E r \in {"observer", "waiter"} :
                   SeesClosed(t, r) \/ FinishCompletionTaskResource(t, r)
      PROVE  WakeInv'
  <2>1. UNCHANGED workRest
    BY <1>2 DEF RegisterCompletionTask, AttachDone, AttachPendingExecution, ChannelCloses,
                ReceiptDurable, ResolvePreparedTask, HandoffCompletionTask, SeesClosed,
                FinishCompletionTaskResource
  <2>2. changed' = TRUE \/ UNCHANGED <<changed, workers, resources>>
    BY <1>2 DEF RegisterCompletionTask, AttachDone, AttachPendingExecution, ChannelCloses,
                ReceiptDurable, ResolvePreparedTask, HandoffCompletionTask, SeesClosed,
                FinishCompletionTaskResource, Signal
  <2>3. OwnerFrame /\ UNCHANGED leaseVars
    BY <2>1 DEF workRest, OwnerFrame
  <2>4. QED
    BY <1>2, <2>2, <2>3, IdleStays, WorkSignals
<1>3. ASSUME NEW l \in Leases, BeginBackpressure(l) \/ LeaseExpires(l) \/ EndBackpressure(l)
      PROVE  WakeInv'
  <2>1. OwnerFrame /\ UNCHANGED <<changed, workers, resources>>
    BY <1>3 DEF BeginBackpressure, LeaseExpires, EndBackpressure, OwnerFrame, workVars
  <2>2. UNCHANGED <<cb, sup, caller, cleanup, timedOut>>
    BY <2>1 DEF OwnerFrame, callerVars, flagVars, supVars
  <2>3. bpSignal' = TRUE \/ (bpSignal' = bpSignal /\ (expired' > 0 => expired > 0))
    BY <1>0, <1>3 DEF BeginBackpressure, LeaseExpires, EndBackpressure
  <2>4. QED
    BY <2>1, <2>2, <2>3 DEF WakeInv, SignalsAreKept, Joined, Idle, ReleaseStarted
<1>4. CASE Start
  <2>1. cb = "starting" /\ caller = "starting" /\ workers = 0 /\ resources = 0
    BY <1>4 DEF Start, OwnerInv, StartInv, WakeInv, Idle
  <2>2. /\ caller' = "select" /\ sup' = "wait"
        /\ UNCHANGED <<cleanup, timedOut, expired, bpSignal, workers, resources>>
    BY <1>4 DEF Start, workVars, leaseVars
  <2>3. (cb' = "done" /\ changed' = TRUE) \/ cb' = "running"
    BY <1>4 DEF Start, Signal
  <2>4. QED
    BY <2>1, <2>2, <2>3 DEF WakeInv, SignalsAreKept, Joined, Idle, ReleaseStarted
<1>5. ASSUME NEW result \in Results, CallbackReturns(result) PROVE WakeInv'
  <2>1. cb = "running" /\ cb' = "done" /\ changed' = TRUE
    BY <1>5 DEF CallbackReturns, Signal
  <2>2. UNCHANGED <<caller, timedOut, sup, expired, bpSignal, workers, resources>>
    BY <1>5 DEF CallbackReturns, callerVars, supVars, workVars, leaseVars
  <2>3. /\ cleanup => cleanup'
        /\ ~cleanup' => ~(workers > 0) /\ ~(resources > 0)
    BY <1>5 DEF CallbackReturns
  <2>4. workers \in Nat /\ resources \in Nat
    BY ZeroCounters DEF OwnerInv
  <2>5. ~cleanup' => Joined'
    BY <2>1, <2>2, <2>3, <2>4 DEF Joined
  <2>6. sup = "wait"
    BY <2>1, NotReleased DEF WakeInv, ReleaseStarted, OwnerTypesInv
  <2>7. QED
    BY <2>1, <2>2, <2>3, <2>5, <2>6 DEF WakeInv, SignalsAreKept, ReleaseStarted
<1>6. CASE TerminalSynced \/ ContextEnds \/ MarkOutcomeUnknown \/ UNCHANGED vars
  <2>1. UNCHANGED <<cb, caller, cleanup, timedOut, sup, workers, resources, expired, bpSignal>>
    BY <1>6 DEF TerminalSynced, ContextEnds, MarkOutcomeUnknown, vars, callerVars, flagVars,
                supVars, workVars, leaseVars
  <2>2. changed' = TRUE \/ changed' = changed
    BY <1>6 DEF TerminalSynced, ContextEnds, MarkOutcomeUnknown, Signal, vars
  <2>3. QED
    BY <2>1, <2>2 DEF WakeInv, SignalsAreKept, Joined, Idle, ReleaseStarted
<1>7. CASE MarkCancelRequested
  <2>1. /\ UNCHANGED <<cb, caller, timedOut, sup, workers, resources, expired, bpSignal>>
        /\ cleanup' = TRUE /\ changed' = TRUE
    BY <1>7 DEF MarkCancelRequested, Signal, callerVars, supVars, workVars, leaseVars
  <2>2. QED
    BY <2>1 DEF WakeInv, SignalsAreKept, Idle
<1>8. CASE Look
  <2>1. UNCHANGED <<cb, caller, timedOut, workers, resources, expired, bpSignal>>
    BY <1>8 DEF Look, supRest, callerVars, workVars, leaseVars
  <2>2. Joined' = Joined
    BY <2>1 DEF Joined
  <2>3. CASE Joined
    <3>1. cleanup' = TRUE /\ sup' \in {"lease", "drain"}
      BY <1>8, <2>3 DEF Look
    <3>2. QED
      BY <2>1, <3>1 DEF WakeInv, SignalsAreKept, Idle
  <2>4. CASE ~Joined
    <3>1. UNCHANGED <<cleanup, sup>>
      BY <1>8, <2>4 DEF Look
    <3>2. QED
      BY <2>1, <2>2, <2>4, <3>1 DEF WakeInv, SignalsAreKept, Idle, ReleaseStarted
  <2>5. QED
    BY <2>3, <2>4
<1>9. CASE (\E t \in Tasks : DrainTask(t)) \/ DrainEnds \/ ReleaseStep \/ Publish
  <2>1. /\ sup \in {"drain", "lease", "generation", "slot", "publish"}
        /\ sup' \in {"drain", "lease", "generation", "slot", "publish", "gone"}
    BY <1>9 DEF DrainTask, DrainEnds, ReleaseStep, Publish
  <2>2. UNCHANGED <<cb, caller, cleanup, timedOut, expired, bpSignal>>
    BY <1>9 DEF DrainTask, DrainEnds, ReleaseStep, Publish, supRest, callerVars, flagVars, leaseVars
  <2>3. cb # "starting"
    BY <2>1 DEF OwnerInv, ReleasedWhenJoined, ReleaseStarted
  <2>4. QED
    BY <2>1, <2>2, <2>3 DEF WakeInv, SignalsAreKept, ReleaseStarted
<1>10. CASE Caller
  <2>1. UNCHANGED <<cb, sup, cleanup, expired, bpSignal, workers, resources>>
    BY <1>10 DEF Caller, CallerDone, CallerCleanup, CallerTimer, CleanupPending, callerRest,
                 flagVars, supVars, workVars
  <2>2. changed' = changed \/ changed' = TRUE
    BY <1>10 DEF Caller, CallerDone, CallerCleanup, CallerTimer, CleanupPending, Signal
  <2>3. /\ caller \notin {"starting", "returned"} /\ caller' \in {"timing", "pending", "returned"}
        /\ timedOut' = timedOut \/ caller' = "returned"
    BY <1>10 DEF Caller, CallerDone, CallerCleanup, CallerTimer, CleanupPending, Return, flagVars
  <2>4. QED
    BY <2>1, <2>2, <2>3 DEF WakeInv, SignalsAreKept, Joined, Idle, ReleaseStarted
<1>11. CASE CallerBackpressure
  <2>1. /\ UNCHANGED <<cb, sup, cleanup, timedOut, changed, expired, workers, resources>>
        /\ caller = "select"
        /\ caller' = IF expired > 0 /\ ~ReleaseStarted /\ ~timedOut THEN "pending" ELSE "select"
    BY <1>11 DEF CallerBackpressure, callerRest, flagVars, supVars, workVars
  <2>2. ~timedOut
    BY <2>1 DEF WakeInv
  <2>3. caller' = "select" /\ expired' > 0 => cleanup'
    BY <2>1, <2>2 DEF WakeInv
  <2>4. caller' # "starting"
    BY <2>1
  <2>5. QED
    BY <2>1, <2>2, <2>3, <2>4 DEF WakeInv, SignalsAreKept, Joined, Idle, ReleaseStarted
<1>12. QED
  BY <1>1, <1>2, <1>3, <1>4, <1>5, <1>6, <1>7, <1>8, <1>9, <1>10, <1>11
     DEF Next, Finishers, Supervisor

\* RunOwner: a joined run has a signal to its supervisor, an ended callback a cleanup
\* that has begun or is about to, and a blocked send a caller that hears of it.
THEOREM NoSignalIsLost == Spec => []SignalsAreKept
<1>1. Init => OwnerTypesInv /\ LeaseInv /\ WakeInv
  <2> SUFFICES ASSUME Init PROVE OwnerTypesInv /\ LeaseInv /\ WakeInv
    OBVIOUS
  <2>1. OwnerTypesInv
    BY DEF Init, OwnerTypesInv, States, Outcomes
  <2>2. ExpiredLeases = {} /\ lease \in [Leases -> {"idle", "active", "expired", "ended"}]
    BY DEF Init, ExpiredLeases
  <2>3. WakeInv
    BY DEF Init, WakeInv, SignalsAreKept, Idle, ReleaseStarted
  <2>4. QED
    BY <2>1, <2>2, <2>3, FS_EmptySet DEF Init, LeaseInv
<1>2. WakeInv => SignalsAreKept
  BY DEF WakeInv
<1>3. QED
  BY <1>1, <1>2, TypesStep, LeaseStep, WakeStep, OwnerInvariant, PTL DEF Spec

=============================================================================
