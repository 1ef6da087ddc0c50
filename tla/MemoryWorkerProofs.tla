-------------------------- MODULE MemoryWorkerProofs --------------------------
(***************************************************************************)
(* What MemoryWorker guarantees for any number of jobs, sources and        *)
(* callers: types, revocation and the single publication of a source.      *)
(*                                                                         *)
(* Between its two tests and its write the worker holds nothing that a     *)
(* caller waits for except commitMu.  The invariant therefore says what a  *)
(* revocation leaves behind at each stage of its call: first that no       *)
(* revoked job is pending and that the running one has lost its context,   *)
(* and, once the barrier was passed, that such a job is not beyond the     *)
(* test of that context.                                                   *)
(***************************************************************************)
EXTENDS MemoryWorker, TLAPS

Between == DOMAIN After \cup {"write", "finish"}

Committing == {"store", "publish_enabled", "publish_epoch", "publish_ctx", "write"}

\* A worker that runs has a job, and only then.
WorkInv ==
    /\ active <=> wpc \in Between
    /\ active <=> cur # NoJob
    /\ cur # NoJob => cur \in admitted
    /\ pending # NoJob => pending \in admitted
    /\ submitting \notin admitted

\* A revoked job is not pending, and is cancelled if it runs.
RevokedInv ==
    \A c \in Callers :
        /\ revoked[c] \subseteq admitted
        /\ pending \notin revoked[c]
        /\ cur \in revoked[c] => jobCtxDone

\* The context of the worker has ended when Stop was called.
StopInv ==
    \A c \in Callers : call[c] # "idle" /\ kind[c] = "stop" => ctxDone

\* What was revoked before the barrier is before its last tests.
BarrierInv ==
    \A c \in Callers :
        call[c] \in {"seal", "returned"} /\ (cur \in revoked[c] \/ kind[c] = "stop")
            => wpc \notin Committing

WorkerInv == TypeOK /\ WorkInv /\ RevokedInv /\ StopInv /\ BarrierInv /\ PublishedOnce

-----------------------------------------------------------------------------
(* The stages of process *)

\* The stages that a test may precede.
LEMMA Stages ==
    /\ DOMAIN After = {"start_enabled", "start_epoch", "processed", "extract", "commit",
                       "commit_enabled", "commit_epoch", "commit_ctx", "store",
                       "publish_enabled", "publish_epoch", "publish_ctx"}
    /\ \A s \in DOMAIN After : After[s] \in Between \cap WorkerStates
    /\ WorkerStates = Between \cup {"select", "take", "done"}
    /\ {"select", "take", "done"} \cap Between = {}
  BY DEF After, Between, WorkerStates

\* Only the test of the job's context leads past it.
LEMMA StageBefore ==
    ASSUME NEW s \in DOMAIN After, After[s] \in Committing
    PROVE  s = "commit_ctx" \/ s \in Committing
  BY DEF After, Committing

LEMMA CommittingIsLocked ==
    /\ wpc \in Committing => CommitLocked
    /\ StoreLocked => wpc \in Committing
  BY DEF Committing, CommitLocked, StoreLocked

-----------------------------------------------------------------------------
(* Types and the worker's job *)

LEMMA InitInv == Init => WorkerInv
<1> SUFFICES ASSUME Init PROVE WorkerInv
  OBVIOUS
<1>1. TypeOK
  <2>1. "select" \in WorkerStates
    BY DEF WorkerStates
  <2>2. QED
    BY <2>1 DEF Init, TypeOK, CallStates, Kinds
<1>2. WorkInv
  BY Stages, WorkerAssumption DEF Init, WorkInv
<1>3. RevokedInv /\ StopInv /\ BarrierInv /\ PublishedOnce
  BY DEF Init, RevokedInv, StopInv, BarrierInv, PublishedOnce
<1>4. QED
  BY <1>1, <1>2, <1>3 DEF WorkerInv

LEMMA TypeStep == TypeOK /\ WorkInv /\ [Next]_vars => TypeOK'
<1> SUFFICES ASSUME TypeOK, WorkInv, [Next]_vars PROVE TypeOK'
  OBVIOUS
<1> USE DEF TypeOK
<1>1. ASSUME NEW j \in Jobs, SubmitTests(j) PROVE TypeOK'
  BY <1>1 DEF SubmitTests, flagVars, jobVars, callVars
<1>2. CASE SubmitStores
  <2>1. submitting \in Jobs /\ (active => cur \in admitted')
    BY <1>2 DEF SubmitStores, jobVars
  <2>2. QED
    BY <1>2, <2>1 DEF SubmitStores, flagVars, jobVars, callVars
<1>3. ASSUME NEW c \in Callers, Begin(c) PROVE TypeOK'
  BY <1>3 DEF Begin, CallTo, CallStates, Kinds, submitVars, jobVars
<1>4. ASSUME NEW c \in Callers, Caller(c) PROVE TypeOK'
  <2>1. CASE StoreEnabled(c)
    BY <2>1 DEF StoreEnabled, CallTo, CallStates, submitVars, jobVars
  <2>2. CASE BumpEpoch(c)
    BY <2>2 DEF BumpEpoch, CallTo, CallStates, submitVars, jobVars
  <2>3. CASE Revoke(c)
    BY <2>3 DEF Revoke, CallTo, CallStates, submitVars, flagVars
  <2>4. CASE Barrier(c)
    BY <2>4 DEF Barrier, CallTo, CallStates, submitVars, jobVars, flagVars
  <2>5. CASE Seal(c)
    BY <2>5 DEF Seal, CallTo, CallStates, submitVars, jobVars, flagVars
  <2>6. QED
    BY <1>4, <2>1, <2>2, <2>3, <2>4, <2>5 DEF Caller
<1>5. CASE run
  <2> "select" \in WorkerStates /\ "done" \in WorkerStates /\ "take" \in WorkerStates
      /\ "finish" \in WorkerStates /\ "start_enabled" \in WorkerStates
    BY DEF WorkerStates, After
  <2>1. CASE Exit
    BY <2>1 DEF Exit, flagVars, submitVars, jobVars, callVars
  <2>8. CASE Wake
    BY <2>8 DEF Wake, flagVars, submitVars, jobVars, callVars
  <2>2. CASE Take
    <3>1. CASE pending = NoJob \/ stopped
      <4>1. UNCHANGED <<active, cur, jobCtxDone, flagVars, stopped, wake, submitVars, markers, callVars>>
        BY <2>2, <3>1 DEF Take, jobVars
      <4>2. pending' = NoJob /\ wpc' = "select"
        BY <2>2, <3>1 DEF Take
      <4>3. QED
        BY <4>1, <4>2 DEF flagVars, submitVars, callVars
    <3>2. CASE pending # NoJob /\ ~stopped
      <4>1. UNCHANGED <<flagVars, stopped, wake, submitVars, markers, callVars>>
        BY <2>2 DEF Take
      <4>2. pending' = NoJob /\ cur' = pending /\ jobCtxDone' = FALSE /\ active' = TRUE /\ wpc' = "start_enabled"
        BY <2>2, <3>2 DEF Take
      <4>3. pending \in admitted
        BY <3>2 DEF WorkInv
      <4>4. QED
        BY <4>1, <4>2, <4>3 DEF flagVars, submitVars, callVars
    <3>3. QED
      BY <3>1, <3>2
  <2>3. CASE Pass
    BY <2>3, Stages DEF Pass, flagVars, submitVars, jobVars, callVars
  <2>4. CASE Fail
    BY <2>4 DEF Fail, flagVars, submitVars, jobVars, callVars
  <2>5. CASE Write
    <3>1. markers' \in [Sources -> Nat]
      BY <2>5 DEF Write
    <3>2. QED
      BY <2>5, <3>1 DEF Write, flagVars, submitVars, jobVars, callVars
  <2>6. CASE Finish
    BY <2>6 DEF Finish, flagVars, submitVars, callVars
  <2>7. QED
    BY <1>5, <2>1, <2>2, <2>3, <2>4, <2>5, <2>6, <2>8 DEF run
<1>6. CASE JobTimesOut
  BY <1>6 DEF JobTimesOut, flagVars, submitVars, jobVars, callVars
<1>10. CASE LifetimeEnds
  BY <1>10 DEF LifetimeEnds, flagVars, submitVars, jobVars, callVars
<1>7. ASSUME NEW s \in Sources, OtherProcess(s) PROVE TypeOK'
  BY <1>7 DEF OtherProcess, flagVars, submitVars, jobVars, callVars
<1>8. CASE UNCHANGED vars
  BY <1>8 DEF vars, flagVars, submitVars, jobVars, callVars
<1>9. QED
  BY <1>1, <1>2, <1>3, <1>4, <1>5, <1>6, <1>7, <1>8, <1>10 DEF Next

LEMMA WorkStep == TypeOK /\ WorkInv /\ [Next]_vars => WorkInv'
<1> SUFFICES ASSUME TypeOK, WorkInv, [Next]_vars PROVE WorkInv'
  OBVIOUS
<1> USE DEF WorkInv
<1>1. ASSUME NEW j \in Jobs, SubmitTests(j) PROVE WorkInv'
  BY <1>1 DEF SubmitTests, jobVars
<1>2. CASE SubmitStores
  <2>1. NoJob \notin admitted'
    BY <1>2, WorkerAssumption DEF SubmitStores, TypeOK
  <2>2. QED
    BY <1>2, <2>1 DEF SubmitStores, jobVars
<1>3. ASSUME NEW c \in Callers, Begin(c) \/ Caller(c) PROVE WorkInv'
  <2>1. UNCHANGED <<cur, active, wpc, submitting, admitted>> /\ pending' \in {pending, NoJob}
    BY <1>3 DEF Begin, Caller, StoreEnabled, BumpEpoch, Revoke, Barrier, Seal, submitVars, jobVars
  <2>2. QED
    BY <2>1
<1>4. CASE run
  <2>1. CASE Exit \/ Wake
    BY <2>1, Stages DEF Exit, Wake, submitVars, jobVars
  <2>2. CASE Take
    <3>1. "start_enabled" \in Between /\ "take" \notin Between /\ "select" \notin Between
      BY Stages DEF Between
    <3>2. QED
      BY <2>2, <3>1 DEF Take, submitVars, jobVars
  <2>3. CASE Pass
    <3>1. wpc \in Between /\ wpc' \in Between
      BY <2>3, Stages DEF Pass, Between
    <3>2. QED
      BY <2>3, <3>1 DEF Pass, submitVars, jobVars
  <2>4. CASE Fail \/ Write
    <3>1. wpc \in Between /\ wpc' \in Between
      BY <2>4, Stages DEF Fail, Write, Between
    <3>2. QED
      BY <2>4, <3>1 DEF Fail, Write, submitVars, jobVars
  <2>5. CASE Finish
    BY <2>5, Stages DEF Finish, submitVars
  <2>6. QED
    BY <1>4, <2>1, <2>2, <2>3, <2>4, <2>5 DEF run
<1>5. CASE JobTimesOut \/ LifetimeEnds \/ \E s \in Sources : OtherProcess(s)
  BY <1>5 DEF JobTimesOut, LifetimeEnds, OtherProcess, submitVars, jobVars
<1>6. CASE UNCHANGED vars
  BY <1>6 DEF vars, submitVars, jobVars
<1>7. QED
  BY <1>1, <1>2, <1>3, <1>4, <1>5, <1>6 DEF Next

-----------------------------------------------------------------------------
(* Revocation *)

LEMMA RevokedStep == WorkerInv /\ [Next]_vars => RevokedInv'
<1> SUFFICES ASSUME WorkerInv, [Next]_vars, NEW d \in Callers
             PROVE  /\ revoked'[d] \subseteq admitted'
                    /\ pending' \notin revoked'[d]
                    /\ cur' \in revoked'[d] => jobCtxDone'
  BY DEF RevokedInv
<1>0. /\ revoked[d] \subseteq admitted /\ pending \notin revoked[d]
      /\ cur \in revoked[d] => jobCtxDone
      /\ admitted \subseteq Jobs /\ NoJob \notin admitted
      /\ TypeOK /\ WorkInv
  BY WorkerAssumption DEF WorkerInv, RevokedInv, TypeOK
<1>1. CASE \E j \in Jobs : SubmitTests(j)
  BY <1>0, <1>1 DEF SubmitTests, jobVars, callVars
<1>2. CASE SubmitStores
  BY <1>0, <1>2 DEF SubmitStores, jobVars, callVars, WorkInv
<1>3. ASSUME NEW c \in Callers, Begin(c) \/ StoreEnabled(c) \/ BumpEpoch(c) \/ Barrier(c) \/ Seal(c)
      PROVE  /\ revoked'[d] \subseteq admitted'
             /\ pending' \notin revoked'[d]
             /\ cur' \in revoked'[d] => jobCtxDone'
  <2>1. UNCHANGED <<revoked, admitted, pending, cur, jobCtxDone>>
    BY <1>3 DEF Begin, StoreEnabled, BumpEpoch, Barrier, Seal, submitVars, jobVars
  <2>2. QED
    BY <1>0, <2>1
<1>4. ASSUME NEW c \in Callers, Revoke(c)
      PROVE  /\ revoked'[d] \subseteq admitted'
             /\ pending' \notin revoked'[d]
             /\ cur' \in revoked'[d] => jobCtxDone'
  <2>1. CASE kind[c] = "enable"
    BY <1>0, <1>4, <2>1 DEF Revoke, submitVars
  <2>2. CASE kind[c] # "enable"
    <3>1. pending' = NoJob /\ jobCtxDone' = (jobCtxDone \/ active) /\ UNCHANGED <<cur, admitted>>
      BY <1>4, <2>2 DEF Revoke, submitVars
    <3>2. revoked'[d] = revoked[d] \/ revoked'[d] = admitted
      BY <1>0, <1>4, <2>2 DEF Revoke, TypeOK
    <3>3. cur \in admitted => active
      BY <1>0 DEF WorkInv
    <3>4. QED
      BY <1>0, <3>1, <3>2, <3>3
  <2>3. QED
    BY <2>1, <2>2
<1>5. CASE Take
  BY <1>0, <1>5 DEF Take, submitVars, jobVars, callVars
<1>6. CASE Finish
  BY <1>0, <1>6 DEF Finish, submitVars, callVars
<1>7. CASE \/ Exit \/ Wake \/ Pass \/ Fail \/ Write \/ JobTimesOut \/ LifetimeEnds
           \/ \E s \in Sources : OtherProcess(s)
  <2>1. UNCHANGED <<revoked, admitted, pending, cur>> /\ (jobCtxDone => jobCtxDone')
    BY <1>7 DEF Exit, Wake, Pass, Fail, Write, JobTimesOut, LifetimeEnds, OtherProcess,
                submitVars, jobVars, callVars
  <2>2. QED
    BY <1>0, <2>1
<1>8. CASE UNCHANGED vars
  BY <1>0, <1>8 DEF vars, submitVars, jobVars, callVars
<1>9. QED
  BY <1>1, <1>2, <1>3, <1>4, <1>5, <1>6, <1>7, <1>8 DEF Next, Caller, run

LEMMA StopStep == WorkerInv /\ [Next]_vars => StopInv'
<1> SUFFICES ASSUME WorkerInv, [Next]_vars, NEW d \in Callers,
                    call'[d] # "idle", kind'[d] = "stop"
             PROVE  ctxDone'
  BY DEF StopInv
<1>0. (call[d] # "idle" /\ kind[d] = "stop" => ctxDone) /\ TypeOK
  BY DEF WorkerInv, StopInv
<1>1. ASSUME NEW c \in Callers, Begin(c) PROVE ctxDone'
  <2>1. CASE c = d
    BY <1>0, <1>1, <2>1 DEF Begin, TypeOK
  <2>2. CASE c # d
    BY <1>0, <1>1, <2>2 DEF Begin, CallTo, TypeOK
  <2>3. QED
    BY <2>1, <2>2
<1>2. ASSUME NEW c \in Callers, Caller(c) PROVE ctxDone'
  <2>1. call[c] # "idle" /\ UNCHANGED <<kind, ctxDone>> /\ \E s : CallTo(c, s)
    BY <1>2 DEF Caller, StoreEnabled, BumpEpoch, Revoke, Barrier, Seal, flagVars
  <2>2. call[d] # "idle"
    BY <1>0, <2>1 DEF CallTo, TypeOK
  <2>3. QED
    BY <1>0, <2>1, <2>2
<1>3. CASE \/ \E j \in Jobs : SubmitTests(j)
           \/ SubmitStores \/ run \/ JobTimesOut \/ LifetimeEnds
           \/ \E s \in Sources : OtherProcess(s)
  <2>1. UNCHANGED <<call, kind>> /\ (ctxDone => ctxDone')
    BY <1>3 DEF SubmitTests, SubmitStores, run, Exit, Wake, Take, Pass, Fail, Write, Finish,
                JobTimesOut, LifetimeEnds, OtherProcess, flagVars, callVars
  <2>2. QED
    BY <1>0, <2>1
<1>4. CASE UNCHANGED vars
  BY <1>0, <1>4 DEF vars, flagVars, callVars
<1>5. QED
  BY <1>1, <1>2, <1>3, <1>4 DEF Next

\* A job that was revoked, and any job after a Stop, has lost its context.
LEMMA BarrierStep == WorkerInv /\ [Next]_vars => BarrierInv'
<1> SUFFICES ASSUME WorkerInv, [Next]_vars, NEW d \in Callers,
                    call'[d] \in {"seal", "returned"},
                    cur' \in revoked'[d] \/ kind'[d] = "stop"
             PROVE  wpc' \notin Committing
  BY DEF BarrierInv
<1>0. TypeOK /\ WorkInv /\ RevokedInv /\ StopInv /\ BarrierInv
  BY DEF WorkerInv
<1> DEFINE Past == /\ call[d] \in {"seal", "returned"}
                   /\ cur \in revoked[d] \/ kind[d] = "stop"
<1>1. Past => wpc \notin Committing /\ JobCancelled
  BY <1>0 DEF BarrierInv, RevokedInv, StopInv, JobCancelled
<1>2. CASE \/ \E j \in Jobs : SubmitTests(j)
           \/ SubmitStores \/ Exit \/ Wake \/ Fail \/ Write \/ JobTimesOut \/ LifetimeEnds
           \/ \E s \in Sources : OtherProcess(s)
  <2>1. UNCHANGED <<call, kind, revoked, cur>> /\ (wpc' = wpc \/ wpc' \notin Committing)
    BY <1>2 DEF SubmitTests, SubmitStores, Exit, Wake, Fail, Write, JobTimesOut, LifetimeEnds,
                OtherProcess, Committing, jobVars, callVars
  <2>2. QED
    BY <1>1, <2>1
<1>3. CASE Take \/ Finish
  BY <1>3 DEF Take, Finish, Committing
<1>4. CASE Pass
  <2>1. Past /\ wpc' = After[wpc] /\ wpc \in DOMAIN After
    BY <1>4 DEF Pass, jobVars, callVars
  <2>2. wpc # "commit_ctx"
    BY <1>1, <1>4, <2>1 DEF Pass, CtxHolds
  <2>3. QED
    BY <1>1, <2>1, <2>2, StageBefore
<1>5. ASSUME NEW c \in Callers, Begin(c) \/ StoreEnabled(c) \/ BumpEpoch(c) PROVE wpc' \notin Committing
  <2>1. CASE c = d
    BY <1>0, <1>5, <2>1 DEF Begin, StoreEnabled, BumpEpoch, CallTo, TypeOK
  <2>2. CASE c # d
    <3>1. call'[d] = call[d] /\ kind'[d] = kind[d] /\ UNCHANGED <<cur, revoked, wpc>>
      BY <1>0, <1>5, <2>2 DEF Begin, StoreEnabled, BumpEpoch, CallTo, TypeOK, jobVars
    <3>2. QED
      BY <1>1, <3>1
  <2>3. QED
    BY <2>1, <2>2
<1>6. ASSUME NEW c \in Callers, Revoke(c) PROVE wpc' \notin Committing
  <2>1. CASE c = d
    BY <1>0, <1>6, <2>1 DEF Revoke, CallTo, TypeOK
  <2>2. CASE c # d
    <3>1. call'[d] = call[d] /\ UNCHANGED <<kind, cur, wpc>>
      BY <1>0, <1>6, <2>2 DEF Revoke, CallTo, TypeOK
    <3>2. revoked'[d] = revoked[d]
      BY <1>0, <1>6, <2>2 DEF Revoke, TypeOK
    <3>3. QED
      BY <1>1, <3>1, <3>2
  <2>3. QED
    BY <2>1, <2>2
<1>7. ASSUME NEW c \in Callers, Barrier(c) PROVE wpc' \notin Committing
  <2>1. UNCHANGED wpc /\ ~CommitLocked
    BY <1>7 DEF Barrier
  <2>2. QED
    BY <2>1, CommittingIsLocked
<1>8. ASSUME NEW c \in Callers, Seal(c) PROVE wpc' \notin Committing
  <2>1. call[d] \in {"seal", "returned"} /\ UNCHANGED <<kind, revoked, cur, wpc>>
    BY <1>0, <1>8 DEF Seal, CallTo, TypeOK, jobVars
  <2>2. QED
    BY <1>1, <2>1
<1>9. CASE UNCHANGED vars
  BY <1>1, <1>9 DEF vars, jobVars, callVars
<1>10. QED
  BY <1>2, <1>3, <1>4, <1>5, <1>6, <1>7, <1>8, <1>9 DEF Next, Caller, run

\* The store's own test of the marker, under its lock.
LEMMA MarkerStep == TypeOK /\ PublishedOnce /\ [Next]_vars => PublishedOnce'
<1> SUFFICES ASSUME TypeOK, PublishedOnce, [Next]_vars, NEW s \in Sources
             PROVE  markers'[s] <= 1
  BY DEF PublishedOnce
<1>0. markers \in [Sources -> Nat] /\ markers[s] <= 1
  BY DEF TypeOK, PublishedOnce
<1>1. CASE Write
  BY <1>0, <1>1 DEF Write
<1>2. CASE \E o \in Sources : OtherProcess(o)
  BY <1>0, <1>2 DEF OtherProcess
<1>3. CASE \/ \E j \in Jobs : SubmitTests(j)
           \/ SubmitStores \/ JobTimesOut \/ LifetimeEnds
           \/ Exit \/ Wake \/ Take \/ Pass \/ Fail \/ Finish
           \/ \E c \in Callers : Begin(c) \/ Caller(c)
           \/ UNCHANGED vars
  <2>1. UNCHANGED markers
    BY <1>3 DEF SubmitTests, SubmitStores, JobTimesOut, LifetimeEnds, Exit, Wake, Take, Pass,
                Fail, Finish, Begin, Caller, StoreEnabled, BumpEpoch, Revoke, Barrier, Seal, vars
  <2>2. QED
    BY <1>0, <2>1
<1>4. QED
  BY <1>1, <1>2, <1>3 DEF Next, run

-----------------------------------------------------------------------------
(* The properties of MemoryWorker *)

\* The inductive invariant of the worker.
THEOREM WorkerInvariant == Spec => []WorkerInv
<1>1. WorkerInv /\ [Next]_vars => WorkerInv'
  BY TypeStep, WorkStep, RevokedStep, StopStep, BarrierStep, MarkerStep DEF WorkerInv
<1>2. QED
  BY <1>1, InitInv, PTL DEF Spec

\* The type invariant; a running worker has the job it took (run).
THEOREM WorkerTypes == Spec => []TypeOK
<1>1. WorkerInv => TypeOK
  BY DEF WorkerInv
<1>2. QED
  BY <1>1, WorkerInvariant, PTL

\* SetEnabled and Stop: a job that was revoked is never written after the call has
\* returned, nor is any job after Stop, however the two atomics are read.
THEOREM RevokedJobsStayOut == Spec => []RevocationHolds
<1>1. WorkerInv => RevocationHolds
  BY CommittingIsLocked DEF WorkerInv, BarrierInv, RevocationHolds, RevokedStayOut, StopSeals, Committing
<1>2. QED
  BY <1>1, WorkerInvariant, PTL

\* PublishExtraction: a source is published once, by any number of processes.
THEOREM SourcesPublishedOnce == Spec => []PublishedOnce
<1>1. WorkerInv => PublishedOnce
  BY DEF WorkerInv
<1>2. QED
  BY <1>1, WorkerInvariant, PTL

\* No admitted job is overlooked: a worker that goes to sleep on one has a token
\* in the wake channel, and it leaves for good only when its context has ended
\* (Submit's send after the store, the end of run).
PendingIsSeen ==
    /\ pending # NoJob /\ wpc = "select" => wake
    /\ wpc = "done" => ctxDone

LEMMA PendingStep == PendingIsSeen /\ [Next]_vars => PendingIsSeen'
<1> SUFFICES ASSUME PendingIsSeen, [Next]_vars PROVE PendingIsSeen'
  OBVIOUS
<1> USE DEF PendingIsSeen
<1>1. CASE SubmitStores
  BY <1>1 DEF SubmitStores, flagVars
<1>2. CASE \/ \E j \in Jobs : SubmitTests(j)
           \/ JobTimesOut \/ LifetimeEnds
           \/ \E s \in Sources : OtherProcess(s)
  BY <1>2 DEF SubmitTests, JobTimesOut, LifetimeEnds, OtherProcess, flagVars
<1>3. ASSUME NEW c \in Callers, Begin(c) \/ Caller(c) PROVE PendingIsSeen'
  <2>1. /\ UNCHANGED <<wake, wpc>> /\ pending' \in {pending, NoJob}
        /\ ctxDone => ctxDone'
    BY <1>3 DEF Begin, Caller, StoreEnabled, BumpEpoch, Revoke, Barrier, Seal, flagVars
  <2>2. QED
    BY <2>1
<1>4. CASE Exit \/ Wake \/ Take \/ Fail \/ Write \/ Finish
  BY <1>4 DEF Exit, Wake, Take, Fail, Write, Finish, flagVars
<1>5. CASE Pass
  <2>1. wpc' \in Between
    BY <1>5, Stages DEF Pass
  <2>2. QED
    BY <2>1, Stages
<1>6. CASE UNCHANGED vars
  BY <1>6 DEF vars, flagVars
<1>7. QED
  BY <1>1, <1>2, <1>3, <1>4, <1>5, <1>6 DEF Next, run

\* Submit and run: a worker that waits in its select on an admitted job has a
\* wake token, whatever revoked, cancelled or replaced jobs in between.
THEOREM JobsWakeTheWorker == Spec => []PendingIsSeen
<1>1. Init => PendingIsSeen
  BY DEF Init, PendingIsSeen
<1>2. QED
  BY <1>1, PendingStep, PTL DEF Spec
===============================================================================
