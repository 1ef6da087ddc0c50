---------------------------- MODULE AsyncExporter ----------------------------
(***************************************************************************)
(* AsyncExporter (internal/tracing/async.go): a bounded queue of trace     *)
(* spans with one worker, one close owner and any number of callers of     *)
(* ShutdownWithReport.                                                     *)
(*                                                                         *)
(* Every action is a critical section under the exporter's mutex, one      *)
(* receive of the worker or of the owner, or one call of the sink.  A span *)
(* is the number of its admission.  Time is one flag, `expired`: the drain *)
(* deadline has passed.  The wake channel has room for one token.          *)
(***************************************************************************)
EXTENDS Integers, Sequences, FiniteSets

CONSTANTS
    QueueSize, BatchSize,
    Closers,           \* callers of ShutdownWithReport
    MaxSpans           \* bound on the calls of ExportSpan

ASSUME ExporterAssumption ==
    /\ QueueSize \in Nat \ {0}
    /\ BatchSize \in Nat \ {0}
    /\ MaxSpans \in Nat

VARIABLES
    queue,             \* admitted spans, oldest first
    closing,
    expired,           \* the drain deadline has passed
    ownerFinished,     \* and closeDone is closed
    closeErr,          \* which errors the final report joins
    stats,             \* AsyncExporterStats, without Pending
    wake,              \* the token in the wake channel
    owed,              \* signals between their unlock and their send
    worker,            \* where process() is
    batchReady,
    flying,            \* the span in the sink, 0 for none (inFlight)
    owner,             \* where closeOwner() is
    closer,            \* per caller: where ShutdownWithReport is
    report,            \* per caller: the report returned
    handed             \* history: the spans given to the sink

closeVars  == <<closing, expired, ownerFinished, closeErr>>
workerVars == <<worker, batchReady, flying, handed>>
callerVars == <<closer, report>>
vars == <<queue, closeVars, stats, wake, owed, workerVars, owner, callerVars>>

Counters     == {"accepted", "delivered", "full", "sinkFailed", "rejected", "abandoned"}
WorkerStates == {"loop", "exporting", "parked", "done"}
OwnerStates  == {"none", "waiting", "draining", "shutting", "finished"}
CloserStates == {"idle", "signal", "spawn", "waiting", "pending", "answered"}
NoReport     == [err |-> "none", finished |-> FALSE, pending |-> 0]

Pending == stats["accepted"] - (stats["delivered"] + stats["sinkFailed"] + stats["abandoned"])

Counting(n, what) == [stats EXCEPT ![what] = @ + n]

Init ==
    /\ queue = <<>> /\ flying = 0 /\ handed = <<>>
    /\ closing = FALSE /\ expired = FALSE /\ ownerFinished = FALSE /\ closeErr = {}
    /\ stats = [k \in Counters |-> 0]
    /\ wake = FALSE /\ owed = 0
    /\ worker = "loop" /\ batchReady = FALSE /\ owner = "none"
    /\ closer = [c \in Closers |-> "idle"]
    /\ report = [c \in Closers |-> NoReport]

-----------------------------------------------------------------------------
(* Producers *)

Refuse(why) ==
    /\ stats' = Counting(1, why)
    /\ UNCHANGED <<queue, owed>>

Accept ==
    /\ stats' = Counting(1, "accepted")
    /\ queue' = Append(queue, stats["accepted"] + 1)
    /\ owed' = owed + 1


ExportSpan ==
    /\ stats["accepted"] + stats["full"] + stats["rejected"] < MaxSpans
    /\ \/ closing /\ Refuse("rejected")
       \/ ~closing /\ Len(queue) >= QueueSize /\ Refuse("full")
       \/ ~closing /\ Len(queue) < QueueSize /\ Accept
    /\ UNCHANGED <<closeVars, wake, workerVars, owner, callerVars>>

\* The non-blocking send of signalWorker.
SignalWorker ==
    /\ owed > 0
    /\ owed' = owed - 1
    /\ wake' = TRUE
    /\ UNCHANGED <<queue, closeVars, stats, workerVars, owner, callerVars>>

-----------------------------------------------------------------------------
(* The worker.  One pass of its loop looks at the queue under the mutex. *)

BatchIsReady == batchReady \/ Len(queue) >= BatchSize


\* Hand the oldest span to the sink.
Take ==
    /\ worker = "loop" /\ queue # <<>>
    /\ closing => ~expired
    /\ closing \/ BatchIsReady
    /\ queue' = Tail(queue)
    /\ flying' = Head(queue)
    /\ handed' = Append(handed, Head(queue))
    /\ batchReady' = BatchIsReady
    /\ worker' = "exporting"
    /\ UNCHANGED <<closeVars, stats, wake, owed, owner, callerVars>>


\* Variant: the span popped too late is not counted.
TakeTooLateSilently ==
    /\ worker = "loop" /\ queue # <<>> /\ closing /\ ~expired
    /\ expired' = TRUE
    /\ queue' = Tail(queue)
    /\ batchReady' = BatchIsReady
    /\ UNCHANGED <<closing, ownerFinished, closeErr, stats, wake, owed, worker, flying, handed, owner, callerVars>>

\* The deadline passes between its two tests in one pass: the span is off
\* the queue and is given up.
TakeTooLate ==
    /\ worker = "loop" /\ queue # <<>> /\ closing /\ ~expired
    /\ expired' = TRUE
    /\ queue' = Tail(queue)
    /\ stats' = Counting(1, "abandoned")
    /\ batchReady' = BatchIsReady
    /\ UNCHANGED <<closing, ownerFinished, closeErr, wake, owed, worker, flying, handed, owner, callerVars>>

abandonQueued ==
    /\ queue' = <<>>
    /\ stats' = Counting(Len(queue), "abandoned")


\* Variant: a closing worker gives up its queue without a drain.
ExitAtOnce ==
    /\ worker = "loop" /\ closing
    /\ abandonQueued
    /\ worker' = "done"
    /\ batchReady' = FALSE
    /\ UNCHANGED <<closeVars, wake, owed, flying, handed, owner, callerVars>>

\* Closing, and nothing is left, or what is left is given up.
Exit ==
    /\ worker = "loop" /\ closing
    /\ expired \/ queue = <<>>
    /\ abandonQueued
    /\ worker' = "done"
    /\ batchReady' = FALSE
    /\ UNCHANGED <<closeVars, wake, owed, flying, handed, owner, callerVars>>

Park ==
    /\ worker = "loop" /\ ~closing
    /\ queue # <<>> => ~BatchIsReady
    /\ worker' = "parked"
    /\ batchReady' = FALSE
    /\ UNCHANGED <<queue, closeVars, stats, wake, owed, flying, handed, owner, callerVars>>

Woken ==
    /\ worker = "parked" /\ wake
    /\ wake' = FALSE
    /\ worker' = "loop"
    /\ UNCHANGED <<queue, closeVars, stats, owed, batchReady, flying, handed, owner, callerVars>>

\* Variant: the tick wakes the worker and readies no batch.
TickOnly ==
    /\ worker = "parked"
    /\ worker' = "loop"
    /\ UNCHANGED <<queue, closeVars, stats, wake, owed, batchReady, flying, handed, owner, callerVars>>


Tick ==
    /\ worker = "parked"
    /\ batchReady' = TRUE
    /\ worker' = "loop"
    /\ UNCHANGED <<queue, closeVars, stats, wake, owed, flying, handed, owner, callerVars>>

SinkReturns ==
    /\ worker = "exporting"
    /\ \E how \in {"delivered", "sinkFailed"} : stats' = Counting(1, how)
    /\ flying' = 0
    /\ worker' = "loop"
    /\ UNCHANGED <<queue, closeVars, wake, owed, batchReady, handed, owner, callerVars>>

-----------------------------------------------------------------------------
(* Shutdown: the callers, and the one close owner *)

DeadlinePasses ==
    /\ closing /\ ~expired
    /\ expired' = TRUE
    /\ UNCHANGED <<queue, closing, ownerFinished, closeErr, stats, wake, owed, workerVars, owner, callerVars>>

GoTo(c, s) == closer' = [closer EXCEPT ![c] = s]

\* The caller that finds the exporter open starts the owner.
StartClose(c) ==
    /\ closer[c] = "idle"
    /\ closing' = TRUE
    /\ GoTo(c, IF closing THEN "signal" ELSE "spawn")
    /\ UNCHANGED <<queue, expired, ownerFinished, closeErr, stats, wake, owed, workerVars, owner, report>>

CloserSignals(c) ==
    /\ closer[c] \in {"signal", "spawn"}
    /\ wake' = TRUE
    /\ owner' = IF closer[c] = "spawn" THEN "waiting" ELSE owner
    /\ GoTo(c, "waiting")
    /\ UNCHANGED <<queue, closeVars, stats, owed, workerVars, report>>

Answer(c, err) ==
    /\ report' = [report EXCEPT ![c] = [err |-> err, finished |-> ownerFinished, pending |-> Pending]]
    /\ GoTo(c, "answered")

\* closeDone is closed under the mutex with ownerFinished.
CloserReturns(c) ==
    /\ closer[c] = "waiting" /\ ownerFinished
    /\ Answer(c, "closed")
    /\ UNCHANGED <<queue, closeVars, stats, wake, owed, workerVars, owner>>

\* The caller's context ends and the last look at closeDone finds it open.
CloserGivesUp(c) ==
    /\ closer[c] = "waiting" /\ ~ownerFinished
    /\ GoTo(c, "pending")
    /\ UNCHANGED <<queue, closeVars, stats, wake, owed, workerVars, owner, report>>

CloserReports(c) ==
    /\ closer[c] = "pending"
    /\ Answer(c, "pending")
    /\ UNCHANGED <<queue, closeVars, stats, wake, owed, workerVars, owner>>

\* Variant: past the deadline the owner does not wait for the worker.
OwnerStopsWaiting ==
    /\ \/ owner = "waiting" /\ worker = "done"
       \/ owner = "draining"
    /\ owner' = "shutting"
    /\ UNCHANGED <<queue, closeVars, stats, wake, owed, workerVars, callerVars>>


OwnerSeesWorkerDone ==
    /\ owner \in {"waiting", "draining"} /\ worker = "done"
    /\ owner' = "shutting"
    /\ UNCHANGED <<queue, closeVars, stats, wake, owed, workerVars, callerVars>>

OwnerTimesOut ==
    /\ owner = "waiting" /\ expired
    /\ abandonQueued
    /\ owner' = "draining"
    /\ owed' = owed + 1
    /\ UNCHANGED <<closeVars, wake, workerVars, callerVars>>


\* The sink's Shutdown has returned, with or without an error.
InnerShutdownReturns ==
    /\ owner = "shutting"
    /\ \E inner \in SUBSET {"inner"} :
          closeErr' = inner \cup (IF stats["sinkFailed"] > 0 THEN {"sink"} ELSE {})
    /\ ownerFinished' = TRUE
    /\ owner' = "finished"
    /\ UNCHANGED <<queue, closing, expired, stats, wake, owed, workerVars, callerVars>>

-----------------------------------------------------------------------------

process    == Take \/ TakeTooLate \/ Exit \/ Park \/ Woken \/ Tick \/ SinkReturns
closeOwner == OwnerSeesWorkerDone \/ OwnerTimesOut \/ InnerShutdownReturns
Closer(c)  ==
    \/ StartClose(c) \/ CloserSignals(c) \/ CloserReturns(c)
    \/ CloserGivesUp(c) \/ CloserReports(c)

Next ==
    \/ ExportSpan \/ SignalWorker \/ DeadlinePasses
    \/ process \/ closeOwner
    \/ \E c \in Closers : Closer(c)

Spec == Init /\ [][Next]_vars

\* The sink's calls return, because each has a deadline; the ticker ticks,
\* the drain deadline passes, and every goroutine gets its turn.  Nobody has
\* to call, and a caller need not give up.  Spans and callers are finite, so
\* that it is enough that one of the goroutines goes on now and then.
Progress ==
    \/ process \/ closeOwner \/ DeadlinePasses \/ SignalWorker
    \/ \E c \in Closers : CloserSignals(c) \/ CloserReturns(c) \/ CloserReports(c)

FairSpec == Spec /\ WF_vars(Progress)

-----------------------------------------------------------------------------
(* Properties *)

\* Every variable has its type, and the queue keeps its bound.
TypeOK ==
    /\ queue \in Seq(Nat) /\ Len(queue) <= QueueSize
    /\ closing \in BOOLEAN /\ expired \in BOOLEAN /\ ownerFinished \in BOOLEAN
    /\ closeErr \in SUBSET {"sink", "inner"}
    /\ stats \in [Counters -> Nat]
    /\ wake \in BOOLEAN /\ owed \in Nat
    /\ worker \in WorkerStates /\ batchReady \in BOOLEAN
    /\ flying \in Nat /\ handed \in Seq(Nat)
    /\ owner \in OwnerStates
    /\ closer \in [Closers -> CloserStates]
    /\ report \in [Closers -> [err: {"none", "closed", "pending"}, finished: BOOLEAN, pending: Int]]

\* An admitted span is delivered, failed, abandoned, queued or in the sink,
\* and is counted once, however the deadline races the worker and the owner
\* (AsyncExporterStats: "Accepted spans partition into delivered, sink
\* failures, shutdown abandonment, or pending work").
EverySpanAccounted ==
    Pending = Len(queue) + (IF worker = "exporting" THEN 1 ELSE 0)

\* The sink is shut down once nobody can call it any more: the worker has
\* exited and left nothing behind.
SinkQuietAtShutdown ==
    owner \in {"shutting", "finished"} => worker = "done" /\ queue = <<>> /\ flying = 0

\* The report of a caller that saw the close end is final: nothing pending,
\* and the error tells of a failure of the sink whenever there was one.
FinalReport ==
    /\ \A c \in Closers :
          report[c].err = "closed" => report[c].finished /\ report[c].pending = 0
    /\ ownerFinished => ("sink" \in closeErr <=> stats["sinkFailed"] > 0)

\* Shutdown is the end: of calls to the sink, and of what can still be reported.
ShutdownIsFinal == SinkQuietAtShutdown /\ FinalReport

\* The sink gets the spans in the order of their admission, each once.
HandedInOrder ==
    /\ \A i, j \in DOMAIN handed : i < j => handed[i] < handed[j]
    /\ \A i \in DOMAIN handed, j \in DOMAIN queue : handed[i] < queue[j]

\* No span is given up before the drain deadline, and none is delivered or
\* given up after the owner has finished.
GivenUpLate ==
    [][/\ stats'["abandoned"] # stats["abandoned"] => closing /\ expired'
       /\ ownerFinished =>
            \A k \in {"accepted", "delivered", "sinkFailed", "abandoned"} : stats'[k] = stats[k]]_vars

\* Every admitted span is settled in the end, a batch that never fills by the
\* ticker, with or without a shutdown; and a caller of Shutdown that keeps waiting
\* gets its answer.
EverythingSettles ==
    /\ Pending > 0 ~> Pending = 0
    /\ (\E c \in Closers : closer[c] \notin {"idle", "answered"})
         ~> (\A c \in Closers : closer[c] \in {"idle", "answered"})

=============================================================================
