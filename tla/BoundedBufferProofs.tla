------------------------- MODULE BoundedBufferProofs -------------------------
(***************************************************************************)
(* Proofs about the two bounded buffers through which a run is watched:    *)
(* the queue of spans (AsyncExporter) and the stream of events             *)
(* (EventStream), for any capacity and any number of calls.                *)
(*                                                                         *)
(* Exporter.  TypeOK is inductive alone.  PhaseInv ties the worker, the    *)
(* owner and the flags together: a worker that is done has left nothing,   *)
(* an owner that shuts the sink down has seen it done.  On it rest the     *)
(* accounting and the final report.  OrderInv says what the queue adds to  *)
(* the order.                                                              *)
(*                                                                         *)
(* Stream.  LockInv says who is behind the read lock, so that Close finds  *)
(* nobody at a select when it gets the write lock; CloseInv orders its     *)
(* flags.  BooksInv and OneFate say that an event is in the channel once,  *)
(* put there by a call that will enter it in the books: the set of events  *)
(* that are gone then grows by one with every gap that is counted.         *)
(***************************************************************************)
EXTENDS AsyncExporter, EventStream, SequenceTheorems, FiniteSetTheorems, TLAPS

(***************************************************************************)
(* The exporter                                                            *)
(***************************************************************************)

PhaseInv ==
    /\ flying # 0 => worker = "exporting"
    /\ worker = "done" => closing /\ queue = <<>>
    /\ owner # "none" => closing
    /\ owner \in {"shutting", "finished"} => worker = "done"
    /\ owner = "draining" => expired
    /\ ownerFinished <=> owner = "finished"
    /\ \A c \in Closers : closer[c] # "idle" => closing
    /\ \A c \in Closers : closer[c] = "spawn" => owner = "none"
    /\ \A c, d \in Closers : closer[c] = "spawn" /\ closer[d] = "spawn" => c = d

\* The queue is in order, behind everything handed out, and nothing in
\* either is newer than the last admission.
OrderInv ==
    /\ HandedInOrder
    /\ \A i, j \in DOMAIN queue : i < j => queue[i] < queue[j]
    /\ \A i \in DOMAIN queue : queue[i] <= stats["accepted"]
    /\ \A i \in DOMAIN handed : handed[i] <= stats["accepted"]

ExporterInv == TypeOK /\ PhaseInv /\ EverySpanAccounted /\ FinalReport /\ OrderInv

\* The worker never sleeps on a full batch or through the start of a shutdown
\* without a token on its way, and a shutdown that has begun has an owner, or a
\* caller that will start one (signalWorker after the unlock, requestClose).
WorkerWillWake ==
    /\ worker = "parked" /\ Len(queue) >= BatchSize => wake \/ owed > 0
    /\ worker = "parked" /\ closing =>
          wake \/ \E c \in Closers : closer[c] \in {"signal", "spawn"}
    /\ closing => owner # "none" \/ \E c \in Closers : closer[c] = "spawn"

-----------------------------------------------------------------------------

\* What Counting does to the counters.
LEMMA CountingKeepsType ==
    ASSUME TypeOK, NEW n \in Nat, NEW what \in Counters
    PROVE  /\ Counting(n, what) \in [Counters -> Nat]
           /\ Counting(n, what)[what] = stats[what] + n
           /\ \A k \in Counters \ {what} : Counting(n, what)[k] = stats[k]
  BY DEF TypeOK, Counting

\* Pending is a number.
LEMMA PendingType == TypeOK => Pending \in Int
  BY DEF TypeOK, Pending, Counters

\* Taking the oldest span off the queue.
LEMMA TailOfQueue ==
    ASSUME TypeOK, queue # <<>>
    PROVE  /\ Tail(queue) \in Seq(Nat) /\ Len(Tail(queue)) = Len(queue) - 1
           /\ Len(queue) \in Nat \ {0} /\ Head(queue) = queue[1] /\ Head(queue) \in Nat
           /\ \A i \in 1..(Len(queue) - 1) : Tail(queue)[i] = queue[i + 1]
  BY HeadTailProperties, EmptySeq, LenProperties DEF TypeOK

\* TypeOK is inductive.
LEMMA TypeStep == TypeOK /\ [Next]_vars => TypeOK'
<1> SUFFICES ASSUME TypeOK, [Next]_vars PROVE TypeOK'
  OBVIOUS
<1> USE ExporterAssumption DEF closeVars, workerVars, callerVars
<1>0. queue \in Seq(Nat) /\ Len(queue) \in Nat
  BY LenProperties DEF TypeOK
<1>1. CASE ExportSpan
  <2>1. ASSUME NEW why \in {"rejected", "full"}, Refuse(why) PROVE TypeOK'
    BY <1>1, <2>1, CountingKeepsType DEF ExportSpan, Refuse, TypeOK, Counters
  <2>2. CASE Len(queue) < QueueSize /\ Accept
    <3>1. stats["accepted"] + 1 \in Nat
      BY DEF TypeOK, Counters
    <3>2. queue' \in Seq(Nat) /\ Len(queue') = Len(queue) + 1
      BY <2>2, <3>1, <1>0, AppendProperties DEF Accept
    <3>3. stats' \in [Counters -> Nat]
      BY <2>2, CountingKeepsType DEF Accept, Counters
    <3>4. QED
      BY <1>0, <1>1, <2>2, <3>2, <3>3 DEF ExportSpan, Accept, TypeOK
  <2>3. QED
    BY <1>1, <2>1, <2>2 DEF ExportSpan
<1>2. CASE SignalWorker
  <2>1. owed - 1 \in Nat
    BY <1>2 DEF SignalWorker, TypeOK
  <2>2. QED
    BY <1>2, <2>1 DEF SignalWorker, TypeOK
<1>3. CASE DeadlinePasses
  BY <1>3 DEF DeadlinePasses, TypeOK
<1>4. CASE process
  <2>b. BatchIsReady \in BOOLEAN
    BY DEF BatchIsReady
  <2>1. CASE Take
    <3>1. queue' \in Seq(Nat) /\ Len(queue') <= QueueSize /\ flying' \in Nat
      BY <2>1, TailOfQueue DEF Take, TypeOK
    <3>2. handed' \in Seq(Nat)
      BY <2>1, <3>1, AppendProperties DEF Take, TypeOK
    <3>3. QED
      BY <2>1, <2>b, <3>1, <3>2 DEF Take, TypeOK, WorkerStates
  <2>2. CASE TakeTooLate
    <3>1. queue' \in Seq(Nat) /\ Len(queue') <= QueueSize
      BY <2>2, TailOfQueue DEF TakeTooLate, TypeOK
    <3>2. stats' \in [Counters -> Nat]
      BY <2>2, CountingKeepsType DEF TakeTooLate, Counters
    <3>3. QED
      BY <2>2, <2>b, <3>1, <3>2 DEF TakeTooLate, TypeOK
  <2>3. CASE Exit
    <3>1. queue' \in Seq(Nat) /\ Len(queue') <= QueueSize
      BY <2>3, EmptySeq DEF Exit, abandonQueued
    <3>2. stats' \in [Counters -> Nat]
      BY <1>0, <2>3, CountingKeepsType DEF Exit, abandonQueued, Counters
    <3>3. QED
      BY <2>3, <3>1, <3>2 DEF Exit, TypeOK, WorkerStates
  <2>4. CASE Park \/ Woken \/ Tick
    <3>1. batchReady' \in BOOLEAN /\ wake' \in BOOLEAN
      BY <2>4, Zenon DEF Park, Woken, Tick, TypeOK
    <3>2. worker' \in WorkerStates
      BY <2>4 DEF Park, Woken, Tick, WorkerStates
    <3>3. UNCHANGED <<queue, closeVars, stats, owed, flying, handed, owner, callerVars>>
      BY <2>4, Zenon DEF Park, Woken, Tick
    <3>4. QED
      BY <3>1, <3>2, <3>3 DEF TypeOK
  <2>5. CASE SinkReturns
    <3>0. PICK how \in {"delivered", "sinkFailed"} : stats' = Counting(1, how)
      BY <2>5 DEF SinkReturns
    <3>1. stats' \in [Counters -> Nat]
      BY <3>0, CountingKeepsType DEF Counters
    <3>2. QED
      BY <2>5, <3>1 DEF SinkReturns, TypeOK, WorkerStates
  <2>6. QED
    BY <1>4, <2>1, <2>2, <2>3, <2>4, <2>5 DEF process
<1>5. CASE closeOwner
  <2>1. CASE OwnerSeesWorkerDone
    BY <2>1 DEF OwnerSeesWorkerDone, TypeOK, OwnerStates
  <2>2. CASE OwnerTimesOut
    <3>1. queue' \in Seq(Nat) /\ Len(queue') <= QueueSize
      BY <2>2, EmptySeq DEF OwnerTimesOut, abandonQueued
    <3>2. stats' \in [Counters -> Nat]
      BY <1>0, <2>2, CountingKeepsType DEF OwnerTimesOut, abandonQueued, Counters
    <3>3. QED
      BY <2>2, <3>1, <3>2 DEF OwnerTimesOut, TypeOK, OwnerStates
  <2>3. CASE InnerShutdownReturns
    BY <2>3 DEF InnerShutdownReturns, TypeOK, OwnerStates
  <2>4. QED
    BY <1>5, <2>1, <2>2, <2>3 DEF closeOwner
<1>6. ASSUME NEW c \in Closers, Closer(c) PROVE TypeOK'
  <2>1. CASE StartClose(c)
    BY <2>1 DEF StartClose, GoTo, TypeOK, CloserStates
  <2>2. CASE CloserSignals(c)
    BY <2>2 DEF CloserSignals, GoTo, TypeOK, CloserStates, OwnerStates
  <2>3. CASE CloserReturns(c) \/ CloserReports(c)
    <3>1. PICK err \in {"closed", "pending"} : Answer(c, err)
      BY <2>3 DEF CloserReturns, CloserReports
    <3>2. [err |-> err, finished |-> ownerFinished, pending |-> Pending]
             \in [err: {"none", "closed", "pending"}, finished: BOOLEAN, pending: Int]
      BY PendingType DEF TypeOK
    <3>3. report' \in [Closers -> [err: {"none", "closed", "pending"}, finished: BOOLEAN, pending: Int]]
      BY <3>1, <3>2 DEF Answer, TypeOK
    <3>4. closer' \in [Closers -> CloserStates]
      BY <3>1 DEF Answer, GoTo, TypeOK, CloserStates
    <3>5. QED
      BY <2>3, <3>3, <3>4 DEF CloserReturns, CloserReports, TypeOK
  <2>4. CASE CloserGivesUp(c)
    BY <2>4 DEF CloserGivesUp, GoTo, TypeOK, CloserStates
  <2>5. QED
    BY <1>6, <2>1, <2>2, <2>3, <2>4 DEF Closer
<1>7. CASE UNCHANGED vars
  BY <1>7 DEF vars, TypeOK
<1>8. QED
  BY <1>1, <1>2, <1>3, <1>4, <1>5, <1>6, <1>7 DEF Next

\* A new exporter satisfies the invariant.
LEMMA ExporterInit == Init => ExporterInv
<1> SUFFICES ASSUME Init PROVE ExporterInv
  OBVIOUS
<1>1. Len(<<>>) = 0 /\ <<>> \in Seq(Nat) /\ DOMAIN <<>> = {}
  OBVIOUS
<1>a. stats \in [Counters -> Nat]
  BY DEF Init
<1>b. report \in [Closers -> [err: {"none", "closed", "pending"}, finished: BOOLEAN, pending: Int]]
  BY DEF Init, NoReport
<1>c. queue \in Seq(Nat) /\ handed \in Seq(Nat) /\ Len(queue) <= QueueSize
  BY <1>1, ExporterAssumption DEF Init
<1>2. TypeOK
  BY <1>a, <1>b, <1>c DEF Init, TypeOK, WorkerStates, OwnerStates, CloserStates
<1>3. EverySpanAccounted
  BY <1>1 DEF Init, EverySpanAccounted, Pending, Counters
<1>4. PhaseInv /\ FinalReport
  BY DEF Init, PhaseInv, FinalReport, NoReport
<1>5. OrderInv
  BY <1>1 DEF Init, OrderInv, HandedInOrder
<1>6. QED
  BY <1>2, <1>3, <1>4, <1>5 DEF ExporterInv

\* The phases keep together.
LEMMA PhaseStep == TypeOK /\ PhaseInv /\ [Next]_vars => PhaseInv'
<1> SUFFICES ASSUME TypeOK, PhaseInv, [Next]_vars PROVE PhaseInv'
  OBVIOUS
<1> USE DEF PhaseInv, closeVars, workerVars, callerVars
<1>1. CASE ExportSpan
  BY <1>1 DEF ExportSpan, Refuse, Accept
<1>2. CASE SignalWorker \/ DeadlinePasses
  BY <1>2 DEF SignalWorker, DeadlinePasses
<1>3. CASE process
  <2>1. CASE Take
    BY <2>1 DEF Take
  <2>2. CASE TakeTooLate
    BY <2>2 DEF TakeTooLate
  <2>3. CASE Exit
    BY <2>3 DEF Exit, abandonQueued
  <2>4. CASE Park \/ Woken \/ Tick
    BY <2>4 DEF Park, Woken, Tick
  <2>5. CASE SinkReturns
    BY <2>5 DEF SinkReturns
  <2>6. QED
    BY <1>3, <2>1, <2>2, <2>3, <2>4, <2>5 DEF process
<1>4. CASE closeOwner
  <2>1. CASE OwnerSeesWorkerDone
    BY <2>1 DEF OwnerSeesWorkerDone
  <2>2. CASE OwnerTimesOut
    BY <2>2 DEF OwnerTimesOut, abandonQueued
  <2>3. CASE InnerShutdownReturns
    BY <2>3 DEF InnerShutdownReturns
  <2>4. QED
    BY <1>4, <2>1, <2>2, <2>3 DEF closeOwner
<1>5. ASSUME NEW c \in Closers, Closer(c) PROVE PhaseInv'
  <2>1. CASE StartClose(c)
    <3>1. CASE closing
      BY <2>1, <3>1 DEF StartClose, GoTo, TypeOK
    <3>2. CASE ~closing
      <4>1. \A d \in Closers : closer[d] = "idle"
        BY <3>2
      <4>2. closer' = [closer EXCEPT ![c] = "spawn"]
        BY <2>1, <3>2 DEF StartClose, GoTo
      <4>3. \A d \in Closers : closer'[d] = "spawn" => d = c
        BY <4>1, <4>2 DEF TypeOK
      <4>4. closing' = TRUE /\ UNCHANGED <<queue, expired, ownerFinished, worker, flying, owner>>
        BY <2>1 DEF StartClose
      <4>5. QED
        BY <3>2, <4>3, <4>4
    <3>3. QED
      BY <3>1, <3>2
  <2>2. CASE CloserSignals(c)
    BY <2>2 DEF CloserSignals, GoTo, TypeOK
  <2>3. CASE CloserReturns(c) \/ CloserGivesUp(c) \/ CloserReports(c)
    <3>1. UNCHANGED <<queue, closing, expired, ownerFinished, worker, flying, owner>>
      BY <2>3, Zenon DEF CloserReturns, CloserGivesUp, CloserReports
    <3>2. PICK to \in {"pending", "answered"} : closer' = [closer EXCEPT ![c] = to]
      BY <2>3 DEF CloserReturns, CloserGivesUp, CloserReports, Answer, GoTo
    <3>3. \A d \in Closers : d # c => closer'[d] = closer[d]
      <4>1. closer \in [Closers -> CloserStates]
        BY DEF TypeOK
      <4>2. QED
        BY <3>2, <4>1
    <3>t. closer'[c] # "spawn"
      <4>1. closer \in [Closers -> CloserStates]
        BY DEF TypeOK
      <4>2. QED
        BY <3>2, <4>1
    <3>4. closing
      <4>1. closer[c] # "idle"
        BY <2>3 DEF CloserReturns, CloserGivesUp, CloserReports
      <4>2. QED
        BY <4>1, Zenon
    <3>5. \A d \in Closers : closer'[d] = "spawn" => closer[d] = "spawn"
      BY <3>3, <3>t
    <3>6. closing' /\ PhaseInv
      BY <3>1, <3>4
    <3>7. QED
      BY <3>1, <3>5, <3>6
  <2>4. QED
    BY <1>5, <2>1, <2>2, <2>3 DEF Closer
<1>6. CASE UNCHANGED vars
  BY <1>6 DEF vars
<1>7. QED
  BY <1>1, <1>2, <1>3, <1>4, <1>5, <1>6 DEF Next

\* Where a step counts one span, and what it does to Pending.
LEMMA PendingMoves ==
    ASSUME TypeOK, NEW n \in Nat, NEW what \in Counters, stats' = Counting(n, what)
    PROVE  Pending' = IF what = "accepted" THEN Pending + n
                      ELSE IF what \in {"delivered", "sinkFailed", "abandoned"} THEN Pending - n
                      ELSE Pending
<1>1. \A k \in Counters : stats[k] \in Nat
  BY DEF TypeOK
<1>2. stats'[what] = stats[what] + n /\ \A k \in Counters \ {what} : stats'[k] = stats[k]
  BY CountingKeepsType
<1>3. QED
  BY <1>1, <1>2 DEF Pending, Counters

\* No step loses a span or counts it twice.
LEMMA AccountStep ==
    TypeOK /\ PhaseInv /\ EverySpanAccounted /\ [Next]_vars => EverySpanAccounted'
<1> SUFFICES ASSUME TypeOK, PhaseInv, EverySpanAccounted, [Next]_vars
             PROVE  EverySpanAccounted'
  OBVIOUS
<1> USE DEF EverySpanAccounted
<1>0. queue \in Seq(Nat) /\ Len(queue) \in Nat /\ Len(<<>>) = 0 /\ Pending \in Int
  BY LenProperties, PendingType DEF TypeOK
<1>1. CASE ExportSpan
  <2>1. ASSUME NEW why \in {"rejected", "full"}, Refuse(why) PROVE EverySpanAccounted'
    <3>1. Pending' = Pending
      BY <2>1, PendingMoves DEF Refuse, Counters
    <3>2. QED
      BY <1>1, <2>1, <3>1 DEF ExportSpan, Refuse, workerVars
  <2>2. CASE Accept
    <3>1. Pending' = Pending + 1
      BY <2>2, PendingMoves DEF Accept, Counters
    <3>2. stats["accepted"] + 1 \in Nat
      BY DEF TypeOK, Counters
    <3>3. Len(queue') = Len(queue) + 1
      BY <2>2, <3>2, <1>0, AppendProperties DEF Accept
    <3>4. QED
      BY <1>0, <1>1, <3>1, <3>3 DEF ExportSpan, workerVars
  <2>3. QED
    BY <1>1, <2>1, <2>2 DEF ExportSpan
<1>2. CASE UNCHANGED <<queue, stats, worker>>
  BY <1>2 DEF Pending
<1>3. CASE Take
  BY <1>0, <1>3, TailOfQueue DEF Take, Pending
<1>4. CASE TakeTooLate
  <2>1. Pending' = Pending - 1
    BY <1>4, PendingMoves DEF TakeTooLate, Counters
  <2>2. QED
    BY <1>0, <1>4, <2>1, TailOfQueue DEF TakeTooLate
<1>5. CASE Exit
  <2>1. Pending' = Pending - Len(queue)
    BY <1>0, <1>5, PendingMoves DEF Exit, abandonQueued, Counters
  <2>2. QED
    BY <1>0, <1>5, <2>1 DEF Exit, abandonQueued
<1>6. CASE Park \/ Woken \/ Tick
  <2>1. UNCHANGED <<queue, stats>>
    BY <1>6, Zenon DEF Park, Woken, Tick
  <2>2. worker # "exporting" /\ worker' # "exporting"
    BY <1>6 DEF Park, Woken, Tick
  <2>3. QED
    BY <2>1, <2>2 DEF Pending
<1>7. CASE SinkReturns
  <2>1. PICK how \in {"delivered", "sinkFailed"} : stats' = Counting(1, how)
    BY <1>7 DEF SinkReturns
  <2>2. Pending' = Pending - 1
    BY <2>1, PendingMoves DEF Counters
  <2>3. QED
    BY <1>0, <1>7, <2>2 DEF SinkReturns
<1>8. CASE OwnerTimesOut
  <2>1. Pending' = Pending - Len(queue)
    BY <1>0, <1>8, PendingMoves DEF OwnerTimesOut, abandonQueued, Counters
  <2>2. QED
    BY <1>0, <1>8, <2>1 DEF OwnerTimesOut, abandonQueued, workerVars
<1>9. ASSUME SignalWorker \/ DeadlinePasses \/ OwnerSeesWorkerDone \/ InnerShutdownReturns
      PROVE  UNCHANGED <<queue, stats, worker>>
  BY <1>9 DEF SignalWorker, DeadlinePasses, OwnerSeesWorkerDone, InnerShutdownReturns, workerVars
<1>10. ASSUME NEW c \in Closers, Closer(c) PROVE UNCHANGED <<queue, stats, worker>>
  BY <1>10, Zenon DEF Closer, StartClose, CloserSignals, CloserReturns, CloserGivesUp, CloserReports, workerVars
<1>11. QED
  BY <1>1, <1>2, <1>3, <1>4, <1>5, <1>6, <1>7, <1>8, <1>9, <1>10
     DEF Next, process, closeOwner, vars, workerVars

\* Once the owner has finished nothing is pending, and no more spans fail.
LEMMA FinishedMeansSettled ==
    ASSUME TypeOK, PhaseInv, EverySpanAccounted, ownerFinished
    PROVE  Pending = 0 /\ worker = "done" /\ queue = <<>> /\ closing
<1>1. worker = "done" /\ queue = <<>> /\ closing
  BY DEF PhaseInv
<1>2. QED
  BY <1>1 DEF EverySpanAccounted

Settled == {"accepted", "delivered", "sinkFailed", "abandoned"}

\* After the owner has finished only rejections are counted; before the
\* deadline nothing is abandoned.
LEMMA CountersStep ==
    ASSUME ExporterInv, [Next]_vars
    PROVE  /\ stats'["abandoned"] # stats["abandoned"] => closing /\ expired'
           /\ ownerFinished => \A k \in Settled : stats'[k] = stats[k]
<1> DEFINE Goal == /\ stats'["abandoned"] # stats["abandoned"] => closing /\ expired'
                   /\ ownerFinished => \A k \in Settled : stats'[k] = stats[k]
<1> SUFFICES Goal
  OBVIOUS
<1> USE DEF Settled
<1>t. TypeOK /\ PhaseInv /\ EverySpanAccounted
  BY DEF ExporterInv
<1>f. ownerFinished => worker = "done" /\ queue = <<>> /\ closing /\ owner = "finished"
  BY <1>t, FinishedMeansSettled DEF PhaseInv
<1>0. Len(queue) \in Nat
  BY <1>t, LenProperties DEF TypeOK
<1>1. CASE ExportSpan
  <2>1. ASSUME NEW why \in {"rejected", "full"}, Refuse(why) PROVE Goal
    <3>1. \A k \in Counters \ {why} : stats'[k] = stats[k]
      <4>1. why \in Counters /\ stats' = Counting(1, why)
        BY <2>1 DEF Refuse, Counters
      <4>2. QED
        BY ONLY <1>t, <4>1, CountingKeepsType
    <3>2. QED
      BY <3>1 DEF Counters
  <2>2. CASE ~closing /\ Accept
    <3>1. stats'["abandoned"] = stats["abandoned"]
      BY <2>2, <1>t, CountingKeepsType DEF Accept, Counters
    <3>2. QED
      BY <2>2, <3>1, <1>f
  <2>3. QED
    BY <1>1, <2>1, <2>2 DEF ExportSpan
<1>2. CASE UNCHANGED stats
  BY <1>2
<1>3. CASE TakeTooLate
  <2>1. ~ownerFinished /\ closing /\ expired'
    BY <1>3, <1>f, Zenon DEF TakeTooLate
  <2>2. QED
    BY <2>1
<1>4. CASE Exit
  <2>1. ~ownerFinished
    BY <1>4, <1>f DEF Exit
  <2>2. CASE expired
    BY <1>4, <2>1, <2>2 DEF Exit, closeVars
  <2>3. CASE queue = <<>>
    <3>1. stats'["abandoned"] = stats["abandoned"] + 0
      BY <1>4, <1>t, <2>3, CountingKeepsType DEF Exit, abandonQueued, Counters
    <3>2. stats["abandoned"] \in Nat
      BY <1>t DEF TypeOK, Counters
    <3>3. QED
      BY <3>1, <3>2, <2>1
  <2>4. QED
    BY <1>4, <2>2, <2>3 DEF Exit
<1>5. CASE SinkReturns
  <2>1. PICK how \in {"delivered", "sinkFailed"} : stats' = Counting(1, how)
    BY <1>5 DEF SinkReturns
  <2>2. stats'["abandoned"] = stats["abandoned"]
    <3>1. how \in Counters /\ "abandoned" \in Counters \ {how}
      BY DEF Counters
    <3>2. QED
      BY ONLY <1>t, <2>1, <3>1, CountingKeepsType
  <2>3. QED
    BY <1>5, <2>2, <1>f DEF SinkReturns
<1>6. CASE OwnerTimesOut
  <2>1. owner = "waiting" /\ expired' = expired /\ expired
    BY <1>6 DEF OwnerTimesOut, closeVars
  <2>2. ~ownerFinished /\ closing
    BY <1>t, <2>1, <1>f DEF PhaseInv
  <2>3. QED
    BY <2>1, <2>2
<1>7. ASSUME SignalWorker \/ DeadlinePasses \/ OwnerSeesWorkerDone \/ InnerShutdownReturns
      PROVE  UNCHANGED stats
  BY <1>7 DEF SignalWorker, DeadlinePasses, OwnerSeesWorkerDone, InnerShutdownReturns
<1>8. ASSUME Take \/ Park \/ Woken \/ Tick PROVE UNCHANGED stats
  BY <1>8, Zenon DEF Take, Park, Woken, Tick
<1>9. ASSUME NEW c \in Closers, Closer(c) PROVE UNCHANGED stats
  BY <1>9, Zenon DEF Closer, StartClose, CloserSignals, CloserReturns, CloserGivesUp, CloserReports
<1>10. QED
  BY <1>1, <1>2, <1>3, <1>4, <1>5, <1>6, <1>7, <1>8, <1>9 DEF Next, process, closeOwner, vars

\* Reports stay as they were returned, and the close error tells of the sink.
LEMMA ReportStep == ExporterInv /\ [Next]_vars => FinalReport'
<1> SUFFICES ASSUME ExporterInv, [Next]_vars PROVE FinalReport'
  OBVIOUS
<1> USE DEF FinalReport
<1>1. TypeOK /\ PhaseInv /\ EverySpanAccounted /\ FinalReport
  BY DEF ExporterInv
<1>2. stats["sinkFailed"] \in Nat
  BY <1>1 DEF TypeOK, Counters
<1>3. CASE InnerShutdownReturns
  <2>1. ("sink" \in closeErr' <=> stats["sinkFailed"] > 0) /\ UNCHANGED <<stats, report>>
    BY <1>3 DEF InnerShutdownReturns, callerVars
  <2>2. QED
    BY <1>1, <2>1
<1>4. ASSUME UNCHANGED <<closeErr, ownerFinished>>, UNCHANGED report \/ \E c \in Closers : CloserReturns(c) \/ CloserReports(c)
      PROVE  FinalReport'
  <2>1. ownerFinished => stats'["sinkFailed"] = stats["sinkFailed"]
    BY CountersStep DEF Settled
  <2>2. ownerFinished' => ("sink" \in closeErr' <=> stats'["sinkFailed"] > 0)
    BY <1>1, <1>4, <2>1
  <2>3. ASSUME NEW c \in Closers, CloserReturns(c) \/ CloserReports(c), NEW d \in Closers, report'[d].err = "closed"
        PROVE  report'[d].finished /\ report'[d].pending = 0
    <3>1. report \in [Closers -> [err: {"none", "closed", "pending"}, finished: BOOLEAN, pending: Int]]
      BY <1>1 DEF TypeOK
    <3>2. CASE d # c
      <4>1. report'[d] = report[d]
        BY <2>3, <3>1, <3>2 DEF CloserReturns, CloserReports, Answer
      <4>2. QED
        BY <1>1, <2>3, <4>1
    <3>3. CASE d = c /\ CloserReturns(c)
      <4>1. ownerFinished /\ report'[c] = [err |-> "closed", finished |-> ownerFinished, pending |-> Pending]
        BY <3>1, <3>3 DEF CloserReturns, Answer
      <4>2. QED
        BY <1>1, <3>3, <4>1, FinishedMeansSettled
    <3>4. CASE d = c /\ CloserReports(c)
      <4>1. report'[c] = [err |-> "pending", finished |-> ownerFinished, pending |-> Pending]
        BY <3>1, <3>4 DEF CloserReports, Answer
      <4>2. QED
        BY <2>3, <3>4, <4>1
    <3>5. QED
      BY <2>3, <3>2, <3>3, <3>4
  <2>4. QED
    BY <1>1, <1>4, <2>2, <2>3
<1>5. ASSUME ExportSpan \/ SignalWorker \/ DeadlinePasses \/ process \/ OwnerSeesWorkerDone \/ OwnerTimesOut
      PROVE  UNCHANGED <<closeErr, ownerFinished, report>>
  BY <1>5, Zenon DEF ExportSpan, SignalWorker, DeadlinePasses, process, OwnerSeesWorkerDone, OwnerTimesOut,
     Take, TakeTooLate, Exit, Park, Woken, Tick, SinkReturns, closeVars, callerVars
<1>6. ASSUME NEW c \in Closers, Closer(c)
      PROVE  /\ UNCHANGED <<closeErr, ownerFinished>>
             /\ UNCHANGED report \/ CloserReturns(c) \/ CloserReports(c)
  BY <1>6, Zenon DEF Closer, StartClose, CloserSignals, CloserReturns, CloserGivesUp, CloserReports, closeVars
<1>7. QED
  BY <1>3, <1>4, <1>5, <1>6 DEF Next, closeOwner, vars, closeVars, callerVars

\* The order survives a step that leaves the queue and the history alone,
\* or empties the queue.
LEMMA OrderKept ==
    ASSUME TypeOK, OrderInv, UNCHANGED handed, stats'["accepted"] = stats["accepted"],
           UNCHANGED queue \/ queue' = <<>>
    PROVE  OrderInv'
<1>1. DOMAIN <<>> = {}
  OBVIOUS
<1>2. CASE UNCHANGED queue
  BY <1>2 DEF OrderInv, HandedInOrder
<1>3. CASE queue' = <<>>
  BY <1>1, <1>3 DEF OrderInv, HandedInOrder
<1>4. QED
  BY <1>2, <1>3

\* Admitting a span appends the newest number.
LEMMA OrderAccept == TypeOK /\ OrderInv /\ Accept /\ UNCHANGED handed => OrderInv'
<1> SUFFICES ASSUME TypeOK, OrderInv, Accept, UNCHANGED handed PROVE OrderInv'
  OBVIOUS
<1> DEFINE n == stats["accepted"] + 1
<1>1. n \in Nat /\ stats["accepted"] \in Nat /\ queue \in Seq(Nat) /\ Len(queue) \in Nat
  BY LenProperties DEF TypeOK, Counters
<1>a. queue' = Append(queue, n)
  BY DEF Accept
<1>b. /\ queue' \in Seq(Nat) /\ Len(queue') = Len(queue) + 1
      /\ \A i \in 1..Len(queue) : queue'[i] = queue[i]
      /\ queue'[Len(queue) + 1] = n
  BY <1>1, <1>a, AppendProperties
<1>2. /\ Len(queue') = Len(queue) + 1
      /\ \A i \in 1..Len(queue) : queue'[i] = queue[i]
      /\ queue'[Len(queue) + 1] = n
      /\ DOMAIN queue = 1..Len(queue) /\ DOMAIN queue' = 1..(Len(queue) + 1)
  BY <1>1, <1>b, LenProperties
<1>3. stats'["accepted"] = n
  BY CountingKeepsType DEF Accept, Counters
<1>4. \A i \in DOMAIN queue : queue[i] \in Nat
  BY <1>1, ElementOfSeq, <1>2
<1>5. \A i \in DOMAIN handed : handed[i] \in Nat
  BY ElementOfSeq, LenProperties DEF TypeOK
<1>6. \A i \in DOMAIN queue' : queue'[i] <= n
  BY <1>1, <1>2, <1>4 DEF OrderInv
<1>7. \A i, j \in DOMAIN queue' : i < j => queue'[i] < queue'[j]
  <2>1. SUFFICES ASSUME NEW i \in 1..(Len(queue) + 1), NEW j \in 1..(Len(queue) + 1), i < j
                 PROVE  queue'[i] < queue'[j]
    BY <1>2
  <2>2. i \in 1..Len(queue) /\ queue'[i] = queue[i]
    BY <1>1, <1>2, <2>1
  <2>3. CASE j = Len(queue) + 1
    BY <1>1, <1>2, <1>4, <2>2, <2>3 DEF OrderInv
  <2>4. CASE j \in 1..Len(queue)
    BY <1>2, <2>1, <2>2, <2>4 DEF OrderInv
  <2>5. QED
    BY <1>1, <2>3, <2>4
<1>8. \A i \in DOMAIN handed', j \in DOMAIN queue' : handed'[i] < queue'[j]
  BY <1>1, <1>2, <1>5 DEF OrderInv, HandedInOrder
<1>9. \A i \in DOMAIN handed' : handed'[i] <= n
  BY <1>1, <1>5 DEF OrderInv
<1>10. QED
  BY <1>3, <1>6, <1>7, <1>8, <1>9 DEF OrderInv, HandedInOrder

\* What is left of the queue without its head is in order.
LEMMA TailInOrder ==
    ASSUME TypeOK, OrderInv, queue # <<>>, queue' = Tail(queue)
    PROVE  /\ \A i, j \in DOMAIN queue' : i < j => queue'[i] < queue'[j]
           /\ \A j \in DOMAIN queue' : Head(queue) < queue'[j]
           /\ \A j \in DOMAIN queue' : j + 1 \in DOMAIN queue /\ queue'[j] = queue[j + 1]
           /\ 1 \in DOMAIN queue /\ Head(queue) = queue[1]
<1>1. /\ queue' \in Seq(Nat) /\ Len(queue') = Len(queue) - 1 /\ Len(queue) \in Nat \ {0}
      /\ Head(queue) = queue[1]
      /\ \A i \in 1..(Len(queue) - 1) : queue'[i] = queue[i + 1]
  BY TailOfQueue
<1>2. DOMAIN queue = 1..Len(queue) /\ DOMAIN queue' = 1..(Len(queue) - 1)
  BY <1>1, LenProperties DEF TypeOK
<1>3. \A j \in DOMAIN queue' : j + 1 \in DOMAIN queue /\ queue'[j] = queue[j + 1] /\ 1 < j + 1
  BY <1>1, <1>2
<1>4. 1 \in DOMAIN queue
  BY <1>1, <1>2
<1>5. \A i, j \in DOMAIN queue' : i < j => i + 1 < j + 1
  BY <1>2
<1>6. QED
  BY <1>1, <1>3, <1>4, <1>5 DEF OrderInv

\* Taking a span moves it from the front of the queue to the end of the history.
LEMMA OrderTake == TypeOK /\ OrderInv /\ Take => OrderInv'
<1> SUFFICES ASSUME TypeOK, OrderInv, Take PROVE OrderInv'
  OBVIOUS
<1> DEFINE h == Head(queue)
           n == Len(handed)
<1>1. queue # <<>> /\ queue' = Tail(queue) /\ handed' = Append(handed, h) /\ UNCHANGED stats
  BY DEF Take
<1>2. /\ \A i, j \in DOMAIN queue' : i < j => queue'[i] < queue'[j]
      /\ \A j \in DOMAIN queue' : h < queue'[j]
      /\ \A j \in DOMAIN queue' : j + 1 \in DOMAIN queue /\ queue'[j] = queue[j + 1]
      /\ 1 \in DOMAIN queue /\ h = queue[1]
  BY <1>1, TailInOrder
<1>3. h \in Nat /\ handed \in Seq(Nat) /\ n \in Nat
  BY <1>1, TailOfQueue, LenProperties DEF TypeOK
<1>a. /\ handed' \in Seq(Nat) /\ Len(handed') = n + 1
      /\ \A i \in 1..n : handed'[i] = handed[i]
      /\ handed'[n + 1] = h
  BY <1>1, <1>3, AppendProperties
<1>4. /\ \A i \in 1..n : handed'[i] = handed[i]
      /\ handed'[n + 1] = h
      /\ DOMAIN handed = 1..n /\ DOMAIN handed' = 1..(n + 1)
  BY <1>3, <1>a, LenProperties
<1>5. \A i \in DOMAIN handed' : (i \in DOMAIN handed /\ handed'[i] = handed[i]) \/ handed'[i] = h
  <2>1. \A i \in 1..(n + 1) : i \in 1..n \/ i = n + 1
    BY <1>3
  <2>2. QED
    BY ONLY <2>1, <1>4
<1>6. \A i \in DOMAIN handed : handed[i] < h
  BY <1>2 DEF OrderInv, HandedInOrder
<1>7. \A i, j \in DOMAIN handed' : i < j => i \in DOMAIN handed
  <2>1. \A i, j \in 1..(n + 1) : i < j => i \in 1..n
    BY <1>3
  <2>2. QED
    BY <1>4, <2>1
<1>8. \A i, j \in DOMAIN handed' : i < j => handed'[i] < handed'[j]
  <2>1. SUFFICES ASSUME NEW i \in DOMAIN handed', NEW j \in DOMAIN handed', i < j
                 PROVE  handed'[i] < handed'[j]
    OBVIOUS
  <2>2. i \in DOMAIN handed /\ handed'[i] = handed[i]
    BY <2>1, <1>4, <1>7
  <2>3. QED
    BY <2>1, <2>2, <1>5, <1>6 DEF OrderInv, HandedInOrder
<1>9. \A i \in DOMAIN handed', j \in DOMAIN queue' : handed'[i] < queue'[j]
  BY <1>2, <1>5 DEF OrderInv, HandedInOrder
<1>10. \A i \in DOMAIN queue' : queue'[i] <= stats'["accepted"]
  BY <1>1, <1>2 DEF OrderInv
<1>11. \A i \in DOMAIN handed' : handed'[i] <= stats'["accepted"]
  BY <1>1, <1>2, <1>5 DEF OrderInv
<1>12. QED
  BY <1>2, <1>8, <1>9, <1>10, <1>11 DEF OrderInv, HandedInOrder

\* So it does when the span is given up instead.
LEMMA OrderTakeTooLate == TypeOK /\ OrderInv /\ TakeTooLate => OrderInv'
<1> SUFFICES ASSUME TypeOK, OrderInv, TakeTooLate PROVE OrderInv'
  OBVIOUS
<1>1. queue # <<>> /\ queue' = Tail(queue) /\ UNCHANGED handed /\ stats' = Counting(1, "abandoned")
  BY DEF TakeTooLate
<1>2. stats'["accepted"] = stats["accepted"]
  BY <1>1, CountingKeepsType DEF Counters
<1>3. QED
  BY <1>1, <1>2, TailInOrder DEF OrderInv, HandedInOrder

\* No step disturbs the order.
LEMMA OrderStep == ExporterInv /\ [Next]_vars => OrderInv'
<1> SUFFICES ASSUME ExporterInv, [Next]_vars PROVE OrderInv'
  OBVIOUS
<1>0. TypeOK /\ OrderInv /\ Len(queue) \in Nat
  BY LenProperties DEF ExporterInv, TypeOK
<1>1. CASE ExportSpan
  <2>1. ASSUME NEW why \in {"rejected", "full"}, Refuse(why) PROVE OrderInv'
    <3>1. why \in Counters /\ "accepted" \in Counters \ {why} /\ stats' = Counting(1, why)
      BY <2>1 DEF Refuse, Counters
    <3>2. stats'["accepted"] = stats["accepted"]
      BY ONLY <1>0, <3>1, CountingKeepsType
    <3>3. QED
      BY <1>0, <1>1, <2>1, <3>2, OrderKept DEF ExportSpan, Refuse, workerVars
  <2>2. CASE Accept
    BY <1>0, <1>1, <2>2, OrderAccept DEF ExportSpan, workerVars
  <2>3. QED
    BY <1>1, <2>1, <2>2 DEF ExportSpan
<1>2. CASE UNCHANGED <<queue, handed, stats>>
  BY <1>0, <1>2, OrderKept
<1>3. CASE Take
  BY <1>0, <1>3, OrderTake
<1>4. CASE TakeTooLate
  BY <1>0, <1>4, OrderTakeTooLate
<1>5. CASE Exit \/ OwnerTimesOut
  <2>1. queue' = <<>> /\ stats' = Counting(Len(queue), "abandoned") /\ UNCHANGED handed
    BY <1>5 DEF Exit, OwnerTimesOut, abandonQueued, workerVars
  <2>2. stats'["accepted"] = stats["accepted"]
    BY <1>0, <2>1, CountingKeepsType DEF Counters
  <2>3. QED
    BY <1>0, <2>1, <2>2, OrderKept
<1>6. CASE SinkReturns
  <2>1. PICK how \in {"delivered", "sinkFailed"} : stats' = Counting(1, how)
    BY <1>6 DEF SinkReturns
  <2>2. how \in Counters /\ "accepted" \in Counters \ {how}
    BY DEF Counters
  <2>3. stats'["accepted"] = stats["accepted"]
    BY ONLY <1>0, <2>1, <2>2, CountingKeepsType
  <2>4. QED
    BY <1>0, <1>6, <2>3, OrderKept DEF SinkReturns
<1>7. ASSUME SignalWorker \/ DeadlinePasses \/ OwnerSeesWorkerDone \/ InnerShutdownReturns \/ Park \/ Woken \/ Tick
      PROVE  UNCHANGED <<queue, handed, stats>>
  BY <1>7, Zenon DEF SignalWorker, DeadlinePasses, OwnerSeesWorkerDone, InnerShutdownReturns, Park, Woken, Tick, workerVars
<1>8. ASSUME NEW c \in Closers, Closer(c) PROVE UNCHANGED <<queue, handed, stats>>
  BY <1>8, Zenon DEF Closer, StartClose, CloserSignals, CloserReturns, CloserGivesUp, CloserReports, workerVars
<1>9. QED
  BY <1>1, <1>2, <1>3, <1>4, <1>5, <1>6, <1>7, <1>8 DEF Next, process, closeOwner, vars, workerVars

\* Whatever the queue and batch sizes and however many callers: the
\* exporter keeps its invariant.
THEOREM ExporterInvariant == Spec => []ExporterInv
<1>1. ExporterInv /\ [Next]_vars => ExporterInv'
  BY TypeStep, PhaseStep, AccountStep, ReportStep, OrderStep DEF ExporterInv
<1>2. QED
  BY ExporterInit, <1>1, PTL DEF Spec

\* Type correctness of AsyncExporter, with the bound on its queue.
THEOREM ExporterTypes == Spec => []TypeOK
<1>1. ExporterInv => TypeOK
  BY DEF ExporterInv
<1>2. QED
  BY <1>1, ExporterInvariant, PTL

\* Every admitted span is delivered, failed, abandoned, queued or in the
\* sink, once: the partition AsyncExporterStats promises.
THEOREM EverySpanHasItsFate == Spec => []EverySpanAccounted
<1>1. ExporterInv => EverySpanAccounted
  BY DEF ExporterInv
<1>2. QED
  BY <1>1, ExporterInvariant, PTL

\* closeOwner shuts the sink down when the worker has gone and nothing is left;
\* the report of ShutdownWithReport after the close is final and hides no failure
\* of the sink.
THEOREM ShutdownsAreFinal == Spec => []ShutdownIsFinal
<1>1. ExporterInv => SinkQuietAtShutdown /\ FinalReport
  BY DEF ExporterInv, PhaseInv, SinkQuietAtShutdown
<1>2. ExporterInv => ShutdownIsFinal
  BY <1>1 DEF ShutdownIsFinal
<1>3. QED
  BY <1>2, ExporterInvariant, PTL

\* The sink gets the spans in the order of their admission, each once.
THEOREM SpansInOrder == Spec => []HandedInOrder
<1>1. ExporterInv => HandedInOrder
  BY DEF ExporterInv, OrderInv
<1>2. QED
  BY <1>1, ExporterInvariant, PTL

\* Spans are given up after the drain deadline only, and the counters of a
\* finished exporter stand still.
THEOREM NothingGivenUpEarly == Spec => GivenUpLate
<1> DEFINE Late == /\ stats'["abandoned"] # stats["abandoned"] => closing /\ expired'
                   /\ ownerFinished =>
                        \A k \in {"accepted", "delivered", "sinkFailed", "abandoned"} : stats'[k] = stats[k]
<1>1. ExporterInv /\ [Next]_vars => [Late]_vars
  BY CountersStep DEF Settled
<1>2. Spec => [][Next]_vars
  BY DEF Spec
<1>3. QED
  BY <1>1, <1>2, ExporterInvariant, PTL DEF GivenUpLate

\* The steps of the worker keep whoever will wake it.
LEMMA WakeWorkerStep == ExporterInv /\ WorkerWillWake /\ process => WorkerWillWake'
<1> SUFFICES ASSUME ExporterInv, WorkerWillWake, process PROVE WorkerWillWake'
  OBVIOUS
<1> USE DEF WorkerWillWake
<1>1. UNCHANGED <<closing, owner, closer, owed>>
  BY DEF process, Take, TakeTooLate, Exit, Park, Woken, Tick, SinkReturns, closeVars, callerVars
<1>2. CASE worker' # "parked"
  BY <1>1, <1>2
<1>3. CASE Park
  <2>1. Len(<<>>) = 0 /\ Len(queue) \in Nat
    BY LenProperties DEF ExporterInv, TypeOK
  <2>2. ~closing /\ UNCHANGED queue /\ ~(Len(queue) >= BatchSize)
    BY <1>3, <2>1, ExporterAssumption DEF Park, BatchIsReady
  <2>3. QED
    BY <1>1, <2>2
<1>4. QED
  BY <1>2, <1>3 DEF process, Take, TakeTooLate, Exit, Woken, Tick, SinkReturns

\* So do the callers of Shutdown and the owner.
LEMMA WakeCallerStep ==
    ASSUME ExporterInv, WorkerWillWake, closeOwner \/ \E c \in Closers : Closer(c)
    PROVE  WorkerWillWake'
<1> USE DEF WorkerWillWake
<1>t. TypeOK /\ PhaseInv /\ closer \in [Closers -> CloserStates]
  BY DEF ExporterInv, TypeOK
<1>1. CASE OwnerTimesOut
  <2>1. Len(queue') = 0
    BY <1>1 DEF OwnerTimesOut, abandonQueued
  <2>2. ~(Len(queue') >= BatchSize)
    BY <2>1, ExporterAssumption
  <2>3. owner' # "none" /\ UNCHANGED <<worker, closing, wake, closer>>
    BY <1>1 DEF OwnerTimesOut, closeVars, workerVars, callerVars
  <2>4. QED
    BY <2>2, <2>3
<1>2. CASE OwnerSeesWorkerDone \/ InnerShutdownReturns
  <2>1. owner' # "none" /\ UNCHANGED <<queue, worker, closing, wake, owed, closer>>
    BY <1>2 DEF OwnerSeesWorkerDone, InnerShutdownReturns, closeVars, workerVars, callerVars
  <2>2. QED
    BY <2>1
<1>3. ASSUME NEW c \in Closers, StartClose(c) PROVE WorkerWillWake'
  <2>1. closer'[c] \in {"signal", "spawn"} /\ (~closing => closer'[c] = "spawn")
    BY <1>t, <1>3 DEF StartClose, GoTo
  <2>2. \A d \in Closers : closer[d] = "spawn" => closer'[d] = "spawn"
    BY <1>t, <1>3 DEF StartClose, GoTo
  <2>3. UNCHANGED <<queue, worker, wake, owed, owner>>
    BY <1>3 DEF StartClose, workerVars
  <2>4. QED
    BY <2>1, <2>2, <2>3
<1>4. ASSUME NEW c \in Closers, CloserSignals(c) PROVE WorkerWillWake'
  <2>1. wake' /\ UNCHANGED <<worker, closing>>
    BY <1>4 DEF CloserSignals, closeVars, workerVars
  <2>2. owner # "none" => owner' # "none"
    BY <1>4 DEF CloserSignals
  <2>3. closer[c] = "spawn" => owner' # "none"
    BY <1>4 DEF CloserSignals
  <2>4. \A d \in Closers : closer[d] = "spawn" /\ d # c => closer'[d] = "spawn"
    BY <1>t, <1>4 DEF CloserSignals, GoTo
  <2>5. QED
    BY <2>1, <2>2, <2>3, <2>4
<1>5. ASSUME NEW c \in Closers, CloserReturns(c) \/ CloserGivesUp(c) \/ CloserReports(c)
      PROVE  WorkerWillWake'
  <2>1. closer[c] \in {"waiting", "pending"} /\ \E s : closer' = [closer EXCEPT ![c] = s]
    BY <1>5 DEF CloserReturns, CloserGivesUp, CloserReports, Answer, GoTo
  <2>2. \A d \in Closers : closer[d] \in {"signal", "spawn"} => closer'[d] = closer[d]
    BY <1>t, <2>1
  <2>3. UNCHANGED <<queue, worker, closing, wake, owed, owner>>
    BY <1>5, Zenon DEF CloserReturns, CloserGivesUp, CloserReports, closeVars, workerVars
  <2>4. QED
    BY <2>2, <2>3
<1>6. QED
  BY <1>1, <1>2, <1>3, <1>4, <1>5 DEF closeOwner, Closer

\* Every step keeps whoever will wake the worker.
LEMMA WakeStep == ExporterInv /\ WorkerWillWake /\ [Next]_vars => WorkerWillWake'
<1> SUFFICES ASSUME ExporterInv, WorkerWillWake, [Next]_vars PROVE WorkerWillWake'
  OBVIOUS
<1> USE DEF WorkerWillWake
<1>t. owed \in Nat
  BY DEF ExporterInv, TypeOK
<1>1. CASE ExportSpan
  <2>1. UNCHANGED <<worker, closing, wake, owner, closer>>
    BY <1>1 DEF ExportSpan, closeVars, workerVars, callerVars
  <2>2. owed' > 0 \/ UNCHANGED <<queue, owed>>
    BY <1>1, <1>t DEF ExportSpan, Accept, Refuse
  <2>3. QED
    BY <2>1, <2>2
<1>2. CASE SignalWorker
  BY <1>2 DEF SignalWorker, closeVars, workerVars, callerVars
<1>3. CASE DeadlinePasses
  BY <1>3 DEF DeadlinePasses, workerVars, callerVars
<1>4. CASE UNCHANGED vars
  BY <1>4 DEF vars, closeVars, workerVars, callerVars
<1>5. QED
  BY <1>1, <1>2, <1>3, <1>4, WakeWorkerStep, WakeCallerStep DEF Next

\* signalWorker and ShutdownWithReport: no signal to the worker is lost, so that
\* it never sleeps on work that it should do, and no shutdown is left without
\* its owner.
THEOREM WorkerIsWoken == Spec => []WorkerWillWake
<1>1. Init => WorkerWillWake
  BY DEF Init, WorkerWillWake
<1>2. QED
  BY <1>1, WakeStep, ExporterInvariant, PTL DEF Spec

-----------------------------------------------------------------------------

(***************************************************************************)
(* The event stream                                                        *)
(***************************************************************************)

Inside == {"locked", "selecting", "evicting", "retrying", "blocked", "sent"}

AtSelect == Inside \ {"locked"}

InClose == {"begun", "flagged", "waiting"}

\* Who holds the read lock, and which policy leads where.
LockInv ==
    /\ readers = {s \in Calls : at[s] \in Inside}
    /\ \A s \in Calls :
          at[s] \in {"evicting", "retrying"} => s \in Senders /\ policy = "discard_oldest"

\* One Close runs, and what it has done so far.
CloseInv ==
    /\ sealed <=> closeOnce = "used"
    /\ done => closed
    /\ sealed => done
    /\ closeOnce = "unused" => \A k \in CloseCalls : close[k] = "new"
    /\ \A k \in CloseCalls :
          /\ close[k] \in InClose => closeOnce = "running" /\ closed
          /\ close[k] \in {"flagged", "waiting"} => done
          /\ close[k] = "returned" => closeOnce = "used"
    /\ \A k, l \in CloseCalls : close[k] \in InClose /\ close[l] \in InClose => k = l

SealInv == sealed => \A s \in Calls : at[s] \notin AtSelect

InChannel == ToSet(events) \cup ToSet(received)

\* What is or was in the channel was put there by a call that is about to
\* enter it in the books, or has done so.
BooksInv ==
    /\ IsFiniteSet(bus)
    /\ sentCount = Cardinality(bus)
    /\ \A s \in bus : at[s] = "returned"
    /\ \A s \in InChannel : at[s] = "sent" \/ s \in bus

OneFate ==
    /\ \A i, j \in 1..Len(events) : events[i] = events[j] => i = j
    /\ ToSet(events) \cap ToSet(received) = {}

GapInv == IsFiniteSet(Gone) /\ GapsAreVisible

StreamInv ==
    StreamTypeOK /\ LockInv /\ CloseInv /\ SealInv /\ BooksInv /\ OneFate /\ GapInv
-----------------------------------------------------------------------------

\* The buffer behind its oldest event.
LEMMA BehindTheHead ==
    ASSUME NEW q \in Seq(Calls), q # <<>>
    PROVE  /\ Head(q) \in Calls /\ Tail(q) \in Seq(Calls)
           /\ Len(q) \in Nat \ {0} /\ Len(Tail(q)) = Len(q) - 1
           /\ Head(q) = q[1]
           /\ \A i \in 1..(Len(q) - 1) : Tail(q)[i] = q[i + 1]
           /\ ToSet(q) = {Head(q)} \cup ToSet(Tail(q))
<1>1. /\ Head(q) \in Calls /\ Tail(q) \in Seq(Calls)
      /\ Len(q) \in Nat \ {0} /\ Len(Tail(q)) = Len(q) - 1
      /\ Head(q) = q[1]
      /\ \A i \in 1..(Len(q) - 1) : Tail(q)[i] = q[i + 1]
  BY HeadTailProperties, EmptySeq, LenProperties
<1>2. DOMAIN q = 1..Len(q) /\ DOMAIN Tail(q) = 1..(Len(q) - 1)
  BY <1>1, LenProperties
<1>3. ASSUME NEW e \in ToSet(q) PROVE e = Head(q) \/ e \in ToSet(Tail(q))
  <2>1. PICK i \in 1..Len(q) : e = q[i]
    BY <1>2 DEF ToSet
  <2>2. CASE i # 1
    <3>1. i - 1 \in 1..(Len(q) - 1) /\ Tail(q)[i - 1] = q[(i - 1) + 1]
      BY <1>1, <2>2
    <3>2. i - 1 \in DOMAIN Tail(q) /\ Tail(q)[i - 1] = e
      BY <1>1, <1>2, <2>1, <3>1
    <3>3. QED
      BY <3>2 DEF ToSet
  <2>3. QED
    BY <1>1, <2>1, <2>2
<1>4. ASSUME NEW e \in ToSet(Tail(q)) PROVE e \in ToSet(q)
  <2>1. PICK i \in 1..(Len(q) - 1) : e = Tail(q)[i]
    BY <1>2 DEF ToSet
  <2>2. i + 1 \in 1..Len(q) /\ q[i + 1] = e
    BY <1>1, <2>1
  <2>3. QED
    BY <1>2, <2>2 DEF ToSet
<1>5. Head(q) \in ToSet(q)
  BY <1>1, <1>2 DEF ToSet
<1>6. QED
  BY <1>1, <1>3, <1>4, <1>5

\* An event at the end of a sequence of calls.
LEMMA OneMoreEvent ==
    ASSUME NEW q \in Seq(Calls), NEW e \in Calls
    PROVE  /\ Append(q, e) \in Seq(Calls)
           /\ Len(q) \in Nat /\ Len(Append(q, e)) = Len(q) + 1
           /\ \A i \in 1..Len(q) : Append(q, e)[i] = q[i]
           /\ Append(q, e)[Len(q) + 1] = e
           /\ ToSet(Append(q, e)) = ToSet(q) \cup {e}
<1>1. /\ Append(q, e) \in Seq(Calls)
      /\ Len(q) \in Nat /\ Len(Append(q, e)) = Len(q) + 1
      /\ \A i \in 1..Len(q) : Append(q, e)[i] = q[i]
      /\ Append(q, e)[Len(q) + 1] = e
  BY AppendProperties, LenProperties
<1>2. DOMAIN q = 1..Len(q) /\ DOMAIN Append(q, e) = 1..(Len(q) + 1)
  BY <1>1, LenProperties
<1>3. ASSUME NEW x \in ToSet(Append(q, e)) PROVE x = e \/ x \in ToSet(q)
  <2>1. PICK i \in 1..(Len(q) + 1) : x = Append(q, e)[i]
    BY <1>2 DEF ToSet
  <2>2. i \in 1..Len(q) \/ i = Len(q) + 1
    BY <1>1
  <2>3. QED
    BY <1>1, <1>2, <2>1, <2>2 DEF ToSet
<1>4. ToSet(q) \subseteq ToSet(Append(q, e))
  <2>1. \A i \in 1..Len(q) : i \in DOMAIN Append(q, e) /\ q[i] = Append(q, e)[i]
    BY <1>1, <1>2
  <2>2. QED
    BY <1>2, <2>1 DEF ToSet
<1>5. e \in ToSet(Append(q, e))
  <2>1. Len(q) + 1 \in DOMAIN Append(q, e)
    BY <1>1, <1>2
  <2>2. QED
    BY <1>1, <2>1 DEF ToSet
<1>6. QED
  BY <1>1, <1>3, <1>4, <1>5

-----------------------------------------------------------------------------

\* A call goes on, and nobody but the lock notices.
Aside(s) ==
    /\ at[s] \notin {"sent", "returned"}
    /\ \E state \in SendStates \ {"sent", "returned"} :
          /\ MoveTo(s, state)
          /\ state \in AtSelect => at[s] \in AtSelect \/ ~closed
          /\ state \in {"evicting", "retrying"} => s \in Senders /\ policy = "discard_oldest"
          /\ readers' = IF state \in Inside THEN readers \cup {s} ELSE readers
          /\ state \notin Inside => at[s] \notin Inside
    /\ terminalOnce' \in {"unused", "running", "used"}
    /\ UNCHANGED <<flagVars, channelVars, countVars, closeOnce, close, policy>>

\* What a step of a Send or a SendTerminal amounts to.
LEMMA CallSteps ==
    ASSUME StreamTypeOK, LockInv, NEW s \in Calls, UNCHANGED policy,
           Enter(s) \/ SendStep(s) \/ SendTimeout(s)
    PROVE  \/ Aside(s)
           \/ at[s] \notin {"sent", "returned"} /\ Gap(s)
           \/ at[s] \in AtSelect \ {"sent"} /\ SendCase(s)
           \/ Evict(s)
           \/ Account(s)
<1> USE DEF AtSelect, Inside, SendStates
<1>1. CASE Enter(s)
  <2>1. CASE Send(s)
    <3>1. MoveTo(s, "begun") /\ at[s] = "new"
      BY <2>1 DEF Send
    <3>2. UNCHANGED <<flagVars, channelVars, countVars, closeOnce, close, policy, readers, terminalOnce>>
      BY <1>1, <2>1 DEF Enter, Send, onceVars
    <3>3. QED
      BY <3>1, <3>2 DEF Aside, StreamTypeOK
  <2>2. CASE SendTerminal(s)
    <3>1. \E state \in {"begun", "skipped"} : MoveTo(s, state) /\ at[s] = "new"
      BY <2>2 DEF SendTerminal
    <3>2. UNCHANGED <<flagVars, channelVars, countVars, closeOnce, close, policy, readers>>
      BY <1>1, <2>2 DEF Enter, SendTerminal
    <3>3. terminalOnce' \in {"unused", "running", "used"}
      BY <2>2 DEF SendTerminal, StreamTypeOK
    <3>4. QED
      BY <3>1, <3>2, <3>3 DEF Aside
  <2>3. QED
    BY <1>1, <2>1, <2>2 DEF Enter
<1>2. CASE FirstTest(s)
  BY <1>2 DEF FirstTest, Aside, StreamTypeOK, onceVars
<1>3. CASE RLock(s)
  BY <1>3 DEF RLock, Aside, StreamTypeOK, onceVars
<1>4. CASE SecondTest(s)
  BY <1>4 DEF SecondTest, Aside, StreamTypeOK, LockInv, onceVars
<1>5. CASE Select(s)
  BY <1>5 DEF Select, Aside, StreamTypeOK, LockInv, onceVars, DoneCase, SendCase, DropCase, FullCase
<1>6. CASE Evict(s)
  BY <1>6
<1>7. CASE Retry(s)
  BY <1>7 DEF Retry, DoneCase, DropCase
<1>8. CASE Blocked(s) \/ SendTimeout(s)
  BY <1>8 DEF Blocked, SendTimeout, DoneCase
<1>9. CASE Account(s)
  BY <1>9
<1>10. QED
  BY <1>1, <1>2, <1>3, <1>4, <1>5, <1>6, <1>7, <1>8, <1>9 DEF SendStep

\* The state in which a stream starts.
LEMMA StreamStarts == StreamInit => StreamInv
<1> SUFFICES ASSUME StreamInit PROVE StreamInv
  OBVIOUS
<1> USE StreamAssumption DEF StreamInit
<1>1. ToSet(<<>>) = {}
  BY DEF ToSet
<1>2. StreamTypeOK
  <2>1. <<>> \in Seq(Calls) /\ Len(<<>>) = 0
    BY EmptySeq
  <2>2. Len(<<>>) <= Capacity /\ received \in Seq(Calls) /\ events \in Seq(Calls)
    BY <2>1
  <2>3. QED
    BY <2>1, <2>2 DEF StreamTypeOK, SendStates, CloseStates
<1>3. LockInv /\ CloseInv /\ SealInv
  BY DEF LockInv, CloseInv, SealInv, Inside, InClose
<1>4. BooksInv /\ OneFate
  BY <1>1, FS_EmptySet, EmptySeq DEF BooksInv, OneFate, InChannel
<1>5. GapInv
  <2>1. Gone = {}
    BY DEF Gone
  <2>2. QED
    BY <2>1, FS_EmptySet DEF GapInv, GapsAreVisible
<1>6. QED
  BY <1>2, <1>3, <1>4, <1>5 DEF StreamInv

\* The types are inductive, with what LockInv says of a call.
LEMMA StreamTypeStep ==
    StreamTypeOK /\ LockInv /\ [StreamNext]_streamVars => StreamTypeOK'
<1> SUFFICES ASSUME StreamTypeOK, LockInv, [StreamNext]_streamVars PROVE StreamTypeOK'
  OBVIOUS
<1> USE StreamAssumption DEF flagVars, channelVars, countVars, onceVars, MoveTo, CloseTo
<1>0. Len(events) \in Nat
  BY LenProperties DEF StreamTypeOK
<1>1. ASSUME NEW s \in Calls, Enter(s) \/ SendStep(s) \/ SendTimeout(s), UNCHANGED policy
      PROVE  StreamTypeOK'
  <2>1. CASE Aside(s)
    BY <2>1 DEF Aside, StreamTypeOK
  <2>2. CASE Gap(s)
    BY <2>2, <1>1 DEF Gap, StreamTypeOK, SendStates
  <2>3. CASE SendCase(s)
    <3>1. events' \in Seq(Calls) /\ Len(events') <= Capacity
      BY <1>0, <2>3, OneMoreEvent DEF SendCase, Room, StreamTypeOK
    <3>2. QED
      BY <1>1, <2>3, <3>1 DEF SendCase, StreamTypeOK, SendStates
  <2>4. CASE Evict(s)
    <3>1. events' \in Seq(Calls) /\ Len(events') <= Capacity
      <4>1. CASE events # <<>> /\ events' = Tail(events)
        <5>1. Tail(events) \in Seq(Calls) /\ Len(Tail(events)) = Len(events) - 1
          BY <4>1, BehindTheHead DEF StreamTypeOK
        <5>2. QED
          BY <1>0, <4>1, <5>1 DEF StreamTypeOK
      <4>2. CASE events' = events
        BY <4>2 DEF StreamTypeOK
      <4>3. QED
        BY <2>4, <4>1, <4>2 DEF Evict
    <3>2. gapCount' \in Nat
      BY <2>4 DEF Evict, StreamTypeOK
    <3>3. QED
      BY <1>1, <2>4, <3>1, <3>2 DEF Evict, StreamTypeOK, SendStates
  <2>5. CASE Account(s)
    BY <2>5, <1>1 DEF Account, StreamTypeOK, SendStates
  <2>6. QED
    BY <1>1, <2>1, <2>2, <2>3, <2>4, <2>5, CallSteps
<1>2. ASSUME NEW k \in CloseCalls, Close(k) \/ CloseStep(k), UNCHANGED policy
      PROVE  StreamTypeOK'
  BY <1>2 DEF Close, CloseStep, CloseDone, CloseWaits, CloseChannel, StreamTypeOK, CloseStates
<1>3. CASE Receive /\ UNCHANGED policy
  <2>1. /\ events' \in Seq(Calls) /\ Len(events') <= Capacity
        /\ received' \in Seq(Calls)
    BY <1>0, <1>3, BehindTheHead, OneMoreEvent DEF Receive, StreamTypeOK
  <2>2. QED
    BY <1>3, <2>1 DEF Receive, StreamTypeOK
<1>4. CASE UNCHANGED streamVars
  BY <1>4 DEF streamVars, StreamTypeOK
<1>5. QED
  BY <1>1, <1>2, <1>3, <1>4 DEF StreamNext

\* The lock is held by the calls that are inside.
LEMMA LockStep ==
    StreamTypeOK /\ LockInv /\ [StreamNext]_streamVars => LockInv'
<1> SUFFICES ASSUME StreamTypeOK, LockInv, [StreamNext]_streamVars PROVE LockInv'
  OBVIOUS
<1> USE DEF onceVars, MoveTo
<1>1. ASSUME NEW s \in Calls, Enter(s) \/ SendStep(s) \/ SendTimeout(s), UNCHANGED policy
      PROVE  LockInv'
  <2>0. ASSUME NEW state, at' = [at EXCEPT ![s] = state],
               readers' = IF state \in Inside THEN readers \cup {s} ELSE readers \ {s},
               state \in {"evicting", "retrying"} => s \in Senders /\ policy = "discard_oldest"
        PROVE  LockInv'
    BY <1>1, <2>0 DEF LockInv, StreamTypeOK
  <2>1. CASE Aside(s)
    <3>1. PICK state \in SendStates :
             /\ at' = [at EXCEPT ![s] = state]
             /\ state \in {"evicting", "retrying"} => s \in Senders /\ policy = "discard_oldest"
             /\ readers' = IF state \in Inside THEN readers \cup {s} ELSE readers
             /\ state \notin Inside => at[s] \notin Inside
      BY <2>1 DEF Aside
    <3>2. state \notin Inside => readers = readers \ {s}
      BY <3>1 DEF LockInv
    <3>3. QED
      BY <2>0, <3>1, <3>2
  <2>2. CASE Gap(s)
    BY <2>0, <2>2 DEF Gap, Inside
  <2>3. CASE at[s] \in AtSelect /\ SendCase(s)
    <3>1. readers = readers \cup {s}
      BY <2>3 DEF LockInv, AtSelect
    <3>2. QED
      BY <2>0, <2>3, <3>1 DEF SendCase, Inside
  <2>4. CASE Evict(s)
    <3>1. readers = readers \cup {s} /\ s \in Senders /\ policy = "discard_oldest"
      BY <2>4 DEF Evict, LockInv, Inside
    <3>2. QED
      BY <2>0, <2>4, <3>1 DEF Evict, Inside
  <2>5. CASE Account(s)
    BY <2>0, <2>5 DEF Account, Inside
  <2>6. QED
    BY <1>1, <2>1, <2>2, <2>3, <2>4, <2>5, CallSteps
<1>2. ASSUME UNCHANGED <<at, readers, policy>> PROVE LockInv'
  BY <1>2 DEF LockInv
<1>3. ASSUME NEW k \in CloseCalls, Close(k) \/ CloseStep(k)
      PROVE  UNCHANGED <<at, readers>>
  BY <1>3 DEF Close, CloseStep, CloseDone, CloseWaits, CloseChannel
<1>4. Receive => UNCHANGED <<at, readers>>
  BY DEF Receive
<1>5. UNCHANGED streamVars => UNCHANGED <<at, readers, policy>>
  BY DEF streamVars
<1>6. QED
  BY <1>1, <1>2, <1>3, <1>4, <1>5 DEF StreamNext

\* One Close at a time raises the flags.
LEMMA CloseInvStep ==
    StreamTypeOK /\ LockInv /\ CloseInv /\ [StreamNext]_streamVars => CloseInv'
<1> SUFFICES ASSUME StreamTypeOK, LockInv, CloseInv, [StreamNext]_streamVars PROVE CloseInv'
  OBVIOUS
<1> USE DEF flagVars, InClose
<1>1. ASSUME UNCHANGED <<closed, done, sealed, closeOnce, close>> PROVE CloseInv'
  BY <1>1 DEF CloseInv
<1>2. ASSUME NEW s \in Calls, Enter(s) \/ SendStep(s) \/ SendTimeout(s), UNCHANGED policy
      PROVE  UNCHANGED <<closed, done, sealed, closeOnce, close>>
  BY <1>2, CallSteps DEF Aside, Gap, SendCase, Evict, Account, onceVars
<1>3. ASSUME NEW k \in CloseCalls, Close(k) PROVE CloseInv'
  BY <1>3 DEF Close, CloseTo, CloseInv, StreamTypeOK
<1>4. ASSUME NEW k \in CloseCalls, CloseDone(k) \/ CloseWaits(k) PROVE CloseInv'
  BY <1>4 DEF CloseDone, CloseWaits, CloseTo, CloseInv, StreamTypeOK, onceVars
<1>5. ASSUME NEW k \in CloseCalls, CloseChannel(k) PROVE CloseInv'
  BY <1>5 DEF CloseChannel, CloseTo, CloseInv, StreamTypeOK
<1>6. Receive => UNCHANGED <<closed, done, sealed, closeOnce, close>>
  BY DEF Receive, onceVars
<1>7. UNCHANGED streamVars => UNCHANGED <<closed, done, sealed, closeOnce, close>>
  BY DEF streamVars, onceVars
<1>8. QED
  BY <1>1, <1>2, <1>3, <1>4, <1>5, <1>6, <1>7 DEF StreamNext, CloseStep

\* Nobody is at a select when the channel is closed, or comes to one later.
LEMMA SealStep ==
    /\ StreamTypeOK /\ LockInv /\ CloseInv /\ SealInv
    /\ [StreamNext]_streamVars
    => SealInv'
<1> SUFFICES ASSUME StreamTypeOK, LockInv, CloseInv, SealInv, [StreamNext]_streamVars
             PROVE  SealInv'
  OBVIOUS
<1> USE DEF flagVars, AtSelect, Inside
<1>1. ASSUME NEW s \in Calls, Enter(s) \/ SendStep(s) \/ SendTimeout(s), UNCHANGED policy
      PROVE  SealInv'
  <2>1. CASE Aside(s)
    BY <2>1 DEF Aside, MoveTo, SealInv, CloseInv, StreamTypeOK
  <2>2. CASE Gap(s) \/ Account(s)
    BY <2>2 DEF Gap, Account, MoveTo, SealInv, StreamTypeOK
  <2>3. CASE at[s] \in AtSelect /\ (SendCase(s) \/ Evict(s))
    BY <2>3 DEF SendCase, Evict, SealInv
  <2>4. Evict(s) => at[s] \in AtSelect
    BY DEF Evict
  <2>5. QED
    BY <1>1, <2>1, <2>2, <2>3, <2>4, CallSteps
<1>2. ASSUME NEW k \in CloseCalls, CloseChannel(k) PROVE SealInv'
  BY <1>2 DEF CloseChannel, LockInv, SealInv
<1>3. ASSUME UNCHANGED <<sealed, at>> PROVE SealInv'
  BY <1>3 DEF SealInv
<1>4. ASSUME NEW k \in CloseCalls, Close(k) \/ CloseDone(k) \/ CloseWaits(k)
      PROVE  UNCHANGED <<sealed, at>>
  BY <1>4 DEF Close, CloseDone, CloseWaits
<1>5. Receive => UNCHANGED <<sealed, at>>
  BY DEF Receive
<1>6. UNCHANGED streamVars => UNCHANGED <<sealed, at>>
  BY DEF streamVars
<1>7. QED
  BY <1>1, <1>2, <1>3, <1>4, <1>5, <1>6 DEF StreamNext, CloseStep

\* Only calls are in the channel.
LEMMA ChannelOfCalls == StreamTypeOK => InChannel \subseteq Calls
  BY LenProperties DEF InChannel, ToSet, StreamTypeOK

\* What the steps do to the channel: one more event, one less at the front,
\* one moved to the reader, or nothing.
LEMMA ChannelMoves ==
    ASSUME StreamTypeOK
    PROVE  /\ \A s \in Calls : SendCase(s) => InChannel' = InChannel \cup {s}
           /\ events # <<>> /\ events' = Tail(events) /\ UNCHANGED received /\ OneFate
              => /\ InChannel' = InChannel \ {Head(events)}
                 /\ Head(events) \in InChannel
           /\ Receive => InChannel' = InChannel
           /\ UNCHANGED channelVars => InChannel' = InChannel
<1>1. ASSUME NEW s \in Calls, SendCase(s) PROVE InChannel' = InChannel \cup {s}
  <2>1. ToSet(events') = ToSet(events) \cup {s} /\ received' = received
    BY <1>1, OneMoreEvent DEF SendCase, StreamTypeOK
  <2>2. QED
    BY <2>1 DEF InChannel
<1>2. ASSUME events # <<>>, events' = Tail(events), UNCHANGED received, OneFate
      PROVE  InChannel' = InChannel \ {Head(events)} /\ Head(events) \in InChannel
  <2>1. /\ ToSet(events) = {Head(events)} \cup ToSet(events')
        /\ Head(events) = events[1] /\ Len(events) \in Nat \ {0}
        /\ Tail(events) \in Seq(Calls) /\ Len(Tail(events)) = Len(events) - 1
        /\ \A i \in 1..(Len(events) - 1) : Tail(events)[i] = events[i + 1]
    BY <1>2, BehindTheHead DEF StreamTypeOK
  <2>2. Head(events) \notin ToSet(Tail(events))
    <3>1. SUFFICES ASSUME NEW i \in 1..(Len(events) - 1), Tail(events)[i] = Head(events)
                   PROVE  FALSE
      BY <2>1, LenProperties DEF ToSet
    <3>2. events[i + 1] = events[1] /\ i + 1 \in 1..Len(events) /\ 1 \in 1..Len(events)
      BY <2>1, <3>1
    <3>3. i + 1 = 1
      BY <1>2, <3>2 DEF OneFate
    <3>4. QED
      BY <3>3
  <2>3. QED
    BY <1>2, <2>1, <2>2 DEF InChannel, OneFate
<1>3. ASSUME Receive PROVE InChannel' = InChannel
  <2>1. /\ ToSet(events) = {Head(events)} \cup ToSet(Tail(events))
        /\ Head(events) \in Calls
    BY <1>3, BehindTheHead DEF Receive, StreamTypeOK
  <2>2. ToSet(received') = ToSet(received) \cup {Head(events)}
    BY <1>3, <2>1, OneMoreEvent DEF Receive, StreamTypeOK
  <2>3. QED
    BY <1>3, <2>1, <2>2 DEF Receive, InChannel
<1>4. UNCHANGED channelVars => InChannel' = InChannel
  BY DEF channelVars, InChannel
<1>5. QED
  BY <1>1, <1>2, <1>3, <1>4

\* The steps of Close leave channel, books and calls alone.
LEMMA CloseKeeps ==
    ASSUME NEW k \in CloseCalls, Close(k) \/ CloseStep(k)
    PROVE  UNCHANGED <<channelVars, countVars, at>>
  BY DEF Close, CloseStep, CloseDone, CloseWaits, CloseChannel

\* Every event of the channel is in the books, or about to be entered.
LEMMA BooksStep ==
    /\ StreamTypeOK /\ LockInv /\ BooksInv /\ OneFate
    /\ [StreamNext]_streamVars
    => BooksInv'
<1> SUFFICES ASSUME StreamTypeOK, LockInv, BooksInv, OneFate, [StreamNext]_streamVars
             PROVE  BooksInv'
  OBVIOUS
<1> USE DEF MoveTo
<1>1. ASSUME NEW s \in Calls, Enter(s) \/ SendStep(s) \/ SendTimeout(s), UNCHANGED policy
      PROVE  BooksInv'
  <2>0. at[s] # "returned" => s \notin bus
    BY DEF BooksInv
  <2>1. CASE Aside(s) \/ (at[s] \notin {"sent", "returned"} /\ Gap(s))
    <3>1. /\ at[s] \notin {"sent", "returned"}
          /\ \A r \in Calls \ {s} : at'[r] = at[r]
          /\ UNCHANGED <<channelVars, bus, sentCount>>
      BY <2>1 DEF Aside, Gap, countVars, StreamTypeOK
    <3>2. InChannel' = InChannel
      BY <3>1, ChannelMoves
    <3>3. bus \subseteq Calls
      BY DEF StreamTypeOK
    <3>4. s \notin InChannel
      BY <2>0, <3>1 DEF BooksInv
    <3>5. \A r \in InChannel : at'[r] = at[r]
      BY <3>1, <3>4, ChannelOfCalls
    <3>6. QED
      BY <2>0, <3>1, <3>2, <3>3, <3>4, <3>5 DEF BooksInv
  <2>2. CASE at[s] \in AtSelect \ {"sent"} /\ SendCase(s)
    <3>1. InChannel' = InChannel \cup {s}
      BY <2>2, ChannelMoves
    <3>2. /\ at' = [at EXCEPT ![s] = "sent"] /\ at[s] \notin {"sent", "returned"}
          /\ UNCHANGED <<bus, sentCount>>
      BY <2>2 DEF SendCase, countVars, AtSelect, Inside
    <3>3. InChannel \subseteq Calls
      BY ChannelOfCalls
    <3>4. QED
      BY <2>0, <3>1, <3>2, <3>3 DEF BooksInv, StreamTypeOK
  <2>3. CASE Evict(s)
    <3>1. InChannel' \subseteq InChannel
      <4>1. CASE events # <<>> /\ events' = Tail(events)
        BY <2>3, <4>1, ChannelMoves DEF Evict
      <4>2. CASE events' = events
        BY <2>3, <4>2, ChannelMoves DEF Evict, channelVars
      <4>3. QED
        BY <2>3, <4>1, <4>2 DEF Evict
    <3>2. /\ at' = [at EXCEPT ![s] = "retrying"] /\ at[s] \notin {"sent", "returned"}
          /\ UNCHANGED <<bus, sentCount>>
      BY <2>3 DEF Evict
    <3>3. InChannel \subseteq Calls
      BY ChannelOfCalls
    <3>4. QED
      BY <2>0, <3>1, <3>2, <3>3 DEF BooksInv, StreamTypeOK
  <2>4. CASE Account(s)
    <3>1. InChannel' = InChannel
      BY <2>4, ChannelMoves DEF Account
    <3>2. /\ at' = [at EXCEPT ![s] = "returned"] /\ at[s] = "sent"
          /\ bus' = bus \cup {s} /\ sentCount' = sentCount + 1
      BY <2>4 DEF Account
    <3>3. IsFiniteSet(bus') /\ sentCount' = Cardinality(bus')
      BY <2>0, <3>2, FS_AddElement DEF BooksInv
    <3>4. InChannel \subseteq Calls
      BY ChannelOfCalls
    <3>5. QED
      BY <3>1, <3>2, <3>3, <3>4 DEF BooksInv, StreamTypeOK
  <2>5. QED
    BY <1>1, <2>1, <2>2, <2>3, <2>4, CallSteps
<1>2. ASSUME InChannel' = InChannel, UNCHANGED <<at, bus, sentCount>>
      PROVE  BooksInv'
  BY <1>2 DEF BooksInv
<1>3. ASSUME NEW k \in CloseCalls, Close(k) \/ CloseStep(k)
      PROVE  InChannel' = InChannel /\ UNCHANGED <<at, bus, sentCount>>
  BY <1>3, CloseKeeps, ChannelMoves DEF countVars
<1>4. Receive => InChannel' = InChannel /\ UNCHANGED <<at, bus, sentCount>>
  BY ChannelMoves DEF Receive, countVars
<1>5. UNCHANGED streamVars => InChannel' = InChannel /\ UNCHANGED <<at, bus, sentCount>>
  BY ChannelMoves DEF streamVars, countVars
<1>6. QED
  BY <1>1, <1>2, <1>3, <1>4, <1>5 DEF StreamNext

\* An event is in the channel once.
LEMMA FateStep ==
    /\ StreamTypeOK /\ LockInv /\ BooksInv /\ OneFate
    /\ [StreamNext]_streamVars
    => OneFate'
<1> SUFFICES ASSUME StreamTypeOK, LockInv, BooksInv, OneFate, [StreamNext]_streamVars
             PROVE  OneFate'
  OBVIOUS
<1>1. ASSUME UNCHANGED channelVars PROVE OneFate'
  BY <1>1 DEF OneFate, channelVars
<1>2. ASSUME NEW s \in Calls, at[s] \in AtSelect \ {"sent"}, SendCase(s) PROVE OneFate'
  <2>1. s \notin ToSet(events) /\ s \notin ToSet(received)
    BY <1>2 DEF BooksInv, InChannel, AtSelect, Inside
  <2>2. /\ events' = Append(events, s) /\ received' = received
        /\ Len(events) \in Nat /\ Len(events') = Len(events) + 1
        /\ \A i \in 1..Len(events) : events'[i] = events[i]
        /\ events'[Len(events) + 1] = s
        /\ ToSet(events') = ToSet(events) \cup {s}
    BY <1>2, OneMoreEvent DEF SendCase, StreamTypeOK
  <2>3. \A i \in 1..Len(events) : events[i] # s
    BY <2>1, LenProperties DEF ToSet, StreamTypeOK
  <2>4. ASSUME NEW i \in 1..Len(events'), NEW j \in 1..Len(events'), events'[i] = events'[j]
        PROVE  i = j
    <3>1. (i \in 1..Len(events) \/ i = Len(events) + 1)
          /\ (j \in 1..Len(events) \/ j = Len(events) + 1)
      BY <2>2
    <3>2. QED
      BY <2>2, <2>3, <2>4, <3>1 DEF OneFate
  <2>5. QED
    BY <2>1, <2>2, <2>4 DEF OneFate
<1>3. ASSUME events # <<>>, events' = Tail(events),
             \/ UNCHANGED received
             \/ received' = Append(received, Head(events))
      PROVE  OneFate'
  <2>1. /\ Head(events) \in Calls /\ Len(events) \in Nat \ {0}
        /\ Len(events') = Len(events) - 1
        /\ \A i \in 1..(Len(events) - 1) : events'[i] = events[i + 1]
        /\ ToSet(events) = {Head(events)} \cup ToSet(events')
    BY <1>3, BehindTheHead DEF StreamTypeOK
  <2>2. Head(events) \notin ToSet(events')
    <3>1. InChannel = ToSet(events) \cup ToSet(received)
      BY DEF InChannel
    <3>2. SUFFICES ASSUME NEW i \in 1..Len(events'), events'[i] = Head(events) PROVE FALSE
      BY <1>3, <2>1, BehindTheHead, LenProperties DEF ToSet, StreamTypeOK
    <3>3. events[i + 1] = events[1] /\ i + 1 \in 1..Len(events) /\ 1 \in 1..Len(events)
      BY <1>3, <2>1, <3>2, BehindTheHead DEF StreamTypeOK
    <3>4. i + 1 = 1
      BY <3>3 DEF OneFate
    <3>5. QED
      BY <3>4
  <2>3. ASSUME NEW i \in 1..Len(events'), NEW j \in 1..Len(events'), events'[i] = events'[j]
        PROVE  i = j
    <3>1. /\ i + 1 \in 1..Len(events) /\ j + 1 \in 1..Len(events)
          /\ events[i + 1] = events[j + 1]
      BY <2>1, <2>3
    <3>2. i + 1 = j + 1
      BY <3>1 DEF OneFate
    <3>3. QED
      BY <3>2
  <2>4. ToSet(received') \subseteq ToSet(received) \cup {Head(events)}
    BY <1>3, <2>1, OneMoreEvent DEF StreamTypeOK
  <2>5. QED
    BY <2>1, <2>2, <2>3, <2>4 DEF OneFate
<1>4. ASSUME NEW s \in Calls, Enter(s) \/ SendStep(s) \/ SendTimeout(s), UNCHANGED policy
      PROVE  OneFate'
  <2>1. CASE Aside(s) \/ Gap(s) \/ Account(s)
    BY <1>1, <2>1 DEF Aside, Gap, Account
  <2>2. CASE Evict(s)
    BY <1>1, <1>3, <2>2 DEF Evict, channelVars
  <2>3. QED
    BY <1>2, <1>4, <2>1, <2>2, CallSteps
<1>5. ASSUME NEW k \in CloseCalls, Close(k) \/ CloseStep(k) PROVE OneFate'
  BY <1>1, <1>5, CloseKeeps
<1>6. CASE Receive
  BY <1>3, <1>6 DEF Receive
<1>7. UNCHANGED streamVars => UNCHANGED channelVars
  BY DEF streamVars
<1>8. QED
  BY <1>1, <1>4, <1>5, <1>6, <1>7 DEF StreamNext

\* Whose event a step loses: its own, the oldest in the buffer, or none.
LEMMA GoneMoves ==
    ASSUME StreamTypeOK, LockInv, BooksInv, OneFate
    PROVE  /\ \A s \in Calls :
                /\ Aside(s) \/ Account(s) => Gone' = Gone
                /\ at[s] \in AtSelect \ {"sent"} /\ SendCase(s) => Gone' = Gone
                /\ at[s] \notin {"sent", "returned"} /\ Gap(s)
                     => s \notin Gone \cup InChannel /\ Gone' = Gone \cup {s}
                /\ Evict(s) /\ events = <<>> => Gone' = Gone
                /\ Evict(s) /\ events # <<>>
                     => Head(events) \in Calls \ Gone /\ Gone' = Gone \cup {Head(events)}
           /\ InChannel' = InChannel /\ UNCHANGED at => Gone' = Gone
<1> USE DEF MoveTo
<1>0. /\ InChannel \subseteq Calls
      /\ Gone = {s \in Calls : at[s] \in {"sent", "returned"} /\ s \notin InChannel}
      /\ Gone' = {s \in Calls : at'[s] \in {"sent", "returned"} /\ s \notin InChannel'}
  BY ChannelOfCalls DEF Gone, InChannel
<1>1. ASSUME InChannel' = InChannel, UNCHANGED at PROVE Gone' = Gone
  BY <1>0, <1>1
<1>2. ASSUME NEW s \in Calls, Aside(s) \/ Account(s) PROVE Gone' = Gone
  <2>1. InChannel' = InChannel
    BY <1>2, ChannelMoves DEF Aside, Account
  <2>2. \A r \in Calls : at'[r] \in {"sent", "returned"} <=> at[r] \in {"sent", "returned"}
    BY <1>2 DEF Aside, Account, StreamTypeOK
  <2>3. QED
    BY <1>0, <2>1, <2>2
<1>3. ASSUME NEW s \in Calls, at[s] \notin {"sent", "returned"} PROVE s \notin InChannel \cup Gone
  BY <1>0, <1>3 DEF BooksInv
<1>4. ASSUME NEW s \in Calls, at[s] \notin {"sent", "returned"}, Gap(s)
      PROVE  s \notin Gone \cup InChannel /\ Gone' = Gone \cup {s}
  <2>1. InChannel' = InChannel
    BY <1>4, ChannelMoves DEF Gap
  <2>2. at' = [at EXCEPT ![s] = "returned"]
    BY <1>4 DEF Gap
  <2>3. QED
    BY <1>0, <1>3, <1>4, <2>1, <2>2 DEF StreamTypeOK
<1>5. ASSUME NEW s \in Calls, at[s] \in AtSelect \ {"sent"}, SendCase(s) PROVE Gone' = Gone
  <2>1. InChannel' = InChannel \cup {s}
    BY <1>5, ChannelMoves
  <2>2. at' = [at EXCEPT ![s] = "sent"] /\ s \notin InChannel \cup Gone
    BY <1>3, <1>5 DEF SendCase, AtSelect, Inside
  <2>3. QED
    BY <1>0, <2>1, <2>2 DEF StreamTypeOK
<1>6. ASSUME NEW s \in Calls, Evict(s)
      PROVE  /\ at' = [at EXCEPT ![s] = "retrying"] /\ s \notin InChannel \cup Gone
  BY <1>3, <1>6 DEF Evict
<1>7. ASSUME NEW s \in Calls, Evict(s), events = <<>> PROVE Gone' = Gone
  <2>1. InChannel' = InChannel
    BY <1>7, ChannelMoves DEF Evict, channelVars
  <2>2. QED
    BY <1>0, <1>6, <1>7, <2>1 DEF StreamTypeOK
<1>8. ASSUME NEW s \in Calls, Evict(s), events # <<>>
      PROVE  Head(events) \in Calls \ Gone /\ Gone' = Gone \cup {Head(events)}
  <2>1. InChannel' = InChannel \ {Head(events)} /\ Head(events) \in InChannel
    BY <1>8, ChannelMoves DEF Evict
  <2>2. at[Head(events)] \in {"sent", "returned"}
    BY <2>1 DEF BooksInv
  <2>3. QED
    BY <1>0, <1>6, <1>8, <2>1, <2>2 DEF StreamTypeOK
<1>9. QED
  BY <1>1, <1>2, <1>4, <1>5, <1>7, <1>8

\* The gaps are counted.
LEMMA GapStep ==
    /\ StreamTypeOK /\ LockInv /\ BooksInv /\ OneFate /\ GapInv
    /\ [StreamNext]_streamVars
    => GapInv'
<1> SUFFICES ASSUME StreamTypeOK, LockInv, BooksInv, OneFate, GapInv, [StreamNext]_streamVars
             PROVE  GapInv'
  OBVIOUS
<1>1. ASSUME Gone' = Gone, UNCHANGED gapCount PROVE GapInv'
  BY <1>1 DEF GapInv, GapsAreVisible
<1>2. ASSUME NEW e, e \notin Gone, Gone' = Gone \cup {e}, gapCount' = gapCount + 1
      PROVE  GapInv'
  BY <1>2, FS_AddElement DEF GapInv, GapsAreVisible
<1>3. ASSUME NEW s \in Calls, Enter(s) \/ SendStep(s) \/ SendTimeout(s), UNCHANGED policy
      PROVE  GapInv'
  <2>1. CASE Aside(s) \/ Account(s)
    BY <1>1, <2>1, GoneMoves DEF Aside, Account, countVars
  <2>2. CASE at[s] \notin {"sent", "returned"} /\ Gap(s)
    BY <1>2, <2>2, GoneMoves DEF Gap
  <2>3. CASE at[s] \in AtSelect \ {"sent"} /\ SendCase(s)
    BY <1>1, <2>3, GoneMoves DEF SendCase, countVars
  <2>4. CASE Evict(s)
    BY <1>1, <1>2, <2>4, GoneMoves DEF Evict
  <2>5. QED
    BY <1>3, <2>1, <2>2, <2>3, <2>4, CallSteps
<1>4. ASSUME InChannel' = InChannel, UNCHANGED <<at, gapCount>> PROVE GapInv'
  BY <1>1, <1>4, GoneMoves
<1>5. ASSUME NEW k \in CloseCalls, Close(k) \/ CloseStep(k)
      PROVE  InChannel' = InChannel /\ UNCHANGED <<at, gapCount>>
  BY <1>5, CloseKeeps, ChannelMoves DEF countVars
<1>6. Receive => InChannel' = InChannel /\ UNCHANGED <<at, gapCount>>
  BY ChannelMoves DEF Receive, countVars
<1>7. UNCHANGED streamVars => InChannel' = InChannel /\ UNCHANGED <<at, gapCount>>
  BY ChannelMoves DEF streamVars, countVars
<1>8. QED
  BY <1>3, <1>4, <1>5, <1>6, <1>7 DEF StreamNext

-----------------------------------------------------------------------------

\* The invariant of the event stream.
THEOREM StreamInvariant == StreamSpec => []StreamInv
<1>1. StreamInv /\ [StreamNext]_streamVars => StreamInv'
  BY StreamTypeStep, LockStep, CloseInvStep, SealStep, BooksStep, FateStep, GapStep DEF StreamInv
<1>2. QED
  BY <1>1, StreamStarts, PTL DEF StreamSpec

\* Type correctness of the stream and of the calls in progress.
THEOREM StreamTypes == StreamSpec => []StreamTypeOK
  BY StreamInvariant, PTL DEF StreamInv

\* Nobody sends on the closed channel, and behind a Close that has returned the
\* counter and the bus show every event that was ever in it (Close, sendMu).
THEOREM CloseIsFinal == StreamSpec => []SealedIsFinal
<1>1. StreamInv => SealedIsFinal
  <2> SUFFICES ASSUME StreamInv PROVE SealedIsFinal
    OBVIOUS
  <2>1. sealed => \A s \in Calls :
                     at[s] \notin {"selecting", "evicting", "retrying", "blocked", "sent"}
    BY DEF StreamInv, SealInv, AtSelect, Inside
  <2>2. (\E k \in CloseCalls : close[k] = "returned") => sealed
    BY DEF StreamInv, CloseInv
  <2>3. sealed => InChannel \subseteq bus
    BY <2>1, ChannelOfCalls DEF StreamInv, BooksInv
  <2>4. QED
    BY <2>1, <2>2, <2>3 DEF StreamInv, BooksInv, InChannel, SealedIsFinal
<1>2. QED
  BY <1>1, StreamInvariant, PTL

\* GapCount is the number of events that were tried and that nobody will read.
THEOREM GapsAreCounted == StreamSpec => []GapsAreVisible
  BY StreamInvariant, PTL DEF StreamInv, GapInv

\* A step of the stream is a step of the channel it promises, or invisible.
LEMMA StreamSimulates ==
    StreamInv /\ [StreamNext]_streamVars => [Channel!ChannelNext]_(Channel!channelState)
<1> SUFFICES ASSUME StreamInv, [StreamNext]_streamVars
             PROVE  [Channel!ChannelNext]_(Channel!channelState)
  OBVIOUS
<1> USE DEF StreamInv
<1>1. ASSUME Gone' = Gone, UNCHANGED <<events, received, sealed, policy>>
      PROVE  UNCHANGED Channel!channelState
  BY <1>1 DEF Channel!channelState
<1>2. ASSUME NEW s \in Calls, at[s] \notin {"sent", "returned"} PROVE Channel!Fresh(s)
  BY <1>2 DEF BooksInv, InChannel, Gone, Channel!Fresh, ToSet, Channel!ToSet
<1>3. ASSUME NEW s \in Calls, Enter(s) \/ SendStep(s) \/ SendTimeout(s), UNCHANGED policy
      PROVE  [Channel!ChannelNext]_(Channel!channelState)
  <2>1. CASE Aside(s) \/ Account(s)
    BY <1>1, <1>3, <2>1, GoneMoves DEF Aside, Account, flagVars, channelVars
  <2>2. CASE at[s] \notin {"sent", "returned"} /\ Gap(s)
    <3>1. Channel!Lose(s)
      BY <1>2, <1>3, <2>2, GoneMoves DEF Gap, flagVars, channelVars, Channel!Lose
    <3>2. QED
      BY <3>1 DEF Channel!ChannelNext
  <2>3. CASE at[s] \in AtSelect \ {"sent"} /\ SendCase(s)
    <3>1. ~sealed /\ Channel!Fresh(s)
      BY <1>2, <2>3 DEF SealInv, AtSelect, Inside
    <3>2. Channel!Accept(s)
      BY <1>3, <2>3, <3>1, GoneMoves DEF SendCase, Room, flagVars, Channel!Accept
    <3>3. QED
      BY <3>2 DEF Channel!ChannelNext
  <2>4. CASE Evict(s) /\ events = <<>>
    BY <1>1, <1>3, <2>4, GoneMoves DEF Evict, flagVars
  <2>5. CASE Evict(s) /\ events # <<>>
    <3>1. ~sealed /\ policy = "discard_oldest"
      BY <2>5 DEF Evict, SealInv, LockInv, AtSelect, Inside
    <3>2. Channel!DropOldest
      BY <1>3, <2>5, <3>1, GoneMoves DEF Evict, flagVars, Channel!DropOldest
    <3>3. QED
      BY <3>2 DEF Channel!ChannelNext
  <2>6. QED
    BY <1>3, <2>1, <2>2, <2>3, <2>4, <2>5, CallSteps
<1>4. ASSUME NEW k \in CloseCalls, Close(k) \/ CloseStep(k), UNCHANGED policy
      PROVE  [Channel!ChannelNext]_(Channel!channelState)
  <2>1. Gone' = Gone /\ UNCHANGED <<events, received>>
    BY <1>4, CloseKeeps, ChannelMoves, GoneMoves DEF channelVars
  <2>2. CASE Close(k) \/ CloseDone(k) \/ CloseWaits(k)
    BY <1>1, <1>4, <2>1, <2>2 DEF Close, CloseDone, CloseWaits
  <2>3. CASE CloseChannel(k)
    <3>1. ~sealed /\ sealed' = TRUE
      BY <2>3 DEF CloseChannel, CloseInv, InClose
    <3>2. Channel!Seal
      BY <1>4, <2>1, <3>1 DEF Channel!Seal
    <3>3. QED
      BY <3>2 DEF Channel!ChannelNext
  <2>4. QED
    BY <1>4, <2>2, <2>3 DEF CloseStep
<1>5. CASE Receive /\ UNCHANGED policy
  <2>1. Gone' = Gone
    BY <1>5, ChannelMoves, GoneMoves DEF Receive
  <2>2. Channel!Read
    BY <1>5, <2>1 DEF Receive, flagVars, Channel!Read
  <2>3. QED
    BY <2>2 DEF Channel!ChannelNext
<1>6. CASE UNCHANGED streamVars
  <2>1. Gone' = Gone
    BY <1>6, ChannelMoves, GoneMoves DEF streamVars
  <2>2. QED
    BY <1>1, <1>6, <2>1 DEF streamVars, flagVars, channelVars
<1>7. QED
  BY <1>3, <1>4, <1>5, <1>6 DEF StreamNext

\* The event stream implements a bounded channel in which every event has one
\* fate, for any number of calls and any capacity.
THEOREM StreamImplementsChannel == StreamSpec => ChannelSpec
<1>1. StreamInit => Channel!ChannelInit
  BY DEF StreamInit, Gone, Channel!ChannelInit
<1>2. QED
  BY <1>1, StreamInvariant, StreamSimulates, PTL
  DEF StreamSpec, ChannelSpec, Channel!ChannelSpec
=============================================================================
