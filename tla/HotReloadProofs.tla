--------------------------- MODULE HotReloadProofs ---------------------------
(***************************************************************************)
(* Proofs about HotReload, for any number of watches, reloads, goroutines, *)
(* retries and edits, and both kinds of cycle.                             *)
(*                                                                         *)
(* FlagInv ties the flag connecting to the goroutine that runs cycles: it  *)
(* is what lets maybeCloseDoneLocked decide by the flag alone.             *)
(***************************************************************************)
EXTENDS HotReload, FiniteSetTheorems, TLAPS

FlagInv ==
    /\ \A k, l \in Loops : loop[k] # "none" /\ loop[l] # "none" => k = l
    /\ connecting <=> (\E l \in Loops : loop[l] # "none")
    /\ pending => connecting /\ ~stopped

QuietInv ==
    doneClosed => stopped /\ ~connecting /\ poll \in {"none", "exited"}

\* A goroutine that waits before a retry has one left.
RetryInv == \A l \in Loops : loop[l] = "backoff" => attempt[l] < MaxRetries

ReloadInv == TypeOK /\ FlagInv /\ QuietInv /\ RetryInv

-----------------------------------------------------------------------------

\* Goto moves one goroutine.
LEMMA GotoMoves ==
    ASSUME TypeOK, NEW l \in Loops, NEW pc, Goto(l, pc)
    PROVE  loop'[l] = pc /\ \A k \in Loops : k # l => loop'[k] = loop[k]
  BY DEF Goto, TypeOK

\* Goto keeps the type of loop.
LEMMA GotoTypes ==
    ASSUME TypeOK, NEW l \in Loops,
           NEW pc \in Calls \cup {"none", "attempt", "backoff", "finish"}, Goto(l, pc)
    PROVE  loop' \in [Loops -> Calls \cup {"none", "attempt", "backoff", "finish"}]
  BY DEF Goto, TypeOK

\* A new reloader satisfies the invariant.
LEMMA ReloadInit == Init => ReloadInv
<1> SUFFICES ASSUME Init PROVE ReloadInv
  OBVIOUS
<1>1. 0 \in Versions /\ 0 \in 0 .. MaxProbeErrors /\ 0 \in 0 .. MaxRetries
  BY HotReloadAssumption DEF Versions
<1>2. TypeOK
  BY <1>1 DEF Init, TypeOK
<1>3. FlagInv /\ QuietInv /\ RetryInv
  BY DEF Init, FlagInv, QuietInv, RetryInv
<1>4. QED
  BY <1>2, <1>3 DEF ReloadInv

\* Asking for a cycle keeps the flag and the goroutine together.
LEMMA ScheduleKeeps ==
    ASSUME ReloadInv, ScheduleReconnect, UNCHANGED stopVars
    PROVE  /\ FlagInv' /\ RetryInv'
           /\ loop' \in [Loops -> Calls \cup {"none", "attempt", "backoff", "finish"}]
           /\ attempt' \in [Loops -> 0 .. MaxRetries]
           /\ connecting' \in BOOLEAN /\ pending' \in BOOLEAN
           /\ (doneClosed => UNCHANGED connecting)
<1>0. TypeOK /\ FlagInv /\ QuietInv /\ RetryInv
  BY DEF ReloadInv
<1>1. CASE stopped /\ UNCHANGED loopVars
  BY <1>0, <1>1 DEF TypeOK, FlagInv, RetryInv, loopVars, stopVars
<1>2. CASE ~stopped /\ connecting /\ pending' = TRUE /\ UNCHANGED <<connecting, loop, attempt>>
  BY <1>0, <1>2 DEF TypeOK, FlagInv, RetryInv, stopVars
<1>3. CASE /\ ~stopped /\ ~connecting /\ connecting' = TRUE /\ UNCHANGED pending
           /\ \E l \in Loops \ Running : /\ loop' = [loop EXCEPT ![l] = "attempt"]
                                         /\ attempt' = [attempt EXCEPT ![l] = 0]
  <2>1. PICK l \in Loops : /\ loop' = [loop EXCEPT ![l] = "attempt"]
                           /\ attempt' = [attempt EXCEPT ![l] = 0]
    BY <1>3
  <2>2. loop'[l] = "attempt" /\ \A k \in Loops : k # l => loop'[k] = loop[k]
    BY <1>0, <2>1 DEF TypeOK
  <2>3. \A k \in Loops : loop[k] = "none"
    BY <1>0, <1>3 DEF FlagInv
  <2>4. ~pending /\ ~pending'
    BY <1>0, <1>3 DEF FlagInv
  <2>5. FlagInv' /\ RetryInv'
    BY <1>3, <2>2, <2>3, <2>4 DEF FlagInv, RetryInv
  <2>6. /\ loop' \in [Loops -> Calls \cup {"none", "attempt", "backoff", "finish"}]
        /\ attempt' \in [Loops -> 0 .. MaxRetries]
    BY <1>0, <2>1, HotReloadAssumption DEF TypeOK
  <2>7. ~doneClosed /\ connecting' \in BOOLEAN /\ pending' \in BOOLEAN
    BY <1>0, <1>3, <2>4 DEF QuietInv, TypeOK
  <2>8. QED
    BY <2>5, <2>6, <2>7
<1>4. QED
  BY <1>1, <1>2, <1>3 DEF ScheduleReconnect

\* The calls and the surroundings keep the invariant.
LEMMA CallStep ==
    ASSUME ReloadInv,
           \/ \E w \in Watchers : WatchRead(w) \/ WatchPublish(w)
           \/ \E r \in Reloaders : ReloadCheck(r) \/ ReloadSchedule(r)
           \/ RequestStop \/ Edit \/ CancelParent
    PROVE  ReloadInv'
<1>0. TypeOK /\ FlagInv /\ QuietInv /\ RetryInv
  BY DEF ReloadInv
<1>1. ASSUME NEW w \in Watchers, WatchRead(w) PROVE ReloadInv'
  <2>1. TypeOK'
    BY <1>0, <1>1 DEF TypeOK, WatchRead, stopVars, loopVars, pollVars
  <2>2. FlagInv' /\ QuietInv' /\ RetryInv'
    BY <1>0, <1>1 DEF FlagInv, QuietInv, RetryInv, WatchRead, stopVars, loopVars, pollVars
  <2>3. QED
    BY <2>1, <2>2 DEF ReloadInv
<1>2. ASSUME NEW w \in Watchers, WatchPublish(w) PROVE ReloadInv'
  <2>1. TypeOK'
    <3>1. 0 \in Versions
      BY HotReloadAssumption DEF Versions
    <3>2. wsnap' \in [Watchers -> Versions] /\ seen' \in Versions \cup {ProbeError}
      BY <1>0, <1>2, <3>1 DEF TypeOK, WatchPublish
    <3>3. /\ wcall' \in [Watchers -> {"idle", "read", "watching", "refused"}]
          /\ poll' \in {"none", "start", "ready", "probed", "changed", "exited"}
      BY <1>0, <1>2 DEF TypeOK, WatchPublish
    <3>4. QED
      BY <1>0, <1>2, <3>2, <3>3 DEF TypeOK, WatchPublish, stopVars, loopVars
  <2>2. FlagInv' /\ RetryInv'
    BY <1>0, <1>2 DEF FlagInv, RetryInv, WatchPublish, stopVars, loopVars
  <2>3. QuietInv'
    BY <1>0, <1>2 DEF QuietInv, WatchPublish, stopVars, loopVars
  <2>4. QED
    BY <2>1, <2>2, <2>3 DEF ReloadInv
<1>3. ASSUME NEW r \in Reloaders, ReloadCheck(r) PROVE ReloadInv'
  <2>1. TypeOK'
    BY <1>0, <1>3 DEF TypeOK, ReloadCheck, stopVars, loopVars, pollVars, callVars
  <2>2. FlagInv' /\ QuietInv' /\ RetryInv'
    BY <1>0, <1>3 DEF FlagInv, QuietInv, RetryInv, ReloadCheck, stopVars, loopVars, pollVars
  <2>3. QED
    BY <2>1, <2>2 DEF ReloadInv
<1>4. ASSUME NEW r \in Reloaders, ReloadSchedule(r) PROVE ReloadInv'
  <2>1. ScheduleReconnect /\ UNCHANGED stopVars /\ UNCHANGED pollVars
    BY <1>4 DEF ReloadSchedule
  <2>2. /\ FlagInv' /\ RetryInv' /\ (doneClosed => UNCHANGED connecting)
        /\ loop' \in [Loops -> Calls \cup {"none", "attempt", "backoff", "finish"}]
        /\ attempt' \in [Loops -> 0 .. MaxRetries]
        /\ connecting' \in BOOLEAN /\ pending' \in BOOLEAN
    BY <2>1, ScheduleKeeps
  <2>3. TypeOK'
    BY <1>0, <1>4, <2>2 DEF TypeOK, ReloadSchedule, stopVars, pollVars, callVars
  <2>4. QuietInv'
    BY <1>0, <2>1, <2>2 DEF QuietInv, stopVars, pollVars
  <2>5. QED
    BY <2>2, <2>3, <2>4 DEF ReloadInv
<1>5. ASSUME RequestStop PROVE ReloadInv'
  <2>1. /\ stopped' = TRUE /\ pending' = FALSE
        /\ UNCHANGED <<connecting, poll, loop, attempt>>
        /\ doneClosed' = (doneClosed \/ (~connecting /\ poll \in {"none", "exited"}))
    BY <1>5 DEF RequestStop, RequestStopLocked, MaybeCloseDone
  <2>2. doneClosed' \in BOOLEAN
    BY Zenon, <2>1
  <2>3. TypeOK'
    BY <1>0, <1>5, <2>1, <2>2 DEF TypeOK, RequestStop, callVars
  <2>4. FlagInv' /\ QuietInv' /\ RetryInv'
    BY <1>0, <2>1 DEF FlagInv, QuietInv, RetryInv
  <2>5. QED
    BY <2>3, <2>4 DEF ReloadInv
<1>6. ASSUME Edit \/ CancelParent PROVE ReloadInv'
  <2>1. UNCHANGED <<stopVars, loopVars, pollVars, served, callVars, rcall>>
    BY <1>6 DEF Edit, CancelParent
  <2>0. parentDone' \in BOOLEAN
    BY Zenon, <1>0, <1>6 DEF Edit, CancelParent, TypeOK
  <2>v. file' \in Versions
    BY <1>0, <1>6, HotReloadAssumption DEF Edit, CancelParent, TypeOK, Versions
  <2>2. TypeOK'
    BY <1>0, <2>0, <2>1, <2>v DEF TypeOK, stopVars, loopVars, pollVars, callVars
  <2>3. FlagInv' /\ QuietInv' /\ RetryInv'
    BY <1>0, <2>1 DEF FlagInv, QuietInv, RetryInv, stopVars, loopVars, pollVars
  <2>4. QED
    BY <2>2, <2>3 DEF ReloadInv
<1>7. QED
  BY <1>1, <1>2, <1>3, <1>4, <1>5, <1>6

\* The poller keeps the invariant.
LEMMA PollStep == ASSUME ReloadInv, Poller \/ PollExit PROVE ReloadInv'
<1>0. TypeOK /\ FlagInv /\ QuietInv /\ RetryInv
  BY DEF ReloadInv
<1>1. CASE Probe
  <2>1. probe' \in Versions \cup {ProbeError} /\ probeErrors' \in 0 .. MaxProbeErrors
    BY <1>0, <1>1, HotReloadAssumption DEF Probe, TypeOK
  <2>2. TypeOK'
    BY <1>0, <1>1, <2>1 DEF TypeOK, Probe, stopVars, loopVars, callVars
  <2>3. FlagInv' /\ QuietInv' /\ RetryInv'
    BY <1>0, <1>1 DEF FlagInv, QuietInv, RetryInv, Probe, stopVars, loopVars
  <2>4. QED
    BY <2>2, <2>3 DEF ReloadInv
<1>2. CASE Compare
  <2>1. TypeOK'
    BY <1>0, <1>2 DEF TypeOK, Compare, stopVars, loopVars, callVars
  <2>2. FlagInv' /\ QuietInv' /\ RetryInv'
    BY <1>0, <1>2 DEF FlagInv, QuietInv, RetryInv, Compare, stopVars, loopVars
  <2>3. QED
    BY <2>1, <2>2 DEF ReloadInv
<1>3. CASE PollSchedule
  <2>1. ScheduleReconnect /\ UNCHANGED stopVars
    BY <1>3 DEF PollSchedule
  <2>2. /\ FlagInv' /\ RetryInv' /\ (doneClosed => UNCHANGED connecting)
        /\ loop' \in [Loops -> Calls \cup {"none", "attempt", "backoff", "finish"}]
        /\ attempt' \in [Loops -> 0 .. MaxRetries]
        /\ connecting' \in BOOLEAN /\ pending' \in BOOLEAN
    BY <2>1, ScheduleKeeps
  <2>3. TypeOK'
    BY <1>0, <1>3, <2>2 DEF TypeOK, PollSchedule, stopVars, callVars
  <2>4. QuietInv'
    BY <1>0, <1>3, <2>1 DEF QuietInv, PollSchedule, stopVars
  <2>5. QED
    BY <2>2, <2>3, <2>4 DEF ReloadInv
<1>4. CASE PollExit
  <2>1. /\ poll' = "exited" /\ UNCHANGED <<stopped, connecting, pending, loop, attempt>>
        /\ doneClosed' = (doneClosed \/ (stopped /\ ~connecting))
    BY <1>4 DEF PollExit, MaybeCloseDone
  <2>2. doneClosed' \in BOOLEAN
    BY Zenon, <2>1
  <2>3. TypeOK'
    BY <1>0, <1>4, <2>1, <2>2 DEF TypeOK, PollExit, callVars
  <2>4. FlagInv' /\ QuietInv' /\ RetryInv'
    BY <1>0, <2>1 DEF FlagInv, QuietInv, RetryInv
  <2>5. QED
    BY <2>3, <2>4 DEF ReloadInv
<1>5. QED
  BY <1>1, <1>2, <1>3, <1>4 DEF Poller

\* A step that moves the cycle goroutine to another place than its end, and
\* leaves what maybeCloseDoneLocked looks at alone.
LEMMA CycleMoves ==
    ASSUME ReloadInv, NEW l \in Loops, loop[l] # "none",
           NEW pc \in Calls \cup {"attempt", "backoff", "finish"}, Goto(l, pc),
           UNCHANGED <<stopVars, connecting, poll>>, pending' => pending,
           pc = "backoff" => attempt'[l] < MaxRetries,
           \A k \in Loops : k # l => attempt'[k] = attempt[k]
    PROVE  /\ FlagInv' /\ QuietInv' /\ RetryInv'
           /\ loop' \in [Loops -> Calls \cup {"none", "attempt", "backoff", "finish"}]
<1>0. TypeOK /\ FlagInv /\ QuietInv /\ RetryInv
  BY DEF ReloadInv
<1>1. loop'[l] = pc /\ \A k \in Loops : k # l => loop'[k] = loop[k]
  BY <1>0, GotoMoves
<1>2. pc # "none"
  BY DEF Calls, ClientCalls
<1>3. FlagInv'
  BY <1>0, <1>1, <1>2 DEF FlagInv, stopVars
<1>4. QuietInv'
  BY <1>0 DEF QuietInv, stopVars
<1>5. RetryInv'
  BY <1>0, <1>1 DEF RetryInv
<1>6. QED
  BY <1>0, <1>3, <1>4, <1>5, GotoTypes

\* The goroutine ends and the flag with it.
LEMMA CycleEnds ==
    ASSUME ReloadInv, NEW l \in Loops, loop[l] # "none", Goto(l, "none"),
           connecting' = FALSE, pending' = FALSE, UNCHANGED poll,
           stopped' = stopped \/ stopped' = TRUE, MaybeCloseDone,
           UNCHANGED attempt
    PROVE  /\ FlagInv' /\ QuietInv' /\ RetryInv' /\ doneClosed' \in BOOLEAN
           /\ loop' \in [Loops -> Calls \cup {"none", "attempt", "backoff", "finish"}]
<1>0. TypeOK /\ FlagInv /\ QuietInv /\ RetryInv
  BY DEF ReloadInv
<1>1. loop'[l] = "none" /\ \A k \in Loops : k # l => loop'[k] = loop[k]
  BY <1>0, GotoMoves
<1>2. \A k \in Loops : loop'[k] = "none"
  BY <1>0, <1>1 DEF FlagInv
<1>3. FlagInv'
  BY <1>2 DEF FlagInv
<1>4. ~doneClosed
  BY <1>0 DEF FlagInv, QuietInv, RetryInv
<1>5. QuietInv'
  BY <1>4 DEF QuietInv, MaybeCloseDone
<1>6. doneClosed' \in BOOLEAN
  BY Zenon DEF MaybeCloseDone
<1>7. RetryInv'
  BY <1>2 DEF RetryInv
<1>8. QED
  BY <1>0, <1>3, <1>5, <1>6, <1>7, GotoTypes

\* Every step of the cycle goroutine keeps the invariant.
LEMMA CycleStep == ASSUME ReloadInv, NEW l \in Loops, Cycle(l) PROVE ReloadInv'
<1>0. TypeOK /\ FlagInv /\ QuietInv /\ RetryInv
  BY DEF ReloadInv
<1>p. /\ \A pc \in Calls \cup {"attempt", "backoff", "finish"} : pc # "none"
      /\ {"config", "disconnect", "connect", "list", "register"} \subseteq Calls
  BY DEF Calls, ClientCalls
<1>1. CASE StartCycle(l)
  <2>1. PICK pc \in {"config", "disconnect"} : Goto(l, pc)
    BY <1>1 DEF StartCycle
  <2>2. /\ FlagInv' /\ QuietInv' /\ RetryInv'
        /\ loop' \in [Loops -> Calls \cup {"none", "attempt", "backoff", "finish"}]
    BY <1>1, <1>p, <2>1, CycleMoves DEF StartCycle, pollVars
  <2>3. TypeOK'
    BY <1>0, <1>1, <2>2 DEF TypeOK, StartCycle, stopVars, pollVars, callVars
  <2>4. QED
    BY <2>2, <2>3 DEF ReloadInv
<1>2. CASE GiveUp(l)
  <2>1. /\ FlagInv' /\ QuietInv' /\ RetryInv'
        /\ loop' \in [Loops -> Calls \cup {"none", "attempt", "backoff", "finish"}]
    BY <1>2, <1>p, CycleMoves DEF GiveUp, pollVars
  <2>2. TypeOK'
    BY <1>0, <1>2, <2>1 DEF TypeOK, GiveUp, stopVars, pollVars, callVars
  <2>3. QED
    BY <2>1, <2>2 DEF ReloadInv
<1>3. CASE CallReturns(l)
  <2>1. PICK pc \in Calls \cup {"backoff", "finish"} :
          Goto(l, pc) /\ (pc = "backoff" => attempt[l] < MaxRetries)
    <3>0. attempt[l] \in 0 .. MaxRetries /\ MaxRetries \in Nat
      BY <1>0, HotReloadAssumption DEF TypeOK
    <3>1. Retry(l) => \E pc \in {"backoff", "finish"} :
            Goto(l, pc) /\ (pc = "backoff" => attempt[l] < MaxRetries)
      BY <3>0 DEF Retry
    <3>2. QED
      BY <1>3, <1>p, <3>1 DEF CallReturns, Following, ClientCalls
  <2>2. loop[l] # "none"
    BY <1>3 DEF CallReturns, ClientCalls
  <2>3. /\ FlagInv' /\ QuietInv' /\ RetryInv'
        /\ loop' \in [Loops -> Calls \cup {"none", "attempt", "backoff", "finish"}]
    BY <1>3, <2>1, <2>2, CycleMoves DEF CallReturns, pollVars
  <2>4. TypeOK'
    BY <1>0, <1>3, <2>3 DEF TypeOK, CallReturns, stopVars, pollVars, callVars
  <2>5. QED
    BY <2>3, <2>4 DEF ReloadInv
<1>4. CASE CallPanics(l)
  <2>1. /\ FlagInv' /\ QuietInv' /\ RetryInv' /\ doneClosed' \in BOOLEAN
        /\ loop' \in [Loops -> Calls \cup {"none", "attempt", "backoff", "finish"}]
    BY <1>4, <1>p, CycleEnds DEF CallPanics, RequestStopLocked
  <2>2. stopErr' \in {"none", "callback", "worker"}
    BY <1>0, <1>4 DEF CallPanics, TypeOK
  <2>3. TypeOK'
    BY <1>0, <1>4, <2>1, <2>2 DEF TypeOK, CallPanics, RequestStopLocked, callVars
  <2>4. QED
    BY <2>1, <2>3 DEF ReloadInv
<1>5. CASE Backoff(l)
  <2>1. PICK pc \in {"finish", "attempt"} : Goto(l, pc)
    BY <1>5 DEF Backoff
  <2>o. \A k \in Loops : k # l => attempt'[k] = attempt[k]
    BY <1>0, <1>5 DEF Backoff, TypeOK
  <2>2. /\ FlagInv' /\ QuietInv' /\ RetryInv'
        /\ loop' \in [Loops -> Calls \cup {"none", "attempt", "backoff", "finish"}]
    BY <1>5, <1>p, <2>1, <2>o, CycleMoves DEF Backoff, pollVars
  <2>3. attempt' \in [Loops -> 0 .. MaxRetries]
    <3>1. attempt[l] \in 0 .. MaxRetries /\ MaxRetries \in Nat /\ attempt[l] < MaxRetries
      BY <1>0, <1>5, HotReloadAssumption DEF Backoff, TypeOK, RetryInv
    <3>2. attempt[l] + 1 \in 0 .. MaxRetries
      BY <3>1
    <3>3. QED
      BY <1>0, <1>5, <3>2 DEF Backoff, TypeOK
  <2>4. TypeOK'
    BY <1>0, <1>5, <2>2, <2>3 DEF TypeOK, Backoff, stopVars, pollVars, callVars
  <2>5. QED
    BY <2>2, <2>4 DEF ReloadInv
<1>6. CASE Again(l)
  <2>o. \A k \in Loops : k # l => attempt'[k] = attempt[k]
    BY <1>0, <1>6 DEF Again, TypeOK
  <2>1. /\ FlagInv' /\ QuietInv' /\ RetryInv'
        /\ loop' \in [Loops -> Calls \cup {"none", "attempt", "backoff", "finish"}]
    BY <1>6, <1>p, <2>o, CycleMoves DEF Again, pollVars
  <2>2. attempt' \in [Loops -> 0 .. MaxRetries]
    BY <1>0, <1>6, HotReloadAssumption DEF Again, TypeOK
  <2>3. TypeOK'
    BY <1>0, <1>6, <2>1, <2>2 DEF TypeOK, Again, stopVars, pollVars, callVars
  <2>4. QED
    BY <2>1, <2>3 DEF ReloadInv
<1>7. CASE Finish(l)
  <2>1. /\ FlagInv' /\ QuietInv' /\ RetryInv' /\ doneClosed' \in BOOLEAN
        /\ loop' \in [Loops -> Calls \cup {"none", "attempt", "backoff", "finish"}]
    BY <1>7, <1>p, CycleEnds DEF Finish
  <2>2. TypeOK'
    BY <1>0, <1>7, <2>1 DEF TypeOK, Finish, callVars
  <2>3. QED
    BY <2>1, <2>2 DEF ReloadInv
<1>8. QED
  BY <1>1, <1>2, <1>3, <1>4, <1>5, <1>6, <1>7 DEF Cycle

\* Every step keeps the invariant.
LEMMA ReloadNext == ReloadInv /\ [Next]_vars => ReloadInv'
<1> SUFFICES ASSUME ReloadInv, [Next]_vars PROVE ReloadInv'
  OBVIOUS
<1>1. CASE UNCHANGED vars
  BY <1>1 DEF ReloadInv, TypeOK, FlagInv, QuietInv, RetryInv, vars, stopVars, loopVars,
              pollVars, callVars
<1>2. CASE Next
  BY <1>2, CallStep, PollStep, CycleStep DEF Next
<1>3. QED
  BY <1>1, <1>2

\* The inductive invariant of the reloader.
THEOREM ReloadInvariant == Spec => []ReloadInv
<1>1. QED
  BY ReloadInit, ReloadNext, PTL DEF Spec

\* Type correctness.
THEOREM ReloadTypes == Spec => []TypeOK
<1>1. ReloadInv => TypeOK
  BY DEF ReloadInv
<1>2. QED
  BY <1>1, ReloadInvariant, PTL

\* One cycle goroutine at most, and never a pending request without one.
THEOREM OneCycleAtATime == Spec => []OneCycle
<1>1. ReloadInv => OneCycle
  <2> SUFFICES ASSUME ReloadInv PROVE OneCycle
    OBVIOUS
  <2>1. FlagInv /\ connecting \in BOOLEAN
    BY DEF ReloadInv, TypeOK
  <2>2. CASE connecting
    <3>1. PICK l \in Loops : loop[l] # "none"
      BY <2>1, <2>2 DEF FlagInv
    <3>2. Running = {l}
      BY <2>1, <3>1 DEF FlagInv, Running
    <3>3. Cardinality(Running) = 1
      BY <3>2, FS_Singleton
    <3>4. QED
      BY <2>1, <2>2, <3>3 DEF OneCycle, FlagInv
  <2>3. CASE ~connecting
    <3>1. Running = {}
      BY <2>1, <2>3 DEF FlagInv, Running
    <3>2. Cardinality(Running) = 0
      BY <3>1, FS_EmptySet
    <3>3. QED
      BY <2>1, <2>3, <3>2 DEF OneCycle, FlagInv
  <2>4. QED
    BY <2>2, <2>3
<1>2. QED
  BY <1>1, ReloadInvariant, PTL

\* A closed done channel means that nothing is left and nothing can start.
THEOREM DoneMeansQuiet == Spec => []DoneIsQuiet
<1>1. ReloadInv => DoneIsQuiet
  BY DEF ReloadInv, FlagInv, QuietInv, DoneIsQuiet, Running
<1>2. QED
  BY <1>1, ReloadInvariant, PTL

\* After a stop no call of the client and no callback starts.
THEOREM SilenceAfterStop == Spec => NothingStartsAfterStop
<1>1. ReloadInv /\ [Next]_vars =>
        [stopped => \A l \in Loops : loop'[l] \in Calls => loop'[l] = loop[l]]_vars
  <2> SUFFICES ASSUME ReloadInv, Next, stopped, NEW k \in Loops, loop'[k] \in Calls
               PROVE  loop'[k] = loop[k]
    OBVIOUS
  <2>0. TypeOK
    BY DEF ReloadInv
  <2>1. CASE UNCHANGED loop
    BY <2>1
  <2>2. ASSUME NEW l \in Loops, Cycle(l) PROVE loop'[k] = loop[k]
    <3>1. PICK pc \in {"none", "attempt", "backoff", "finish"} : Goto(l, pc)
      BY <2>2 DEF Cycle, StartCycle, GiveUp, CallReturns, CallPanics, Backoff,
                  Again, Finish, Retry, MayStartWork
    <3>2. loop'[l] = pc /\ (k # l => loop'[k] = loop[k])
      BY <2>0, <3>1, GotoMoves
    <3>3. pc \notin Calls
      BY DEF Calls, ClientCalls
    <3>4. QED
      BY <3>2, <3>3
  <2>3. CASE \/ Poller \/ PollExit \/ RequestStop \/ Edit \/ CancelParent
             \/ \E w \in Watchers : WatchRead(w) \/ WatchPublish(w)
             \/ \E r \in Reloaders : ReloadCheck(r) \/ ReloadSchedule(r)
    <3>1. UNCHANGED loop
      BY <2>3 DEF Poller, Probe, Compare, PollSchedule, PollExit, RequestStop,
                  Edit, CancelParent, WatchRead, WatchPublish, ReloadCheck,
                  ReloadSchedule, ScheduleReconnect, loopVars
    <3>2. QED
      BY <3>1
  <2>4. QED
    BY <2>2, <2>3 DEF Next
<1>2. QED
  BY <1>1, ReloadInvariant, PTL DEF Spec, NothingStartsAfterStop

\* What Stop and Wait report is final.
THEOREM ReportedErrorIsFinal == Spec => StopErrorIsFinal
<1>1. ReloadInv /\ [Next]_vars => [doneClosed => stopErr' = stopErr]_vars
  <2> SUFFICES ASSUME ReloadInv, Next, doneClosed PROVE stopErr' = stopErr
    OBVIOUS
  <2>1. \A l \in Loops : loop[l] = "none"
    BY DEF ReloadInv, FlagInv, QuietInv
  <2>2. ASSUME NEW l \in Loops, Cycle(l) PROVE stopErr' = stopErr
    <3>1. ~CallPanics(l)
      BY <2>1 DEF CallPanics, Calls, ClientCalls
    <3>2. QED
      BY <2>2, <3>1 DEF Cycle, StartCycle, GiveUp, CallReturns, Backoff, Again,
                        Finish, stopVars
  <2>3. CASE \/ Poller \/ PollExit \/ RequestStop \/ Edit \/ CancelParent
             \/ \E w \in Watchers : WatchRead(w) \/ WatchPublish(w)
             \/ \E r \in Reloaders : ReloadCheck(r) \/ ReloadSchedule(r)
    BY <2>3 DEF Poller, Probe, Compare, PollSchedule, PollExit, RequestStop,
                Edit, CancelParent, WatchRead, WatchPublish, ReloadCheck,
                ReloadSchedule, stopVars
  <2>4. QED
    BY <2>2, <2>3 DEF Next
<1>2. QED
  BY <1>1, ReloadInvariant, PTL DEF Spec, StopErrorIsFinal

-----------------------------------------------------------------------------
(* Nothing is waited for in vain *)

\* A reloader that was stopped and has nothing left has closed its done channel,
\* and a reload that was accepted is kept, as the pending mark or by a goroutine
\* that is about to begin its cycle (maybeCloseDoneLocked, scheduleReconnect and
\* the end of reconnectLoop).
NothingIsForgotten ==
    /\ stopped /\ Running = {} /\ poll \in {"none", "exited"} => doneClosed
    /\ \A r \in Reloaders : rcall[r] = "scheduled" =>
          pending \/ (\E l \in Loops : loop[l] = "attempt") \/ stopped \/ parentDone

\* The first part as the code decides it.
DoneWillClose == stopped /\ ~connecting /\ poll \in {"none", "exited"} => doneClosed

\* A step looks whether it was the last, or changes nothing that would make it so.
LEMMA LastLooks ==
    ASSUME TypeOK, Next
    PROVE  \/ MaybeCloseDone
           \/ /\ UNCHANGED <<stopped, doneClosed>> /\ (connecting => connecting')
              /\ stopped /\ poll' \in {"none", "exited"} => poll' = poll
<1> DEFINE Goal == \/ MaybeCloseDone
                   \/ /\ UNCHANGED <<stopped, doneClosed>> /\ (connecting => connecting')
                      /\ stopped /\ poll' \in {"none", "exited"} => poll' = poll
<1> SUFFICES Goal
  OBVIOUS
<1>1. ASSUME NEW w \in Watchers, WatchRead(w) \/ WatchPublish(w) PROVE Goal
  BY <1>1 DEF WatchRead, WatchPublish, stopVars, loopVars, pollVars
<1>2. ASSUME NEW r \in Reloaders, ReloadCheck(r) \/ ReloadSchedule(r) PROVE Goal
  BY <1>2 DEF ReloadCheck, ReloadSchedule, ScheduleReconnect, stopVars, loopVars, pollVars
<1>3. ASSUME NEW l \in Loops, Cycle(l) PROVE Goal
  <2>1. CASE CallPanics(l) \/ Finish(l)
    <3>1. MaybeCloseDone
      BY <2>1 DEF CallPanics, Finish
    <3>2. QED
      BY <3>1
  <2>2. CASE StartCycle(l) \/ GiveUp(l) \/ CallReturns(l) \/ Backoff(l) \/ Again(l)
    <3>1. UNCHANGED <<stopped, doneClosed, connecting, poll>>
      BY <2>2, Zenon DEF StartCycle, GiveUp, CallReturns, Backoff, Again, stopVars, pollVars
    <3>2. QED
      BY <3>1
  <2>3. QED
    BY <1>3, <2>1, <2>2 DEF Cycle
<1>4. CASE Poller
  BY <1>4 DEF Poller, Probe, Compare, PollSchedule, ScheduleReconnect, stopVars, loopVars
<1>5. CASE PollExit \/ RequestStop
  <2>1. MaybeCloseDone
    BY <1>5 DEF PollExit, RequestStop
  <2>2. QED
    BY <2>1
<1>6. CASE Edit \/ CancelParent
  BY <1>6 DEF Edit, CancelParent, stopVars, loopVars, pollVars
<1>7. QED
  BY <1>1, <1>2, <1>3, <1>4, <1>5, <1>6 DEF Next

LEMMA DoneStep == ReloadInv /\ DoneWillClose /\ [Next]_vars => DoneWillClose'
<1> SUFFICES ASSUME ReloadInv, DoneWillClose, [Next]_vars PROVE DoneWillClose'
  OBVIOUS
<1>1. CASE Next
  BY <1>1, LastLooks DEF ReloadInv, DoneWillClose, MaybeCloseDone
<1>2. CASE UNCHANGED vars
  BY <1>2 DEF DoneWillClose, vars, stopVars, loopVars, pollVars
<1>3. QED
  BY <1>1, <1>2

Attempting == \E l \in Loops : loop[l] = "attempt"

Kept == pending \/ Attempting \/ stopped \/ parentDone

\* Asking for a cycle keeps it.
LEMMA ScheduleHolds ==
    ASSUME TypeOK, ScheduleReconnect, UNCHANGED <<stopped, parentDone>>
    PROVE  Kept'
<1>1. ASSUME NEW l \in Loops, loop' = [loop EXCEPT ![l] = "attempt"] PROVE Attempting'
  <2>1. loop'[l] = "attempt"
    BY <1>1 DEF TypeOK
  <2>2. QED
    BY <2>1 DEF Attempting
<1>2. CASE stopped
  BY <1>2 DEF Kept
<1>3. CASE pending' = TRUE
  BY <1>3 DEF Kept
<1>4. QED
  BY <1>1, <1>2, <1>3 DEF ScheduleReconnect, Kept

\* Until its cycle begins a request stays kept.
LEMMA KeptStep ==
    ASSUME ReloadInv, [Next]_vars, Kept
    PROVE  \/ Kept'
           \/ \A r \in Reloaders : rcall'[r] # "scheduled"
<1> DEFINE Goal == Kept' \/ \A r \in Reloaders : rcall'[r] # "scheduled"
<1> SUFFICES Goal
  OBVIOUS
<1>0. TypeOK /\ FlagInv
  BY DEF ReloadInv
<1>1. CASE UNCHANGED <<pending, loop, stopped>> /\ (parentDone => parentDone')
  BY <1>1 DEF Kept, Attempting
<1>2. CASE stopped'
  BY <1>2 DEF Kept
<1>3. CASE ScheduleReconnect /\ UNCHANGED <<stopped, parentDone>>
  BY <1>0, <1>3, ScheduleHolds
<1>4. ASSUME NEW l \in Loops, Cycle(l) PROVE Goal
  <2>1. CASE StartCycle(l)
    <3>1. \A r \in Reloaders : rcall'[r] # "scheduled"
      BY <2>1 DEF StartCycle
    <3>2. QED
      BY <3>1
  <2>2. CASE GiveUp(l)
    <3>1. stopped \/ parentDone
      BY <2>2 DEF GiveUp, MayStartWork, CtxDone
    <3>2. UNCHANGED <<stopped, parentDone>>
      BY <2>2 DEF GiveUp, stopVars
    <3>3. QED
      BY <3>1, <3>2 DEF Kept
  <2>3. CASE CallPanics(l)
    BY <1>2, <2>3 DEF CallPanics, RequestStopLocked
  <2>4. CASE Again(l) \/ (Backoff(l) /\ ~stopped)
    <3>1. loop'[l] = "attempt"
      BY <1>0, <2>4, GotoMoves DEF Again, Backoff
    <3>2. QED
      BY <3>1 DEF Kept, Attempting
  <2>5. CASE Backoff(l) /\ stopped
    BY <1>2, <2>5 DEF Backoff, stopVars
  <2>6. CASE Finish(l)
    <3>1. loop[l] = "finish" /\ (pending => stopped) /\ UNCHANGED <<stopped, parentDone>>
      BY <2>6 DEF Finish
    <3>2. \A k \in Loops : loop[k] # "attempt"
      BY <1>0, <3>1 DEF FlagInv
    <3>3. QED
      BY <3>1, <3>2 DEF Kept, Attempting
  <2>7. CASE CallReturns(l)
    <3>1. loop[l] # "attempt" /\ UNCHANGED <<pending, stopped, parentDone>> /\ \E pc : Goto(l, pc)
      BY <2>7 DEF CallReturns, Retry, ClientCalls, stopVars
    <3>2. \A k \in Loops : loop[k] = "attempt" => loop'[k] = "attempt"
      BY <1>0, <3>1, GotoMoves
    <3>3. QED
      BY <3>1, <3>2 DEF Kept, Attempting
  <2>8. QED
    BY <1>4, <2>1, <2>2, <2>3, <2>4, <2>5, <2>6, <2>7 DEF Cycle
<1>5. CASE \/ \E w \in Watchers : WatchRead(w) \/ WatchPublish(w)
           \/ \E r \in Reloaders : ReloadCheck(r)
           \/ Probe \/ Compare \/ PollExit \/ Edit \/ CancelParent \/ UNCHANGED vars
  <2>1. UNCHANGED <<pending, loop, stopped>> /\ (parentDone => parentDone')
    BY <1>5 DEF WatchRead, WatchPublish, ReloadCheck, Probe, Compare, PollExit, Edit, CancelParent,
                vars, stopVars, loopVars
  <2>2. QED
    BY <1>1, <2>1
<1>6. CASE RequestStop
  BY <1>2, <1>6 DEF RequestStop, RequestStopLocked
<1>7. CASE PollSchedule \/ \E r \in Reloaders : ReloadSchedule(r)
  BY <1>3, <1>7 DEF PollSchedule, ReloadSchedule, stopVars
<1>8. QED
  BY <1>4, <1>5, <1>6, <1>7 DEF Next, Poller

KeptInv == (\E r \in Reloaders : rcall[r] = "scheduled") => Kept

LEMMA KeptAlways == ReloadInv /\ KeptInv /\ [Next]_vars => KeptInv'
<1> SUFFICES ASSUME ReloadInv, KeptInv, [Next]_vars PROVE KeptInv'
  OBVIOUS
<1>0. TypeOK
  BY DEF ReloadInv
<1>1. CASE Kept
  BY <1>1, KeptStep DEF KeptInv
<1>2. CASE \E r \in Reloaders : ReloadSchedule(r)
  BY <1>0, <1>2, ScheduleHolds DEF ReloadSchedule, stopVars, KeptInv
<1>3. CASE ~Kept /\ ~\E r \in Reloaders : ReloadSchedule(r)
  <2>1. \A r \in Reloaders : rcall[r] # "scheduled"
    BY <1>3 DEF KeptInv
  <2>2. CASE UNCHANGED rcall
    BY <2>1, <2>2 DEF KeptInv
  <2>3. ASSUME NEW q \in Reloaders, ReloadCheck(q) PROVE KeptInv'
    BY <1>0, <2>1, <2>3 DEF ReloadCheck, KeptInv, TypeOK
  <2>4. ASSUME NEW l \in Loops, StartCycle(l) PROVE KeptInv'
    BY <2>4 DEF StartCycle, KeptInv
  <2>5. ASSUME [Next]_vars, \A q \in Reloaders : ~ReloadCheck(q), \A l \in Loops : ~StartCycle(l)
        PROVE  UNCHANGED rcall
    BY <1>3, <2>5, Zenon DEF Next, WatchRead, WatchPublish, Cycle, GiveUp, CallReturns, CallPanics, Backoff,
       Again, Finish, Poller, Probe, Compare, PollSchedule, PollExit, RequestStop, Edit,
       CancelParent, vars
  <2>6. QED
    BY <2>2, <2>3, <2>4, <2>5
<1>4. QED
  BY <1>1, <1>2, <1>3

\* RequestStop, Reload and the poller: a stop is always followed by the done
\* channel when the last of poller and cycle is gone, and a reload that was
\* accepted is not lost to a cycle that was just ending.
THEOREM RequestsAreKept == Spec => []NothingIsForgotten
<1>1. Init => DoneWillClose /\ KeptInv
  BY DEF Init, DoneWillClose, KeptInv
<1>2. ReloadInv /\ DoneWillClose /\ KeptInv => NothingIsForgotten
  BY DEF ReloadInv, FlagInv, DoneWillClose, KeptInv, Kept, Attempting, NothingIsForgotten, Running
<1>3. QED
  BY <1>1, <1>2, DoneStep, KeptAlways, ReloadInvariant, PTL DEF Spec

==============================================================================
