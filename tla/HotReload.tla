------------------------------ MODULE HotReload ------------------------------
(***************************************************************************)
(* The reloader of MCP servers (internal/mcp/hot_reload.go).  A poller     *)
(* compares the configuration with what it saw last and asks for a         *)
(* reconnect cycle; so does Reload.  One goroutine at a time runs cycles,  *)
(* with retries; a request that arrives while it runs is kept as pending.  *)
(* RequestStop refuses new work, and the done channel closes when poller   *)
(* and cycle have returned.                                                *)
(*                                                                         *)
(* A cycle either calls the configuration callback (mode.config) or        *)
(* Disconnect, Connect, ListTools and the registration of the tools.  The  *)
(* poller probes either a revision of all the sources (mode.revision, with *)
(* the published revision as the first baseline) or the selected file,     *)
(* whose baseline Watch reads.  A configuration is the number of its edit. *)
(***************************************************************************)
EXTENDS Naturals, FiniteSets

CONSTANTS Watchers, Reloaders,  \* calls of Watch and of Reload
          Loops,                \* goroutines that run cycles
          Modes,                \* how reloaders are built
          CanCancel,            \* whether the context of Watch may end
          MaxRetries, MaxEdits, MaxProbeErrors

ASSUME HotReloadAssumption ==
  /\ Modes \subseteq [config : BOOLEAN, revision : BOOLEAN]
  /\ CanCancel \in BOOLEAN
  /\ {MaxRetries, MaxEdits, MaxProbeErrors} \subseteq Nat

VARIABLES
  mode,
  file,         \* the configuration on disk
  parentDone,   \* the context given to Watch has ended
  stopped, doneClosed, stopErr, connecting, pending,
  seen,         \* snapshot or sourceRevisionValue
  poll,         \* where the poller stands
  probe, probeErrors,
  loop, attempt, \* where each cycle goroutine stands
  served,       \* the configuration when the last cycle began
  wcall, wsnap, \* the calls of Watch, and the snapshot each holds
  rcall         \* the calls of Reload

pollVars == <<seen, poll, probe, probeErrors>>
loopVars == <<connecting, pending, loop, attempt>>
stopVars == <<stopped, doneClosed, stopErr>>
callVars == <<wcall, wsnap>>
vars == <<mode, file, parentDone, stopVars, loopVars, pollVars, served, callVars,
          rcall>>

ProbeError == MaxEdits + 1
Versions == 0 .. MaxEdits
ClientCalls == {"disconnect", "connect", "list"}
Calls == ClientCalls \cup {"register", "config"}
Running == {l \in Loops : loop[l] # "none"}

TypeOK ==
  /\ file \in Versions /\ served \in Versions
  /\ seen \in Versions \cup {ProbeError}
  /\ probe \in Versions \cup {ProbeError}
  /\ probeErrors \in 0 .. MaxProbeErrors
  /\ {parentDone, stopped, doneClosed, connecting, pending} \subseteq BOOLEAN
  /\ stopErr \in {"none", "callback", "worker"}
  /\ poll \in {"none", "start", "ready", "probed", "changed", "exited"}
  /\ loop \in [Loops -> Calls \cup {"none", "attempt", "backoff", "finish"}]
  /\ attempt \in [Loops -> 0 .. MaxRetries]
  /\ wcall \in [Watchers -> {"idle", "read", "watching", "refused"}]
  /\ wsnap \in [Watchers -> Versions]
  /\ rcall \in [Reloaders ->
                 {"idle", "checked", "refused", "dropped", "scheduled", "served"}]

Init ==
  /\ mode \in Modes
  /\ file = 0 /\ served = 0 /\ seen = 0 /\ probe = 0 /\ probeErrors = 0
  /\ parentDone = FALSE /\ stopped = FALSE /\ doneClosed = FALSE
  /\ stopErr = "none" /\ connecting = FALSE /\ pending = FALSE
  /\ poll = "none"
  /\ loop = [l \in Loops |-> "none"]
  /\ attempt = [l \in Loops |-> 0]
  /\ wcall = [w \in Watchers |-> "idle"]
  /\ wsnap = [w \in Watchers |-> 0]
  /\ rcall = [r \in Reloaders |-> "idle"]

(* The poll context: stopping cancels it, and so does its parent. *)
CtxDone == parentDone \/ (stopped /\ poll # "none")

MayStartWork == ~stopped /\ ~CtxDone

(* maybeCloseDoneLocked, over the values the step leaves behind. *)

MaybeCloseDone ==
  doneClosed' = (doneClosed \/ ( /\ stopped'
                                 /\ ~connecting'
                                 /\ poll' \in {"none", "exited"} ))

RequestStopLocked == stopped' = TRUE /\ pending' = FALSE

------------------------------------------------------------------------------
(* Watch reads its baseline before it takes the lock. *)
WatchRead(w) ==
  /\ wcall[w] = "idle"
  /\ wcall' = [wcall EXCEPT ![w] = "read"]
  /\ wsnap' = [wsnap EXCEPT ![w] = file]
  /\ UNCHANGED <<file, parentDone, stopVars, loopVars, pollVars, served, rcall>>

\* Variant: whether the reloader is stopped is not tested again under the lock.
WatchPublishLate(w) ==
  /\ wcall[w] = "read" /\ poll = "none"
  /\ wcall' = [wcall EXCEPT ![w] = "watching"]
  /\ poll' = "start"
  /\ seen' = IF mode.revision THEN seen ELSE wsnap[w]
  /\ wsnap' = [wsnap EXCEPT ![w] = 0]
  /\ UNCHANGED <<file, parentDone, stopVars, loopVars, probe, probeErrors,
                 served, rcall>>

WatchPublish(w) ==
  /\ wcall[w] = "read"
  /\ \/ /\ stopped \/ poll # "none"
        /\ wcall' = [wcall EXCEPT ![w] = "refused"]
        /\ UNCHANGED <<seen, poll>>
     \/ /\ ~stopped /\ poll = "none"
        /\ wcall' = [wcall EXCEPT ![w] = "watching"]
        /\ poll' = "start"
        /\ seen' = IF mode.revision THEN seen ELSE wsnap[w]
  /\ wsnap' = [wsnap EXCEPT ![w] = 0]
  /\ UNCHANGED <<file, parentDone, stopVars, loopVars, probe, probeErrors,
                 served, rcall>>

RequestStop ==
  /\ ~stopped
  /\ RequestStopLocked
  /\ UNCHANGED <<connecting, poll>>
  /\ MaybeCloseDone
  /\ UNCHANGED <<file, parentDone, stopErr, loop, attempt, seen, probe,
                 probeErrors, served, callVars, rcall>>

(* scheduleReconnect: nothing, a pending mark, or a new cycle goroutine. *)

ScheduleReconnect ==
  \/ stopped /\ UNCHANGED loopVars
  \/ /\ ~stopped /\ connecting
     /\ pending' = TRUE
     /\ UNCHANGED <<connecting, loop, attempt>>
  \/ /\ ~stopped /\ ~connecting
     /\ connecting' = TRUE
     /\ \E l \in Loops \ Running :
          /\ loop' = [loop EXCEPT ![l] = "attempt"]
          /\ attempt' = [attempt EXCEPT ![l] = 0]
     /\ UNCHANGED pending

(* Reload tests under one lock and schedules under another. *)
ReloadCheck(r) ==
  /\ rcall[r] = "idle"
  /\ rcall' = [rcall EXCEPT ![r] =
                 IF stopped \/ poll = "none" THEN "refused" ELSE "checked"]
  /\ UNCHANGED <<file, parentDone, stopVars, loopVars, pollVars, served,
                 callVars>>

ReloadSchedule(r) ==
  /\ rcall[r] = "checked"
  /\ ScheduleReconnect
  /\ rcall' = [rcall EXCEPT ![r] = IF stopped THEN "dropped" ELSE "scheduled"]
  /\ UNCHANGED <<file, parentDone, stopVars, pollVars, served, callVars>>

------------------------------------------------------------------------------
(* The poller: a probe outside the lock, the comparison under it, and the  *)
(* request under it again.  The first probe comes before the first select. *)
Probe ==
  /\ poll \in {"start", "ready"}
  /\ poll' = "probed"
  /\ \/ probe' = file /\ UNCHANGED probeErrors
     \/ /\ mode.revision /\ probeErrors < MaxProbeErrors
        /\ probe' = ProbeError
        /\ probeErrors' = probeErrors + 1
  /\ UNCHANGED <<file, parentDone, stopVars, loopVars, seen, served, callVars,
                 rcall>>

Compare ==
  /\ poll = "probed"
  /\ seen' = probe
  /\ poll' = IF probe # seen THEN "changed" ELSE "ready"
  /\ UNCHANGED <<file, parentDone, stopVars, loopVars, probe, probeErrors,
                 served, callVars, rcall>>

PollSchedule ==
  /\ poll = "changed"
  /\ ScheduleReconnect
  /\ poll' = "ready"
  /\ UNCHANGED <<file, parentDone, stopVars, seen, probe, probeErrors, served,
                 callVars, rcall>>

\* Variant: the poller does not look whether it was the last to leave.
PollExitSilent ==
  /\ poll = "ready" /\ CtxDone
  /\ poll' = "exited"
  /\ UNCHANGED <<file, parentDone, stopVars, loopVars, seen, probe,
                 probeErrors, served, callVars, rcall>>

PollExit ==
  /\ poll = "ready" /\ CtxDone
  /\ poll' = "exited"
  /\ UNCHANGED <<stopped, connecting>>
  /\ MaybeCloseDone
  /\ UNCHANGED <<file, parentDone, stopErr, pending, loop, attempt, seen, probe,
                 probeErrors, served, callVars, rcall>>

------------------------------------------------------------------------------
(* The cycle goroutine. *)
Goto(l, pc) == loop' = [loop EXCEPT ![l] = pc]

(* runCycle begins with the configuration as it is now. *)
StartCycle(l) ==
  /\ loop[l] = "attempt" /\ MayStartWork
  /\ Goto(l, IF mode.config THEN "config" ELSE "disconnect")
  /\ served' = file
  /\ rcall' = [r \in Reloaders |->
                 IF rcall[r] = "scheduled" THEN "served" ELSE rcall[r]]
  /\ UNCHANGED <<file, parentDone, stopVars, connecting, pending, attempt,
                 pollVars, callVars>>

GiveUp(l) ==
  /\ loop[l] = "attempt" /\ ~MayStartWork
  /\ Goto(l, "finish")
  /\ UNCHANGED <<file, parentDone, stopVars, connecting, pending, attempt,
                 pollVars, served, callVars, rcall>>

Retry(l) == Goto(l, IF attempt[l] >= MaxRetries THEN "finish" ELSE "backoff")

(* The call of the client or of a callback returns.  An error of           *)
(* Disconnect is only logged, and the other calls of the client are        *)
(* retried; the callback's error is a finished attempt.                    *)
Following == [disconnect |-> "connect", connect |-> "list", list |-> "register"]

\* Variant: the tools are registered without another look at the stop.
CallReturnsUnchecked(l) ==
  /\ \/ /\ loop[l] \in ClientCalls
        /\ IF MayStartWork \/ loop[l] = "list"
           THEN Goto(l, Following[loop[l]]) ELSE Retry(l)
     \/ loop[l] \in {"connect", "list"} /\ Retry(l)
     \/ loop[l] = "register" /\ (IF MayStartWork THEN Goto(l, "finish") ELSE Retry(l))
     \/ loop[l] = "config" /\ Goto(l, "finish")
  /\ UNCHANGED <<file, parentDone, stopVars, connecting, pending, attempt,
                 pollVars, served, callVars, rcall>>

CallReturns(l) ==
  /\ \/ /\ loop[l] \in ClientCalls
        /\ IF MayStartWork THEN Goto(l, Following[loop[l]]) ELSE Retry(l)
     \/ loop[l] \in {"connect", "list"} /\ Retry(l)
     \/ loop[l] = "register" /\ (IF MayStartWork THEN Goto(l, "finish") ELSE Retry(l))
     \/ loop[l] = "config" /\ Goto(l, "finish")
  /\ UNCHANGED <<file, parentDone, stopVars, connecting, pending, attempt,
                 pollVars, served, callVars, rcall>>

(* A panic in a call stops the reloader for good, with the first error. *)
CallPanics(l) ==
  /\ loop[l] \in Calls
  /\ stopErr' = IF stopErr # "none" THEN stopErr
                ELSE IF loop[l] \in ClientCalls THEN "worker" ELSE "callback"
  /\ RequestStopLocked
  /\ connecting' = FALSE
  /\ Goto(l, "none")
  /\ UNCHANGED poll
  /\ MaybeCloseDone
  /\ UNCHANGED <<file, parentDone, attempt, seen, probe, probeErrors, served,
                 callVars, rcall>>

Backoff(l) ==
  /\ loop[l] = "backoff"
  /\ IF stopped
     THEN Goto(l, "finish") /\ UNCHANGED attempt
     ELSE /\ Goto(l, "attempt")
          /\ attempt' = [attempt EXCEPT ![l] = @ + 1]
  /\ UNCHANGED <<file, parentDone, stopVars, connecting, pending, pollVars,
                 served, callVars, rcall>>

(* A pending request gets a cycle of its own, in the same goroutine. *)
Again(l) ==
  /\ loop[l] = "finish" /\ pending /\ ~stopped
  /\ pending' = FALSE
  /\ Goto(l, "attempt")
  /\ attempt' = [attempt EXCEPT ![l] = 0]
  /\ UNCHANGED <<file, parentDone, stopVars, connecting, pollVars, served,
                 callVars, rcall>>

\* Variant: the pending request is forgotten.
FinishForgets(l) ==
  /\ loop[l] = "finish"
  /\ pending' = FALSE
  /\ connecting' = FALSE
  /\ Goto(l, "none")
  /\ UNCHANGED <<stopped, poll>>
  /\ MaybeCloseDone
  /\ UNCHANGED <<file, parentDone, stopErr, attempt, seen, probe, probeErrors,
                 served, callVars, rcall>>

Finish(l) ==
  /\ loop[l] = "finish" /\ ~(pending /\ ~stopped)
  /\ pending' = FALSE
  /\ connecting' = FALSE
  /\ Goto(l, "none")
  /\ UNCHANGED <<stopped, poll>>
  /\ MaybeCloseDone
  /\ UNCHANGED <<file, parentDone, stopErr, attempt, seen, probe, probeErrors,
                 served, callVars, rcall>>

------------------------------------------------------------------------------
(* The surroundings: an editor, and the owner of the watch's context. *)
Edit ==
  /\ file < MaxEdits
  /\ file' = file + 1
  /\ UNCHANGED <<parentDone, stopVars, loopVars, pollVars, served, callVars,
                 rcall>>

CancelParent ==
  /\ CanCancel /\ ~parentDone
  /\ parentDone' = TRUE
  /\ UNCHANGED <<file, stopVars, loopVars, pollVars, served, callVars, rcall>>

Cycle(l) ==
  \/ StartCycle(l) \/ GiveUp(l) \/ CallReturns(l) \/ CallPanics(l)
  \/ Backoff(l) \/ Again(l) \/ Finish(l)

Poller == Probe \/ Compare \/ PollSchedule

Next ==
  /\ \/ \E w \in Watchers : WatchRead(w) \/ WatchPublish(w)
     \/ \E r \in Reloaders : ReloadCheck(r) \/ ReloadSchedule(r)
     \/ \E l \in Loops : Cycle(l)
     \/ Poller \/ PollExit \/ RequestStop
     \/ Edit \/ CancelParent
  /\ UNCHANGED mode

Spec == Init /\ [][Next]_vars

(* The goroutines run and the calls return; the poller's select picks at   *)
(* random, so it sees the end of its context sooner or later.              *)
FairSpec ==
  /\ Spec
  /\ WF_vars(Poller /\ UNCHANGED mode) /\ SF_vars(PollExit /\ UNCHANGED mode)
  /\ WF_vars( /\ \/ \E l \in Loops : Cycle(l)
                 \/ \E r \in Reloaders : ReloadSchedule(r)
              /\ UNCHANGED mode )

------------------------------------------------------------------------------
(* The flag is the goroutine: no two cycles ever run side by side, and a   *)
(* pending request has a goroutine that will find it (scheduleReconnect,   *)
(* the end of reconnectLoop, the panic paths).                             *)
OneCycle ==
  /\ Cardinality(Running) = (IF connecting THEN 1 ELSE 0)
  /\ pending => connecting /\ ~stopped

(* When the done channel is closed neither poller nor cycle is left, and   *)
(* none can start: the owner may release what the callbacks use            *)
(* (maybeCloseDoneLocked, and the launch of the poller under the lock).    *)
DoneIsQuiet ==
  doneClosed => stopped /\ Running = {} /\ poll \in {"none", "exited"}

(* No call to the client and no callback starts after a stop, whatever was *)
(* under way (mayStartWork between the calls of runCycle).                 *)
NothingStartsAfterStop ==
  [][stopped => \A l \in Loops : loop'[l] \in Calls => loop'[l] = loop[l]]_vars

(* What Stop and Wait return never changes once they can return            *)
(* (recordStopErrorLocked before maybeCloseDoneLocked).                    *)
StopErrorIsFinal == [][doneClosed => stopErr' = stopErr]_vars

(* A stop completes: whatever the poller and the cycle were doing, the     *)
(* done channel closes.                                                    *)
StopCompletes == stopped ~> doneClosed

(* No request is lost.  When the configuration differs from what the       *)
(* poller has seen, a cycle begins that finds the latest one; and "Reload  *)
(* manually triggers one reconnect cycle without a file change": a         *)
(* scheduled reload gets a cycle that begins after it.  Unless the         *)
(* reloader is stopped or its context ends.                                *)
RequestsServed ==
  /\ (poll # "none" /\ file # seen) ~> (served = file \/ CtxDone)
  /\ \A r \in Reloaders : rcall[r] = "scheduled" ~> (rcall[r] = "served" \/ CtxDone)

------------------------------------------------------------------------------
==============================================================================
