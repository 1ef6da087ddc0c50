---------------------------- MODULE CircuitBreaker ----------------------------
(***************************************************************************)
(* DefaultCircuitBreaker (internal/production/circuit.go) with the         *)
(* streaming admissions of circuit_breaker.go.                             *)
(*                                                                         *)
(* A call is one Execute or one stream ticket.  Every action is a critical *)
(* section under the breaker's mutex, or the compare-and-swap with which a *)
(* ticket claims its only completion.  What a call returns, and the        *)
(* fallback that a refused Execute may run instead, touch no state of the  *)
(* breaker: a refused call stays "new" and may be tried again.             *)
(***************************************************************************)
EXTENDS Naturals, FiniteSets

CONSTANTS
    Calls,
    FailureThreshold,
    HalfOpenMaxCalls,
    SuccessThreshold,
    MaxResets          \* bound on operator resets

ASSUME BreakerAssumption ==
    /\ IsFiniteSet(Calls)
    /\ FailureThreshold \in Nat \ {0}
    /\ HalfOpenMaxCalls \in Nat \ {0}
    /\ SuccessThreshold \in Nat \ {0}
    /\ MaxResets \in Nat

VARIABLES
    state, generation, consecutiveFailures, halfOpenCalls, halfOpenSuccesses,
    recovered,  \* the recovery timeout has elapsed since openedAt
    call,       \* per call: where it stands
    gen,        \* per call: the generation that admitted it
    outcome,    \* per call: how it ended
    resets      \* Reset calls so far

countVars   == <<consecutiveFailures, halfOpenCalls, halfOpenSuccesses>>
breakerVars == <<state, generation, countVars, recovered>>
callVars    == <<call, gen, outcome>>
vars == <<breakerVars, callVars, resets>>

CircuitStates == {"closed", "open", "half_open"}
Outcomes      == {"succeeded", "failed", "neutral"}
CallStates    == {"new", "executing", "executed", "streaming", "completing", "completed"}

Init ==
    /\ state = "closed" /\ generation = 0 /\ recovered = FALSE
    /\ consecutiveFailures = 0 /\ halfOpenCalls = 0 /\ halfOpenSuccesses = 0
    /\ call = [c \in Calls |-> "new"]
    /\ gen = [c \in Calls |-> 0]
    /\ outcome = [c \in Calls |-> "none"]
    /\ resets = 0

-----------------------------------------------------------------------------
(* Admission *)

RecoveryElapses ==
    /\ state = "open" /\ ~recovered
    /\ recovered' = TRUE
    /\ UNCHANGED <<state, generation, countVars, callVars, resets>>

Admit(c, how) ==
    /\ call' = [call EXCEPT ![c] = how]
    /\ gen' = [gen EXCEPT ![c] = generation']
    /\ UNCHANGED <<outcome, resets>>

\* The first call after the timeout takes the first probe slot.
StartProbing ==
    /\ state = "open" /\ recovered
    /\ state' = "half_open" /\ generation' = generation + 1
    /\ halfOpenCalls' = 1 /\ halfOpenSuccesses' = 0
    /\ UNCHANGED <<consecutiveFailures, recovered>>

\* Variant: one probe too many.
ProbeOneTooMany ==
    /\ state = "half_open" /\ halfOpenCalls <= HalfOpenMaxCalls
    /\ halfOpenCalls' = halfOpenCalls + 1
    /\ UNCHANGED <<state, generation, consecutiveFailures, halfOpenSuccesses, recovered>>

Probe ==
    /\ state = "half_open" /\ halfOpenCalls < HalfOpenMaxCalls
    /\ halfOpenCalls' = halfOpenCalls + 1
    /\ UNCHANGED <<state, generation, consecutiveFailures, halfOpenSuccesses, recovered>>

PassClosed == state = "closed" /\ UNCHANGED breakerVars

allowLocked == PassClosed \/ StartProbing \/ Probe

Execute(c) == call[c] = "new" /\ allowLocked /\ Admit(c, "executing")

\* BeginStream clears the probe count and then takes a slot of it.
BeginStream(c) == call[c] = "new" /\ allowLocked /\ Admit(c, "streaming")

-----------------------------------------------------------------------------
(* Outcomes *)

Trip ==
    /\ state' = "open" /\ generation' = generation + 1 /\ recovered' = FALSE

\* The stream variant also clears the probe counters, which are zero already.
FailClosed ==
    /\ state = "closed"
    /\ consecutiveFailures' = consecutiveFailures + 1
    /\ IF consecutiveFailures + 1 >= FailureThreshold
       THEN Trip ELSE UNCHANGED <<state, generation, recovered>>
    /\ UNCHANGED <<halfOpenCalls, halfOpenSuccesses>>

SucceedClosed ==
    /\ state = "closed"
    /\ consecutiveFailures' = 0
    /\ UNCHANGED <<state, generation, halfOpenCalls, halfOpenSuccesses, recovered>>

FailProbe ==
    /\ state = "half_open"
    /\ Trip
    /\ halfOpenCalls' = 0 /\ halfOpenSuccesses' = 0
    /\ UNCHANGED consecutiveFailures

SucceedProbe ==
    /\ state = "half_open"
    /\ IF halfOpenSuccesses + 1 >= SuccessThreshold
       THEN /\ state' = "closed" /\ generation' = generation + 1
            /\ consecutiveFailures' = 0
            /\ halfOpenCalls' = 0 /\ halfOpenSuccesses' = 0
       ELSE /\ halfOpenSuccesses' = halfOpenSuccesses + 1
            /\ UNCHANGED <<state, generation, consecutiveFailures, halfOpenCalls>>
    /\ UNCHANGED recovered

\* Variant: a canceled probe keeps its slot.
NeutralKeepsSlot == UNCHANGED breakerVars

\* Only streams end neutrally: the probe's slot is free again.
Neutral ==
    \/ /\ state = "half_open" /\ halfOpenCalls > 0
       /\ halfOpenCalls' = halfOpenCalls - 1
       /\ UNCHANGED <<state, generation, consecutiveFailures, halfOpenSuccesses, recovered>>
    \/ /\ ~(state = "half_open" /\ halfOpenCalls > 0)
       /\ UNCHANGED breakerVars

Record(how) ==
    \/ how = "succeeded" /\ (SucceedClosed \/ SucceedProbe)
    \/ how = "failed" /\ (FailClosed \/ FailProbe)
    \/ how = "neutral" /\ Neutral

\* Variant: an outcome counts whatever generation admitted the call.
SettleAnyGeneration(c, how) ==
    IF state # "open" THEN Record(how) ELSE UNCHANGED breakerVars

\* An outcome counts only in the generation that admitted the call, and no
\* generation that admits calls is open.
Settle(c, how) ==
    IF gen[c] = generation /\ state # "open"
    THEN Record(how)
    ELSE UNCHANGED breakerVars

\* record: a panic of fn counts as a failure.
EndExecute(c, how) ==
    /\ call[c] = "executing"
    /\ how \in {"succeeded", "failed"}
    /\ Settle(c, how)
    /\ call' = [call EXCEPT ![c] = "executed"]
    /\ outcome' = [outcome EXCEPT ![c] = how]
    /\ UNCHANGED <<gen, resets>>

\* The compare-and-swap: of several completions one goes on to the lock.
Complete(c, how) ==
    /\ call[c] = "streaming"
    /\ call' = [call EXCEPT ![c] = "completing"]
    /\ outcome' = [outcome EXCEPT ![c] = how]
    /\ UNCHANGED <<breakerVars, gen, resets>>

CompleteLocked(c) ==
    /\ call[c] = "completing"
    /\ Settle(c, outcome[c])
    /\ call' = [call EXCEPT ![c] = "completed"]
    /\ UNCHANGED <<gen, outcome, resets>>

Reset ==
    /\ resets < MaxResets /\ resets' = resets + 1
    /\ state' = "closed" /\ generation' = generation + 1
    /\ consecutiveFailures' = 0 /\ halfOpenCalls' = 0 /\ halfOpenSuccesses' = 0
    /\ UNCHANGED <<recovered, callVars>>

CallStep(c) ==
    \/ \E how \in Outcomes : EndExecute(c, how) \/ Complete(c, how)
    \/ CompleteLocked(c)

Next ==
    \/ \E c \in Calls : Execute(c) \/ BeginStream(c) \/ CallStep(c)
    \/ RecoveryElapses
    \/ Reset

Spec == Init /\ [][Next]_vars

-----------------------------------------------------------------------------
(* Properties *)

TypeOK ==
    /\ state \in CircuitStates /\ generation \in Nat /\ recovered \in BOOLEAN
    /\ consecutiveFailures \in Nat /\ halfOpenCalls \in Nat /\ halfOpenSuccesses \in Nat
    /\ call \in [Calls -> CallStates]
    /\ gen \in [Calls -> Nat]
    /\ outcome \in [Calls -> Outcomes \cup {"none"}]
    /\ resets \in Nat

InFlight(c) == call[c] \in {"executing", "streaming", "completing"}
Probing     == {c \in Calls : InFlight(c) /\ gen[c] = generation}
Counted(how) ==
    {c \in Calls : call[c] \in {"executed", "completed"} /\ gen[c] = generation /\ outcome[c] = how}

\* "HalfOpenMaxCalls bounds the calls permitted while probing in HalfOpen"
\* (CircuitBreakerConfig), those of earlier generations aside, however the
\* completions of tickets race with admissions.
ProbesBounded ==
    state = "half_open" => Cardinality(Probing \cup Counted("succeeded")) <= HalfOpenMaxCalls

\* No probe slot leaks: when no probe is in flight there is room for another,
\* so a half-open breaker can still decide (allowLocked, Complete).  It takes
\* thresholds that let it: HalfOpenMaxCalls at least SuccessThreshold.
NoStuckProbe ==
    SuccessThreshold <= HalfOpenMaxCalls =>
        (state = "half_open" /\ Probing = {} => halfOpenCalls < HalfOpenMaxCalls)

\* The probe slots: neither exceeded nor lost.
ProbeSlots == ProbesBounded /\ NoStuckProbe

\* The breaker trips on failures, and closes on successes, of calls that were
\* admitted since its last transition: the late answer of an earlier period
\* neither opens nor closes it (record, Complete).
EvidenceIsFresh ==
    [][/\ state = "closed" /\ state' = "open" =>
            \E e \in Calls : Cardinality(Counted("failed") \cup {e}) >= FailureThreshold
                             /\ gen[e] = generation /\ outcome'[e] = "failed"
       /\ state = "half_open" /\ state' = "closed" =>
            \/ Reset
            \/ \E e \in Calls : Cardinality(Counted("succeeded") \cup {e}) >= SuccessThreshold
                                /\ gen[e] = generation /\ outcome'[e] = "succeeded"]_vars

-----------------------------------------------------------------------------
(* Liveness *)

\* Admitted calls end, time passes, and callers keep trying: while one of
\* them can go on, one of them does.
Progress ==
    \/ RecoveryElapses
    \/ \E c \in Calls : CallStep(c) \/ Execute(c) \/ BeginStream(c)

FairSpec == Spec /\ WF_vars(Progress)

\* While callers keep trying, a breaker neither stays open nor keeps probing:
\* no order of outcomes, cancellations and resets uses up its probe slots for
\* good (allowLocked, BeginStream, Complete).
Decides ==
    state # "closed" ~> state = "closed" \/ \A c \in Calls : call[c] # "new"
=============================================================================
