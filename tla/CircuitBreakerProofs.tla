------------------------- MODULE CircuitBreakerProofs -------------------------
(***************************************************************************)
(* Proofs about CircuitBreaker, for any number of calls and any            *)
(* thresholds.                                                             *)
(*                                                                         *)
(* The heart is ProbeInv: in a half-open period every slot in use belongs  *)
(* either to a probe in flight or to one that succeeded.  A period starts  *)
(* with a new generation, in which nobody was admitted before.             *)
(***************************************************************************)
EXTENDS CircuitBreaker, FiniteSetTheorems, TLAPS

\* No call was admitted in a generation to come.
GenInv == \A c \in Calls : gen[c] <= generation

\* The failures in a row are failures of this period.
ClosedInv ==
    state = "closed" =>
        /\ consecutiveFailures < FailureThreshold
        /\ consecutiveFailures <= Cardinality(Counted("failed"))

ProbeInv ==
    /\ state = "half_open" =>
        /\ halfOpenCalls = Cardinality(Probing) + halfOpenSuccesses
        /\ halfOpenSuccesses = Cardinality(Counted("succeeded"))
        /\ halfOpenSuccesses < SuccessThreshold
        /\ halfOpenCalls <= HalfOpenMaxCalls
    /\ state # "half_open" => halfOpenCalls = 0 /\ halfOpenSuccesses = 0

\* A ticket that was completed has its outcome.
TicketInv == \A c \in Calls : call[c] = "completing" => outcome[c] \in Outcomes

BreakerInv == TypeOK /\ GenInv /\ ClosedInv /\ ProbeInv /\ TicketInv

-----------------------------------------------------------------------------

\* The sets that the counters count are finite.
LEMMA CountedFinite ==
    \A how : /\ IsFiniteSet(Counted(how)) /\ Cardinality(Counted(how)) \in Nat
             /\ IsFiniteSet(Probing) /\ Cardinality(Probing) \in Nat
<1> SUFFICES ASSUME NEW how
             PROVE  /\ IsFiniteSet(Counted(how)) /\ Cardinality(Counted(how)) \in Nat
                    /\ IsFiniteSet(Probing) /\ Cardinality(Probing) \in Nat
  OBVIOUS
<1>1. Counted(how) \in SUBSET Calls /\ Probing \in SUBSET Calls
  BY DEF Counted, Probing
<1>2. QED
  BY <1>1, BreakerAssumption, FS_Subset, FS_CardinalityType

\* A new generation starts with nobody in flight and nothing counted.
LEMMA NewPeriod ==
    ASSUME BreakerInv, generation' = generation + 1, UNCHANGED gen
    PROVE  GenInv' /\ Probing' = {} /\ \A how : Counted(how)' = {}
<1>1. \A c \in Calls : gen[c] \in Nat /\ gen[c] <= generation /\ generation \in Nat
  BY DEF BreakerInv, TypeOK, GenInv
<1>2. \A c \in Calls : gen'[c] <= generation' /\ gen'[c] # generation'
  BY <1>1
<1>3. QED
  BY <1>2 DEF GenInv, Probing, Counted

\* A new breaker satisfies the invariant.
LEMMA BreakerInit == Init => BreakerInv
<1> SUFFICES ASSUME Init PROVE BreakerInv
  OBVIOUS
<1> USE BreakerAssumption DEF Init
<1>1. TypeOK
  BY DEF TypeOK, CircuitStates, CallStates, Outcomes
<1>2. GenInv /\ TicketInv /\ ProbeInv
  BY DEF GenInv, TicketInv, ProbeInv
<1>3. ClosedInv
  BY CountedFinite DEF ClosedInv
<1>4. QED
  BY <1>1, <1>2, <1>3 DEF BreakerInv

\* Admissions, of either kind.
LEMMA AdmitStep ==
    ASSUME BreakerInv, NEW c \in Calls, NEW how \in {"executing", "streaming"},
           call[c] = "new", allowLocked, Admit(c, how)
    PROVE  BreakerInv'
<1> USE BreakerAssumption DEF BreakerInv
<1>1. /\ call' = [call EXCEPT ![c] = how] /\ gen' = [gen EXCEPT ![c] = generation']
      /\ UNCHANGED <<outcome, resets>>
  BY DEF Admit
<1>2. generation' \in {generation, generation + 1} /\ generation' \in Nat
  BY DEF allowLocked, PassClosed, StartProbing, Probe, breakerVars, TypeOK
<1>3. TypeOK'
  <2>1. call' \in [Calls -> CallStates] /\ gen' \in [Calls -> Nat]
    BY <1>1, <1>2 DEF TypeOK, CallStates
  <2>2. state' \in CircuitStates /\ UNCHANGED recovered /\ UNCHANGED consecutiveFailures
    BY DEF allowLocked, PassClosed, StartProbing, Probe, breakerVars, countVars, TypeOK, CircuitStates
  <2>3. halfOpenCalls' \in Nat /\ halfOpenSuccesses' \in Nat
    BY DEF allowLocked, PassClosed, StartProbing, Probe, breakerVars, countVars, TypeOK
  <2>4. QED
    BY <1>1, <1>2, <2>1, <2>2, <2>3 DEF TypeOK
<1>4. GenInv'
  BY <1>1, <1>2 DEF GenInv, TypeOK
<1>5. TicketInv'
  BY <1>1 DEF TicketInv, TypeOK
<1>6. CASE PassClosed
  <2>1. UNCHANGED breakerVars /\ state = "closed"
    BY <1>6 DEF PassClosed
  <2>2. \A h : Counted(h)' = Counted(h)
    BY <1>1, <2>1 DEF Counted, TypeOK, breakerVars
  <2>3. ClosedInv' /\ ProbeInv'
    BY <2>1, <2>2 DEF ClosedInv, ProbeInv, breakerVars, countVars
  <2>4. QED
    BY <1>3, <1>4, <1>5, <2>3
<1>7. CASE StartProbing
  <2>1. /\ state' = "half_open" /\ generation' = generation + 1
        /\ halfOpenCalls' = 1 /\ halfOpenSuccesses' = 0
    BY <1>7 DEF StartProbing
  <2>2. \A d \in Calls \ {c} : gen'[d] = gen[d] /\ gen[d] # generation'
    BY <1>1, <2>1 DEF GenInv, TypeOK
  <2>3. Probing' = {c}
    BY <1>1, <2>2 DEF Probing, InFlight, TypeOK
  <2>4. Counted("succeeded")' = {}
    BY <1>1, <2>2 DEF Counted, TypeOK
  <2>5. Cardinality(Probing') = 1 /\ Cardinality(Counted("succeeded")') = 0
    <3>1. Cardinality({c}) = 1
      BY FS_Singleton
    <3>2. QED
      BY <2>3, <2>4, <3>1, FS_EmptySet
  <2>6. ProbeInv'
    BY <2>1, <2>5 DEF ProbeInv
  <2>7. QED
    BY <1>3, <1>4, <1>5, <2>1, <2>6 DEF ClosedInv
<1>8. CASE Probe
  <2>1. /\ state = "half_open" /\ halfOpenCalls < HalfOpenMaxCalls
        /\ halfOpenCalls' = halfOpenCalls + 1
        /\ UNCHANGED <<state, generation, consecutiveFailures, halfOpenSuccesses, recovered>>
    BY <1>8 DEF Probe
  <2>2. Probing' = Probing \cup {c} /\ c \notin Probing
    BY <1>1, <2>1 DEF Probing, InFlight, TypeOK
  <2>3. Counted("succeeded")' = Counted("succeeded")
    BY <1>1, <2>1 DEF Counted, TypeOK
  <2>4. Cardinality(Probing') = Cardinality(Probing) + 1
    BY <2>2, CountedFinite, FS_AddElement
  <2>5. ProbeInv'
    BY <2>1, <2>3, <2>4, CountedFinite DEF ProbeInv, TypeOK
  <2>6. QED
    BY <1>3, <1>4, <1>5, <2>1, <2>5 DEF ClosedInv
<1>9. QED
  BY <1>6, <1>7, <1>8 DEF allowLocked

\* The end of a call, at the moment its outcome is settled.
Ends(c, how) ==
    /\ InFlight(c) /\ how \in Outcomes
    /\ call' \in {[call EXCEPT ![c] = "executed"], [call EXCEPT ![c] = "completed"]}
    /\ outcome' = [outcome EXCEPT ![c] = how]
    /\ UNCHANGED <<gen, resets>>
    /\ Settle(c, how)

\* How the end of a call changes the sets behind the counters.
LEMMA EndSets ==
    ASSUME TypeOK, NEW c \in Calls, NEW how, Ends(c, how), generation' = generation
    PROVE  /\ gen[c] # generation => Probing' = Probing /\ \A h : Counted(h)' = Counted(h)
           /\ gen[c] = generation =>
                /\ c \in Probing /\ Probing' = Probing \ {c}
                /\ c \notin Counted(how) /\ Counted(how)' = Counted(how) \cup {c}
                /\ \A h : h # how => Counted(h)' = Counted(h)
<1> USE DEF Ends, TypeOK
<1>1. /\ call'[c] \in {"executed", "completed"} /\ outcome'[c] = how /\ gen' = gen
      /\ \A d \in Calls \ {c} : call'[d] = call[d] /\ outcome'[d] = outcome[d]
  OBVIOUS
<1>2. call[c] \notin {"executed", "completed"}
  BY DEF InFlight
<1>3. QED
  BY <1>1, <1>2 DEF Probing, Counted, InFlight

\* The same in numbers.
LEMMA EndCounts ==
    ASSUME TypeOK, NEW c \in Calls, NEW how, Ends(c, how), generation' = generation,
           gen[c] = generation
    PROVE  /\ Cardinality(Probing') = Cardinality(Probing) - 1
           /\ Cardinality(Counted(how)') = Cardinality(Counted(how)) + 1
           /\ \A h : h # how => Counted(h)' = Counted(h)
  BY EndSets, CountedFinite, FS_RemoveElement, FS_AddElement

\* The typing of the counters after an outcome.
LEMMA RecordTypes ==
    ASSUME TypeOK, NEW how, Record(how) \/ UNCHANGED breakerVars
    PROVE  /\ state' \in CircuitStates /\ generation' \in Nat /\ recovered' \in BOOLEAN
           /\ consecutiveFailures' \in Nat /\ halfOpenCalls' \in Nat /\ halfOpenSuccesses' \in Nat
           /\ generation' \in {generation, generation + 1}
<1> USE DEF TypeOK, CircuitStates
<1>1. CASE UNCHANGED breakerVars
  BY <1>1 DEF breakerVars, countVars
<1>2. CASE FailClosed
  <2>1. /\ consecutiveFailures' = consecutiveFailures + 1
        /\ UNCHANGED <<halfOpenCalls, halfOpenSuccesses>>
        /\ \/ state' = "open" /\ generation' = generation + 1 /\ recovered' = FALSE
           \/ UNCHANGED <<state, generation, recovered>>
    BY <1>2 DEF FailClosed, Trip
  <2>2. recovered' \in BOOLEAN
    BY <2>1, Zenon
  <2>3. QED
    BY <2>1, <2>2
<1>5. CASE FailProbe
  <2>1. /\ state' = "open" /\ generation' = generation + 1 /\ recovered' = FALSE
        /\ halfOpenCalls' = 0 /\ halfOpenSuccesses' = 0 /\ UNCHANGED consecutiveFailures
    BY <1>5 DEF FailProbe, Trip
  <2>2. recovered' \in BOOLEAN
    BY <2>1, Zenon
  <2>3. QED
    BY <2>1, <2>2
<1>3. CASE SucceedClosed \/ SucceedProbe
  BY <1>3 DEF SucceedClosed, SucceedProbe
<1>4. CASE Neutral
  BY <1>4 DEF Neutral, breakerVars, countVars
<1>6. QED
  BY <1>1, <1>2, <1>3, <1>4, <1>5 DEF Record

\* Outcomes, of this period or of an earlier one.
LEMMA EndStep ==
    ASSUME BreakerInv, NEW c \in Calls, NEW how, Ends(c, how)
    PROVE  BreakerInv'
<1> USE BreakerAssumption DEF BreakerInv
<1>1. Record(how) \/ UNCHANGED breakerVars
  BY DEF Ends, Settle
<1>2. TypeOK'
  <2>1. call' \in [Calls -> CallStates] /\ outcome' \in [Calls -> Outcomes \cup {"none"}]
    BY DEF Ends, TypeOK, CallStates
  <2>2. gen' \in [Calls -> Nat] /\ resets' \in Nat
    BY DEF Ends, TypeOK
  <2>3. QED
    BY <1>1, <2>1, <2>2, RecordTypes DEF TypeOK
<1>3. TicketInv'
  BY DEF Ends, TicketInv, TypeOK
<1>4. GenInv'
  BY <1>1, RecordTypes DEF Ends, GenInv, TypeOK
<1>5. CASE UNCHANGED breakerVars /\ (gen[c] # generation \/ state = "open")
  <2>1. gen[c] # generation => Probing' = Probing /\ \A h : Counted(h)' = Counted(h)
    BY <1>5, EndSets DEF breakerVars
  <2>2. ClosedInv' /\ ProbeInv'
    BY <1>5, <2>1 DEF ClosedInv, ProbeInv, breakerVars, countVars
  <2>3. QED
    BY <1>2, <1>3, <1>4, <2>2
<1>6. CASE gen[c] = generation /\ state # "open" /\ Record(how) /\ generation' = generation + 1
  <2>1. \A h : Counted(h)' = {}
    BY <1>6, NewPeriod DEF Ends
  <2>2. state = "closed" => state' = "open" /\ halfOpenCalls' = 0 /\ halfOpenSuccesses' = 0
    BY <1>6 DEF Record, FailClosed, FailProbe, SucceedClosed, SucceedProbe, Neutral, Trip,
                breakerVars, ProbeInv, TypeOK
  <2>3. state = "half_open" => /\ state' \in {"open", "closed"}
                               /\ state' = "closed" => consecutiveFailures' = 0
                               /\ halfOpenCalls' = 0 /\ halfOpenSuccesses' = 0
    BY <1>6 DEF Record, FailClosed, FailProbe, SucceedClosed, SucceedProbe, Neutral, Trip,
                breakerVars, TypeOK
  <2>4. ClosedInv' /\ ProbeInv'
    BY <1>6, <2>1, <2>2, <2>3, FS_EmptySet DEF ClosedInv, ProbeInv, TypeOK, CircuitStates
  <2>5. QED
    BY <1>2, <1>3, <1>4, <2>4
<1>7. CASE gen[c] = generation /\ state # "open" /\ Record(how) /\ generation' = generation
  <2>1. /\ Cardinality(Probing') = Cardinality(Probing) - 1
        /\ Cardinality(Counted(how)') = Cardinality(Counted(how)) + 1
        /\ \A h : h # how => Counted(h)' = Counted(h)
    BY <1>7, EndCounts
  <2>2. CASE FailClosed
    <3>1. /\ state' = "closed" /\ consecutiveFailures' = consecutiveFailures + 1
          /\ consecutiveFailures + 1 < FailureThreshold
          /\ UNCHANGED <<halfOpenCalls, halfOpenSuccesses>> /\ state = "closed" /\ how = "failed"
      BY <1>7, <2>2 DEF FailClosed, Trip, TypeOK, Record, SucceedClosed, SucceedProbe, FailProbe, Neutral, breakerVars, countVars
    <3>2. ClosedInv' /\ ProbeInv'
      BY <2>1, <3>1, CountedFinite DEF ClosedInv, ProbeInv, TypeOK
    <3>3. QED
      BY <1>2, <1>3, <1>4, <3>2
  <2>3. CASE SucceedClosed
    <3>1. /\ state' = "closed" /\ consecutiveFailures' = 0 /\ state = "closed"
          /\ UNCHANGED <<halfOpenCalls, halfOpenSuccesses>>
      BY <2>3 DEF SucceedClosed
    <3>2. Cardinality(Counted("failed")') \in Nat
      BY <2>1, CountedFinite
    <3>3. ClosedInv' /\ ProbeInv'
      BY <3>1, <3>2 DEF ClosedInv, ProbeInv
    <3>4. QED
      BY <1>2, <1>3, <1>4, <3>3
  <2>4. CASE how = "succeeded" /\ SucceedProbe
    <3>1. /\ state' = "half_open" /\ state = "half_open"
          /\ halfOpenSuccesses' = halfOpenSuccesses + 1 /\ halfOpenSuccesses + 1 < SuccessThreshold
          /\ UNCHANGED halfOpenCalls
      BY <1>7, <2>4 DEF SucceedProbe, TypeOK
    <3>2. ClosedInv' /\ ProbeInv'
      BY <2>1, <2>4, <3>1, CountedFinite DEF ClosedInv, ProbeInv, TypeOK
    <3>3. QED
      BY <1>2, <1>3, <1>4, <3>2
  <2>5. CASE how = "neutral" /\ Neutral
    <3>1. Counted("failed")' = Counted("failed") /\ Counted("succeeded")' = Counted("succeeded")
      BY <2>1, <2>5
    <3>2. CASE state = "half_open"
      <4>1. c \in Probing /\ halfOpenCalls > 0
        <5>1. c \in Probing
          BY <1>7, EndSets
        <5>2. Cardinality(Probing) # 0
          BY <5>1, CountedFinite, FS_EmptySet
        <5>3. QED
          BY <3>2, <5>1, <5>2, CountedFinite DEF ProbeInv, TypeOK
      <4>2. halfOpenCalls' = halfOpenCalls - 1 /\ UNCHANGED <<state, halfOpenSuccesses>>
        BY <2>5, <3>2, <4>1 DEF Neutral
      <4>3. ProbeInv' /\ ClosedInv'
        BY <2>1, <3>1, <3>2, <4>2, CountedFinite DEF ProbeInv, ClosedInv, TypeOK
      <4>4. QED
        BY <1>2, <1>3, <1>4, <4>3
    <3>3. CASE state = "closed"
      <4>1. UNCHANGED breakerVars
        BY <2>5, <3>3 DEF Neutral
      <4>2. ProbeInv' /\ ClosedInv'
        BY <3>1, <3>3, <4>1 DEF ProbeInv, ClosedInv, breakerVars, countVars
      <4>3. QED
        BY <1>2, <1>3, <1>4, <4>2
    <3>4. QED
      BY <1>7, <3>2, <3>3 DEF TypeOK, CircuitStates
  <2>6. ~FailProbe
    BY <1>7 DEF FailProbe, Trip, TypeOK
  <2>7. QED
    BY <1>7, <2>2, <2>3, <2>4, <2>5, <2>6 DEF Record
<1>8. QED
  BY <1>1, <1>5, <1>6, <1>7, RecordTypes DEF Ends, Settle

\* Every step preserves the invariant.
LEMMA BreakerStep == BreakerInv /\ [Next]_vars => BreakerInv'
<1> SUFFICES ASSUME BreakerInv, [Next]_vars PROVE BreakerInv'
  OBVIOUS
<1>1. ASSUME NEW c \in Calls, Execute(c) \/ BeginStream(c) PROVE BreakerInv'
  BY <1>1, AdmitStep DEF Execute, BeginStream
<1>2. ASSUME NEW c \in Calls, NEW how \in Outcomes, EndExecute(c, how) PROVE BreakerInv'
  <2>1. Ends(c, how)
    BY <1>2 DEF EndExecute, Ends, InFlight
  <2>2. QED
    BY <2>1, EndStep
<1>3. ASSUME NEW c \in Calls, CompleteLocked(c) PROVE BreakerInv'
  <2>1. outcome' = [outcome EXCEPT ![c] = outcome[c]]
    BY <1>3 DEF CompleteLocked, BreakerInv, TypeOK
  <2>2. Ends(c, outcome[c])
    BY <1>3, <2>1 DEF CompleteLocked, Ends, InFlight, BreakerInv, TicketInv
  <2>3. QED
    BY <2>2, EndStep
<1>4. ASSUME NEW c \in Calls, NEW how \in Outcomes, Complete(c, how) PROVE BreakerInv'
  <2>1. /\ call[c] = "streaming" /\ call' = [call EXCEPT ![c] = "completing"]
        /\ outcome' = [outcome EXCEPT ![c] = how] /\ UNCHANGED <<breakerVars, gen, resets>>
    BY <1>4 DEF Complete
  <2>2. TypeOK' /\ GenInv' /\ TicketInv'
    BY <2>1 DEF BreakerInv, TypeOK, GenInv, TicketInv, breakerVars, countVars, CallStates
  <2>3. Probing' = Probing /\ \A h : Counted(h)' = Counted(h)
    BY <2>1 DEF BreakerInv, TypeOK, Probing, Counted, InFlight, breakerVars
  <2>4. QED
    BY <2>1, <2>2, <2>3 DEF BreakerInv, ClosedInv, ProbeInv, breakerVars, countVars
<1>5. CASE RecoveryElapses
  <2>1. /\ recovered' = TRUE
        /\ UNCHANGED <<state, generation, countVars, callVars, resets>>
    BY <1>5 DEF RecoveryElapses
  <2>2. Probing' = Probing /\ \A h : Counted(h)' = Counted(h)
    BY <2>1 DEF Probing, Counted, InFlight, callVars
  <2>3. QED
    BY <2>1, <2>2 DEF BreakerInv, TypeOK, GenInv, TicketInv, ClosedInv, ProbeInv, countVars, callVars
<1>6. CASE Reset
  <2>1. /\ state' = "closed" /\ generation' = generation + 1 /\ resets' = resets + 1
        /\ consecutiveFailures' = 0 /\ halfOpenCalls' = 0 /\ halfOpenSuccesses' = 0
        /\ UNCHANGED <<recovered, call, gen, outcome>>
    BY <1>6 DEF Reset, callVars
  <2>2. GenInv' /\ \A h : Counted(h)' = {}
    BY <2>1, NewPeriod
  <2>3. TypeOK' /\ TicketInv' /\ ProbeInv'
    BY <2>1 DEF BreakerInv, TypeOK, TicketInv, ProbeInv, CircuitStates
  <2>4. ClosedInv'
    BY <2>1, <2>2, FS_EmptySet, BreakerAssumption DEF ClosedInv
  <2>5. QED
    BY <2>2, <2>3, <2>4 DEF BreakerInv
<1>7. CASE UNCHANGED vars
  BY <1>7 DEF vars, breakerVars, countVars, callVars, BreakerInv, TypeOK, GenInv, TicketInv,
              ClosedInv, ProbeInv, Probing, Counted, InFlight
<1>8. QED
  BY <1>1, <1>2, <1>3, <1>4, <1>5, <1>6, <1>7 DEF Next, CallStep

\* The invariant holds in every behaviour of the breaker.
THEOREM BreakerInvariant == Spec => []BreakerInv
  BY BreakerInit, BreakerStep, PTL DEF Spec

\* The type invariant of the breaker.
THEOREM BreakerTypes == Spec => []TypeOK
<1>1. BreakerInv => TypeOK
  BY DEF BreakerInv
<1>2. QED
  BY <1>1, BreakerInvariant, PTL

\* "HalfOpenMaxCalls bounds the calls permitted while probing in HalfOpen":
\* probes in flight and probes that succeeded share the slots.
THEOREM ProbesAreBounded == Spec => []ProbesBounded
<1>1. BreakerInv => ProbesBounded
  <2> SUFFICES ASSUME BreakerInv, state = "half_open"
               PROVE  Cardinality(Probing \cup Counted("succeeded")) <= HalfOpenMaxCalls
    BY DEF ProbesBounded
  <2>1. Probing \cap Counted("succeeded") = {}
    BY DEF Probing, Counted, InFlight
  <2>2. Cardinality(Probing \cup Counted("succeeded"))
          = Cardinality(Probing) + Cardinality(Counted("succeeded"))
    <3>1. Cardinality(Probing \cap Counted("succeeded")) = 0
      BY <2>1, FS_EmptySet
    <3>2. Cardinality(Probing \cup Counted("succeeded"))
            = Cardinality(Probing) + Cardinality(Counted("succeeded"))
              - Cardinality(Probing \cap Counted("succeeded"))
      BY CountedFinite, FS_Union
    <3>3. QED
      BY <3>1, <3>2, CountedFinite
  <2>3. QED
    BY <2>2, CountedFinite, BreakerAssumption DEF BreakerInv, ProbeInv
<1>2. QED
  BY <1>1, BreakerInvariant, PTL

\* With at least SuccessThreshold slots no order of outcomes and cancellations
\* uses them up: a half-open breaker without a probe in flight admits one.
THEOREM NoProbeLeaks == Spec => []NoStuckProbe
<1>1. BreakerInv => NoStuckProbe
  BY CountedFinite, FS_EmptySet, BreakerAssumption DEF BreakerInv, ProbeInv, NoStuckProbe, TypeOK
<1>2. QED
  BY <1>1, BreakerInvariant, PTL

\* The two together: probe slots are neither exceeded nor lost.
THEOREM ProbeSlotsKept == Spec => []ProbeSlots
<1>1. ProbesBounded /\ NoStuckProbe => ProbeSlots
  BY DEF ProbeSlots
<1>2. QED
  BY <1>1, ProbesAreBounded, NoProbeLeaks, PTL

-----------------------------------------------------------------------------

\* What the end of a call must show when it trips or closes the breaker.
LEMMA EndEvidence ==
    ASSUME BreakerInv, NEW c \in Calls, NEW how, Ends(c, how)
    PROVE  /\ state = "closed" /\ state' = "open" =>
                /\ Cardinality(Counted("failed") \cup {c}) >= FailureThreshold
                /\ gen[c] = generation /\ outcome'[c] = "failed"
           /\ state = "half_open" /\ state' = "closed" =>
                /\ Cardinality(Counted("succeeded") \cup {c}) >= SuccessThreshold
                /\ gen[c] = generation /\ outcome'[c] = "succeeded"
<1> USE BreakerAssumption DEF BreakerInv
<1>1. outcome'[c] = how /\ \A h : c \notin Counted(h)
  BY DEF Ends, Counted, InFlight, TypeOK
<1>2. \A h : Cardinality(Counted(h) \cup {c}) = Cardinality(Counted(h)) + 1
  BY <1>1, CountedFinite, FS_AddElement
<1>3. state' # state => gen[c] = generation /\ Record(how)
  BY DEF Ends, Settle, breakerVars
<1>4. ASSUME state = "closed", state' = "open"
      PROVE  how = "failed" /\ consecutiveFailures + 1 >= FailureThreshold
  BY <1>3, <1>4 DEF Record, SucceedClosed, SucceedProbe, FailClosed, FailProbe, Neutral, breakerVars
<1>5. ASSUME state = "half_open", state' = "closed"
      PROVE  how = "succeeded" /\ halfOpenSuccesses + 1 >= SuccessThreshold
  BY <1>3, <1>5 DEF Record, SucceedClosed, SucceedProbe, FailClosed, FailProbe, Neutral, Trip, breakerVars
<1>6. ASSUME state = "closed", state' = "open"
      PROVE  /\ Cardinality(Counted("failed") \cup {c}) >= FailureThreshold
             /\ gen[c] = generation /\ outcome'[c] = "failed"
  BY <1>1, <1>2, <1>3, <1>4, <1>6, CountedFinite DEF ClosedInv, TypeOK
<1>7. ASSUME state = "half_open", state' = "closed"
      PROVE  /\ Cardinality(Counted("succeeded") \cup {c}) >= SuccessThreshold
             /\ gen[c] = generation /\ outcome'[c] = "succeeded"
  BY <1>1, <1>2, <1>3, <1>5, <1>7, CountedFinite DEF ProbeInv, TypeOK
<1>8. QED
  BY <1>6, <1>7

\* Only outcomes of calls admitted in the current period open or close the
\* breaker: a late answer of an earlier period never does.
THEOREM OnlyFreshEvidence == Spec => EvidenceIsFresh
<1> DEFINE Fresh ==
      /\ state = "closed" /\ state' = "open" =>
            \E e \in Calls : Cardinality(Counted("failed") \cup {e}) >= FailureThreshold
                             /\ gen[e] = generation /\ outcome'[e] = "failed"
      /\ state = "half_open" /\ state' = "closed" =>
            \/ Reset
            \/ \E e \in Calls : Cardinality(Counted("succeeded") \cup {e}) >= SuccessThreshold
                                /\ gen[e] = generation /\ outcome'[e] = "succeeded"
<1>1. BreakerInv /\ [Next]_vars => [Fresh]_vars
  <2> SUFFICES ASSUME BreakerInv, Next PROVE Fresh
    BY DEF BreakerInv
  <2>1. ASSUME NEW c \in Calls, Execute(c) \/ BeginStream(c) PROVE Fresh
    BY <2>1 DEF Execute, BeginStream, allowLocked, PassClosed, StartProbing, Probe, breakerVars
  <2>2. ASSUME NEW c \in Calls, NEW how, Ends(c, how) PROVE Fresh
    BY <2>2, EndEvidence
  <2>3. ASSUME NEW c \in Calls, NEW how \in Outcomes, EndExecute(c, how) PROVE Ends(c, how)
    BY <2>3 DEF EndExecute, Ends, InFlight
  <2>4. ASSUME NEW c \in Calls, CompleteLocked(c) PROVE Ends(c, outcome[c])
    <3>1. outcome' = [outcome EXCEPT ![c] = outcome[c]]
      BY <2>4 DEF CompleteLocked, BreakerInv, TypeOK
    <3>2. QED
      BY <2>4, <3>1 DEF CompleteLocked, Ends, InFlight, BreakerInv, TicketInv
  <2>5. ASSUME RecoveryElapses \/ \E c \in Calls, how \in Outcomes : Complete(c, how)
        PROVE  Fresh
    BY <2>5 DEF RecoveryElapses, Complete, breakerVars
  <2>6. ASSUME Reset PROVE Fresh
    BY <2>6 DEF Reset
  <2> HIDE DEF Fresh
  <2>7. QED
    BY <2>1, <2>2, <2>3, <2>4, <2>5, <2>6 DEF Next, CallStep
<1>2. QED
  BY <1>1, BreakerInvariant, PTL DEF Spec, EvidenceIsFresh
=============================================================================
