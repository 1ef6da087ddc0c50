------------------------------ MODULE EventStream ------------------------------
(***************************************************************************)
(* EventStreamImpl (internal/core/eventstream.go): concurrent Send and     *)
(* SendTerminal calls, a consumer, Close calls, and the copy of every sent *)
(* event that goes to the event bus.                                       *)
(*                                                                         *)
(* Every Send sends one event and is named by it.  The steps of a call are *)
(* separated where another goroutine can come between: the two tests of    *)
(* closed, the read lock, each select, and the bookkeeping after it.  The  *)
(* lock is Go's RWMutex: from the moment Close waits for it, nobody new    *)
(* gets the read lock.                                                     *)
(***************************************************************************)
EXTENDS Naturals, FiniteSets, Sequences, SequencesExt

CONSTANTS
    Senders,      \* Send calls
    Terminals,    \* SendTerminal calls
    CloseCalls,      \* Close calls
    Capacity,
    BlockTimeout  \* whether a blocked Send times out

Policies == {"discard_newest", "discard_oldest", "block"}

ASSUME StreamAssumption ==
    /\ Senders \cap Terminals = {}
    /\ Capacity \in Nat \ {0}
    /\ BlockTimeout \in BOOLEAN

VARIABLES
    policy,      \* DiscardPolicy, an option of NewEventStream
    events,      \* the channel's buffer
    closed, done,
    sealed,      \* the events channel is closed
    locking,     \* Close waits for, or holds, the write lock
    readers,     \* holders of the read lock
    sentCount, gapCount,
    terminalOnce, closeOnce,  \* "unused", "running" or "used"
    at,          \* per call: where it stands
    close,       \* per Close: where it stands
    received,    \* what the consumer has read
    bus          \* what was published

flagVars    == <<closed, done, sealed, locking>>
channelVars == <<events, received>>
countVars   == <<sentCount, gapCount, bus>>
onceVars    == <<terminalOnce, closeOnce>>
streamVars == <<policy, flagVars, channelVars, countVars, onceVars, readers, at, close>>

Calls == Senders \cup Terminals
SendStates  == {"new", "begun", "waiting", "locked", "selecting", "evicting", "retrying",
                "blocked", "sent", "returned", "skipped"}
CloseStates == {"new", "begun", "flagged", "waiting", "returned"}

StreamInit ==
    /\ policy \in Policies
    /\ events = <<>> /\ received = <<>> /\ bus = {}
    /\ closed = FALSE /\ done = FALSE /\ sealed = FALSE /\ locking = FALSE
    /\ readers = {} /\ sentCount = 0 /\ gapCount = 0
    /\ terminalOnce = "unused" /\ closeOnce = "unused"
    /\ at = [s \in Calls |-> "new"]
    /\ close = [k \in CloseCalls |-> "new"]

-----------------------------------------------------------------------------
(* Entering *)

MoveTo(s, state) == at' = [at EXCEPT ![s] = state]

\* The event is discarded and the call returns.
Gap(s) ==
    /\ gapCount' = gapCount + 1
    /\ readers' = readers \ {s}
    /\ MoveTo(s, "returned")
    /\ terminalOnce' = IF s \in Terminals THEN "used" ELSE terminalOnce
    /\ UNCHANGED <<flagVars, channelVars, sentCount, bus, closeOnce, close>>

Send(s) == s \in Senders /\ at[s] = "new" /\ MoveTo(s, "begun") /\ UNCHANGED onceVars

\* The first SendTerminal runs, the others wait until it is through.
SendTerminal(s) ==
    /\ s \in Terminals
    /\ \/ /\ at[s] = "new" /\ terminalOnce = "unused"
          /\ terminalOnce' = "running"
          /\ MoveTo(s, "begun")
       \/ /\ at[s] = "new" /\ terminalOnce = "used"
          /\ MoveTo(s, "skipped")
          /\ UNCHANGED terminalOnce
    /\ UNCHANGED closeOnce

Enter(s) ==
    /\ Send(s) \/ SendTerminal(s)
    /\ UNCHANGED <<flagVars, channelVars, countVars, readers, close>>

FirstTest(s) ==
    /\ at[s] = "begun"
    /\ \/ closed /\ Gap(s)
       \/ /\ ~closed /\ MoveTo(s, "waiting")
          /\ UNCHANGED <<flagVars, channelVars, countVars, onceVars, readers, close>>

RLock(s) ==
    /\ at[s] = "waiting" /\ ~locking
    /\ readers' = readers \cup {s}
    /\ MoveTo(s, "locked")
    /\ UNCHANGED <<flagVars, channelVars, countVars, onceVars, close>>

\* Variant: closed is not tested again under the lock.
NoSecondTest(s) ==
    /\ at[s] = "locked" /\ MoveTo(s, "selecting")
    /\ UNCHANGED <<flagVars, channelVars, countVars, onceVars, readers, close>>

SecondTest(s) ==
    /\ at[s] = "locked"
    /\ \/ closed /\ Gap(s)
       \/ /\ ~closed /\ MoveTo(s, "selecting")
          /\ UNCHANGED <<flagVars, channelVars, countVars, onceVars, readers, close>>

-----------------------------------------------------------------------------
(* Selecting *)

\* Variant: one event too many.
RoomForOneMore == Len(events) <= Capacity

Room == Len(events) < Capacity

\* When several cases of a select are ready, any of them may be taken.
DoneCase(s) == done /\ Gap(s)

SendCase(s) ==
    /\ Room
    /\ events' = Append(events, s)
    /\ MoveTo(s, "sent")
    /\ UNCHANGED <<flagVars, received, countVars, onceVars, readers, close>>

FullCase(s, state) ==
    /\ ~done /\ ~Room
    /\ MoveTo(s, state)
    /\ UNCHANGED <<flagVars, channelVars, countVars, onceVars, readers, close>>

\* The default case drops the incoming event.
DropCase(s) == ~done /\ ~Room /\ Gap(s)

Select(s) ==
    /\ at[s] = "selecting"
    /\ \/ DoneCase(s) \/ SendCase(s)
       \/ (policy = "discard_newest" \/ s \in Terminals) /\ DropCase(s)
       \/ s \in Senders /\ policy = "discard_oldest" /\ FullCase(s, "evicting")
       \/ s \in Senders /\ policy = "block" /\ FullCase(s, "blocked")

\* Variant: the eviction leaves no trace.
EvictSilently(s) ==
    /\ at[s] = "evicting"
    /\ events' = IF events = <<>> THEN events ELSE Tail(events)
    /\ MoveTo(s, "retrying")
    /\ UNCHANGED <<flagVars, received, countVars, onceVars, readers, close>>

\* The consumer, or another sender, may have emptied the buffer meanwhile.
Evict(s) ==
    /\ at[s] = "evicting"
    /\ \/ /\ events # <<>>
          /\ events' = Tail(events)
          /\ gapCount' = gapCount + 1
       \/ events = <<>> /\ UNCHANGED <<events, gapCount>>
    /\ MoveTo(s, "retrying")
    /\ UNCHANGED <<flagVars, received, sentCount, bus, onceVars, readers, close>>

Retry(s) ==
    /\ at[s] = "retrying"
    /\ DoneCase(s) \/ SendCase(s) \/ DropCase(s)

Blocked(s) ==
    /\ at[s] = "blocked"
    /\ DoneCase(s) \/ SendCase(s)

\* ErrSendTimeout
SendTimeout(s) == BlockTimeout /\ at[s] = "blocked" /\ Gap(s)

\* The counter, the copy for the bus and the deferred unlock, after which the
\* consumer may long have read the event.
Account(s) ==
    /\ at[s] = "sent"
    /\ sentCount' = sentCount + 1
    /\ bus' = bus \cup {s}
    /\ readers' = readers \ {s}
    /\ MoveTo(s, "returned")
    /\ terminalOnce' = IF s \in Terminals THEN "used" ELSE terminalOnce
    /\ UNCHANGED <<flagVars, channelVars, gapCount, closeOnce, close>>

SendStep(s) ==
    \/ FirstTest(s) \/ RLock(s) \/ SecondTest(s) \/ Select(s) \/ Evict(s)
    \/ Retry(s) \/ Blocked(s) \/ Account(s)

-----------------------------------------------------------------------------
(* Closing and reading *)

CloseTo(k, state) == close' = [close EXCEPT ![k] = state]

\* The first Close runs, the others wait until it is through.
Close(k) ==
    /\ close[k] = "new"
    /\ \/ /\ closeOnce = "unused"
          /\ closeOnce' = "running" /\ closed' = TRUE
          /\ CloseTo(k, "begun")
       \/ /\ closeOnce = "used"
          /\ CloseTo(k, "returned")
          /\ UNCHANGED <<closeOnce, closed>>
    /\ UNCHANGED <<done, sealed, locking, channelVars, countVars, terminalOnce, readers, at>>

CloseDone(k) ==
    /\ close[k] = "begun"
    /\ done' = TRUE
    /\ CloseTo(k, "flagged")
    /\ UNCHANGED <<closed, sealed, locking, channelVars, countVars, onceVars, readers, at>>

CloseWaits(k) ==
    /\ close[k] = "flagged"
    /\ locking' = TRUE
    /\ CloseTo(k, "waiting")
    /\ UNCHANGED <<closed, done, sealed, channelVars, countVars, onceVars, readers, at>>

\* Variant: the write lock is kept.
CloseChannelKeepsLock(k) ==
    /\ close[k] = "waiting" /\ readers = {}
    /\ sealed' = TRUE /\ closeOnce' = "used"
    /\ CloseTo(k, "returned")
    /\ UNCHANGED <<closed, done, locking, channelVars, countVars, terminalOnce, readers, at>>

\* With the write lock: no sender is inside.
CloseChannel(k) ==
    /\ close[k] = "waiting" /\ readers = {}
    /\ sealed' = TRUE /\ locking' = FALSE /\ closeOnce' = "used"
    /\ CloseTo(k, "returned")
    /\ UNCHANGED <<closed, done, channelVars, countVars, terminalOnce, readers, at>>

CloseStep(k) == CloseDone(k) \/ CloseWaits(k) \/ CloseChannel(k)

Receive ==
    /\ events # <<>>
    /\ received' = Append(received, Head(events))
    /\ events' = Tail(events)
    /\ UNCHANGED <<flagVars, countVars, onceVars, readers, at, close>>

StreamNext ==
    /\ \/ \E s \in Calls : Enter(s) \/ SendStep(s) \/ SendTimeout(s)
       \/ \E k \in CloseCalls : Close(k) \/ CloseStep(k)
       \/ Receive
    /\ UNCHANGED policy

StreamSpec == StreamInit /\ [][StreamNext]_streamVars

-----------------------------------------------------------------------------
(* Safety *)

StreamTypeOK ==
    /\ policy \in Policies
    /\ events \in Seq(Calls) /\ Len(events) <= Capacity
    /\ received \in Seq(Calls) /\ bus \subseteq Calls
    /\ closed \in BOOLEAN /\ done \in BOOLEAN /\ sealed \in BOOLEAN /\ locking \in BOOLEAN
    /\ readers \subseteq Calls
    /\ sentCount \in Nat /\ gapCount \in Nat
    /\ terminalOnce \in {"unused", "running", "used"}
    /\ closeOnce \in {"unused", "running", "used"}
    /\ at \in [Calls -> SendStates]
    /\ close \in [CloseCalls -> CloseStates]

\* Close is final.  A send on a closed channel panics: no sender is at a select,
\* or between its select and its bookkeeping, when the channel is closed (Close and
\* sendMu).  And once a Close has returned, the counters and the bus are complete:
\* they show every event that was ever in the channel, the evicted ones included.
SealedIsFinal ==
    /\ sealed => \A s \in Calls :
                    at[s] \notin {"selecting", "evicting", "retrying", "blocked", "sent"}
    /\ (\E k \in CloseCalls : close[k] = "returned") =>
            /\ sentCount = Cardinality(bus)
            /\ ToSet(events) \cup ToSet(received) \subseteq bus

\* Whose event was tried and is neither with the consumer nor on its way.
Gone == {s \in Calls : /\ at[s] \in {"sent", "returned"}
                       /\ s \notin ToSet(events) \cup ToSet(received)}

\* GapCount "reports attempted events that were discarded, timed out, or
\* aborted": every event is read, buffered or counted as a gap, once, whichever
\* sender evicted it and whatever closed meanwhile.
GapsAreVisible == gapCount = Cardinality(Gone)

\* The stream implements a bounded channel in which every event has one fate:
\* whatever the calls in progress do, events are read in the order in which the
\* channel took them, none is lost from a channel that keeps them, and nothing
\* enters or leaves unread once it is closed (Send, sendTerminal, Close).
Channel ==
    INSTANCE LossyChannel WITH
        Events <- Calls,
        buffer <- events,
        taken <- received,
        lost <- Gone,
        keeps <- (policy # "discard_oldest")

ChannelSpec == Channel!ChannelSpec

-----------------------------------------------------------------------------
(* Liveness *)

\* What goes on by itself: goroutines run and timers fire.  Nobody need read,
\* send or close, and every call is made once, so that one of them going on
\* now and then is enough.
StreamProgress ==
    \/ \E s \in Calls : SendStep(s) \/ SendTimeout(s)
    \/ \E s \in Terminals : SendTerminal(s) /\ terminalOnce = "used" /\ Enter(s)
    \/ \E k \in CloseCalls : (Close(k) /\ closeOnce = "used") \/ CloseStep(k)

StreamFairSpec == StreamSpec /\ WF_streamVars(StreamProgress /\ UNCHANGED policy)

\* Close ends, with senders blocked on a full buffer that nobody reads; and no
\* send blocks for good: it has room, drops an event, times out or sees the stream
\* close ("prevents the agent loop from freezing indefinitely when a consumer is
\* slow or absent", defaultBlockTimeout).
CallsEnd ==
    /\ (\E k \in CloseCalls : close[k] # "new")
         ~> (\A k \in CloseCalls : close[k] \in {"new", "returned"})
    /\ (\E s \in Calls : at[s] \notin {"new", "skipped", "returned"})
         ~> (\A s \in Calls : at[s] \in {"new", "skipped", "returned"})
=============================================================================
