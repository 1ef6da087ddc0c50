----------------------------- MODULE LossyChannel -----------------------------
(***************************************************************************)
(* What an event stream promises, without locks, flags or calls in         *)
(* progress: a bounded channel in which every event has at most one fate.  *)
(* It is accepted, and then read in the order of acceptance or, only if    *)
(* the policy is to discard the oldest, dropped from the front; or it is   *)
(* lost without ever being in the channel.  Once the channel is sealed,    *)
(* nothing enters and nothing is dropped from it, while what is buffered   *)
(* may still be read.  EventStream is shown to implement this module.      *)
(***************************************************************************)
EXTENDS Naturals, Sequences, SequencesExt

CONSTANTS Events, Capacity

VARIABLES
    buffer,   \* accepted and not yet read
    taken,    \* what was read, in order
    lost,     \* events that nobody will read
    sealed,
    keeps     \* whether an accepted event is kept for the reader

channelState == <<buffer, taken, lost, sealed, keeps>>

ChannelInit ==
    /\ buffer = <<>> /\ taken = <<>> /\ lost = {}
    /\ sealed = FALSE
    /\ keeps \in BOOLEAN

Fresh(e) == e \notin ToSet(buffer) \cup ToSet(taken) \cup lost

Accept(e) ==
    /\ ~sealed /\ Fresh(e) /\ Len(buffer) < Capacity
    /\ buffer' = Append(buffer, e)
    /\ UNCHANGED <<taken, lost, sealed, keeps>>

Lose(e) ==
    /\ Fresh(e)
    /\ lost' = lost \cup {e}
    /\ UNCHANGED <<buffer, taken, sealed, keeps>>

DropOldest ==
    /\ ~sealed /\ ~keeps /\ buffer # <<>>
    /\ lost' = lost \cup {Head(buffer)}
    /\ buffer' = Tail(buffer)
    /\ UNCHANGED <<taken, sealed, keeps>>

Read ==
    /\ buffer # <<>>
    /\ taken' = Append(taken, Head(buffer))
    /\ buffer' = Tail(buffer)
    /\ UNCHANGED <<lost, sealed, keeps>>

Seal ==
    /\ ~sealed /\ sealed' = TRUE
    /\ UNCHANGED <<buffer, taken, lost, keeps>>

ChannelNext ==
    \/ \E e \in Events : Accept(e) \/ Lose(e)
    \/ DropOldest \/ Read \/ Seal

ChannelSpec == ChannelInit /\ [][ChannelNext]_channelState
=============================================================================
