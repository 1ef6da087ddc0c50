--------------------------- MODULE CapabilityFence ---------------------------
(***************************************************************************)
(* What the capability manager promises to the runs, stated without locks, *)
(* counters, epochs or background cleanup: a user of a generation finds    *)
(* its resources open until it lets go of it, at most two generations have *)
(* open resources, and a generation that was requested before the last     *)
(* revocation neither starts another call nor vouches for a result.        *)
(* CapabilityManager is shown to implement this module.                    *)
(***************************************************************************)
CONSTANTS
    Generations,
    Leases,   \* the users that pin the current generation, one for each run
    Calls,    \* the users that a lease lets in
    None

VARIABLES
    current,  \* the generation that new leases pin
    trusted,  \* the generations requested since the last revocation
    open,     \* the generations whose resources are open
    pinned,   \* per user: the generation it uses
    accepted  \* the calls whose result was accepted

fenceVars == <<current, trusted, open, pinned, accepted>>

Users == Leases \cup Calls

FenceInit ==
    /\ current = None
    /\ trusted = {}
    /\ open = {}
    /\ pinned = [u \in Users |-> None]
    /\ accepted = {}

Request(g) ==
    /\ trusted' = trusted \cup {g}
    /\ UNCHANGED <<current, open, pinned, accepted>>

\* No third generation is opened before one of two is free.
Open(g) ==
    /\ g \notin open
    /\ \A a, b \in open : a = b
    /\ open' = open \cup {g}
    /\ UNCHANGED <<current, trusted, pinned, accepted>>

Publish(g) ==
    /\ g \in trusted \cap open
    /\ current' = g
    /\ UNCHANGED <<trusted, open, pinned, accepted>>

Pin(l) ==
    /\ current # None
    /\ pinned[l] = None
    /\ pinned' = [pinned EXCEPT ![l] = current]
    /\ UNCHANGED <<current, trusted, open, accepted>>

LetIn(c, l) ==
    /\ pinned[l] \in trusted
    /\ pinned[c] = None
    /\ pinned' = [pinned EXCEPT ![c] = pinned[l]]
    /\ UNCHANGED <<current, trusted, open, accepted>>

Accept(c) ==
    /\ pinned[c] \in trusted
    /\ accepted' = accepted \cup {c}
    /\ UNCHANGED <<current, trusted, open, pinned>>

Unpin(u) ==
    /\ pinned[u] # None
    /\ pinned' = [pinned EXCEPT ![u] = None]
    /\ accepted' = accepted \ {u}
    /\ UNCHANGED <<current, trusted, open>>

Revoke ==
    /\ trusted' = {}
    /\ UNCHANGED <<current, open, pinned, accepted>>

Shut ==
    /\ trusted' = {}
    /\ current' = None
    /\ UNCHANGED <<open, pinned, accepted>>

\* The resources of g are closed once nobody can reach them.
Free(g) ==
    /\ g \in open \ {current}
    /\ \A u \in Users : pinned[u] # g
    /\ open' = open \ {g}
    /\ UNCHANGED <<current, trusted, pinned, accepted>>

FenceNext ==
    \/ \E g \in Generations : Request(g) \/ Open(g) \/ Publish(g) \/ Free(g)
    \/ \E l \in Leases : Pin(l) \/ \E c \in Calls : LetIn(c, l)
    \/ \E c \in Calls : Accept(c)
    \/ \E u \in Users : Unpin(u)
    \/ Revoke
    \/ Shut

FenceSpec == FenceInit /\ [][FenceNext]_fenceVars
=============================================================================
