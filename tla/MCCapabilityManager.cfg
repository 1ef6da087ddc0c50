\* Three generations, so that one is current, one retiring and one waiting, held
\* back by a run and its call, around a Close that may give up.
SPECIFICATION FairSpec
CONSTANTS
    Reloads = {r1, r2, r3}
    Leases = {l1}
    Calls = {c1}
    Closers = {k1}
    None = None
    MaxEpoch = 1
INVARIANTS CleanupIsExact
PROPERTIES FenceSpec AllSettles
CHECK_DEADLOCK FALSE
