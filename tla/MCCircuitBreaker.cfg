\* Four calls: one failure trips, two successes close; one reset. The theorems
\* cover the other thresholds.
SPECIFICATION FairSpec
CONSTANTS
    Calls = {c1, c2, c3, c4}
    FailureThreshold = 1
    HalfOpenMaxCalls = 2
    SuccessThreshold = 2
    MaxResets = 1
INVARIANTS ProbeSlots
PROPERTIES EvidenceIsFresh Decides
CHECK_DEADLOCK FALSE
