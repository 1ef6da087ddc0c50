\* Two jobs of one source, two calls of SetEnabled and Stop.
SPECIFICATION FairSpec
CONSTANTS
    s1 = s1
    Jobs = {j1, j2}
    Sources = {s1}
    SourceOf <- MCSourceOf
    Callers = {c1, c2}
    NoJob = NoJob
INVARIANTS RevocationHolds 
PROPERTIES EverythingSettles
CHECK_DEADLOCK FALSE
