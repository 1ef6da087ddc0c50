\* Runs, calls of Close and work of every kind, at most three of them at a time.
SPECIFICATION MCSpec
CONSTANTS
    Runs = {r1, r2, r3}
    NoRun = NoRun
    Closers = {c1, c2}
INVARIANTS MutualExclusion NothingClosedInUse ReturnsAreTrue
PROPERTIES AdmissionSpec WaitsEnd 
CHECK_DEADLOCK FALSE
