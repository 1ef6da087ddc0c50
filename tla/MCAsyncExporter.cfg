\* Two callers of Shutdown, four spans, a queue of two and batches of two.
SPECIFICATION FairSpec
CONSTANTS
    QueueSize = 2
    BatchSize = 2
    MaxSpans = 4
    Closers = {c1, c2}
INVARIANTS EverySpanAccounted ShutdownIsFinal
PROPERTIES GivenUpLate EverythingSettles
CHECK_DEADLOCK FALSE
