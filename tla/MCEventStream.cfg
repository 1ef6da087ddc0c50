\* Every policy, with and without a reader, three senders and two wrappers.
SPECIFICATION StreamFairSpec
CONSTANTS
    Senders = {s1, s2, s3}
    Terminals = {t1, t2}
    CloseCalls = {k1, k2}
    Capacity = 1
    BlockTimeout = TRUE
INVARIANTS SealedIsFinal GapsAreVisible
PROPERTIES ChannelSpec CallsEnd
CHECK_DEADLOCK FALSE
