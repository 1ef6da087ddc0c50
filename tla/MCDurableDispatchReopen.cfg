CONSTANTS
    s1 = s1  s2 = s2
    group = group  write = write  other = other
    b1 = b1  b2 = b2
    Sessions = {s1, s2}
    Batches = {b1, b2}
    Actions = {group, write}
    BatchOf <- SingleBatchOf
    SessionOf <- MCSessionOf
    ScopedReads = {}
    Delegations = {}
    Processes = {group}
    MaxFaults = 1
SPECIFICATION Spec
INVARIANT ReopenSucceeds
