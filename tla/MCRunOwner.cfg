\* A bound session with a worker and a completion task or a blocked send.
SPECIFICATION MCSpec
CONSTANTS
  Workers = {w1}
  Tasks = {t1}
  Leases = {l1}
  Bound = TRUE
INVARIANTS ReleasedWhenJoined SyncedMeansResolved SuccessIsReleased
PROPERTIES UnknownStays RunEnds
CHECK_DEADLOCK FALSE
