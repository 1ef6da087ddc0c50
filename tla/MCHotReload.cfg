\* Both kinds of reloader: two watches, one reload, two edits, one failed probe.
SPECIFICATION FairSpec
CONSTANTS
  Watchers = {w1, w2}
  Reloaders = {r1}
  Loops = {l1, l2}
  Modes <- BothModes
  CanCancel = TRUE
  MaxRetries = 1
  MaxEdits = 2
  MaxProbeErrors = 1
INVARIANTS DoneIsQuiet
PROPERTIES  StopCompletes RequestsServed
CHECK_DEADLOCK FALSE
