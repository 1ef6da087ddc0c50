\* One call of Close and one run, and the budget may pass.
SPECIFICATION MCSpec
CONSTANTS
    Runs = {r1}
    NoRun = NoRun
    Closers = {c1}
PROPERTIES ContinuesAfterBudget
CHECK_DEADLOCK FALSE
