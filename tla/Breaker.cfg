SPECIFICATION FairSpec
CONSTANTS
    Calls = {c1, c2, c3, c4, c5}
    Threshold = 3
    MaxProbes = 2
INVARIANTS BudgetExact ClosedIffHealthy
PROPERTIES RefusalEnds
CHECK_DEADLOCK FALSE
