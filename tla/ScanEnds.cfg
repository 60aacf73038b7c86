SPECIFICATION FairSpec
CONSTANTS
    m1 = m1
    m2 = m2
    Workers = {w1}
    Requests = {r1}
    Tasks = {1}
    Modules = {m1, m2}
    Batches <- TwoBatches
    Ops = {"cancel", "retry"}
    Faults = {"worker", "redis", "db", "broker"}
    MaxCrashes = 2
INVARIANTS CompletedIsSettled
PROPERTIES EventuallyEnds StreamEnds
CHECK_DEADLOCK FALSE
