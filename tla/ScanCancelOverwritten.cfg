SPECIFICATION Spec
CONSTANTS
    m1 = m1
    m2 = m2
    Workers = {w1}
    Requests = {r1}
    Tasks = {1}
    Modules = {m1}
    Batches <- OneBatch
    Ops = {"cancel"}
    Faults = {}
    MaxCrashes = 0
PROPERTIES CancelledNotOverwritten
CHECK_DEADLOCK FALSE
