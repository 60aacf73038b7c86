SPECIFICATION Spec
CONSTANTS
    m1 = m1
    m2 = m2
    Workers = {w1, w2}
    Requests = {r1, r2}
    Tasks = {1, 2}
    Modules = {m1}
    Batches <- OneBatch
    Ops = {"cancel", "retry", "rescan", "delete"}
    Faults = {"worker", "child", "api", "broker"}
    MaxCrashes = 1
SYMMETRY Symmetry
INVARIANTS CancelStopsWork
PROPERTIES TerminalLeftOnlyByRescan
CHECK_DEADLOCK FALSE
