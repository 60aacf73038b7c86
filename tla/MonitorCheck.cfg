SPECIFICATION Spec
CONSTANTS
    Workers = {w1, w2}
    Requests = {r1}
    Users = {u1}
    Free = free
    Threshold = 2
    Kinds = {"ok", "bad", "unsafe"}
    MaxQueue = 1
    MaxRounds = 1
    MaxManual = 1
    MaxChanges = 3
    MaxFaults = 1
SYMMETRY WorkerSymmetry
INVARIANTS OverlapBounded CooldownKept DownEarned IncidentVisible
CHECK_DEADLOCK FALSE
