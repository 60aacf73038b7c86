SPECIFICATION FairSpec
CONSTANTS
    Members = {m1, m2, m3}
    Workers = {w1, w2}
    NoScan = NoScan
    Limit = 2
    MaxFaults = 2
    MaxShared = 1
INVARIANTS OneScan CancelStopsBatches EndedIsSettled
PROPERTIES RunEnds
CHECK_DEADLOCK FALSE
