SPECIFICATION WatchFairSpec
CONSTANTS
    Scans = {s1, s2}
    Visited = {s1}
    None = None
INVARIANTS StreamOrNotice NoTwinStream
PROPERTIES EndShown
CHECK_DEADLOCK FALSE
