SPECIFICATION FairSpec
CONSTANTS
    Rows = {r1, r2}
    Unregistered = {r2}
    Sessions = {t1, t2}
    MaxAttempts = 3
    MaxFaults = 1
    None = None
INVARIANTS AttemptsWereSent EndedForReason
PROPERTIES EndedStays FailedEnds
CHECK_DEADLOCK FALSE
