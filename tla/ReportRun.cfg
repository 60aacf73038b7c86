SPECIFICATION FairSpec
CONSTANTS
    Runs = {r1}
    Publishers = {p1, p2}
    Workers = {w1, w2}
    MaxFaults = 2
    MaxMsgs = 2
    MaxToggles = 1
INVARIANTS OneReport ReceiptMatches GeneratingIsHeld
PROPERTIES ImplementsOnce PendingIsClaimed
CHECK_DEADLOCK FALSE
