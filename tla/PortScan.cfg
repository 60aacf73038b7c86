SPECIFICATION PortFairSpec
CONSTANTS
    Last = 5
    Concurrency = 2
INVARIANTS PortsAccounted LateWorkIsTimeout
PROPERTIES ScanStops
CHECK_DEADLOCK FALSE
