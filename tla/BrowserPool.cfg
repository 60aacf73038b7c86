SPECIFICATION FairSpec
CONSTANTS
    Calls = {c1, c2, c3}
    Browsers = {b1, b2}
    MaxContexts = 2
    MaxCloses = 1
    None = None
    Rejected = Rejected
INVARIANTS SlotsExact FewBrowsers
PROPERTIES ImplementsPool CallEnds
CHECK_DEADLOCK FALSE
