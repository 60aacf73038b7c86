SPECIFICATION FairSpec
CONSTANTS
    b1 = b1
    b2 = b2
    m1 = m1
    Batches = {b1, b2}
    Modules = {m1, m2, m3}
    Asked <- AllAndOne
    BatchCap = 2
    HostCap = 2
INVARIANTS BudgetIsSlotTime SlotGivenBack OutsidersTold
PROPERTIES AnswersStand BatchEnds
CHECK_DEADLOCK FALSE
