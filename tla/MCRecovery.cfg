SPECIFICATION FairSpec
CONSTANTS
    Clients = {c1}
    c1 = c1
    P = 1
    Coalesce = 1
    Stabilize = 1
    FailTimeout = 2
    Grace = 1
    Capacity = 2
    MaxFrame = 3
    MaxEpoch = 3
    MaxUpsets = 1
    MaxReports = 1
CHECK_DEADLOCK FALSE
INVARIANTS TypeOK PendingStallIsCurrent ValidationIsGenuine
PROPERTIES WaitEnds StabilizationEnds
