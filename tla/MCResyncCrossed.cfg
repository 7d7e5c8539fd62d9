CONSTANTS
    p1 = p1
    p2 = p2
    o1 = o1
    Players = {p1}
    Observers = {o1}
    Nobody = Nobody
    MaxRequests = 0
    MaxFaults = 1
    MaxJoins = 1

SPECIFICATION FairSpec

PROPERTIES
    HostLeavesResync

CHECK_DEADLOCK FALSE
