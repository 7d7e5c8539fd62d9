CONSTANTS
    host = host
    c1 = c1
    c2 = c2
    Host = host
    Clients = {c1}
    Slots <- OneSlot
    Owner <- OnePlayer
    P = 1
    R = 3
    MaxBatch = 2
    Lossy = FALSE
    MaxFrame = 1
    MaxPauses = 1
    MaxInFlight = 0

SPECIFICATION FairSpec

PROPERTIES
    EveryFrameEmulated

CHECK_DEADLOCK FALSE
