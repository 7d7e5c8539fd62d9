CONSTANTS
    host = host
    c1 = c1
    c2 = c2
    Host = host
    Clients = {c1}
    Slots <- MCSlots
    Owner <- BothAtClient
    P = 1
    R = 1
    MaxBatch = 2
    Lossy = TRUE
    MaxFrame = 1
    MaxPauses = 0
    MaxInFlight = 2

SPECIFICATION Spec

INVARIANTS
    HostInputsContiguous

CHECK_DEADLOCK FALSE
