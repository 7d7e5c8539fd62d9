CONSTANTS
    host = host
    c1 = c1
    c2 = c2
    Host = host
    Clients = {c1, c2}
    Slots <- OneSlot
    Owner <- OnePlayer
    P = 1
    R = 3
    MaxBatch = 2
    Lossy = TRUE
    MaxFrame = 1
    MaxPauses = 0
    MaxInFlight = 1

SPECIFICATION Spec

INVARIANTS
    ConfirmedAgreement
    PlaybackAgreement

CHECK_DEADLOCK FALSE
