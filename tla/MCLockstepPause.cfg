CONSTANTS
    host = host
    c1 = c1
    c2 = c2
    Host = host
    Clients = {c1}
    Slots <- MCSlots
    Owner <- OneSlotEach
    P = 1
    R = 3
    MaxBatch = 2
    Lossy = TRUE
    MaxFrame = 1
    MaxPauses = 1
    MaxInFlight = 2

SPECIFICATION Spec

INVARIANTS
    ConfirmedAgreement
    PlaybackAgreement
    ClientsFollowHost

CHECK_DEADLOCK FALSE
