CONSTANTS
    Frames <- MCFrames
    Sources = {pad1, pad2}
    Inputs = {up, down}
    Capacities <- MCCapacities
    MaxNodes = 5

SPECIFICATION Spec

INVARIANTS
    TypeOK
    IndexExact
    CapacityRespected

PROPERTIES
    EvictsOldestFirst
    ImplementsMap
