CONSTANTS
    Control <- MCOne
    TypeOf <- MCKey
    AxisValue <- MCPositions
    RingSize = 4
    MaxPacket = 1
    MaxSent = 10
    Batch = 2
    NonBlocking = FALSE
    MayInterrupt = FALSE
    MayAbandon = FALSE
SPECIFICATION Spec
CHECK_DEADLOCK FALSE
INVARIANT CacheTracksKeys
