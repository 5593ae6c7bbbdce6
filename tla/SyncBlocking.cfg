CONSTANTS
    Control <- MCTwo
    TypeOf <- MCAxes
    AxisValue <- MCPositions
    RingSize = 5
    MaxPacket = 2
    MaxSent = 10
    Batch = 1
    NonBlocking = FALSE
    MayInterrupt = FALSE
    MayAbandon = FALSE
SPECIFICATION Spec
CHECK_DEADLOCK FALSE
INVARIANT CacheTracksAxes
PROPERTY ImplementsAnnouncingChannel
