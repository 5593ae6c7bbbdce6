CONSTANTS
    Control <- MCOne
    TypeOf <- MCAxis
    AxisValue <- MCPositions
    RingSize = 4
    MaxPacket = 1
    MaxSent = 10
    Batch = 2
    NonBlocking = FALSE
    MayInterrupt = FALSE
    MayAbandon = FALSE
SPECIFICATION FairSpec
CHECK_DEADLOCK FALSE
PROPERTY ReadyEventsReturned
