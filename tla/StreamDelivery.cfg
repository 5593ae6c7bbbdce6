CONSTANTS
    Control <- MCOne
    TypeOf <- MCAxis
    AxisValue <- MCPositions
    RingSize = 12
    MaxPacket = 2
    MaxSent = 7
    Batch = 1
    NonBlocking = TRUE
    MayInterrupt = FALSE
SPECIFICATION FairSpec
CHECK_DEADLOCK FALSE
PROPERTY EventuallyDelivered
