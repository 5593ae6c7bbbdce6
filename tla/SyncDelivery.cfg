CONSTANTS
    Control <- MCTwo
    TypeOf <- MCKeyAxis
    AxisValue <- MCPositions
    RingSize = 12
    MaxPacket = 2
    MaxSent = 7
    Batch = 2
    NonBlocking = FALSE
    MayInterrupt = FALSE
    MayAbandon = FALSE
SPECIFICATION FairSpec
CHECK_DEADLOCK FALSE
PROPERTY EventuallyDelivered
