CONSTANTS
    Control <- MCOne
    TypeOf <- MCAxis
    AxisValue <- MCPositions
    RingSize = 4
    MaxPacket = 1
    MaxSent = 8
    Batch = 1
    NonBlocking = TRUE
    MayInterrupt = FALSE
SPECIFICATION Spec
CHECK_DEADLOCK FALSE
PROPERTY GapsAreSynced
