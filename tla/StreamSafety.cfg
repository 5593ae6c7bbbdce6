CONSTANTS
    Control <- MCTwo
    TypeOf <- MCAxisLed
    AxisValue <- MCPositions
    RingSize = 4
    MaxPacket = 1
    MaxSent = 8
    Batch = 1
    NonBlocking = TRUE
    MayInterrupt = TRUE
SPECIFICATION FairSpec
CHECK_DEADLOCK FALSE
INVARIANTS TypeOK InBounds
PROPERTIES OrderedDelivery CompensationExact ImplementsChannel CompensationTerminates
