CONSTANTS
    Control <- MCTwo
    TypeOf <- MCKeyAxis
    AxisValue <- MCPositions
    RingSize = 4
    MaxPacket = 1
    MaxSent = 9
    Batch = 1
    NonBlocking = TRUE
    MayInterrupt = TRUE
    MayAbandon = TRUE
SPECIFICATION Spec
CHECK_DEADLOCK FALSE
INVARIANT TypeOK
PROPERTIES OrderedDelivery CompensationExact ImplementsChannel
