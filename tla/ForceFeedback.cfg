CONSTANTS
    Devices = {d}
    RawDevices = {r}
    None = None
    Slots <- MCSlots
    MaxRequests = 2
    MaxQueue = 1
    MaxFaults = 1
SPECIFICATION FairSpec
INVARIANT TypeOK
INVARIANT EffectsOwned
INVARIANT SlotsAccounted
INVARIANT TablesAgree
INVARIANT GrabKnown
PROPERTY PlaysStored
PROPERTY AnswersOwnRequest
CHECK_DEADLOCK FALSE
PROPERTY RequestsAnswered
