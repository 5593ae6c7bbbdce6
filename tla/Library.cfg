CONSTANTS
    Count = 6
    Element = 4
    Codes <- MCCodes
    Nodes = {e1, e2, e3}
    Unopenable = {e2}
    Others = {js}
    Clients = {c1, c2}
    Delays <- MCDelays
    MaxDelay = 1
    Keys <- MCKeys
    Indices <- MCIndices
    SetupCodes <- MCSetupCodes
    CodeSets <- MCCodeSets
    SwitchMax = 1
    Names <- MCNames
    PhysPaths <- MCPhysPaths
    MaxEffects <- MCMaxEffects
    MaxCalls = 4
    HalfSecs = 8
    NanosPerSec = 4
    NanosPerMicro = 2
    Effects <- MCEffects
    EventValues <- MCEventValues
SPECIFICATION FairSpec
INVARIANT TypeOK
INVARIANT SetIterates
INVARIANT WalkIsComplete
INVARIANT OpenedIsBuilt
INVARIANT TimeRoundTrip
INVARIANT EffectRoundTrip
INVARIANT EventRoundTrip
PROPERTY WalkTerminates
CHECK_DEADLOCK FALSE
