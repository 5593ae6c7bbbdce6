CONSTANTS
    Batches <- MCBatches
    RingSize = 6
    MaxEmits = 3
    MayFailWrite = TRUE
    Batch = 2
    MayMix = TRUE
SPECIFICATION FairSpec
INVARIANT TypeOK
PROPERTY PacketsAreBatches
PROPERTY StreamAscending
PROPERTY ImplementsRawChannel
PROPERTY EventuallyTaken
PROPERTY GoneIsReported
