SPECIFICATION LinkSpec
CONSTANTS
    FRAME_DATA_SIZE = 4
    PKT_OFFS_NONE = 9
    CounterMod = 3
    MAX_QUEUE_SIZE = 2
    Sizes <- SmallAndLarge
    MaxSends = 3
    MaxRestarts = 0
    MaxParsed = 2
    MaxRxRestarts = 1
    MaxLoss = 2
INVARIANTS
    TypeOK
    FrameWellFormed
    LossContainment
    HeaderAlignment
PROPERTIES
    ImplementsService
