SPECIFICATION LinkSpec
CONSTANTS
    FRAME_DATA_SIZE = 4
    PKT_OFFS_NONE = 9
    CounterMod = 2
    MAX_QUEUE_SIZE = 2
    Sizes <- SmallAndLarge
    MaxSends = 2
    MaxRestarts = 1
    MaxParsed = 2
    MaxRxRestarts = 0
    MaxLoss = 1
INVARIANTS
    GapsCancel
