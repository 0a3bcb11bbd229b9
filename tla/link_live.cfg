SPECIFICATION FairLink
CONSTANTS
    FRAME_DATA_SIZE = 5
    PKT_OFFS_NONE = 9
    CounterMod = 3
    MAX_QUEUE_SIZE = 2
    Sizes <- WithEmpty
    MaxSends = 3
    MaxRestarts = 0
    MaxParsed = 2
    MaxRxRestarts = 0
    MaxLoss = 0
PROPERTIES
    Arrival
