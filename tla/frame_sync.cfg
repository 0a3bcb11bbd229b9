SPECIFICATION Spec
CONSTANTS
    SYNC_WORD <- SyncWord
    DataSyms = 2
    FrameSyms = 2
    Tolerance = 6
    Payloads <- OneData
    Damages <- BitErrorPatterns
    InitShifts <- Registers
    MaxUpsets = 0
PROPERTIES
    BackInStep
    GarbageHasCause
