SPECIFICATION Spec
CONSTANTS
    SYNC_WORD <- ShortWord
    DataSyms = 6
    FrameSyms = 6
    Tolerance = 2
    Payloads <- ShortData
    Damages <- Undamaged
    InitShifts <- ShortRegisters
    MaxUpsets = 1
INVARIANTS
    TypeOK
PROPERTIES
    BackInStep
    GarbageHasCause
