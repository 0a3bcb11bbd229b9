SPECIFICATION FairSpec
CONSTANTS
    Data = {d1, d2}
    Empty = Empty
INVARIANTS
    TypeOK
    BufferExclusion
    OneToken
    NoLostWakeup
PROPERTIES
    ImplementsHandoff
    StopTerminates
    DataIsRead
    SwapReturns
