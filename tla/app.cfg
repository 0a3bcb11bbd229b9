CONSTANTS
    Idents <- MCIdents
    NoIdent = "none"
    DriverOf <- MCDriverOf
    FirstDevice <- MCFirstDevice
    Commands <- MCCommands
    MinRate = 5
    RFNM_MIN_SAMPLERATE = 4
    RATE_STEP = 2
    MIN_RATE = 1
    MAX_RATE = 8
    FIRST_RATE = 7
    GRANULE = 2
    PACKET = 2
    MaxCount = 4
    MaxSamples = 7
SPECIFICATION FairSpec
INVARIANTS
    TypeOK
    RefsBalanced
    QuietExit
    UsersProvided
    TxAccounted
    RateKept
PROPERTIES
    Terminates
