SPECIFICATION FairSpec
CONSTANTS
    Blocks <- RxBlocks
    Streams <- RxStreams
    inputOf <- RxInput
    outputsOf <- RxOutputs
    FlushFirst <- RxFlushFirst
    MaxItems = 2
    MaxStops = 2
    NoStream = NoStream
    rxDevice = rxDevice
    doubler = doubler
    ns = ns
    decoder = decoder
    rxOut = rxOut
    outA = outA
    outB = outB
    worker = worker
    decoderOut = decoderOut
CHECK_DEADLOCK FALSE
INVARIANTS
    TypeOK
    InOrder
    Accounted
    OneLossPerStop
PROPERTIES
    StopReturns
    Flow
