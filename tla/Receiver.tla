------------------------------ MODULE Receiver ------------------------------
(***************************************************************************)
(* ryfi::Receiver (src/ryfi/receiver.cpp): the worker thread that reads    *)
(* frames from the Reed-Solomon decoder and puts packets together, and the *)
(* thread that calls start() and stop().  rxStream is the dsp::stream      *)
(* rs.out: it holds at most one frame.                                     *)
(***************************************************************************)
EXTENDS FrameFormat

CONSTANTS
    MaxParsed,          \* bound: sizes parsed from bytes that are no header
    MaxRxRestarts       \* bound: stop() calls in one behaviour

ASSUME ReceiverAssumption == MaxParsed \in Nat /\ MaxRxRestarts \in Nat

VARIABLES
    rxRunning,      \* Receiver::running
    readerStop,     \* the reader stop flag of rs.out
    rxEpoch,        \* ghost: completed stop() calls
    rxPc,           \* where the worker is
    lastCounter, pktExpected, pktBuffer,                \* its locals, and
    rxFrame, frameRead, firstPacket, lastPacket,        \* those of one turn
    rxStream,       \* frames in rs.out
    delivered       \* history: the packets given to onPacket, each its bytes

rxApi == <<rxRunning, readerStop, rxEpoch>>
partial == <<pktExpected, pktBuffer>>
cursor == <<rxFrame, frameRead, firstPacket, lastPacket>>
rxVars == <<rxApi, rxPc, lastCounter, partial, cursor, rxStream, delivered>>

RxPcs == {"down", "read", "extract", "exited"}

\* The code's pktRead: bytes of the partial packet already in pktBuffer.
pktRead == Len(pktBuffer)

RxTypeOK ==
    /\ rxRunning \in BOOLEAN /\ readerStop \in BOOLEAN /\ rxEpoch \in Nat
    /\ rxPc \in RxPcs
    /\ lastCounter \in 0 .. CounterMod - 1
    /\ pktExpected \in Nat
    /\ pktBuffer \in Seq(Cell)
    /\ rxFrame \in Frame
    /\ frameRead \in 0 .. FRAME_DATA_SIZE
    /\ firstPacket \in BOOLEAN /\ lastPacket \in BOOLEAN
    /\ rxStream \in Seq(Frame) /\ Len(rxStream) <= 1
    /\ delivered \in Seq(Seq(Cell))

NoFrame == [counter |-> 0, firstPacket |-> 0, lastPacket |-> 0,
            content |-> [o \in Offsets |-> Noise], epoch |-> 0]

RxInit ==
    /\ rxRunning = TRUE /\ readerStop = FALSE /\ rxEpoch = 0
    /\ rxPc = "read"
    /\ lastCounter = 0 /\ pktExpected = 0 /\ pktBuffer = <<>>
    /\ rxFrame = NoFrame /\ frameRead = 0
    /\ firstPacket = FALSE /\ lastPacket = FALSE
    /\ rxStream = <<>>
    /\ delivered = <<>>

----------------------------------------------------------------------------
(* The worker: reading a frame is one step, each turn of the extraction    *)
(* loop is another.                                                        *)

\* Mutant: the counter expected next does not wrap.
expectedCounterWide == lastCounter + 1

expectedCounter == (lastCounter + 1) % CounterMod

CanRead == rxPc = "read" /\ ~readerStop /\ rxStream # <<>>

\* The frame is taken out of the stream; n is where extraction would begin.
TakeFrame ==
    /\ CanRead
    /\ rxFrame' = Head(rxStream)
    /\ rxStream' = <<>>
    /\ lastCounter' = Head(rxStream).counter
    /\ UNCHANGED <<rxApi, delivered>>

BeginExtract(n) ==
    /\ frameRead' = n
    /\ firstPacket' = TRUE /\ lastPacket' = FALSE
    /\ rxPc' = "extract"

SkipFrame ==
    /\ UNCHANGED <<frameRead, firstPacket, lastPacket>>
    /\ rxPc' = "read"

\* The frame continues the one before.
ReadConsecutive ==
    /\ TakeFrame
    /\ Head(rxStream).counter = expectedCounter
    /\ UNCHANGED partial
    /\ IF pktExpected = 0 /\ Head(rxStream).firstPacket = PKT_OFFS_NONE
       THEN SkipFrame
       ELSE BeginExtract(0)

\* Mutant: the partial packet survives a loss.
ReadAfterLossKeeps ==
    /\ TakeFrame
    /\ Head(rxStream).counter # expectedCounter
    /\ UNCHANGED partial
    /\ IF pktExpected = 0 /\ Head(rxStream).firstPacket = PKT_OFFS_NONE
       THEN SkipFrame ELSE BeginExtract(0)

\* Mutant: the first frame after a loss is thrown away.
ReadAfterLossSkips ==
    /\ TakeFrame
    /\ Head(rxStream).counter # expectedCounter
    /\ pktExpected' = 0 /\ pktBuffer' = <<>>
    /\ SkipFrame

\* Frames are missing: the partial packet is cancelled.
ReadAfterLoss ==
    /\ TakeFrame
    /\ Head(rxStream).counter # expectedCounter
    /\ pktExpected' = 0 /\ pktBuffer' = <<>>
    /\ LET first == Head(rxStream).firstPacket
       IN  IF first = PKT_OFFS_NONE \/ first > FRAME_DATA_SIZE - HEADER
           THEN SkipFrame
           ELSE BeginExtract(first)

\* The content of the frame from the current position, n bytes of it.
Bytes(n) == [i \in 1 .. n |-> rxFrame.content[frameRead + i - 1]]

Readable == Min2(pktExpected - pktRead, FRAME_DATA_SIZE - frameRead)

NextTurn == rxPc' = IF frameRead' < FRAME_DATA_SIZE THEN "extract" ELSE "read"

\* The rest of the frame belongs to a packet that goes on in the next one.
CopyPart ==
    /\ rxPc = "extract"
    /\ pktExpected # 0
    /\ pktRead + Readable < pktExpected
    /\ pktBuffer' = pktBuffer \o Bytes(Readable)
    /\ frameRead' = frameRead + Readable
    /\ NextTurn
    /\ UNCHANGED <<rxApi, lastCounter, pktExpected, rxFrame, firstPacket,
                   lastPacket, rxStream, delivered>>

\* The packet is complete: it goes to onPacket.
FinishPacket ==
    /\ rxPc = "extract"
    /\ pktExpected # 0
    /\ pktRead + Readable >= pktExpected
    /\ delivered' = Append(delivered, pktBuffer \o Bytes(Readable))
    /\ pktExpected' = 0 /\ pktBuffer' = <<>>
    /\ frameRead' = IF lastPacket \/ rxFrame.firstPacket = PKT_OFFS_NONE
                    THEN FRAME_DATA_SIZE
                    ELSE frameRead + Readable
    /\ NextTurn
    /\ UNCHANGED <<rxApi, lastCounter, rxFrame, firstPacket, lastPacket, rxStream>>

\* Too little is left for the size of a packet.
SkipRest ==
    /\ rxPc = "extract"
    /\ pktExpected = 0
    /\ FRAME_DATA_SIZE - frameRead < HEADER
    /\ frameRead' = FRAME_DATA_SIZE
    /\ pktBuffer' = <<>>
    /\ rxPc' = "read"
    /\ UNCHANGED <<rxApi, lastCounter, pktExpected, rxFrame, firstPacket,
                   lastPacket, rxStream, delivered>>

\* Mutant: the left-over of a packet nobody reads is not skipped.
HeaderAtCursor == frameRead

\* Where the next size is parsed: the frame's first packet on the first turn.
HeaderAt == IF firstPacket THEN rxFrame.firstPacket ELSE frameRead

CanParse == rxPc = "extract" /\ pktExpected = 0 /\ FRAME_DATA_SIZE - frameRead >= HEADER

\* The size the two bytes at o spell: any, if they are not a header.
ParsedSizes(o) == IF IsHeader(rxFrame.content, o) THEN {rxFrame.content[o].size}
                                                  ELSE 0 .. MaxParsed

ParseHeader ==
    /\ CanParse
    /\ firstPacket' = FALSE
    /\ lastPacket' = (HeaderAt = rxFrame.lastPacket)
    /\ pktExpected' \in ParsedSizes(HeaderAt)
    /\ frameRead' = HeaderAt + HEADER
    /\ NextTurn
    /\ UNCHANGED <<rxApi, lastCounter, pktBuffer, rxFrame, rxStream, delivered>>

RxWorker == \/ ReadConsecutive \/ ReadAfterLoss
            \/ CopyPart \/ FinishPacket \/ SkipRest \/ ParseHeader

----------------------------------------------------------------------------
(* start() and stop(). *)

StopRx ==
    /\ rxRunning /\ ~readerStop
    /\ rxEpoch < MaxRxRestarts
    /\ readerStop' = TRUE
    /\ UNCHANGED <<rxRunning, rxEpoch, rxPc, lastCounter, partial, cursor,
                   rxStream, delivered>>

\* read() returns -1 and the worker returns; the stream keeps its frame.
RxExit ==
    /\ rxPc = "read" /\ readerStop
    /\ rxPc' = "exited"
    /\ UNCHANGED <<rxApi, lastCounter, partial, cursor, rxStream, delivered>>

JoinRx ==
    /\ rxRunning /\ readerStop
    /\ rxPc = "exited"
    /\ readerStop' = FALSE /\ rxRunning' = FALSE
    /\ rxPc' = "down"
    /\ rxEpoch' = rxEpoch + 1
    /\ UNCHANGED <<lastCounter, partial, cursor, rxStream, delivered>>

\* start(): a new worker with fresh locals.
StartRx ==
    /\ ~rxRunning
    /\ rxRunning' = TRUE
    /\ rxPc' = "read"
    /\ lastCounter' = 0 /\ pktExpected' = 0 /\ pktBuffer' = <<>>
    /\ rxFrame' = NoFrame /\ frameRead' = 0
    /\ firstPacket' = FALSE /\ lastPacket' = FALSE
    /\ UNCHANGED <<readerStop, rxEpoch, rxStream, delivered>>

RxNext == RxWorker \/ StopRx \/ RxExit \/ JoinRx \/ StartRx
=============================================================================
