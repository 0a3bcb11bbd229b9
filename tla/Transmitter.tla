----------------------------- MODULE Transmitter -----------------------------
(***************************************************************************)
(* ryfi::Transmitter (src/ryfi/transmitter.cpp): threads that call send(), *)
(* the worker thread that packs the queued packets into frames, and the    *)
(* thread that calls start() and stop().                                   *)
(*                                                                         *)
(* txStream is the dsp::stream "in" between the worker and the Reed-       *)
(* Solomon encoder: it holds at most one frame that was swapped in and not *)
(* flushed (module Stream has its inner steps).                            *)
(***************************************************************************)
EXTENDS FrameFormat

CONSTANTS
    MAX_QUEUE_SIZE,     \* packets in the queue before send() drops (32)
    Sizes,              \* content sizes of the packets given to send()
    MaxSends,           \* bound: packets accepted in one behaviour
    MaxRestarts         \* bound: stop() calls in one behaviour

ASSUME TransmitterAssumption ==
    /\ MAX_QUEUE_SIZE \in Nat
    /\ Sizes \subseteq Nat
    /\ MaxSends \in Nat
    /\ MaxRestarts \in Nat

VARIABLES
    accepted,       \* history: sizes of the packets send() returned true for
    packets,        \* the queue; a packet is its index in accepted
    running,        \* Transmitter::running
    writerStop,     \* the writer stop flag of the stream "in"
    epoch,          \* ghost: completed stop() calls
    txPc,           \* where the worker is
    frame, counter, frameOffset, pkt, pktToWrite, pktWritten,   \* its locals
    txStream        \* frames swapped into "in" and not yet read

apiVars == <<accepted, running, writerStop, epoch>>
fillVars == <<frame, frameOffset, pkt, pktToWrite, pktWritten>>
txVars == <<apiVars, packets, txPc, counter, fillVars, txStream>>

\* "down": no worker thread; "exited": the worker returned and is not joined.
TxPcs == {"down", "begin", "fill", "send", "exited"}

NoPacket == 0
SizeOf(p) == IF p = NoPacket THEN 0 ELSE accepted[p]

TxFlagsOK == running \in BOOLEAN /\ writerStop \in BOOLEAN

TxTypeOK ==
    /\ accepted \in Seq(Sizes)
    /\ packets \in Seq(1 .. Len(accepted))
    /\ TxFlagsOK
    /\ epoch \in Nat
    /\ txPc \in TxPcs
    /\ frame \in Frame
    /\ counter \in 0 .. CounterMod - 1
    /\ frameOffset \in 0 .. FRAME_DATA_SIZE
    /\ pkt \in 0 .. Len(accepted)
    /\ pktToWrite \in Nat
    /\ pktWritten \in Nat
    /\ txStream \in Seq(Frame)
    /\ Len(txStream) <= 1

EmptyFrame == [counter |-> 0, firstPacket |-> 0, lastPacket |-> 0,
               content |-> [o \in Offsets |-> Noise], epoch |-> 0]

\* The program starts the transmitter before anything else uses it.
TxInit ==
    /\ accepted = <<>> /\ packets = <<>>
    /\ running = TRUE /\ writerStop = FALSE /\ epoch = 0
    /\ txPc = "begin"
    /\ frame = EmptyFrame /\ counter = 0 /\ frameOffset = 0
    /\ pkt = NoPacket /\ pktToWrite = 0 /\ pktWritten = 0
    /\ txStream = <<>>

----------------------------------------------------------------------------
(* send(), from any thread, under packetsMtx. *)

SendAccepted ==
    /\ Len(packets) < MAX_QUEUE_SIZE
    /\ Len(accepted) < MaxSends
    /\ \E s \in Sizes :
        /\ accepted' = Append(accepted, s)
        /\ packets' = Append(packets, Len(accepted) + 1)
    /\ UNCHANGED <<running, writerStop, epoch, txPc, counter, fillVars, txStream>>

----------------------------------------------------------------------------
(* The worker: one step for each turn of the loop that fills a frame. *)

BeginFrame ==
    /\ txPc = "begin"
    /\ frame' = [frame EXCEPT !.counter = counter,
                              !.firstPacket = PKT_OFFS_NONE,
                              !.lastPacket = PKT_OFFS_NONE,
                              !.epoch = epoch]
    /\ counter' = (counter + 1) % CounterMod
    /\ frameOffset' = 0
    /\ txPc' = "fill"
    /\ UNCHANGED <<apiVars, packets, pkt, pktToWrite, pktWritten, txStream>>

\* Mutant: the rest of the frame keeps what the frame before left there.
PaddedNot == frame.content

\* The frame's content with noise from the current offset to the end.
Padded == [o \in Offsets |-> IF o >= frameOffset THEN Noise ELSE frame.content[o]]

\* The current packet is done and its successor's size does not fit.
PadShort ==
    /\ txPc = "fill"
    /\ pktWritten = 0
    /\ FRAME_DATA_SIZE - frameOffset < HEADER
    /\ frame' = [frame EXCEPT !.content = Padded]
    /\ txPc' = "send"
    /\ UNCHANGED <<apiVars, packets, counter, frameOffset, pkt, pktToWrite,
                   pktWritten, txStream>>

\* Mutant: the worker waits for a packet with a frame half full.
PadIdleWaits ==
    /\ txPc = "fill"
    /\ pktWritten = 0 /\ FRAME_DATA_SIZE - frameOffset >= HEADER
    /\ packets # <<>> /\ SizeOf(Head(packets)) = 0
    /\ pkt' = Head(packets) /\ packets' = Tail(packets)
    /\ frame' = [frame EXCEPT !.content = Padded]
    /\ txPc' = "send"
    /\ UNCHANGED <<apiVars, counter, frameOffset, pktToWrite, pktWritten, txStream>>

\* popPacket found no packet, or one without content, which is false as a bool.
PadIdle ==
    /\ txPc = "fill"
    /\ pktWritten = 0
    /\ FRAME_DATA_SIZE - frameOffset >= HEADER
    /\ \/ packets = <<>> /\ pkt' = NoPacket /\ UNCHANGED packets
       \/ /\ packets # <<>> /\ SizeOf(Head(packets)) = 0
          /\ pkt' = Head(packets)
          /\ packets' = Tail(packets)
    /\ frame' = [frame EXCEPT !.content = Padded]
    /\ txPc' = "send"
    /\ UNCHANGED <<apiVars, counter, frameOffset, pktToWrite, pktWritten, txStream>>

\* Mutant: the copy does not stop at the end of the frame.
WriteableAll(written, toWrite) == toWrite - written

Writeable(written, toWrite) == Min2(toWrite - written, FRAME_DATA_SIZE - frameOffset)

(***************************************************************************)
(* Copy as much of packet p, of which "written" of "toWrite" bytes are out *)
(* already, as the frame takes; first and last become its packet pointers. *)
(***************************************************************************)
Write(p, written, toWrite, first, last) ==
    LET writeable == Writeable(written, toWrite)
        done == written + writeable >= toWrite
    IN  /\ frame' = [frame EXCEPT
              !.firstPacket = first,
              !.lastPacket = last,
              !.content = [o \in Offsets |->
                  IF o \in frameOffset .. frameOffset + writeable - 1
                  THEN [id |-> p, at |-> written + (o - frameOffset) + 1,
                        size |-> SizeOf(p)]
                  ELSE frame.content[o]]]
        /\ frameOffset' = frameOffset + writeable
        /\ pkt' = p
        /\ pktToWrite' = IF done THEN 0 ELSE toWrite
        /\ pktWritten' = IF done THEN 0 ELSE written + writeable
        /\ txPc' = IF frameOffset + writeable < FRAME_DATA_SIZE THEN "fill" ELSE "send"

\* Mutant: the packet stays in the queue.
popKeeps == UNCHANGED packets

pop == packets' = Tail(packets)

StartPacket ==
    /\ txPc = "fill"
    /\ pktWritten = 0
    /\ FRAME_DATA_SIZE - frameOffset >= HEADER
    /\ packets # <<>>
    /\ SizeOf(Head(packets)) # 0
    /\ pop
    /\ Write(Head(packets), 0, serializedSize(SizeOf(Head(packets))),
             IF frame.firstPacket = PKT_OFFS_NONE THEN frameOffset
                                                  ELSE frame.firstPacket,
             frameOffset)
    /\ UNCHANGED <<apiVars, counter, txStream>>

ContinuePacket ==
    /\ txPc = "fill"
    /\ pktWritten # 0
    /\ Write(pkt, pktWritten, pktToWrite, frame.firstPacket, frame.lastPacket)
    /\ UNCHANGED <<apiVars, packets, counter, txStream>>

FillFrame == PadShort \/ PadIdle \/ StartPacket \/ ContinuePacket

\* txFrame: the frame is serialized and swapped in.
SendFrame ==
    /\ txPc = "send"
    /\ ~writerStop
    /\ txStream = <<>>
    /\ txStream' = <<frame>>
    /\ txPc' = "begin"
    /\ UNCHANGED <<apiVars, packets, counter, fillVars>>

\* txFrame with the writer stopped: swap fails and the worker returns.
AbandonFrame ==
    /\ txPc = "send"
    /\ writerStop
    /\ txPc' = "exited"
    /\ UNCHANGED <<apiVars, packets, counter, fillVars, txStream>>

TxWorker == BeginFrame \/ FillFrame \/ SendFrame \/ AbandonFrame

----------------------------------------------------------------------------
(* start() and stop(). *)

StopTx ==
    /\ running /\ ~writerStop
    /\ epoch < MaxRestarts
    /\ writerStop' = TRUE
    /\ UNCHANGED <<accepted, running, epoch, packets, txPc, counter, fillVars, txStream>>

\* The rest of stop(): the worker is joined and the flags are cleared.
JoinTx ==
    /\ running /\ writerStop
    /\ txPc = "exited"
    /\ writerStop' = FALSE
    /\ running' = FALSE
    /\ txPc' = "down"
    /\ epoch' = epoch + 1
    /\ UNCHANGED <<accepted, packets, counter, fillVars, txStream>>

\* start(): a new worker with fresh locals; the queue is kept.
StartTx ==
    /\ ~running
    /\ running' = TRUE
    /\ txPc' = "begin"
    /\ frame' = EmptyFrame /\ counter' = 0 /\ frameOffset' = 0
    /\ pkt' = NoPacket /\ pktToWrite' = 0 /\ pktWritten' = 0
    /\ UNCHANGED <<accepted, writerStop, epoch, packets, txStream>>

TxNext == SendAccepted \/ TxWorker \/ StopTx \/ JoinTx \/ StartTx
=============================================================================
