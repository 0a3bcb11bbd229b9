-------------------------------- MODULE Link --------------------------------
(***************************************************************************)
(* A transmitter and a receiver joined by the physical layer: encoders,    *)
(* radio, sync search and decoders.  What that layer does to frames is     *)
(* modelled by what it may do: a frame arrives unchanged and in order, or  *)
(* not at all (the sync word is missed, or RSDecoder::decode returns 0 and *)
(* run() swaps nothing).                                                   *)
(***************************************************************************)
EXTENDS Transmitter, Receiver

CONSTANT MaxLoss        \* bound: frames lost in a row

ASSUME LinkAssumption == MaxLoss \in Nat

(***************************************************************************)
(* Ghosts: they record what happened and no handler reads them.            *)
(***************************************************************************)
VARIABLES
    missed,     \* frames lost since the last one the receiver took
    lastEpoch,  \* epoch of that frame; NoEpoch before the first
    tainted,    \* the partial packet goes on across a gap nobody noticed
    spliced,    \* the indices in delivered of packets that were tainted
    harmed      \* packets that the link, a stop() or a splice took bytes from

ghosts == <<missed, lastEpoch, tainted, spliced, harmed>>
vars == <<txVars, rxVars, ghosts>>

NoEpoch == MaxRestarts + 1

Ids(content) == {content[o].id : o \in Offsets} \ {NoPacket}

LinkInit ==
    /\ TxInit /\ RxInit
    /\ missed = 0 /\ lastEpoch = NoEpoch
    /\ tainted = FALSE /\ spliced = {} /\ harmed = {}

----------------------------------------------------------------------------
(* The physical layer. *)

CarryFrame ==
    /\ txStream # <<>> /\ rxStream = <<>>
    /\ rxStream' = txStream
    /\ txStream' = <<>>
    /\ UNCHANGED <<apiVars, packets, txPc, counter, fillVars, rxApi, rxPc,
                   lastCounter, partial, cursor, delivered, ghosts>>

LoseFrame ==
    /\ txStream # <<>>
    /\ missed < MaxLoss
    /\ rxStream = <<>>
    /\ missed' = missed + 1
    /\ harmed' = harmed \cup Ids(Head(txStream).content)
    /\ txStream' = <<>>
    /\ UNCHANGED <<apiVars, packets, txPc, counter, fillVars, rxVars,
                   lastEpoch, tainted, spliced>>

----------------------------------------------------------------------------
(* The transmitter and the receiver, with the ghosts they move. *)

TxPack ==
    /\ BeginFrame \/ FillFrame \/ SendFrame
    /\ UNCHANGED <<rxVars, ghosts>>

TxControl ==
    /\ SendAccepted \/ StopTx \/ JoinTx \/ StartTx
    /\ UNCHANGED <<rxVars, ghosts>>

TxAbandon ==
    /\ AbandonFrame
    /\ harmed' = harmed \cup Ids(frame.content)
    /\ UNCHANGED <<rxVars, missed, lastEpoch, tainted, spliced>>

\* Whether the frame the receiver is about to take follows the last one.
Contiguous == missed = 0 /\ Head(rxStream).epoch = lastEpoch

\* A gap that the counter does not show.
Unnoticed == ~Contiguous /\ Head(rxStream).counter = expectedCounter

RxTake ==
    /\ ReadConsecutive \/ ReadAfterLoss
    /\ missed' = 0
    /\ lastEpoch' = Head(rxStream).epoch
    /\ tainted' = (pktExpected' # 0 /\ (tainted \/ Unnoticed))
    /\ UNCHANGED <<txVars, spliced, harmed>>

Copied == IF tainted THEN {c.id : c \in {rxFrame.content[o] :
                              o \in frameRead .. frameRead + Readable - 1}}
                     ELSE {}

RxCopy ==
    /\ CopyPart
    /\ harmed' = harmed \cup (Copied \ {NoPacket})
    /\ UNCHANGED <<txVars, missed, lastEpoch, tainted, spliced>>

RxFinish ==
    /\ FinishPacket
    /\ harmed' = harmed \cup (Copied \ {NoPacket})
    /\ spliced' = IF tainted THEN spliced \cup {Len(delivered) + 1} ELSE spliced
    /\ tainted' = FALSE
    /\ UNCHANGED <<txVars, missed, lastEpoch>>

RxExtract ==
    /\ SkipRest \/ ParseHeader
    /\ UNCHANGED <<txVars, ghosts>>

RxControl ==
    /\ StopRx \/ JoinRx \/ StartRx
    /\ UNCHANGED <<txVars, ghosts>>

\* A stop() of the receiver loses the partial packet: the frame's last one.
RxLeave ==
    /\ RxExit
    /\ harmed' = IF pktExpected = 0 THEN harmed
                 ELSE harmed \cup ({rxFrame.content[FRAME_DATA_SIZE - 1].id} \ {NoPacket})
    /\ tainted' = FALSE
    /\ UNCHANGED <<txVars, missed, lastEpoch, spliced>>

LinkNext == \/ CarryFrame \/ LoseFrame
            \/ TxControl \/ TxPack \/ TxAbandon
            \/ RxTake \/ RxExtract \/ RxCopy \/ RxFinish \/ RxControl \/ RxLeave

LinkSpec == LinkInit /\ [][LinkNext]_vars

(***************************************************************************)
(* The two workers and the threads of the physical layer keep running: each *)
(* is a loop in a thread of its own that only waits for its stream.  Nobody *)
(* has to call send(), start() or stop().                                  *)
(***************************************************************************)
Fairness ==
    /\ WF_vars(TxPack)
    /\ WF_vars(CarryFrame)
    /\ WF_vars(RxTake)
    /\ WF_vars(RxExtract \/ RxCopy \/ RxFinish)

FairLink == LinkSpec /\ Fairness

----------------------------------------------------------------------------
(* Properties. *)

TypeOK ==
    /\ TxTypeOK /\ RxTypeOK
    /\ missed \in 0 .. MaxLoss
    /\ lastEpoch \in 0 .. NoEpoch
    /\ tainted \in BOOLEAN
    /\ spliced \subseteq 1 .. Len(delivered)
    /\ harmed \subseteq 1 .. Len(accepted)

\* A delivered packet holds exactly the content bytes of one packet, in order.
Intact(d) ==
    /\ Len(d) = d[1].size
    /\ \A i \in 1 .. Len(d) : d[i] = [d[1] EXCEPT !.at = i + HEADER]

(***************************************************************************)
(* Every packet handed to onPacket is byte for byte one that send() took,  *)
(* except one that was open across a gap in the frames the counter does    *)
(* not show: a loss of a multiple of CounterMod frames, or a restart of    *)
(* the sender that happens to reuse the counter expected next              *)
(* (receiver.cpp:92-103).  Such a gap ruins at most that one packet.       *)
(***************************************************************************)
Integrity ==
    \A i \in 1 .. Len(delivered) : i \in spliced \/ Intact(delivered[i])

(***************************************************************************)
(* The size of a packet is parsed only from the two size bytes of a packet *)
(* - never from content, noise or beyond the frame - even right after a    *)
(* gap nobody noticed (receiver.cpp:173-188): the frame's packet pointers  *)
(* always bring the receiver back.                                         *)
(***************************************************************************)
HeaderAlignment == CanParse => IsHeader(rxFrame.content, HeaderAt)

IntactIds == {delivered[i][1].id : i \in DOMAIN delivered \ spliced}

(***************************************************************************)
(* A packet that a later one overtook was delivered too, unless a lost     *)
(* frame, a stop() or a spliced packet took one of its bytes: losing a     *)
(* frame costs the packets in that frame and no others                     *)
(* (receiver.cpp:96-121).  Packets without content are not sent.           *)
(***************************************************************************)
LossContainment ==
    \A n \in 1 .. Len(accepted) :
        \/ \A m \in IntactIds : m <= n
        \/ n \in IntactIds \cup harmed
        \/ accepted[n] = 0

(***************************************************************************)
(* What the comments of the receiver say of frames that do not follow each *)
(* other: "If the frames aren't consecutive" ... "Cancel the partial       *)
(* packet if there was one" (receiver.cpp:96-103).  The code compares      *)
(* counters, and start() sets the sender's counter back to 0.              *)
(***************************************************************************)
GapsCancel == spliced = {}

(***************************************************************************)
(* What a frame promises its reader: packets lie back to back, noise only  *)
(* behind the last, size bytes are never cut by the end of the frame, and  *)
(* the two packet pointers name the first and the last packet that starts  *)
(* in the frame (transmitter.cpp:104-166).                                 *)
(***************************************************************************)
Starts(f) == {o \in Offsets : f.content[o].at = 1}

Follows(c, d) ==
    IF c = Noise THEN d = Noise
    ELSE IF c.at < serializedSize(c.size) THEN d = [c EXCEPT !.at = c.at + 1]
    ELSE d = Noise \/ (d.at = 1 /\ d.id > c.id)

WellFormed(f) ==
    /\ \A o \in Offsets : o > 0 => Follows(f.content[o - 1], f.content[o])
    /\ \A o \in Starts(f) : IsHeader(f.content, o)
    /\ IF Starts(f) = {}
       THEN f.firstPacket = PKT_OFFS_NONE /\ f.lastPacket = PKT_OFFS_NONE
       ELSE /\ f.firstPacket \in Starts(f) /\ f.lastPacket \in Starts(f)
            /\ \A o \in Starts(f) : f.firstPacket <= o /\ o <= f.lastPacket

FrameWellFormed ==
    \A i \in 1 .. Len(txStream) : WellFormed(txStream[i])

Service == INSTANCE PacketService WITH
    Lossy <- MaxLoss > 0,
    handed <- [i \in 1 .. Len(delivered) |->
                  IF Intact(delivered[i]) THEN delivered[i][1].id ELSE NoPacket]

(***************************************************************************)
(* As long as no gap goes unnoticed the link is the packet service:        *)
(* packets whole, in order, none twice, and with no loss none missing.     *)
(***************************************************************************)
ImplementsService == Service!ServiceSpec

(***************************************************************************)
(* Without losses and stops every packet that send() accepts is handed to  *)
(* onPacket at the other end, also when nothing is sent after it: idle     *)
(* frames keep flowing (transmitter.cpp:131-136).                          *)
(***************************************************************************)
Arrival ==
    \A n \in 1 .. MaxSends :
        (n <= Len(accepted) /\ accepted[n] # 0) ~> (n \in IntactIds)
=============================================================================
