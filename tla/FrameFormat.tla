----------------------------- MODULE FrameFormat -----------------------------
(***************************************************************************)
(* The frame of src/ryfi/frame.h as the transmitter fills it and the       *)
(* receiver takes it apart.                                                *)
(*                                                                         *)
(* A byte is abstracted to where it came from: the cell [id, at, size] is  *)
(* byte number "at" of the serialization of the id-th packet that          *)
(* Transmitter::send accepted, a packet of "size" content bytes.           *)
(* Packet::serialize writes two size bytes (at = 1, 2) and then the        *)
(* content (at = 3 .. size + 2).  Bytes of rand() are Noise.               *)
(***************************************************************************)
EXTENDS Naturals, Sequences

CONSTANTS
    FRAME_DATA_SIZE,    \* bytes in the data area of a frame (886 in the code)
    PKT_OFFS_NONE,      \* the offset that stands for "no packet" (0xFFFF)
    CounterMod          \* number of values of the frame counter (2^16)

ASSUME FormatAssumption ==
    /\ FRAME_DATA_SIZE \in Nat /\ FRAME_DATA_SIZE >= 2
    /\ PKT_OFFS_NONE \in Nat /\ PKT_OFFS_NONE >= FRAME_DATA_SIZE
    /\ CounterMod \in Nat /\ CounterMod >= 2

HEADER == 2             \* size bytes in front of the content

Offsets == 0 .. FRAME_DATA_SIZE - 1
PacketOffset == Offsets \cup {PKT_OFFS_NONE}
Cell == [id : Nat, at : Nat, size : Nat]
Noise == [id |-> 0, at |-> 0, size |-> 0]

(***************************************************************************)
(* "epoch" is a ghost: it tells the runs of the transmitter's worker apart *)
(* and is read by no action of the receiver.                               *)
(***************************************************************************)
Frame == [counter : 0 .. CounterMod - 1, firstPacket : PacketOffset,
          lastPacket : PacketOffset, content : [Offsets -> Cell], epoch : Nat]

serializedSize(size) == size + HEADER

\* Whether the two bytes at offset o are the size bytes of one packet.
IsHeader(content, o) ==
    /\ o + 1 \in Offsets
    /\ content[o].at = 1
    /\ content[o + 1] = [content[o] EXCEPT !.at = 2]

Min2(a, b) == IF a <= b THEN a ELSE b
=============================================================================
