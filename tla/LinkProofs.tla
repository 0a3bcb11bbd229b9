------------------------------ MODULE LinkProofs ------------------------------
(***************************************************************************)
(* The link from end to end, in three parts: what the sender hands to the  *)
(* encoders, what the receiver makes of it, and the service of the two.    *)
(***************************************************************************)
EXTENDS Link, Induction

----------------------------------------------------------------------------
(***************************************************************************)
(* Every frame that ryfi::Transmitter hands to the encoders is well        *)
(* formed, for every frame size, queue size, set of packet sizes and       *)
(* number of restarts, and whatever the link does to the frames.           *)
(***************************************************************************)

(***************************************************************************)
(* WellFormed, said of the first n bytes of a frame that is being filled.  *)
(***************************************************************************)
Chained(f, n) == \A o \in 1 .. n - 1 : Follows(f.content[o - 1], f.content[o])

HeadersFit(f, n) == \A o \in 0 .. n - 1 : f.content[o].at = 1 => o + 1 \in Offsets

StartsBefore(f, n) == {o \in 0 .. n - 1 : f.content[o].at = 1}

PointersOK(f, n) ==
    \/ /\ f.firstPacket = PKT_OFFS_NONE /\ f.lastPacket = PKT_OFFS_NONE
       /\ \A o \in 0 .. n - 1 : f.content[o].at # 1
    \/ /\ f.firstPacket \in 0 .. n - 1 /\ f.content[f.firstPacket].at = 1
       /\ f.lastPacket \in 0 .. n - 1 /\ f.content[f.lastPacket].at = 1
       /\ \A o \in 0 .. n - 1 :
            f.content[o].at = 1 => f.firstPacket <= o /\ o <= f.lastPacket

Packed(f, n) == Chained(f, n) /\ HeadersFit(f, n) /\ PointersOK(f, n)

\* The cell that a packet p of size s has at its k-th byte.
ByteOf(p, k, s) == [id |-> p, at |-> k, size |-> s]

(***************************************************************************)
(* The inductive invariant.                                                *)
(***************************************************************************)

\* Packets leave the queue in the order of their numbers.
QueueOrder ==
    /\ \A i, j \in 1 .. Len(packets) : i < j => packets[i] < packets[j]
    /\ \A i \in 1 .. Len(packets) : pkt < packets[i]

\* What the locals say of a packet that is only partly in a frame.
Progress ==
    pktWritten # 0 =>
        /\ pkt # NoPacket
        /\ pktToWrite = serializedSize(SizeOf(pkt))
        /\ pktWritten < pktToWrite

\* A frame that is partly filled ends with the last byte of the current packet.
LastByte ==
    /\ pkt # NoPacket
    /\ pktWritten = 0
    /\ frame.content[frameOffset - 1] =
         ByteOf(pkt, serializedSize(SizeOf(pkt)), SizeOf(pkt))

Filling ==
    txPc = "fill" =>
        /\ frameOffset < FRAME_DATA_SIZE
        /\ Packed(frame, frameOffset)
        /\ frameOffset > 0 => LastByte

Complete ==
    /\ txPc = "send" => Packed(frame, FRAME_DATA_SIZE)
    /\ \A i \in 1 .. Len(txStream) : Packed(txStream[i], FRAME_DATA_SIZE)

TxInv == TxTypeOK /\ QueueOrder /\ Progress /\ Filling /\ Complete

----------------------------------------------------------------------------
(* Frames. *)

USE FormatAssumption DEF HEADER

\* A record of type Cell is given by its three fields.
LEMMA CellFields ==
    ASSUME NEW c \in Cell, NEW k \in Nat
    PROVE  /\ c = ByteOf(c.id, c.at, c.size)
           /\ [c EXCEPT !.at = k] = ByteOf(c.id, k, c.size)
BY DEF Cell, ByteOf

\* A frame that is packed to its end is what WellFormed asks for.
LEMMA PackedWellFormed ==
    ASSUME NEW f \in Frame, Packed(f, FRAME_DATA_SIZE)
    PROVE  WellFormed(f)
<1>1. \A o \in Offsets : o > 0 => Follows(f.content[o - 1], f.content[o])
  BY DEF Packed, Chained, Offsets
<1>2. ASSUME NEW o \in Starts(f)
      PROVE  IsHeader(f.content, o)
  <2>1. /\ o \in Offsets /\ o + 1 \in Offsets
        /\ f.content[o] \in Cell /\ f.content[o].at = 1
    BY <1>2 DEF Starts, Packed, HeadersFit, Frame, Offsets
  <2>2. Follows(f.content[o], f.content[o + 1])
    <3>1. Follows(f.content[(o + 1) - 1], f.content[o + 1])
      <4>1. o + 1 > 0
        BY <2>1 DEF Offsets
      <4> QED  BY <1>1, <2>1, <4>1
    <3>2. (o + 1) - 1 = o
      BY <2>1 DEF Offsets
    <3> QED  BY <3>1, <3>2
  <2>3. f.content[o] # Noise /\ f.content[o].at < serializedSize(f.content[o].size)
    BY <2>1 DEF Noise, serializedSize, Cell
  <2> QED  BY <2>1, <2>2, <2>3 DEF Follows, IsHeader
<1>3. IF Starts(f) = {}
      THEN f.firstPacket = PKT_OFFS_NONE /\ f.lastPacket = PKT_OFFS_NONE
      ELSE /\ f.firstPacket \in Starts(f) /\ f.lastPacket \in Starts(f)
           /\ \A o \in Starts(f) : f.firstPacket <= o /\ o <= f.lastPacket
  BY DEF Packed, PointersOK, Starts, Offsets
<1> QED  BY <1>1, <1>2, <1>3 DEF WellFormed

\* Noise behind a complete packet, to the end of the frame, packs the frame.
LEMMA PackNoise ==
    ASSUME NEW f \in Frame, NEW g, NEW n \in 0 .. FRAME_DATA_SIZE,
           Packed(f, n),
           n > 0 => f.content[n - 1].at = serializedSize(f.content[n - 1].size),
           g.firstPacket = f.firstPacket, g.lastPacket = f.lastPacket,
           \A o \in 0 .. n - 1 : g.content[o] = f.content[o],
           \A o \in n .. FRAME_DATA_SIZE - 1 : g.content[o] = Noise
    PROVE  Packed(g, FRAME_DATA_SIZE)
<1>1. \A o \in n .. FRAME_DATA_SIZE - 1 : g.content[o].at = 0
  BY DEF Noise
<1>2. Chained(g, FRAME_DATA_SIZE)
  <2> SUFFICES ASSUME NEW o \in 1 .. FRAME_DATA_SIZE - 1
               PROVE  Follows(g.content[o - 1], g.content[o])
    BY DEF Chained
  <2>1. CASE o < n
    <3>1. Follows(f.content[o - 1], f.content[o])
      BY <2>1 DEF Packed, Chained
    <3> QED  BY <2>1, <3>1
  <2>2. CASE o = n
    <3>1. g.content[o] = Noise /\ g.content[o - 1] = f.content[n - 1]
      BY <2>2
    <3>2. f.content[n - 1].at = serializedSize(f.content[n - 1].size)
      BY <2>2
    <3>3. f.content[n - 1] \in Cell
      BY <2>2 DEF Frame, Offsets
    <3>4. ~(f.content[n - 1].at < serializedSize(f.content[n - 1].size))
      BY <3>2, <3>3 DEF serializedSize, Cell
    <3> QED  BY <3>1, <3>4 DEF Follows
  <2>3. CASE o > n
    <3>1. g.content[o] = Noise /\ g.content[o - 1] = Noise
      BY <2>3
    <3> QED  BY <3>1 DEF Follows
  <2> QED  BY <2>1, <2>2, <2>3
<1>3. HeadersFit(g, FRAME_DATA_SIZE)
  <2> SUFFICES ASSUME NEW o \in 0 .. FRAME_DATA_SIZE - 1, g.content[o].at = 1
               PROVE  o + 1 \in Offsets
    BY DEF HeadersFit
  <2>1. o \in 0 .. n - 1 /\ f.content[o].at = 1
    BY <1>1
  <2> QED  BY <2>1 DEF HeadersFit, Packed
<1>4. PointersOK(g, FRAME_DATA_SIZE)
  BY <1>1 DEF PointersOK, Packed
<1> QED  BY <1>2, <1>3, <1>4 DEF Packed

(***************************************************************************)
(* What Write makes of frame f: the n bytes in it stay, and behind them    *)
(* come k bytes of packet p of size s, from its byte w + 1 on.             *)
(***************************************************************************)
Extended(f, g, n, p, s, w, k) ==
    /\ \A o \in 0 .. n - 1 : g.content[o] = f.content[o]
    /\ \A o \in n .. n + k - 1 : g.content[o] = ByteOf(p, w + (o - n) + 1, s)

\* The start of a packet and its continuation share this much.
LEMMA ChainPacket ==
    ASSUME NEW f, NEW g, NEW n \in Nat,
           NEW p \in Nat \ {0}, NEW s \in Nat, NEW w \in Nat, NEW k \in Nat,
           w + k <= serializedSize(s),
           Chained(f, n),
           n > 0 => Follows(f.content[n - 1], ByteOf(p, w + 1, s)),
           Extended(f, g, n, p, s, w, k)
    PROVE  Chained(g, n + k)
<1> SUFFICES ASSUME NEW o \in 1 .. n + k - 1
             PROVE  Follows(g.content[o - 1], g.content[o])
  BY DEF Chained
<1>1. CASE o < n
  <2>1. Follows(f.content[o - 1], f.content[o])
    BY <1>1 DEF Chained
  <2> QED  BY <1>1, <2>1 DEF Extended
<1>2. CASE o = n
  <2>1. g.content[o - 1] = f.content[n - 1] /\ g.content[o] = ByteOf(p, w + (n - n) + 1, s)
    BY <1>2 DEF Extended
  <2>2. w + (n - n) + 1 = w + 1
    OBVIOUS
  <2> QED  BY <1>2, <2>1, <2>2
<1>3. CASE o > n
  <2> DEFINE at == w + (o - n)
  <2>1. at \in Nat /\ at >= 1 /\ at < serializedSize(s) /\ w + ((o - 1) - n) + 1 = at
    BY <1>3 DEF serializedSize
  <2>2. g.content[o - 1] = ByteOf(p, at, s) /\ g.content[o] = ByteOf(p, at + 1, s)
    BY <1>3, <2>1 DEF Extended
  <2> HIDE DEF at
  <2>3. /\ ByteOf(p, at, s) # Noise
        /\ ByteOf(p, at, s).at = at /\ ByteOf(p, at, s).size = s
        /\ [ByteOf(p, at, s) EXCEPT !.at = at + 1] = ByteOf(p, at + 1, s)
    BY <2>1 DEF ByteOf, Noise
  <2> QED  BY <2>1, <2>2, <2>3 DEF Follows
<1> QED  BY <1>1, <1>2, <1>3

\* The first bytes of packet p (w = 0), behind packets with smaller numbers.
LEMMA PackStart ==
    ASSUME NEW f \in Frame, NEW g, NEW n \in Nat,
           NEW p \in Nat \ {0}, NEW s \in Nat, NEW w \in Nat, NEW k \in Nat,
           w < 1, k >= 1, n + 1 \in Offsets, n + k <= FRAME_DATA_SIZE,
           w + k <= serializedSize(s),
           Packed(f, n),
           n > 0 => /\ f.content[n - 1].at = serializedSize(f.content[n - 1].size)
                    /\ f.content[n - 1].id < p,
           Extended(f, g, n, p, s, w, k),
           f.firstPacket = PKT_OFFS_NONE => g.firstPacket = n,
           f.firstPacket # PKT_OFFS_NONE => g.firstPacket = f.firstPacket,
           g.lastPacket = n
    PROVE  Packed(g, n + k)
<1>1. n > 0 => Follows(f.content[n - 1], ByteOf(p, w + 1, s))
  <2> SUFFICES ASSUME n > 0 PROVE Follows(f.content[n - 1], ByteOf(p, w + 1, s))
    OBVIOUS
  <2>1. f.content[n - 1] \in Cell
    BY DEF Frame, Offsets
  <2>2. /\ f.content[n - 1] # Noise
        /\ ~(f.content[n - 1].at < serializedSize(f.content[n - 1].size))
    BY <2>1 DEF Cell, serializedSize, Noise
  <2>3. ByteOf(p, w + 1, s).at = 1 /\ ByteOf(p, w + 1, s).id = p
    BY DEF ByteOf
  <2> QED  BY <2>2, <2>3 DEF Follows
<1>2. Chained(g, n + k)
  <2>1. Chained(f, n)
    BY DEF Packed
  <2> QED  BY <1>1, <2>1, ChainPacket
<1>3. \A o \in n .. n + k - 1 : g.content[o].at = 1 <=> o = n
  <2>1. \A o : ByteOf(p, w + (o - n) + 1, s).at = w + (o - n) + 1
    BY DEF ByteOf
  <2>2. \A o \in n .. n + k - 1 : g.content[o].at = w + (o - n) + 1
    BY <2>1 DEF Extended
  <2> QED  BY <2>2
<1>4. HeadersFit(g, n + k)
  <2> SUFFICES ASSUME NEW o \in 0 .. n + k - 1, g.content[o].at = 1
               PROVE  o + 1 \in Offsets
    BY DEF HeadersFit
  <2>1. CASE o < n
    BY <2>1 DEF HeadersFit, Packed, Extended
  <2>2. CASE o >= n
    BY <2>2, <1>3
  <2> QED  BY <2>1, <2>2
<1>5. PointersOK(g, n + k)
  <2>1. g.content[n].at = 1
    BY <1>3
  <2>2. ASSUME NEW o \in 0 .. n + k - 1, g.content[o].at = 1
        PROVE  o <= n
    BY <2>2, <1>3
  <2>3. CASE /\ f.firstPacket = PKT_OFFS_NONE
             /\ \A o \in 0 .. n - 1 : f.content[o].at # 1
    BY <2>1, <2>2, <2>3, <1>3 DEF PointersOK, Extended
  <2>4. CASE /\ f.firstPacket \in 0 .. n - 1 /\ f.content[f.firstPacket].at = 1
             /\ \A o \in 0 .. n - 1 : f.content[o].at = 1 => f.firstPacket <= o
    <3>1. g.firstPacket = f.firstPacket
      BY <2>4 DEF Offsets
    <3> QED  BY <2>1, <2>2, <2>4, <3>1, <1>3 DEF PointersOK, Extended
  <2> QED  BY <2>3, <2>4 DEF Packed, PointersOK
<1> QED  BY <1>2, <1>4, <1>5 DEF Packed

\* More bytes of packet p, which was cut by the end of the frame before.
LEMMA PackMore ==
    ASSUME NEW f \in Frame, NEW g, NEW n \in Nat,
           NEW p \in Nat \ {0}, NEW s \in Nat, NEW w \in Nat \ {0}, NEW k \in Nat,
           n + k <= FRAME_DATA_SIZE, w + k <= serializedSize(s), k >= 1,
           Packed(f, n),
           n > 0 => f.content[n - 1] = ByteOf(p, w, s),
           Extended(f, g, n, p, s, w, k),
           g.firstPacket = f.firstPacket, g.lastPacket = f.lastPacket
    PROVE  Packed(g, n + k)
<1>1. n > 0 => Follows(f.content[n - 1], ByteOf(p, w + 1, s))
  <2>1. /\ ByteOf(p, w, s) # Noise
        /\ ByteOf(p, w, s).at = w /\ ByteOf(p, w, s).size = s
        /\ [ByteOf(p, w, s) EXCEPT !.at = w + 1] = ByteOf(p, w + 1, s)
    BY DEF ByteOf, Noise
  <2>2. w < serializedSize(s)
    BY DEF serializedSize
  <2> QED  BY <2>1, <2>2 DEF Follows
<1>2. Chained(g, n + k)
  <2>1. Chained(f, n) /\ w \in Nat
    BY DEF Packed
  <2> QED  BY <1>1, <2>1, ChainPacket
<1>3. \A o \in n .. n + k - 1 : g.content[o].at # 1
  <2>1. \A o : ByteOf(p, w + (o - n) + 1, s).at = w + (o - n) + 1
    BY DEF ByteOf
  <2>2. \A o \in n .. n + k - 1 : g.content[o].at = w + (o - n) + 1
    BY <2>1 DEF Extended
  <2> QED  BY <2>2
<1>4. HeadersFit(g, n + k)
  <2> SUFFICES ASSUME NEW o \in 0 .. n + k - 1, g.content[o].at = 1
               PROVE  o + 1 \in Offsets
    BY DEF HeadersFit
  <2>1. o \in 0 .. n - 1
    BY <1>3
  <2> QED  BY <2>1 DEF HeadersFit, Packed, Extended
<1>5. PointersOK(g, n + k)
  BY <1>3 DEF PointersOK, Packed, Extended
<1> QED  BY <1>2, <1>4, <1>5 DEF Packed

----------------------------------------------------------------------------
(* The steps of the transmitter. *)

\* The size of a packet, and the bytes made of it.
LEMMA SizeType ==
    ASSUME TxTypeOK, NEW p \in 0 .. Len(accepted)
    PROVE  SizeOf(p) \in Nat /\ serializedSize(SizeOf(p)) \in Nat
<1>1. p # 0 => accepted[p] \in Sizes
  BY DEF TxTypeOK
<1>2. SizeOf(p) \in Nat
  BY <1>1, TransmitterAssumption DEF SizeOf, NoPacket, TransmitterAssumption
<1> QED  BY <1>2 DEF serializedSize

\* Write copies at least one byte, and stops at the end of packet or frame.
LEMMA WriteableBounds ==
    ASSUME NEW written \in Nat, NEW toWrite \in Nat, written < toWrite,
           frameOffset \in Nat, frameOffset < FRAME_DATA_SIZE
    PROVE  LET k == Writeable(written, toWrite)
           IN  /\ k \in Nat /\ k >= 1
               /\ frameOffset + k <= FRAME_DATA_SIZE /\ written + k <= toWrite
               /\ written + k = toWrite \/ frameOffset + k = FRAME_DATA_SIZE
BY DEF Writeable, Min2

\* The frame that Write leaves, byte by byte.
LEMMA WrittenFrame ==
    ASSUME TxTypeOK, NEW p \in 1 .. Len(accepted), NEW written \in Nat, NEW toWrite \in Nat,
           NEW first \in PacketOffset, NEW last \in PacketOffset,
           written < toWrite, frameOffset < FRAME_DATA_SIZE,
           Write(p, written, toWrite, first, last)
    PROVE  LET k == Writeable(written, toWrite)
           IN  /\ frame' \in Frame
               /\ frame'.firstPacket = first /\ frame'.lastPacket = last
               /\ Extended(frame, frame', frameOffset, p, SizeOf(p), written, k)
<1> DEFINE k == Writeable(written, toWrite)
           bytes == [o \in Offsets |->
                       IF o \in frameOffset .. frameOffset + k - 1
                       THEN ByteOf(p, written + (o - frameOffset) + 1, SizeOf(p))
                       ELSE frame.content[o]]
<1>1. frame' = [frame EXCEPT !.firstPacket = first, !.lastPacket = last, !.content = bytes]
  BY DEF Write, ByteOf
<1>2. /\ frame \in Frame /\ frameOffset \in Nat /\ p \in Nat
      /\ k \in Nat /\ frameOffset + k <= FRAME_DATA_SIZE /\ SizeOf(p) \in Nat
  BY WriteableBounds, SizeType DEF TxTypeOK
<1> HIDE DEF k
<1>3. ASSUME NEW o \in Offsets
      PROVE  bytes[o] \in Cell
  <2>1. CASE o \in frameOffset .. frameOffset + k - 1
    <3>1. written + (o - frameOffset) + 1 \in Nat
      BY <1>2, <2>1
    <3>2. ByteOf(p, written + (o - frameOffset) + 1, SizeOf(p)) \in Cell
      BY <1>2, <3>1 DEF ByteOf, Cell
    <3> QED  BY <2>1, <3>2
  <2>2. CASE o \notin frameOffset .. frameOffset + k - 1
    BY <1>2, <2>2 DEF Frame
  <2> QED  BY <2>1, <2>2
<1>4. bytes \in [Offsets -> Cell]
  BY <1>3
<1>5. \A o \in 0 .. frameOffset + k - 1 : o \in Offsets
  BY <1>2 DEF Offsets
<1>6. \A o \in 0 .. frameOffset - 1 : bytes[o] = frame.content[o]
  BY SMTT(30), <1>2, <1>5
<1>7. \A o \in frameOffset .. frameOffset + k - 1 :
        bytes[o] = ByteOf(p, written + (o - frameOffset) + 1, SizeOf(p))
  BY <1>2, <1>5
<1> HIDE DEF bytes
<1>8. /\ frame' \in Frame /\ frame'.content = bytes
      /\ frame'.firstPacket = first /\ frame'.lastPacket = last
  BY <1>1, <1>2, <1>4 DEF Frame
<1> QED  BY <1>6, <1>7, <1>8 DEF k, Extended

\* The frame that the worker sends when it pads it, byte by byte.
LEMMA PaddedFrame ==
    ASSUME TxTypeOK, frame' = [frame EXCEPT !.content = Padded]
    PROVE  /\ frame' \in Frame
           /\ frame'.firstPacket = frame.firstPacket
           /\ frame'.lastPacket = frame.lastPacket
           /\ \A o \in 0 .. frameOffset - 1 : frame'.content[o] = frame.content[o]
           /\ \A o \in frameOffset .. FRAME_DATA_SIZE - 1 : frame'.content[o] = Noise
<1>1. frame \in Frame /\ frameOffset \in 0 .. FRAME_DATA_SIZE
  BY DEF TxTypeOK
<1>2. Noise \in Cell
  BY DEF Noise, Cell
<1>3. Padded \in [Offsets -> Cell]
  BY <1>1, <1>2 DEF Padded, Frame
<1>4. \A o \in 0 .. FRAME_DATA_SIZE - 1 : o \in Offsets
  BY DEF Offsets
<1>5. /\ \A o \in 0 .. frameOffset - 1 : Padded[o] = frame.content[o]
      /\ \A o \in frameOffset .. FRAME_DATA_SIZE - 1 : Padded[o] = Noise
  BY <1>1, <1>4 DEF Padded
<1> HIDE DEF Padded
<1>6. /\ frame' \in Frame /\ frame'.content = Padded
      /\ frame'.firstPacket = frame.firstPacket /\ frame'.lastPacket = frame.lastPacket
  BY <1>1, <1>3 DEF Frame
<1> QED  BY <1>5, <1>6

\* send(): the queue stays in order and the numbers keep their sizes.
LEMMA SendInv ==
    ASSUME TxInv, SendAccepted
    PROVE  TxInv'
<1> USE DEF TxInv, SendAccepted, fillVars
<1>1. TxFlagsOK'
  BY DEF TxTypeOK, TxFlagsOK
<1>2. PICK s \in Sizes : /\ accepted' = Append(accepted, s)
                         /\ packets' = Append(packets, Len(accepted) + 1)
  OBVIOUS
<1>3. /\ accepted' \in Seq(Sizes) /\ Len(accepted') = Len(accepted) + 1
      /\ \A p \in 1 .. Len(accepted) : accepted'[p] = accepted[p]
  BY <1>2 DEF TxTypeOK
<1>4. /\ packets' \in Seq(1 .. Len(accepted'))
      /\ Len(packets') = Len(packets) + 1
      /\ \A i \in 1 .. Len(packets) : packets'[i] = packets[i]
      /\ packets'[Len(packets')] = Len(accepted) + 1
  <2>1. packets \in Seq(1 .. Len(accepted'))
    BY <1>3 DEF TxTypeOK
  <2>2. Len(accepted) + 1 \in 1 .. Len(accepted')
    BY <1>3 DEF TxTypeOK
  <2> QED  BY <1>2, <2>1, <2>2
<1>5. TxTypeOK'
  BY <1>1, <1>3, <1>4 DEF TxTypeOK
<1>6. SizeOf(pkt)' = SizeOf(pkt)
  BY <1>3 DEF SizeOf, TxTypeOK, NoPacket
<1>7. QueueOrder'
  <2>1. \A i \in 1 .. Len(packets) : packets[i] \in 1 .. Len(accepted)
    BY DEF TxTypeOK
  <2>2. /\ pkt' = pkt /\ pkt \in 0 .. Len(accepted) /\ Len(packets) \in Nat
        /\ Len(accepted) \in Nat
    BY DEF TxTypeOK
  <2>3. \A i \in 1 .. Len(packets') : pkt' < packets'[i]
    BY <1>4, <2>2 DEF QueueOrder
  <2>4. ASSUME NEW i \in 1 .. Len(packets'), NEW j \in 1 .. Len(packets'), i < j
        PROVE  packets'[i] < packets'[j]
    <3>1. i \in 1 .. Len(packets) /\ packets'[i] = packets[i] /\ packets[i] <= Len(accepted)
      BY <1>4, <2>1, <2>2, <2>4
    <3>2. CASE j = Len(packets')
      BY <1>4, <2>1, <2>2, <3>1, <3>2
    <3>3. CASE j # Len(packets')
      <4>1. j \in 1 .. Len(packets) /\ packets'[j] = packets[j]
        BY <1>4, <2>2, <3>3
      <4> QED  BY <2>4, <3>1, <4>1 DEF QueueOrder
    <3> QED  BY <3>2, <3>3
  <2> QED  BY <2>3, <2>4 DEF QueueOrder
<1>8. Progress' /\ Filling'
  BY <1>6 DEF Progress, Filling, LastByte
<1>9. Complete'
  BY DEF Complete
<1> QED  BY <1>5, <1>7, <1>8, <1>9

\* The queue behind the packet that is popped.
LEMMA PopQueue ==
    ASSUME TxTypeOK, QueueOrder, packets # <<>>, packets' = Tail(packets),
           accepted' = accepted, pkt' = Head(packets)
    PROVE  /\ Head(packets) \in 1 .. Len(accepted) /\ Head(packets) > pkt
           /\ packets' \in Seq(1 .. Len(accepted'))
           /\ QueueOrder'
<1>1. /\ packets \in Seq(1 .. Len(accepted)) /\ Len(packets) \in Nat /\ Len(packets) >= 1
      /\ Head(packets) = packets[1]
  BY DEF TxTypeOK
<1>2. /\ packets' \in Seq(1 .. Len(accepted)) /\ Len(packets') = Len(packets) - 1
      /\ \A i \in 1 .. Len(packets') : packets'[i] = packets[i + 1]
  BY <1>1
<1>3. Head(packets) \in 1 .. Len(accepted) /\ Head(packets) > pkt
  BY <1>1 DEF QueueOrder, TxTypeOK
<1>4. \A i \in 1 .. Len(packets') : pkt' < packets'[i]
  BY <1>1, <1>2 DEF QueueOrder
<1>5. \A i, j \in 1 .. Len(packets') : i < j => packets'[i] < packets'[j]
  BY <1>1, <1>2 DEF QueueOrder
<1> QED  BY <1>2, <1>3, <1>4, <1>5 DEF QueueOrder

\* A padded frame is complete.
LEMMA PadInv ==
    ASSUME TxInv, txPc = "fill", pktWritten = 0, frame' = [frame EXCEPT !.content = Padded]
    PROVE  frame' \in Frame /\ Packed(frame', FRAME_DATA_SIZE)
<1>1. /\ frame \in Frame /\ frameOffset \in 0 .. FRAME_DATA_SIZE /\ Packed(frame, frameOffset)
      /\ pkt \in 0 .. Len(accepted)
  BY DEF TxInv, TxTypeOK, Filling
<1>2. frameOffset > 0 =>
        frame.content[frameOffset - 1].at =
            serializedSize(frame.content[frameOffset - 1].size)
  BY DEF TxInv, Filling, LastByte, ByteOf
<1> QED  BY <1>1, <1>2, PaddedFrame, PackNoise DEF TxInv

\* Noise where no header fits keeps the invariant.
LEMMA PadShortInv ==
    ASSUME TxInv, PadShort
    PROVE  TxInv'
<1> USE DEF TxInv, PadShort, apiVars
<1>1. frame' \in Frame /\ Packed(frame', FRAME_DATA_SIZE)
  BY PadInv
<1>2. TxFlagsOK'
  BY DEF TxTypeOK, TxFlagsOK
<1>3. TxTypeOK'
  BY <1>1, <1>2 DEF TxTypeOK, TxPcs
<1>4. QueueOrder' /\ Progress'
  BY DEF QueueOrder, Progress, SizeOf
<1>5. Filling' /\ Complete'
  BY <1>1 DEF Filling, Complete
<1> QED  BY <1>3, <1>4, <1>5

\* So does noise when no packet is there.
LEMMA PadIdleInv ==
    ASSUME TxInv, PadIdle
    PROVE  TxInv'
<1> USE DEF TxInv, PadIdle, apiVars
<1>1. frame' \in Frame /\ Packed(frame', FRAME_DATA_SIZE)
  BY PadInv
<1>2. TxFlagsOK'
  BY DEF TxTypeOK, TxFlagsOK
<1>3. /\ packets' \in Seq(1 .. Len(accepted')) /\ pkt' \in 0 .. Len(accepted')
      /\ QueueOrder'
  <2>1. CASE packets = <<>> /\ pkt' = NoPacket /\ UNCHANGED packets
    BY <2>1 DEF TxTypeOK, QueueOrder, NoPacket
  <2>2. CASE packets # <<>> /\ pkt' = Head(packets) /\ packets' = Tail(packets)
    BY SMTT(30), <2>2, PopQueue DEF TxTypeOK
  <2> QED  BY <2>1, <2>2
<1>4. TxTypeOK'
  BY <1>1, <1>2, <1>3 DEF TxTypeOK, TxPcs
<1>5. Progress' /\ Filling' /\ Complete'
  BY <1>1 DEF Progress, Filling, Complete
<1> QED  BY <1>3, <1>4, <1>5

\* So does beginning a frame.
LEMMA BeginInv ==
    ASSUME TxInv, BeginFrame
    PROVE  TxInv'
<1> USE DEF TxInv, BeginFrame, apiVars
<1>1. TxFlagsOK'
  BY DEF TxTypeOK, TxFlagsOK
<1>2. /\ frame' \in Frame
      /\ frame'.firstPacket = PKT_OFFS_NONE /\ frame'.lastPacket = PKT_OFFS_NONE
  BY DEF TxTypeOK, Frame, PacketOffset
<1>3. counter' \in 0 .. CounterMod - 1
  BY SMTT(30) DEF TxTypeOK
<1>4. TxTypeOK'
  BY <1>1, <1>2, <1>3 DEF TxTypeOK, TxPcs
<1>5. QueueOrder' /\ Progress'
  BY DEF QueueOrder, Progress, SizeOf
<1>6. Packed(frame', 0)
  BY <1>2 DEF Packed, Chained, HeadersFit, PointersOK
<1>7. Filling' /\ Complete'
  BY <1>6 DEF Filling, Complete
<1> QED  BY <1>4, <1>5, <1>7

(***************************************************************************)
(* What StartPacket and ContinuePacket share: if the frame that Write      *)
(* leaves is packed, the invariant's statements about the worker hold.     *)
(***************************************************************************)
LEMMA WriteInv ==
    ASSUME TxTypeOK, txPc = "fill", NEW p \in 1 .. Len(accepted), NEW written \in Nat,
           NEW toWrite \in Nat, NEW first \in PacketOffset, NEW last \in PacketOffset,
           toWrite = serializedSize(SizeOf(p)), written < toWrite,
           frameOffset < FRAME_DATA_SIZE,
           Write(p, written, toWrite, first, last), UNCHANGED apiVars,
           Packed(frame', frameOffset + Writeable(written, toWrite))
    PROVE  /\ TxFlagsOK' /\ frame' \in Frame /\ txPc' \in TxPcs
           /\ frameOffset' \in 0 .. FRAME_DATA_SIZE
           /\ pkt' = p /\ pktToWrite' \in Nat /\ pktWritten' \in Nat
           /\ Progress' /\ Filling'
           /\ txPc' = "send" => Packed(frame', FRAME_DATA_SIZE)
<1> DEFINE k == Writeable(written, toWrite)
<1>1. /\ k \in Nat /\ k >= 1 /\ frameOffset \in Nat
      /\ frameOffset + k <= FRAME_DATA_SIZE /\ written + k <= toWrite
      /\ written + k = toWrite \/ frameOffset + k = FRAME_DATA_SIZE
  BY WriteableBounds DEF TxTypeOK
<1>2. /\ frame' \in Frame
      /\ Extended(frame, frame', frameOffset, p, SizeOf(p), written, k)
  BY WrittenFrame
<1>3. /\ frameOffset' = frameOffset + k /\ pkt' = p
      /\ pktToWrite' = IF written + k >= toWrite THEN 0 ELSE toWrite
      /\ pktWritten' = IF written + k >= toWrite THEN 0 ELSE written + k
      /\ txPc' = IF frameOffset + k < FRAME_DATA_SIZE THEN "fill" ELSE "send"
  BY DEF Write
<1> HIDE DEF k
<1>4. TxFlagsOK'
  BY DEF TxTypeOK, TxFlagsOK, apiVars
<1>5. /\ txPc' \in TxPcs /\ frameOffset' \in 0 .. FRAME_DATA_SIZE
      /\ pktToWrite' \in Nat /\ pktWritten' \in Nat
  BY <1>1, <1>3 DEF TxPcs
<1>6. SizeOf(p)' = SizeOf(p)
  BY DEF apiVars, SizeOf
<1>7. Progress'
  BY <1>1, <1>3, <1>6 DEF Progress, NoPacket
<1>8. Packed(frame', frameOffset')
  BY <1>3 DEF k
<1>9. Filling'
  <2> SUFFICES ASSUME txPc' = "fill"
               PROVE  /\ frameOffset' < FRAME_DATA_SIZE
                      /\ Packed(frame', frameOffset')
                      /\ frameOffset' > 0 => LastByte'
    BY DEF Filling
  <2>1. /\ frameOffset + k < FRAME_DATA_SIZE /\ written + k = toWrite /\ pktWritten' = 0
        /\ frameOffset + k - 1 \in frameOffset .. frameOffset + k - 1
        /\ written + ((frameOffset + k - 1) - frameOffset) + 1 = toWrite
    BY <1>1, <1>3
  <2>2. frame'.content[frameOffset + k - 1] = ByteOf(p, toWrite, SizeOf(p))
    BY <1>2, <2>1 DEF Extended
  <2>3. LastByte'
    <3>1. SizeOf(pkt)' = SizeOf(p) /\ serializedSize(SizeOf(pkt))' = toWrite
      BY <1>3 DEF SizeOf, serializedSize, apiVars
    <3>2. frame'.content[frameOffset' - 1] = ByteOf(p, toWrite, SizeOf(p))
      <4>1. frameOffset' - 1 = frameOffset + k - 1
        BY <1>1, <1>3
      <4> QED  BY <2>2, <4>1
    <3>3. pkt' = p /\ pkt' # NoPacket /\ pktWritten' = 0
      BY <1>3, <2>1 DEF NoPacket
    <3> QED  BY <3>1, <3>2, <3>3 DEF LastByte
  <2> QED  BY <1>3, <1>8, <2>1, <2>3
<1>10. txPc' = "send" => Packed(frame', FRAME_DATA_SIZE)
  BY <1>1, <1>3, <1>8
<1> QED  BY <1>2, <1>3, <1>4, <1>5, <1>7, <1>9, <1>10

\* So does starting a packet.
LEMMA StartInv ==
    ASSUME TxInv, StartPacket
    PROVE  TxInv'
<1> DEFINE p == Head(packets)
           toWrite == serializedSize(SizeOf(p))
           first == IF frame.firstPacket = PKT_OFFS_NONE THEN frameOffset
                                                         ELSE frame.firstPacket
           k == Writeable(0, toWrite)
<1>1. /\ TxTypeOK /\ txPc = "fill" /\ pktWritten \in Nat /\ pktWritten = 0 /\ packets # <<>>
      /\ FRAME_DATA_SIZE - frameOffset >= HEADER /\ SizeOf(p) # 0
      /\ packets' = Tail(packets) /\ UNCHANGED apiVars /\ UNCHANGED <<counter, txStream>>
      /\ Write(p, 0, toWrite, first, frameOffset)
  BY DEF TxInv, TxTypeOK, StartPacket, pop
<1>2. pkt' = p
  BY <1>1 DEF Write
<1>3. /\ p \in 1 .. Len(accepted) /\ p > pkt
      /\ packets' \in Seq(1 .. Len(accepted')) /\ QueueOrder'
  BY <1>1, <1>2, PopQueue DEF TxInv, apiVars
<1>4. /\ frame \in Frame /\ frameOffset \in Nat /\ frameOffset < FRAME_DATA_SIZE
      /\ Packed(frame, frameOffset) /\ frameOffset + 1 \in Offsets
      /\ pkt \in Nat /\ p \in Nat \ {0}
  BY <1>1, <1>3 DEF TxInv, TxTypeOK, Filling, Offsets
<1>5. SizeOf(p) \in Nat /\ toWrite \in Nat /\ 0 < toWrite
  BY <1>1, <1>3, SizeType DEF serializedSize
<1>6. first \in PacketOffset /\ frameOffset \in PacketOffset
  BY <1>4 DEF Frame, PacketOffset, Offsets
<1>7. frameOffset > 0 =>
        /\ frame.content[frameOffset - 1].at =
             serializedSize(frame.content[frameOffset - 1].size)
        /\ frame.content[frameOffset - 1].id < p
  BY <1>1, <1>3 DEF TxInv, Filling, LastByte, ByteOf
<1>8. /\ k \in Nat /\ k >= 1 /\ frameOffset + k <= FRAME_DATA_SIZE /\ k <= toWrite
  BY <1>4, <1>5, WriteableBounds
<1>9. /\ frame' \in Frame
      /\ frame'.firstPacket = first /\ frame'.lastPacket = frameOffset
      /\ Extended(frame, frame', frameOffset, p, SizeOf(p), 0, k)
  <2> HIDE DEF p, toWrite, first
  <2> QED  BY <1>1, <1>3, <1>4, <1>5, <1>6, WrittenFrame
<1> HIDE DEF p, k, first
<1>10. /\ frame.firstPacket = PKT_OFFS_NONE => frame'.firstPacket = frameOffset
       /\ frame.firstPacket # PKT_OFFS_NONE => frame'.firstPacket = frame.firstPacket
  BY <1>9 DEF first
<1>11. Packed(frame', frameOffset + k)
  <2>1. Extended(frame, frame', frameOffset, p, SizeOf(p), pktWritten, k)
    BY <1>1, <1>9
  <2>2. pktWritten < 1 /\ pktWritten + k <= serializedSize(SizeOf(p))
    BY <1>1, <1>8
  <2> HIDE DEF toWrite
  <2> QED  BY <1>1, <1>4, <1>5, <1>7, <1>8, <1>9, <1>10, <2>1, <2>2, PackStart
<1>12. /\ TxFlagsOK' /\ frame' \in Frame /\ txPc' \in TxPcs
       /\ frameOffset' \in 0 .. FRAME_DATA_SIZE
       /\ pktToWrite' \in Nat /\ pktWritten' \in Nat
       /\ Progress' /\ Filling'
       /\ txPc' = "send" => Packed(frame', FRAME_DATA_SIZE)
  <2> HIDE DEF toWrite
  <2>1. toWrite = serializedSize(SizeOf(p))
    BY DEF toWrite
  <2> QED  BY <1>1, <1>3, <1>4, <1>5, <1>6, <1>11, <2>1, WriteInv DEF k
<1>13. TxTypeOK'
  BY <1>1, <1>2, <1>3, <1>12 DEF TxTypeOK, apiVars
<1>14. Complete'
  BY <1>1, <1>12 DEF TxInv, Complete
<1> QED  BY <1>3, <1>12, <1>13, <1>14 DEF TxInv

\* So does going on with a packet.
LEMMA ContinueInv ==
    ASSUME TxInv, ContinuePacket
    PROVE  TxInv'
<1> DEFINE k == Writeable(pktWritten, pktToWrite)
<1>1. /\ TxTypeOK /\ txPc = "fill" /\ pktWritten # 0
      /\ UNCHANGED apiVars /\ UNCHANGED <<packets, counter, txStream>>
      /\ Write(pkt, pktWritten, pktToWrite, frame.firstPacket, frame.lastPacket)
  BY DEF TxInv, ContinuePacket
<1>2. /\ pkt \in 1 .. Len(accepted) /\ pktWritten \in Nat \ {0} /\ pktToWrite \in Nat
      /\ pktToWrite = serializedSize(SizeOf(pkt)) /\ pktWritten < pktToWrite
      /\ SizeOf(pkt) \in Nat
  BY <1>1, SizeType DEF TxInv, TxTypeOK, Progress, NoPacket
<1>3. /\ frame \in Frame /\ frameOffset \in Nat /\ frameOffset < FRAME_DATA_SIZE
      /\ Packed(frame, frameOffset) /\ frameOffset = 0 /\ pkt \in Nat \ {0}
      /\ frame.firstPacket \in PacketOffset /\ frame.lastPacket \in PacketOffset
  BY <1>1, <1>2 DEF TxInv, TxTypeOK, Filling, LastByte, Frame
<1>4. /\ k \in Nat /\ k >= 1 /\ frameOffset + k <= FRAME_DATA_SIZE
      /\ pktWritten + k <= serializedSize(SizeOf(pkt))
  BY <1>2, <1>3, WriteableBounds
<1>5. /\ frame' \in Frame
      /\ frame'.firstPacket = frame.firstPacket /\ frame'.lastPacket = frame.lastPacket
      /\ Extended(frame, frame', frameOffset, pkt, SizeOf(pkt), pktWritten, k)
  BY <1>1, <1>2, <1>3, WrittenFrame
<1> HIDE DEF k
<1>6. Packed(frame', frameOffset + k)
  BY SMTT(30), <1>2, <1>3, <1>4, <1>5, PackMore
<1>7. /\ TxFlagsOK' /\ frame' \in Frame /\ txPc' \in TxPcs
      /\ frameOffset' \in 0 .. FRAME_DATA_SIZE
      /\ pkt' = pkt /\ pktToWrite' \in Nat /\ pktWritten' \in Nat
      /\ Progress' /\ Filling'
      /\ txPc' = "send" => Packed(frame', FRAME_DATA_SIZE)
  BY <1>1, <1>2, <1>3, <1>6, WriteInv DEF k
<1>8. TxTypeOK'
  BY <1>1, <1>7 DEF TxTypeOK, apiVars
<1>9. QueueOrder' /\ Complete'
  BY <1>1, <1>7 DEF TxInv, QueueOrder, Complete
<1> QED  BY <1>7, <1>8, <1>9 DEF TxInv

\* So do handing the frame over and giving it up.
LEMMA WorkerEndInv ==
    ASSUME TxInv, SendFrame \/ AbandonFrame
    PROVE  TxInv'
<1> USE DEF TxInv, apiVars, fillVars
<1>1. CASE SendFrame
  <2> USE <1>1 DEF SendFrame
  <2>1. TxFlagsOK'
    BY DEF TxTypeOK, TxFlagsOK
  <2>2. txStream' \in Seq(Frame) /\ Len(txStream') = 1 /\ txStream'[1] = frame
    BY DEF TxTypeOK
  <2>3. TxTypeOK'
    BY <2>1, <2>2 DEF TxTypeOK, TxPcs
  <2>4. Complete'
    BY <2>2 DEF Complete
  <2> QED  BY <2>3, <2>4 DEF QueueOrder, Progress, Filling, SizeOf
<1>2. CASE AbandonFrame
  <2> USE <1>2 DEF AbandonFrame
  <2>1. TxFlagsOK'
    BY DEF TxTypeOK, TxFlagsOK
  <2>2. TxTypeOK'
    BY <2>1 DEF TxTypeOK, TxPcs
  <2> QED  BY <2>2 DEF QueueOrder, Progress, Filling, SizeOf, Complete
<1> QED  BY <1>1, <1>2

\* So do start() and stop().
LEMMA ControlInv ==
    ASSUME TxInv, StopTx \/ JoinTx \/ StartTx
    PROVE  TxInv'
<1> USE DEF TxInv, fillVars
<1>1. TxFlagsOK'
  <2>1. CASE StopTx \/ JoinTx
    BY <2>1 DEF StopTx, JoinTx, TxTypeOK, TxFlagsOK
  <2>2. CASE StartTx
    BY <2>2 DEF StartTx, TxTypeOK, TxFlagsOK
  <2> QED  BY <2>1, <2>2
<1>2. CASE StopTx
  <2>1. TxTypeOK'
    BY <1>1, <1>2 DEF StopTx, TxTypeOK
  <2> QED  BY <1>2, <2>1
           DEF StopTx, QueueOrder, Progress, Filling, LastByte, SizeOf, Complete
<1>3. CASE JoinTx
  <2>1. TxTypeOK'
    BY <1>1, <1>3 DEF JoinTx, TxTypeOK, TxPcs
  <2> QED  BY <1>3, <2>1 DEF JoinTx, QueueOrder, Progress, Filling, SizeOf, Complete
<1>4. CASE StartTx
  <2>1. EmptyFrame \in Frame /\ counter' \in 0 .. CounterMod - 1
    BY <1>4 DEF StartTx, EmptyFrame, Frame, Noise, Cell, PacketOffset, Offsets
  <2>2. TxTypeOK'
    BY <1>1, <1>4, <2>1 DEF StartTx, TxTypeOK, TxPcs, NoPacket
  <2>3. \A i \in 1 .. Len(packets) : packets[i] > 0
    BY DEF TxTypeOK
  <2>4. QueueOrder'
    BY <1>4, <2>3 DEF StartTx, QueueOrder, NoPacket
  <2> QED  BY <1>4, <2>2, <2>4 DEF StartTx, Progress, Filling, Complete
<1> QED  BY <1>2, <1>3, <1>4

\* The physical layer only takes frames away.
LEMMA CarryInv ==
    ASSUME TxInv, CarryFrame \/ LoseFrame
    PROVE  TxInv'
<1> USE DEF TxInv
<1>1. txStream' = <<>> /\ UNCHANGED <<apiVars, packets, txPc, counter, fillVars>>
  BY DEF CarryFrame, LoseFrame
<1>2. TxFlagsOK'
  BY <1>1 DEF TxTypeOK, TxFlagsOK, apiVars
<1>3. TxTypeOK'
  BY <1>1, <1>2 DEF TxTypeOK, apiVars, fillVars
<1> QED  BY <1>1, <1>3 DEF QueueOrder, Progress, Filling, LastByte, SizeOf, Complete,
                           apiVars, fillVars

\* So does a step that changes nothing.
LEMMA StutterInv ==
    ASSUME TxInv, UNCHANGED txVars
    PROVE  TxInv'
<1> USE DEF TxInv, txVars, apiVars, fillVars
<1>1. TxFlagsOK'
  BY DEF TxTypeOK, TxFlagsOK
<1>2. TxTypeOK'
  BY <1>1 DEF TxTypeOK
<1> QED  BY <1>2 DEF QueueOrder, Progress, Filling, LastByte, SizeOf, Complete

----------------------------------------------------------------------------
(* The theorems. *)

(***************************************************************************)
(* The invariant holds in every state of the link: locals, queue and       *)
(* frames of the transmitter fit together (transmitter.cpp:90-171).        *)
(***************************************************************************)
THEOREM TransmitterInvariance == LinkSpec => []TxInv
<1>1. LinkInit => TxInv
  <2> SUFFICES ASSUME LinkInit PROVE TxInv
    OBVIOUS
  <2> USE DEF LinkInit, TxInit
  <2>1. TxFlagsOK
    BY DEF TxFlagsOK
  <2>2. EmptyFrame \in Frame
    BY DEF EmptyFrame, Frame, Noise, Cell, PacketOffset, Offsets
  <2>3. TxTypeOK
    BY <2>1, <2>2 DEF TxTypeOK, TxPcs, NoPacket
  <2> QED  BY <2>3 DEF TxInv, QueueOrder, Progress, Filling, Complete
<1>2. TxInv /\ [LinkNext]_vars => TxInv'
  <2> SUFFICES ASSUME TxInv, [LinkNext]_vars PROVE TxInv'
    OBVIOUS
  <2>1. CASE CarryFrame \/ LoseFrame
    BY <2>1, CarryInv
  <2>2. CASE TxControl
    BY <2>2, SendInv, ControlInv DEF TxControl
  <2>3. CASE TxPack
    BY <2>3, BeginInv, PadShortInv, PadIdleInv, StartInv, ContinueInv, WorkerEndInv
       DEF TxPack, FillFrame
  <2>4. CASE TxAbandon
    BY <2>4, WorkerEndInv DEF TxAbandon
  <2>5. CASE RxTake \/ RxExtract \/ RxCopy \/ RxFinish \/ RxControl \/ RxLeave
    BY <2>5, StutterInv DEF RxTake, RxExtract, RxCopy, RxFinish, RxControl, RxLeave
  <2>6. CASE UNCHANGED vars
    BY <2>6, StutterInv DEF vars
  <2> QED  BY <2>1, <2>2, <2>3, <2>4, <2>5, <2>6 DEF LinkNext
<1> QED  BY <1>1, <1>2, PTL DEF LinkSpec

(***************************************************************************)
(* Every frame given to the encoders is well formed: packets back to back  *)
(* and in the order of send(), no size bytes cut by the end of the frame,  *)
(* pointers at the first and the last packet that starts in it             *)
(* (transmitter.cpp:104-166).                                              *)
(***************************************************************************)
THEOREM FramesAreWellFormed == LinkSpec => []FrameWellFormed
<1>1. TxInv => FrameWellFormed
  <2> SUFFICES ASSUME TxInv, NEW i \in 1 .. Len(txStream)
               PROVE  WellFormed(txStream[i])
    BY DEF FrameWellFormed
  <2>1. txStream[i] \in Frame
    BY DEF TxInv, TxTypeOK
  <2>2. Packed(txStream[i], FRAME_DATA_SIZE)
    BY DEF TxInv, Complete
  <2> QED  BY <2>1, <2>2, PackedWellFormed
<1> QED  BY <1>1, TransmitterInvariance, PTL

----------------------------------------------------------------------------
(***************************************************************************)
(* The receiver at the far end of the link: it parses a packet's size only *)
(* from size bytes, and hands over only whole packets, except those open   *)
(* across a gap the counter does not show.  For every frame size, counter  *)
(* width, set of packet sizes and number of losses and restarts.           *)
(***************************************************************************)

Last == FRAME_DATA_SIZE - 1

\* A byte of a packet that more bytes of the packet follow.
Open(c) == c # Noise /\ c.at < serializedSize(c.size)

\* A byte that is not the first of its packet.
Continues(c) == c.at > 1

\* Byte d may come right behind byte c in what one run of the worker sends.
Joins(c, d) == IF Open(c) THEN d = [c EXCEPT !.at = c.at + 1]
                          ELSE ~Continues(d)

----------------------------------------------------------------------------
(* The sender's side of the invariant, next to TxInv. *)

\* A byte of a packet that send() took and that has content, or noise.
Made(sizes, c) ==
    \/ c = Noise
    \/ /\ c.id \in 1 .. Len(sizes)
       /\ c.size = sizes[c.id] /\ c.size # 0
       /\ c.at \in 1 .. serializedSize(c.size)

MadeOf(sizes, f) == \A o \in Offsets : Made(sizes, f.content[o])

SenderBytes ==
    /\ MadeOf(accepted, frame)
    /\ \A i \in 1 .. Len(txStream) : MadeOf(accepted, txStream[i])
    /\ pktWritten # 0 => SizeOf(pkt) # 0

\* The worker is about to write the first byte of a frame.
AtHead == txPc = "begin" \/ (txPc = "fill" /\ frameOffset = 0)

\* Byte c is the one in front of the next that the worker writes.
Resumes(c) == IF pktWritten # 0 THEN c = ByteOf(pkt, pktWritten, SizeOf(pkt))
                                ELSE ~Open(c)

\* Runs of the worker: what is on its way belongs to this run or to one before.
SenderRuns ==
    /\ running <=> txPc # "down"
    /\ epoch <= MaxRestarts
    /\ writerStop => running /\ epoch < MaxRestarts
    /\ txPc \in {"fill", "send"} =>
          frame.epoch = epoch /\ counter = (frame.counter + 1) % CounterMod
    /\ txPc = "send" => Resumes(frame.content[Last])

\* A frame may still be on its way when the worker of its run is gone.
Since(f) == f.epoch <= epoch /\ (txPc = "down" => f.epoch < epoch)

----------------------------------------------------------------------------
(* The receiver's side. *)

live == rxPc \in {"read", "extract"}

\* The worker holds a frame; NoFrame, which a new worker starts from, is none.
HasFrame == live /\ WellFormed(rxFrame)

\* The partial packet: some of its bytes, never all.
Partial ==
    /\ pktExpected = 0 => pktBuffer = <<>>
    /\ pktExpected # 0 => Len(pktBuffer) < pktExpected
    /\ tainted => live /\ pktExpected # 0
    /\ live /\ pktExpected # 0 => WellFormed(rxFrame)

(***************************************************************************)
(* Where extraction stands: before the frame's first packet, in front of   *)
(* the size of a packet, or right behind one.                              *)
(***************************************************************************)
Cursor ==
    rxPc = "extract" =>
        /\ WellFormed(rxFrame) /\ frameRead < FRAME_DATA_SIZE
        /\ firstPacket /\ pktExpected # 0 => frameRead = 0 /\ ~lastPacket
        /\ firstPacket /\ pktExpected = 0 =>
              rxFrame.firstPacket # PKT_OFFS_NONE /\ ~lastPacket
        /\ ~firstPacket /\ pktExpected = 0 => rxFrame.content[frameRead].at = 1
        /\ ~firstPacket /\ pktExpected # 0 =>
              /\ frameRead >= HEADER /\ pktBuffer = <<>>
              /\ IsHeader(rxFrame.content, frameRead - HEADER)
              /\ pktExpected = rxFrame.content[frameRead - HEADER].size
              /\ lastPacket = (rxFrame.lastPacket = frameRead - HEADER)

\* The byte the partial packet needs next is k behind byte c.
Expects(c, k) ==
    /\ c = ByteOf(c.id, pktRead + HEADER + k, pktExpected)
    /\ \A i \in 1 .. pktRead : pktBuffer[i] = ByteOf(c.id, i + HEADER, pktExpected)

\* An untainted partial packet is the beginning of the packet at the cursor.
Prefix ==
    pktExpected # 0 /\ ~tainted =>
        /\ rxPc = "read" => Expects(rxFrame.content[Last], 0)
        /\ rxPc = "extract" => Expects(rxFrame.content[frameRead], 1)

----------------------------------------------------------------------------
(* Both sides. *)

Arrived ==
    /\ MadeOf(accepted, rxFrame) /\ rxFrame.epoch <= epoch
    /\ HasFrame => rxFrame.epoch = lastEpoch /\ rxFrame.counter = lastCounter
                   /\ Since(rxFrame)
    /\ \A i \in 1 .. Len(rxStream) :
          MadeOf(accepted, rxStream[i]) /\ WellFormed(rxStream[i]) /\ Since(rxStream[i])
    /\ \A i \in 1 .. Len(txStream) : Since(txStream[i])

\* Frame x is the next that was sent after frame y.
Meets(y, x) ==
    IF y.epoch = x.epoch
    THEN /\ Joins(y.content[Last], x.content[0])
         /\ x.counter = (y.counter + 1) % CounterMod
    ELSE ~Continues(x.content[0])

\* Frame y is the last that was sent.
MeetsWorker(y) ==
    /\ AtHead => IF y.epoch = epoch THEN Resumes(y.content[Last]) ELSE pktWritten = 0
    /\ txPc = "begin" /\ y.epoch = epoch => counter = (y.counter + 1) % CounterMod
    /\ txPc = "fill" /\ y.epoch = epoch => frame.counter = (y.counter + 1) % CounterMod
    /\ ~AtHead /\ txPc \in {"fill", "send"} => Meets(y, frame)

\* The last frame the receiver took, if none was lost behind it.
Linked == HasFrame /\ missed = 0

Seams ==
    /\ Linked /\ rxStream # <<>> => Meets(rxFrame, rxStream[1])
    /\ Linked /\ rxStream = <<>> /\ txStream # <<>> => Meets(rxFrame, txStream[1])
    /\ rxStream # <<>> /\ txStream # <<>> => Meets(rxStream[1], txStream[1])
    /\ Linked /\ rxStream = <<>> /\ txStream = <<>> => MeetsWorker(rxFrame)
    /\ rxStream # <<>> /\ txStream = <<>> => MeetsWorker(rxStream[1])
    /\ txStream # <<>> => MeetsWorker(txStream[1])

SenderInv == TxInv /\ SenderBytes /\ SenderRuns

RxRuns == rxRunning \/ rxPc = "down"

\* The receiver's part needs nothing of the sender.
ReceiverInv == RxTypeOK /\ RxRuns /\ Partial /\ Cursor /\ Prefix /\ Integrity

Ghosts == /\ missed \in 0 .. MaxLoss /\ lastEpoch \in 0 .. NoEpoch /\ tainted \in BOOLEAN
          /\ spliced \subseteq 1 .. Len(delivered) /\ harmed \subseteq 1 .. Len(accepted)

LinkInv == SenderInv /\ ReceiverInv /\ Ghosts /\ Arrived /\ Seams

----------------------------------------------------------------------------
(* Frames that are well formed. *)

USE FormatAssumption DEF HEADER

\* A byte of a packet has its three fields, and is not noise.
LEMMA ByteFields ==
    ASSUME NEW p, NEW k \in Nat \ {0}, NEW s
    PROVE  /\ ByteOf(p, k, s) # Noise
           /\ ByteOf(p, k, s).id = p /\ ByteOf(p, k, s).at = k /\ ByteOf(p, k, s).size = s
BY DEF ByteOf, Noise

\* What Follows and Joins say behind byte k of a packet p of size s that goes on.
LEMMA BehindOpen ==
    ASSUME NEW p, NEW k \in Nat \ {0}, NEW s \in Nat, k < serializedSize(s)
    PROVE  /\ Open(ByteOf(p, k, s))
           /\ \A d : Follows(ByteOf(p, k, s), d) => d = ByteOf(p, k + 1, s)
           /\ \A d : Joins(ByteOf(p, k, s), d) <=> d = ByteOf(p, k + 1, s)
<1> DEFINE c == ByteOf(p, k, s)
<1>1. c # Noise /\ c.at = k /\ c.size = s
  BY ByteFields
<1>2. [c EXCEPT !.at = k + 1] = ByteOf(p, k + 1, s)
  BY DEF ByteOf
<1> HIDE DEF c
<1> QED  BY <1>1, <1>2 DEF Follows, Joins, Open, c

\* What they say behind its last byte.
LEMMA BehindClosed ==
    ASSUME NEW p, NEW k \in Nat \ {0}, NEW s \in Nat, k >= serializedSize(s)
    PROVE  /\ ~Open(ByteOf(p, k, s))
           /\ \A d : Follows(ByteOf(p, k, s), d) => d = Noise \/ (d.at = 1 /\ d.id > p)
           /\ \A d : Joins(ByteOf(p, k, s), d) <=> ~Continues(d)
<1> DEFINE c == ByteOf(p, k, s)
<1>1. c # Noise /\ c.id = p /\ c.at = k /\ c.size = s
  BY ByteFields
<1>2. ~(k < serializedSize(s))
  BY DEF serializedSize
<1> HIDE DEF c
<1> QED  BY <1>1, <1>2 DEF Follows, Joins, Open, c

\* Behind a byte of a packet come the packet's next bytes.
LEMMA RunOfPacket ==
    ASSUME NEW f \in Frame, WellFormed(f),
           NEW o \in Offsets, NEW p \in Nat, NEW k \in Nat \ {0}, NEW s \in Nat,
           f.content[o] = ByteOf(p, k, s),
           NEW m \in Offsets, o <= m, k + (m - o) <= serializedSize(s)
    PROVE  f.content[m] = ByteOf(p, k + (m - o), s)
<1> DEFINE n == m - o
           S == {i \in 0 .. n : f.content[o + i] = ByteOf(p, k + i, s)}
<1>1. n \in Nat /\ o + n = m /\ o \in Nat
  BY DEF Offsets
<1>2. 0 \in S
  <2>1. o + 0 = o /\ k + 0 = k
    BY DEF Offsets
  <2> QED  BY <1>1, <2>1
<1>3. ASSUME NEW i \in 0 .. n - 1, i \in S
      PROVE  i + 1 \in S
  <2> DEFINE at == k + i
  <2>1. /\ o + (i + 1) \in Offsets /\ o + (i + 1) > 0 /\ (o + (i + 1)) - 1 = o + i
        /\ at + 1 = k + (i + 1) /\ at \in Nat \ {0} /\ at < serializedSize(s)
    BY <1>1 DEF Offsets, serializedSize
  <2>2. Follows(f.content[o + i], f.content[o + (i + 1)])
    BY <2>1 DEF WellFormed
  <2>3. f.content[o + i] = ByteOf(p, at, s)
    BY <1>3
  <2> HIDE DEF at
  <2>4. f.content[o + (i + 1)] = ByteOf(p, at + 1, s)
    <3>1. at \in Nat \ {0} /\ at < serializedSize(s)
      BY <2>1
    <3>2. \A d : Follows(ByteOf(p, at, s), d) => d = ByteOf(p, at + 1, s)
      BY <3>1, BehindOpen
    <3> QED  BY <2>2, <2>3, <3>2
  <2> QED  BY <1>1, <2>1, <2>4
<1> HIDE DEF S
<1>4. n \in S
  <2> HIDE DEF n
  <2> QED  BY <1>1, <1>2, <1>3, UpTo
<1> QED  BY <1>1, <1>4 DEF S

\* Noise goes on to the end of the frame.
LEMMA RestIsNoise ==
    ASSUME NEW f \in Frame, WellFormed(f),
           NEW o \in Offsets, f.content[o] = Noise, NEW m \in Offsets, o <= m
    PROVE  f.content[m] = Noise
<1> DEFINE n == m - o
           S == {i \in 0 .. n : f.content[o + i] = Noise}
<1>1. n \in Nat /\ o + n = m /\ o \in Nat
  BY DEF Offsets
<1>2. 0 \in S
  <2>1. o + 0 = o
    BY DEF Offsets
  <2> QED  BY <1>1, <2>1
<1>3. ASSUME NEW i \in 0 .. n - 1, i \in S
      PROVE  i + 1 \in S
  <2>1. o + (i + 1) \in Offsets /\ o + (i + 1) > 0 /\ (o + (i + 1)) - 1 = o + i
    BY <1>1 DEF Offsets
  <2>2. Follows(Noise, f.content[o + (i + 1)])
    BY <1>3, <2>1 DEF WellFormed
  <2> QED  BY <1>1, <2>2 DEF Follows
<1> HIDE DEF S
<1>4. n \in S
  <2> HIDE DEF n
  <2> QED  BY <1>1, <1>2, <1>3, UpTo
<1> QED  BY <1>1, <1>4 DEF S

\* Right behind a packet that is not the last to start in its frame starts another.
LEMMA NextStart ==
    ASSUME NEW f \in Frame, WellFormed(f), NEW h \in Offsets, f.content[h].at = 1,
           h # f.lastPacket, h + serializedSize(f.content[h].size) < FRAME_DATA_SIZE
    PROVE  f.content[h + serializedSize(f.content[h].size)].at = 1
<1> DEFINE p == f.content[h].id
           s == f.content[h].size
           n == serializedSize(s)
           l == f.lastPacket
<1>1. /\ h \in Starts(f) /\ l \in Starts(f) /\ h < l /\ l \in Offsets
      /\ f.content[l].at = 1
  BY DEF WellFormed, Starts, Offsets
<1>2. /\ p \in Nat /\ s \in Nat /\ n \in Nat /\ n >= 2 /\ f.content[h] = ByteOf(p, 1, s)
  <2>1. f.content[h] \in Cell
    BY DEF Frame
  <2> QED  BY <2>1, CellFields DEF Cell, serializedSize
<1>3. h \in Nat /\ h + n \in Offsets /\ h + (n - 1) \in Offsets /\ n - 1 \in Nat
  BY <1>2 DEF Offsets
<1> HIDE DEF p, s, n, l
<1>4. ASSUME NEW m \in Offsets, h <= m, m < h + n
      PROVE  f.content[m] = ByteOf(p, 1 + (m - h), s)
  <2>1. 1 + (m - h) <= serializedSize(s)
    BY <1>2, <1>3, <1>4 DEF n, Offsets
  <2> QED  BY <1>2, <1>4, <2>1, RunOfPacket
<1>5. l >= h + n
  <2> SUFFICES ASSUME l < h + n PROVE FALSE
    BY <1>1, <1>3, <1>2 DEF Offsets
  <2>1. f.content[l] = ByteOf(p, 1 + (l - h), s)
    BY <1>1, <1>3, <1>4 DEF Offsets
  <2>2. f.content[l].at = 1 + (l - h) /\ l - h > 0
    BY <1>1, <1>3, <2>1 DEF ByteOf, Offsets
  <2> QED  BY <1>1, <1>3, <2>2 DEF Offsets
<1>6. f.content[h + n].at = 1 \/ f.content[h + n] = Noise
  <2>1. h + n > 0 /\ (h + n) - 1 = h + (n - 1) /\ 1 + ((h + (n - 1)) - h) = n
    BY <1>2, <1>3
  <2>2. f.content[(h + n) - 1] = ByteOf(p, n, s)
    <3>1. h <= h + (n - 1) /\ h + (n - 1) < h + n
      BY <1>2, <1>3
    <3> QED  BY <1>3, <1>4, <2>1, <3>1
  <2>3. Follows(ByteOf(p, n, s), f.content[h + n])
    BY <1>3, <2>1, <2>2 DEF WellFormed
  <2>4. n \in Nat \ {0} /\ n >= serializedSize(s)
    BY <1>2 DEF n
  <2> HIDE DEF n
  <2> QED  BY <1>2, <2>3, <2>4, BehindClosed
<1>7. f.content[h + n] # Noise
  <2> SUFFICES ASSUME f.content[h + n] = Noise PROVE FALSE
    OBVIOUS
  <2>1. f.content[l] = Noise
    BY <1>1, <1>3, <1>5, RestIsNoise
  <2> QED  BY <1>1, <2>1 DEF Noise
<1> QED  BY <1>6, <1>7 DEF n, s

\* The frame that a new worker of the receiver starts from is not one.
LEMMA NoFrameIsNone == ~WellFormed(NoFrame) /\ NoFrame \in Frame
<1>1. Starts(NoFrame) = {}
  BY DEF Starts, NoFrame, Noise
<1>2. NoFrame.firstPacket # PKT_OFFS_NONE
  BY DEF NoFrame
<1>3. NoFrame \in Frame
  BY DEF NoFrame, Frame, Noise, Cell, PacketOffset, Offsets
<1> QED  BY <1>1, <1>2, <1>3 DEF WellFormed
----------------------------------------------------------------------------
(* The sender's steps. *)

\* What send() adds changes no byte of the packets before.
LEMMA MadeStays ==
    ASSUME NEW a \in Seq(Sizes), NEW s \in Sizes, NEW f, MadeOf(a, f)
    PROVE  MadeOf(Append(a, s), f)
<1>1. /\ Len(Append(a, s)) = Len(a) + 1 /\ Len(a) \in Nat
      /\ \A i \in 1 .. Len(a) : Append(a, s)[i] = a[i]
  OBVIOUS
<1>2. ASSUME NEW o \in Offsets
      PROVE  Made(Append(a, s), f.content[o])
  BY <1>1 DEF MadeOf, Made
<1> QED  BY <1>2 DEF MadeOf

\* The bytes of an accepted packet.
LEMMA ByteMade ==
    ASSUME TxTypeOK, NEW p \in 1 .. Len(accepted), SizeOf(p) # 0,
           NEW k \in 1 .. serializedSize(SizeOf(p))
    PROVE  Made(accepted, ByteOf(p, k, SizeOf(p)))
<1>1. SizeOf(p) = accepted[p]
  BY DEF SizeOf, NoPacket
<1> QED  BY <1>1 DEF Made, ByteOf

(***************************************************************************)
(* What Write does to the frame and to the packet in progress.             *)
(***************************************************************************)
LEMMA WriteEffect ==
    ASSUME TxTypeOK, NEW p \in 1 .. Len(accepted), NEW written \in Nat, NEW toWrite \in Nat,
           NEW first \in PacketOffset, NEW last \in PacketOffset,
           toWrite = serializedSize(SizeOf(p)), written < toWrite,
           frameOffset < FRAME_DATA_SIZE, SizeOf(p) # 0,
           Write(p, written, toWrite, first, last), UNCHANGED apiVars,
           MadeOf(accepted, frame)
    PROVE  /\ MadeOf(accepted', frame') /\ SizeOf(pkt)' # 0
           /\ frame'.content[0] = IF frameOffset = 0 THEN ByteOf(p, written + 1, SizeOf(p))
                                                     ELSE frame.content[0]
           /\ frame'.epoch = frame.epoch /\ frame'.counter = frame.counter
           /\ txPc' \in {"fill", "send"} /\ frameOffset' > 0
           /\ txPc' = "send" => Resumes(frame.content[Last])'
<1> DEFINE k == Writeable(written, toWrite)
<1>1. /\ k \in Nat /\ k >= 1 /\ frameOffset \in Nat
      /\ frameOffset + k <= FRAME_DATA_SIZE /\ written + k <= toWrite
      /\ written + k = toWrite \/ frameOffset + k = FRAME_DATA_SIZE
  BY WriteableBounds DEF TxTypeOK
<1>2. /\ frame' \in Frame
      /\ Extended(frame, frame', frameOffset, p, SizeOf(p), written, k)
  BY WrittenFrame
<1>3. /\ frameOffset' = frameOffset + k /\ pkt' = p
      /\ pktToWrite' = IF written + k >= toWrite THEN 0 ELSE toWrite
      /\ pktWritten' = IF written + k >= toWrite THEN 0 ELSE written + k
      /\ txPc' = IF frameOffset + k < FRAME_DATA_SIZE THEN "fill" ELSE "send"
  BY DEF Write
<1>4. /\ frame'.epoch = frame.epoch /\ frame'.counter = frame.counter
      /\ \A o \in Offsets : frame'.content[o] =
            IF o \in frameOffset .. frameOffset + k - 1
            THEN ByteOf(p, written + (o - frameOffset) + 1, SizeOf(p)) ELSE frame.content[o]
  BY DEF Write, TxTypeOK, Frame, ByteOf
<1> HIDE DEF k
<1>5. SizeOf(p)' = SizeOf(p) /\ SizeOf(pkt)' = SizeOf(p) /\ accepted' = accepted
  BY <1>3 DEF apiVars, SizeOf
<1>6. MadeOf(accepted, frame')
  <2> SUFFICES ASSUME NEW o \in Offsets
               PROVE  Made(accepted, frame'.content[o])
    BY DEF MadeOf
  <2>1. CASE o \in frameOffset .. frameOffset + k - 1
    <3>1. written + (o - frameOffset) + 1 \in 1 .. serializedSize(SizeOf(p))
      BY <1>1, <2>1
    <3> QED  BY <1>4, <2>1, <3>1, ByteMade
  <2>2. CASE o \notin frameOffset .. frameOffset + k - 1
    BY <1>4, <2>2 DEF MadeOf
  <2> QED  BY <2>1, <2>2
<1>7. frame'.content[0] = IF frameOffset = 0 THEN ByteOf(p, written + 1, SizeOf(p))
                                            ELSE frame.content[0]
  <2>1. 0 \in Offsets /\ (0 \in frameOffset .. frameOffset + k - 1 <=> frameOffset = 0)
        /\ written + (0 - 0) + 1 = written + 1
    BY <1>1 DEF Offsets
  <2> QED  BY <1>4, <2>1
<1>8. ASSUME txPc' = "send"
      PROVE  Resumes(frame.content[Last])'
  <2>1. frameOffset + k = FRAME_DATA_SIZE
    BY <1>1, <1>3, <1>8
  <2>2. /\ Last \in Offsets /\ Last \in frameOffset .. frameOffset + k - 1
        /\ written + (Last - frameOffset) + 1 = written + k
    BY <1>1, <2>1 DEF Last, Offsets
  <2>3. frame'.content[Last] = ByteOf(p, written + k, SizeOf(p))
    BY <1>4, <2>2
  <2>4. written + k \in Nat \ {0} /\ SizeOf(p) \in Nat
    BY <1>1, SizeType
  <2>5. CASE written + k < toWrite
    <3>1. pktWritten' = written + k
      BY <1>1, <1>3, <2>5
    <3> QED  BY <1>3, <1>5, <2>3, <2>4, <3>1 DEF Resumes
  <2>6. CASE written + k >= toWrite
    <3>1. pktWritten' = 0 /\ ~Open(ByteOf(p, written + k, SizeOf(p)))
      BY <1>1, <1>3, <2>4, <2>6, BehindClosed
    <3> QED  BY <2>3, <3>1 DEF Resumes
  <2> QED  BY <1>1, <2>5, <2>6
<1>9. txPc' \in {"fill", "send"} /\ frameOffset' > 0
  BY <1>1, <1>3
<1> QED  BY <1>4, <1>5, <1>6, <1>7, <1>8, <1>9

(***************************************************************************)
(* What every turn of the loop that fills a frame does.                    *)
(***************************************************************************)
FillEffect ==
    /\ txPc = "fill" /\ txPc' \in {"fill", "send"} /\ ~AtHead'
    /\ UNCHANGED <<apiVars, counter, txStream>>
    /\ frame'.epoch = frame.epoch /\ frame'.counter = frame.counter
    /\ MadeOf(accepted', frame') /\ (pktWritten' # 0 => SizeOf(pkt)' # 0)
    /\ txPc' = "send" => Resumes(frame.content[Last])'
    /\ frameOffset = 0 => /\ \A c : Resumes(c) => Joins(c, frame'.content[0])
                          /\ pktWritten = 0 => ~Continues(frame'.content[0])
    /\ frameOffset # 0 => frame'.content[0] = frame.content[0]

\* A part of a packet that is written to the frame fits what is there.
LEMMA WriteFills ==
    ASSUME SenderInv, StartPacket \/ ContinuePacket
    PROVE  FillEffect
<1> DEFINE Result(p, written) ==
      /\ MadeOf(accepted', frame') /\ SizeOf(pkt)' # 0
      /\ frame'.content[0] = IF frameOffset = 0 THEN ByteOf(p, written + 1, SizeOf(p))
                                                ELSE frame.content[0]
      /\ frame'.epoch = frame.epoch /\ frame'.counter = frame.counter
      /\ txPc' \in {"fill", "send"} /\ frameOffset' > 0
      /\ txPc' = "send" => Resumes(frame.content[Last])'
<1>1. /\ TxTypeOK /\ MadeOf(accepted, frame) /\ txPc = "fill" /\ UNCHANGED apiVars
      /\ UNCHANGED <<counter, txStream>> /\ frameOffset < FRAME_DATA_SIZE
      /\ frame.firstPacket \in PacketOffset /\ frame.lastPacket \in PacketOffset
      /\ frameOffset \in Nat /\ pktWritten \in Nat
  BY DEF SenderInv, TxInv, TxTypeOK, SenderBytes, Filling, StartPacket, ContinuePacket, Frame
<1>2. CASE StartPacket
  <2> DEFINE p == Head(packets)
             first == IF frame.firstPacket = PKT_OFFS_NONE THEN frameOffset
                                                           ELSE frame.firstPacket
             toWrite == serializedSize(SizeOf(p))
  <2>1. /\ pktWritten = 0 /\ SizeOf(p) # 0 /\ p \in 1 .. Len(accepted)
        /\ Write(p, 0, toWrite, first, frameOffset)
    BY <1>2, <1>1 DEF StartPacket, TxTypeOK
  <2>2. first \in PacketOffset /\ frameOffset \in PacketOffset
    BY <1>1 DEF PacketOffset, Offsets
  <2>3. SizeOf(p) \in Nat /\ toWrite \in Nat /\ 0 < toWrite
    BY <1>1, <2>1, SizeType DEF serializedSize
  <2>4. Result(p, 0)
    <3> HIDE DEF p, first
    <3> QED  BY <1>1, <2>1, <2>2, <2>3, WriteEffect
  <2>5. ByteOf(p, 0 + 1, SizeOf(p)).at = 1
    BY DEF ByteOf
  <2> HIDE DEF p
  <2>6. ~Continues(ByteOf(p, 0 + 1, SizeOf(p)))
    BY <2>5 DEF Continues
  <2>7. \A c : Resumes(c) => Joins(c, ByteOf(p, 0 + 1, SizeOf(p)))
    BY <2>1, <2>6 DEF Resumes, Joins
  <2> QED  BY <1>1, <2>4, <2>6, <2>7 DEF FillEffect, AtHead
<1>3. CASE ContinuePacket
  <2>1. /\ pktWritten # 0 /\ SizeOf(pkt) # 0 /\ pkt \in 1 .. Len(accepted)
        /\ pktToWrite = serializedSize(SizeOf(pkt)) /\ pktWritten < pktToWrite
        /\ pktToWrite \in Nat
        /\ Write(pkt, pktWritten, pktToWrite, frame.firstPacket, frame.lastPacket)
    BY <1>3 DEF ContinuePacket, SenderInv, TxInv, TxTypeOK, Progress, NoPacket, SenderBytes
  <2>2. Result(pkt, pktWritten)
    BY <1>1, <2>1, WriteEffect
  <2>3. SizeOf(pkt) \in Nat /\ pktWritten \in Nat \ {0}
    BY <1>1, <2>1, SizeType
  <2>4. \A c : Resumes(c) => Joins(c, ByteOf(pkt, pktWritten + 1, SizeOf(pkt)))
    <3>1. Joins(ByteOf(pkt, pktWritten, SizeOf(pkt)), ByteOf(pkt, pktWritten + 1, SizeOf(pkt)))
      BY <2>1, <2>3, BehindOpen
    <3> QED  BY <2>1, <3>1 DEF Resumes
  <2> QED  BY <1>1, <2>1, <2>2, <2>4 DEF FillEffect, AtHead
<1> QED  BY <1>2, <1>3

\* Noise that is written to the frame fits what is there.
LEMMA PadFills ==
    ASSUME SenderInv, PadShort \/ PadIdle
    PROVE  FillEffect
<1>1. /\ TxTypeOK /\ MadeOf(accepted, frame) /\ txPc = "fill" /\ txPc' = "send"
      /\ pktWritten = 0 /\ pktWritten' = 0
      /\ frame' = [frame EXCEPT !.content = Padded]
      /\ UNCHANGED apiVars /\ UNCHANGED <<counter, txStream, frameOffset>>
      /\ frameOffset \in Nat /\ frameOffset < FRAME_DATA_SIZE
  BY DEF SenderInv, TxInv, TxTypeOK, SenderBytes, Filling, PadShort, PadIdle
<1>2. /\ \A o \in 0 .. frameOffset - 1 : frame'.content[o] = frame.content[o]
      /\ \A o \in frameOffset .. FRAME_DATA_SIZE - 1 : frame'.content[o] = Noise
  BY <1>1, PaddedFrame
<1>3. frame'.epoch = frame.epoch /\ frame'.counter = frame.counter
  BY <1>1 DEF TxTypeOK, Frame
<1>4. MadeOf(accepted', frame')
  <2> SUFFICES ASSUME NEW o \in Offsets
               PROVE  Made(accepted, frame'.content[o])
    BY <1>1 DEF MadeOf, apiVars
  <2>1. frame'.content[o] = frame.content[o] \/ frame'.content[o] = Noise
    BY <1>1, <1>2 DEF Offsets
  <2> QED  BY <1>1, <2>1 DEF MadeOf, Made
<1>5. ~Open(Noise) /\ ~Continues(Noise)
  BY DEF Open, Continues, Noise
<1>6. Resumes(frame.content[Last])'
  <2>1. frame'.content[Last] = Noise
    BY <1>1, <1>2 DEF Last
  <2> QED  BY <1>1, <1>5, <2>1 DEF Resumes
<1>7. frameOffset = 0 => frame'.content[0] = Noise
  BY <1>2
<1>8. frameOffset # 0 => frame'.content[0] = frame.content[0]
  BY <1>1, <1>2
<1>9. \A c : Resumes(c) => Joins(c, Noise)
  BY <1>1, <1>5 DEF Resumes, Joins
<1> QED  BY <1>1, <1>3, <1>4, <1>5, <1>6, <1>7, <1>8, <1>9 DEF FillEffect, AtHead

\* A turn that fills the frame keeps the sender's side.
LEMMA FillSender ==
    ASSUME SenderInv, FillFrame
    PROVE  FillEffect /\ SenderInv'
<1>1. FillEffect
  BY WriteFills, PadFills DEF FillFrame
<1>2. TxInv'
  BY PadShortInv, PadIdleInv, StartInv, ContinueInv DEF SenderInv, FillFrame
<1>3. SenderBytes'
  BY <1>1 DEF SenderInv, SenderBytes, FillEffect, apiVars
<1>4. SenderRuns'
  BY <1>1 DEF SenderInv, SenderRuns, FillEffect, apiVars
<1> QED  BY <1>1, <1>2, <1>3, <1>4 DEF SenderInv

\* So does send(), and what was made of the packets before stays.
LEMMA SendSender ==
    ASSUME SenderInv, SendAccepted
    PROVE  /\ SenderInv'
           /\ \A f : MadeOf(accepted, f) => MadeOf(accepted', f)
           /\ SizeOf(pkt)' = SizeOf(pkt)
<1>1. TxInv' /\ accepted \in Seq(Sizes) /\ pkt \in 0 .. Len(accepted)
  BY SendInv DEF SenderInv, TxInv, TxTypeOK
<1>2. PICK s \in Sizes : accepted' = Append(accepted, s)
  BY DEF SendAccepted
<1>3. \A f : MadeOf(accepted, f) => MadeOf(accepted', f)
  BY <1>1, <1>2, MadeStays
<1>4. SizeOf(pkt)' = SizeOf(pkt)
  <2>1. pkt' = pkt /\ (pkt # 0 => accepted'[pkt] = accepted[pkt])
    BY <1>1, <1>2 DEF SendAccepted, fillVars
  <2> QED  BY <2>1 DEF SizeOf, NoPacket
<1>5. SenderBytes'
  BY <1>3, <1>4 DEF SenderInv, SenderBytes, SendAccepted, fillVars
<1>6. SenderRuns'
  BY <1>4 DEF SenderInv, SenderRuns, SendAccepted, fillVars, Resumes
<1> QED  BY <1>1, <1>3, <1>4, <1>5, <1>6 DEF SenderInv

\* So does beginning a frame.
LEMMA BeginSender ==
    ASSUME SenderInv, BeginFrame
    PROVE  /\ SenderInv'
           /\ frame'.content = frame.content /\ frame'.epoch = epoch
           /\ frame'.counter = counter
<1>1. TxInv' /\ frame \in Frame
  BY BeginInv DEF SenderInv, TxInv, TxTypeOK
<1>2. frame'.content = frame.content /\ frame'.epoch = epoch /\ frame'.counter = counter
  BY <1>1 DEF BeginFrame, Frame
<1>3. SenderBytes'
  BY <1>2 DEF SenderInv, SenderBytes, BeginFrame, apiVars, MadeOf, SizeOf
<1>4. SenderRuns'
  BY <1>2 DEF SenderInv, SenderRuns, BeginFrame, apiVars
<1> QED  BY <1>1, <1>2, <1>3, <1>4 DEF SenderInv

\* So do handing the frame over and giving it up.
LEMMA EndSender ==
    ASSUME SenderInv, SendFrame \/ AbandonFrame
    PROVE  SenderInv'
<1>1. TxInv'
  BY WorkerEndInv DEF SenderInv
<1>2. UNCHANGED <<apiVars, frame, pkt, pktWritten, counter>>
  BY DEF SendFrame, AbandonFrame, fillVars
<1>3. SenderBytes'
  <2>1. \A i \in 1 .. Len(txStream') : MadeOf(accepted, txStream'[i])
    BY DEF SenderInv, SenderBytes, SendFrame, AbandonFrame
  <2> QED  BY <1>2, <2>1 DEF SenderInv, SenderBytes, SizeOf, apiVars
<1>4. SenderRuns'
  BY <1>2 DEF SenderInv, SenderRuns, SendFrame, AbandonFrame, apiVars, Resumes
<1> QED  BY <1>1, <1>3, <1>4 DEF SenderInv

\* So do start() and stop().
LEMMA ControlSender ==
    ASSUME SenderInv, StopTx \/ JoinTx \/ StartTx
    PROVE  SenderInv'
<1>1. TxInv' /\ epoch \in Nat /\ writerStop \in BOOLEAN /\ running \in BOOLEAN
  BY ControlInv DEF SenderInv, TxInv, TxTypeOK, TxFlagsOK
<1>2. CASE StopTx \/ JoinTx
  <2>1. UNCHANGED <<accepted, txStream, frame, pkt, pktWritten, counter>>
    BY <1>2 DEF StopTx, JoinTx, fillVars
  <2>2. SenderBytes'
    BY <2>1 DEF SenderInv, SenderBytes, SizeOf
  <2>3. SenderRuns'
    BY <1>1, <1>2, <2>1, TransmitterAssumption
       DEF SenderInv, SenderRuns, StopTx, JoinTx, Resumes, SizeOf, TransmitterAssumption
  <2> QED  BY <1>1, <2>2, <2>3 DEF SenderInv
<1>3. CASE StartTx
  <2>1. MadeOf(accepted, EmptyFrame)
    BY DEF MadeOf, Made, EmptyFrame
  <2>2. SenderBytes'
    BY <1>3, <2>1 DEF SenderInv, SenderBytes, StartTx
  <2>3. SenderRuns'
    BY <1>1, <1>3 DEF SenderInv, SenderRuns, StartTx
  <2> QED  BY <1>1, <2>2, <2>3 DEF SenderInv
<1> QED  BY <1>2, <1>3

\* The physical layer leaves the sender alone.
LEMMA CarrySender ==
    ASSUME SenderInv, CarryFrame \/ LoseFrame
    PROVE  SenderInv'
<1>1. TxInv'
  BY CarryInv DEF SenderInv
<1>2. txStream' = <<>> /\ UNCHANGED <<apiVars, txPc, counter, fillVars>>
  BY DEF CarryFrame, LoseFrame
<1>3. SenderBytes' /\ SenderRuns'
  BY <1>2 DEF SenderInv, SenderBytes, SenderRuns, apiVars, fillVars, SizeOf, Resumes
<1> QED  BY <1>1, <1>3 DEF SenderInv

\* So does a step that changes nothing.
LEMMA StutterSender ==
    ASSUME SenderInv, UNCHANGED txVars
    PROVE  SenderInv'
<1>1. TxInv'
  BY StutterInv DEF SenderInv
<1>2. SenderBytes' /\ SenderRuns'
  BY DEF SenderInv, SenderBytes, SenderRuns, txVars, apiVars, fillVars, SizeOf, Resumes
<1> QED  BY <1>1, <1>2 DEF SenderInv

----------------------------------------------------------------------------
(* The sender's steps, seen from the frames on their way. *)

SenderOnly == SendAccepted \/ BeginFrame \/ FillFrame \/ AbandonFrame
              \/ StopTx \/ JoinTx \/ StartTx

\* The worker's frame goes on meeting the last one sent.
LEMMA WorkerMeets ==
    ASSUME SenderInv, SenderOnly
    PROVE  \A y : Since(y) /\ MeetsWorker(y) => MeetsWorker(y)'
<1> SUFFICES ASSUME NEW y, Since(y), MeetsWorker(y)
             PROVE  MeetsWorker(y)'
  OBVIOUS
<1>1. CASE SendAccepted
  <2>1. SizeOf(pkt)' = SizeOf(pkt)
    BY <1>1, SendSender
  <2> QED  BY <1>1, <2>1 DEF SendAccepted, fillVars, MeetsWorker, AtHead, Resumes
<1>2. CASE BeginFrame
  <2>1. /\ frame'.counter = counter /\ AtHead /\ AtHead' /\ txPc = "begin"
        /\ txPc' = "fill" /\ UNCHANGED <<accepted, epoch, pkt, pktWritten>>
    BY <1>2, BeginSender DEF BeginFrame, AtHead, apiVars
  <2> QED  BY <2>1 DEF MeetsWorker, Resumes, SizeOf
<1>3. CASE FillFrame
  <2>1. FillEffect /\ frame.epoch = epoch
    BY <1>3, FillSender DEF SenderInv, SenderRuns, FillEffect
  <2>2. CASE frameOffset = 0
    <3>1. y.epoch = epoch => /\ Joins(y.content[Last], frame'.content[0])
                             /\ frame'.counter = (y.counter + 1) % CounterMod
      BY <2>1, <2>2 DEF MeetsWorker, FillEffect, AtHead
    <3>2. y.epoch # epoch => ~Continues(frame'.content[0])
      BY <2>1, <2>2 DEF MeetsWorker, FillEffect, AtHead
    <3> QED  BY <2>1, <3>1, <3>2 DEF MeetsWorker, Meets, FillEffect, apiVars
  <2>3. CASE frameOffset # 0
    BY <2>1, <2>3 DEF MeetsWorker, Meets, FillEffect, AtHead, apiVars
  <2> QED  BY <2>2, <2>3
<1>4. CASE AbandonFrame
  BY <1>4 DEF AbandonFrame, MeetsWorker, AtHead
<1>5. CASE StopTx
  BY <1>5 DEF StopTx, MeetsWorker, AtHead, Resumes, SizeOf, fillVars
<1>6. CASE JoinTx
  BY <1>6 DEF JoinTx, MeetsWorker, AtHead
<1>7. CASE StartTx
  <2>1. txPc = "down"
    BY <1>7 DEF StartTx, SenderInv, SenderRuns
  <2>2. y.epoch # epoch'
    BY <1>7, <2>1 DEF StartTx, Since, SenderInv, TxInv, TxTypeOK
  <2> QED  BY <1>7, <2>2 DEF StartTx, MeetsWorker, AtHead
<1> QED  BY <1>1, <1>2, <1>3, <1>4, <1>5, <1>6, <1>7 DEF SenderOnly

\* What is on its way stays of this run or an earlier one.
LEMMA SinceStays ==
    ASSUME SenderInv, SenderOnly \/ SendFrame
    PROVE  /\ \A f : f.epoch \in Nat /\ Since(f) => Since(f)'
           /\ epoch' \in Nat /\ epoch <= epoch'
           /\ \A f : MadeOf(accepted, f) => MadeOf(accepted', f)
<1>1. epoch \in Nat /\ running \in BOOLEAN
  BY DEF SenderInv, TxInv, TxTypeOK, TxFlagsOK
<1>2. CASE SendAccepted
  BY <1>1, <1>2, SendSender DEF SendAccepted, Since
<1>3. CASE BeginFrame \/ AbandonFrame \/ SendFrame \/ StopTx
  BY <1>1, <1>3 DEF BeginFrame, AbandonFrame, SendFrame, StopTx, Since, apiVars
<1>4. CASE FillFrame
  BY <1>1, <1>4, FillSender DEF FillEffect, Since, apiVars
<1>5. CASE JoinTx
  BY <1>1, <1>5 DEF JoinTx, Since
<1>6. CASE StartTx
  BY <1>1, <1>6 DEF StartTx, Since
<1> QED  BY <1>2, <1>3, <1>4, <1>5, <1>6 DEF SenderOnly

\* The packets that a frame has bytes of.
LEMMA IdsAccepted ==
    ASSUME NEW sizes, NEW f, MadeOf(sizes, f), NEW o \in Offsets,
           f.content[o].id # NoPacket
    PROVE  f.content[o].id \in 1 .. Len(sizes)
BY DEF MadeOf, Made, NoPacket, Noise

\* A step that leaves the receiver alone keeps its side.
LEMMA ReceiverStays ==
    ASSUME ReceiverInv, UNCHANGED rxVars, UNCHANGED <<tainted, spliced>>
    PROVE  ReceiverInv' /\ HasFrame' = HasFrame
<1> USE DEF rxVars, rxApi, partial, cursor
<1>1. RxTypeOK'
  BY DEF ReceiverInv, RxTypeOK
<1>2. Partial' /\ Integrity' /\ HasFrame' = HasFrame
  BY DEF ReceiverInv, Partial, live, Integrity, HasFrame
<1>3. Cursor'
  BY DEF ReceiverInv, Cursor
<1>4. Prefix'
  BY DEF ReceiverInv, Prefix, Expects, pktRead
<1>5. RxRuns'
  BY DEF ReceiverInv, RxRuns
<1> QED  BY <1>1, <1>2, <1>3, <1>4, <1>5 DEF ReceiverInv

\* A step of the sender keeps the whole invariant.
LEMMA SenderSteps ==
    ASSUME LinkInv, TxPack \/ TxControl \/ TxAbandon
    PROVE  LinkInv'
<1>1. SenderInv /\ ReceiverInv /\ Ghosts /\ Arrived /\ Seams
  BY DEF LinkInv
<1>2. SenderOnly \/ SendFrame
  BY DEF TxPack, TxControl, TxAbandon, SenderOnly
<1>3. UNCHANGED rxVars /\ UNCHANGED <<missed, lastEpoch, tainted, spliced>>
  BY DEF TxPack, TxControl, TxAbandon, ghosts
<1>4. SenderInv'
  BY <1>1, SendSender, BeginSender, FillSender, EndSender, ControlSender
     DEF TxPack, TxControl, TxAbandon
<1>5. ReceiverInv' /\ HasFrame' = HasFrame
  BY <1>1, <1>3, ReceiverStays
<1>6. /\ \A f : f.epoch \in Nat /\ Since(f) => Since(f)'
      /\ epoch' \in Nat /\ epoch \in Nat /\ epoch <= epoch'
      /\ \A f : MadeOf(accepted, f) => MadeOf(accepted', f)
  BY <1>1, <1>2, SinceStays DEF SenderInv, TxInv, TxTypeOK
<1>7. /\ rxStream' = rxStream /\ rxFrame' = rxFrame /\ lastCounter' = lastCounter
      /\ delivered' = delivered
      /\ rxFrame \in Frame /\ rxFrame.epoch \in Nat
      /\ \A i \in 1 .. Len(rxStream) : rxStream[i] \in Frame /\ rxStream[i].epoch \in Nat
      /\ \A i \in 1 .. Len(txStream) : txStream[i] \in Frame /\ txStream[i].epoch \in Nat
  <2>1. rxFrame \in Frame /\ rxStream \in Seq(Frame) /\ txStream \in Seq(Frame)
    BY <1>1 DEF ReceiverInv, RxTypeOK, SenderInv, TxInv, TxTypeOK
  <2>2. \A f \in Frame : f.epoch \in Nat
    BY DEF Frame
  <2> QED  BY <1>3, <2>1, <2>2 DEF rxVars, cursor
<1>8. Ghosts'
  <2>1. Len(accepted') >= Len(accepted) /\ Len(accepted) \in Nat /\ Len(accepted') \in Nat
    <3>1. accepted' = accepted \/ \E s \in Sizes : accepted' = Append(accepted, s)
      BY <1>1, <1>2, FillSender DEF SenderOnly, SendAccepted, BeginFrame, AbandonFrame,
         SendFrame, StopTx, JoinTx, StartTx, FillEffect, apiVars
    <3> QED  BY <1>1, <3>1 DEF SenderInv, TxInv, TxTypeOK
  <2>2. harmed' \subseteq 1 .. Len(accepted')
    <3>1. CASE harmed' = harmed
      BY <1>1, <2>1, <3>1 DEF Ghosts
    <3>2. CASE TxAbandon
      <4>1. Ids(frame.content) \subseteq 1 .. Len(accepted)
        BY <1>1, IdsAccepted DEF SenderInv, SenderBytes, Ids
      <4>2. 1 .. Len(accepted) \subseteq 1 .. Len(accepted')
        BY <2>1
      <4>3. harmed' = harmed \cup Ids(frame.content) /\ harmed \subseteq 1 .. Len(accepted)
        BY <1>1, <3>2 DEF TxAbandon, Ghosts
      <4> QED  BY <4>1, <4>2, <4>3
    <3> QED  BY <3>1, <3>2 DEF TxPack, TxControl, ghosts
  <2> QED  BY <1>1, <1>3, <1>7, <2>2 DEF Ghosts
<1>9. \A i \in 1 .. Len(txStream') : Since(txStream[i])'
  <2>1. CASE SendFrame
    <3>1. txStream' = <<frame>> /\ txPc' = "begin" /\ epoch' = epoch /\ frame.epoch = epoch
      BY <1>1, <2>1 DEF SendFrame, apiVars, SenderInv, SenderRuns
    <3> QED  BY <1>6, <3>1 DEF Since
  <2>2. CASE SenderOnly
    <3>1. txStream' = txStream
      BY <1>1, <2>2, FillSender DEF SenderOnly, SendAccepted, BeginFrame, AbandonFrame,
         StopTx, JoinTx, StartTx, FillEffect
    <3> QED  BY <1>1, <1>6, <1>7, <3>1 DEF Arrived
  <2> QED  BY <1>2, <2>1, <2>2
<1>10. Arrived'
  <2>1. MadeOf(accepted', rxFrame') /\ rxFrame'.epoch <= epoch'
    BY <1>1, <1>6, <1>7 DEF Arrived
  <2>2. HasFrame' => /\ rxFrame'.epoch = lastEpoch' /\ rxFrame'.counter = lastCounter'
                     /\ Since(rxFrame)'
    BY <1>1, <1>3, <1>5, <1>6, <1>7 DEF Arrived
  <2>3. \A i \in 1 .. Len(rxStream') :
          /\ MadeOf(accepted', rxStream'[i]) /\ WellFormed(rxStream'[i])
          /\ Since(rxStream[i])'
    BY <1>1, <1>6, <1>7 DEF Arrived
  <2> QED  BY <1>9, <2>1, <2>2, <2>3 DEF Arrived
<1>11. Seams'
  <2>1. Linked' = Linked
    BY <1>3, <1>5 DEF Linked
  <2>2. CASE SendFrame
    <3>1. /\ txStream = <<>> /\ txStream' = <<frame>> /\ txStream' # <<>>
          /\ txStream'[1] = frame /\ txPc = "send" /\ ~AtHead
          /\ txPc' = "begin" /\ AtHead'
          /\ UNCHANGED <<frame, accepted, epoch, pkt, pktWritten, counter>>
      BY <2>2 DEF SendFrame, apiVars, fillVars, AtHead
    <3>2. /\ frame.epoch = epoch /\ counter = (frame.counter + 1) % CounterMod
          /\ Resumes(frame.content[Last])
      BY <1>1, <3>1 DEF SenderInv, SenderRuns
    <3>3. MeetsWorker(txStream[1])'
      BY <3>1, <3>2 DEF MeetsWorker, Resumes, SizeOf
    <3>4. \A y : MeetsWorker(y) => Meets(y, frame)
      BY <3>1 DEF MeetsWorker
    <3> QED  BY <1>1, <1>7, <2>1, <3>1, <3>3, <3>4 DEF Seams
  <2>3. CASE SenderOnly
    <3>1. txStream' = txStream
      BY <1>1, <2>3, FillSender DEF SenderOnly, SendAccepted, BeginFrame, AbandonFrame,
         StopTx, JoinTx, StartTx, FillEffect
    <3>2. \A y : Since(y) /\ MeetsWorker(y) => MeetsWorker(y)'
      BY <1>1, <2>3, WorkerMeets
    <3>3. /\ HasFrame => Since(rxFrame)
          /\ rxStream # <<>> => Since(rxStream[1])
          /\ txStream # <<>> => Since(txStream[1])
      BY <1>1 DEF Arrived, SenderInv, TxInv, TxTypeOK, ReceiverInv, RxTypeOK
    <3>4. Linked => HasFrame
      BY DEF Linked
    <3> QED  BY <1>1, <1>7, <2>1, <3>1, <3>2, <3>3, <3>4 DEF Seams
  <2> QED  BY <1>2, <2>2, <2>3
<1> QED  BY <1>4, <1>5, <1>8, <1>10, <1>11 DEF LinkInv

----------------------------------------------------------------------------
(* The physical layer. *)

\* A stream holds at most one frame.
LEMMA OneInStream ==
    ASSUME NEW s \in Seq(Frame), Len(s) <= 1, s # <<>>
    PROVE  Len(s) = 1 /\ Head(s) = s[1] /\ s[1] \in Frame
<1>1. Len(s) \in Nat /\ Len(s) # 0
  OBVIOUS
<1> QED  BY <1>1

\* So does a step of the physical layer.
LEMMA CarrySteps ==
    ASSUME LinkInv, CarryFrame \/ LoseFrame
    PROVE  LinkInv'
<1>1. SenderInv /\ ReceiverInv /\ Ghosts /\ Arrived /\ Seams
  BY DEF LinkInv
<1>2. SenderInv'
  BY <1>1, CarrySender
<1>3. /\ txStream \in Seq(Frame) /\ Len(txStream) = 1 /\ txStream' = <<>> /\ txStream # <<>>
      /\ rxStream = <<>> /\ txStream[1] \in Frame
      /\ MadeOf(accepted, txStream[1]) /\ WellFormed(txStream[1]) /\ Since(txStream[1])
  <2>1. /\ txStream \in Seq(Frame) /\ Len(txStream) = 1 /\ txStream' = <<>>
        /\ txStream # <<>> /\ rxStream = <<>>
    BY <1>1, OneInStream DEF CarryFrame, LoseFrame, SenderInv, TxInv, TxTypeOK
  <2>2. txStream[1] \in Frame /\ Packed(txStream[1], FRAME_DATA_SIZE)
    BY <1>1, <2>1 DEF SenderInv, TxInv, Complete
  <2>3. MadeOf(accepted, txStream[1]) /\ Since(txStream[1])
    BY <1>1, <2>1 DEF SenderInv, SenderBytes, Arrived
  <2> QED  BY <2>1, <2>2, <2>3, PackedWellFormed
<1>4. /\ UNCHANGED <<accepted, epoch, txPc, frame, frameOffset, counter, pkt, pktWritten>>
      /\ UNCHANGED <<rxApi, rxPc, lastCounter, partial, cursor, delivered>>
      /\ UNCHANGED <<lastEpoch, tainted, spliced>>
  BY DEF CarryFrame, LoseFrame, apiVars, fillVars, rxVars, ghosts
<1>5. rxStream' = txStream \/ rxStream' = <<>>
  BY <1>3 DEF CarryFrame, LoseFrame, rxVars
<1>6. ReceiverInv'
  <2> USE DEF rxApi, partial, cursor
  <2>1. RxTypeOK'
    <3>1. rxStream' \in Seq(Frame) /\ Len(rxStream') <= 1
      <4>1. CASE rxStream' = txStream
        <5>1. txStream \in Seq(Frame) /\ Len(txStream) <= 1
          BY <1>3
        <5> QED  BY <4>1, <5>1
      <4>2. CASE rxStream' = <<>>
        BY <4>2
      <4> QED  BY <1>5, <4>1, <4>2
    <3> QED  BY <1>1, <1>4, <3>1 DEF ReceiverInv, RxTypeOK
  <2>2. Partial' /\ Integrity'
    BY <1>1, <1>4 DEF ReceiverInv, Partial, live, Integrity
  <2>3. Cursor'
    BY <1>1, <1>4 DEF ReceiverInv, Cursor
  <2>4. Prefix'
    BY <1>1, <1>4 DEF ReceiverInv, Prefix, Expects, pktRead
  <2>5. RxRuns'
    BY <1>1, <1>4 DEF ReceiverInv, RxRuns
  <2> QED  BY <2>1, <2>2, <2>3, <2>4, <2>5 DEF ReceiverInv
<1>7. HasFrame' = HasFrame /\ rxFrame' = rxFrame
  BY <1>4 DEF HasFrame, live, cursor
<1>8. Ghosts'
  <2>1. CASE CarryFrame
    BY <1>1, <1>4, <2>1 DEF CarryFrame, Ghosts, ghosts
  <2>2. CASE LoseFrame
    <3>1. Ids(txStream[1].content) \subseteq 1 .. Len(accepted)
      BY <1>3, IdsAccepted DEF Ids
    <3>2. harmed' \subseteq 1 .. Len(accepted)
      <4>1. harmed' = harmed \cup Ids(txStream[1].content)
        BY <1>3, <2>2 DEF LoseFrame
      <4> QED  BY <1>1, <3>1, <4>1 DEF Ghosts
    <3>3. missed' \in 0 .. MaxLoss
      BY <1>1, <2>2, LinkAssumption DEF LoseFrame, Ghosts, LinkAssumption
    <3> QED  BY <1>1, <1>4, <3>2, <3>3 DEF Ghosts
  <2> QED  BY <2>1, <2>2
<1>9. Arrived'
  <2>1. MadeOf(accepted', rxFrame') /\ rxFrame'.epoch <= epoch'
    BY <1>1, <1>4, <1>7 DEF Arrived
  <2>2. HasFrame' => /\ rxFrame'.epoch = lastEpoch' /\ rxFrame'.counter = lastCounter'
                     /\ Since(rxFrame)'
    BY <1>1, <1>4, <1>7 DEF Arrived, Since
  <2>3. \A i \in 1 .. Len(rxStream') :
          /\ MadeOf(accepted', rxStream'[i]) /\ WellFormed(rxStream'[i])
          /\ Since(rxStream[i])'
    BY <1>3, <1>4, <1>5 DEF Since
  <2> QED  BY <1>3, <2>1, <2>2, <2>3 DEF Arrived
<1>10. Seams'
  <2>1. \A y : MeetsWorker(y) => MeetsWorker(y)'
    BY <1>4 DEF MeetsWorker, AtHead, Resumes, SizeOf
  <2>2. CASE CarryFrame
    <3>1. Linked' = Linked /\ rxStream' = txStream
      BY <1>7, <2>2 DEF CarryFrame, Linked, ghosts
    <3> QED  BY <1>1, <1>3, <1>7, <2>1, <3>1 DEF Seams
  <2>3. CASE LoseFrame
    <3>1. rxStream' = <<>> /\ ~Linked'
      BY <1>1, <1>3, <2>3, LinkAssumption DEF LoseFrame, rxVars, Linked, Ghosts, LinkAssumption
    <3> QED  BY <1>3, <3>1 DEF Seams
  <2> QED  BY <2>2, <2>3
<1> QED  BY <1>2, <1>6, <1>8, <1>9, <1>10 DEF LinkInv

----------------------------------------------------------------------------
(* The receiver's steps. *)

\* What most steps of the receiver leave alone.
LEMMA FramesStay ==
    ASSUME SenderInv, Arrived, Seams, UNCHANGED txVars, HasFrame' => HasFrame,
           UNCHANGED <<rxFrame, rxStream, lastCounter, missed, lastEpoch>>
    PROVE  Arrived' /\ Seams'
<1> USE DEF txVars, apiVars, fillVars
<1>1. Arrived'
  BY DEF Arrived, Since
<1>2. \A y : MeetsWorker(y) => MeetsWorker(y)'
  BY DEF MeetsWorker, AtHead, Resumes, SizeOf
<1>3. (Linked' => Linked) /\ txStream' = txStream
  BY DEF Linked
<1> QED  BY <1>1, <1>2, <1>3 DEF Seams

\* The frame the receiver takes is the one in the stream, and the seams stay.
LEMMA TakeFrames ==
    ASSUME SenderInv, ReceiverInv, Arrived, Seams, RxTake
    PROVE  /\ Arrived' /\ Seams'
           /\ WellFormed(rxFrame') /\ rxFrame' \in Frame /\ rxPc' \in {"read", "extract"}
           /\ rxFrame' = rxStream[1] /\ Len(rxStream) = 1 /\ rxFrame'.epoch <= epoch
<1>1. /\ rxStream \in Seq(Frame) /\ rxStream # <<>> /\ Len(rxStream) = 1
      /\ Head(rxStream) = rxStream[1] /\ rxStream[1] \in Frame
  <2>1. rxStream \in Seq(Frame) /\ Len(rxStream) <= 1 /\ rxStream # <<>>
    BY DEF RxTake, ReadConsecutive, ReadAfterLoss, TakeFrame, CanRead, ReceiverInv, RxTypeOK
  <2> QED  BY <2>1, OneInStream
<1>2. /\ rxFrame' = rxStream[1] /\ rxStream' = <<>> /\ lastCounter' = rxStream[1].counter
      /\ rxPc' \in {"read", "extract"} /\ missed' = 0 /\ lastEpoch' = rxStream[1].epoch
      /\ UNCHANGED txVars
  BY <1>1 DEF RxTake, ReadConsecutive, ReadAfterLoss, TakeFrame, SkipFrame, BeginExtract
<1>3. WellFormed(rxStream[1]) /\ MadeOf(accepted, rxStream[1]) /\ Since(rxStream[1])
  BY <1>1 DEF Arrived
<1>4. Arrived'
  BY <1>2, <1>3 DEF Arrived, Since, HasFrame, txVars, apiVars
<1>5. Seams'
  <2>1. \A y : MeetsWorker(y) => MeetsWorker(y)'
    BY <1>2 DEF MeetsWorker, AtHead, Resumes, SizeOf, txVars, apiVars, fillVars
  <2>2. txStream' = txStream
    BY <1>2 DEF txVars
  <2> QED  BY <1>1, <1>2, <2>1, <2>2 DEF Seams
<1> QED  BY <1>1, <1>2, <1>3, <1>4, <1>5 DEF Since

\* Taking a frame keeps the receiver's side, whatever its counter says.
LEMMA TakeInv ==
    ASSUME LinkInv, RxTake
    PROVE  ReceiverInv'
<1>1. SenderInv /\ ReceiverInv /\ Ghosts /\ Arrived /\ Seams
  BY DEF LinkInv
<1>2. /\ WellFormed(rxFrame') /\ rxFrame' \in Frame /\ rxPc' \in {"read", "extract"}
      /\ rxFrame' = rxStream[1] /\ Len(rxStream) = 1 /\ rxStream # <<>>
      /\ Head(rxStream) = rxStream[1] /\ rxStream' = <<>>
  <2>1. CanRead /\ rxStream' = <<>>
    BY DEF RxTake, ReadConsecutive, ReadAfterLoss, TakeFrame
  <2>2. rxStream # <<>> /\ Len(rxStream) <= 1 /\ rxStream \in Seq(Frame)
    BY <1>1, <2>1 DEF CanRead, ReceiverInv, RxTypeOK
  <2> QED  BY <1>1, <2>1, <2>2, OneInStream, TakeFrames
<1>3. /\ rxPc = "read" /\ UNCHANGED <<rxApi, delivered, spliced>>
      /\ lastCounter' = rxFrame'.counter
      /\ tainted' = (pktExpected' # 0 /\ (tainted \/ Unnoticed))
  BY <1>2 DEF RxTake, ReadConsecutive, ReadAfterLoss, TakeFrame, CanRead
<1>4. \/ /\ UNCHANGED partial /\ rxFrame'.counter = expectedCounter
         /\ \/ SkipFrame /\ pktExpected = 0
            \/ /\ BeginExtract(0)
               /\ pktExpected # 0 \/ rxFrame'.firstPacket # PKT_OFFS_NONE
      \/ /\ pktExpected' = 0 /\ pktBuffer' = <<>>
         /\ \/ SkipFrame
            \/ /\ BeginExtract(rxFrame'.firstPacket)
               /\ rxFrame'.firstPacket # PKT_OFFS_NONE
               /\ ~(rxFrame'.firstPacket > FRAME_DATA_SIZE - HEADER)
  BY <1>2 DEF RxTake, ReadConsecutive, ReadAfterLoss
<1>5. rxFrame'.firstPacket \in PacketOffset /\ rxFrame'.counter \in 0 .. CounterMod - 1
  BY <1>2 DEF Frame
<1>6. RxTypeOK'
  <2>1. lastCounter' \in 0 .. CounterMod - 1
    BY <1>3, <1>5
  <2>2. pktExpected' \in Nat /\ pktBuffer' \in Seq(Cell)
    <3>1. CASE UNCHANGED partial
      BY <1>1, <3>1 DEF ReceiverInv, RxTypeOK, partial
    <3>2. CASE pktExpected' = 0 /\ pktBuffer' = <<>>
      BY <3>2
    <3> QED  BY <1>4, <3>1, <3>2
  <2>3. frameRead' \in 0 .. FRAME_DATA_SIZE
    <3>1. CASE SkipFrame
      BY <1>1, <3>1 DEF SkipFrame, ReceiverInv, RxTypeOK
    <3>2. CASE BeginExtract(0)
      BY <3>2 DEF BeginExtract
    <3>3. CASE /\ BeginExtract(rxFrame'.firstPacket)
               /\ rxFrame'.firstPacket # PKT_OFFS_NONE
      BY <1>5, <3>3 DEF BeginExtract, PacketOffset, Offsets
    <3> QED  BY <1>4, <3>1, <3>2, <3>3
  <2>7. firstPacket' \in BOOLEAN /\ lastPacket' \in BOOLEAN
    <3>1. CASE SkipFrame
      BY <1>1, <3>1 DEF SkipFrame, ReceiverInv, RxTypeOK
    <3>2. ASSUME NEW n, BeginExtract(n)
          PROVE  firstPacket' \in BOOLEAN /\ lastPacket' \in BOOLEAN
      <4>1. firstPacket' = TRUE /\ lastPacket' = FALSE
        BY <3>2 DEF BeginExtract
      <4> QED  BY <4>1
    <3> QED  BY <1>4, <3>1, <3>2
  <2>4. rxStream' \in Seq(Frame) /\ Len(rxStream') <= 1
    BY <1>2
  <2>5. rxPc' \in RxPcs /\ delivered' \in Seq(Seq(Cell))
    BY <1>1, <1>2, <1>3 DEF RxPcs, ReceiverInv, RxTypeOK
  <2>6. rxRunning' \in BOOLEAN /\ readerStop' \in BOOLEAN /\ rxEpoch' \in Nat
    BY <1>1, <1>3 DEF rxApi, ReceiverInv, RxTypeOK
  <2> QED  BY <1>2, <2>1, <2>2, <2>3, <2>4, <2>5, <2>6, <2>7 DEF RxTypeOK
<1>7. Partial'
  <2>1. /\ pktExpected' = 0 => pktBuffer' = <<>>
        /\ pktExpected' # 0 => Len(pktBuffer') < pktExpected'
    BY <1>1, <1>4 DEF partial, ReceiverInv, Partial
  <2> QED  BY <1>2, <1>3, <2>1 DEF Partial, live
<1>8. Cursor'
  <2>1. CASE SkipFrame
    BY <2>1 DEF SkipFrame, Cursor
  <2>2. CASE BeginExtract(0) /\ UNCHANGED partial
    BY <1>2, <1>4, <2>2 DEF BeginExtract, Cursor, SkipFrame, partial
  <2>3. CASE /\ BeginExtract(rxFrame'.firstPacket) /\ pktExpected' = 0
             /\ rxFrame'.firstPacket # PKT_OFFS_NONE
    BY <1>2, <1>5, <2>3 DEF BeginExtract, Cursor, PacketOffset, Offsets
  <2> QED  BY <1>4, <2>1, <2>2, <2>3
<1>9. Prefix'
  <2> SUFFICES ASSUME pktExpected' # 0, ~tainted'
               PROVE  rxPc' = "extract" /\ Expects(rxFrame.content[frameRead], 1)'
    BY DEF Prefix
  <2>1. /\ UNCHANGED partial /\ BeginExtract(0) /\ pktExpected # 0 /\ ~tainted
        /\ rxFrame'.counter = expectedCounter
    BY <1>3, <1>4 DEF partial
  <2>2. missed = 0 /\ rxStream[1].epoch = lastEpoch
    BY <1>2, <1>3, <2>1 DEF Unnoticed, Contiguous
  <2>3. HasFrame /\ Linked /\ rxFrame.epoch = lastEpoch
    BY <1>1, <1>3, <2>1, <2>2 DEF ReceiverInv, Partial, live, HasFrame, Linked, Arrived
  <2>4. Joins(rxFrame.content[Last], rxFrame'.content[0])
    BY <1>1, <1>2, <2>2, <2>3 DEF Seams, Meets
  <2> DEFINE p == rxFrame.content[Last].id
  <2>5. /\ rxFrame.content[Last] = ByteOf(p, pktRead + HEADER + 0, pktExpected)
        /\ \A i \in 1 .. pktRead : pktBuffer[i] = ByteOf(p, i + HEADER, pktExpected)
    BY <1>1, <1>3, <2>1 DEF ReceiverInv, Prefix, Expects
  <2> HIDE DEF p
  <2>6. /\ pktRead \in Nat /\ pktExpected \in Nat /\ pktRead + 2 < serializedSize(pktExpected)
        /\ pktRead + HEADER + 0 = pktRead + 2 /\ pktRead + 2 \in Nat \ {0}
    BY <1>1, <2>1 DEF ReceiverInv, RxTypeOK, Partial, pktRead, serializedSize
  <2>7. rxFrame'.content[0] = ByteOf(p, pktRead + 2 + 1, pktExpected)
    BY <2>4, <2>5, <2>6, BehindOpen
  <2>8. ByteOf(p, pktRead + 2 + 1, pktExpected).id = p
    BY DEF ByteOf
  <2>9. frameRead' = 0 /\ rxPc' = "extract" /\ pktExpected' = pktExpected
        /\ pktBuffer' = pktBuffer
    BY <2>1 DEF BeginExtract, partial
  <2> QED  BY <2>5, <2>7, <2>8, <2>9 DEF Expects, pktRead
<1>10. Integrity' /\ RxRuns'
  BY <1>1, <1>3 DEF ReceiverInv, Integrity, RxRuns, rxApi
<1> QED  BY <1>6, <1>7, <1>8, <1>9, <1>10 DEF ReceiverInv

\* The buffer with n more bytes of the frame.
LEMMA BufferGrows ==
    ASSUME RxTypeOK, NEW n \in Nat, frameRead + n <= FRAME_DATA_SIZE
    PROVE  LET b == pktBuffer \o Bytes(n)
           IN  /\ b \in Seq(Cell) /\ Len(b) = pktRead + n
               /\ \A i \in 1 .. pktRead : b[i] = pktBuffer[i]
               /\ \A i \in 1 .. n : b[pktRead + i] = rxFrame.content[frameRead + i - 1]
<1> DEFINE s == Bytes(n)
<1>1. pktBuffer \in Seq(Cell) /\ frameRead \in Nat /\ pktRead = Len(pktBuffer)
  BY DEF RxTypeOK, pktRead
<1>2. \A i \in 1 .. n : frameRead + i - 1 \in Offsets
  BY <1>1 DEF Offsets
<1>3. \A o \in Offsets : rxFrame.content[o] \in Cell
  BY DEF RxTypeOK, Frame
<1>4. /\ s \in Seq(Cell) /\ Len(s) = n
      /\ \A i \in 1 .. n : s[i] = rxFrame.content[frameRead + i - 1]
  BY <1>2, <1>3 DEF Bytes
<1> HIDE DEF s
<1> DEFINE a == pktBuffer
           b == a \o s
<1>5. a \in Seq(Cell) /\ Len(a) = pktRead /\ pktRead \in Nat
  BY <1>1
<1> HIDE DEF a
<1>6. b \in Seq(Cell) /\ Len(b) = pktRead + n
  BY <1>4, <1>5
<1>7. \A i \in 1 .. pktRead : b[i] = a[i]
  BY <1>4, <1>5
<1>8. \A i \in 1 .. n : b[pktRead + i] = s[i]
  BY <1>4, <1>5
<1> QED  BY <1>4, <1>6, <1>7, <1>8 DEF s, a

\* If it held the beginning of the packet at the cursor, it still does.
LEMMA BufferContinues ==
    ASSUME RxTypeOK, WellFormed(rxFrame), frameRead < FRAME_DATA_SIZE,
           Expects(rxFrame.content[frameRead], 1),
           NEW n \in Nat, n >= 1, frameRead + n <= FRAME_DATA_SIZE, pktRead + n <= pktExpected
    PROVE  LET p == rxFrame.content[frameRead].id
               b == pktBuffer \o Bytes(n)
           IN  /\ \A i \in 1 .. pktRead + n : b[i] = ByteOf(p, i + HEADER, pktExpected)
               /\ rxFrame.content[frameRead + n - 1] =
                      ByteOf(p, pktRead + n + HEADER, pktExpected)
<1> DEFINE p == rxFrame.content[frameRead].id
           b == pktBuffer \o Bytes(n)
           k == pktRead + HEADER + 1
<1>1. /\ rxFrame \in Frame /\ frameRead \in Offsets /\ frameRead \in Nat /\ pktExpected \in Nat
      /\ pktRead \in Nat /\ k \in Nat \ {0}
  BY DEF RxTypeOK, Offsets, pktRead
<1>2. p \in Nat /\ rxFrame.content[frameRead] \in Cell
  BY <1>1 DEF Frame, Cell
<1>3. /\ rxFrame.content[frameRead] = ByteOf(p, k, pktExpected)
      /\ \A i \in 1 .. pktRead : pktBuffer[i] = ByteOf(p, i + HEADER, pktExpected)
  BY DEF Expects
<1>4. /\ \A i \in 1 .. pktRead : b[i] = pktBuffer[i]
      /\ \A i \in 1 .. n : b[pktRead + i] = rxFrame.content[frameRead + i - 1]
  BY BufferGrows
<1> HIDE DEF p, b
<1>5. ASSUME NEW i \in 1 .. n
      PROVE  rxFrame.content[frameRead + i - 1] = ByteOf(p, (pktRead + i) + HEADER, pktExpected)
  <2> DEFINE m == frameRead + i - 1
  <2>1. /\ m \in Offsets /\ frameRead <= m /\ k + (m - frameRead) = (pktRead + i) + HEADER
        /\ k + (m - frameRead) <= serializedSize(pktExpected)
    BY <1>1, <1>5 DEF Offsets, serializedSize
  <2> HIDE DEF m, k
  <2>2. rxFrame.content[m] = ByteOf(p, k + (m - frameRead), pktExpected)
    BY <1>1, <1>2, <1>3, <2>1, RunOfPacket
  <2> QED  BY <2>1, <2>2 DEF m
<1>6. ASSUME NEW i \in 1 .. pktRead + n
      PROVE  b[i] = ByteOf(p, i + HEADER, pktExpected)
  <2>1. CASE i <= pktRead
    BY <1>1, <1>3, <1>4, <2>1
  <2>2. CASE i > pktRead
    <3>1. i - pktRead \in 1 .. n /\ pktRead + (i - pktRead) = i
      BY <1>1, <2>2
    <3> QED  BY <1>4, <1>5, <3>1
  <2> QED  BY <1>1, <2>1, <2>2
<1>7. rxFrame.content[frameRead + n - 1] = ByteOf(p, pktRead + n + HEADER, pktExpected)
  <2>1. n \in 1 .. n
    OBVIOUS
  <2> QED  BY <1>5, <2>1
<1> QED  BY <1>6, <1>7 DEF p, b

\* The bytes that can be read stay in the frame and in the packet.
LEMMA ReadableBounds ==
    ASSUME RxTypeOK, Partial, pktExpected # 0, frameRead < FRAME_DATA_SIZE
    PROVE  /\ Readable \in Nat /\ Readable >= 1
           /\ frameRead + Readable <= FRAME_DATA_SIZE /\ pktRead + Readable <= pktExpected
           /\ \/ frameRead + Readable = FRAME_DATA_SIZE
              \/ pktRead + Readable = pktExpected
           /\ pktRead \in Nat /\ frameRead \in Nat
BY DEF RxTypeOK, Partial, Readable, Min2, pktRead

\* Copying the rest of the frame keeps the receiver's side.
LEMMA CopyInv ==
    ASSUME ReceiverInv, CopyPart, UNCHANGED <<tainted, spliced>>
    PROVE  ReceiverInv' /\ frameRead' = FRAME_DATA_SIZE /\ rxPc' = "read"
<1> DEFINE n == Readable
           b == pktBuffer \o Bytes(n)
<1>1. /\ RxTypeOK /\ RxRuns /\ Partial /\ Cursor /\ Prefix /\ Integrity
      /\ rxPc = "extract" /\ pktExpected # 0 /\ WellFormed(rxFrame)
      /\ frameRead < FRAME_DATA_SIZE /\ pktRead + n < pktExpected
      /\ pktBuffer' = b /\ frameRead' = frameRead + n
  BY DEF ReceiverInv, CopyPart, Cursor
<1>2. UNCHANGED <<rxApi, lastCounter, pktExpected, rxFrame, firstPacket,
                   lastPacket, rxStream, delivered>>
  BY DEF CopyPart
<1>3. /\ n \in Nat /\ n >= 1 /\ frameRead + n = FRAME_DATA_SIZE /\ pktRead \in Nat
      /\ pktExpected \in Nat /\ frameRead \in Nat
  <2>1. pktExpected \in Nat
    BY <1>1 DEF RxTypeOK
  <2> QED  BY <1>1, <2>1, ReadableBounds
<1>4. frameRead' = FRAME_DATA_SIZE /\ rxPc' = "read"
  BY <1>1, <1>3 DEF CopyPart, NextTurn
<1> HIDE DEF n
<1>5. b \in Seq(Cell) /\ Len(b) = pktRead + n
  <2>1. frameRead + n <= FRAME_DATA_SIZE
    BY <1>3
  <2> QED  BY <1>1, <1>3, <2>1, BufferGrows
<1>6. RxTypeOK'
  BY <1>1, <1>2, <1>4, <1>5 DEF RxTypeOK, RxPcs, rxApi
<1>7. Partial'
  BY <1>1, <1>2, <1>3, <1>4, <1>5 DEF Partial, live, pktRead
<1>8. Cursor'
  BY <1>4 DEF Cursor
<1>9. Prefix'
  <2> SUFFICES ASSUME ~tainted
               PROVE  Expects(rxFrame.content[Last], 0)'
    BY <1>4 DEF Prefix
  <2> DEFINE p == rxFrame.content[frameRead].id
  <2>1. Expects(rxFrame.content[frameRead], 1)
    BY <1>1 DEF Prefix
  <2>2. /\ \A i \in 1 .. pktRead + n : b[i] = ByteOf(p, i + HEADER, pktExpected)
        /\ rxFrame.content[frameRead + n - 1] = ByteOf(p, pktRead + n + HEADER, pktExpected)
    <3>1. frameRead + n <= FRAME_DATA_SIZE /\ pktRead + n <= pktExpected
      BY <1>1, <1>3
    <3> QED  BY <1>1, <1>3, <2>1, <3>1, BufferContinues
  <2>3. frameRead + n - 1 = Last /\ pktRead + n + HEADER = pktRead + n + HEADER + 0
    BY <1>3 DEF Last
  <2>4. ByteOf(p, pktRead + n + HEADER, pktExpected).id = p
    BY DEF ByteOf
  <2> HIDE DEF p, b
  <2>5. Len(pktBuffer') = pktRead + n
    BY <1>1, <1>5
  <2> QED  BY <1>1, <1>2, <2>2, <2>3, <2>4, <2>5 DEF Expects, pktRead
<1>10. Integrity' /\ RxRuns'
  BY <1>1, <1>2 DEF Integrity, RxRuns, rxApi
<1> QED  BY <1>4, <1>6, <1>7, <1>8, <1>9, <1>10 DEF ReceiverInv

\* Behind a packet that is not the frame's last to start stands the next size.
LEMMA AfterPacket ==
    ASSUME RxTypeOK, Cursor, rxPc = "extract", pktExpected # 0, ~firstPacket, ~lastPacket,
           frameRead + Readable < FRAME_DATA_SIZE, pktRead + Readable = pktExpected
    PROVE  rxFrame.content[frameRead + Readable].at = 1
<1> DEFINE h == frameRead - HEADER
<1>1. /\ WellFormed(rxFrame) /\ frameRead >= HEADER /\ pktBuffer = <<>>
      /\ IsHeader(rxFrame.content, h) /\ pktExpected = rxFrame.content[h].size
      /\ h # rxFrame.lastPacket /\ rxFrame \in Frame
  BY DEF Cursor, RxTypeOK
<1>2. /\ frameRead \in Nat /\ pktExpected \in Nat /\ pktRead = 0 /\ Readable = pktExpected
  <2>1. pktRead = 0 /\ frameRead \in Nat /\ pktExpected \in Nat
    BY <1>1 DEF pktRead, RxTypeOK
  <2>2. Readable \in Int
    BY <2>1 DEF Readable, Min2
  <2> QED  BY <2>1, <2>2
<1>3. h \in Offsets /\ rxFrame.content[h].at = 1
  BY <1>1, <1>2 DEF IsHeader, Offsets
<1>4. frameRead + Readable = h + serializedSize(rxFrame.content[h].size)
  BY <1>1, <1>2 DEF serializedSize
<1> HIDE DEF h
<1> QED  BY <1>1, <1>3, <1>4, NextStart

\* So does finishing a packet, which is whole.
LEMMA FinishInv ==
    ASSUME ReceiverInv, FinishPacket, tainted' = FALSE,
           spliced' = IF tainted THEN spliced \cup {Len(delivered) + 1} ELSE spliced
    PROVE  ReceiverInv'
<1> DEFINE n == Readable
           b == pktBuffer \o Bytes(n)
<1>1. /\ RxTypeOK /\ RxRuns /\ Partial /\ Cursor /\ Prefix /\ Integrity
      /\ rxPc = "extract" /\ pktExpected # 0 /\ WellFormed(rxFrame)
      /\ frameRead < FRAME_DATA_SIZE /\ pktRead + n >= pktExpected
  BY DEF ReceiverInv, FinishPacket, Cursor
<1>2. /\ UNCHANGED <<rxApi, lastCounter, rxFrame, firstPacket, lastPacket, rxStream>>
      /\ delivered' = Append(delivered, b) /\ pktExpected' = 0 /\ pktBuffer' = <<>>
      /\ frameRead' = IF lastPacket \/ rxFrame.firstPacket = PKT_OFFS_NONE
                      THEN FRAME_DATA_SIZE ELSE frameRead + n
      /\ rxPc' = IF frameRead' < FRAME_DATA_SIZE THEN "extract" ELSE "read"
  BY DEF FinishPacket, NextTurn
<1>3. /\ n \in Nat /\ n >= 1 /\ frameRead + n <= FRAME_DATA_SIZE /\ pktRead \in Nat
      /\ pktExpected \in Nat /\ pktRead + n = pktExpected /\ frameRead \in Nat
  <2>1. pktExpected \in Nat
    BY <1>1 DEF RxTypeOK
  <2> QED  BY <1>1, <2>1, ReadableBounds
<1>4. frameRead + n < FRAME_DATA_SIZE /\ ~firstPacket /\ ~lastPacket =>
        rxFrame.content[frameRead + n].at = 1
  BY <1>1, <1>3, AfterPacket
<1> HIDE DEF n
<1>5. b \in Seq(Cell) /\ Len(b) = pktExpected
  BY <1>1, <1>3, BufferGrows
<1>6. ~tainted => Intact(b)
  <2> SUFFICES ASSUME ~tainted PROVE Intact(b)
    OBVIOUS
  <2> DEFINE p == rxFrame.content[frameRead].id
  <2>1. Expects(rxFrame.content[frameRead], 1)
    BY <1>1 DEF Prefix
  <2>2. \A i \in 1 .. pktRead + n : b[i] = ByteOf(p, i + HEADER, pktExpected)
    BY <1>1, <1>3, <2>1, BufferContinues
  <2>3. \A i \in 1 .. pktExpected : b[i] = ByteOf(p, i + HEADER, pktExpected)
    BY <1>3, <2>2
  <2> HIDE DEF p, b
  <2>4. b[1] = ByteOf(p, 1 + HEADER, pktExpected)
    <3>1. 1 \in 1 .. pktExpected
      BY <1>1, <1>3
    <3> QED  BY <2>3, <3>1
  <2>5. Len(b) = b[1].size
    BY <1>5, <2>4 DEF ByteOf
  <2>6. ASSUME NEW i \in 1 .. Len(b)
        PROVE  b[i] = [b[1] EXCEPT !.at = i + HEADER]
    <3>1. b[i] = ByteOf(p, i + HEADER, pktExpected)
      BY <1>5, <2>3
    <3>2. [ByteOf(p, 1 + HEADER, pktExpected) EXCEPT !.at = i + HEADER] =
             ByteOf(p, i + HEADER, pktExpected)
      BY DEF ByteOf
    <3> QED  BY <2>4, <3>1, <3>2
  <2> QED  BY <2>5, <2>6 DEF Intact
<1> HIDE DEF b
<1>7. /\ delivered' \in Seq(Seq(Cell)) /\ Len(delivered') = Len(delivered) + 1
      /\ \A i \in 1 .. Len(delivered) : delivered'[i] = delivered[i]
      /\ delivered'[Len(delivered) + 1] = b /\ Len(delivered) \in Nat
  <2>1. delivered \in Seq(Seq(Cell)) /\ b \in Seq(Cell)
    BY <1>1, <1>5 DEF RxTypeOK
  <2> QED  BY <1>2, <2>1
<1>8. frameRead' \in 0 .. FRAME_DATA_SIZE
  BY <1>2, <1>3
<1>9. RxTypeOK'
  <2>1. rxRunning' \in BOOLEAN /\ readerStop' \in BOOLEAN /\ rxEpoch' \in Nat
    BY <1>1, <1>2 DEF RxTypeOK, rxApi
  <2>2. rxPc' \in RxPcs /\ pktExpected' \in Nat /\ pktBuffer' \in Seq(Cell)
    BY <1>2 DEF RxPcs
  <2>3. /\ lastCounter' \in 0 .. CounterMod - 1 /\ rxFrame' \in Frame
        /\ rxStream' \in Seq(Frame) /\ Len(rxStream') <= 1
    BY <1>1, <1>2 DEF RxTypeOK
  <2>4. firstPacket' \in BOOLEAN /\ lastPacket' \in BOOLEAN
    BY <1>1, <1>2 DEF RxTypeOK
  <2> QED  BY <1>7, <1>8, <2>1, <2>2, <2>3, <2>4 DEF RxTypeOK
<1>10. Partial'
  <2>1. ~tainted'
    OBVIOUS
  <2> QED  BY <1>2, <2>1 DEF Partial
<1>11. Cursor'
  <2> SUFFICES ASSUME rxPc' = "extract"
               PROVE  /\ frameRead' < FRAME_DATA_SIZE
                      /\ firstPacket => /\ rxFrame.firstPacket # PKT_OFFS_NONE
                                        /\ ~lastPacket
                      /\ ~firstPacket => rxFrame.content[frameRead'].at = 1
    BY <1>1, <1>2 DEF Cursor
  <2>1. /\ frameRead' < FRAME_DATA_SIZE /\ frameRead' = frameRead + n /\ ~lastPacket
        /\ rxFrame.firstPacket # PKT_OFFS_NONE
    BY <1>2, <1>3
  <2> QED  BY <1>4, <2>1
<1>12. Prefix' /\ RxRuns'
  BY <1>1, <1>2 DEF Prefix, RxRuns, rxApi
<1>13. Integrity'
  <2> SUFFICES ASSUME NEW i \in 1 .. Len(delivered'), i \notin spliced'
               PROVE  Intact(delivered'[i])
    BY DEF Integrity
  <2>1. CASE i = Len(delivered) + 1
    <3>1. ~tainted
      BY <2>1
    <3> QED  BY <1>6, <1>7, <2>1, <3>1
  <2>2. CASE i # Len(delivered) + 1
    <3>1. i \in 1 .. Len(delivered) /\ i \notin spliced
      BY <1>7, <2>2
    <3> QED  BY <1>1, <1>7, <3>1 DEF Integrity
  <2> QED  BY <2>1, <2>2
<1> QED  BY <1>9, <1>10, <1>11, <1>12, <1>13 DEF ReceiverInv

\* The size of a packet is parsed only from size bytes.
LEMMA HeaderAligned ==
    ASSUME ReceiverInv, rxPc = "extract", pktExpected = 0
    PROVE  IsHeader(rxFrame.content, HeaderAt)
<1>1. /\ RxTypeOK /\ WellFormed(rxFrame) /\ frameRead < FRAME_DATA_SIZE
      /\ firstPacket => rxFrame.firstPacket # PKT_OFFS_NONE
      /\ ~firstPacket => rxFrame.content[frameRead].at = 1
  BY DEF ReceiverInv, Cursor
<1>2. HeaderAt \in Starts(rxFrame)
  <2>1. CASE firstPacket
    BY <1>1, <2>1 DEF WellFormed, HeaderAt
  <2>2. CASE ~firstPacket
    BY <1>1, <2>2 DEF RxTypeOK, HeaderAt, Starts, Offsets
  <2> QED  BY <2>1, <2>2
<1> QED  BY <1>1, <1>2 DEF WellFormed

\* So does parsing a size, from a header.
LEMMA ParseInv ==
    ASSUME ReceiverInv, MadeOf(accepted, rxFrame), ParseHeader, UNCHANGED <<tainted, spliced>>
    PROVE  ReceiverInv'
<1> DEFINE h == HeaderAt
           c == rxFrame.content[h]
<1>1. /\ RxTypeOK /\ RxRuns /\ Partial /\ Cursor /\ Prefix /\ Integrity
      /\ rxPc = "extract" /\ pktExpected = 0 /\ pktBuffer = <<>> /\ ~tainted
      /\ WellFormed(rxFrame) /\ IsHeader(rxFrame.content, h)
  BY HeaderAligned DEF ReceiverInv, ParseHeader, CanParse, Cursor, Partial
<1>2. /\ UNCHANGED <<rxApi, lastCounter, pktBuffer, rxFrame, rxStream, delivered>>
      /\ firstPacket' = FALSE /\ lastPacket' = (h = rxFrame.lastPacket)
      /\ pktExpected' = c.size /\ frameRead' = h + HEADER
      /\ rxPc' = IF frameRead' < FRAME_DATA_SIZE THEN "extract" ELSE "read"
  BY <1>1 DEF ParseHeader, ParsedSizes, NextTurn
<1>3. /\ rxFrame \in Frame /\ h \in PacketOffset \cup (0 .. FRAME_DATA_SIZE)
  BY <1>1 DEF RxTypeOK, HeaderAt, Frame
<1>4. h \in Offsets /\ h + 1 \in Offsets /\ h \in Nat
  BY <1>1, <1>3 DEF IsHeader, Offsets, PacketOffset
<1>5. c \in Cell /\ c.id \in Nat /\ c.size \in Nat /\ c = ByteOf(c.id, 1, c.size) /\ c.size # 0
  <2>1. c \in Cell /\ c.at = 1
    BY <1>1, <1>3, <1>4 DEF Frame, IsHeader
  <2>2. c.size # 0
    BY <1>4, <2>1 DEF MadeOf, Made, Noise
  <2> QED  BY <2>1, <2>2, CellFields DEF Cell
<1> HIDE DEF h
<1>6. \A m \in Offsets : h <= m /\ m <= h + 2 =>
         rxFrame.content[m] = ByteOf(c.id, 1 + (m - h), c.size)
  <2> SUFFICES ASSUME NEW m \in Offsets, h <= m, m <= h + 2
               PROVE  rxFrame.content[m] = ByteOf(c.id, 1 + (m - h), c.size)
    OBVIOUS
  <2>1. 1 + (m - h) <= serializedSize(c.size)
    BY <1>4, <1>5 DEF serializedSize, Offsets
  <2>2. rxFrame.content[h] = ByteOf(c.id, 1, c.size)
    BY <1>5
  <2> HIDE DEF c
  <2>3. ASSUME NEW f \in Frame, WellFormed(f), NEW o \in Offsets, o <= m, m <= o + 2,
               NEW p \in Nat, NEW s \in Nat, f.content[o] = ByteOf(p, 1, s),
               1 + (m - o) <= serializedSize(s)
        PROVE  f.content[m] = ByteOf(p, 1 + (m - o), s)
    BY <2>3, RunOfPacket
  <2> QED  BY <1>1, <1>3, <1>4, <1>5, <2>1, <2>2, <2>3
<1> HIDE DEF c
<1>7. RxTypeOK'
  <2>1. rxRunning' \in BOOLEAN /\ readerStop' \in BOOLEAN /\ rxEpoch' \in Nat
    BY <1>1, <1>2 DEF RxTypeOK, rxApi
  <2>2. rxPc' \in RxPcs /\ pktExpected' \in Nat /\ pktBuffer' \in Seq(Cell)
    BY <1>1, <1>2, <1>5 DEF RxPcs, RxTypeOK
  <2>3. /\ lastCounter' \in 0 .. CounterMod - 1 /\ rxFrame' \in Frame
        /\ rxStream' \in Seq(Frame) /\ Len(rxStream') <= 1 /\ delivered' \in Seq(Seq(Cell))
    BY <1>1, <1>2 DEF RxTypeOK
  <2>4. firstPacket' \in BOOLEAN /\ lastPacket' \in BOOLEAN
    BY <1>2
  <2>5. frameRead' \in 0 .. FRAME_DATA_SIZE
    BY <1>2, <1>4 DEF Offsets
  <2> QED  BY <2>1, <2>2, <2>3, <2>4, <2>5 DEF RxTypeOK
<1>8. Partial'
  <2>1. Len(pktBuffer') = 0 /\ pktExpected' # 0 /\ pktExpected' \in Nat /\ ~tainted'
    BY <1>1, <1>2, <1>5
  <2> QED  BY <1>1, <1>2, <2>1 DEF Partial
<1>9. Cursor'
  <2>1. h + HEADER >= HEADER /\ (h + HEADER) - HEADER = h /\ pktExpected' # 0
    BY <1>2, <1>4, <1>5
  <2>2. ~firstPacket'
    BY <1>2
  <2>3. rxPc' = "extract" => frameRead' < FRAME_DATA_SIZE
    BY <1>2
  <2>4. lastPacket' = (rxFrame.lastPacket = h)
    BY <1>2
  <2> QED  BY <1>1, <1>2, <2>1, <2>2, <2>3, <2>4 DEF Cursor, c
<1>10. Prefix'
  <2>1. pktRead' = 0 /\ \A i : i \notin 1 .. 0
    BY <1>1, <1>2 DEF pktRead
  <2>2. CASE rxPc' = "read"
    <3>1. Last = h + 1 /\ Last \in Offsets /\ 1 + (Last - h) = 0 + HEADER + 0
      BY <1>2, <1>4, <2>2 DEF Last, Offsets
    <3>2. rxFrame.content[Last] = ByteOf(c.id, 0 + HEADER + 0, c.size)
      BY <1>4, <1>6, <3>1
    <3>3. rxFrame.content[Last].id = c.id
      BY <3>2 DEF ByteOf
    <3> QED  BY <1>2, <2>1, <2>2, <3>2, <3>3 DEF Prefix, Expects
  <2>3. CASE rxPc' = "extract"
    <3>1. h + 2 \in Offsets /\ 1 + ((h + 2) - h) = 0 + HEADER + 1 /\ frameRead' = h + 2
      BY <1>2, <1>4, <2>3 DEF Offsets
    <3>2. rxFrame.content[h + 2] = ByteOf(c.id, 0 + HEADER + 1, c.size)
      BY <1>4, <1>6, <3>1
    <3>3. rxFrame.content[h + 2].id = c.id
      BY <3>2 DEF ByteOf
    <3> QED  BY <1>2, <2>1, <2>3, <3>1, <3>2, <3>3 DEF Prefix, Expects
  <2> QED  BY <1>2, <2>2, <2>3 DEF Prefix
<1>11. Integrity' /\ RxRuns'
  BY <1>1, <1>2 DEF Integrity, RxRuns, rxApi
<1> QED  BY <1>7, <1>8, <1>9, <1>10, <1>11 DEF ReceiverInv

\* So does skipping the rest of the frame.
LEMMA SkipInv ==
    ASSUME ReceiverInv, SkipRest, UNCHANGED <<tainted, spliced>>
    PROVE  ReceiverInv'
<1>1. RxTypeOK /\ RxRuns /\ Partial /\ Integrity /\ rxPc = "extract"
  BY DEF ReceiverInv, SkipRest
<1>2. /\ UNCHANGED <<rxApi, lastCounter, pktExpected, rxFrame, firstPacket,
                     lastPacket, rxStream, delivered>>
      /\ pktExpected = 0 /\ frameRead' = FRAME_DATA_SIZE /\ pktBuffer' = <<>>
      /\ rxPc' = "read"
  BY DEF SkipRest
<1>3. RxTypeOK'
  BY <1>1, <1>2 DEF RxTypeOK, RxPcs, rxApi
<1>4. Partial' /\ Cursor' /\ Prefix' /\ Integrity' /\ RxRuns'
  BY <1>1, <1>2 DEF Partial, Cursor, Prefix, Integrity, RxRuns, rxApi
<1> QED  BY <1>3, <1>4 DEF ReceiverInv

\* So does stop(), with its join.
LEMMA RxStopInv ==
    ASSUME ReceiverInv, StopRx \/ JoinRx, UNCHANGED <<tainted, spliced>>
    PROVE  ReceiverInv'
<1>1. RxTypeOK /\ RxRuns /\ Partial /\ Cursor /\ Prefix /\ Integrity
  BY DEF ReceiverInv
<1>2. /\ UNCHANGED <<lastCounter, partial, cursor, rxStream, delivered>>
      /\ rxPc' = rxPc \/ (rxPc = "exited" /\ rxPc' = "down")
  BY DEF StopRx, JoinRx
<1>3. RxTypeOK'
  <2>1. rxRunning' \in BOOLEAN /\ readerStop' \in BOOLEAN /\ rxEpoch' \in Nat
    <3>1. CASE StopRx
      BY <1>1, <3>1 DEF StopRx, RxTypeOK
    <3>2. CASE JoinRx
      <4>1. rxRunning' = FALSE /\ readerStop' = FALSE /\ rxEpoch' = rxEpoch + 1
        BY <3>2 DEF JoinRx
      <4>2. rxEpoch' \in Nat
        BY <1>1, <4>1 DEF RxTypeOK
      <4> QED  BY <4>1, <4>2
    <3> QED  BY <3>1, <3>2
  <2>2. rxPc' \in RxPcs
    BY <1>1, <1>2 DEF RxTypeOK, RxPcs
  <2> QED  BY <1>1, <1>2, <2>1, <2>2 DEF RxTypeOK, partial, cursor
<1>4. Partial'
  BY <1>1, <1>2 DEF Partial, live, partial, cursor
<1>5. Cursor'
  BY <1>1, <1>2 DEF Cursor, partial, cursor
<1>6. Prefix'
  BY <1>1, <1>2 DEF Prefix, Expects, pktRead, partial, cursor
<1>7. Integrity' /\ RxRuns'
  BY <1>1, <1>2 DEF Integrity, RxRuns, StopRx, JoinRx
<1> QED  BY <1>3, <1>4, <1>5, <1>6, <1>7 DEF ReceiverInv

\* So does the end of the worker.
LEMMA RxLeaveInv ==
    ASSUME ReceiverInv, RxExit, tainted' = FALSE, spliced' = spliced
    PROVE  ReceiverInv'
<1>1. RxTypeOK /\ RxRuns /\ Partial /\ Integrity /\ rxPc = "read"
  BY DEF ReceiverInv, RxExit
<1>2. UNCHANGED <<rxApi, lastCounter, partial, cursor, delivered, rxStream>> /\ rxPc' = "exited"
  BY DEF RxExit
<1>3. RxTypeOK'
  BY <1>1, <1>2 DEF RxTypeOK, RxPcs, rxApi, partial, cursor
<1>4. Partial'
  <2>1. ~tainted' /\ ~live'
    BY <1>2 DEF live
  <2> QED  BY <1>1, <1>2, <2>1 DEF Partial, partial
<1>5. Cursor' /\ Prefix' /\ Integrity' /\ RxRuns'
  BY <1>1, <1>2 DEF Cursor, Prefix, Integrity, RxRuns, rxApi
<1> QED  BY <1>3, <1>4, <1>5 DEF ReceiverInv

\* So does start().
LEMMA RxStartInv ==
    ASSUME ReceiverInv, StartRx, UNCHANGED <<tainted, spliced>>
    PROVE  ReceiverInv' /\ ~HasFrame'
<1>1. RxTypeOK /\ Partial /\ Integrity /\ ~tainted
  BY DEF ReceiverInv, RxRuns, Partial, live, StartRx
<1>2. /\ UNCHANGED <<readerStop, rxEpoch, rxStream, delivered>>
      /\ rxPc' = "read" /\ pktExpected' = 0 /\ pktBuffer' = <<>> /\ rxFrame' = NoFrame
      /\ lastCounter' = 0 /\ frameRead' = 0
  BY DEF StartRx
<1>3. RxTypeOK'
  <2>1. rxRunning' = TRUE /\ firstPacket' = FALSE /\ lastPacket' = FALSE
    BY DEF StartRx
  <2>2. rxRunning' \in BOOLEAN /\ firstPacket' \in BOOLEAN /\ lastPacket' \in BOOLEAN
    BY <2>1
  <2>3. rxFrame' \in Frame /\ lastCounter' \in 0 .. CounterMod - 1
    BY <1>2, NoFrameIsNone
  <2> QED  BY <1>1, <1>2, <2>2, <2>3 DEF RxTypeOK, RxPcs
<1>4. Partial' /\ Cursor' /\ Prefix' /\ Integrity' /\ RxRuns'
  BY <1>1, <1>2 DEF Partial, Cursor, Prefix, Integrity, RxRuns, StartRx
<1> QED  BY <1>2, <1>3, <1>4, NoFrameIsNone DEF ReceiverInv, HasFrame

\* What is copied are bytes of packets that send() took.
LEMMA CopiedAccepted ==
    ASSUME ReceiverInv, MadeOf(accepted, rxFrame), CopyPart \/ FinishPacket
    PROVE  Copied \ {NoPacket} \subseteq 1 .. Len(accepted)
<1>1. frameRead \in Nat /\ Readable \in Nat /\ frameRead + Readable <= FRAME_DATA_SIZE
  BY ReadableBounds DEF ReceiverInv, Cursor, CopyPart, FinishPacket
<1>2. frameRead .. frameRead + Readable - 1 \subseteq Offsets
  BY <1>1 DEF Offsets
<1>3. \A o \in Offsets : rxFrame.content[o].id # NoPacket =>
                            rxFrame.content[o].id \in 1 .. Len(accepted)
  BY IdsAccepted
<1> QED  BY <1>2, <1>3 DEF Copied

\* Taking a frame keeps the whole invariant.
LEMMA TakeSteps ==
    ASSUME LinkInv, RxTake
    PROVE  LinkInv'
<1>1. SenderInv /\ ReceiverInv /\ Ghosts /\ Arrived /\ Seams
  BY DEF LinkInv
<1>2. UNCHANGED <<txVars, spliced, harmed>> /\ missed' = 0
  BY DEF RxTake
<1>3. SenderInv'
  BY <1>1, <1>2, StutterSender
<1>4. ReceiverInv'
  BY TakeInv
<1>5. /\ Arrived' /\ Seams' /\ rxFrame' \in Frame /\ rxFrame'.epoch <= epoch
      /\ rxFrame' = rxStream[1]
  BY <1>1, TakeFrames
<1>6. Ghosts'
  <2>1. lastEpoch' = rxFrame'.epoch /\ UNCHANGED delivered
    <3>1. rxStream \in Seq(Frame) /\ Len(rxStream) <= 1 /\ rxStream # <<>>
      BY <1>1 DEF RxTake, ReadConsecutive, ReadAfterLoss, TakeFrame, CanRead, ReceiverInv, RxTypeOK
    <3> QED  BY <1>5, <3>1, OneInStream DEF RxTake, ReadConsecutive, ReadAfterLoss, TakeFrame
  <2>2. lastEpoch' \in 0 .. NoEpoch
    BY <1>1, <1>5, <2>1, TransmitterAssumption
       DEF SenderInv, SenderRuns, TxInv, TxTypeOK, Frame, NoEpoch, TransmitterAssumption
  <2>3. missed' \in 0 .. MaxLoss
    BY <1>2, LinkAssumption DEF LinkAssumption
  <2>4. tainted' \in BOOLEAN
    <3>1. tainted' = (pktExpected' # 0 /\ (tainted \/ Unnoticed))
      BY DEF RxTake
    <3> QED  BY <3>1
  <2>5. accepted' = accepted
    BY <1>2 DEF txVars, apiVars
  <2> QED  BY <1>1, <1>2, <2>1, <2>2, <2>3, <2>4, <2>5 DEF Ghosts
<1> QED  BY <1>3, <1>4, <1>5, <1>6 DEF LinkInv

\* So does any other step of the receiver.
LEMMA ReceiverSteps ==
    ASSUME LinkInv, RxExtract \/ RxCopy \/ RxFinish \/ RxControl \/ RxLeave
    PROVE  LinkInv'
<1>1. SenderInv /\ ReceiverInv /\ Ghosts /\ Arrived /\ Seams /\ MadeOf(accepted, rxFrame)
  BY DEF LinkInv, Arrived
<1>2. UNCHANGED txVars /\ UNCHANGED <<missed, lastEpoch>> /\ rxStream' = rxStream
  BY DEF RxExtract, RxCopy, RxFinish, RxControl, RxLeave, ghosts, SkipRest, ParseHeader,
         CopyPart, FinishPacket, StopRx, JoinRx, StartRx, RxExit
<1>3. SenderInv' /\ accepted' = accepted
  BY <1>1, <1>2, StutterSender DEF txVars, apiVars
<1>4. ReceiverInv'
  <2>1. CASE RxExtract
    BY <1>1, <2>1, SkipInv, ParseInv DEF RxExtract, ghosts
  <2>2. CASE RxCopy
    BY <1>1, <2>2, CopyInv DEF RxCopy
  <2>3. CASE RxFinish
    BY <1>1, <2>3, FinishInv DEF RxFinish
  <2>4. CASE RxControl
    BY <1>1, <2>4, RxStopInv, RxStartInv DEF RxControl, ghosts
  <2>5. CASE RxLeave
    BY <1>1, <2>5, RxLeaveInv DEF RxLeave
  <2> QED  BY <2>1, <2>2, <2>3, <2>4, <2>5
<1>5. Arrived' /\ Seams'
  <2>1. CASE RxControl /\ StartRx
    <3>1. ~HasFrame' /\ rxFrame' = NoFrame
      <4>1. UNCHANGED <<tainted, spliced>>
        BY <2>1 DEF RxControl, ghosts
      <4>2. ~HasFrame'
        BY <1>1, <2>1, <4>1, RxStartInv
      <4> QED  BY <2>1, <4>2 DEF StartRx
    <3>2. MadeOf(accepted, NoFrame) /\ NoFrame.epoch = 0
      BY DEF MadeOf, Made, NoFrame
    <3>3. 0 <= epoch
      BY <1>1 DEF SenderInv, TxInv, TxTypeOK
    <3>4. Arrived'
      BY <1>1, <1>2, <1>3, <3>1, <3>2, <3>3 DEF Arrived, Since, txVars, apiVars
    <3>5. \A y : MeetsWorker(y) => MeetsWorker(y)'
      BY <1>2 DEF MeetsWorker, AtHead, Resumes, SizeOf, txVars, apiVars, fillVars
    <3>6. ~Linked' /\ txStream' = txStream
      BY <1>2, <3>1 DEF Linked, txVars
    <3> QED  BY <1>1, <1>2, <3>4, <3>5, <3>6 DEF Seams
  <2>2. CASE ~(RxControl /\ StartRx)
    <3>1. UNCHANGED <<rxFrame, lastCounter>>
      BY <2>2 DEF RxExtract, RxCopy, RxFinish, RxControl, RxLeave, SkipRest, ParseHeader,
         CopyPart, FinishPacket, StopRx, JoinRx, RxExit, cursor
    <3>2. live' => live
      <4>1. CASE RxExtract \/ RxCopy \/ RxFinish
        <5>1. SkipRest \/ ParseHeader \/ CopyPart \/ FinishPacket
          BY <4>1 DEF RxExtract, RxCopy, RxFinish
        <5>2. rxPc = "extract"
          BY <5>1 DEF SkipRest, ParseHeader, CanParse, CopyPart, FinishPacket
        <5> QED  BY <5>2 DEF live
      <4>2. CASE RxControl
        <5>1. StopRx \/ JoinRx
          BY <2>2, <4>2 DEF RxControl
        <5> QED  BY <5>1 DEF live, StopRx, JoinRx
      <4>3. CASE RxLeave
        BY <4>3 DEF live, RxLeave, RxExit
      <4> QED  BY <4>1, <4>2, <4>3
    <3>3. WellFormed(rxFrame') <=> WellFormed(rxFrame)
      BY <3>1
    <3>4. HasFrame' => HasFrame
      BY <3>2, <3>3 DEF HasFrame
    <3> QED  BY <1>1, <1>2, <3>1, <3>4, FramesStay
  <2> QED  BY <2>1, <2>2
<1>6. Ghosts'
  <2>1. harmed' \subseteq 1 .. Len(accepted)
    <3>1. CASE RxCopy \/ RxFinish
      <4>1. harmed' = harmed \cup (Copied \ {NoPacket}) /\ (CopyPart \/ FinishPacket)
        BY <3>1 DEF RxCopy, RxFinish
      <4> QED  BY <1>1, <4>1, CopiedAccepted DEF Ghosts
    <3>2. CASE RxLeave
      <4> DEFINE p == rxFrame.content[FRAME_DATA_SIZE - 1].id
      <4>1. FRAME_DATA_SIZE - 1 \in Offsets
        BY DEF Offsets
      <4>2. {p} \ {NoPacket} \subseteq 1 .. Len(accepted)
        BY <1>1, <4>1, IdsAccepted
      <4>3. harmed' = harmed \/ harmed' = harmed \cup ({p} \ {NoPacket})
        BY <3>2 DEF RxLeave
      <4> HIDE DEF p
      <4> QED  BY <1>1, <4>2, <4>3 DEF Ghosts
    <3>3. CASE RxExtract \/ RxControl
      BY <1>1, <3>3 DEF RxExtract, RxControl, ghosts, Ghosts
    <3> QED  BY <3>1, <3>2, <3>3
  <2>2. tainted' \in BOOLEAN
    <3>1. tainted' = tainted \/ tainted' = FALSE
      BY DEF RxExtract, RxCopy, RxFinish, RxControl, RxLeave, ghosts
    <3> QED  BY <1>1, <3>1 DEF Ghosts
  <2>3. spliced' \subseteq 1 .. Len(delivered')
    <3>1. CASE RxFinish
      <4>1. Len(delivered') = Len(delivered) + 1 /\ Len(delivered) \in Nat
        <5>1. delivered' = Append(delivered, pktBuffer \o Bytes(Readable))
          BY <3>1 DEF RxFinish, FinishPacket
        <5>2. delivered \in Seq(Seq(Cell))
          BY <1>1 DEF ReceiverInv, RxTypeOK
        <5> QED  BY <5>1, <5>2
      <4>2. spliced' \subseteq spliced \cup {Len(delivered) + 1}
        BY <3>1 DEF RxFinish
      <4> QED  BY <1>1, <4>1, <4>2 DEF Ghosts
    <3>2. CASE ~RxFinish
      <4>1. delivered' = delivered /\ spliced' = spliced
        BY <3>2 DEF RxExtract, RxCopy, RxControl, RxLeave, ghosts, SkipRest, ParseHeader,
           CopyPart, StopRx, JoinRx, StartRx, RxExit
      <4> QED  BY <1>1, <4>1 DEF Ghosts
    <3> QED  BY <3>1, <3>2
  <2> QED  BY <1>1, <1>2, <1>3, <2>1, <2>2, <2>3 DEF Ghosts
<1> QED  BY <1>3, <1>4, <1>5, <1>6 DEF LinkInv

----------------------------------------------------------------------------
(* The theorems. *)

\* The first state has the invariant.
LEMMA LinkInitially == LinkInit => LinkInv
<1> SUFFICES ASSUME LinkInit PROVE LinkInv
  OBVIOUS
<1>1. TxInit /\ RxInit
  BY DEF LinkInit
<1>2. TxInv
  <2>1. TxFlagsOK
    BY <1>1 DEF TxInit, TxFlagsOK
  <2>2. EmptyFrame \in Frame
    BY DEF EmptyFrame, Frame, Noise, Cell, PacketOffset, Offsets
  <2>3. TxTypeOK
    BY <1>1, <2>1, <2>2 DEF TxInit, TxTypeOK, TxPcs, NoPacket
  <2> QED  BY <1>1, <2>3 DEF TxInit, TxInv, QueueOrder, Progress, Filling, Complete
<1>3. SenderInv
  <2>1. MadeOf(accepted, EmptyFrame)
    BY DEF MadeOf, Made, EmptyFrame
  <2> QED  BY <1>1, <1>2, <2>1, TransmitterAssumption
           DEF TxInit, SenderInv, SenderBytes, SenderRuns, TransmitterAssumption
<1>4. ReceiverInv /\ ~HasFrame
  <2>1. rxRunning \in BOOLEAN /\ readerStop \in BOOLEAN
        /\ firstPacket \in BOOLEAN /\ lastPacket \in BOOLEAN
    BY <1>1 DEF RxInit
  <2>2. RxTypeOK
    BY <1>1, <2>1, NoFrameIsNone DEF RxInit, RxTypeOK, RxPcs
  <2>3. rxRunning /\ ~tainted
    BY <1>1 DEF RxInit, LinkInit
  <2> QED  BY <1>1, <2>2, <2>3, NoFrameIsNone
           DEF RxInit, ReceiverInv, RxRuns, Partial, Cursor, Prefix, Integrity, HasFrame
<1>5. Ghosts
  <2>1. tainted \in BOOLEAN
    BY DEF LinkInit
  <2> QED  BY <2>1, TransmitterAssumption, LinkAssumption
           DEF LinkInit, Ghosts, NoEpoch, TransmitterAssumption, LinkAssumption
<1>6. Arrived
  <2>1. MadeOf(accepted, NoFrame) /\ NoFrame.epoch = 0
    BY DEF MadeOf, Made, NoFrame
  <2> QED  BY <1>1, <1>4, <2>1 DEF TxInit, RxInit, Arrived
<1>7. Seams
  BY <1>1, <1>4 DEF TxInit, RxInit, Seams, Linked
<1> QED  BY <1>3, <1>4, <1>5, <1>6, <1>7 DEF LinkInv

(***************************************************************************)
(* The invariant holds in every state of the link, with whatever losses,   *)
(* stops and starts: the sender's bytes, the frames on their way, and the  *)
(* receiver's partial packet and cursor fit together                       *)
(* (transmitter.cpp:90-171, receiver.cpp:80-221).                          *)
(***************************************************************************)
THEOREM LinkInvariance == LinkSpec => []LinkInv
<1>1. LinkInit => LinkInv
  BY LinkInitially
<1>2. LinkInv /\ [LinkNext]_vars => LinkInv'
  <2> SUFFICES ASSUME LinkInv, [LinkNext]_vars PROVE LinkInv'
    OBVIOUS
  <2>1. CASE CarryFrame \/ LoseFrame
    BY <2>1, CarrySteps
  <2>2. CASE TxControl \/ TxPack \/ TxAbandon
    BY <2>2, SenderSteps
  <2>3. CASE RxTake
    BY <2>3, TakeSteps
  <2>4. CASE RxExtract \/ RxCopy \/ RxFinish \/ RxControl \/ RxLeave
    BY <2>4, ReceiverSteps
  <2>5. CASE UNCHANGED vars
    <3>1. UNCHANGED txVars /\ UNCHANGED rxVars /\ UNCHANGED ghosts
      BY <2>5 DEF vars
    <3>2. SenderInv' /\ ReceiverInv' /\ HasFrame' = HasFrame
      BY <3>1, StutterSender, ReceiverStays DEF LinkInv, ghosts
    <3>3. Ghosts'
      BY <3>1 DEF LinkInv, Ghosts, ghosts, txVars, apiVars, rxVars
    <3>4. Arrived' /\ Seams'
      BY <3>1, <3>2, FramesStay DEF LinkInv, ghosts, rxVars, cursor
    <3> QED  BY <3>2, <3>3, <3>4 DEF LinkInv
  <2> QED  BY <2>1, <2>2, <2>3, <2>4, <2>5 DEF LinkNext
<1> QED  BY <1>1, <1>2, PTL DEF LinkSpec

(***************************************************************************)
(* Every variable of sender, receiver and link keeps its type: the cursor  *)
(* never leaves the frame, a stream never holds two frames, and only       *)
(* packets that send() took are ever charged with a loss.                  *)
(***************************************************************************)
THEOREM LinkTypes == LinkSpec => []TypeOK
<1>1. LinkInv => TypeOK
  BY DEF LinkInv, SenderInv, TxInv, ReceiverInv, Ghosts, TypeOK
<1> QED  BY <1>1, LinkInvariance, PTL

(***************************************************************************)
(* The receiver parses the size of a packet only where the sender wrote    *)
(* one, also right behind a gap that nobody noticed                        *)
(* (receiver.cpp:173-188).                                                 *)
(***************************************************************************)
THEOREM HeadersAreAligned == LinkSpec => []HeaderAlignment
<1>1. LinkInv => HeaderAlignment
  BY HeaderAligned DEF LinkInv, HeaderAlignment, CanParse
<1> QED  BY <1>1, LinkInvariance, PTL

(***************************************************************************)
(* A packet handed to onPacket is whole: all the bytes of one packet that  *)
(* send() took, in order; unless it was open across a gap in the frames    *)
(* that the counter does not show (receiver.cpp:92-103, 196-217).          *)
(***************************************************************************)
THEOREM PacketsAreWhole == LinkSpec => []Integrity
<1>1. LinkInv => Integrity
  BY DEF LinkInv, ReceiverInv
<1> QED  BY <1>1, LinkInvariance, PTL

----------------------------------------------------------------------------
(***************************************************************************)
(* What the link is for: a lost frame costs the packets in that frame and  *)
(* no others, and as long as no gap goes unnoticed the link implements the *)
(* packet service.  For every frame size, counter width, set of packet     *)
(* sizes and number of losses and restarts.                                *)
(***************************************************************************)

(***************************************************************************)
(* Where the packets are: each on its way is found at its last byte.       *)
(***************************************************************************)

\* The last byte of its packet.
Closes(c) == c.at = serializedSize(c.size)

\* The packets whose last byte lies in frame f at one of the offsets in S.
EndsIn(f, S) == {f.content[o].id : o \in {x \in S : Closes(f.content[x])}}

InStream(s) == IF s = <<>> THEN {} ELSE EndsIn(s[1], Offsets)

\* Where the receiver goes on reading the frame in its hand.
ResumeAt == IF firstPacket /\ pktExpected = 0 THEN rxFrame.firstPacket ELSE frameRead

InHand == IF rxPc = "extract" THEN EndsIn(rxFrame, {o \in Offsets : o >= ResumeAt}) ELSE {}

Written == {o \in Offsets : txPc = "send" \/ (txPc = "fill" /\ o < frameOffset)}

InFrame == EndsIn(frame, Written)

AtWork == IF pktWritten # 0 /\ txPc \in {"begin", "fill", "send"} THEN {pkt} ELSE {}

InQueue == {packets[i] : i \in 1 .. Len(packets)}

Reached == IntactIds \cup InHand \cup InStream(rxStream)

Leaving == InStream(txStream) \cup InFrame \cup AtWork \cup InQueue

(***************************************************************************)
(* The way is a queue, and no packet drops out of it unharmed.             *)
(***************************************************************************)
Below(A, B) == \A a \in A, b \in B : a < b

ReceiverOrder ==
    /\ Below(IntactIds, InHand \cup InStream(rxStream))
    /\ Below(InHand, InStream(rxStream))

SenderOrder ==
    /\ Below(InStream(txStream), InFrame \cup AtWork \cup InQueue)
    /\ Below(InFrame, AtWork \cup InQueue)
    /\ Below(AtWork, InQueue)

Coverage ==
    \A n \in 1 .. Len(accepted) : accepted[n] = 0 \/ n \in harmed \cup Reached \cup Leaving

Route ==
    /\ ReceiverOrder /\ SenderOrder /\ Below(Reached, Leaving)
    /\ Coverage /\ IntactIds \subseteq 1 .. Len(accepted)

(***************************************************************************)
(* The rest of a packet whose beginning is lost belongs to a harmed one.   *)
(***************************************************************************)
Owed(c) == Continues(c) => c.id \in harmed

WorkerOwes ==
    /\ AtHead /\ pktWritten # 0 => pkt \in harmed
    /\ ~AtHead /\ txPc \in {"fill", "send"} => Owed(frame.content[0])

Severed ==
    ~Linked =>
        /\ rxStream # <<>> => Owed(rxStream[1].content[0])
        /\ rxStream = <<>> /\ txStream # <<>> => Owed(txStream[1].content[0])
        /\ rxStream = <<>> /\ txStream = <<>> => WorkerOwes

\* A packet that goes on in the next frame is being read, or is harmed.
TailKnown ==
    HasFrame /\ rxPc = "read" /\ Open(rxFrame.content[Last]) =>
        \/ rxFrame.content[Last].id \in harmed
        \/ pktExpected # 0 /\ ~tainted

\* What the receiver passed over on the way to the frame's first packet.
Passed ==
    rxPc = "extract" /\ firstPacket /\ pktExpected = 0 =>
        \/ frameRead = rxFrame.firstPacket
        \/ \A o \in 0 .. frameRead :
              o < frameRead \/ rxFrame.content[o].at # 1 =>
                  rxFrame.content[o].id \in harmed \cup {NoPacket}

\* A tainted packet is at most what the frame starts with.
TaintedTurn == tainted /\ rxPc = "extract" => firstPacket /\ frameRead = 0

ServiceInv == Route /\ Severed /\ TailKnown /\ Passed /\ TaintedTurn

----------------------------------------------------------------------------
(* Frames. *)

USE FormatAssumption DEF HEADER

\* What Follows says of the packets that two neighbouring bytes belong to.
LEMMA BehindCell ==
    ASSUME NEW c \in Cell, NEW d, Follows(c, d)
    PROVE  /\ c = Noise => d = Noise
           /\ d = Noise \/ d.id > c.id \/ d.id = c.id
           /\ d = Noise \/ d.at = 1 \/ d.id = c.id
           /\ Closes(c) => d = Noise \/ d.id > c.id
<1>1. c = Noise => ~Closes(c)
  BY DEF Noise, Closes, serializedSize
<1>2. CASE c = Noise
  BY <1>1, <1>2 DEF Follows
<1>3. CASE c # Noise /\ c.at < serializedSize(c.size)
  <2>1. c.at \in Nat /\ c.at + 1 \in Nat
    BY DEF Cell
  <2>2. d = ByteOf(c.id, c.at + 1, c.size)
    BY <1>3, <2>1, CellFields DEF Follows
  <2>3. d.id = c.id
    BY <2>2 DEF ByteOf
  <2>4. ~Closes(c)
    BY <1>3, <2>1 DEF Closes
  <2> QED  BY <1>3, <2>3, <2>4
<1>4. CASE c # Noise /\ ~(c.at < serializedSize(c.size))
  BY <1>4 DEF Follows
<1> QED  BY <1>2, <1>3, <1>4

\* Up to the next start there are only bytes of one packet, and noise.
LEMMA NoStartSame ==
    ASSUME NEW f \in Frame, WellFormed(f), NEW o \in Offsets, NEW m \in Offsets, o <= m,
           \A x \in Offsets : o < x /\ x <= m => f.content[x].at # 1
    PROVE  f.content[m] = Noise \/ f.content[m].id = f.content[o].id
<1> DEFINE n == m - o
           S == {i \in 0 .. n : \/ f.content[o + i] = Noise
                                \/ f.content[o + i].id = f.content[o].id}
<1>1. n \in Nat /\ o + n = m /\ o \in Nat /\ o + 0 = o
  BY DEF Offsets
<1>2. 0 \in S
  BY <1>1
<1>3. ASSUME NEW i \in 0 .. n - 1, i \in S
      PROVE  i + 1 \in S
  <2>1. /\ o + (i + 1) \in Offsets /\ o + (i + 1) > 0 /\ (o + (i + 1)) - 1 = o + i
        /\ o < o + (i + 1) /\ o + (i + 1) <= m /\ o + i \in Offsets
    BY <1>1 DEF Offsets
  <2>2. Follows(f.content[o + i], f.content[o + (i + 1)]) /\ f.content[o + i] \in Cell
    BY <2>1 DEF WellFormed, Frame
  <2>3. f.content[o + (i + 1)].at # 1
    BY <2>1
  <2> QED  BY <1>1, <1>3, <2>2, <2>3, BehindCell
<1> HIDE DEF S
<1>4. n \in S
  <2> HIDE DEF n
  <2> QED  BY <1>1, <1>2, <1>3, UpTo
<1> QED  BY <1>1, <1>4 DEF S

\* The packets that end in a frame end in the order of their numbers.
LEMMA EndsAscend ==
    ASSUME NEW f \in Frame, WellFormed(f), NEW o \in Offsets, NEW m \in Offsets, o < m,
           Closes(f.content[o]), Closes(f.content[m])
    PROVE  f.content[o].id < f.content[m].id
<1> DEFINE n == m - (o + 1)
           p == f.content[o].id
           S == {i \in 0 .. n : \/ f.content[o + 1 + i] = Noise
                                \/ f.content[o + 1 + i].id > p}
<1>1. /\ n \in Nat /\ o + 1 + n = m /\ o \in Nat /\ o + 1 + 0 = o + 1
      /\ o + 1 \in Offsets /\ (o + 1) - 1 = o /\ o + 1 > 0
  BY DEF Offsets
<1>2. \A x \in Offsets : f.content[x] \in Cell /\ f.content[x].id \in Nat
  BY DEF Frame, Cell
<1>3. 0 \in S
  <2>1. Follows(f.content[o], f.content[o + 1])
    BY <1>1 DEF WellFormed
  <2> QED  BY <1>1, <1>2, <2>1, BehindCell
<1>4. ASSUME NEW i \in 0 .. n - 1, i \in S
      PROVE  i + 1 \in S
  <2>1. /\ o + 1 + (i + 1) \in Offsets /\ o + 1 + (i + 1) > 0
        /\ (o + 1 + (i + 1)) - 1 = o + 1 + i /\ o + 1 + i \in Offsets
    BY <1>1 DEF Offsets
  <2>2. Follows(f.content[o + 1 + i], f.content[o + 1 + (i + 1)])
    BY <2>1 DEF WellFormed
  <2>3. \/ f.content[o + 1 + (i + 1)] = Noise
        \/ f.content[o + 1 + (i + 1)].id >= f.content[o + 1 + i].id
    BY <1>2, <2>1, <2>2, BehindCell
  <2>4. f.content[o + 1 + i] = Noise => f.content[o + 1 + (i + 1)] = Noise
    BY <1>2, <2>1, <2>2, BehindCell
  <2>5. i + 1 \in 0 .. n
    BY <1>1
  <2> QED  BY <1>2, <1>4, <2>1, <2>3, <2>4, <2>5
<1> HIDE DEF S
<1>5. n \in S
  <2> HIDE DEF n
  <2> QED  BY <1>1, <1>3, <1>4, UpTo
<1>6. f.content[m] # Noise
  BY DEF Closes, Noise, serializedSize
<1> QED  BY <1>1, <1>5, <1>6 DEF S

----------------------------------------------------------------------------
(* The sender's end of the way. *)

\* The sender took packets a step further, or harmed them.
SenderMoves ==
    /\ SenderOrder' /\ accepted' = accepted
    /\ Leaving' \subseteq Leaving
    /\ \A n \in Leaving \ Leaving' : n \in harmed' \/ accepted[n] = 0

\* A packet being written is in the frame when its last byte is.
LEMMA WritePlaces ==
    ASSUME TxTypeOK, txPc = "fill", NEW p \in 1 .. Len(accepted),
           NEW written \in Nat, NEW toWrite \in Nat,
           NEW first \in PacketOffset, NEW last \in PacketOffset,
           toWrite = serializedSize(SizeOf(p)), written < toWrite,
           frameOffset < FRAME_DATA_SIZE, Write(p, written, toWrite, first, last)
    PROVE  \/ InFrame' = InFrame \cup {p} /\ AtWork' = {}
           \/ InFrame' = InFrame /\ AtWork' = {p}
<1> DEFINE k == Writeable(written, toWrite)
           e == frameOffset + k
           done == written + k >= toWrite
<1>1. /\ k \in Nat /\ k >= 1 /\ e <= FRAME_DATA_SIZE /\ e \in Nat /\ written + k <= toWrite
      /\ frameOffset \in Nat
      /\ written + k = toWrite \/ e = FRAME_DATA_SIZE
  <2>1. frameOffset \in Nat
    BY DEF TxTypeOK
  <2>2. /\ k \in Nat /\ k >= 1 /\ frameOffset + k <= FRAME_DATA_SIZE /\ written + k <= toWrite
        /\ written + k = toWrite \/ frameOffset + k = FRAME_DATA_SIZE
    BY <2>1, WriteableBounds
  <2> HIDE DEF k
  <2> QED  BY <2>1, <2>2
<1>2. /\ frame' \in Frame /\ Extended(frame, frame', frameOffset, p, SizeOf(p), written, k)
  BY WrittenFrame
<1>3. /\ \A o \in 0 .. frameOffset - 1 : frame'.content[o] = frame.content[o]
      /\ \A o \in frameOffset .. e - 1 :
           frame'.content[o] = ByteOf(p, written + (o - frameOffset) + 1, SizeOf(p))
  <2> HIDE DEF k
  <2>1. frameOffset + k - 1 = e - 1
    BY <1>1
  <2>2. /\ \A o \in 0 .. frameOffset - 1 : frame'.content[o] = frame.content[o]
        /\ \A o \in frameOffset .. frameOffset + k - 1 :
             frame'.content[o] = ByteOf(p, written + (o - frameOffset) + 1, SizeOf(p))
    BY <1>2 DEF Extended
  <2> HIDE DEF e
  <2> QED  BY <2>1, <2>2
<1>4. /\ pkt' = p /\ pktWritten' = IF done THEN 0 ELSE written + k
      /\ txPc' = IF e < FRAME_DATA_SIZE THEN "fill" ELSE "send"
      /\ frameOffset' = e
  BY DEF Write
<1>5. Written' = 0 .. e - 1 /\ Written = 0 .. frameOffset - 1
  <2> HIDE DEF e
  <2>1. \A o \in Offsets : o \in Nat /\ o < FRAME_DATA_SIZE
    BY DEF Offsets
  <2>2. Written' = {o \in Offsets : o < e}
    BY <1>1, <1>4, <2>1 DEF Written
  <2>3. Written = {o \in Offsets : o < frameOffset}
    BY <1>1 DEF Written
  <2> QED  BY <1>1, <2>2, <2>3 DEF Offsets
<1> HIDE DEF k
<1>6. \A o \in frameOffset .. e - 1 : Closes(frame'.content[o]) <=> done /\ o = e - 1
  <2> TAKE o \in frameOffset .. e - 1
  <2> DEFINE at == written + (o - frameOffset) + 1
  <2>1. at \in Nat \ {0} /\ frame'.content[o] = ByteOf(p, at, SizeOf(p))
    BY <1>1, <1>3
  <2>2. frame'.content[o].at = at /\ frame'.content[o].size = SizeOf(p)
    BY <2>1, ByteFields
  <2>3. Closes(frame'.content[o]) <=> at = toWrite
    <3> HIDE DEF at
    <3> QED  BY <2>2 DEF Closes
  <2> QED  BY <1>1, <2>3
<1> HIDE DEF e, done
<1>7. \A o \in frameOffset .. e - 1 : frame'.content[o].id = p
  <2>1. \A at : ByteOf(p, at, SizeOf(p)).id = p
    BY DEF ByteOf
  <2> QED  BY <1>3, <2>1
<1>8. CASE done
  <2>1. AtWork' = {}
    BY <1>4, <1>8 DEF AtWork
  <2>2. e - 1 \in frameOffset .. e - 1
    BY <1>1 DEF e
  <2>3. \A x : x \in InFrame' <=> x \in InFrame \/ x = p
    <3> TAKE x
    <3>1. x \in InFrame' <=>
            \E o \in 0 .. e - 1 : Closes(frame'.content[o]) /\ x = frame'.content[o].id
      BY <1>5 DEF InFrame, EndsIn
    <3>2. x \in InFrame <=>
            \E o \in 0 .. frameOffset - 1 : Closes(frame.content[o]) /\ x = frame.content[o].id
      BY <1>5 DEF InFrame, EndsIn
    <3>3. \A o : o \in 0 .. e - 1 <=> o \in 0 .. frameOffset - 1 \/ o \in frameOffset .. e - 1
      BY <1>1 DEF e
    <3> QED  BY <1>3, <1>6, <1>7, <1>8, <2>2, <3>1, <3>2, <3>3
  <2> QED  BY <2>1, <2>3
<1>9. CASE ~done
  <2>1. pktWritten' # 0
    BY <1>1, <1>4, <1>9 DEF done
  <2>2. AtWork' = {p}
    BY <1>4, <2>1 DEF AtWork
  <2>3. \A x : x \in InFrame' <=> x \in InFrame
    <3> TAKE x
    <3>1. x \in InFrame' <=>
            \E o \in 0 .. e - 1 : Closes(frame'.content[o]) /\ x = frame'.content[o].id
      BY <1>5 DEF InFrame, EndsIn
    <3>2. x \in InFrame <=>
            \E o \in 0 .. frameOffset - 1 : Closes(frame.content[o]) /\ x = frame.content[o].id
      BY <1>5 DEF InFrame, EndsIn
    <3>3. \A o : o \in 0 .. e - 1 <=> o \in 0 .. frameOffset - 1 \/ o \in frameOffset .. e - 1
      BY <1>1 DEF e
    <3> QED  BY <1>3, <1>6, <1>9, <3>1, <3>2, <3>3
  <2> QED  BY <2>2, <2>3
<1> QED  BY <1>8, <1>9

\* The first packet of the queue goes to the worker.
LEMMA PopPlaces ==
    ASSUME TxTypeOK, QueueOrder, packets # <<>>, packets' = Tail(packets)
    PROVE  /\ Head(packets) \in 1 .. Len(accepted)
           /\ InQueue = {Head(packets)} \cup InQueue'
           /\ Below({Head(packets)}, InQueue')
<1>1. /\ packets \in Seq(1 .. Len(accepted)) /\ Len(packets) \in Nat /\ Len(packets) >= 1
      /\ Head(packets) = packets[1] /\ packets[1] \in 1 .. Len(accepted)
      /\ Len(Tail(packets)) = Len(packets) - 1
      /\ \A i \in 1 .. Len(packets) - 1 : Tail(packets)[i] = packets[i + 1]
  BY DEF TxTypeOK
<1>2. \A x : x \in InQueue' <=> \E i \in 2 .. Len(packets) : x = packets[i]
  <2> TAKE x
  <2>1. x \in InQueue' <=> \E i \in 1 .. Len(packets) - 1 : x = packets[i + 1]
    BY <1>1 DEF InQueue
  <2>2. \A i \in 2 .. Len(packets) : i - 1 \in 1 .. Len(packets) - 1 /\ (i - 1) + 1 = i
    BY <1>1
  <2>3. \A i \in 1 .. Len(packets) - 1 : i + 1 \in 2 .. Len(packets)
    BY <1>1
  <2> QED  BY <2>1, <2>2, <2>3
<1>3. \A i : i \in 1 .. Len(packets) <=> i = 1 \/ i \in 2 .. Len(packets)
  BY <1>1
<1>4. InQueue = {Head(packets)} \cup InQueue'
  BY ZenonT(30), <1>1, <1>2, <1>3 DEF InQueue
<1>5. \A i \in 2 .. Len(packets) : packets[1] < packets[i]
  BY <1>1 DEF QueueOrder
<1> QED  BY <1>1, <1>2, <1>4, <1>5 DEF Below

\* A turn that fills the frame moves packets on in order.
LEMMA FillMoves ==
    ASSUME SenderInv, SenderOrder, FillFrame, harmed' = harmed
    PROVE  SenderMoves
<1>1. TxInv /\ TxTypeOK /\ QueueOrder /\ txPc = "fill" /\ frameOffset < FRAME_DATA_SIZE
  BY DEF SenderInv, TxInv, Filling, FillFrame, PadShort, PadIdle, StartPacket, ContinuePacket
<1>2. UNCHANGED apiVars /\ txStream' = txStream /\ InStream(txStream)' = InStream(txStream)
  BY DEF FillFrame, PadShort, PadIdle, StartPacket, ContinuePacket, InStream
<1>3. accepted' = accepted
  BY <1>2 DEF apiVars
<1>4. CASE StartPacket
  <2> DEFINE p == Head(packets)
             toWrite == serializedSize(SizeOf(p))
             first == IF frame.firstPacket = PKT_OFFS_NONE THEN frameOffset
                                                           ELSE frame.firstPacket
  <2>1. /\ packets # <<>> /\ packets' = Tail(packets) /\ pktWritten = 0
        /\ Write(p, 0, toWrite, first, frameOffset)
    BY <1>4 DEF StartPacket, pop
  <2>2. p \in 1 .. Len(accepted) /\ InQueue = {p} \cup InQueue' /\ Below({p}, InQueue')
    BY <1>1, <2>1, PopPlaces
  <2>3. toWrite \in Nat /\ 0 < toWrite /\ first \in PacketOffset /\ frameOffset \in PacketOffset
    <3>1. SizeOf(p) \in Nat
      BY <1>1, <2>2, SizeType
    <3>2. frame \in Frame /\ frameOffset \in Nat
      BY <1>1 DEF TxTypeOK
    <3> QED  BY <1>1, <3>1, <3>2 DEF Frame, PacketOffset, Offsets, serializedSize
  <2>4. AtWork = {}
    BY <2>1 DEF AtWork
  <2>5. \/ InFrame' = InFrame \cup {p} /\ AtWork' = {}
        \/ InFrame' = InFrame /\ AtWork' = {p}
    <3> HIDE DEF p, first
    <3>1. toWrite = serializedSize(SizeOf(p))
      OBVIOUS
    <3> HIDE DEF toWrite
    <3> QED  BY <1>1, <2>1, <2>2, <2>3, <3>1, WritePlaces
  <2> HIDE DEF p
  <2> QED  BY <1>2, <1>3, <2>2, <2>4, <2>5 DEF SenderMoves, SenderOrder, Leaving, Below
<1>5. CASE ContinuePacket
  <2>1. /\ Write(pkt, pktWritten, pktToWrite, frame.firstPacket, frame.lastPacket)
        /\ pktWritten # 0 /\ packets' = packets
    BY <1>5 DEF ContinuePacket
  <2>2. /\ pkt \in 1 .. Len(accepted) /\ pktWritten \in Nat /\ pktToWrite \in Nat
        /\ pktToWrite = serializedSize(SizeOf(pkt)) /\ pktWritten < pktToWrite
        /\ frame.firstPacket \in PacketOffset /\ frame.lastPacket \in PacketOffset
    BY <1>1, <2>1 DEF TxInv, TxTypeOK, Progress, NoPacket, Frame
  <2>3. AtWork = {pkt} /\ InQueue' = InQueue
    BY <1>1, <2>1 DEF AtWork, InQueue
  <2>4. \/ InFrame' = InFrame \cup {pkt} /\ AtWork' = {}
        \/ InFrame' = InFrame /\ AtWork' = {pkt}
    BY <1>1, <2>1, <2>2, WritePlaces
  <2> QED  BY <1>2, <1>3, <2>3, <2>4 DEF SenderMoves, SenderOrder, Leaving, Below
<1>6. CASE PadShort \/ PadIdle
  <2>1. /\ frame' = [frame EXCEPT !.content = Padded] /\ txPc' = "send" /\ pktWritten = 0
        /\ pktWritten' = 0 /\ frame \in Frame /\ frameOffset \in Nat
    BY <1>1, <1>6 DEF PadShort, PadIdle, TxTypeOK
  <2>2. frame'.content = Padded
    BY <2>1 DEF Frame
  <2>3. \A o \in Offsets : Closes(frame'.content[o]) <=> o < frameOffset /\ Closes(frame.content[o])
    <3>1. ~Closes(Noise)
      BY DEF Closes, Noise, serializedSize
    <3> TAKE o \in Offsets
    <3>2. CASE o >= frameOffset
      BY <2>1, <2>2, <3>1, <3>2 DEF Padded, Offsets
    <3>3. CASE ~(o >= frameOffset)
      BY <2>1, <2>2, <3>3 DEF Padded, Offsets
    <3> QED  BY <3>2, <3>3
  <2>4. \A o \in Offsets : o < frameOffset => frame'.content[o] = frame.content[o]
    BY <2>1, <2>2 DEF Padded, Offsets
  <2>5. InFrame' = InFrame
    <3>1. Written' = Offsets /\ Written = {o \in Offsets : o < frameOffset}
      BY <1>1, <2>1 DEF Written
    <3> QED  BY <2>3, <2>4, <3>1 DEF InFrame, EndsIn
  <2>6. AtWork = {} /\ AtWork' = {}
    BY <2>1 DEF AtWork
  <2>7. CASE packets' = packets
    <3>1. InQueue' = InQueue
      BY <2>7 DEF InQueue
    <3> QED  BY <1>2, <1>3, <2>5, <2>6, <3>1 DEF SenderMoves, SenderOrder, Leaving, Below
  <2>8. CASE packets # <<>> /\ packets' = Tail(packets) /\ SizeOf(Head(packets)) = 0
    <3> DEFINE p == Head(packets)
    <3>1. p \in 1 .. Len(accepted) /\ InQueue = {p} \cup InQueue'
      BY <1>1, <2>8, PopPlaces
    <3>2. accepted[p] = 0
      BY <2>8, <3>1 DEF SizeOf, NoPacket
    <3> HIDE DEF p
    <3> QED  BY <1>2, <1>3, <2>5, <2>6, <3>1, <3>2 DEF SenderMoves, SenderOrder, Leaving, Below
  <2> QED  BY <1>6, <2>7, <2>8 DEF PadShort, PadIdle
<1> QED  BY <1>4, <1>5, <1>6 DEF FillFrame

\* The last byte of a packet that send() took is of that packet.
LEMMA EndsMade ==
    ASSUME NEW f, MadeOf(accepted, f), NEW S, S \subseteq Offsets, NEW n \in EndsIn(f, S)
    PROVE  n # NoPacket /\ n \in 1 .. Len(accepted) /\ n \in Ids(f.content)
<1>1. PICK o \in S : Closes(f.content[o]) /\ n = f.content[o].id
  BY DEF EndsIn
<1>2. f.content[o] # Noise
  BY <1>1 DEF Closes, Noise, serializedSize
<1>3. n \in 1 .. Len(accepted)
  BY <1>1, <1>2 DEF MadeOf, Made
<1> QED  BY <1>1, <1>3 DEF Ids, NoPacket

\* A packet that ends in a frame has content.
LEMMA EndsSized ==
    ASSUME NEW f, MadeOf(accepted, f), NEW S, S \subseteq Offsets, NEW n \in EndsIn(f, S)
    PROVE  accepted[n] # 0
<1>1. PICK o \in S : Closes(f.content[o]) /\ n = f.content[o].id
  BY DEF EndsIn
<1>2. f.content[o] # Noise
  BY <1>1 DEF Closes, Noise, serializedSize
<1> QED  BY <1>1, <1>2 DEF MadeOf, Made

\* So do beginning a frame and sending it; giving it up harms what is in it.
LEMMA EndMoves ==
    ASSUME SenderInv, SenderOrder,
           \/ BeginFrame /\ harmed' = harmed
           \/ SendFrame /\ harmed' = harmed
           \/ AbandonFrame /\ harmed' = harmed \cup Ids(frame.content)
    PROVE  SenderMoves
<1>1. TxInv /\ TxTypeOK /\ MadeOf(accepted, frame) /\ frame \in Frame
  BY DEF SenderInv, SenderBytes, TxInv, TxTypeOK
<1>2. UNCHANGED <<accepted, packets, pkt, pktWritten>> /\ InQueue' = InQueue
  BY DEF BeginFrame, SendFrame, AbandonFrame, apiVars, fillVars, InQueue
<1>3. CASE BeginFrame
  <2>1. txPc = "begin" /\ txPc' = "fill" /\ frameOffset' = 0 /\ txStream' = txStream
    BY <1>3 DEF BeginFrame
  <2>2. Written = {} /\ Written' = {}
    BY <2>1 DEF Written, Offsets
  <2>3. InFrame = {} /\ InFrame' = {}
    BY <2>2 DEF InFrame, EndsIn
  <2>4. AtWork' = AtWork
    BY <1>2, <2>1 DEF AtWork
  <2>5. InStream(txStream)' = InStream(txStream)
    BY <2>1
  <2> QED  BY <1>2, <2>3, <2>4, <2>5 DEF SenderMoves, SenderOrder, Leaving, Below
<1>4. CASE SendFrame
  <2>1. /\ txPc = "send" /\ txPc' = "begin" /\ txStream = <<>> /\ txStream' = <<frame>>
        /\ frame' = frame
    BY <1>4 DEF SendFrame, fillVars
  <2>2. Written = Offsets /\ Written' = {}
    BY <2>1 DEF Written
  <2>3. InFrame = EndsIn(frame, Offsets) /\ InFrame' = {}
    BY <2>2 DEF InFrame, EndsIn
  <2>4. AtWork' = AtWork
    BY <1>2, <2>1 DEF AtWork
  <2>5. InStream(txStream)' = EndsIn(frame, Offsets) /\ InStream(txStream) = {}
    <3>1. <<frame>> # <<>> /\ <<frame>>[1] = frame
      OBVIOUS
    <3> QED  BY <2>1, <3>1 DEF InStream
  <2> QED  BY <1>2, <2>3, <2>4, <2>5 DEF SenderMoves, SenderOrder, Leaving, Below
<1>5. CASE AbandonFrame /\ harmed' = harmed \cup Ids(frame.content)
  <2>1. /\ txPc = "send" /\ txPc' = "exited" /\ txStream' = txStream
    BY <1>5 DEF AbandonFrame
  <2>2. Written = Offsets /\ Written' = {}
    BY <2>1 DEF Written
  <2>3. InFrame = EndsIn(frame, Offsets) /\ InFrame' = {}
    BY <2>2 DEF InFrame, EndsIn
  <2>4. AtWork' = {}
    BY <2>1 DEF AtWork
  <2>5. InStream(txStream)' = InStream(txStream)
    BY <2>1
  <2>6. \A n \in InFrame : n \in harmed'
    BY <1>1, <1>5, <2>3, EndsMade
  <2>7. \A n \in AtWork : n \in harmed'
    <3> SUFFICES ASSUME pktWritten # 0 PROVE pkt \in Ids(frame.content)
      BY <1>5 DEF AtWork
    <3>1. frame.content[Last] = ByteOf(pkt, pktWritten, SizeOf(pkt)) /\ pkt # NoPacket
      BY <1>1, <2>1 DEF SenderInv, SenderRuns, Resumes, TxInv, Progress
    <3>2. Last \in Offsets
      BY DEF Last, Offsets
    <3>3. frame.content[Last].id = pkt
      BY <3>1 DEF ByteOf
    <3> QED  BY <3>1, <3>2, <3>3 DEF Ids
  <2> QED  BY <1>2, <2>3, <2>4, <2>5, <2>6, <2>7
           DEF SenderMoves, SenderOrder, Leaving, Below
<1> QED  BY <1>3, <1>4, <1>5

\* stop() and start() leave the packets where they are.
LEMMA ControlMoves ==
    ASSUME SenderInv, SenderOrder, StopTx \/ JoinTx \/ StartTx, harmed' = harmed
    PROVE  SenderMoves
<1>1. /\ accepted' = accepted /\ txStream' = txStream /\ packets' = packets
      /\ InQueue' = InQueue /\ InStream(txStream)' = InStream(txStream)
  BY DEF StopTx, JoinTx, StartTx, InQueue
<1>2. CASE StopTx
  <2>1. UNCHANGED <<frame, frameOffset, pkt, pktWritten, txPc>>
    BY <1>2 DEF StopTx, fillVars
  <2>2. AtWork' = AtWork /\ InFrame' = InFrame
    BY <2>1 DEF AtWork, InFrame, EndsIn, Written
  <2> QED  BY <1>1, <2>2 DEF SenderMoves, SenderOrder, Leaving, Below
<1>3. CASE JoinTx \/ StartTx
  <2>1. /\ txPc \in {"exited", "down"}
        /\ txPc' = "down" \/ (txPc' = "begin" /\ pktWritten' = 0)
    BY <1>3 DEF JoinTx, StartTx, SenderInv, SenderRuns
  <2>2. AtWork = {} /\ AtWork' = {} /\ Written = {} /\ Written' = {}
    BY <2>1 DEF AtWork, Written
  <2>3. InFrame = {} /\ InFrame' = {}
    BY <2>2 DEF InFrame, EndsIn
  <2> QED  BY <1>1, <2>2, <2>3 DEF SenderMoves, SenderOrder, Leaving, Below
<1> QED  BY <1>2, <1>3

\* What is on its way has been accepted.
LEMMA WayAccepted ==
    ASSUME LinkInv, Route
    PROVE  \A n \in Reached \cup Leaving : n \in 1 .. Len(accepted)
<1>1. /\ MadeOf(accepted, rxFrame) /\ MadeOf(accepted, frame)
      /\ rxStream # <<>> => MadeOf(accepted, rxStream[1])
      /\ txStream # <<>> => MadeOf(accepted, txStream[1])
  BY DEF LinkInv, SenderInv, SenderBytes, Arrived, ReceiverInv, RxTypeOK, TxInv, TxTypeOK
<1>2. \A n \in InHand \cup InStream(rxStream) : n \in 1 .. Len(accepted)
  <2>1. {o \in Offsets : o >= ResumeAt} \subseteq Offsets
    OBVIOUS
  <2> QED  BY <1>1, <2>1, EndsMade DEF InHand, InStream
<1>3. \A n \in InStream(txStream) \cup InFrame : n \in 1 .. Len(accepted)
  <2>1. Written \subseteq Offsets
    BY DEF Written
  <2> QED  BY <1>1, <2>1, EndsMade DEF InStream, InFrame
<1>4. \A n \in AtWork : n \in 1 .. Len(accepted)
  BY DEF AtWork, LinkInv, SenderInv, TxInv, TxTypeOK, Progress, NoPacket
<1>5. \A n \in InQueue : n \in 1 .. Len(accepted)
  BY DEF InQueue, LinkInv, SenderInv, TxInv, TxTypeOK
<1> QED  BY <1>2, <1>3, <1>4, <1>5 DEF Reached, Leaving, Route

\* A packet that send() takes is behind all others.
LEMMA SendRoute ==
    ASSUME LinkInv, Route, SendAccepted, UNCHANGED rxVars, UNCHANGED <<spliced, harmed>>
    PROVE  Route'
<1> DEFINE n == Len(accepted) + 1
<1>1. PICK s \in Sizes : accepted' = Append(accepted, s) /\ packets' = Append(packets, n)
  BY DEF SendAccepted
<1>2. /\ accepted \in Seq(Sizes) /\ Len(accepted) \in Nat /\ Len(accepted') = n
      /\ \A i \in 1 .. Len(accepted) : accepted'[i] = accepted[i]
  BY <1>1 DEF LinkInv, SenderInv, TxInv, TxTypeOK
<1>3. InQueue' = InQueue \cup {n}
  <2>1. packets \in Seq(1 .. Len(accepted)) /\ Len(packets) \in Nat
    BY DEF LinkInv, SenderInv, TxInv, TxTypeOK
  <2>2. /\ Len(packets') = Len(packets) + 1 /\ packets'[Len(packets) + 1] = n
        /\ \A i \in 1 .. Len(packets) : packets'[i] = packets[i]
    BY <1>1, <2>1
  <2>3. \A i : i \in 1 .. Len(packets) + 1 <=> i \in 1 .. Len(packets) \/ i = Len(packets) + 1
    BY <2>1
  <2> HIDE DEF n
  <2> QED  BY <2>2, <2>3 DEF InQueue
<1>4. UNCHANGED <<txStream, frame, frameOffset, pkt, pktWritten, txPc>>
  BY DEF SendAccepted, fillVars
<1>5. /\ InStream(txStream)' = InStream(txStream) /\ InFrame' = InFrame /\ AtWork' = AtWork
  BY <1>4 DEF InFrame, EndsIn, Written, AtWork
<1>6. /\ IntactIds' = IntactIds /\ InHand' = InHand
      /\ InStream(rxStream)' = InStream(rxStream)
  BY DEF rxVars, partial, cursor, IntactIds, InHand, EndsIn, ResumeAt
<1>7. Reached' = Reached /\ Leaving' = Leaving \cup {n}
  BY <1>3, <1>5, <1>6 DEF Reached, Leaving
<1>8. \A m \in Reached \cup Leaving : m < n
  BY <1>2, WayAccepted
<1>9. \A m : m \in 1 .. Len(accepted') <=> m \in 1 .. Len(accepted) \/ m = n
  BY <1>2
<1> HIDE DEF n
<1>10. ReceiverOrder' /\ IntactIds' \subseteq 1 .. Len(accepted')
  BY <1>6, <1>9 DEF Route, ReceiverOrder, Below
<1>11. SenderOrder'
  BY <1>3, <1>5, <1>8 DEF Route, SenderOrder, Below, Leaving
<1>12. Below(Reached, Leaving)'
  BY <1>7, <1>8 DEF Route, Below
<1>13. Coverage'
  BY <1>2, <1>7, <1>9 DEF Route, Coverage
<1> QED  BY <1>10, <1>11, <1>12, <1>13 DEF Route

\* What the sender moves stays on its way in order.
LEMMA SenderRoute ==
    ASSUME LinkInv, Route, TxPack \/ TxControl \/ TxAbandon
    PROVE  Route'
<1>1. SenderInv /\ SenderOrder
  BY DEF LinkInv, Route
<1>2. UNCHANGED rxVars /\ spliced' = spliced /\ harmed \subseteq harmed'
  BY DEF TxPack, TxControl, TxAbandon, ghosts
<1>3. CASE SendAccepted
  <2>1. harmed' = harmed
    BY <1>3 DEF SendAccepted, TxPack, TxControl, TxAbandon, ghosts, AbandonFrame
  <2> QED  BY <1>2, <1>3, <2>1, SendRoute
<1>4. CASE ~SendAccepted
  <2>1. SenderMoves
    BY <1>1, <1>4, FillMoves, EndMoves, ControlMoves DEF TxPack, TxControl, TxAbandon, ghosts
  <2>2. Reached' = Reached /\ ReceiverOrder' = ReceiverOrder /\ IntactIds' = IntactIds
    <3>1. /\ IntactIds' = IntactIds /\ InHand' = InHand
          /\ InStream(rxStream)' = InStream(rxStream)
      BY <1>2 DEF rxVars, partial, cursor, IntactIds, InHand, EndsIn, ResumeAt
    <3> QED  BY <3>1 DEF Reached, ReceiverOrder, Below
  <2>3. Below(Reached, Leaving)'
    BY <2>1, <2>2 DEF Route, SenderMoves, Below
  <2>4. Coverage'
    BY <1>2, <2>1, <2>2 DEF Route, Coverage, SenderMoves
  <2> QED  BY <2>1, <2>2, <2>3, <2>4 DEF Route, SenderMoves
<1> QED  BY <1>3, <1>4

\* A byte in the middle of a packet stands behind one of the same packet.
LEMMA JoinsSame ==
    ASSUME NEW c \in Cell, NEW d, Joins(c, d), Continues(d)
    PROVE  Open(c) /\ d.id = c.id
<1>1. Open(c)
  BY DEF Joins
<1>2. c.at + 1 \in Nat
  BY DEF Cell
<1>3. d = ByteOf(c.id, c.at + 1, c.size)
  BY <1>1, <1>2, CellFields DEF Joins
<1> QED  BY <1>1, <1>3 DEF ByteOf

\* While nothing else changes, what is harmed stays so.
LEMMA OwedStays ==
    ASSUME harmed \subseteq harmed'
    PROVE  \A c : Owed(c) => Owed(c)'
BY DEF Owed

\* The worker goes on with a packet it cut, and with no other.
LEMMA WorkerStillOwes ==
    ASSUME SenderInv, SenderOnly, WorkerOwes, harmed \subseteq harmed'
    PROVE  WorkerOwes'
<1>1. CASE SendAccepted
  BY <1>1 DEF SendAccepted, fillVars, WorkerOwes, AtHead, Owed
<1>2. CASE BeginFrame
  <2>1. /\ AtHead /\ AtHead' /\ UNCHANGED <<pkt, pktWritten>>
    BY <1>2 DEF BeginFrame, AtHead
  <2> QED  BY <2>1 DEF WorkerOwes
<1>3. CASE FillFrame
  <2>1. FillEffect
    BY <1>3, FillSender
  <2>2. txPc = "fill" /\ ~AtHead'
    BY <2>1 DEF FillEffect
  <2>3. CASE frameOffset # 0
    <3>1. frame'.content[0] = frame.content[0]
      BY <2>1, <2>3 DEF FillEffect
    <3> QED  BY <2>2, <2>3, <3>1 DEF WorkerOwes, AtHead, Owed
  <2>4. CASE frameOffset = 0 /\ pktWritten = 0
    BY <2>1, <2>2, <2>4 DEF FillEffect, WorkerOwes, Owed
  <2>5. CASE frameOffset = 0 /\ pktWritten # 0
    <3> DEFINE c == ByteOf(pkt, pktWritten, SizeOf(pkt))
               d == frame'.content[0]
    <3>1. Resumes(c) /\ pkt \in harmed
      BY <2>2, <2>5 DEF Resumes, WorkerOwes, AtHead
    <3>2. Joins(c, d)
      <4> HIDE DEF c, d
      <4>1. \A e : Resumes(e) => Joins(e, frame'.content[0])
        BY <2>1, <2>5 DEF FillEffect
      <4> QED  BY <3>1, <4>1 DEF d
    <3>3. /\ pktWritten \in Nat \ {0} /\ SizeOf(pkt) \in Nat
          /\ pktWritten < serializedSize(SizeOf(pkt))
      BY <2>5, SizeType DEF SenderInv, TxInv, TxTypeOK, Progress
    <3>4. d = ByteOf(pkt, pktWritten + 1, SizeOf(pkt))
      <4> HIDE DEF d
      <4> QED  BY <3>2, <3>3, BehindOpen
    <3>5. d.id = pkt
      <4> HIDE DEF d
      <4> QED  BY <3>4 DEF ByteOf
    <3> QED  BY <2>2, <3>1, <3>5 DEF WorkerOwes, Owed
  <2> QED  BY <2>3, <2>4, <2>5
<1>4. CASE AbandonFrame \/ JoinTx
  BY <1>4 DEF AbandonFrame, JoinTx, WorkerOwes, AtHead
<1>5. CASE StopTx
  BY <1>5 DEF StopTx, fillVars, WorkerOwes, AtHead, Owed
<1>6. CASE StartTx
  BY <1>6 DEF StartTx, WorkerOwes, AtHead
<1> QED  BY <1>1, <1>2, <1>3, <1>4, <1>5, <1>6 DEF SenderOnly

\* The receiver's parts of the invariant, when only others move.
LEMMA HandStays ==
    ASSUME ServiceInv, UNCHANGED <<rxPc, partial, cursor, tainted>>, harmed \subseteq harmed',
           HasFrame' = HasFrame
    PROVE  TailKnown' /\ Passed' /\ TaintedTurn'
<1> USE DEF ServiceInv, partial, cursor
<1>1. TailKnown'
  BY DEF TailKnown
<1>2. Passed'
  BY DEF Passed
<1>3. TaintedTurn'
  BY DEF TaintedTurn
<1> QED  BY <1>1, <1>2, <1>3

\* A step of the sender keeps the invariant.
LEMMA SenderServes ==
    ASSUME LinkInv, ServiceInv, TxPack \/ TxControl \/ TxAbandon
    PROVE  ServiceInv'
<1>1. SenderInv /\ ReceiverInv /\ Route /\ Severed
  BY DEF LinkInv, ServiceInv
<1>2. SenderOnly \/ SendFrame
  BY DEF TxPack, TxControl, TxAbandon, SenderOnly
<1>3. /\ UNCHANGED rxVars /\ UNCHANGED <<missed, tainted, spliced>> /\ harmed \subseteq harmed'
  BY DEF TxPack, TxControl, TxAbandon, ghosts
<1>4. Route'
  BY <1>1, SenderRoute
<1>5. HasFrame' = HasFrame
  BY <1>1, <1>3, ReceiverStays
<1>6. TailKnown' /\ Passed' /\ TaintedTurn'
  BY <1>3, <1>5, HandStays DEF rxVars
<1>7. Severed'
  <2>1. Linked' = Linked /\ rxStream' = rxStream
    BY <1>3, <1>5 DEF Linked, rxVars
  <2>2. \A c : Owed(c) => Owed(c)'
    BY <1>3, OwedStays
  <2>3. CASE SendFrame
    <3>1. txStream = <<>> /\ txStream' = <<frame>> /\ txPc = "send" /\ ~AtHead
      BY <2>3 DEF SendFrame, AtHead
    <3>2. txStream' # <<>> /\ txStream'[1] = frame
      BY <3>1
    <3>3. ~Linked /\ rxStream = <<>> => Owed(frame.content[0])
      BY <1>1, <3>1 DEF Severed, WorkerOwes
    <3> QED  BY <1>1, <2>1, <2>2, <3>2, <3>3 DEF Severed
  <2>4. CASE SenderOnly
    <3>1. txStream' = txStream
      BY <1>1, <2>4, FillSender DEF SenderOnly, SendAccepted, BeginFrame, AbandonFrame,
         StopTx, JoinTx, StartTx, FillEffect
    <3>2. WorkerOwes => WorkerOwes'
      BY <1>1, <1>3, <2>4, WorkerStillOwes
    <3> QED  BY <1>1, <2>1, <2>2, <3>1, <3>2 DEF Severed
  <2> QED  BY <1>2, <2>3, <2>4
<1> QED  BY <1>4, <1>6, <1>7 DEF ServiceInv

----------------------------------------------------------------------------
(* The physical layer. *)

\* After frame y is lost, the packet it breaks off is harmed.
LEMMA LostIsHarmed ==
    ASSUME SenderInv, NEW y \in Frame, MadeOf(accepted, y), MeetsWorker(y),
           harmed' = harmed \cup Ids(y.content), UNCHANGED <<apiVars, txPc, fillVars>>
    PROVE  WorkerOwes'
<1> DEFINE c == y.content[Last]
<1>1. Last \in Offsets /\ c \in Cell
  BY DEF Last, Offsets, Frame
<1>2. Open(c) => c.id \in harmed'
  BY <1>1 DEF Open, MadeOf, Made, Ids, NoPacket
<1>3. ASSUME AtHead, pktWritten # 0
      PROVE  pkt \in harmed'
  <2>1. c = ByteOf(pkt, pktWritten, SizeOf(pkt))
    BY <1>3 DEF MeetsWorker, Resumes
  <2>2. /\ pktWritten \in Nat \ {0} /\ SizeOf(pkt) \in Nat
        /\ pktWritten < serializedSize(SizeOf(pkt))
    BY <1>3, SizeType DEF SenderInv, TxInv, TxTypeOK, Progress
  <2> HIDE DEF c
  <2>3. Open(c) /\ c.id = pkt
    BY <2>1, <2>2, BehindOpen DEF ByteOf
  <2> QED  BY <1>2, <2>3
<1>4. ASSUME ~AtHead, txPc \in {"fill", "send"}, Continues(frame.content[0])
      PROVE  frame.content[0].id \in harmed'
  <2>1. Joins(c, frame.content[0])
    BY <1>4 DEF MeetsWorker, Meets
  <2> HIDE DEF c
  <2> QED  BY <1>1, <1>2, <1>4, <2>1, JoinsSame
<1>5. AtHead' = AtHead /\ UNCHANGED <<txPc, pkt, pktWritten, frame>>
  BY DEF AtHead, fillVars
<1> QED  BY <1>3, <1>4, <1>5 DEF WorkerOwes, Owed

\* So does a step of the physical layer: what a lost frame has is harmed.
LEMMA CarryServes ==
    ASSUME LinkInv, ServiceInv, CarryFrame \/ LoseFrame
    PROVE  ServiceInv'
<1>1. /\ SenderInv /\ Arrived /\ Seams /\ Ghosts /\ Route /\ Severed
      /\ txStream \in Seq(Frame) /\ Len(txStream) <= 1
  BY DEF LinkInv, ServiceInv, SenderInv, TxInv, TxTypeOK
<1>2. /\ txStream # <<>> /\ rxStream = <<>> /\ txStream' = <<>>
      /\ UNCHANGED <<apiVars, packets, txPc, fillVars, rxPc, partial, cursor, delivered,
                     spliced, tainted>>
      /\ harmed \subseteq harmed'
  BY DEF CarryFrame, LoseFrame, rxVars, ghosts
<1>3. Head(txStream) = txStream[1] /\ txStream[1] \in Frame
  BY <1>1, <1>2, OneInStream
<1>4. HasFrame' = HasFrame /\ accepted' = accepted
  BY <1>2 DEF HasFrame, live, cursor, apiVars
<1>5. TailKnown' /\ Passed' /\ TaintedTurn'
  BY <1>2, <1>4, HandStays
<1>6. /\ IntactIds' = IntactIds /\ InHand' = InHand
      /\ InFrame' = InFrame /\ AtWork' = AtWork /\ InQueue' = InQueue
  <2>1. IntactIds' = IntactIds
    BY <1>2 DEF IntactIds
  <2>2. InHand' = InHand
    BY <1>2 DEF partial, cursor, InHand, EndsIn, ResumeAt
  <2>3. InFrame' = InFrame /\ AtWork' = AtWork /\ InQueue' = InQueue
    BY <1>2 DEF fillVars, InFrame, EndsIn, Written, AtWork, InQueue
  <2> QED  BY <2>1, <2>2, <2>3
<1>7. InStream(rxStream) = {} /\ InStream(txStream)' = {}
  BY <1>2 DEF InStream
<1>8. CASE CarryFrame
  <2>1. rxStream' = txStream /\ harmed' = harmed /\ missed' = missed
    BY <1>8 DEF CarryFrame, ghosts
  <2>2. InStream(rxStream)' = InStream(txStream)
    BY <2>1 DEF InStream
  <2>3. Reached' \cup Leaving' = Reached \cup Leaving
    BY <1>6, <1>7, <2>2 DEF Reached, Leaving
  <2>4. ReceiverOrder' /\ SenderOrder' /\ Below(Reached, Leaving)'
    BY <1>1, <1>6, <1>7, <2>2
       DEF Route, ReceiverOrder, SenderOrder, Reached, Leaving, Below
  <2>5. Coverage' /\ IntactIds' \subseteq 1 .. Len(accepted')
    BY <1>1, <1>4, <1>6, <2>1, <2>3 DEF Route, Coverage
  <2>6. Severed'
    BY <1>1, <1>2, <1>4, <2>1 DEF Severed, Linked, Owed
  <2> QED  BY <1>5, <2>4, <2>5, <2>6 DEF ServiceInv, Route
<1>9. CASE LoseFrame
  <2>1. /\ rxStream' = <<>> /\ harmed' = harmed \cup Ids(txStream[1].content)
        /\ missed' = missed + 1
    BY <1>2, <1>3, <1>9 DEF LoseFrame, rxVars
  <2>2. MadeOf(accepted, txStream[1]) /\ MeetsWorker(txStream[1])
    BY <1>1, <1>2, OneInStream DEF SenderInv, SenderBytes, Seams
  <2>3. InStream(rxStream)' = {}
    BY <2>1 DEF InStream
  <2>4. \A n \in InStream(txStream) : n \in harmed'
    BY <1>2, <2>1, <2>2, EndsMade DEF InStream
  <2>5. ReceiverOrder' /\ SenderOrder' /\ Below(Reached, Leaving)'
    BY <1>1, <1>6, <1>7, <2>3
       DEF Route, ReceiverOrder, SenderOrder, Reached, Leaving, Below
  <2>6. Coverage' /\ IntactIds' \subseteq 1 .. Len(accepted')
    BY <1>1, <1>2, <1>4, <1>6, <1>7, <2>3, <2>4 DEF Route, Coverage, Reached, Leaving
  <2>7. Severed'
    <3>1. WorkerOwes'
      BY <1>1, <1>2, <1>3, <2>1, <2>2, LostIsHarmed
    <3> QED  BY <1>2, <2>1, <3>1 DEF Severed
  <2> QED  BY <1>5, <2>5, <2>6, <2>7 DEF ServiceInv, Route
<1> QED  BY <1>8, <1>9

----------------------------------------------------------------------------
(* The receiver's end of the way. *)

\* What the packet pointers say of a frame.
LEMMA PointersKnown ==
    ASSUME NEW f, WellFormed(f)
    PROVE  /\ f.firstPacket = PKT_OFFS_NONE => \A o \in Offsets : f.content[o].at # 1
           /\ f.firstPacket # PKT_OFFS_NONE =>
                 /\ f.firstPacket \in Offsets /\ IsHeader(f.content, f.firstPacket)
                 /\ \A o \in Offsets : o < f.firstPacket => f.content[o].at # 1
                 /\ \A o \in Offsets : f.lastPacket < o => f.content[o].at # 1
<1>1. \A o \in Offsets : o \in Starts(f) <=> f.content[o].at = 1
  BY DEF Starts
<1>2. PKT_OFFS_NONE \notin Offsets
  BY DEF Offsets
<1>3. CASE Starts(f) = {}
  BY <1>1, <1>3 DEF WellFormed
<1>4. CASE Starts(f) # {}
  <2>1. /\ f.firstPacket \in Starts(f) /\ f.lastPacket \in Starts(f)
        /\ \A o \in Starts(f) : f.firstPacket <= o /\ o <= f.lastPacket
        /\ IsHeader(f.content, f.firstPacket)
    BY <1>4 DEF WellFormed
  <2>2. /\ f.firstPacket \in Offsets /\ f.lastPacket \in Offsets
        /\ f.firstPacket # PKT_OFFS_NONE
    BY <1>2, <2>1 DEF Starts
  <2>3. \A o \in Offsets : o < f.firstPacket => f.content[o].at # 1
    BY <1>1, <2>1, <2>2 DEF Offsets
  <2>4. \A o \in Offsets : f.lastPacket < o => f.content[o].at # 1
    BY <1>1, <2>1, <2>2 DEF Offsets
  <2> QED  BY <2>1, <2>2, <2>3, <2>4
<1> QED  BY <1>3, <1>4

\* In front of the first packet that starts lies the rest of one packet.
LEMMA BeforeStart ==
    ASSUME NEW f \in Frame, WellFormed(f), NEW sizes, MadeOf(sizes, f), NEW o \in Offsets,
           \A x \in Offsets : x <= o => f.content[x].at # 1, f.content[o] # Noise
    PROVE  Continues(f.content[0]) /\ f.content[o].id = f.content[0].id
<1>1. 0 \in Offsets /\ 0 <= o
  BY DEF Offsets
<1>2. f.content[0] # Noise
  BY <1>1, RestIsNoise
<1>3. f.content[0].at \in Nat /\ f.content[0].at # 1 /\ f.content[0].at >= 1
  <2>1. f.content[0].at \in 1 .. serializedSize(f.content[0].size) /\ f.content[0] \in Cell
    BY <1>1, <1>2 DEF MadeOf, Made, Frame
  <2> QED  BY <1>1, <2>1 DEF Cell
<1>4. f.content[o].id = f.content[0].id
  BY <1>1, NoStartSame
<1> QED  BY <1>3, <1>4 DEF Continues

\* The receiver handed packets over, or passed over harmed ones.
ReceiverMoves ==
    /\ ReceiverOrder' /\ Reached' \subseteq Reached
    /\ \A n \in Reached \ Reached' : n \in harmed'

\* What the receiver moves stays on its way in order.
LEMMA ReceiverRoute ==
    ASSUME LinkInv, Route, UNCHANGED txVars, harmed \subseteq harmed', ReceiverMoves
    PROVE  Route'
<1>1. accepted' = accepted /\ Leaving' = Leaving /\ SenderOrder' = SenderOrder
  <2>1. /\ InStream(txStream)' = InStream(txStream) /\ InFrame' = InFrame
        /\ AtWork' = AtWork /\ InQueue' = InQueue /\ accepted' = accepted
    BY DEF txVars, apiVars, fillVars, InFrame, EndsIn, Written, AtWork, InQueue
  <2> QED  BY <2>1 DEF Leaving, SenderOrder, Below
<1>2. Below(Reached, Leaving)'
  BY <1>1 DEF Route, ReceiverMoves, Below
<1>3. Coverage'
  BY <1>1 DEF Route, ReceiverMoves, Coverage
<1>4. IntactIds' \subseteq 1 .. Len(accepted')
  <2>1. IntactIds' \subseteq Reached'
    BY DEF Reached
  <2> QED  BY <1>1, <2>1, WayAccepted DEF ReceiverMoves
<1> QED  BY <1>1, <1>2, <1>3, <1>4 DEF Route, ReceiverMoves

\* Where the receiver holds on to its frame, nothing is severed anew.
LEMMA SeveredStays ==
    ASSUME Severed, UNCHANGED txVars, rxStream' = rxStream, harmed \subseteq harmed',
           Linked => Linked'
    PROVE  Severed'
<1>1. \A c : Owed(c) => Owed(c)'
  BY OwedStays
<1>2. WorkerOwes => WorkerOwes'
  BY <1>1 DEF WorkerOwes, AtHead, Owed, txVars, fillVars
<1>3. txStream' = txStream
  BY DEF txVars
<1> QED  BY <1>1, <1>2, <1>3 DEF Severed

(***************************************************************************)
(* Reading a frame: unless it goes on with a partial packet, the rest of a *)
(* packet at its beginning belongs to a harmed one.                        *)
(***************************************************************************)
LEMMA TakeOwes ==
    ASSUME LinkInv, ServiceInv, RxTake, pktExpected' = 0
    PROVE  Owed(rxStream[1].content[0])
<1> DEFINE x == rxStream[1]
           c == rxFrame.content[Last]
<1>1. /\ ReceiverInv /\ Arrived /\ Seams /\ Severed /\ TailKnown
      /\ rxStream # <<>> /\ Head(rxStream) = x /\ rxPc = "read" /\ rxFrame \in Frame
  <2>1. CanRead /\ ReceiverInv
    BY DEF RxTake, ReadConsecutive, ReadAfterLoss, TakeFrame, LinkInv
  <2> QED  BY <2>1, OneInStream DEF LinkInv, ServiceInv, CanRead, ReceiverInv, RxTypeOK
<1> HIDE DEF x
<1>2. CASE ~Linked
  BY <1>1, <1>2 DEF Severed, x
<1>3. CASE Linked /\ rxFrame.epoch # x.epoch
  BY <1>1, <1>3 DEF Seams, Meets, Owed, x
<1>4. CASE Linked /\ rxFrame.epoch = x.epoch
  <2>1. /\ Joins(c, x.content[0]) /\ HasFrame
        /\ x.counter = (rxFrame.counter + 1) % CounterMod /\ rxFrame.counter = lastCounter
    BY <1>1, <1>4 DEF Seams, Meets, Linked, Arrived, x
  <2>2. pktExpected = 0
    BY <1>1, <2>1 DEF RxTake, ReadConsecutive, ReadAfterLoss, expectedCounter, partial, x
  <2>3. Last \in Offsets /\ c \in Cell
    BY <1>1 DEF Last, Offsets, Frame
  <2> SUFFICES ASSUME Continues(x.content[0]) PROVE x.content[0].id \in harmed
    BY DEF Owed, x
  <2>4. Open(c) /\ x.content[0].id = c.id
    <3> HIDE DEF c
    <3> QED  BY <2>1, <2>3, JoinsSame
  <2> QED  BY <1>1, <2>1, <2>2, <2>4 DEF TailKnown
<1> QED  BY <1>2, <1>3, <1>4

\* Taking a frame keeps the invariant.
LEMMA TakeServes ==
    ASSUME LinkInv, ServiceInv, RxTake
    PROVE  ServiceInv'
<1> DEFINE x == rxStream[1]
<1>1. /\ ReceiverInv /\ Arrived /\ Seams /\ SenderInv /\ Route /\ Severed
  BY DEF LinkInv, ServiceInv
<1>2. /\ WellFormed(x) /\ x \in Frame /\ rxFrame' = x /\ rxStream # <<>> /\ Head(rxStream) = x
      /\ rxStream' = <<>> /\ MadeOf(accepted, x) /\ rxPc' \in {"read", "extract"}
  <2>1. CanRead /\ rxStream' = <<>>
    BY DEF RxTake, ReadConsecutive, ReadAfterLoss, TakeFrame
  <2>2. rxStream # <<>> /\ Len(rxStream) <= 1 /\ rxStream \in Seq(Frame)
    BY <1>1, <2>1 DEF CanRead, ReceiverInv, RxTypeOK
  <2>3. rxStream[1] \in Frame /\ Len(rxStream) = 1 /\ Head(rxStream) = rxStream[1]
    BY <2>2, OneInStream
  <2>4. rxFrame' = rxStream[1] /\ rxPc' \in {"read", "extract"}
    BY <1>1, TakeFrames
  <2>5. WellFormed(rxStream[1]) /\ MadeOf(accepted, rxStream[1])
    BY <1>1, <2>3 DEF Arrived
  <2> QED  BY <2>1, <2>2, <2>3, <2>4, <2>5
<1>3. /\ rxPc = "read" /\ missed' = 0 /\ UNCHANGED txVars /\ UNCHANGED <<delivered, spliced, harmed>>
      /\ tainted' = (pktExpected' # 0 /\ (tainted \/ Unnoticed))
  BY DEF RxTake, ReadConsecutive, ReadAfterLoss, TakeFrame, CanRead
<1> HIDE DEF x
<1>4. \/ /\ pktExpected' # 0 /\ BeginExtract(0)
      \/ /\ pktExpected' = 0 /\ SkipFrame /\ x.firstPacket = PKT_OFFS_NONE
      \/ /\ pktExpected' = 0 /\ x.firstPacket # PKT_OFFS_NONE
         /\ BeginExtract(0) \/ BeginExtract(x.firstPacket)
  <2>1. x.firstPacket > FRAME_DATA_SIZE - HEADER => x.firstPacket = PKT_OFFS_NONE
    <3>1. x.firstPacket # PKT_OFFS_NONE =>
             x.firstPacket \in Offsets /\ x.firstPacket + 1 \in Offsets
      BY <1>2, PointersKnown DEF IsHeader
    <3> QED  BY <3>1 DEF Offsets
  <2> QED  BY <1>2, <2>1 DEF RxTake, ReadConsecutive, ReadAfterLoss, partial
<1>5. pktExpected' = 0 => Owed(x.content[0])
  BY TakeOwes DEF x
<1>6. pktExpected' = 0 =>
        \A o \in Offsets : /\ x.content[o] # Noise
                           /\ \/ x.firstPacket = PKT_OFFS_NONE
                              \/ o < x.firstPacket
                           => x.content[o].id \in harmed
  <2> SUFFICES ASSUME pktExpected' = 0, NEW o \in Offsets, x.content[o] # Noise,
                      x.firstPacket = PKT_OFFS_NONE \/ o < x.firstPacket
               PROVE  x.content[o].id \in harmed
    OBVIOUS
  <2>1. \A y \in Offsets : y <= o => x.content[y].at # 1
    <3>1. CASE x.firstPacket = PKT_OFFS_NONE
      BY <1>2, <3>1, PointersKnown
    <3>2. CASE x.firstPacket # PKT_OFFS_NONE
      BY <1>2, <3>2, PointersKnown DEF Offsets
    <3> QED  BY <3>1, <3>2
  <2>2. Continues(x.content[0]) /\ x.content[o].id = x.content[0].id
    BY <1>2, <2>1, BeforeStart
  <2> QED  BY <1>5, <2>2 DEF Owed
<1>7. ~Closes(Noise) /\ ~Open(Noise)
  BY DEF Closes, Open, Noise, serializedSize
<1>8. /\ IntactIds' = IntactIds /\ InHand = {} /\ InStream(rxStream)' = {}
      /\ InStream(rxStream) = EndsIn(x, Offsets)
  BY <1>2, <1>3 DEF IntactIds, InHand, InStream, x
<1>9. /\ InHand' \subseteq EndsIn(x, Offsets)
      /\ \A n \in EndsIn(x, Offsets) : n \in InHand' \/ n \in harmed
  <2>1. CASE pktExpected' # 0 /\ BeginExtract(0)
    <3>1. rxPc' = "extract" /\ ResumeAt' = 0
      BY <2>1 DEF BeginExtract, ResumeAt
    <3>2. {o \in Offsets : o >= 0} = Offsets
      BY DEF Offsets
    <3> QED  BY <1>2, <3>1, <3>2 DEF InHand
  <2>2. CASE pktExpected' = 0 /\ SkipFrame /\ x.firstPacket = PKT_OFFS_NONE
    <3>1. InHand' = {}
      BY <2>2 DEF SkipFrame, InHand
    <3> QED  BY <1>6, <1>7, <2>2, <3>1 DEF EndsIn
  <2>3. CASE /\ pktExpected' = 0 /\ x.firstPacket # PKT_OFFS_NONE
             /\ BeginExtract(0) \/ BeginExtract(x.firstPacket)
    <3>1. rxPc' = "extract" /\ ResumeAt' = x.firstPacket
      BY <1>2, <2>3 DEF BeginExtract, ResumeAt
    <3>2. InHand' = EndsIn(x, {o \in Offsets : o >= x.firstPacket})
      BY <1>2, <3>1 DEF InHand
    <3>3. \A o \in Offsets : o >= x.firstPacket \/ o < x.firstPacket
      BY <1>2, <2>3, PointersKnown DEF Offsets
    <3> QED  BY <1>6, <1>7, <2>3, <3>2, <3>3 DEF EndsIn
  <2> QED  BY <1>4, <2>1, <2>2, <2>3
<1>10. Route'
  <2>1. ReceiverMoves
    BY <1>1, <1>3, <1>8, <1>9 DEF ReceiverMoves, Route, ReceiverOrder, Below, Reached
  <2> QED  BY <1>1, <1>3, <2>1, ReceiverRoute
<1>11. Severed'
  BY <1>2, <1>3 DEF Severed, Linked, HasFrame, live
<1>12. TailKnown'
  <2> SUFFICES ASSUME rxPc' = "read", Open(x.content[Last])
               PROVE  x.content[Last].id \in harmed'
    BY <1>2 DEF TailKnown
  <2>1. pktExpected' = 0 /\ x.firstPacket = PKT_OFFS_NONE
    BY <1>4 DEF BeginExtract
  <2>2. Last \in Offsets
    BY DEF Last, Offsets
  <2> QED  BY <1>3, <1>6, <1>7, <2>1, <2>2
<1>13. Passed'
  <2> SUFFICES ASSUME rxPc' = "extract", pktExpected' = 0, frameRead' # x.firstPacket,
                      NEW o \in 0 .. frameRead', o < frameRead' \/ x.content[o].at # 1
               PROVE  x.content[o].id \in harmed \cup {NoPacket}
    BY <1>2, <1>3 DEF Passed
  <2>1. frameRead' = 0
    BY <1>4 DEF BeginExtract, SkipFrame
  <2>2. o = 0 /\ 0 \in Offsets
    BY <2>1 DEF Offsets
  <2>3. x.content[0] = Noise \/ Continues(x.content[0])
    BY <1>2, <2>1, <2>2 DEF MadeOf, Made, Continues
  <2> QED  BY <1>5, <2>2, <2>3 DEF Owed, Noise, NoPacket
<1>14. TaintedTurn'
  BY <1>3, <1>4 DEF TaintedTurn, BeginExtract
<1> QED  BY <1>10, <1>11, <1>12, <1>13, <1>14 DEF ServiceInv

\* A turn of the extraction loop: the frame stays in the receiver's hand.
LEMMA TurnLinks ==
    ASSUME ServiceInv, rxPc = "extract", rxPc' \in {"read", "extract"}, harmed \subseteq harmed',
           UNCHANGED txVars, UNCHANGED <<rxFrame, rxStream, missed>>
    PROVE  /\ Severed' /\ HasFrame' = HasFrame
           /\ InStream(rxStream)' = InStream(rxStream)
<1>1. HasFrame' = HasFrame /\ Linked' = Linked
  BY DEF HasFrame, live, Linked
<1>2. InStream(rxStream)' = InStream(rxStream)
  OBVIOUS
<1> QED  BY <1>1, <1>2, SeveredStays DEF ServiceInv

\* So does skipping the rest of a frame, in which no packet ends.
LEMMA SkipServes ==
    ASSUME LinkInv, ServiceInv, SkipRest, UNCHANGED txVars, UNCHANGED ghosts
    PROVE  ServiceInv'
<1> DEFINE f == rxFrame
<1>1. /\ ReceiverInv /\ Route /\ Passed /\ MadeOf(accepted, f) /\ f \in Frame
      /\ rxPc = "extract" /\ pktExpected = 0 /\ ~tainted /\ WellFormed(f)
      /\ frameRead \in Nat /\ frameRead < FRAME_DATA_SIZE
      /\ FRAME_DATA_SIZE - frameRead < HEADER
  BY DEF LinkInv, ServiceInv, ReceiverInv, RxTypeOK, Cursor, Partial, Arrived, SkipRest
<1>2. /\ UNCHANGED <<rxFrame, rxStream, delivered, pktExpected, missed, tainted, spliced, harmed>>
      /\ rxPc' = "read"
  BY DEF SkipRest, ghosts
<1>3. frameRead = Last /\ Last \in Offsets /\ Last + 1 \notin Offsets
  BY <1>1 DEF Last, Offsets
<1>4. f.content[Last].at # 1
  <2>1. \A o \in Offsets : f.content[o].at = 1 => o + 1 \in Offsets
    BY <1>1 DEF WellFormed, Starts, IsHeader
  <2> QED  BY <1>3, <2>1
<1>5. firstPacket /\ f.firstPacket # PKT_OFFS_NONE /\ frameRead # f.firstPacket
  <2>1. firstPacket /\ f.firstPacket # PKT_OFFS_NONE
    BY <1>1, <1>3, <1>4 DEF ReceiverInv, Cursor
  <2>2. f.firstPacket + 1 \in Offsets
    BY <1>1, <2>1, PointersKnown DEF IsHeader
  <2> QED  BY <1>3, <2>1, <2>2
<1>6. \A o \in Offsets : f.content[o].id \in harmed \cup {NoPacket}
  <2>1. \A o \in 0 .. frameRead :
          o < frameRead \/ f.content[o].at # 1 => f.content[o].id \in harmed \cup {NoPacket}
    BY <1>1, <1>5 DEF Passed
  <2>2. \A o \in Offsets : o \in 0 .. frameRead /\ (o < frameRead \/ o = Last)
    BY <1>3 DEF Last, Offsets
  <2> QED  BY <1>4, <2>1, <2>2
<1> HIDE DEF f
<1>7. \A n \in InHand : n \in harmed
  <2>1. \A n \in InHand : n # NoPacket
    <3>1. {o \in Offsets : o >= ResumeAt} \subseteq Offsets
      OBVIOUS
    <3> QED  BY <1>1, <3>1, EndsMade DEF InHand, f
  <2> QED  BY <1>6, <2>1 DEF InHand, EndsIn, f
<1>8. InHand' = {} /\ IntactIds' = IntactIds
  BY <1>2 DEF InHand, IntactIds
<1>9. Severed' /\ InStream(rxStream)' = InStream(rxStream)
  BY <1>1, <1>2, TurnLinks
<1>10. Route'
  <2>1. ReceiverMoves
    BY <1>1, <1>2, <1>7, <1>8, <1>9 DEF ReceiverMoves, Route, ReceiverOrder, Below, Reached
  <2> QED  BY <1>1, <1>2, <2>1, ReceiverRoute
<1>11. TailKnown'
  <2>1. Open(f.content[Last]) => f.content[Last].id # NoPacket
    BY <1>1, <1>3 DEF Open, MadeOf, Made, NoPacket, f
  <2> QED  BY <1>2, <1>3, <1>6, <2>1 DEF TailKnown, f
<1>12. Passed' /\ TaintedTurn'
  BY <1>2 DEF Passed, TaintedTurn
<1> QED  BY <1>9, <1>10, <1>11, <1>12 DEF ServiceInv

\* So does parsing a size.
LEMMA ParseServes ==
    ASSUME LinkInv, ServiceInv, ParseHeader, UNCHANGED txVars, UNCHANGED ghosts
    PROVE  ServiceInv'
<1> DEFINE f == rxFrame
           h == HeaderAt
<1>1. /\ ReceiverInv /\ Route /\ MadeOf(accepted, f) /\ f \in Frame
      /\ rxPc = "extract" /\ pktExpected = 0 /\ ~tainted /\ WellFormed(f)
      /\ IsHeader(f.content, h)
  BY HeaderAligned DEF LinkInv, ServiceInv, ReceiverInv, RxTypeOK, Cursor, Partial, Arrived,
     ParseHeader, CanParse
<1>2. /\ UNCHANGED <<rxFrame, rxStream, delivered, missed, tainted, spliced, harmed>>
      /\ rxPc' = (IF h + HEADER < FRAME_DATA_SIZE THEN "extract" ELSE "read")
      /\ frameRead' = h + HEADER /\ firstPacket' = FALSE
      /\ pktExpected' = f.content[h].size
  BY <1>1 DEF ParseHeader, NextTurn, ParsedSizes, ghosts
<1>3. h = ResumeAt
  BY <1>1 DEF HeaderAt, ResumeAt
<1>4. h \in Nat /\ h \in Offsets /\ h + 1 \in Offsets
  <2>1. h \in Nat
    <3>1. CASE firstPacket
      <4>1. f.firstPacket \in PacketOffset
        BY <1>1 DEF Frame
      <4> QED  BY <3>1, <4>1 DEF HeaderAt, PacketOffset, Offsets
    <3>2. CASE ~firstPacket
      BY <1>1, <3>2 DEF HeaderAt, ReceiverInv, RxTypeOK
    <3> QED  BY <3>1, <3>2
  <2> QED  BY <1>1, <2>1 DEF IsHeader, Offsets
<1> HIDE DEF h
<1>5. /\ f.content[h].at = 1 /\ f.content[h + 1].at = 2
      /\ f.content[h].size \in Nat \ {0} /\ f.content[h + 1].size = f.content[h].size
  <2>1. f.content[h] \in Cell
    BY <1>1, <1>4 DEF Frame
  <2>2. f.content[h].at = 1 /\ f.content[h + 1] = [f.content[h] EXCEPT !.at = 2]
    BY <1>1 DEF IsHeader
  <2>3. f.content[h + 1] = ByteOf(f.content[h].id, 2, f.content[h].size)
    BY <2>1, <2>2, CellFields
  <2>4. f.content[h].size # 0
    BY <1>1, <1>4, <2>2 DEF MadeOf, Made, Noise
  <2>5. f.content[h].size \in Nat
    BY <2>1 DEF Cell
  <2> QED  BY <2>2, <2>3, <2>4, <2>5 DEF ByteOf
<1>6. ~Closes(f.content[h]) /\ ~Closes(f.content[h + 1])
  BY <1>5 DEF Closes, serializedSize
<1>7. \A o \in Offsets : o >= h <=> o = h \/ o = h + 1 \/ o >= h + HEADER
  BY <1>4 DEF Offsets
<1>8. EndsIn(f, {o \in Offsets : o >= h}) = EndsIn(f, {o \in Offsets : o >= h + HEADER})
  BY <1>6, <1>7 DEF EndsIn
<1>9. InHand' = InHand
  <2>1. InHand = EndsIn(f, {o \in Offsets : o >= h})
    BY <1>1, <1>3 DEF InHand
  <2>2. ResumeAt' = h + HEADER
    BY <1>2 DEF ResumeAt
  <2>3. CASE h + HEADER < FRAME_DATA_SIZE
    BY <1>2, <1>8, <2>1, <2>2, <2>3 DEF InHand
  <2>4. CASE ~(h + HEADER < FRAME_DATA_SIZE)
    <3>1. {o \in Offsets : o >= h + HEADER} = {}
      BY <1>4, <2>4 DEF Offsets
    <3>2. EndsIn(f, {}) = {}
      BY DEF EndsIn
    <3>3. InHand' = {}
      BY <1>2, <2>4 DEF InHand
    <3> QED  BY <1>8, <2>1, <3>1, <3>2, <3>3
  <2> QED  BY <2>3, <2>4
<1>10. Severed' /\ InStream(rxStream)' = InStream(rxStream)
  BY <1>1, <1>2, TurnLinks
<1>11. Route'
  <2>1. ReceiverMoves
    BY <1>1, <1>2, <1>9, <1>10 DEF IntactIds, ReceiverMoves, Route, ReceiverOrder, Below, Reached
  <2> QED  BY <1>1, <1>2, <2>1, ReceiverRoute
<1>12. TailKnown'
  BY <1>1, <1>2, <1>5 DEF TailKnown
<1>13. Passed' /\ TaintedTurn'
  BY <1>1, <1>2 DEF Passed, TaintedTurn
<1> QED  BY <1>10, <1>11, <1>12, <1>13 DEF ServiceInv

\* The packets with a byte in a stretch that is copied into a tainted packet.
LEMMA CopiedHarmed ==
    ASSUME ReceiverInv, rxPc = "extract", pktExpected # 0, tainted,
           harmed' = harmed \cup (Copied \ {NoPacket}),
           NEW o \in Offsets, frameRead <= o, o < frameRead + Readable,
           rxFrame.content[o].id # NoPacket
    PROVE  rxFrame.content[o].id \in harmed'
<1>1. o \in frameRead .. frameRead + Readable - 1
  <2>1. frameRead \in Nat /\ Readable \in Nat
    BY ReadableBounds DEF ReceiverInv, Cursor
  <2> QED  BY <2>1 DEF Offsets
<1> QED  BY <1>1 DEF Copied

\* So does copying the rest of a frame, in which the packet does not end.
LEMMA CopyServes ==
    ASSUME LinkInv, ServiceInv, RxCopy
    PROVE  ServiceInv'
<1> DEFINE f == rxFrame
           n == Readable
<1>1. /\ ReceiverInv /\ Route /\ MadeOf(accepted, f) /\ f \in Frame
      /\ rxPc = "extract" /\ pktExpected # 0 /\ WellFormed(f)
      /\ frameRead < FRAME_DATA_SIZE /\ RxTypeOK /\ Partial
  BY DEF LinkInv, ServiceInv, ReceiverInv, RxTypeOK, Cursor, Arrived, RxCopy, CopyPart
<1>2. /\ UNCHANGED <<rxFrame, rxStream, delivered, pktExpected, missed, tainted, spliced>>
      /\ UNCHANGED txVars /\ harmed' = harmed \cup (Copied \ {NoPacket})
      /\ pktRead + n < pktExpected
  BY DEF RxCopy, CopyPart
<1>3. frameRead' = FRAME_DATA_SIZE /\ rxPc' = "read"
  BY <1>1, CopyInv DEF RxCopy
<1>4. n \in Nat /\ frameRead + n = FRAME_DATA_SIZE /\ pktRead \in Nat /\ frameRead \in Nat
      /\ pktExpected \in Nat
  <2>1. pktExpected \in Nat
    BY <1>1 DEF RxTypeOK
  <2>2. n \in Nat /\ pktRead \in Nat /\ frameRead \in Nat
        /\ (frameRead + n = FRAME_DATA_SIZE \/ pktRead + n = pktExpected)
    BY <1>1, ReadableBounds
  <2> QED  BY <1>2, <2>1, <2>2
<1> HIDE DEF n
<1>5. InHand = EndsIn(f, {o \in Offsets : o >= frameRead}) /\ InHand' = {}
  BY <1>1, <1>3 DEF InHand, ResumeAt
<1>6. tainted => \A o \in Offsets : /\ o >= frameRead /\ f.content[o].id # NoPacket
                                    => f.content[o].id \in harmed'
  BY <1>1, <1>2, <1>4, CopiedHarmed DEF n, Offsets
<1>7. ~tainted => \A o \in Offsets : o >= frameRead => ~Closes(f.content[o])
  <2> SUFFICES ASSUME ~tainted, NEW o \in Offsets, o >= frameRead
               PROVE  ~Closes(f.content[o])
    OBVIOUS
  <2> DEFINE k == pktRead + HEADER + 1
             p == f.content[frameRead].id
             d == o - frameRead
  <2>1. f.content[frameRead] = ByteOf(p, k, pktExpected)
    BY <1>1 DEF ReceiverInv, Prefix, Expects
  <2>2. /\ k \in Nat \ {0} /\ p \in Nat /\ frameRead \in Offsets
        /\ k + d \in Nat \ {0} /\ k + d < serializedSize(pktExpected)
        /\ k + (o - frameRead) <= serializedSize(pktExpected)
    <3>1. frameRead \in Offsets
      BY <1>1, <1>4 DEF Offsets
    <3>2. p \in Nat
      BY <1>1, <3>1 DEF Frame, Cell
    <3> HIDE DEF p
    <3> QED  BY <1>2, <1>4, <3>1, <3>2 DEF Offsets, serializedSize
  <2> HIDE DEF k, p
  <2>3. f.content[o] = ByteOf(p, k + (o - frameRead), pktExpected)
    <3>1. f \in Frame /\ WellFormed(f) /\ frameRead <= o /\ pktExpected \in Nat
      BY <1>1, <1>4 DEF Offsets
    <3> HIDE DEF f
    <3> QED  BY <2>1, <2>2, <3>1, RunOfPacket
  <2>4. f.content[o].at = k + d /\ f.content[o].size = pktExpected
    BY <2>2, <2>3, ByteFields
  <2> HIDE DEF d
  <2> QED  BY <1>4, <2>2, <2>4 DEF Closes, serializedSize
<1>8. \A m \in InHand : m \in harmed'
  <2>1. \A m \in InHand : m # NoPacket
    <3>1. {o \in Offsets : o >= frameRead} \subseteq Offsets
      OBVIOUS
    <3> QED  BY <1>1, <1>5, <3>1, EndsMade
  <2> QED  BY <1>5, <1>6, <1>7, <2>1 DEF EndsIn
<1>9. IntactIds' = IntactIds /\ harmed \subseteq harmed'
  BY <1>2 DEF IntactIds
<1>10. Severed' /\ InStream(rxStream)' = InStream(rxStream)
  BY <1>1, <1>2, <1>3, <1>9, TurnLinks
<1>11. Route'
  <2>1. ReceiverMoves
    BY <1>1, <1>5, <1>8, <1>9, <1>10 DEF ReceiverMoves, Route, ReceiverOrder, Below, Reached
  <2> QED  BY <1>1, <1>2, <1>9, <2>1, ReceiverRoute
<1>12. TailKnown'
  <2>1. Last \in Offsets /\ Last >= frameRead
    BY <1>1, <1>4 DEF Last, Offsets
  <2>2. Open(f.content[Last]) => f.content[Last].id # NoPacket
    BY <1>1, <2>1 DEF Open, MadeOf, Made, NoPacket
  <2> QED  BY <1>1, <1>2, <1>6, <2>1, <2>2 DEF TailKnown
<1>13. Passed' /\ TaintedTurn'
  BY <1>3 DEF Passed, TaintedTurn
<1> QED  BY <1>10, <1>11, <1>12, <1>13 DEF ServiceInv

\* What a packet that is handed over adds to the intact ones.
LEMMA HandedOver ==
    ASSUME delivered \in Seq(Seq(Cell)), spliced \subseteq 1 .. Len(delivered),
           NEW b, delivered' = Append(delivered, b),
           spliced' = IF tainted THEN spliced \cup {Len(delivered) + 1} ELSE spliced
    PROVE  IntactIds' = IF tainted THEN IntactIds ELSE IntactIds \cup {b[1].id}
<1> DEFINE n == Len(delivered) + 1
<1>1. /\ Len(delivered) \in Nat /\ Len(delivered') = n /\ delivered'[n] = b
      /\ \A i \in 1 .. Len(delivered) : delivered'[i] = delivered[i]
      /\ DOMAIN delivered = 1 .. Len(delivered) /\ DOMAIN delivered' = 1 .. n
  OBVIOUS
<1>2. /\ \A i : i \in 1 .. n <=> i \in 1 .. Len(delivered) \/ i = n
      /\ n \notin 1 .. Len(delivered)
  BY <1>1
<1> HIDE DEF n
<1>3. CASE tainted
  <2>1. \A i : i \in DOMAIN delivered' \ spliced' <=> i \in DOMAIN delivered \ spliced
    BY <1>1, <1>2, <1>3 DEF n
  <2> QED  BY <1>1, <1>3, <2>1 DEF IntactIds
<1>4. CASE ~tainted
  <2>1. \A i : i \in DOMAIN delivered' \ spliced' <=> i \in DOMAIN delivered \ spliced \/ i = n
    BY <1>1, <1>2, <1>4 DEF n
  <2> QED  BY <1>1, <1>4, <2>1 DEF IntactIds
<1> QED  BY <1>3, <1>4

\* Behind a packet that ends in a frame comes another, or noise to the end.
LEMMA AfterEnd ==
    ASSUME NEW f \in Frame, WellFormed(f), NEW e \in Offsets, e > 0, Closes(f.content[e - 1]),
           f.content[e].at # 1, NEW o \in Offsets, o >= e
    PROVE  f.content[o] = Noise
<1> DEFINE c == f.content[e - 1]
           p == c.id
           k == c.at
           s == c.size
<1>1. e - 1 \in Offsets /\ c \in Cell /\ Follows(c, f.content[e])
  BY DEF Offsets, Frame, WellFormed
<1>2. c = ByteOf(p, k, s) /\ k \in Nat \ {0} /\ s \in Nat /\ k >= serializedSize(s)
  BY <1>1, CellFields DEF Cell, Closes, serializedSize
<1> HIDE DEF c, p, k, s
<1>3. f.content[e] = Noise
  BY <1>1, <1>2, BehindClosed
<1> QED  BY <1>3, RestIsNoise DEF Offsets

\* What the receiver does when it finishes a packet.
LEMMA FinishFacts ==
    ASSUME LinkInv, RxFinish
    PROVE  /\ ReceiverInv /\ RxTypeOK /\ Cursor /\ Partial /\ MadeOf(accepted, rxFrame)
           /\ rxFrame \in Frame /\ WellFormed(rxFrame) /\ rxPc = "extract" /\ pktExpected # 0
           /\ pktExpected' = 0 /\ ~tainted' /\ rxPc' \in {"read", "extract"}
           /\ UNCHANGED txVars
           /\ UNCHANGED <<rxFrame, rxStream, missed, firstPacket, lastPacket>>
           /\ harmed' = harmed \cup (Copied \ {NoPacket}) /\ harmed \subseteq harmed'
           /\ Readable \in Nat /\ Readable >= 1 /\ frameRead + Readable <= FRAME_DATA_SIZE
           /\ pktRead + Readable = pktExpected /\ frameRead \in Nat /\ pktRead \in Nat
           /\ pktExpected \in Nat /\ frameRead < FRAME_DATA_SIZE /\ frameRead \in Offsets
           /\ \/ /\ lastPacket \/ rxFrame.firstPacket = PKT_OFFS_NONE
                 /\ frameRead' = FRAME_DATA_SIZE
              \/ /\ ~lastPacket /\ rxFrame.firstPacket # PKT_OFFS_NONE
                 /\ frameRead' = frameRead + Readable
           /\ rxPc' = IF frameRead' < FRAME_DATA_SIZE THEN "extract" ELSE "read"
           /\ InHand = EndsIn(rxFrame, {o \in Offsets : o >= frameRead})
<1>1. /\ ReceiverInv /\ RxTypeOK /\ Cursor /\ Partial /\ MadeOf(accepted, rxFrame)
      /\ rxFrame \in Frame /\ WellFormed(rxFrame) /\ rxPc = "extract" /\ pktExpected # 0
      /\ pktExpected \in Nat /\ frameRead < FRAME_DATA_SIZE
      /\ pktRead + Readable >= pktExpected
  BY DEF LinkInv, ReceiverInv, RxTypeOK, Cursor, Arrived, RxFinish, FinishPacket
<1>2. /\ Readable \in Nat /\ Readable >= 1 /\ frameRead + Readable <= FRAME_DATA_SIZE
      /\ pktRead + Readable = pktExpected /\ frameRead \in Nat /\ pktRead \in Nat
  BY <1>1, ReadableBounds
<1>3. frameRead \in Offsets
  BY <1>1, <1>2 DEF Offsets
<1>4. InHand = EndsIn(rxFrame, {o \in Offsets : o >= frameRead})
  BY <1>1 DEF InHand, ResumeAt
<1> QED  BY <1>1, <1>2, <1>3, <1>4 DEF RxFinish, FinishPacket, NextTurn

(***************************************************************************)
(* An untainted packet is handed over: it was the first in the receiver's  *)
(* hand, and the others stay there.                                        *)
(***************************************************************************)
HandsOver(b) ==
    /\ delivered' = Append(delivered, b)
    /\ b[1].id \in InHand
    /\ \A m \in InHand : m = b[1].id \/ b[1].id < m

\* An untainted packet it finishes is the first in its hand.
LEMMA FinishClean ==
    ASSUME LinkInv, ServiceInv, RxFinish, ~tainted
    PROVE  ServiceInv' /\ \E b : HandsOver(b)
<1> DEFINE f == rxFrame
           n == Readable
           e == frameRead + n
           p == f.content[frameRead].id
           b == pktBuffer \o Bytes(Readable)
<1>1. /\ ReceiverInv /\ RxTypeOK /\ Cursor /\ Partial /\ MadeOf(accepted, f)
      /\ f \in Frame /\ WellFormed(f) /\ rxPc = "extract" /\ pktExpected # 0
      /\ pktExpected' = 0 /\ ~tainted' /\ rxPc' \in {"read", "extract"}
      /\ UNCHANGED txVars
      /\ UNCHANGED <<rxFrame, rxStream, missed, firstPacket, lastPacket>>
      /\ harmed \subseteq harmed'
      /\ n \in Nat /\ n >= 1 /\ e <= FRAME_DATA_SIZE
      /\ pktRead + n = pktExpected /\ frameRead \in Nat /\ pktRead \in Nat
      /\ pktExpected \in Nat /\ frameRead < FRAME_DATA_SIZE /\ frameRead \in Offsets
      /\ \/ /\ lastPacket \/ f.firstPacket = PKT_OFFS_NONE
            /\ frameRead' = FRAME_DATA_SIZE
         \/ /\ ~lastPacket /\ f.firstPacket # PKT_OFFS_NONE
            /\ frameRead' = e
      /\ rxPc' = IF frameRead' < FRAME_DATA_SIZE THEN "extract" ELSE "read"
      /\ InHand = EndsIn(f, {o \in Offsets : o >= frameRead})
  BY FinishFacts
<1>2. Expects(f.content[frameRead], 1)
  BY <1>1 DEF ReceiverInv, Prefix
<1>3. /\ b[1] = ByteOf(p, 1 + HEADER, pktExpected)
      /\ f.content[e - 1] = ByteOf(p, pktExpected + HEADER, pktExpected)
  <2> HIDE DEF n
  <2>1. /\ \A i \in 1 .. pktRead + n :
             (pktBuffer \o Bytes(n))[i] = ByteOf(p, i + HEADER, pktExpected)
        /\ f.content[frameRead + n - 1] = ByteOf(p, pktRead + n + HEADER, pktExpected)
    <3>1. /\ RxTypeOK /\ WellFormed(rxFrame) /\ n \in Nat /\ n >= 1
          /\ frameRead + n <= FRAME_DATA_SIZE /\ pktRead + n <= pktExpected
          /\ frameRead < FRAME_DATA_SIZE
      BY <1>1
    <3>2. Expects(rxFrame.content[frameRead], 1)
      BY <1>2
    <3> HIDE DEF e, b
    <3> QED  BY <3>1, <3>2, BufferContinues
  <2>2. 1 \in 1 .. pktRead + n
    BY <1>1
  <2>3. (pktBuffer \o Bytes(n))[1] = ByteOf(p, 1 + HEADER, pktExpected)
    BY <2>1, <2>2
  <2> QED  BY SMTT(30), <1>1, <2>1, <2>3 DEF n
<1>4. b[1].id = p /\ f.content[e - 1].id = p /\ Closes(f.content[e - 1])
  <2>1. pktExpected + HEADER \in Nat \ {0} /\ 1 + HEADER \in Nat \ {0}
    BY <1>1
  <2> HIDE DEF b, p, e
  <2> QED  BY <1>3, <2>1, ByteFields DEF Closes, serializedSize
<1>5. IntactIds' = IntactIds \cup {p}
  <2>1. delivered \in Seq(Seq(Cell)) /\ spliced \subseteq 1 .. Len(delivered)
    BY <1>1 DEF RxTypeOK, LinkInv, Ghosts
  <2>2. delivered' = Append(delivered, b) /\ spliced' = spliced
    BY DEF RxFinish, FinishPacket
  <2> HIDE DEF b, p
  <2> QED  BY <1>4, <2>1, <2>2, HandedOver
<1>6. e - 1 \in Offsets /\ e - 1 >= frameRead /\ e \in Nat /\ e > 0
  BY <1>1 DEF Offsets
<1> HIDE DEF e, p, b, n
<1>7. p \in InHand
  BY <1>1, <1>4, <1>6 DEF EndsIn
<1>8. ASSUME NEW o \in Offsets, frameRead <= o, o < e
      PROVE  f.content[o] = ByteOf(p, pktRead + HEADER + 1 + (o - frameRead), pktExpected)
  <2> DEFINE k == pktRead + HEADER + 1
  <2>1. f.content[frameRead] = ByteOf(p, k, pktExpected) /\ p \in Nat
    BY <1>1, <1>2 DEF Expects, p, Frame, Cell
  <2>2. /\ k \in Nat \ {0} /\ k + (o - frameRead) <= serializedSize(pktExpected)
    BY <1>1, <1>8 DEF e, Offsets, serializedSize
  <2>3. f \in Frame /\ WellFormed(f) /\ frameRead \in Offsets /\ pktExpected \in Nat
    BY <1>1
  <2> HIDE DEF f, k
  <2>4. f.content[o] = ByteOf(p, k + (o - frameRead), pktExpected)
    BY <1>8, <2>1, <2>2, <2>3, RunOfPacket
  <2> QED  BY <2>4 DEF k
<1>9. ASSUME NEW o \in Offsets, frameRead <= o, o < e
      PROVE  f.content[o].at # 1 /\ (Closes(f.content[o]) => o = e - 1)
  <2> DEFINE k == pktRead + HEADER + 1 + (o - frameRead)
  <2>1. k \in Nat \ {0} /\ k >= 3 /\ (k = pktExpected + HEADER => o = e - 1)
    BY <1>1, <1>9 DEF e, Offsets
  <2>2. f.content[o] = ByteOf(p, k, pktExpected)
    BY <1>8, <1>9
  <2> HIDE DEF k
  <2>3. f.content[o].at = k /\ f.content[o].size = pktExpected
    BY <2>1, <2>2, ByteFields
  <2> QED  BY <2>1, <2>3 DEF Closes, serializedSize
<1>10. ASSUME NEW o \in Offsets, o >= e, f.content[o] # Noise
       PROVE  /\ ~lastPacket /\ f.firstPacket # PKT_OFFS_NONE /\ e \in Offsets
              /\ f.content[e].at = 1
  <2>1. e \in Offsets
    BY <1>6, <1>10 DEF Offsets
  <2>2. f.content[e].at = 1
    BY <1>1, <1>4, <1>6, <1>10, <2>1, AfterEnd
  <2>3. f.firstPacket # PKT_OFFS_NONE
    BY <1>1, <2>1, <2>2, PointersKnown
  <2>4. ~lastPacket
    <3> SUFFICES ASSUME lastPacket PROVE FALSE
      OBVIOUS
    <3>1. f.lastPacket = frameRead - HEADER
      BY <1>1 DEF Cursor
    <3>2. f.lastPacket < e
      BY <1>1, <1>6, <3>1 DEF Offsets
    <3> QED  BY <1>1, <2>1, <2>2, <2>3, <3>2, PointersKnown
  <2> QED  BY <2>1, <2>2, <2>3, <2>4
<1>11. ASSUME NEW o \in Offsets, o >= e, f.content[o] # Noise
       PROVE  /\ rxPc' = "extract" /\ frameRead' = e
              /\ firstPacket => f.firstPacket = e
  <2>1. ~lastPacket /\ f.firstPacket # PKT_OFFS_NONE /\ e \in Offsets /\ f.content[e].at = 1
    BY <1>10, <1>11
  <2>2. frameRead' = e /\ rxPc' = "extract"
    BY <1>1, <2>1 DEF Offsets
  <2>3. ASSUME firstPacket
        PROVE  f.firstPacket = e
    <3>1. frameRead = 0
      BY <1>1, <2>3 DEF Cursor
    <3>2. f.firstPacket \in Offsets /\ f.content[f.firstPacket].at = 1
          /\ \A x \in Offsets : x < f.firstPacket => f.content[x].at # 1
      BY <1>1, <2>1, PointersKnown DEF IsHeader
    <3>3. ~(f.firstPacket < e)
      BY <1>9, <3>1, <3>2 DEF Offsets
    <3> QED  BY <1>6, <2>1, <3>2, <3>3 DEF Offsets
  <2> QED  BY <2>2, <2>3
<1>12. ~Closes(Noise) /\ ~Open(Noise)
  BY DEF Closes, Open, Noise, serializedSize
<1>13. \A m \in InHand : m = p \/ m \in InHand'
  <2> SUFFICES ASSUME NEW o \in Offsets, o >= frameRead, Closes(f.content[o]),
                      f.content[o].id # p
               PROVE  f.content[o].id \in InHand'
    BY <1>1 DEF EndsIn
  <2>1. o >= e /\ f.content[o] # Noise
    BY <1>1, <1>4, <1>6, <1>9, <1>12 DEF Offsets
  <2>2. rxPc' = "extract" /\ frameRead' = e /\ (firstPacket => f.firstPacket = e)
    BY <1>11, <2>1
  <2>3. o >= ResumeAt'
    BY <1>1, <2>1, <2>2 DEF ResumeAt
  <2> QED  BY <1>1, <2>2, <2>3 DEF InHand, EndsIn
<1>14. \A m \in InHand' : m \in InHand /\ p < m
  <2> SUFFICES ASSUME rxPc' = "extract", NEW o \in Offsets, o >= ResumeAt', Closes(f.content[o])
               PROVE  o >= frameRead /\ p < f.content[o].id
    BY <1>1 DEF InHand, EndsIn
  <2>1. frameRead' = e /\ f.firstPacket # PKT_OFFS_NONE
    BY <1>1
  <2>2. ResumeAt' >= e
    <3>1. CASE firstPacket
      <4>1. frameRead = 0 /\ ResumeAt' = f.firstPacket
        BY <1>1, <3>1 DEF Cursor, ResumeAt
      <4>2. f.firstPacket \in Offsets /\ f.content[f.firstPacket].at = 1
        BY <1>1, <2>1, PointersKnown DEF IsHeader
      <4>3. ~(f.firstPacket < e)
        BY <1>9, <4>1, <4>2 DEF Offsets
      <4> QED  BY <1>6, <4>1, <4>2, <4>3 DEF Offsets
    <3>2. CASE ~firstPacket
      BY <1>1, <1>6, <2>1, <3>2 DEF ResumeAt
    <3> QED  BY <3>1, <3>2
  <2>3. ResumeAt' \in Nat
    <3>1. f.firstPacket \in Offsets
      BY <1>1, <2>1, PointersKnown
    <3> QED  BY <1>1, <1>6, <2>1, <3>1 DEF ResumeAt, Offsets
  <2>4. e - 1 < o /\ o >= frameRead
    BY <1>6, <2>2, <2>3, <1>1 DEF Offsets
  <2> QED  BY <1>1, <1>4, <1>6, <2>4, EndsAscend
<1>15. Severed' /\ InStream(rxStream)' = InStream(rxStream)
  BY <1>1, TurnLinks
<1>16. Route'
  <2>1. Route
    BY DEF ServiceInv
  <2>2. ReceiverMoves
    BY <1>5, <1>7, <1>13, <1>14, <1>15, <2>1
       DEF ReceiverMoves, Route, ReceiverOrder, Below, Reached
  <2> QED  BY <1>1, <2>1, <2>2, ReceiverRoute
<1>17. TailKnown'
  <2> SUFFICES ASSUME rxPc' = "read", Open(f.content[Last])
               PROVE  FALSE
    BY <1>1 DEF TailKnown
  <2>1. Last \in Offsets /\ (Last >= e \/ Last = e - 1)
    BY <1>1, <1>6 DEF Last, Offsets
  <2>2. Last = e - 1
    BY <1>11, <1>12, <2>1
  <2>3. f.content[Last] \in Cell
    BY <1>1, <2>1 DEF Frame
  <2> QED  BY <1>4, <2>2, <2>3 DEF Open, Closes, Cell, serializedSize
<1>18. Passed'
  <2> SUFFICES ASSUME rxPc' = "extract", firstPacket PROVE frameRead' = f.firstPacket
    BY <1>1 DEF Passed
  <2>1. frameRead' = e /\ f.firstPacket # PKT_OFFS_NONE
    BY <1>1
  <2>2. f.firstPacket \in Offsets /\ f.content[f.firstPacket].at = 1 /\ frameRead = 0
    BY <1>1, <2>1, PointersKnown DEF IsHeader, Cursor
  <2>3. f.firstPacket >= e
    BY <1>6, <1>9, <2>2 DEF Offsets
  <2>4. f.content[f.firstPacket] # Noise
    BY <2>2 DEF Noise
  <2> QED  BY <1>11, <2>1, <2>2, <2>3, <2>4
<1>19. TaintedTurn'
  BY <1>1 DEF TaintedTurn
<1>20. HandsOver(b)
  <2>1. delivered' = Append(delivered, b)
    BY DEF RxFinish, FinishPacket, b
  <2> QED  BY <1>4, <1>7, <1>13, <1>14, <2>1 DEF HandsOver
<1> QED  BY <1>15, <1>16, <1>17, <1>18, <1>19, <1>20 DEF ServiceInv

(***************************************************************************)
(* A tainted packet ends: what it took bytes from is harmed, and the       *)
(* frame's first packet pointer brings the receiver back.                  *)
(***************************************************************************)
LEMMA FinishTainted ==
    ASSUME LinkInv, ServiceInv, RxFinish, tainted
    PROVE  ServiceInv'
<1> DEFINE f == rxFrame
           e == frameRead + Readable
<1>1. /\ ReceiverInv /\ RxTypeOK /\ Cursor /\ Partial /\ MadeOf(accepted, f)
      /\ f \in Frame /\ WellFormed(f) /\ rxPc = "extract" /\ pktExpected # 0
      /\ pktExpected' = 0 /\ ~tainted' /\ rxPc' \in {"read", "extract"}
      /\ UNCHANGED txVars
      /\ UNCHANGED <<rxFrame, rxStream, missed, firstPacket, lastPacket>>
      /\ harmed \subseteq harmed'
      /\ Readable \in Nat /\ Readable >= 1 /\ e <= FRAME_DATA_SIZE
      /\ frameRead \in Nat /\ frameRead < FRAME_DATA_SIZE
      /\ \/ /\ lastPacket \/ f.firstPacket = PKT_OFFS_NONE
            /\ frameRead' = FRAME_DATA_SIZE
         \/ /\ ~lastPacket /\ f.firstPacket # PKT_OFFS_NONE
            /\ frameRead' = e
      /\ rxPc' = IF frameRead' < FRAME_DATA_SIZE THEN "extract" ELSE "read"
      /\ InHand = EndsIn(f, {o \in Offsets : o >= frameRead})
      /\ harmed' = harmed \cup (Copied \ {NoPacket})
  BY FinishFacts
<1>2. firstPacket /\ frameRead = 0 /\ ~lastPacket
  BY <1>1 DEF ServiceInv, TaintedTurn, Cursor
<1>3. IntactIds' = IntactIds
  <2>1. delivered \in Seq(Seq(Cell)) /\ spliced \subseteq 1 .. Len(delivered)
    BY <1>1 DEF RxTypeOK, LinkInv, Ghosts
  <2>2. /\ delivered' = Append(delivered, pktBuffer \o Bytes(Readable))
        /\ spliced' = IF tainted THEN spliced \cup {Len(delivered) + 1} ELSE spliced
    BY DEF RxFinish, FinishPacket
  <2> QED  BY <2>1, <2>2, HandedOver
<1>4. \A o \in Offsets : o < e => f.content[o].id \in harmed' \cup {NoPacket}
  <2> TAKE o \in Offsets
  <2>1. 0 <= o
    BY DEF Offsets
  <2> QED  BY <1>1, <1>2, <2>1, CopiedHarmed
<1>5. e \in Nat /\ e >= 1 /\ 0 \in Offsets
  BY <1>1 DEF Offsets
<1> HIDE DEF e
<1>6. \A o \in Offsets : /\ f.firstPacket = PKT_OFFS_NONE \/ o < f.firstPacket
                         => f.content[o].id \in harmed' \cup {NoPacket}
  <2> SUFFICES ASSUME NEW o \in Offsets, f.firstPacket = PKT_OFFS_NONE \/ o < f.firstPacket
               PROVE  f.content[o].id \in harmed' \cup {NoPacket}
    OBVIOUS
  <2>1. \A y \in Offsets : y <= o => f.content[y].at # 1
    <3>1. CASE f.firstPacket = PKT_OFFS_NONE
      BY <1>1, <3>1, PointersKnown
    <3>2. CASE f.firstPacket # PKT_OFFS_NONE
      BY <1>1, <3>2, PointersKnown DEF Offsets
    <3> QED  BY <3>1, <3>2
  <2>2. CASE f.content[o] = Noise
    BY <2>2 DEF Noise, NoPacket
  <2>3. CASE f.content[o] # Noise
    <3>1. f.content[o].id = f.content[0].id
      BY <1>1, <2>1, <2>3, BeforeStart
    <3>2. f.content[0].id \in harmed' \cup {NoPacket}
      BY <1>4, <1>5
    <3> QED  BY <3>1, <3>2
  <2> QED  BY <2>2, <2>3
<1>7. \A o \in Offsets : o \in Nat
  BY DEF Offsets
<1>8. InHand' \subseteq InHand
  <2>1. InHand' = {} \/ InHand' = EndsIn(f, {o \in Offsets : o >= ResumeAt'})
    BY <1>1 DEF InHand
  <2>2. \A o \in Offsets : o >= frameRead
    BY <1>2, <1>7
  <2> QED  BY <1>1, <2>1, <2>2 DEF EndsIn
<1>9. \A o \in Offsets : \/ f.content[o].id \in harmed' \cup {NoPacket}
                         \/ rxPc' = "extract" /\ o >= f.firstPacket
  <2> TAKE o \in Offsets
  <2>1. CASE f.firstPacket = PKT_OFFS_NONE \/ o < f.firstPacket
    BY <1>6, <2>1
  <2>2. CASE f.firstPacket # PKT_OFFS_NONE /\ ~(o < f.firstPacket)
    <3>1. frameRead' = e /\ f.firstPacket \in Nat
      BY <1>1, <1>2, <1>7, <2>2, PointersKnown
    <3>2. CASE e < FRAME_DATA_SIZE
      BY <1>1, <1>7, <2>2, <3>1, <3>2
    <3>3. CASE ~(e < FRAME_DATA_SIZE)
      <4>1. o < e
        BY <1>5, <3>3 DEF Offsets
      <4> QED  BY <1>4, <4>1
    <3> QED  BY <3>2, <3>3
  <2> QED  BY <2>1, <2>2
<1>10. \A m \in InHand : m \in InHand' \/ m \in harmed'
  <2> SUFFICES ASSUME NEW o \in Offsets, Closes(f.content[o]), f.content[o].id \notin harmed'
               PROVE  f.content[o].id \in InHand'
    BY <1>1 DEF EndsIn
  <2>1. f.content[o].id # NoPacket
    BY <1>1 DEF MadeOf, Made, NoPacket, Closes, Noise, serializedSize
  <2>2. rxPc' = "extract" /\ o >= f.firstPacket
    BY <1>9, <2>1
  <2>3. ResumeAt' = f.firstPacket
    BY <1>1, <1>2 DEF ResumeAt
  <2> QED  BY <1>1, <2>2, <2>3 DEF InHand, EndsIn
<1>11. Severed' /\ InStream(rxStream)' = InStream(rxStream)
  BY <1>1, TurnLinks
<1>12. Route'
  <2>1. Route
    BY DEF ServiceInv
  <2>2. ReceiverMoves
    BY <1>3, <1>8, <1>10, <1>11, <2>1
       DEF ReceiverMoves, Route, ReceiverOrder, Below, Reached
  <2> QED  BY <1>1, <2>1, <2>2, ReceiverRoute
<1>13. TailKnown'
  <2> SUFFICES ASSUME rxPc' = "read", Open(f.content[Last])
               PROVE  f.content[Last].id \in harmed'
    BY <1>1 DEF TailKnown
  <2>1. Last \in Offsets
    BY DEF Last, Offsets
  <2>2. f.content[Last].id # NoPacket
    BY <1>1, <2>1 DEF Open, MadeOf, Made, NoPacket
  <2> QED  BY <1>9, <2>1, <2>2
<1>14. Passed'
  <2> SUFFICES ASSUME rxPc' = "extract", NEW o \in 0 .. frameRead',
                      o < frameRead' \/ f.content[o].at # 1
               PROVE  f.content[o].id \in harmed' \cup {NoPacket}
    BY <1>1 DEF Passed
  <2>1. frameRead' = e /\ e \in Offsets
    BY <1>1, <1>5 DEF Offsets
  <2>2. CASE o < e
    <3>1. o \in Offsets
      BY <2>1, <2>2 DEF Offsets
    <3> QED  BY <1>4, <2>2, <3>1
  <2>3. CASE o = e
    <3>1. e - 1 \in Offsets /\ e > 0 /\ e - 1 < e
      BY <1>5, <2>1 DEF Offsets
    <3>2. f.content[e - 1].id \in harmed' \cup {NoPacket}
      BY <1>4, <3>1
    <3>3. Follows(f.content[e - 1], f.content[e]) /\ f.content[e - 1] \in Cell
      BY <1>1, <2>1, <3>1 DEF WellFormed, Frame
    <3>4. f.content[e] = Noise \/ f.content[e].id = f.content[e - 1].id
      BY <2>1, <2>3, <3>3, BehindCell
    <3>5. Noise.id = NoPacket
      BY DEF Noise, NoPacket
    <3> QED  BY <2>3, <3>2, <3>4, <3>5
  <2> QED  BY <1>5, <2>1, <2>2, <2>3
<1>15. TaintedTurn'
  BY <1>1 DEF TaintedTurn
<1> QED  BY <1>11, <1>12, <1>13, <1>14, <1>15 DEF ServiceInv

----------------------------------------------------------------------------
(* start() and stop() of the receiver. *)

\* So do the receiver's stop() and start().
LEMMA ControlServes ==
    ASSUME LinkInv, ServiceInv, RxControl
    PROVE  ServiceInv'
<1>1. /\ ReceiverInv /\ Route /\ Severed /\ TailKnown /\ Passed /\ TaintedTurn
      /\ UNCHANGED txVars /\ UNCHANGED <<missed, tainted, spliced, harmed>>
      /\ UNCHANGED <<rxStream, delivered>>
  BY DEF LinkInv, ServiceInv, RxControl, ghosts, StopRx, JoinRx, StartRx
<1>2. CASE StopRx
  <2>1. UNCHANGED <<rxPc, partial, cursor>>
    BY <1>2 DEF StopRx
  <2>2. HasFrame' = HasFrame /\ Linked' = Linked
    BY <1>1, <2>1 DEF HasFrame, live, Linked, cursor
  <2>3. IntactIds' = IntactIds /\ InHand' = InHand
    BY <1>1, <2>1 DEF IntactIds, InHand, EndsIn, ResumeAt, partial, cursor
  <2>4. InStream(rxStream)' = InStream(rxStream)
    BY <1>1
  <2>5. ReceiverMoves
    BY <1>1, <2>3, <2>4 DEF ReceiverMoves, Route, ReceiverOrder, Below, Reached
  <2>6. Route'
    BY <1>1, <2>5, ReceiverRoute
  <2>7. Severed'
    BY <1>1, <2>2, SeveredStays
  <2> QED  BY <1>1, <2>1, <2>2, <2>6, <2>7, HandStays DEF ServiceInv
<1>3. CASE JoinRx \/ StartRx
  <2>1. rxPc \in {"exited", "down"} /\ rxPc' \in {"down", "read"} /\ ~HasFrame /\ ~HasFrame'
    <3>1. CASE JoinRx
      BY <3>1 DEF JoinRx, HasFrame, live
    <3>2. CASE StartRx
      <4>1. rxPc = "down"
        BY <1>1, <3>2 DEF StartRx, ReceiverInv, RxRuns
      <4>2. ~HasFrame'
        BY <1>1, <3>2, RxStartInv
      <4> QED  BY <3>2, <4>1, <4>2 DEF StartRx, HasFrame, live
    <3> QED  BY <1>3, <3>1, <3>2
  <2>2. IntactIds' = IntactIds /\ InHand = {} /\ InHand' = {}
    BY <1>1, <2>1 DEF IntactIds, InHand
  <2>3. InStream(rxStream)' = InStream(rxStream)
    BY <1>1
  <2>4. ReceiverMoves
    BY <1>1, <2>2, <2>3 DEF ReceiverMoves, Route, ReceiverOrder, Below, Reached
  <2>5. Route'
    BY <1>1, <2>4, ReceiverRoute
  <2>6. Severed'
    BY <1>1, <2>1, SeveredStays DEF Linked
  <2>7. TailKnown' /\ Passed' /\ TaintedTurn'
    BY <2>1 DEF TailKnown, Passed, TaintedTurn
  <2> QED  BY <2>5, <2>6, <2>7 DEF ServiceInv
<1> QED  BY <1>1, <1>2, <1>3 DEF RxControl

\* The receiver leaves: the packet that its last frame breaks off is harmed.
LEMMA LeaveServes ==
    ASSUME LinkInv, ServiceInv, RxLeave
    PROVE  ServiceInv'
<1> DEFINE c == rxFrame.content[Last]
<1>1. /\ SenderInv /\ ReceiverInv /\ Arrived /\ Seams /\ Route /\ Severed /\ TailKnown
      /\ MadeOf(accepted, rxFrame) /\ rxFrame \in Frame /\ rxPc = "read"
  BY DEF LinkInv, ServiceInv, ReceiverInv, RxTypeOK, Arrived, RxLeave, RxExit
<1>2. /\ UNCHANGED txVars /\ UNCHANGED <<rxStream, delivered, spliced>>
      /\ rxPc' = "exited" /\ tainted' = FALSE /\ harmed \subseteq harmed'
      /\ pktExpected # 0 => harmed' = harmed \cup ({c.id} \ {NoPacket})
  BY DEF RxLeave, RxExit, Last
<1>3. Last \in Offsets /\ c \in Cell
  BY <1>1 DEF Last, Offsets, Frame
<1> HIDE DEF c
<1>4. HasFrame /\ Open(c) => c.id \in harmed'
  <2>1. Open(c) => c.id # NoPacket
    BY <1>1, <1>3 DEF Open, MadeOf, Made, NoPacket, c
  <2> QED  BY <1>1, <1>2, <2>1 DEF TailKnown, c
<1>5. ASSUME HasFrame, NEW x, Meets(rxFrame, x)
      PROVE  Owed(x.content[0])'
  <2> SUFFICES ASSUME Continues(x.content[0]) PROVE x.content[0].id \in harmed'
    BY DEF Owed
  <2>1. Joins(c, x.content[0])
    BY <1>5 DEF Meets, c
  <2> QED  BY <1>3, <1>4, <1>5, <2>1, JoinsSame
<1>6. ASSUME HasFrame, MeetsWorker(rxFrame)
      PROVE  WorkerOwes'
  <2>1. ASSUME AtHead, pktWritten # 0
        PROVE  pkt \in harmed'
    <3>1. c = ByteOf(pkt, pktWritten, SizeOf(pkt))
      BY <1>6, <2>1 DEF MeetsWorker, Resumes, c
    <3>2. /\ pktWritten \in Nat \ {0} /\ SizeOf(pkt) \in Nat
          /\ pktWritten < serializedSize(SizeOf(pkt))
      BY <1>1, <2>1, SizeType DEF SenderInv, TxInv, TxTypeOK, Progress
    <3>3. Open(c) /\ c.id = pkt
      BY <3>1, <3>2, BehindOpen DEF ByteOf
    <3> QED  BY <1>4, <1>6, <3>3
  <2>2. ASSUME ~AtHead, txPc \in {"fill", "send"}
        PROVE  Owed(frame.content[0])'
    <3>1. Meets(rxFrame, frame)
      BY <1>6, <2>2 DEF MeetsWorker
    <3>2. frame' = frame
      BY <1>2 DEF txVars, fillVars
    <3>3. Continues(frame.content[0]) => frame.content[0].id \in harmed'
      BY <1>5, <1>6, <3>1 DEF Owed
    <3> QED  BY <3>2, <3>3 DEF Owed
  <2>3. AtHead' = AtHead /\ UNCHANGED <<txPc, pkt, pktWritten>>
    BY <1>2 DEF AtHead, txVars, fillVars
  <2> QED  BY <2>1, <2>2, <2>3 DEF WorkerOwes
<1>7. Severed'
  <2>1. CASE ~Linked
    <3>1. \A d : Owed(d) => Owed(d)'
      BY <1>2, OwedStays
    <3>2. WorkerOwes => WorkerOwes'
      BY <1>2, <3>1 DEF WorkerOwes, AtHead, Owed, txVars, fillVars
    <3>3. txStream' = txStream
      BY <1>2 DEF txVars
    <3> QED  BY <1>1, <1>2, <2>1, <3>1, <3>2, <3>3 DEF Severed
  <2>2. CASE Linked
    <3>1. HasFrame /\ txStream' = txStream
      BY <1>2, <2>2 DEF Linked, txVars
    <3>2. rxStream # <<>> => Owed(rxStream[1].content[0])'
      BY <1>1, <1>2, <1>5, <2>2, <3>1 DEF Seams
    <3>3. rxStream = <<>> /\ txStream # <<>> => Owed(txStream[1].content[0])'
      BY <1>1, <1>2, <1>5, <2>2, <3>1 DEF Seams
    <3>4. rxStream = <<>> /\ txStream = <<>> => WorkerOwes'
      BY <1>1, <1>6, <2>2, <3>1 DEF Seams
    <3> QED  BY <1>2, <3>1, <3>2, <3>3, <3>4 DEF Severed
  <2> QED  BY <2>1, <2>2
<1>8. IntactIds' = IntactIds /\ InHand = {} /\ InHand' = {}
  BY <1>1, <1>2 DEF IntactIds, InHand
<1>9. InStream(rxStream)' = InStream(rxStream)
  BY <1>2
<1>10. Route'
  <2>1. ReceiverMoves
    BY <1>1, <1>8, <1>9 DEF ReceiverMoves, Route, ReceiverOrder, Below, Reached
  <2> QED  BY <1>1, <1>2, <2>1, ReceiverRoute
<1>11. TailKnown' /\ Passed' /\ TaintedTurn'
  BY <1>2 DEF TailKnown, Passed, TaintedTurn
<1> QED  BY <1>7, <1>10, <1>11 DEF ServiceInv

----------------------------------------------------------------------------
(* The theorems. *)

\* The first state has the invariant.
LEMMA ServiceInitially == LinkInit => ServiceInv
<1> SUFFICES ASSUME LinkInit PROVE ServiceInv
  OBVIOUS
<1>1. TxInit /\ RxInit /\ spliced = {} /\ tainted = FALSE
  BY DEF LinkInit
<1>2. /\ rxPc = "read" /\ rxStream = <<>> /\ delivered = <<>> /\ rxFrame = NoFrame
      /\ txPc = "begin" /\ txStream = <<>> /\ packets = <<>> /\ accepted = <<>>
      /\ pktWritten = 0
  BY <1>1 DEF TxInit, RxInit
<1>3. IntactIds = {} /\ InQueue = {} /\ Len(accepted) = 0
  BY <1>2 DEF IntactIds, InQueue
<1>4. InHand = {} /\ InStream(rxStream) = {} /\ InStream(txStream) = {} /\ AtWork = {}
  BY <1>2 DEF InHand, InStream, AtWork
<1>5. InFrame = {}
  <2>1. Written = {}
    BY <1>2 DEF Written
  <2> QED  BY <2>1 DEF InFrame, EndsIn
<1>6. Route
  BY <1>3, <1>4, <1>5
     DEF Route, ReceiverOrder, SenderOrder, Below, Reached, Leaving, Coverage
<1>7. Severed
  BY <1>2 DEF Severed, WorkerOwes, AtHead
<1>8. ~HasFrame
  BY <1>2, NoFrameIsNone DEF HasFrame
<1>9. TailKnown /\ Passed /\ TaintedTurn
  BY <1>2, <1>8 DEF TailKnown, Passed, TaintedTurn
<1> QED  BY <1>6, <1>7, <1>9 DEF ServiceInv

\* A step that changes nothing keeps it.
LEMMA StutterServes ==
    ASSUME ServiceInv, UNCHANGED vars
    PROVE  ServiceInv'
<1>1. /\ UNCHANGED txVars /\ UNCHANGED rxVars /\ UNCHANGED <<missed, tainted, spliced, harmed>>
  BY DEF vars, ghosts
<1>2. HasFrame' = HasFrame /\ Linked' = Linked
  BY <1>1 DEF HasFrame, live, Linked, rxVars, cursor
<1>3. TailKnown' /\ Passed' /\ TaintedTurn'
  BY <1>1, <1>2, HandStays DEF rxVars
<1>4. Severed'
  BY <1>1, <1>2, SeveredStays DEF ServiceInv, rxVars
<1>5. /\ IntactIds' = IntactIds /\ InHand' = InHand
      /\ InStream(rxStream)' = InStream(rxStream)
  BY <1>1 DEF rxVars, partial, cursor, IntactIds, InHand, EndsIn, ResumeAt
<1>6. /\ InStream(txStream)' = InStream(txStream) /\ InFrame' = InFrame
      /\ AtWork' = AtWork /\ InQueue' = InQueue /\ accepted' = accepted
  BY <1>1 DEF txVars, apiVars, fillVars, InFrame, EndsIn, Written, AtWork, InQueue
<1>7. Route'
  BY <1>1, <1>5, <1>6 DEF ServiceInv, Route, ReceiverOrder, SenderOrder, Below, Reached,
     Leaving, Coverage
<1> QED  BY <1>3, <1>4, <1>7 DEF ServiceInv

(***************************************************************************)
(* The packets on their way through the worker, the streams and the        *)
(* receiver's hand stay in the order that send() took them in, and none of *)
(* them disappears without having been harmed or handed over.              *)
(***************************************************************************)
THEOREM ServiceInvariance == LinkSpec => []ServiceInv
<1>1. LinkInit => ServiceInv
  BY ServiceInitially
<1>2. LinkInv /\ ServiceInv /\ [LinkNext]_vars => ServiceInv'
  <2> SUFFICES ASSUME LinkInv, ServiceInv, [LinkNext]_vars PROVE ServiceInv'
    OBVIOUS
  <2>1. CASE CarryFrame \/ LoseFrame
    BY <2>1, CarryServes
  <2>2. CASE TxControl \/ TxPack \/ TxAbandon
    BY <2>2, SenderServes
  <2>3. CASE RxTake
    BY <2>3, TakeServes
  <2>4. CASE RxExtract
    BY <2>4, SkipServes, ParseServes DEF RxExtract
  <2>5. CASE RxCopy
    BY <2>5, CopyServes
  <2>6. CASE RxFinish
    BY <2>6, FinishClean, FinishTainted
  <2>7. CASE RxControl
    BY <2>7, ControlServes
  <2>8. CASE RxLeave
    BY <2>8, LeaveServes
  <2>9. CASE UNCHANGED vars
    BY <2>9, StutterServes
  <2> QED  BY <2>1, <2>2, <2>3, <2>4, <2>5, <2>6, <2>7, <2>8, <2>9 DEF LinkNext
<1> QED  BY <1>1, <1>2, LinkInvariance, PTL DEF LinkSpec

(***************************************************************************)
(* A packet that a later one overtook was delivered too, unless a lost     *)
(* frame, a stop() or a spliced packet took one of its bytes.              *)
(***************************************************************************)
THEOREM LossIsContained == LinkSpec => []LossContainment
<1>1. LinkInv /\ ServiceInv => LossContainment
  <2> SUFFICES ASSUME LinkInv, ServiceInv, NEW n \in 1 .. Len(accepted),
                      n \notin IntactIds \cup harmed, accepted[n] # 0,
                      NEW m \in IntactIds
               PROVE  m <= n
    BY DEF LossContainment
  <2>1. n \in (Reached \cup Leaving) \ IntactIds /\ m \in 1 .. Len(accepted)
    BY DEF ServiceInv, Route, Coverage
  <2>2. m < n
    BY <2>1 DEF ServiceInv, Route, ReceiverOrder, Below, Reached
  <2>3. m \in Nat /\ n \in Nat
    BY <2>1
  <2> QED  BY <2>2, <2>3
<1> QED  BY <1>1, LinkInvariance, ServiceInvariance, PTL
----------------------------------------------------------------------------
(* The link as a packet service. *)

\* Value b is k behind value a in the frame counter.
Behind(a, b, k) == b = IF a + k < CounterMod THEN a + k ELSE (a + k) - CounterMod

\* The counter of the next frame that the receiver can get.
NextCounter ==
    IF rxStream # <<>> THEN rxStream[1].counter
    ELSE IF txStream # <<>> THEN txStream[1].counter
    ELSE IF txPc = "begin" THEN counter ELSE frame.counter

(***************************************************************************)
(* When the sender is never stopped and fewer frames are lost in a row     *)
(* than the counter has values, the counter shows every gap.               *)
(***************************************************************************)
Shown == MaxRestarts = 0 /\ MaxLoss < CounterMod

\* The first run of the sender's worker goes on.
OneRun == /\ epoch = 0 /\ running /\ ~writerStop /\ txPc \in {"begin", "fill", "send"}
          /\ HasFrame => Behind(lastCounter, NextCounter, missed + 1)

\* No packet was put together across a gap.
Whole == spliced = {} /\ ~tainted

\* Nothing is taken from a packet when frames are not lost nor the receiver stopped.
Unharmed == MaxLoss = 0 /\ MaxRxRestarts = 0 => harmed = {} /\ ~readerStop

LastId == IF delivered = <<>> THEN 0 ELSE delivered[Len(delivered)][1].id

\* The packet handed over last is the highest.
Latest == \A n \in IntactIds : n <= LastId

NoticedInv == OneRun /\ Whole /\ Unharmed /\ Latest

\* The counter goes up by one or back to 0.
LEMMA CounterStep ==
    ASSUME NEW c \in 0 .. CounterMod - 1
    PROVE  /\ (c + 1) % CounterMod = IF c + 1 < CounterMod THEN c + 1 ELSE 0
           /\ (c + 1) % CounterMod \in 0 .. CounterMod - 1
  OBVIOUS

\* Distances in the counter, one frame further.
LEMMA BehindNext ==
    ASSUME NEW a \in 0 .. CounterMod - 1, NEW b \in 0 .. CounterMod - 1,
           NEW k \in 1 .. CounterMod
    PROVE  /\ Behind(a, b, k) /\ k < CounterMod => Behind(a, (b + 1) % CounterMod, k + 1)
           /\ Behind(a, (a + 1) % CounterMod, 1)
           /\ k > 1 => ~Behind(a, (a + 1) % CounterMod, k)
<1> DEFINE x == (a + 1) % CounterMod
           y == (b + 1) % CounterMod
<1>1. /\ x = IF a + 1 < CounterMod THEN a + 1 ELSE 0
      /\ y = IF b + 1 < CounterMod THEN b + 1 ELSE 0
  BY CounterStep
<1> HIDE DEF x, y
<1>2. /\ Behind(a, b, k) /\ k < CounterMod => Behind(a, y, k + 1)
      /\ Behind(a, x, 1)
      /\ k > 1 => ~Behind(a, x, k)
  BY <1>1 DEF Behind
<1> QED  BY <1>2 DEF x, y

\* What the sender does does not change which frame is the next.
LEMMA SenderCounts ==
    ASSUME Shown, LinkInv, OneRun, TxControl \/ TxPack \/ TxAbandon
    PROVE  OneRun' /\ ~TxAbandon
<1>1. /\ epoch = 0 /\ running /\ ~writerStop /\ txPc \in {"begin", "fill", "send"}
      /\ MaxRestarts = 0 /\ frame \in Frame
  BY DEF OneRun, Shown, LinkInv, SenderInv, TxInv, TxTypeOK
<1>2. UNCHANGED <<rxVars, missed>>
  BY DEF TxControl, TxPack, TxAbandon, ghosts
<1>3. HasFrame' = HasFrame /\ lastCounter' = lastCounter /\ rxStream' = rxStream
  BY <1>2 DEF HasFrame, live, rxVars, cursor
<1>4. SUFFICES /\ epoch' = 0 /\ running' /\ ~writerStop' /\ txPc' \in {"begin", "fill", "send"}
               /\ NextCounter' = NextCounter /\ ~TxAbandon
  BY <1>2, <1>3 DEF OneRun
<1>5. CASE SendAccepted
  BY <1>1, <1>3, <1>5 DEF SendAccepted, fillVars, NextCounter, TxAbandon, AbandonFrame
<1>6. CASE BeginFrame
  <2>1. frame'.counter = counter
    BY <1>1, <1>6 DEF BeginFrame, Frame
  <2> QED  BY <1>1, <1>3, <1>6, <2>1 DEF BeginFrame, apiVars, NextCounter, TxAbandon, AbandonFrame
<1>7. CASE FillFrame
  <2>1. /\ UNCHANGED <<apiVars, counter, txStream>> /\ txPc = "fill" /\ txPc' \in {"fill", "send"}
        /\ frame'.counter = frame.counter
    <3>1. CASE PadShort \/ PadIdle
      BY <1>1, <3>1 DEF PadShort, PadIdle, Frame
    <3>2. CASE StartPacket \/ ContinuePacket
      BY <1>1, <3>2 DEF StartPacket, ContinuePacket, Write, Frame
    <3> QED  BY <1>7, <3>1, <3>2 DEF FillFrame
  <2> QED  BY <1>1, <1>3, <2>1 DEF apiVars, NextCounter, TxAbandon, AbandonFrame
<1>8. CASE SendFrame
  <2>1. txStream' = <<frame>> /\ txStream'[1] = frame /\ txStream' # <<>>
    BY <1>8 DEF SendFrame
  <2> QED  BY <1>1, <1>3, <1>8, <2>1
           DEF SendFrame, apiVars, fillVars, NextCounter, TxAbandon, AbandonFrame
<1>9. ~StopTx /\ ~JoinTx /\ ~StartTx /\ ~TxAbandon
  BY <1>1 DEF StopTx, JoinTx, StartTx, TxAbandon, AbandonFrame
<1> QED  BY <1>5, <1>6, <1>7, <1>8, <1>9 DEF TxControl, TxPack

\* Behind the last frame sent comes the one the worker is at.
LEMMA WorkerCounts ==
    ASSUME OneRun, SenderRuns, NEW y, y.epoch = 0, MeetsWorker(y)
    PROVE  (IF txPc = "begin" THEN counter ELSE frame.counter) = (y.counter + 1) % CounterMod
  BY DEF OneRun, SenderRuns, MeetsWorker, Meets, AtHead

\* Without a restart all frames are of the first run.
LEMMA StreamEpochs ==
    ASSUME LinkInv, OneRun
    PROVE  /\ rxStream # <<>> => rxStream[1] \in Frame /\ rxStream[1].epoch = 0
           /\ txStream # <<>> => txStream[1] \in Frame /\ txStream[1].epoch = 0
           /\ HasFrame => lastEpoch = 0
           /\ lastCounter \in 0 .. CounterMod - 1 /\ missed \in 0 .. MaxLoss
<1>1. /\ rxStream # <<>> => rxStream[1] \in Frame /\ Since(rxStream[1])
      /\ txStream # <<>> => txStream[1] \in Frame /\ Since(txStream[1])
      /\ rxFrame \in Frame /\ rxFrame.epoch <= epoch
      /\ lastCounter \in 0 .. CounterMod - 1 /\ missed \in 0 .. MaxLoss
  BY OneInStream DEF LinkInv, Arrived, SenderInv, TxInv, TxTypeOK, ReceiverInv, RxTypeOK, Ghosts
<1>2. \A f \in Frame : f.epoch <= 0 => f.epoch = 0
  BY DEF Frame
<1> QED  BY <1>1, <1>2 DEF Since, OneRun, LinkInv, Arrived

\* The physical layer keeps the distance of the counters.
LEMMA CarryCounts ==
    ASSUME Shown, LinkInv, OneRun, CarryFrame \/ LoseFrame
    PROVE  OneRun'
<1>1. /\ UNCHANGED <<apiVars, txPc, counter, frame, rxPc, rxFrame, lastCounter>>
      /\ epoch = 0 /\ running /\ ~writerStop /\ txPc \in {"begin", "fill", "send"}
      /\ txStream # <<>> /\ rxStream = <<>> /\ txStream' = <<>>
  BY DEF CarryFrame, LoseFrame, rxVars, cursor, fillVars, OneRun
<1>2. HasFrame' = HasFrame
  BY <1>1 DEF HasFrame, live
<1>3. SUFFICES HasFrame => Behind(lastCounter, NextCounter', missed' + 1)
  BY <1>1, <1>2 DEF OneRun, apiVars
<1>4. CASE CarryFrame
  BY <1>1, <1>4 DEF CarryFrame, NextCounter, OneRun, ghosts
<1>5. CASE LoseFrame
  <2> DEFINE y == txStream[1]
             k == missed + 1
  <2>1. /\ y \in Frame /\ y.epoch = 0 /\ lastCounter \in 0 .. CounterMod - 1
        /\ missed \in 0 .. MaxLoss /\ MeetsWorker(y) /\ SenderRuns
    BY <1>1, StreamEpochs DEF LinkInv, Seams, SenderInv
  <2>2. NextCounter = y.counter /\ NextCounter' = (y.counter + 1) % CounterMod
    <3>1. (IF txPc = "begin" THEN counter ELSE frame.counter) = (y.counter + 1) % CounterMod
      <4> HIDE DEF y
      <4> QED  BY <2>1, WorkerCounts
    <3> QED  BY <1>1, <1>5, <3>1 DEF NextCounter, LoseFrame, rxVars
  <2>3. y.counter \in 0 .. CounterMod - 1 /\ k \in 1 .. CounterMod /\ k < CounterMod
        /\ missed' + 1 = k + 1
    BY <1>5, <2>1, LinkAssumption DEF Frame, Shown, LoseFrame
  <2> HIDE DEF y, k
  <2>4. HasFrame => Behind(lastCounter, y.counter, k)
    BY <2>2 DEF OneRun, k
  <2> QED  BY <2>1, <2>2, <2>3, <2>4, BehindNext
<1> QED  BY <1>4, <1>5

\* A frame that is taken is consecutive exactly when none was lost.
LEMMA TakeCounts ==
    ASSUME Shown, LinkInv, OneRun, RxTake
    PROVE  OneRun' /\ (pktExpected' # 0 => ~Unnoticed)
<1> DEFINE y == rxStream[1]
<1>1. /\ UNCHANGED txVars /\ missed' = 0 /\ lastCounter' = y.counter /\ rxStream' = <<>>
      /\ rxStream # <<>> /\ rxPc = "read" /\ y = Head(rxStream)
      /\ y \in Frame /\ y.epoch = 0 /\ lastCounter \in 0 .. CounterMod - 1
      /\ missed \in 0 .. MaxLoss
  <2>1. rxStream # <<>> /\ rxPc = "read" /\ rxStream' = <<>> /\ lastCounter' = Head(rxStream).counter
    BY DEF RxTake, ReadConsecutive, ReadAfterLoss, TakeFrame, CanRead
  <2>2. Head(rxStream) = y
    BY <2>1, OneInStream DEF LinkInv, ReceiverInv, RxTypeOK
  <2> QED  BY <2>1, <2>2, StreamEpochs DEF RxTake
<1>2. y.counter \in 0 .. CounterMod - 1
  BY <1>1 DEF Frame
<1>3. OneRun'
  <2>1. NextCounter' = (y.counter + 1) % CounterMod
    <3>1. CASE txStream # <<>>
      <4>1. Meets(y, txStream[1]) /\ txStream[1].epoch = y.epoch
        BY <1>1, <3>1, StreamEpochs DEF LinkInv, Seams
      <4> QED  BY <1>1, <3>1, <4>1 DEF NextCounter, Meets, txVars
    <3>2. CASE txStream = <<>>
      <4>1. MeetsWorker(y) /\ SenderRuns
        BY <1>1, <3>2 DEF LinkInv, Seams, SenderInv
      <4>2. (IF txPc = "begin" THEN counter ELSE frame.counter) = (y.counter + 1) % CounterMod
        <5> HIDE DEF y
        <5> QED  BY <1>1, <4>1, WorkerCounts
      <4> QED  BY <1>1, <3>2, <4>2 DEF NextCounter, txVars, fillVars
    <3> QED  BY <3>1, <3>2
  <2>2. 1 \in 1 .. CounterMod /\ missed' + 1 = 1
    BY <1>1
  <2> HIDE DEF y
  <2>3. Behind(lastCounter', NextCounter', missed' + 1)
    BY SMTT(30), <1>1, <1>2, <2>1, <2>2, BehindNext
  <2> QED  BY <1>1, <2>3 DEF OneRun, txVars, apiVars
<1>4. ASSUME pktExpected' # 0, Unnoticed
      PROVE  FALSE
  <2>1. y.counter = expectedCounter /\ pktExpected # 0
    BY <1>1, <1>4 DEF RxTake, ReadAfterLoss, ReadConsecutive, Unnoticed, partial
  <2>2. HasFrame
    BY <1>1, <2>1 DEF HasFrame, live, LinkInv, ReceiverInv, Partial
  <2>3. missed # 0
    BY <1>1, <1>4, <2>2, StreamEpochs DEF Unnoticed, Contiguous
  <2>4. Behind(lastCounter, y.counter, missed + 1)
    BY <1>1, <2>2 DEF OneRun, NextCounter
  <2>5. missed + 1 \in 1 .. CounterMod /\ missed + 1 > 1
    BY <1>1, <2>3, LinkAssumption DEF Shown
  <2> HIDE DEF y
  <2> QED  BY <1>1, <2>1, <2>4, <2>5, BehindNext DEF expectedCounter
<1> QED  BY <1>3, <1>4

\* The rest of what the receiver does leaves the count alone.
LEMMA ReceiverCounts ==
    ASSUME LinkInv, OneRun, RxExtract \/ RxCopy \/ RxFinish \/ RxControl \/ RxLeave
    PROVE  OneRun'
<1>1. UNCHANGED txVars /\ UNCHANGED <<missed, rxStream>>
  BY DEF RxExtract, RxCopy, RxFinish, RxControl, RxLeave, ghosts, SkipRest, ParseHeader,
         CopyPart, FinishPacket, StopRx, JoinRx, StartRx, RxExit
<1>2. HasFrame' => HasFrame /\ lastCounter' = lastCounter
  <2>1. CASE StartRx
    <3>1. ~HasFrame'
      BY <2>1, NoFrameIsNone DEF StartRx, HasFrame
    <3> QED  BY <3>1
  <2>2. CASE RxExtract \/ RxCopy \/ RxFinish \/ StopRx
    <3>1. rxFrame' = rxFrame /\ live' = live /\ lastCounter' = lastCounter
      BY <2>2 DEF RxExtract, RxCopy, RxFinish, SkipRest, ParseHeader, CopyPart, FinishPacket,
                  StopRx, cursor, live, NextTurn, CanParse
    <3> QED  BY <3>1 DEF HasFrame
  <2>3. CASE JoinRx \/ RxLeave
    <3>1. ~live'
      BY <2>3 DEF JoinRx, RxLeave, RxExit, live
    <3> QED  BY <3>1 DEF HasFrame
  <2> QED  BY <2>1, <2>2, <2>3 DEF RxControl
<1>3. NextCounter' = NextCounter
  BY <1>1 DEF NextCounter, txVars, fillVars
<1> QED  BY <1>1, <1>2, <1>3 DEF OneRun, txVars, apiVars

\* Every step keeps what holds while gaps are noticed.
LEMMA NoticedSteps ==
    ASSUME Shown, LinkInv, ServiceInv, NoticedInv, LinkNext
    PROVE  NoticedInv'
<1>1. OneRun /\ Whole /\ Unharmed /\ Latest /\ MaxRestarts = 0
  BY DEF NoticedInv, Shown
<1>2. ~TxAbandon /\ (CarryFrame \/ LoseFrame \/ TxControl \/ TxPack => OneRun')
  BY <1>1, SenderCounts, CarryCounts
<1>3. rxEpoch \in Nat /\ delivered \in Seq(Seq(Cell)) /\ spliced \subseteq 1 .. Len(delivered)
  BY DEF LinkInv, ReceiverInv, RxTypeOK, Ghosts
<1>4. CASE CarryFrame \/ LoseFrame \/ TxControl \/ TxPack
  <2>1. UNCHANGED <<delivered, spliced, tainted, readerStop>>
    BY <1>4 DEF CarryFrame, LoseFrame, TxControl, TxPack, rxVars, rxApi, ghosts
  <2>2. harmed' = harmed \/ missed < MaxLoss
    BY <1>4 DEF CarryFrame, LoseFrame, TxControl, TxPack, ghosts
  <2>3. MaxLoss = 0 => ~(missed < MaxLoss)
    BY DEF LinkInv, Ghosts
  <2> QED  BY <1>1, <1>2, <1>4, <2>1, <2>2, <2>3
           DEF NoticedInv, Whole, Unharmed, Latest, LastId, IntactIds
<1>5. CASE RxTake
  <2>1. /\ UNCHANGED <<delivered, spliced, harmed, readerStop>>
        /\ tainted' = (pktExpected' # 0 /\ (tainted \/ Unnoticed))
    BY <1>5 DEF RxTake, ReadConsecutive, ReadAfterLoss, TakeFrame, rxApi
  <2>2. OneRun' /\ ~tainted'
    BY <1>1, <1>5, <2>1, TakeCounts DEF Whole
  <2> QED  BY <1>1, <2>1, <2>2 DEF NoticedInv, Whole, Unharmed, Latest, LastId, IntactIds
<1>6. CASE RxExtract \/ RxCopy \/ RxControl
  <2>1. /\ UNCHANGED <<delivered, spliced, tainted>>
        /\ harmed' = harmed \/ harmed' = harmed \cup (Copied \ {NoPacket})
    BY <1>6 DEF RxExtract, RxCopy, RxControl, SkipRest, ParseHeader, CopyPart, StopRx, JoinRx,
                StartRx, ghosts
  <2>2. harmed' = harmed
    BY <1>1, <2>1 DEF Copied, Whole
  <2>3. MaxRxRestarts = 0 /\ ~readerStop => ~readerStop'
    BY <1>3, <1>6 DEF RxExtract, RxCopy, RxControl, SkipRest, ParseHeader, CopyPart, StopRx,
                      JoinRx, StartRx, rxApi
  <2>4. OneRun'
    BY <1>1, <1>6, ReceiverCounts
  <2> QED  BY <1>1, <2>1, <2>2, <2>3, <2>4
           DEF NoticedInv, Whole, Unharmed, Latest, LastId, IntactIds
<1>7. CASE RxFinish
  <2>1. ~tainted /\ spliced = {}
    BY <1>1 DEF Whole
  <2>2. PICK b : HandsOver(b)
    BY <1>7, <2>1, FinishClean
  <2>3. /\ spliced' = {} /\ ~tainted' /\ readerStop' = readerStop
        /\ harmed' = harmed \cup (Copied \ {NoPacket})
    BY <1>7, <2>1 DEF RxFinish, FinishPacket, rxApi
  <2>4. harmed' = harmed
    BY <2>1, <2>3 DEF Copied
  <2>5. IntactIds' = IntactIds \cup {b[1].id}
    <3>1. /\ delivered' = Append(delivered, b)
          /\ spliced' = IF tainted THEN spliced \cup {Len(delivered) + 1} ELSE spliced
      BY <1>7, <2>2 DEF HandsOver, RxFinish
    <3> QED  BY <1>3, <2>1, <3>1, HandedOver
  <2>6. LastId' = b[1].id
    BY <1>3, <2>2 DEF HandsOver, LastId
  <2>7. \A n \in IntactIds : n < b[1].id
    BY <2>2 DEF HandsOver, ServiceInv, Route, ReceiverOrder, Below
  <2>8. b[1].id \in Nat /\ \A n \in IntactIds : n \in Nat
    BY <2>2, WayAccepted DEF HandsOver, ServiceInv, Reached
  <2>9. Latest'
    BY <2>5, <2>6, <2>7, <2>8 DEF Latest
  <2>10. OneRun'
    BY <1>1, <1>7, ReceiverCounts
  <2> QED  BY <1>1, <2>3, <2>4, <2>9, <2>10 DEF NoticedInv, Whole, Unharmed
<1>8. CASE RxLeave
  <2>1. UNCHANGED <<delivered, spliced, readerStop>> /\ ~tainted' /\ readerStop
    BY <1>8 DEF RxLeave, RxExit, rxApi
  <2>2. OneRun'
    BY <1>1, <1>8, ReceiverCounts
  <2> QED  BY <1>1, <2>1, <2>2 DEF NoticedInv, Whole, Unharmed, Latest, LastId, IntactIds
<1> QED  BY <1>2, <1>4, <1>5, <1>6, <1>7, <1>8 DEF LinkNext

\* So does a step that changes nothing.
LEMMA NoticedStutters == NoticedInv /\ UNCHANGED vars => NoticedInv'
  BY DEF NoticedInv, OneRun, Whole, Unharmed, Latest, LastId, IntactIds, HasFrame, live,
         NextCounter, vars, txVars, apiVars, fillVars, rxVars, rxApi, cursor, ghosts

\* It holds in the first state.
LEMMA NoticedInitially == LinkInit => NoticedInv
<1> SUFFICES ASSUME LinkInit PROVE NoticedInv
  OBVIOUS
<1>1. ~HasFrame
  BY NoFrameIsNone DEF LinkInit, RxInit, HasFrame
<1>2. IntactIds = {}
  BY DEF LinkInit, RxInit, IntactIds
<1> QED  BY <1>1, <1>2 DEF NoticedInv, OneRun, Whole, Unharmed, Latest, LinkInit, TxInit, RxInit

(***************************************************************************)
(* The counter shows every gap as long as the sender runs on and fewer     *)
(* frames than the counter has values are lost in a row: no packet is put  *)
(* together from both sides of a gap (GapsCancel), which a restart of the  *)
(* sender breaks (receiver.cpp:92-103).                                    *)
(***************************************************************************)
THEOREM GapsAreNoticed == Shown /\ LinkSpec => [](NoticedInv /\ GapsCancel)
<1>1. LinkInit => NoticedInv
  BY NoticedInitially
<1>2. ASSUME Shown
      PROVE  LinkInv /\ ServiceInv /\ NoticedInv /\ [LinkNext]_vars => NoticedInv'
  BY <1>2, NoticedSteps, NoticedStutters
<1>3. NoticedInv => GapsCancel
  BY DEF NoticedInv, Whole, GapsCancel
<1>4. ASSUME Shown PROVE LinkSpec => [](NoticedInv /\ GapsCancel)
  BY <1>1, <1>2, <1>3, <1>4, LinkInvariance, ServiceInvariance, PTL DEF LinkSpec
<1> QED  BY <1>4

----------------------------------------------------------------------------
(* The refinement. *)

\* What onPacket got, as the service sees it.
Handed == [i \in 1 .. Len(delivered) |->
              IF Intact(delivered[i]) THEN delivered[i][1].id ELSE NoPacket]

\* Every packet handed over is intact and known by its number.
LEMMA HandedIds ==
    ASSUME Integrity, Whole, delivered \in Seq(Seq(Cell))
    PROVE  /\ Len(Handed) = Len(delivered) /\ (Handed = <<>> <=> delivered = <<>>)
           /\ \A i \in 1 .. Len(delivered) : Handed[i] = delivered[i][1].id
           /\ Handed # <<>> => Handed[Len(Handed)] = LastId
<1>1. \A i \in 1 .. Len(delivered) : Intact(delivered[i])
  BY DEF Integrity, Whole
<1>2. /\ \A i \in 1 .. Len(delivered) : Handed[i] = delivered[i][1].id
      /\ Len(delivered) \in Nat /\ DOMAIN Handed = 1 .. Len(delivered)
  BY <1>1 DEF Handed
<1>3. Len(Handed) = Len(delivered) /\ (Handed = <<>> <=> delivered = <<>>)
  BY SMTT(30), <1>2 DEF Handed
<1> QED  BY <1>2, <1>3 DEF LastId

(***************************************************************************)
(* A packet handed over is the service's Deliver: it comes behind the last *)
(* one, and what lies between the two is on no place of the way.           *)
(***************************************************************************)
LEMMA FinishDelivers ==
    ASSUME LinkInv, LinkInv', ServiceInv, NoticedInv, NoticedInv', RxFinish,
           MaxLoss = 0 => MaxRxRestarts = 0
    PROVE  Service!Deliver
<1>1. ~tainted /\ harmed \subseteq 1 .. Len(accepted) /\ Route
  BY DEF NoticedInv, Whole, LinkInv, Ghosts, ServiceInv
<1>2. PICK b : HandsOver(b)
  BY <1>1, FinishClean
<1> DEFINE n == b[1].id
<1>3. /\ delivered' = Append(delivered, b) /\ n \in InHand
      /\ \A m \in InHand : m = n \/ n < m
  BY <1>2 DEF HandsOver
<1>4. UNCHANGED accepted
  BY DEF RxFinish, txVars, apiVars
<1>5. delivered \in Seq(Seq(Cell)) /\ delivered' \in Seq(Seq(Cell))
  BY DEF LinkInv, ReceiverInv, RxTypeOK
<1>6. /\ Len(Handed) = Len(delivered) /\ (Handed = <<>> <=> delivered = <<>>)
      /\ \A i \in 1 .. Len(delivered) : Handed[i] = delivered[i][1].id
      /\ Handed # <<>> => Handed[Len(Handed)] = LastId
  BY <1>5, HandedIds DEF NoticedInv, LinkInv, ReceiverInv
<1>7. Handed' = Append(Handed, n)
  <2>1. \A i \in 1 .. Len(delivered') : Intact(delivered'[i])
    BY DEF NoticedInv, Whole, LinkInv, ReceiverInv, Integrity
  <2>2. Handed' = [i \in 1 .. Len(delivered) + 1 |-> delivered'[i][1].id]
    BY <1>3, <1>5, <2>1 DEF Handed
  <2>3. \A i \in 1 .. Len(delivered) : delivered'[i][1].id = Handed[i]
    BY <1>3, <1>5, <1>6
  <2>4. delivered'[Len(delivered) + 1] = b
    BY <1>3, <1>5
  <2> QED  BY <1>6, <2>2, <2>3, <2>4
<1>8. n \in 1 .. Len(accepted) /\ accepted[n] # 0
  <2>1. MadeOf(accepted, rxFrame) /\ {o \in Offsets : o >= ResumeAt} \subseteq Offsets
    BY DEF LinkInv, Arrived
  <2> QED  BY <1>3, <2>1, EndsMade, EndsSized DEF InHand
<1>9. Service!LastHanded = LastId
  BY <1>6 DEF Service!LastHanded, Handed, LastId
<1>10. LastId \in Nat /\ LastId < n /\ (LastId # 0 => LastId \in IntactIds)
  <2>1. CASE delivered = <<>>
    BY <1>8, <2>1 DEF LastId
  <2>2. CASE delivered # <<>>
    <3>1. LastId \in IntactIds
      BY <1>5, <2>2 DEF LastId, IntactIds, NoticedInv, Whole
    <3>2. LastId < n /\ LastId \in 1 .. Len(accepted)
      BY <1>1, <1>3, <3>1 DEF Route, ReceiverOrder, Below
    <3> QED  BY <3>1, <3>2
  <2> QED  BY <2>1, <2>2
<1>11. ASSUME NEW m \in LastId + 1 .. n - 1
       PROVE  Service!Skippable(m)
  <2>1. m \in 1 .. Len(accepted) /\ m < n /\ LastId < m /\ m \in Nat /\ n \in Nat
    BY <1>8, <1>10, <1>11
  <2>2. m \notin IntactIds
    BY <1>10, <2>1 DEF NoticedInv, Latest
  <2>3. m \notin InHand
    BY <1>3, <2>1
  <2>4. m \notin InStream(rxStream) \cup Leaving
    BY <1>1, <1>3, <2>1 DEF Route, ReceiverOrder, Below, Reached
  <2>5. accepted[m] = 0 \/ m \in harmed
    BY <1>1, <2>1, <2>2, <2>3, <2>4 DEF Route, Coverage, Reached
  <2>6. MaxLoss = 0 \/ MaxLoss > 0
    BY LinkAssumption
  <2> QED  BY <2>5, <2>6 DEF Service!Skippable, NoticedInv, Unharmed
<1> HIDE DEF n
<1>12. /\ n \in Service!LastHanded + 1 .. Len(accepted)
       /\ \A m \in Service!LastHanded + 1 .. n - 1 : Service!Skippable(m)
  BY <1>8, <1>9, <1>10, <1>11
<1> QED  BY <1>4, <1>7, <1>8, <1>12 DEF Service!Deliver, Handed

(***************************************************************************)
(* The link implements the packet service: what onPacket gets are whole    *)
(* packets that send() took, in order, none twice, and with no loss and no *)
(* stop none missing.  A stop of the receiver loses the packet that is     *)
(* open, so without it a link that loses no frame is still not lossless.   *)
(***************************************************************************)
THEOREM LinkImplementsService ==
    ASSUME Shown, MaxLoss = 0 => MaxRxRestarts = 0
    PROVE  LinkSpec => ImplementsService
<1>1. LinkInit => Service!ServiceInit
  BY DEF LinkInit, TxInit, RxInit, Service!ServiceInit
<1>2. ASSUME LinkInv, LinkInv', ServiceInv, NoticedInv, NoticedInv', [LinkNext]_vars
      PROVE  [Service!ServiceNext]_<<accepted, Handed>>
  <2>1. CASE SendAccepted /\ UNCHANGED <<rxVars, ghosts>>
    <3>1. /\ \E s \in Sizes : accepted' = Append(accepted, s)
          /\ Handed' = Handed
      BY <2>1 DEF SendAccepted, rxVars, Handed
    <3> QED  BY <3>1 DEF Service!ServiceNext, Service!Accept, Handed
  <2>2. CASE RxFinish
    BY <1>2, <2>2, FinishDelivers DEF Service!ServiceNext
  <2>3. CASE UNCHANGED <<accepted, delivered>>
    BY <2>3 DEF Handed
  <2>4. CASE CarryFrame \/ LoseFrame \/ TxPack \/ TxAbandon
    BY <2>3, <2>4 DEF CarryFrame, LoseFrame, TxPack, TxAbandon, AbandonFrame, BeginFrame,
       FillFrame, SendFrame, PadShort, PadIdle, StartPacket, ContinuePacket, apiVars, rxVars
  <2>5. CASE TxControl
    BY <2>1, <2>3, <2>5 DEF TxControl, StopTx, JoinTx, StartTx, rxVars
  <2>6. CASE RxTake \/ RxExtract \/ RxCopy \/ RxControl \/ RxLeave
    BY <2>3, <2>6 DEF RxTake, RxExtract, RxCopy, RxControl, RxLeave, ReadConsecutive,
       ReadAfterLoss, TakeFrame, SkipRest, ParseHeader, CopyPart, StopRx, JoinRx, StartRx,
       RxExit, txVars, apiVars
  <2>7. CASE UNCHANGED vars
    BY <2>3, <2>7 DEF vars, txVars, apiVars, rxVars
  <2> QED  BY <1>2, <2>2, <2>4, <2>5, <2>6, <2>7 DEF LinkNext
<1>3. LinkSpec => []NoticedInv
  BY GapsAreNoticed, PTL
<1>4. [Service!ServiceNext]_<<accepted, Handed>> =>
        [Service!ServiceNext]_<<accepted, [i \in 1 .. Len(delivered) |->
            IF Intact(delivered[i]) THEN delivered[i][1].id ELSE NoPacket]>>
  BY DEF Handed
<1> QED
  BY <1>1, <1>2, <1>3, <1>4, LinkInvariance, ServiceInvariance, PTL
     DEF LinkSpec, ImplementsService, Service!ServiceSpec
=============================================================================
