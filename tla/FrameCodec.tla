----------------------------- MODULE FrameCodec -----------------------------
(***************************************************************************)
(* The Reed-Solomon stage of the modem: RSEncoder makes blocks of a frame, *)
(* interleaves them and scrambles the result; the channel - everything     *)
(* between the two convolutional codecs and what they leave uncorrected -  *)
(* damages symbols; RSDecoder takes it all back, block by block, with one  *)
(* decoder for all blocks and all frames.                                  *)
(***************************************************************************)
EXTENDS ReedSolomon

CONSTANTS
    COUNT,              \* RS_BLOCK_COUNT
    SCRAMBLER,          \* RS_SCRAMBLER_SEQ
    Frames,             \* frames that are sent: sequences of COUNT messages
    Hits                \* what may happen to the first frame, the second, ...: at most
                        \* `most` symbols out of `at` change, each by an element of `by`

SIZE == COUNT * BLOCK           \* symbols on the air

ASSUME FrameCodecAssumption ==
    /\ COUNT \in Nat \ {0}
    /\ SCRAMBLER \in [0 .. SIZE - 1 -> Elements]
    /\ \A f \in Frames : f \in [1 .. COUNT -> [1 .. MESSAGE -> Elements]]
    /\ Len(Hits) \in Nat /\ DOMAIN Hits = 1 .. Len(Hits)
    /\ \A n \in DOMAIN Hits :
          Hits[n].at \subseteq 0 .. SIZE - 1 /\ Hits[n].by \subseteq Elements \ {0}

VARIABLES
    pc, frameNo,        \* where the frame is, and which one it is
    data, damage,       \* what was sent and what the channel added
    in,                 \* the buffer RSDecoder::decode is given
    block, turn,        \* its block; the turn of Berlekamp-Massey
    rs,                 \* the instance of correct_reed_solomon
    out                 \* the messages written so far

channel == <<frameNo, data, damage>>
vars == <<pc, channel, in, block, turn, rs, out>>

----------------------------------------------------------------------------
(* RSEncoder::encode *)

Scramble(symbols) == [j \in 0 .. SIZE - 1 |-> Add(symbols[j], SCRAMBLER[j])]

Interleaved(blocks) ==
    [j \in 0 .. SIZE - 1 |-> blocks[(j % COUNT) + 1][(j \div COUNT) + 1]]

encode(frame) == Scramble(Interleaved([b \in 1 .. COUNT |-> Encode(frame[b])]))

----------------------------------------------------------------------------
(* The channel. *)

Silence == [j \in 0 .. SIZE - 1 |-> 0]

Init ==
    /\ pc = "receive" /\ frameNo = 0
    /\ data = <<>> /\ damage = Silence
    /\ in = Silence /\ block = 0 /\ turn = 0
    /\ rs = NewDecoder /\ out = <<>>

Send ==
    /\ pc \in {"receive", "delivered", "dropped"} /\ frameNo < Len(Hits)
    /\ pc' = "air" /\ frameNo' = frameNo + 1
    /\ data' \in Frames /\ damage' = Silence
    /\ in' = encode(data')
    /\ block' = 0 /\ out' = <<>>
    /\ UNCHANGED <<turn, rs>>

\* The symbols are hit in their order: the order makes no difference.
Hit ==
    /\ pc = "air"
    /\ LET hits == Hits[frameNo]
           struck == {j \in 0 .. SIZE - 1 : damage[j] # 0}
       IN  /\ Cardinality(struck) < hits.most
           /\ \E j \in hits.at, v \in hits.by :
                 /\ \A k \in struck : k < j
                 /\ damage' = [damage EXCEPT ![j] = v]
                 /\ in' = [in EXCEPT ![j] = Add(@, v)]
    /\ UNCHANGED <<pc, frameNo, data, block, turn, rs, out>>

----------------------------------------------------------------------------
(* RSDecoder::run and RSDecoder::decode *)

Receive ==
    /\ pc = "air" /\ pc' = "block"
    /\ in' = Scramble(in)
    /\ UNCHANGED <<channel, block, turn, rs, out>>

Deinterleave(b) == [k \in 1 .. BLOCK |-> in[b + (k - 1) * COUNT]]

\* A block is done: the next one, or the frame goes to the output.
Written(decoder) ==
    /\ out' = Append(out, MessageOf(decoder))
    /\ block' = block + 1
    /\ pc' = IF block + 1 = COUNT THEN "delivered" ELSE "block"

BeginBlock ==
    /\ pc = "block"
    /\ rs' = Syndromes(rs, Deinterleave(block))
    /\ ~AllZero(rs')
    /\ pc' = "locator" /\ turn' = 0
    /\ UNCHANGED <<channel, in, block, out>>

CleanBlock ==
    /\ pc = "block"
    /\ rs' = Syndromes(rs, Deinterleave(block))
    /\ AllZero(rs')
    /\ Written(rs')
    /\ UNCHANGED <<channel, in, turn>>

FindLocator ==
    /\ pc = "locator"
    /\ rs' = LocatorTurn(IF turn = 0 THEN LocatorInit(rs) ELSE rs, turn)
    /\ turn' = turn + 1
    /\ pc' = IF turn + 1 = NROOTS THEN "roots" ELSE pc
    /\ UNCHANGED <<channel, in, block, out>>

\* Fewer roots than the order, or more: more errors than can be found.
\* Mutant: any root will do.
DecodableSome(found) == found # {}
Decodable(found) == Cardinality(found) = rs.order

FindRoots ==
    /\ pc = "roots"
    /\ \E found \in Found(rs) :
          /\ Cardinality(found) <= 2 * NROOTS
          /\ rs' = Factorize(rs, found)
          /\ pc' = IF Decodable(found) THEN "values" ELSE "dropped"
    /\ UNCHANGED <<channel, in, block, turn, out>>

\* Undefined behaviour: more roots than there is room for are written, from the end of
\* the buffer on over what lies behind it.  The model ends there.
OverrunRoots ==
    /\ pc = "roots" /\ pc' = "overrun"
    /\ \E found \in Found(rs) :
          /\ Cardinality(found) > 2 * NROOTS
          /\ rs' = Factorize(rs, found)
    /\ UNCHANGED <<channel, in, block, turn, out>>

FindValues ==
    /\ pc = "values" /\ pc' = "repair"
    /\ rs' = Values(Locations(rs))
    /\ UNCHANGED <<channel, in, block, turn, out>>

RepairBlock ==
    /\ pc = "repair"
    /\ rs' = Repair(rs)
    /\ Written(rs')
    /\ UNCHANGED <<channel, in, turn>>

Finished ==
    /\ pc = "overrun" \/ (pc \in {"delivered", "dropped"} /\ frameNo = Len(Hits))
    /\ UNCHANGED vars

Next == \/ Send \/ Hit \/ Receive \/ BeginBlock \/ CleanBlock \/ FindLocator
        \/ FindRoots \/ OverrunRoots \/ FindValues \/ RepairBlock \/ Finished

Spec == Init /\ [][Next]_vars

----------------------------------------------------------------------------
(* Properties. *)

Radius == NROOTS \div 2
StruckIn(b) == {k \in 1 .. BLOCK : damage[b + (k - 1) * COUNT] # 0}

(***************************************************************************)
(* A frame with at most half as many wrong symbols in a block as there are *)
(* symbols of parity is delivered as it was sent, wherever the symbols are *)
(* and whatever a frame before it, delivered or dropped halfway, left in   *)
(* the buffers of the decoder (decode.c:299-379, rs_codec.cpp:66-90).  Nor *)
(* does the decoder write behind its roots for such a frame.               *)
(***************************************************************************)
Corrected ==
    /\ pc \in {"dropped", "overrun"} => \E b \in 0 .. COUNT - 1 : Cardinality(StruckIn(b)) > Radius
    /\ pc = "delivered" /\ (\A b \in 0 .. COUNT - 1 : Cardinality(StruckIn(b)) <= Radius)
         => out = data

(***************************************************************************)
(* Beyond that the decoder may give up or take the block for another one,  *)
(* but what it repairs is a word of the code, so that a locator with the   *)
(* right number of roots is not one that only happens to fit               *)
(* (decode.c:141-144).  A locator of the largest order is left out: its    *)
(* roots are read from behind the table (decode.c:130-133).                *)
(***************************************************************************)
IsWord(poly) == \A i \in 0 .. NROOTS - 1 : EvalTable(poly, BLOCK - 1, RootPowers[i]) = 0
RepairedIsWord == [][RepairBlock /\ rs.order < NROOTS => IsWord(rs'.received)]_vars

(***************************************************************************)
(* The type invariant, with the bounds of the buffers: what is located is  *)
(* in the block (decode.c:203-206), the locators keep within their         *)
(* NROOTS + 1 coefficients although nothing in the loop looks at their     *)
(* size ("the bounds here will be ok since we have a headroom of           *)
(* numerrors", decode.c:71), and the order is 1 at least when the          *)
(* derivative is taken (decode.c:182).  The roots, which nothing counts as *)
(* they are written (decode.c:136-138), are no more than the order of the  *)
(* locator while the search reads what the tables have, and keep within    *)
(* their 2 * NROOTS entries but for a locator of the largest order, NROOTS.*)
(***************************************************************************)
InBounds ==
    /\ pc \in {"receive", "air", "block", "locator", "roots", "values", "repair",
               "delivered", "dropped", "overrun"}
    /\ frameNo \in 0 .. Len(Hits) /\ block \in 0 .. COUNT /\ turn \in 0 .. NROOTS
    /\ in \in [0 .. SIZE - 1 -> Elements] /\ damage \in [0 .. SIZE - 1 -> Elements]
    /\ rs.received \in [0 .. BLOCK - 1 -> Elements]
    /\ rs.locator \in [0 .. NROOTS -> Elements] /\ rs.last \in [0 .. NROOTS -> Elements]
    /\ rs.locations \in [0 .. NROOTS - 1 -> 0 .. BLOCK - 1]
    /\ pc = "locator" /\ turn > 0 /\ Discrepancy(rs, turn) # 0 => Reach(rs) <= NROOTS
    /\ pc \in {"roots", "values"} => rs.order \in 1 .. NROOTS
    /\ pc \in {"values", "repair", "dropped", "overrun"} =>
          \/ rs.numroots <= rs.order
          \/ rs.order = NROOTS /\ (rs.numroots <= 2 * NROOTS \/ pc = "overrun")
=============================================================================
