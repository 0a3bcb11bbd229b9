---------------------------- MODULE FramingProofs ----------------------------
(***************************************************************************)
(* What the deframer promises for every sync word, frame length and        *)
(* tolerance: the types of its state, that it recognizes a sync word whose *)
(* symbols it has, in the right rotation and in no other, and that what it *)
(* cuts out behind it is the frame's data.                                 *)
(*                                                                         *)
(* That it has those symbols, and does not take data for a sync word, is a *)
(* matter of the bits of the sync word and of the payload: BackInStep and  *)
(* GarbageHasCause hold for some and not for others, and are left to TLC.  *)
(***************************************************************************)
EXTENDS Framing, FiniteSetTheorems, TLAPS

USE FramingAssumption

(***************************************************************************)
(* The tolerance is less than half the distance between two rotations      *)
(* (framing.cpp:121 with framing.h:7-13: 6 and 32).                        *)
(***************************************************************************)
Separated == Tolerance > 0 /\ 2 * Tolerance <= SYNC_SYMS + 1

----------------------------------------------------------------------------
(* Symbols and the register. *)

Register == {reg \in Seq(Quadrants) : Len(reg) = SYNC_SYMS}

\* Rotations are rotations.
LEMMA Turned ==
    ASSUME NEW q \in Quadrants, NEW k \in Quadrants
    PROVE  /\ Turn(q, k) \in Quadrants /\ TurnBack(q, k) \in Quadrants
           /\ Turn(q, k + 1) \in Quadrants
           /\ TurnBack(Turn(q, k), k) = q
BY DEF Turn, TurnBack, Quadrants

\* The numbers of symbols.
LEMMA Sizes ==
    /\ SYNC_SYMS \in Nat \ {0} /\ Period \in Nat \ {0} /\ Period = SYNC_SYMS + DataSyms
    /\ \A i \in 1 .. SYNC_SYMS : SYNC_WORD[i] \in Quadrants
<1>1. SYNC_SYMS \in Nat /\ SYNC_SYMS > 0
  BY DEF SYNC_SYMS
<1>2. \A i \in 1 .. SYNC_SYMS : SYNC_WORD[i] \in Quadrants
  BY DEF SYNC_SYMS
<1> QED  BY <1>1, <1>2 DEF Period

\* The framer's symbols: the sync word, and then the data.
LEMMA Encoded ==
    ASSUME NEW p \in Payloads, NEW i \in 1 .. Period
    PROVE  /\ Encode(p)[i] \in Quadrants
           /\ i <= SYNC_SYMS => Encode(p)[i] = SYNC_WORD[i]
           /\ i > SYNC_SYMS => /\ i - SYNC_SYMS \in 1 .. Len(p)
                               /\ Encode(p)[i] = p[i - SYNC_SYMS]
<1>1. p \in Seq(Quadrants) /\ Len(p) = DataSyms /\ SYNC_WORD \in Seq(Quadrants)
  OBVIOUS
<1>2. CASE i <= SYNC_SYMS
  <2>1. i \in 1 .. Len(SYNC_WORD)
    BY <1>2, Sizes DEF SYNC_SYMS
  <2>2. Encode(p)[i] = SYNC_WORD[i]
    BY <1>1, <2>1 DEF Encode
  <2> QED  BY <1>2, <2>1, <2>2, Sizes DEF SYNC_SYMS
<1>3. CASE i > SYNC_SYMS
  <2>1. i - SYNC_SYMS \in 1 .. Len(p) /\ i \in Len(SYNC_WORD) + 1 .. Len(SYNC_WORD) + Len(p)
    BY <1>1, <1>3, Sizes DEF SYNC_SYMS
  <2>2. Encode(p)[i] = p[i - SYNC_SYMS]
    BY <1>1, <2>1 DEF Encode, SYNC_SYMS
  <2> QED  BY <1>1, <1>3, <2>1, <2>2, Sizes
<1> QED  BY <1>2, <1>3, Sizes

\* What arrives is a symbol.
LEMMA SampleType ==
    ASSUME airPos \in 0 .. Period - 1, payload \in Payloads, phase \in Quadrants
    PROVE  Sample \in Quadrants
<1> DEFINE q == Encode(payload)[airPos + 1]
           e == IF airPos + 1 \in damage THEN 1 ELSE 0
<1>1. airPos + 1 \in 1 .. Period
  BY Sizes
<1>2. q \in Quadrants
  BY <1>1, Encoded
<1>3. e \in {0, 1} /\ phase + 0 = phase
  BY DEF Quadrants
<1>4. Sample = Turn(q, phase + e)
  BY DEF Sample
<1> HIDE DEF q, e
<1> QED  BY <1>2, <1>3, <1>4, Turned

\* The register loses its oldest symbol and gets a new one.
LEMMA PushedType ==
    ASSUME shift \in Register, Sample \in Quadrants
    PROVE  /\ Pushed \in Register
           /\ \A i \in 1 .. SYNC_SYMS - 1 : Pushed[i] = shift[i + 1]
           /\ Pushed[SYNC_SYMS] = Sample
<1>1. shift \in Seq(Quadrants) /\ Len(shift) = SYNC_SYMS /\ shift # <<>>
  BY Sizes DEF Register
<1>2. /\ Tail(shift) \in Seq(Quadrants) /\ Len(Tail(shift)) = SYNC_SYMS - 1
      /\ \A i \in 1 .. SYNC_SYMS - 1 : Tail(shift)[i] = shift[i + 1]
  BY <1>1, Sizes
<1> QED  BY <1>2, Sizes DEF Pushed, Register

----------------------------------------------------------------------------
(* The search. *)

\* The search ends in a rotation, a new one only if it has hit.
LEMMA MatchType ==
    ASSUME NEW reg, knownRot \in Quadrants
    PROVE  /\ Match(reg).hit \in BOOLEAN /\ Match(reg).rot \in Quadrants
<1> DEFINE Found == [hit : BOOLEAN, rot : Quadrants]
<1>1. ASSUME NEW found \in Found, NEW i \in Quadrants
      PROVE  Try(reg, found, i) \in Found
  <2>1. (found.rot + i) % 4 \in Quadrants
    BY DEF Quadrants
  <2> QED  BY <2>1 DEF Try
<1>2. [hit |-> FALSE, rot |-> knownRot] \in Found
  OBVIOUS
<1>3. 0 \in Quadrants /\ 1 \in Quadrants /\ 2 \in Quadrants /\ 3 \in Quadrants
  BY DEF Quadrants
<1> HIDE DEF Found
<1>4. Match(reg) \in Found
  BY <1>1, <1>2, <1>3 DEF Match
<1> QED  BY <1>4 DEF Found

(***************************************************************************)
(* If the register is close to one rotation of the sync word and to no     *)
(* other, the search finds that one, whichever was the last known: it goes *)
(* on after the hit, but comes back to this rotation only after 360        *)
(* degrees.                                                                *)
(***************************************************************************)
LEMMA MatchOnly ==
    ASSUME NEW reg, knownRot \in Quadrants, NEW r \in Quadrants,
           \A k \in Quadrants : Distance(reg, k) < Tolerance <=> k = r
    PROVE  Match(reg) = [hit |-> TRUE, rot |-> r]
<1> DEFINE none == [hit |-> FALSE, rot |-> knownRot]
           this == [hit |-> TRUE, rot |-> r]
<1>1. ASSUME NEW i \in Quadrants
      PROVE  /\ (knownRot + i) % 4 = r => Try(reg, none, i) = this
             /\ (knownRot + i) % 4 # r => Try(reg, none, i) = none
             /\ i # 0 => Try(reg, this, i) = this
  <2>1. (knownRot + i) % 4 \in Quadrants /\ (r + i) % 4 \in Quadrants
        /\ (i # 0 => (r + i) % 4 # r)
    BY DEF Quadrants
  <2>2. \A found : found.rot \in Quadrants /\ (found.rot + i) % 4 \in Quadrants =>
            Try(reg, found, i) =
                IF (found.rot + i) % 4 = r
                THEN [hit |-> TRUE, rot |-> (found.rot + i) % 4] ELSE found
    BY DEF Try
  <2>3. none.rot = knownRot /\ this.rot = r
    OBVIOUS
  <2> HIDE DEF none
  <2>4. Try(reg, none, i) = IF (knownRot + i) % 4 = r
                            THEN [hit |-> TRUE, rot |-> (knownRot + i) % 4] ELSE none
    BY <2>1, <2>2, <2>3
  <2>5. i # 0 => Try(reg, this, i) = this
    <3> HIDE DEF this
    <3> QED  BY <2>1, <2>2, <2>3
  <2> QED  BY <2>4, <2>5
<1>2. PICK d \in Quadrants : /\ (knownRot + d) % 4 = r
                             /\ \A i \in Quadrants : i # d => (knownRot + i) % 4 # r
  <2>1. \/ (knownRot + 0) % 4 = r \/ (knownRot + 1) % 4 = r
        \/ (knownRot + 2) % 4 = r \/ (knownRot + 3) % 4 = r
    BY DEF Quadrants
  <2>2. \A i, j \in Quadrants : i # j => (knownRot + i) % 4 # (knownRot + j) % 4
    BY DEF Quadrants
  <2>3. \E i \in Quadrants : (knownRot + i) % 4 = r
    BY <2>1 DEF Quadrants
  <2> QED  BY <2>2, <2>3
<1>3. /\ Quadrants = {0, 1, 2, 3}
      /\ Match(reg) = Try(reg, Try(reg, Try(reg, Try(reg, none, 0), 1), 2), 3)
  BY DEF Quadrants, Match
<1> HIDE DEF none, this
<1>4. \A i \in Quadrants : Try(reg, none, i) = IF i = d THEN this ELSE none
  BY <1>1, <1>2
<1>5. Try(reg, this, 1) = this /\ Try(reg, this, 2) = this /\ Try(reg, this, 3) = this
  BY <1>1, <1>3
<1>6. /\ Try(reg, none, 0) = (IF 0 = d THEN this ELSE none)
      /\ Try(reg, none, 1) = (IF 1 = d THEN this ELSE none)
      /\ Try(reg, none, 2) = (IF 2 = d THEN this ELSE none)
      /\ Try(reg, none, 3) = (IF 3 = d THEN this ELSE none)
  BY <1>3, <1>4
<1>7. Match(reg) = this
  <2>1. CASE d = 0
    BY <1>3, <1>5, <1>6, <2>1
  <2>2. CASE d = 1
    BY <1>3, <1>5, <1>6, <2>2
  <2>3. CASE d = 2
    BY <1>3, <1>5, <1>6, <2>3
  <2>4. CASE d = 3
    BY <1>3, <1>5, <1>6, <2>4
  <2> QED  BY <1>3, <2>1, <2>2, <2>3, <2>4
<1> QED  BY <1>7 DEF this
----------------------------------------------------------------------------
(* Distances. *)

\* The register holds the sync word in rotation r, with wrong bits in d.
Holds(reg, r, d) ==
    \A i \in 1 .. SYNC_SYMS : reg[i] = Turn(SYNC_WORD[i], r + (IF i \in d THEN 1 ELSE 0))

\* A distance is a number.
LEMMA DistanceParts ==
    ASSUME NEW reg, NEW k \in Quadrants, NEW D, NEW O,
           D = {i \in 1 .. SYNC_SYMS : reg[i] # Turn(SYNC_WORD[i], k)},
           O = {i \in 1 .. SYNC_SYMS : reg[i] = Turn(SYNC_WORD[i], Turn(k, 2))}
    PROVE  /\ Distance(reg, k) = Cardinality(D) + Cardinality(O)
           /\ Cardinality(D) \in Nat /\ Cardinality(O) \in Nat
           /\ IsFiniteSet(D) /\ IsFiniteSet(O)
<1> DEFINE I == 1 .. SYNC_SYMS
<1>1. Turn(k, 2) \in Quadrants
  BY DEF Turn, Quadrants
<1>2. /\ D = {i \in I : reg[i] # syncRots[k][i]}
      /\ O = {i \in I : reg[i] = syncRots[Turn(k, 2)][i]}
  BY <1>1 DEF syncRots
<1>3. IsFiniteSet(I)
  BY Sizes, FS_Interval
<1>4. D \in SUBSET I /\ O \in SUBSET I
  OBVIOUS
<1>5. IsFiniteSet(D) /\ IsFiniteSet(O)
  BY <1>3, <1>4, FS_Subset
<1>6. Cardinality(D) \in Nat /\ Cardinality(O) \in Nat
  BY <1>5, FS_CardinalityType
<1> QED  BY <1>2, <1>5, <1>6 DEF Distance

(***************************************************************************)
(* A sync word with fewer wrong bits than the tolerance is close to its    *)
(* own rotation and to no other: each symbol that is right is wrong in all *)
(* the others.                                                             *)
(***************************************************************************)
LEMMA OneRotation ==
    ASSUME Separated, NEW reg, NEW r \in Quadrants, NEW d \in Damages,
           Holds(reg, r, d), Cardinality(d) < Tolerance
    PROVE  \A k \in Quadrants : Distance(reg, k) < Tolerance <=> k = r
<1> DEFINE I == 1 .. SYNC_SYMS
<1>1. IsFiniteSet(I) /\ Cardinality(I) = SYNC_SYMS /\ d \in SUBSET I
  BY Sizes, FS_Interval
<1>2. IsFiniteSet(d) /\ Cardinality(d) \in Nat
  BY <1>1, FS_Subset, FS_CardinalityType
<1>3. IsFiniteSet(I \ d) /\ Cardinality(I \ d) = SYNC_SYMS - Cardinality(d)
  <2>1. I \cap d = d
    BY <1>1
  <2> HIDE DEF I
  <2>2. Cardinality(I \ d) = Cardinality(I) - Cardinality(I \cap d)
    BY <1>1, FS_Difference
  <2>3. IsFiniteSet(I \ d)
    BY <1>1, FS_Subset
  <2> QED  BY <1>1, <2>1, <2>2, <2>3
<1>4. \A i \in I : SYNC_WORD[i] \in Quadrants
  BY Sizes
<1>5. ASSUME NEW k \in Quadrants
      PROVE  Distance(reg, k) < Tolerance <=> k = r
  <2> DEFINE D == {i \in I : reg[i] # Turn(SYNC_WORD[i], k)}
             O == {i \in I : reg[i] = Turn(SYNC_WORD[i], Turn(k, 2))}
  <2>1. /\ Distance(reg, k) = Cardinality(D) + Cardinality(O)
        /\ Cardinality(D) \in Nat /\ Cardinality(O) \in Nat
        /\ IsFiniteSet(D) /\ IsFiniteSet(O)
    BY DistanceParts
  <2>2. CASE k = r
    <3>1. ASSUME NEW i \in I
          PROVE  /\ i \in D <=> i \in d
                 /\ i \notin O
      <4>1. /\ i \in d => reg[i] = Turn(SYNC_WORD[i], r + 1)
            /\ i \notin d => reg[i] = Turn(SYNC_WORD[i], r)
        BY DEF Holds, Quadrants
      <4>2. \A q \in Quadrants : /\ Turn(q, r + 1) # Turn(q, r)
                                 /\ Turn(q, r + 1) # Turn(q, Turn(r, 2))
                                 /\ Turn(q, r) # Turn(q, Turn(r, 2))
        BY DEF Turn, Quadrants
      <4> QED  BY <1>4, <2>2, <4>1, <4>2
    <3>2. D = d /\ O = {}
      BY <1>1, <3>1
    <3> HIDE DEF D, O
    <3>3. Distance(reg, k) = Cardinality(d)
      BY <1>2, <2>1, <3>2, FS_EmptySet
    <3> QED  BY <2>2, <3>3
  <2>3. CASE k # r
    <3>1. ASSUME NEW i \in I \ d
          PROVE  i \in D
      <4>1. reg[i] = Turn(SYNC_WORD[i], r)
        BY DEF Holds, Quadrants
      <4>2. \A q \in Quadrants : Turn(q, r) # Turn(q, k)
        BY <2>3 DEF Turn, Quadrants
      <4> QED  BY <1>4, <4>1, <4>2
    <3>2. I \ d \in SUBSET D
      BY <3>1
    <3> HIDE DEF D, O, I
    <3>3. Cardinality(I \ d) <= Cardinality(D)
      BY <2>1, <3>2, FS_Subset
    <3> QED  BY <1>2, <1>3, <2>1, <2>3, <3>3, Sizes DEF Separated
  <2> QED  BY <2>2, <2>3
<1> QED  BY <1>5

----------------------------------------------------------------------------
(* The invariant. *)

\* A frame that is not dirty has a sync word that can be recognized.
Recognizable == ~dirty => damage = {} \/ Cardinality(damage) < Tolerance

\* The deframer copies the frame that arrives, from its first symbol of data on,
\* and turns it back by its phase.
InStep == recv > 0 /\ ~dirty /\ knownRot = phase /\ airPos = SYNC_SYMS + Len(writeBuf)

\* What it then has is the beginning of the frame's data.
CopiedSoFar == InStep => \A i \in 1 .. Len(writeBuf) : writeBuf[i] = payload[i]

FrameInv == TypeOK /\ Recognizable /\ CopiedSoFar

\* The channel's half of TypeOK, and the deframer's.
AirTypes ==
    /\ airPos \in 0 .. Period - 1 /\ payload \in Payloads
    /\ phase \in Quadrants /\ damage \in Damages
    /\ dirty \in BOOLEAN /\ calm \in 0 .. 2

DeframerTypes ==
    /\ recv \in 0 .. FrameSyms /\ knownRot \in Quadrants
    /\ writeBuf \in Seq(Quadrants) /\ Len(writeBuf) <= FrameSyms
    /\ recv > 0 => Len(writeBuf) = FrameSyms - recv
    /\ shift \in Register

\* TypeOK by the two sides.
LEMMA Types ==
    /\ TypeOK <=> /\ AirTypes /\ DeframerTypes
                  /\ disturbed \in BOOLEAN /\ upsets \in 0 .. MaxUpsets
BY DEF TypeOK, AirTypes, DeframerTypes, Register

\* The channel goes on.
LEMMA AdvanceTypes ==
    ASSUME AirTypes, Recognizable, NEW spoilt \in BOOLEAN, Advance(spoilt)
    PROVE  AirTypes' /\ Recognizable'
<1>1. CASE airPos < Period - 1
  BY <1>1, Sizes DEF AirTypes, Recognizable, Advance
<1>2. CASE ~(airPos < Period - 1)
  <2>1. /\ airPos' = 0 /\ payload' \in Payloads /\ damage' \in Damages /\ phase' = phase
        /\ dirty' = (Cardinality(damage') >= Tolerance)
        /\ calm' = IF dirty \/ spoilt THEN 0 ELSE IF calm < 2 THEN calm + 1 ELSE 2
    BY <1>2 DEF Advance
  <2>2. damage' \in SUBSET (1 .. SYNC_SYMS)
    BY <2>1
  <2>3. Cardinality(damage') \in Nat
    <3>1. IsFiniteSet(1 .. SYNC_SYMS)
      BY Sizes, FS_Interval
    <3>2. \A d \in SUBSET (1 .. SYNC_SYMS) : Cardinality(d) \in Nat
      BY <3>1, FS_Subset, FS_CardinalityType
    <3> QED  BY <2>2, <3>2
  <2>4. dirty' \in BOOLEAN
    BY <2>1
  <2>5. Recognizable'
    <3>1. Tolerance \in Nat /\ (~dirty' => ~(Cardinality(damage') >= Tolerance))
      BY <2>1
    <3> QED  BY <2>3, <3>1 DEF Recognizable
  <2> QED  BY <2>1, <2>4, <2>5, Sizes DEF AirTypes
<1> QED  BY <1>1, <1>2

\* Where the channel goes on inside a frame, and where it begins the next one.
LEMMA AdvanceInside ==
    ASSUME AirTypes, NEW spoilt \in BOOLEAN, Advance(spoilt), airPos' # 0
    PROVE  /\ airPos' = airPos + 1 /\ UNCHANGED <<payload, phase, damage>>
           /\ ~dirty' => ~dirty /\ ~spoilt
BY Sizes DEF AirTypes, Advance

\* One more symbol is copied.
LEMMA CopiedType ==
    ASSUME AirTypes, DeframerTypes, recv > 0
    PROVE  /\ Copied \in Seq(Quadrants) /\ Len(Copied) = Len(writeBuf) + 1
           /\ Len(Copied) = FrameSyms - (recv - 1) /\ Len(Copied) <= FrameSyms
           /\ \A i \in 1 .. Len(writeBuf) : Copied[i] = writeBuf[i]
           /\ Copied[Len(Copied)] = TurnBack(Sample, knownRot)
<1>1. Sample \in Quadrants
  BY SampleType DEF AirTypes
<1>2. TurnBack(Sample, knownRot) \in Quadrants
  BY <1>1, Turned DEF DeframerTypes
<1>3. /\ writeBuf \in Seq(Quadrants) /\ Len(writeBuf) = FrameSyms - recv
      /\ recv \in Nat /\ FrameSyms \in Nat /\ Len(writeBuf) \in Nat
  BY DEF DeframerTypes
<1> QED  BY <1>2, <1>3 DEF Copied

\* In step, it is the next symbol of the data.
LEMMA CopiedInStep ==
    ASSUME AirTypes, DeframerTypes, InStep
    PROVE  /\ Len(writeBuf) + 1 \in 1 .. Len(payload)
           /\ Copied[Len(Copied)] = payload[Len(writeBuf) + 1]
<1> DEFINE p == airPos + 1
<1>1. /\ p \in 1 .. Period /\ p > SYNC_SYMS /\ p - SYNC_SYMS = Len(writeBuf) + 1
      /\ payload \in Payloads /\ phase \in Quadrants /\ knownRot = phase /\ recv > 0
  <2>1. Len(writeBuf) \in Nat /\ airPos \in Nat
    BY DEF DeframerTypes, AirTypes
  <2> QED  BY <2>1, Sizes DEF AirTypes, InStep
<1> HIDE DEF p
<1>2. /\ Encode(payload)[p] \in Quadrants
      /\ Encode(payload)[p] = payload[Len(writeBuf) + 1]
      /\ Len(writeBuf) + 1 \in 1 .. Len(payload)
  BY <1>1, Encoded
<1>3. p \notin damage
  BY <1>1, Sizes DEF AirTypes
<1>4. Sample = Turn(Encode(payload)[p], phase)
  BY <1>1, <1>3 DEF Sample, p, Quadrants
<1>5. TurnBack(Sample, knownRot) = payload[Len(writeBuf) + 1]
  BY <1>1, <1>2, <1>4, Turned
<1> QED  BY <1>1, <1>2, <1>5, CopiedType

\* The first state.
LEMMA FrameInit ==
    ASSUME Init
    PROVE  FrameInv
<1>1. AirTypes
  BY Sizes DEF Init, AirTypes
<1>2. DeframerTypes
  BY DEF Init, DeframerTypes, Register, Quadrants
<1>3. Recognizable
  BY DEF Init, Recognizable
<1>4. CopiedSoFar
  BY DEF Init, CopiedSoFar, InStep
<1> QED  BY <1>1, <1>2, <1>3, <1>4, Types DEF Init, FrameInv

\* A step of the deframer that copies, or of the channel that leaves it in step.
LEMMA CopyKeeps ==
    ASSUME AirTypes, DeframerTypes, CopiedSoFar, recv > 0, writeBuf' = Copied,
           knownRot' = knownRot, NEW spoilt \in BOOLEAN, Advance(spoilt)
    PROVE  CopiedSoFar'
<1> SUFFICES ASSUME InStep', NEW i \in 1 .. Len(writeBuf')
             PROVE  writeBuf'[i] = payload'[i]
  BY DEF CopiedSoFar
<1>1. /\ Len(Copied) = Len(writeBuf) + 1 /\ Len(writeBuf) \in Nat
      /\ \A j \in 1 .. Len(writeBuf) : Copied[j] = writeBuf[j]
  BY CopiedType DEF DeframerTypes
<1>2. airPos' = SYNC_SYMS + Len(writeBuf) + 1 /\ airPos' # 0
  BY <1>1, Sizes DEF InStep
<1>3. airPos' = airPos + 1 /\ UNCHANGED <<payload, phase, damage>> /\ ~dirty
  BY <1>2, AdvanceInside DEF InStep
<1>4. InStep
  <2>1. airPos = SYNC_SYMS + Len(writeBuf)
    <3>1. airPos \in Nat
      BY Sizes DEF AirTypes
    <3> QED  BY <1>1, <1>2, <1>3, <3>1, Sizes
  <2> QED  BY <1>3, <2>1 DEF InStep
<1>5. /\ Copied[Len(Copied)] = payload[Len(writeBuf) + 1]
      /\ \A j \in 1 .. Len(writeBuf) : writeBuf[j] = payload[j]
  BY <1>4, CopiedInStep DEF CopiedSoFar
<1>6. CASE i \in 1 .. Len(writeBuf)
  BY <1>1, <1>3, <1>5, <1>6
<1>7. CASE i = Len(writeBuf) + 1
  BY <1>1, <1>3, <1>5, <1>7
<1> QED  BY <1>1, <1>6, <1>7

\* Every step keeps the invariant.
LEMMA FrameSteps ==
    ASSUME FrameInv, [Next]_vars
    PROVE  FrameInv'
<1>1. /\ AirTypes /\ DeframerTypes /\ Recognizable /\ CopiedSoFar
      /\ disturbed \in BOOLEAN /\ upsets \in 0 .. MaxUpsets
  BY Types DEF FrameInv
<1>2. (AirTypes /\ DeframerTypes /\ disturbed \in BOOLEAN /\ upsets \in 0 .. MaxUpsets)'
          => TypeOK'
  BY Types, PTL
<1>3. CASE CopySymbol
  <2>1. /\ recv > 1 /\ recv' = recv - 1 /\ writeBuf' = Copied /\ Advance(FALSE)
        /\ UNCHANGED <<knownRot, shift, disturbed, upsets>>
    BY <1>3 DEF CopySymbol
  <2>2. recv \in Nat /\ recv > 0
    BY <1>1, <2>1 DEF DeframerTypes
  <2>3. AirTypes' /\ Recognizable'
    BY <1>1, <2>1, AdvanceTypes
  <2>4. DeframerTypes'
    BY <1>1, <2>1, <2>2, CopiedType DEF DeframerTypes
  <2>5. CopiedSoFar'
    BY <1>1, <2>1, <2>2, CopyKeeps
  <2> QED  BY <1>1, <1>2, <2>1, <2>3, <2>4, <2>5 DEF FrameInv
<1>4. CASE PutFrame \/ PutStopped
  <2>1. /\ recv = 1 /\ recv' = 0 /\ writeBuf' = Copied /\ disturbed' \in BOOLEAN
        /\ Advance(FALSE) \/ Advance(TRUE)
        /\ UNCHANGED <<knownRot, shift, upsets>>
    BY <1>4 DEF PutFrame, PutStopped
  <2>2. AirTypes' /\ Recognizable'
    BY <1>1, <2>1, AdvanceTypes
  <2>3. DeframerTypes'
    BY <1>1, <2>1, CopiedType DEF DeframerTypes
  <2>4. CopiedSoFar'
    BY <2>1 DEF CopiedSoFar, InStep
  <2> QED  BY <1>1, <1>2, <2>1, <2>2, <2>3, <2>4 DEF FrameInv
<1>5. CASE SearchSymbol
  <2> DEFINE found == Match(Pushed)
  <2>1. /\ recv = 0 /\ shift' = Pushed /\ Advance(FALSE) /\ UNCHANGED <<disturbed, upsets>>
        /\ \/ UNCHANGED <<recv, writeBuf, knownRot>>
           \/ knownRot' = found.rot /\ recv' = FrameSyms /\ writeBuf' = <<>>
    BY <1>5 DEF SearchSymbol, BeginFrame
  <2>2. AirTypes' /\ Recognizable'
    BY <1>1, <2>1, AdvanceTypes
  <2>3. Pushed \in Register
    BY <1>1, PushedType, SampleType DEF AirTypes, DeframerTypes
  <2>4. found.rot \in Quadrants
    BY <1>1, MatchType DEF DeframerTypes
  <2> HIDE DEF found
  <2>5. CASE UNCHANGED <<recv, writeBuf, knownRot>>
    <3>1. DeframerTypes'
      BY <1>1, <2>1, <2>3, <2>5 DEF DeframerTypes
    <3>2. CopiedSoFar'
      BY <2>1, <2>5 DEF CopiedSoFar, InStep
    <3> QED  BY <1>1, <1>2, <2>1, <2>2, <3>1, <3>2 DEF FrameInv
  <2>6. CASE knownRot' = found.rot /\ recv' = FrameSyms /\ writeBuf' = <<>>
    <3>1. writeBuf' \in Seq(Quadrants) /\ Len(writeBuf') = 0
      BY <2>6
    <3>2. DeframerTypes'
      BY <1>1, <2>1, <2>3, <2>4, <2>6, <3>1 DEF DeframerTypes
    <3>3. CopiedSoFar'
      BY <3>1 DEF CopiedSoFar
    <3> QED  BY <1>1, <1>2, <2>1, <2>2, <3>2, <3>3 DEF FrameInv
  <2> QED  BY <2>1, <2>5, <2>6
<1>6. CASE Slip
  <2>1. /\ UNCHANGED <<airPos, payload, damage, recv, writeBuf, knownRot, shift, calm>>
        /\ phase' \in Quadrants /\ dirty' = (dirty \/ airPos > 0)
        /\ disturbed' = (disturbed \/ airPos > 0)
        /\ upsets' \in {upsets, upsets + 1} /\ upsets' <= MaxUpsets
    BY <1>6 DEF Slip, deframer
  <2>2. AirTypes'
    BY <1>1, <2>1 DEF AirTypes
  <2>3. DeframerTypes' /\ Recognizable'
    BY <1>1, <2>1 DEF DeframerTypes, Recognizable
  <2>4. CopiedSoFar'
    <3>1. ASSUME InStep' PROVE FALSE
      <4>1. ~dirty' /\ airPos' = SYNC_SYMS + Len(writeBuf) /\ Len(writeBuf) \in Nat
        BY <1>1, <2>1, <3>1 DEF InStep, DeframerTypes
      <4>2. ~(airPos > 0)
        BY <2>1, <4>1
      <4> QED  BY <2>1, <4>1, <4>2, Sizes
    <3> QED  BY <3>1 DEF CopiedSoFar
  <2>5. disturbed' \in BOOLEAN /\ upsets' \in 0 .. MaxUpsets
    BY <1>1, <2>1
  <2> QED  BY <1>2, <2>2, <2>3, <2>4, <2>5 DEF FrameInv
<1>7. CASE Gap
  <2>1. /\ UNCHANGED <<phase, recv, writeBuf, knownRot, shift>>
        /\ airPos' \in 0 .. Period - 1 /\ payload' \in Payloads /\ damage' = {}
        /\ dirty' = (airPos' > 0) /\ calm' = 0 /\ disturbed' = TRUE
        /\ upsets' = upsets + 1 /\ upsets < MaxUpsets
    BY <1>7 DEF Gap, deframer
  <2>2. AirTypes' /\ Recognizable'
    BY <1>1, <2>1 DEF AirTypes, Recognizable
  <2>3. DeframerTypes'
    BY <1>1, <2>1 DEF DeframerTypes
  <2>4. CopiedSoFar'
    <3>1. ASSUME InStep' PROVE FALSE
      <4>1. ~dirty' /\ airPos' = SYNC_SYMS + Len(writeBuf) /\ Len(writeBuf) \in Nat
        BY <1>1, <2>1, <3>1 DEF InStep, DeframerTypes
      <4>2. ~(airPos' > 0)
        BY <2>1, <4>1
      <4> QED  BY <2>1, <4>1, <4>2, Sizes
    <3> QED  BY <3>1 DEF CopiedSoFar
  <2>5. disturbed' \in BOOLEAN /\ upsets' \in 0 .. MaxUpsets
    BY <1>1, <2>1
  <2> QED  BY <1>2, <2>2, <2>3, <2>4, <2>5 DEF FrameInv
<1>8. CASE UNCHANGED vars
  <2>1. UNCHANGED <<airPos, payload, phase, damage, recv, writeBuf, knownRot, shift,
                    dirty, calm, disturbed, upsets>>
    BY <1>8 DEF vars, air, deframer
  <2>2. AirTypes' /\ DeframerTypes' /\ Recognizable'
    BY <1>1, <2>1 DEF AirTypes, DeframerTypes, Recognizable
  <2>3. CopiedSoFar'
    BY <1>1, <2>1 DEF CopiedSoFar, InStep
  <2> QED  BY <1>1, <1>2, <2>1, <2>2, <2>3 DEF FrameInv
<1> QED  BY <1>3, <1>4, <1>5, <1>6, <1>7, <1>8 DEF Next

\* FrameInv holds in every reachable state.
THEOREM FrameInvariance == Spec => []FrameInv
<1>1. Init => FrameInv
  BY FrameInit
<1>2. FrameInv /\ [Next]_vars => FrameInv'
  BY FrameSteps
<1> QED  BY <1>1, <1>2, PTL DEF Spec

(***************************************************************************)
(* The deframer's state is of its types: in particular the output position *)
(* is the countdown's complement while a frame is copied, so the frame     *)
(* that is put out never runs over its buffer (framing.cpp:92-103).        *)
(***************************************************************************)
THEOREM FrameTypes == Spec => []TypeOK
<1>1. FrameInv => TypeOK
  BY DEF FrameInv
<1> QED  BY <1>1, FrameInvariance, PTL

----------------------------------------------------------------------------
(* The sync word is seen. *)

\* The last n symbols of the register are the first n of the frame.
Arrived(n) ==
    \A i \in 1 .. n : shift[SYNC_SYMS - n + i]
                         = Turn(SYNC_WORD[i], phase + (IF i \in damage THEN 1 ELSE 0))

\* A frame is begun, in the phase of the symbols.
Begins == recv' = FrameSyms /\ writeBuf' = <<>> /\ knownRot' = phase

\* With its last symbol the register holds the whole sync word.
LEMMA WordHeld ==
    ASSUME AirTypes, DeframerTypes, airPos = SYNC_SYMS - 1, Arrived(SYNC_SYMS - 1)
    PROVE  Holds(Pushed, phase, damage)
<1> DEFINE e(i) == IF i \in damage THEN 1 ELSE 0
<1>1. /\ \A i \in 1 .. SYNC_SYMS - 1 : Pushed[i] = shift[i + 1]
      /\ Pushed[SYNC_SYMS] = Sample
  BY PushedType, SampleType DEF AirTypes, DeframerTypes
<1>2. \A i \in 1 .. SYNC_SYMS - 1 : Pushed[i] = Turn(SYNC_WORD[i], phase + e(i))
  <2>1. \A i \in 1 .. SYNC_SYMS - 1 : SYNC_SYMS - (SYNC_SYMS - 1) + i = i + 1
    BY Sizes
  <2> QED  BY <1>1, <2>1 DEF Arrived
<1>3. Sample = Turn(SYNC_WORD[SYNC_SYMS], phase + e(SYNC_SYMS))
  <2>1. airPos + 1 = SYNC_SYMS /\ SYNC_SYMS \in 1 .. Period
    BY Sizes
  <2>2. Encode(payload)[SYNC_SYMS] = SYNC_WORD[SYNC_SYMS]
    BY <2>1, Encoded DEF AirTypes
  <2> QED  BY <2>1, <2>2 DEF Sample
<1> HIDE DEF e
<1>4. \A i \in 1 .. SYNC_SYMS : Pushed[i] = Turn(SYNC_WORD[i], phase + e(i))
  BY <1>1, <1>2, <1>3, Sizes
<1> QED  BY <1>4 DEF Holds, e

(***************************************************************************)
(* A deframer that searches, and has all symbols of the sync word of a     *)
(* frame with fewer wrong bits than the tolerance, begins this frame, in   *)
(* the phase it arrives in, whatever rotation it knew before and whatever  *)
(* was in the register and in the output (framing.cpp:114-130).            *)
(***************************************************************************)
SyncSeen ==
    [][SearchSymbol /\ airPos = SYNC_SYMS - 1 /\ ~dirty /\ Arrived(SYNC_SYMS - 1)
        => Begins]_vars

\* SyncSeen, if the tolerance is less than half the distance of two rotations.
THEOREM FrameSeen == Separated /\ Spec => SyncSeen
<1> SUFFICES ASSUME Separated
             PROVE  Spec => SyncSeen
  OBVIOUS
<1>1. ASSUME FrameInv, SearchSymbol, airPos = SYNC_SYMS - 1, ~dirty, Arrived(SYNC_SYMS - 1)
      PROVE  Begins
  <2>1. AirTypes /\ DeframerTypes /\ Recognizable
    BY <1>1, Types DEF FrameInv
  <2>2. Holds(Pushed, phase, damage)
    BY <1>1, <2>1, WordHeld
  <2>3. phase \in Quadrants /\ knownRot \in Quadrants /\ damage \in Damages
    BY <2>1 DEF AirTypes, DeframerTypes
  <2>4. Cardinality(damage) < Tolerance
    BY <1>1, <2>1, FS_EmptySet DEF Recognizable, Separated
  <2>5. \A k \in Quadrants : Distance(Pushed, k) < Tolerance <=> k = phase
    BY <2>2, <2>3, <2>4, OneRotation
  <2>6. Match(Pushed) = [hit |-> TRUE, rot |-> phase]
    BY <2>3, <2>5, MatchOnly
  <2> QED  BY <1>1, <2>6 DEF SearchSymbol, BeginFrame, Begins
<1>2. FrameInv /\ [Next]_vars =>
          [SearchSymbol /\ airPos = SYNC_SYMS - 1 /\ ~dirty /\ Arrived(SYNC_SYMS - 1)
              => Begins]_vars
  BY <1>1
<1> QED  BY <1>2, FrameInvariance, PTL DEF Spec, SyncSeen

----------------------------------------------------------------------------
(* The frame is put out. *)

(***************************************************************************)
(* The frame that is put out at the end of an arriving frame, and turned   *)
(* by its phase, is the data of this frame: the countdown began where its  *)
(* data begins, so no symbol is missing, added or turned differently       *)
(* (framing.cpp:92-103).                                                   *)
(***************************************************************************)
FrameOut ==
    [][PutFrame /\ airPos = Period - 1 /\ ~dirty /\ knownRot = phase
        => writeBuf' = payload]_vars

\* FrameOut, if the deframer's frame is as long as the framer's.
THEOREM FramePutOut == FrameSyms = DataSyms /\ Spec => FrameOut
<1> SUFFICES ASSUME FrameSyms = DataSyms
             PROVE  Spec => FrameOut
  OBVIOUS
<1>1. ASSUME FrameInv, PutFrame, airPos = Period - 1, ~dirty, knownRot = phase
      PROVE  writeBuf' = payload
  <2>1. AirTypes /\ DeframerTypes /\ CopiedSoFar
    BY <1>1, Types DEF FrameInv
  <2>2. recv = 1 /\ writeBuf' = Copied
    BY <1>1 DEF PutFrame
  <2>3. /\ Len(writeBuf) \in Nat /\ Len(writeBuf) = DataSyms - 1
        /\ payload \in Seq(Quadrants) /\ Len(payload) = DataSyms
    BY <2>1, <2>2 DEF AirTypes, DeframerTypes
  <2>4. InStep
    BY <1>1, <2>2, <2>3, Sizes DEF InStep
  <2>5. /\ Copied \in Seq(Quadrants) /\ Len(Copied) = Len(writeBuf) + 1
        /\ \A i \in 1 .. Len(writeBuf) : Copied[i] = writeBuf[i]
    BY <2>1, <2>2, CopiedType
  <2>6. /\ \A i \in 1 .. Len(writeBuf) : writeBuf[i] = payload[i]
        /\ Copied[Len(Copied)] = payload[Len(writeBuf) + 1]
    BY <2>1, <2>4, CopiedInStep DEF CopiedSoFar
  <2>7. Len(Copied) = Len(payload) /\ \A i \in 1 .. Len(Copied) : Copied[i] = payload[i]
    BY <2>3, <2>5, <2>6
  <2> QED  BY <2>2, <2>3, <2>5, <2>7
<1>2. FrameInv /\ [Next]_vars =>
          [PutFrame /\ airPos = Period - 1 /\ ~dirty /\ knownRot = phase
              => writeBuf' = payload]_vars
  BY <1>1
<1> QED  BY <1>2, FrameInvariance, PTL DEF Spec, FrameOut

=============================================================================
