------------------------------- MODULE Framing -------------------------------
(***************************************************************************)
(* ryfi::Framer and ryfi::Deframer, joined by a channel that turns the     *)
(* phase, drops symbols and flips bits of the sync word.                   *)
(*                                                                         *)
(* A QPSK symbol is the number of its quadrant, counted against the clock  *)
(* from re > 0, im > 0 (bits 11).  The code's bits 11, 01, 00, 10 are the  *)
(* quadrants 0, 1, 2, 3: turning the constellation by 90 degrees adds one, *)
(* and the number of bits in which two symbols differ is their distance on *)
(* the circle.                                                             *)
(***************************************************************************)
EXTENDS Naturals, FiniteSets, Sequences

CONSTANTS
    SYNC_WORD,      \* the sync word, as quadrants
    DataSyms,       \* symbols of a frame behind the sync word
    FrameSyms,      \* symbols the deframer takes for one (8168 in the code)
    Tolerance,      \* bit errors at which a sync word is not seen any more
    Payloads,       \* bound: the data of frames
    Damages,        \* bound: positions of the sync word that get a wrong bit
    InitShifts,     \* bound: values of the register, which is not initialized
    MaxUpsets       \* bound: gaps, and slips within a frame

SYNC_SYMS == Len(SYNC_WORD)
Period == SYNC_SYMS + DataSyms
Quadrants == 0 .. 3

ASSUME FramingAssumption ==
    /\ SYNC_WORD \in Seq(Quadrants) /\ SYNC_SYMS > 0
    /\ DataSyms \in Nat \ {0} /\ FrameSyms \in Nat \ {0} /\ Tolerance \in Nat
    /\ \A p \in Payloads : p \in Seq(Quadrants) /\ Len(p) = DataSyms
    /\ {} \in Damages /\ \A d \in Damages : d \subseteq 1 .. SYNC_SYMS
    /\ \A s \in InitShifts : s \in Seq(Quadrants) /\ Len(s) = SYNC_SYMS
    /\ MaxUpsets \in Nat

VARIABLES
    airPos, payload, phase, damage,     \* the channel: the next symbol
    recv, writeBuf, knownRot, shift,    \* the deframer; Len(writeBuf) is outCount
    dirty, calm, disturbed, upsets        \* histories: see Advance

air == <<airPos, payload, phase, damage>>
deframer == <<recv, writeBuf, knownRot, shift>>
vars == <<air, deframer, dirty, calm, disturbed, upsets>>

TypeOK ==
    /\ airPos \in 0 .. Period - 1 /\ payload \in Payloads
    /\ phase \in Quadrants /\ damage \in Damages
    /\ recv \in 0 .. FrameSyms /\ knownRot \in Quadrants
    /\ writeBuf \in Seq(Quadrants) /\ Len(writeBuf) <= FrameSyms
    /\ recv > 0 => Len(writeBuf) = FrameSyms - recv     \* outCount
    /\ shift \in Seq(Quadrants) /\ Len(shift) = SYNC_SYMS
    /\ dirty \in BOOLEAN /\ calm \in 0 .. 2
    /\ disturbed \in BOOLEAN /\ upsets \in 0 .. MaxUpsets

----------------------------------------------------------------------------
(* Symbols. *)

Turn(q, k) == (q + k) % 4

\* Mutant: the table of rotations has 90 and 270 degrees exchanged.
TurnBackWrong(q, k) == (q + k) % 4

TurnBack(q, k) == (q + 4 - k) % 4

\* The sync word in the four rotations.
syncRots == [k \in Quadrants |-> [i \in 1 .. SYNC_SYMS |-> Turn(SYNC_WORD[i], k)]]

\* The bits in which the register differs from rotation k: one in a symbol of a
\* neighbouring quadrant, two in one of the opposite quadrant.
Distance(reg, k) ==
    Cardinality({i \in 1 .. SYNC_SYMS : reg[i] # syncRots[k][i]})
        + Cardinality({i \in 1 .. SYNC_SYMS : reg[i] = syncRots[Turn(k, 2)][i]})

\* What the framer sends: the sync word and the modulated data.
Encode(data) == SYNC_WORD \o data

\* What arrives of the symbol at airPos.
Sample ==
    LET q == Encode(payload)[airPos + 1]
        e == IF airPos + 1 \in damage THEN 1 ELSE 0
    IN  Turn(q, phase + e)

----------------------------------------------------------------------------
Init ==
    /\ airPos \in 0 .. Period - 1 /\ payload \in Payloads
    /\ phase \in Quadrants /\ damage = {}
    /\ recv = 0 /\ writeBuf = <<>> /\ knownRot = 0
    /\ shift \in InitShifts
    /\ dirty = (airPos > 0) /\ calm = 0
    /\ disturbed = TRUE /\ upsets = 0

(***************************************************************************)
(* The channel goes on to the next symbol.  A frame is dirty if its        *)
(* symbols did not all reach the deframer in one phase with a sync word    *)
(* that can be recognized; calm counts the frames in a row that are not.   *)
(***************************************************************************)
Advance(spoilt) ==
    IF airPos < Period - 1
    THEN /\ airPos' = airPos + 1
         /\ dirty' = (dirty \/ spoilt)
         /\ UNCHANGED <<payload, phase, damage, calm>>
    ELSE /\ airPos' = 0
         /\ payload' \in Payloads /\ damage' \in Damages
         /\ dirty' = (Cardinality(damage') >= Tolerance)
         /\ calm' = IF dirty \/ spoilt THEN 0 ELSE IF calm < 2 THEN calm + 1 ELSE 2
         /\ UNCHANGED phase

\* One more symbol of the frame.
Copied == Append(writeBuf, TurnBack(Sample, knownRot))

CopySymbol ==
    /\ recv > 1
    /\ recv' = recv - 1
    /\ writeBuf' = Copied
    /\ Advance(FALSE)
    /\ UNCHANGED <<knownRot, shift, disturbed, upsets>>

\* The last symbol: the frame is swapped out.
PutFrame ==
    /\ recv = 1
    /\ recv' = 0
    /\ writeBuf' = Copied
    /\ disturbed' = FALSE
    /\ Advance(FALSE)
    /\ UNCHANGED <<knownRot, shift, upsets>>

\* The deframer is stopped: swap fails and run returns.
PutStopped ==
    /\ recv = 1
    /\ recv' = 0
    /\ writeBuf' = Copied
    /\ disturbed' = TRUE
    /\ Advance(TRUE)
    /\ UNCHANGED <<knownRot, shift, upsets>>

\* Mutant: the symbol is turned back before it is pushed.
PushedTurned == Append(Tail(shift), TurnBack(Sample, knownRot))

Pushed == Append(Tail(shift), Sample)

\* One turn of the search: the rotation i from the last one found is tried.
Try(reg, found, i) ==
    LET testRot == (found.rot + i) % 4
    IN  IF Distance(reg, testRot) < Tolerance
        THEN [hit |-> TRUE, rot |-> testRot]
        ELSE found

\* Mutant: only the known rotation and its complement are tried.
MatchHalf(reg) ==
    Try(reg, Try(reg, [hit |-> FALSE, rot |-> knownRot], 0), 2)

(***************************************************************************)
(* The search for a rotation, from the last known one.  It goes on after a *)
(* hit, and from the new rotation.                                         *)
(***************************************************************************)
Match(reg) ==
    LET first  == Try(reg, [hit |-> FALSE, rot |-> knownRot], 0)
        second == Try(reg, first, 1)
        third  == Try(reg, second, 2)
    IN  Try(reg, third, 3)

\* Mutant: outCount is not set back to 0.
BeginFrameAppend(found) ==
    /\ knownRot' = found.rot
    /\ recv' = FrameSyms
    /\ UNCHANGED writeBuf

\* Mutant: the new rotation is not saved.
BeginFrameUnsaved(found) ==
    /\ recv' = FrameSyms
    /\ writeBuf' = <<>>
    /\ UNCHANGED knownRot

BeginFrame(found) ==
    /\ knownRot' = found.rot
    /\ recv' = FrameSyms
    /\ writeBuf' = <<>>

SearchSymbol ==
    /\ recv = 0
    /\ shift' = Pushed
    /\ LET found == Match(Pushed)
       IN  \/ ~found.hit /\ UNCHANGED <<recv, writeBuf, knownRot>>
           \/ found.hit /\ BeginFrame(found)
    /\ Advance(FALSE)
    /\ UNCHANGED <<disturbed, upsets>>

----------------------------------------------------------------------------
(* The channel. *)

\* The carrier loop settles on another phase.
Slip ==
    /\ phase' \in Quadrants \ {phase}
    /\ upsets' = IF airPos > 0 THEN upsets + 1 ELSE upsets
    /\ upsets' <= MaxUpsets
    /\ dirty' = (dirty \/ airPos > 0)
    /\ disturbed' = (disturbed \/ airPos > 0)
    /\ UNCHANGED <<airPos, payload, damage, deframer, calm>>

(***************************************************************************)
(* Symbols are lost: the blocks in front of the deframer, or the deframer  *)
(* itself, are stopped and started, and nothing in it is reset.            *)
(***************************************************************************)
Gap ==
    /\ upsets < MaxUpsets
    /\ upsets' = upsets + 1
    /\ airPos' \in 0 .. Period - 1 /\ payload' \in Payloads
    /\ damage' = {}
    /\ dirty' = (airPos' > 0) /\ calm' = 0
    /\ disturbed' = TRUE
    /\ UNCHANGED <<phase, deframer>>

Next == \/ CopySymbol \/ PutFrame \/ PutStopped \/ SearchSymbol
        \/ Slip \/ Gap

Spec == Init /\ [][Next]_vars

----------------------------------------------------------------------------
(* Properties. *)

(***************************************************************************)
(* After any gap, slip or stop at most one undisturbed frame is lost: the  *)
(* second one is put out, cut where its data begins and in its own phase   *)
(* (framing.cpp:91-130), although the countdown, the output position, the  *)
(* rotation and the register all survive the gap.                          *)
(***************************************************************************)
BackInStep ==
    [][airPos = Period - 1 /\ airPos' = 0 /\ calm' = 2
        => PutFrame /\ writeBuf' = payload]_vars

(***************************************************************************)
(* Garbage has a cause: between two disturbances at most one frame is put  *)
(* out that is not a frame that was sent (framing.cpp:92-103, 118-127: no  *)
(* sync word is seen in old symbols, in data, or across the two).          *)
(***************************************************************************)
GarbageHasCause ==
    [][PutFrame => disturbed \/ (airPos = Period - 1 /\ writeBuf' = payload)]_vars
=============================================================================
