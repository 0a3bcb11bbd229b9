------------------------------- MODULE ConvCode -------------------------------
(***************************************************************************)
(* The convolutional code of libcorrect: the table of its outputs, the     *)
(* encoder, and what the decoder measures distances with.  Bits are        *)
(* numbers, a set is the RATE bits that leave the encoder together.        *)
(***************************************************************************)
EXTENDS Integers, FiniteSets, SequencesExt

CONSTANTS
    RATE, ORDER,        \* outputs per bit; bits of the shift register
    POLY,               \* one mask of the register for each output
    SOFT_MAX            \* soft_max: a bit that is certainly 1; 0 is certainly 0

\* 1 << n
Pow2[n \in 0 .. ORDER] == IF n = 0 THEN 1 ELSE 2 * Pow2[n - 1]

States == 0 .. Pow2[ORDER] - 1

ASSUME ConvAssumption ==
    /\ RATE \in Nat /\ RATE >= 2
    /\ ORDER \in Nat /\ ORDER >= 2
    /\ POLY \in [1 .. RATE -> States \ {0}]
    /\ SOFT_MAX \in Nat \ {0}

\* popcount(x & mask)
Bit(x, k) == (x \div Pow2[k]) % 2
Ones(x, mask) == {k \in 0 .. ORDER - 1 : Bit(x, k) = 1 /\ Bit(mask, k) = 1}

\* The first polynomial makes the lowest bit, which is the first to be sent.
Table == [s \in States |-> [j \in 1 .. RATE |-> Cardinality(Ones(s, POLY[j])) % 2]]

\* All bits of the message, then ORDER + 1 times 0.
SetsOf(msg) == Len(msg) + ORDER + 1
Input(msg, n) == IF n <= Len(msg) THEN msg[n] ELSE 0
Register(msg) ==
    LET register[n \in 0 .. SetsOf(msg)] ==
            IF n = 0 THEN 0 ELSE (2 * register[n - 1] + Input(msg, n)) % Pow2[ORDER]
    IN  register

Encode(msg) == LET register == Register(msg)
               IN  [n \in 1 .. SetsOf(msg) |-> Table[register[n]]]

\* ConvDecoder::decode: a sample, 1 at its best, as a soft bit
Clamp(x) == IF x < 0 THEN 0 ELSE IF x > SOFT_MAX THEN SOFT_MAX ELSE x
ToSoft(x) == Clamp(x * (SOFT_MAX \div 2) + (SOFT_MAX + 1) \div 2)

\* metric_soft_distance_linear
Apart(bit, soft) == IF bit = 1 THEN SOFT_MAX - soft ELSE soft
Distance(set, soft) ==
    LET sum[j \in 0 .. RATE] == IF j = 0 THEN 0 ELSE sum[j - 1] + Apart(set[j], soft[j])
    IN  sum[RATE]
=============================================================================
