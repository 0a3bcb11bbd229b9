------------------------------ MODULE MCFraming ------------------------------
(* The real sync word in front of a short frame.  The register of the      *)
(* deframer starts with zeros, or, at worst, one symbol short of a sync    *)
(* word.                                                                   *)
EXTENDS Framing

\* 0x341CC540819D8963, two bits at a time.
Digits == <<0, 3, 1, 0, 0, 1, 3, 0, 3, 0, 1, 1, 1, 0, 0, 0,
            2, 0, 0, 1, 2, 1, 3, 1, 2, 0, 2, 1, 1, 2, 0, 3>>
Quadrant == <<2, 1, 3, 0>>
SyncWord == [i \in 1 .. Len(Digits) |-> Quadrant[Digits[i] + 1]]

Undamaged == {{}}
OneData == {<<0, 1>>}
BitErrorPatterns == {{}, {1, 9, 17, 24, 32}, {2, 7, 13, 20, 26, 31}}
Registers == {[i \in 1 .. Len(Digits) |-> 0],
              <<0>> \o SubSeq(SyncWord, 1, Len(Digits) - 1)}

\* A shorter word, which takes one wrong bit, in front of a frame of nearly its
\* length, so that a countdown that is off swallows whole sync words.
ShortWord == <<0, 0, 0, 1, 0, 2, 0>>
ShortData == {<<1, 2, 0, 0, 1, 3>>}
ShortRegisters == {<<1>> \o SubSeq(ShortWord, 1, Len(ShortWord) - 1)}
=============================================================================
