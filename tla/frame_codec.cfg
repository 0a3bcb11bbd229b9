SPECIFICATION Spec
CONSTANTS
    BITS = 3
    PRIMITIVE = 11
    FIRST_ROOT = 1
    GAP = 1
    NROOTS = 3
    COUNT = 2
    SCRAMBLER <- MCScrambler
    Frames <- MCFrames
    Hits <- MCHits
INVARIANTS
    Corrected
    InBounds
PROPERTIES
    RepairedIsWord
