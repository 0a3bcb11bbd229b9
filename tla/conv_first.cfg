SPECIFICATION Spec
CONSTANTS
    RATE = 2
    ORDER = 3
    POLY <- MCPoly
    SOFT_MAX = 7
    BYTE = 3
    DISTANCE_MAX = 83
    MIN_TRACEBACK = 5
    GROUP = 2
    Traffic <- MCTraffic
INVARIANTS
    ClosestOfAllDecoded
