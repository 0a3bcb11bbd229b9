----------------------------- MODULE MCConvCodec -----------------------------
(* The code with three bits of register.  The first message is long and    *)
(* may be lost in noise, of the second one set may be changed, which is    *)
(* enough for a wrong message to come out, and in the third any two        *)
(* samples may be taken for the other bit or for none.                     *)
EXTENDS ConvCodec

MCPoly == <<7, 5>>
Long == <<1, 0, 1, 1, 0, 0, 1, 1, 0>>
Short == {<<1, 0, 1, 1, 0, 0>>, <<0, 1, 1, 0, 1, 1>>}
One == {<<1, 0, 1, 1, 0, 0>>}
MCTraffic ==
    << [sent |-> {Long},  at |-> {},      by |-> {},         most |-> 0, fades |-> {1 .. 13, 3 .. 6}],
       [sent |-> One,     at |-> {2},     by |-> {-2, 2},    most |-> 2, fades |-> {}],
       [sent |-> Short,   at |-> 1 .. 10, by |-> {-1, 0, 1}, most |-> 2, fades |-> {}] >>
=============================================================================
