-------------------------------- MODULE MCApp --------------------------------
(* Two RFNM devices and one of each other driver; the halves share a       *)
(* device, named or found, or have two of the same or of different drivers *)
(* in either order.  The drivers sample at different rates.                *)
EXTENDS App

MCIdents == {"a", "b", "c", "l", "u"}
MCDriverOf == [i \in MCIdents |->
    CASE i \in {"a", "b"} -> "rfnm" [] i = "c" -> "bladerf" [] i = "l" -> "limesdr" [] i = "u" -> "usrp"]
MCFirstDevice == [rfnm |-> "a", bladerf |-> "c", limesdr |-> "l", usrp |-> "none"]
Pairs == {<<"rfnm", "a">>, <<"a", "b">>, <<"c", "bladerf">>, <<"u", "u">>, <<"c", "a">>,
          <<"u", "c">>, <<"b", "u">>, <<"limesdr", "a">>, <<"l", "l">>, <<"a", "usrp">>}
MCCommands == {[list |-> FALSE, rxdev |-> p[1], txdev |-> p[2]] : p \in Pairs}
              \cup {[list |-> TRUE, rxdev |-> "a", txdev |-> "a"]}
=============================================================================
