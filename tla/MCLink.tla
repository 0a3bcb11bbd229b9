------------------------------- MODULE MCLink -------------------------------
(* The link for TLC.  Frames of four to six bytes make a packet of one     *)
(* content byte (three serialized) fit in a frame and leave one byte, and  *)
(* a packet of four content bytes span frames.                             *)
EXTENDS Link

SmallAndLarge == {1, 4}
WithEmpty == {0, 4}
Spread == {1, 2, 7}
=============================================================================
