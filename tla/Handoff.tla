------------------------------- MODULE Handoff -------------------------------
(***************************************************************************)
(* What a dsp::stream promises: one slot, filled by the writer only when   *)
(* it is empty and emptied by the reader, who gets what was put, whole.    *)
(* The ends may be stopped and started at any time: a value in the slot    *)
(* stays there.                                                            *)
(***************************************************************************)
CONSTANTS Data, Empty

VARIABLES slot,     \* the value on its way, or Empty
          got       \* the last value the reader took: its size and its content

HandoffInit == slot = Empty /\ got = <<Empty, Empty>>

Put == slot = Empty /\ slot' \in Data /\ UNCHANGED got

Get == slot # Empty /\ got' = <<slot, slot>> /\ slot' = Empty

HandoffSpec == HandoffInit /\ [][Put \/ Get]_<<slot, got>>
=============================================================================
