---------------------------- MODULE PacketService ----------------------------
(***************************************************************************)
(* What the modem promises its two ends, whatever frames are: a packet     *)
(* handed to onPacket is one that send() took, whole; packets come out in  *)
(* the order they went in, none twice.  Some may be missing when the link  *)
(* loses frames (Lossy); none may be missing when it does not.             *)
(***************************************************************************)
EXTENDS Naturals, Sequences

CONSTANTS Lossy,    \* whether packets may be lost between the two ends
          Sizes     \* content sizes of packets

VARIABLES accepted,     \* sizes of the packets send() took, in order
          handed        \* the packets onPacket got, as indices of accepted

ServiceInit == accepted = <<>> /\ handed = <<>>

Accept == \E s \in Sizes : accepted' = Append(accepted, s) /\ UNCHANGED handed

LastHanded == IF handed = <<>> THEN 0 ELSE handed[Len(handed)]

\* A packet without content is never transmitted.
Skippable(n) == Lossy \/ accepted[n] = 0

Deliver == \E n \in LastHanded + 1 .. Len(accepted) :
    /\ \A m \in LastHanded + 1 .. n - 1 : Skippable(m)
    /\ accepted[n] # 0
    /\ handed' = Append(handed, n)
    /\ UNCHANGED accepted

ServiceNext == Accept \/ Deliver

ServiceSpec == ServiceInit /\ [][ServiceNext]_<<accepted, handed>>
=============================================================================
