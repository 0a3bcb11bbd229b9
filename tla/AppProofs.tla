------------------------------ MODULE AppProofs ------------------------------
(***************************************************************************)
(* What the shutdown of main relies on, for any devices, drivers, command  *)
(* lines and rates: where each thread, context and object is while main is *)
(* where it is.                                                            *)
(***************************************************************************)
EXTENDS App, FiniteSetTheorems, TLAPS

(***************************************************************************)
(* The statements of main, by what has been done and not undone.           *)
(***************************************************************************)
Begin == {"command", "tun", "openRX"}
Setup == {"rates", "rateRX", "rateTX", "modem"}
Catching == {"catchStop", "catchJoin", "catchClose"}
Serving == {"arm", "wait", "disarm", "join"}

\* The RX device, the TX device runs.
RxUp == {"startTX", "startTXWork", "spawn", "stopRX", "joinRX", "catchStop", "catchJoin"} \cup Serving
TxUp == {"spawn", "stopRX", "joinRX", "closeRX", "stopTX", "joinTX"} \cup Serving

\* The whole modem runs.
ModemUp == {"startRX", "closeTX"} \cup RxUp \cup TxUp \cup Catching

\* The rates were chosen, set in the RX device, in the TX device.
Rated == {"rateRX", "rateTX", "modem", "startDsp", "stopDsp"} \cup ModemUp
RatedRX == Rated \ {"rateRX"}
RatedTX == RatedRX \ {"rateTX"}

\* main has not come to its end.
Inside == Setup \cup {"startDsp", "stopDsp"} \cup ModemUp

\* Before the TX device runs.
StartUp == Begin \cup {"openTX", "startDsp", "startRX", "startTX", "startTXWork"} \cup Setup

\* After the sender thread was joined.
Ending == {"stopRX", "joinRX", "closeRX", "stopTX", "joinTX", "closeTX", "stopDsp", "unwind", "ended"}

\* The objects are destroyed, or main did not get over the destruction of one.
Unwinding == {"unwind", "hung", "aborted"}

(***************************************************************************)
(* The objects of main, its blocks and its thread.                         *)
(***************************************************************************)
FirstObjects(n) == {Objects[i] : i \in 1 .. n}

MainInv ==
    /\ pc \in Begin \cup {"ended"} => alive = {}
    /\ pc = "openTX" => alive = FirstObjects(2)
    /\ pc \in Setup => alive = FirstObjects(3)
    /\ pc \in {"startDsp", "stopDsp"} \cup ModemUp => alive = FirstObjects(7)
    /\ pc \in Unwinding => \E n \in 0 .. 7 : alive = FirstObjects(n)
    /\ pc \in Begin \cup {"openTX", "ended", "crashed"} \cup Setup => dsp = {}
    /\ pc = "startDsp" => dsp # ToSet(BlockOrder)
    /\ pc \in ModemUp => dsp = ToSet(BlockOrder)
    /\ pc \in Unwinding => dsp = {} \/ (failed /\ dsp = alive \cap ToSet(BlockOrder))
    /\ pc \in Catching => failed
    /\ pc \notin Catching \cup Unwinding \cup {"ended", "killed"} => ~failed
    /\ pc \in {"openRX", "openTX"} \cup Inside => tun
    /\ pc \in Unwinding => dsp = {} \/ tun
    /\ pc \notin Serving \cup {"killed"} => sendWorker \in {"none", "ended"}
    /\ pc \notin Serving \cup Ending \cup Unwinding \cup {"killed"} => sendWorker = "none"

(***************************************************************************)
(* The contexts that the halves hold.                                      *)
(***************************************************************************)
Drivers == {"rfnm", "bladerf", "limesdr", "usrp"}

HoldInv ==
    /\ ctx["rx"] # NoIdent => ctx["rx"] = Selected(cmd.rxdev) /\ DriverOf[ctx["rx"]] \in Drivers
    /\ ctx["tx"] # NoIdent => ctx["tx"] = Selected(cmd.txdev)
                              /\ DriverOf[ctx["tx"]] \in Drivers \ {"limesdr"}
    /\ pc \in Begin => ctx["rx"] = NoIdent
    /\ pc \in Begin \cup {"openTX"} => ctx["tx"] = NoIdent /\ leaked = {}
    /\ pc \in {"openTX"} \cup Setup => ctx["rx"] # NoIdent
    /\ pc \in Setup => ctx["tx"] # NoIdent
    /\ pc \in {"unwind", "ended"} /\ "rxd" \notin alive => ctx["rx"] = NoIdent
    /\ pc \in {"unwind", "ended"} /\ "txd" \notin alive => ctx["tx"] = NoIdent

(***************************************************************************)
(* The halves that run, and their workers.                                 *)
(***************************************************************************)
HalfInv ==
    /\ "rx" \in running => pc \in RxUp \cup {"killed"}
    /\ "tx" \in running => pc \in TxUp \cup {"killed"}
    /\ rxWorker \in {"read", "swap"} => "rx" \in running
    /\ txWorker \in {"read", "drain"} => "tx" \in running
    /\ "rx" \in on => "rx" \in running \/ Uses("rx", "usrp")
    /\ "tx" \in on => \/ "tx" \in running
                      \/ /\ DriverOf[Selected(cmd.txdev)] = "rfnm"
                         /\ failed \/ pc \in {"startTXWork", "killed"}
    /\ pc \in StartUp => txWorker = "none"
    /\ \A i \in Idents : contexts[i].txWorkStarted => DriverOf[i] = "rfnm"

(***************************************************************************)
(* The rates: chosen, set, and not lost while the half holds its context.  *)
(***************************************************************************)
Clocked(h) == Uses(h, "rfnm") \/ Uses(h, "bladerf")

Best(h) ==
    /\ Uses(h, "rfnm") => samplerate[h] = RFNMBestRX(MinRate)
    /\ Uses(h, "bladerf") => samplerate[h] = BladeRFBest(MinRate)
    /\ Uses(h, "usrp") => samplerate[h] = USRPBest(MinRate)

RateInv ==
    /\ pc \in Rated \cup {"crashed"} => \A h \in Halves : Best(h)
    /\ pc \in RatedRX /\ Clocked("rx") => rate[ctx["rx"]]["rx"] = samplerate["rx"]
    /\ pc \in RatedTX /\ Clocked("tx") => rate[ctx["tx"]]["tx"] = samplerate["tx"]
    /\ pc = "crashed" => ctx["rx"] # NoIdent /\ ~(samplerate["rx"] > 0)

(***************************************************************************)
(* The samples: those that the TX worker holds are the last that it read.  *)
(***************************************************************************)
Done == taken - (Len(txStage) - off)

Samples ==
    /\ Done \in 0 .. taken
    /\ \A k \in 1 .. Len(txStage) : txStage[k] = taken - Len(txStage) + k
    /\ \A k \in 1 .. Len(queued) : queued[k] \in 1 .. Done
    /\ \A k \in 1 .. Len(queued) - 1 : queued[k] < queued[k + 1]
    /\ ToSet(queued) \cup dropped = 1 .. Done
    /\ ToSet(queued) \cap dropped = {}

SampleInv ==
    /\ Samples
    /\ txWorker \in {"none", "read"} => off = 0
    /\ txWorker = "drain" /\ off # 0 => Uses("tx", "rfnm")

AppInv == /\ TypeOK /\ MainInv /\ HoldInv /\ HalfInv /\ RefsBalanced
          /\ RateInv /\ SampleInv /\ UsersProvided

----------------------------------------------------------------------------
(* Arithmetic. *)

\* Rounding down to whole granules.
LEMMA Multiples ==
    ASSUME NEW n \in Nat, NEW g \in Nat \ {0}
    PROVE  /\ n \div g \in Nat
           /\ (n \div g) * g \in Nat
           /\ (n \div g) * g <= n
           /\ n < (n \div g) * g + g
  OBVIOUS

\* What is queued at once is staged.
LEMMA ChunkFits ==
    ASSUME Left \in Nat
    PROVE  ChunkSize \in 0 .. Left
<1>1. (Left \div GRANULE) * GRANULE \in Nat /\ (Left \div GRANULE) * GRANULE <= Left
  BY Multiples, RFNMAssumption
<1> QED  BY <1>1, RFNMAssumption DEF ChunkSize

\* The rate rounded up to whole steps is not below the one asked for.
LEMMA SteppedUp ==
    ASSUME NEW min \in Nat
    PROVE  Stepped(min) \in Nat /\ Stepped(min) >= min
<1> DEFINE n == min + RATE_STEP - 1
<1>1. n \in Nat /\ RATE_STEP \in Nat \ {0}
  BY RFNMAssumption
<1>2. /\ (n \div RATE_STEP) * RATE_STEP \in Nat
      /\ n < (n \div RATE_STEP) * RATE_STEP + RATE_STEP
  <2> HIDE DEF n
  <2> QED  BY <1>1, Multiples
<1> QED  BY <1>1, <1>2 DEF Stepped

----------------------------------------------------------------------------
(* Samples. *)

SampleTypes ==
    /\ taken \in 0 .. MaxSamples
    /\ txStage \in Seq(1 .. taken) /\ off \in 0 .. Len(txStage)
    /\ queued \in Seq(1 .. taken) /\ dropped \subseteq 1 .. taken

\* The numbers behind the samples.
LEMMA SampleNumbers ==
    ASSUME SampleTypes
    PROVE  /\ taken \in Nat /\ off \in Nat /\ Len(txStage) \in Nat /\ Len(queued) \in Nat
           /\ off <= Len(txStage) /\ taken <= MaxSamples /\ MaxSamples \in Nat
           /\ Done \in Int /\ Left \in Nat
           /\ ToSet(queued) = {queued[k] : k \in 1 .. Len(queued)}
  BY DeviceAssumption DEF SampleTypes, Done, Left, ToSet

\* The members of a sequence of length n.
LEMMA SetOf ==
    ASSUME NEW S, NEW c \in Seq(S), NEW n, Len(c) = n
    PROVE  ToSet(c) = {c[k] : k \in 1 .. n}
<1>1. DOMAIN c = 1 .. n
  OBVIOUS
<1> QED  BY <1>1 DEF ToSet

\* A sequence behind another.
LEMMA Concat ==
    ASSUME NEW S, NEW q \in Seq(S), NEW c \in Seq(S)
    PROVE  /\ q \o c \in Seq(S) /\ Len(q \o c) = Len(q) + Len(c)
           /\ Len(q) \in Nat /\ Len(c) \in Nat
           /\ \A k \in 1 .. Len(q) : (q \o c)[k] = q[k]
           /\ \A k \in Len(q) + 1 .. Len(q) + Len(c) : (q \o c)[k] = c[k - Len(q)]
<1>1. q \o c \in Seq(S) /\ Len(q \o c) = Len(q) + Len(c) /\ Len(q) \in Nat /\ Len(c) \in Nat
  OBVIOUS
<1>2. \A k \in 1 .. Len(q) : (q \o c)[k] = q[k]
  BY <1>1
<1>3. \A k \in Len(q) + 1 .. Len(q) + Len(c) : (q \o c)[k] = c[k - Len(q)]
  BY <1>1
<1> QED  BY <1>1, <1>2, <1>3

\* Numbers above d, one after the other, go behind a sequence that rises up to d.
Extends(q, m, r, n, d) ==
    /\ \A k \in 1 .. m : q[k] \in 1 .. d
    /\ \A k \in 1 .. m - 1 : q[k] < q[k + 1]
    /\ \A k \in 1 .. m : r[k] = q[k]
    /\ \A k \in m + 1 .. m + n : r[k] = d + (k - m)

RisesOn(q, m, r, n, d) ==
    /\ \A k \in 1 .. m + n : r[k] \in 1 .. d + n
    /\ \A k \in 1 .. m + n - 1 : r[k] < r[k + 1]
    /\ {r[k] : k \in 1 .. m + n} = {q[k] : k \in 1 .. m} \cup (d + 1 .. d + n)

\* Numbers that go behind a rising sequence keep it rising.
LEMMA ExtendsRises ==
    ASSUME NEW d \in Nat, NEW n \in Nat, NEW m \in Nat, NEW q, NEW r, Extends(q, m, r, n, d)
    PROVE  RisesOn(q, m, r, n, d)
<1>0. /\ \A k \in 1 .. m : q[k] \in 1 .. d
      /\ \A k \in 1 .. m - 1 : q[k] < q[k + 1]
      /\ \A k \in 1 .. m : r[k] = q[k]
      /\ \A k \in m + 1 .. m + n : r[k] = d + (k - m)
  BY DEF Extends
<1>1. ASSUME NEW k \in 1 .. m + n PROVE r[k] \in 1 .. d + n
  <2>1. CASE k <= m
    <3>1. k \in 1 .. m /\ r[k] = q[k] /\ q[k] \in 1 .. d
      BY <1>0, <2>1
    <3> QED  BY <3>1
  <2>2. CASE k > m
    BY <1>0, <2>2
  <2> QED  BY <2>1, <2>2
<1>2. ASSUME NEW k \in 1 .. m + n - 1 PROVE r[k] < r[k + 1]
  <2>1. CASE k < m
    <3>1. k \in 1 .. m - 1 /\ k \in 1 .. m /\ k + 1 \in 1 .. m
      BY <2>1
    <3> QED  BY <1>0, <3>1
  <2>2. CASE k = m
    <3>1. k \in 1 .. m /\ k + 1 \in m + 1 .. m + n
      BY <2>2
    <3>2. r[k] = q[k] /\ q[k] \in 1 .. d /\ r[k + 1] = d + 1
      BY <1>0, <2>2, <3>1
    <3> QED  BY <3>2
  <2>3. CASE k > m
    BY <1>0, <2>3
  <2> QED  BY <2>1, <2>2, <2>3
<1>3. ASSUME NEW x \in d + 1 .. d + n PROVE x \in {r[k] : k \in 1 .. m + n}
  <2>1. m + (x - d) \in m + 1 .. m + n /\ m + (x - d) \in 1 .. m + n
    OBVIOUS
  <2>2. r[m + (x - d)] = x
    BY <1>0, <2>1
  <2> QED  BY <2>1, <2>2
<1>4. ASSUME NEW k \in 1 .. m + n
      PROVE  r[k] \in {q[j] : j \in 1 .. m} \cup (d + 1 .. d + n)
  <2>1. CASE k <= m
    <3>1. k \in 1 .. m /\ r[k] = q[k]
      BY <1>0, <2>1
    <3> QED  BY <3>1
  <2>2. CASE k > m
    BY <1>0, <2>2
  <2> QED  BY <2>1, <2>2
<1>5. ASSUME NEW k \in 1 .. m PROVE q[k] \in {r[j] : j \in 1 .. m + n}
  <2>1. k \in 1 .. m + n /\ r[k] = q[k]
    BY <1>0
  <2> QED  BY <2>1
<1> QED  BY <1>1, <1>2, <1>3, <1>4, <1>5 DEF RisesOn

\* A part of the staged samples is an interval of numbers.
LEMMA StagedPart ==
    ASSUME SampleTypes, Samples, NEW m \in Nat, NEW n \in Nat, m + n <= Len(txStage)
    PROVE  /\ SubSeq(txStage, m + 1, m + n) \in Seq(Nat)
           /\ SubSeq(txStage, m + 1, m + n) \in Seq(1 .. taken)
           /\ Len(SubSeq(txStage, m + 1, m + n)) = n
           /\ \A k \in 1 .. n :
                 SubSeq(txStage, m + 1, m + n)[k] = taken - Len(txStage) + m + k
           /\ ToSet(SubSeq(txStage, m + 1, m + n)) =
                 taken - Len(txStage) + m + 1 .. taken - Len(txStage) + m + n
<1> DEFINE c == SubSeq(txStage, m + 1, m + n)
           L == Len(txStage)
<1>1. txStage \in Seq(1 .. taken) /\ L \in Nat /\ taken \in Nat
  BY SampleNumbers DEF SampleTypes
<1>2. Len(c) = n /\ c \in Seq(1 .. taken) /\ \A k \in 1 .. n : c[k] = txStage[m + k]
  BY <1>1
<1>3. \A k \in 1 .. n : c[k] = taken - L + m + k
  <2>1. \A k \in 1 .. n : m + k \in 1 .. L
    BY <1>1
  <2> QED  BY <1>1, <1>2, <2>1 DEF Samples
<1>4. c \in Seq(Nat)
  <2>1. \A k \in 1 .. n : c[k] \in Nat
    BY <1>1, <1>2
  <2> QED  BY <1>2, <2>1
<1>5. ToSet(c) = taken - L + m + 1 .. taken - L + m + n
  <2> HIDE DEF c, L
  <2>1. ToSet(c) = {c[k] : k \in 1 .. n}
    BY <1>2, SetOf
  <2>2. ASSUME NEW x \in taken - L + m + 1 .. taken - L + m + n
        PROVE  x \in {c[k] : k \in 1 .. n}
    <3>1. x - (taken - L + m) \in 1 .. n
      BY <1>1
    <3>2. c[x - (taken - L + m)] = x
      BY <1>1, <1>3, <3>1
    <3> QED  BY <3>1, <3>2
  <2>3. \A k \in 1 .. n : c[k] \in taken - L + m + 1 .. taken - L + m + n
    BY <1>1, <1>3
  <2> QED  BY <2>1, <2>2, <2>3
<1> QED  BY <1>2, <1>3, <1>4, <1>5

\* The sequence of what was queued, with n samples more.
LEMMA Queued ==
    ASSUME SampleTypes, Samples, NEW n \in Nat, NEW r \in Seq(1 .. taken),
           Len(r) = Len(queued) + n, Extends(queued, Len(queued), r, n, Done)
    PROVE  /\ \A k \in 1 .. Len(r) : r[k] \in 1 .. Done + n
           /\ \A k \in 1 .. Len(r) - 1 : r[k] < r[k + 1]
           /\ ToSet(r) = ToSet(queued) \cup (Done + 1 .. Done + n)
<1>1. Len(queued) \in Nat /\ Done \in Nat /\ queued \in Seq(1 .. taken)
  BY SampleNumbers DEF Samples, SampleTypes
<1>2. ToSet(queued) = {queued[k] : k \in 1 .. Len(queued)}
  BY <1>1, SetOf
<1>3. ToSet(r) = {r[k] : k \in 1 .. Len(r)}
  BY SetOf
<1>4. RisesOn(queued, Len(queued), r, n, Done)
  BY <1>1, ExtendsRises
<1>5. 1 .. Len(r) = 1 .. Len(queued) + n /\ 1 .. Len(r) - 1 = 1 .. Len(queued) + n - 1
  OBVIOUS
<1> QED  BY <1>2, <1>3, <1>4, <1>5 DEF RisesOn

(***************************************************************************)
(* What the worker does in a turn: it queues n samples, drops n, forgets   *)
(* those that it is done with; and it reads n more.                        *)
(***************************************************************************)
Queues(n) ==
    /\ queued' = queued \o SubSeq(txStage, off + 1, off + n) /\ off' = off + n
    /\ UNCHANGED <<txStage, taken, dropped>>

Drops(n) ==
    /\ dropped' = dropped \cup ToSet(SubSeq(txStage, off + 1, off + n)) /\ off' = off + n
    /\ UNCHANGED <<txStage, taken, queued>>

Erases ==
    /\ txStage' = SubSeq(txStage, off + 1, Len(txStage)) /\ off' = 0
    /\ UNCHANGED <<taken, queued, dropped>>

Reads(n) ==
    /\ taken' = taken + n /\ taken + n <= MaxSamples
    /\ txStage' = txStage \o [k \in 1 .. n |-> taken + k]
    /\ UNCHANGED <<off, queued, dropped>>

\* The sequence of what was queued, with the next n staged samples.
LEMMA QueuedMore ==
    ASSUME SampleTypes, Samples, NEW n \in Nat, off + n <= Len(txStage), NEW c,
           c = SubSeq(txStage, off + 1, off + n)
    PROVE  /\ queued \o c \in Seq(1 .. taken) /\ Len(queued \o c) = Len(queued) + n
           /\ Extends(queued, Len(queued), queued \o c, n, Done)
<1>1. /\ taken \in Nat /\ off \in Nat /\ Len(txStage) \in Nat /\ Len(queued) \in Nat
      /\ Done \in Nat /\ Done = taken - (Len(txStage) - off)
      /\ queued \in Seq(1 .. taken)
  BY SampleNumbers DEF Samples, Done, SampleTypes
<1>2. /\ c \in Seq(1 .. taken) /\ Len(c) = n
      /\ \A k \in 1 .. n : c[k] = taken - Len(txStage) + off + k
  BY <1>1, StagedPart
<1>3. taken - Len(txStage) + off = Done
  BY <1>1
<1>4. /\ queued \o c \in Seq(1 .. taken) /\ Len(queued \o c) = Len(queued) + Len(c)
      /\ \A k \in 1 .. Len(queued) : (queued \o c)[k] = queued[k]
      /\ \A k \in Len(queued) + 1 .. Len(queued) + Len(c) :
            (queued \o c)[k] = c[k - Len(queued)]
  <2> DEFINE S == 1 .. taken
  <2>1. queued \in Seq(S) /\ c \in Seq(S)
    BY <1>1, <1>2
  <2> HIDE DEF S
  <2>2. /\ queued \o c \in Seq(S) /\ Len(queued \o c) = Len(queued) + Len(c)
        /\ \A k \in 1 .. Len(queued) : (queued \o c)[k] = queued[k]
        /\ \A k \in Len(queued) + 1 .. Len(queued) + Len(c) :
              (queued \o c)[k] = c[k - Len(queued)]
    BY <2>1, Concat
  <2> QED  BY <2>2 DEF S
<1>5. \A k \in Len(queued) + 1 .. Len(queued) + n : k - Len(queued) \in 1 .. n
  BY <1>1
<1> DEFINE r == queued \o c
<1>6. /\ \A k \in 1 .. Len(queued) : r[k] = queued[k]
      /\ \A k \in Len(queued) + 1 .. Len(queued) + n : r[k] = Done + (k - Len(queued))
  BY <1>2, <1>3, <1>4, <1>5
<1> HIDE DEF r
<1>7. Extends(queued, Len(queued), r, n, Done)
  BY <1>6 DEF Extends, Samples
<1> QED  BY <1>2, <1>4, <1>7 DEF r

\* Queueing samples keeps the account.
LEMMA SamplesQueued ==
    ASSUME SampleTypes, Samples, NEW n \in Nat, off + n <= Len(txStage), Queues(n)
    PROVE  SampleTypes' /\ Samples'
<1>1. /\ taken \in Nat /\ off \in Nat /\ Len(txStage) \in Nat
      /\ Done \in Nat /\ Done \in 0 .. taken /\ Done = taken - (Len(txStage) - off)
  BY SampleNumbers DEF Samples, Done, SampleTypes
<1>2. Done' = Done + n /\ Done' \in 0 .. taken
  BY <1>1 DEF Done, Queues
<1>3. /\ queued' \in Seq(1 .. taken) /\ Len(queued') = Len(queued) + n
      /\ Extends(queued, Len(queued), queued', n, Done)
  BY QueuedMore DEF Queues
<1>4. /\ \A k \in 1 .. Len(queued') : queued'[k] \in 1 .. Done + n
      /\ \A k \in 1 .. Len(queued') - 1 : queued'[k] < queued'[k + 1]
      /\ ToSet(queued') = ToSet(queued) \cup (Done + 1 .. Done + n)
  BY <1>3, Queued
<1>5. SampleTypes'
  BY SMTT(30), <1>1, <1>3 DEF SampleTypes, Queues
<1>6. ToSet(queued') \cup dropped = 1 .. Done + n /\ ToSet(queued') \cap dropped = {}
  BY <1>1, <1>4 DEF Samples
<1> QED  BY <1>1, <1>2, <1>4, <1>5, <1>6 DEF Samples, Queues

\* A device that takes a whole buffer, or drops the rest.
Sends(n) ==
    /\ queued' = queued \o SubSeq(txStage, 1, n)
    /\ dropped' = dropped \cup ToSet(SubSeq(txStage, n + 1, Len(txStage)))
    /\ txStage' = <<>>
    /\ UNCHANGED <<off, taken>>

\* So does sending a buffer, in whole or in part.
LEMMA SamplesSent ==
    ASSUME SampleTypes, Samples, off = 0, NEW n \in 0 .. Len(txStage), Sends(n)
    PROVE  SampleTypes' /\ Samples'
<1> DEFINE L == Len(txStage)
<1>1. /\ taken \in Nat /\ L \in Nat /\ n \in Nat /\ n <= L /\ off = 0 /\ Done = taken - L
      /\ Done \in Nat /\ taken = Done + L /\ taken' = taken /\ off' = 0
      /\ queued \in Seq(1 .. taken) /\ dropped \subseteq 1 .. taken
  BY SampleNumbers DEF Samples, Done, Sends, SampleTypes
<1>2. queued' = queued \o SubSeq(txStage, off + 1, off + n)
  BY <1>1 DEF Sends
<1>3. /\ queued' \in Seq(1 .. taken) /\ Len(queued') = Len(queued) + n
      /\ Extends(queued, Len(queued), queued', n, Done)
  <2> DEFINE c == SubSeq(txStage, off + 1, off + n)
  <2>1. c = SubSeq(txStage, off + 1, off + n) /\ queued' = queued \o c
    BY <1>2
  <2>2. n \in Nat /\ off + n <= Len(txStage)
    BY <1>1
  <2> HIDE DEF c
  <2>3. /\ queued \o c \in Seq(1 .. taken) /\ Len(queued \o c) = Len(queued) + n
        /\ Extends(queued, Len(queued), queued \o c, n, Done)
    BY <2>1, <2>2, QueuedMore
  <2> QED  BY <2>1, <2>3
<1>4. /\ \A k \in 1 .. Len(queued') : queued'[k] \in 1 .. Done + n
      /\ \A k \in 1 .. Len(queued') - 1 : queued'[k] < queued'[k + 1]
      /\ ToSet(queued') = ToSet(queued) \cup (Done + 1 .. Done + n)
  BY <1>1, <1>3, Queued
<1>5. dropped' = dropped \cup (Done + n + 1 .. taken)
  <2> DEFINE k == L - n
  <2>1. k \in Nat /\ n + k = L /\ taken - L + n = Done + n /\ Done + n + k = taken
    BY <1>1
  <2>2. ToSet(SubSeq(txStage, n + 1, n + k)) = taken - L + n + 1 .. taken - L + n + k
    <3>1. k \in Nat /\ n \in Nat /\ n + k <= Len(txStage)
      BY <1>1
    <3> HIDE DEF k
    <3> QED  BY <3>1, StagedPart
  <2> QED  BY <2>1, <2>2 DEF Sends
<1>6. Done' = taken /\ Len(txStage') = 0
  BY <1>1 DEF Done, Sends
<1>7. \A k \in 1 .. Len(queued') : queued'[k] \in 1 .. taken
  BY <1>1, <1>4
<1>8. ToSet(queued') \cup dropped' = 1 .. taken /\ ToSet(queued') \cap dropped' = {}
  <2>1. ToSet(queued) \cup dropped = 1 .. Done /\ ToSet(queued) \cap dropped = {}
    BY DEF Samples
  <2>2. /\ 1 .. taken = (1 .. Done) \cup (Done + 1 .. Done + n) \cup (Done + n + 1 .. taken)
        /\ (Done + 1 .. Done + n) \cap (Done + n + 1 .. taken) = {}
        /\ (1 .. Done) \cap (Done + 1 .. Done + n) = {}
        /\ (1 .. Done) \cap (Done + n + 1 .. taken) = {}
    BY <1>1
  <2> DEFINE P == 1 .. Done
             Q == Done + 1 .. Done + n
             R == Done + n + 1 .. taken
  <2> HIDE DEF P, Q, R
  <2>3. (ToSet(queued) \cup Q) \cup (dropped \cup R) = P \cup Q \cup R
    BY <2>1 DEF P
  <2>4. (ToSet(queued) \cup Q) \cap (dropped \cup R) = {}
    BY <2>1, <2>2 DEF P, Q, R
  <2> QED  BY <1>4, <1>5, <2>2, <2>3, <2>4 DEF P, Q, R
<1>9. SampleTypes'
  <2>1. dropped' \subseteq 1 .. taken
    BY <1>8
  <2>2. txStage' \in Seq(1 .. taken) /\ off' \in 0 .. Len(txStage')
    BY <1>1, <1>6 DEF Sends
  <2> QED  BY <1>1, <1>3, <2>1, <2>2 DEF SampleTypes
<1> QED  BY <1>1, <1>4, <1>6, <1>7, <1>8, <1>9 DEF Samples

\* So does dropping samples.
LEMMA SamplesDropped ==
    ASSUME SampleTypes, Samples, NEW n \in Nat, off + n <= Len(txStage), Drops(n)
    PROVE  SampleTypes' /\ Samples'
<1>1. /\ taken \in Nat /\ off \in Nat /\ Len(txStage) \in Nat
      /\ Done \in Nat /\ Done \in 0 .. taken /\ Done = taken - (Len(txStage) - off)
  BY SampleNumbers DEF Samples, Done
<1>2. Done' = Done + n /\ Done' \in 0 .. taken
  BY <1>1 DEF Done, Drops
<1>3. dropped' = dropped \cup (Done + 1 .. Done + n)
  <2>1. ToSet(SubSeq(txStage, off + 1, off + n)) = Done + 1 .. Done + n
    <3>1. taken - Len(txStage) + off = Done
      BY <1>1
    <3>2. ToSet(SubSeq(txStage, off + 1, off + n)) =
             taken - Len(txStage) + off + 1 .. taken - Len(txStage) + off + n
      BY <1>1, StagedPart
    <3> QED  BY <3>1, <3>2
  <2> QED  BY <2>1 DEF Drops
<1>4. dropped' \subseteq 1 .. taken
  <2>1. dropped \subseteq 1 .. taken /\ Done + n <= taken
    BY <1>1, <1>2 DEF SampleTypes
  <2>2. \A x \in Done + 1 .. Done + n : x \in 1 .. taken
    BY <1>1, <2>1
  <2> QED  BY <1>3, <2>1, <2>2
<1>5. /\ ToSet(queued) \cup dropped' = 1 .. Done + n
      /\ ToSet(queued) \cap dropped' = {}
      /\ \A k \in 1 .. Len(queued) : queued[k] \in 1 .. Done + n
  BY SMTT(30), <1>1, <1>3 DEF Samples
<1> QED  BY <1>1, <1>2, <1>4, <1>5 DEF Samples, SampleTypes, Drops

\* So does forgetting those that are done with.
LEMMA SamplesErased ==
    ASSUME SampleTypes, Samples, Erases
    PROVE  SampleTypes' /\ Samples'
<1> DEFINE n == Len(txStage) - off
<1>1. /\ taken \in Nat /\ off \in Nat /\ Len(txStage) \in Nat /\ n \in Nat
      /\ off + n = Len(txStage) /\ Done = taken - n
  BY SampleNumbers DEF Done
<1>2. /\ txStage' \in Seq(1 .. taken) /\ Len(txStage') = n
      /\ \A k \in 1 .. n : txStage'[k] = taken - Len(txStage) + off + k
  <2>1. txStage' = SubSeq(txStage, off + 1, off + n)
    BY <1>1 DEF Erases
  <2>2. off + n <= Len(txStage)
    BY <1>1
  <2>3. n \in Nat /\ off \in Nat
    BY <1>1
  <2>4. /\ SubSeq(txStage, off + 1, off + n) \in Seq(1 .. taken)
        /\ Len(SubSeq(txStage, off + 1, off + n)) = n
        /\ \A k \in 1 .. n :
               SubSeq(txStage, off + 1, off + n)[k] = taken - Len(txStage) + off + k
    <3> HIDE DEF n
    <3> QED  BY <2>2, <2>3, StagedPart
  <2> QED  BY <2>1, <2>4
<1> HIDE DEF n
<1>3. Done' = Done
  <2>1. taken' = taken /\ off' = 0
    BY DEF Erases
  <2>2. taken - (n - 0) = taken - n
    BY <1>1
  <2>3. Done' = taken' - (Len(txStage') - off')
    BY DEF Done
  <2> QED  BY <1>1, <1>2, <2>1, <2>2, <2>3
<1>4. taken - Len(txStage) + off = taken - n
  BY <1>1
<1>5. SampleTypes'
  BY <1>1, <1>2 DEF SampleTypes, Erases
<1>6. \A k \in 1 .. Len(txStage') : txStage'[k] = taken' - Len(txStage') + k
  BY <1>1, <1>2, <1>4 DEF Erases
<1> QED  BY <1>3, <1>5, <1>6 DEF Samples, Erases

\* Between two turns more samples are read.
LEMMA SamplesRead ==
    ASSUME SampleTypes, Samples, off = 0, NEW n \in Nat, Reads(n)
    PROVE  SampleTypes' /\ Samples'
<1> DEFINE L == Len(txStage)
           c == [k \in 1 .. n |-> taken + k]
<1>1. /\ taken \in Nat /\ L \in Nat /\ Done \in Nat /\ Done = taken - L /\ Done <= taken
      /\ MaxSamples \in Nat /\ txStage \in Seq(1 .. taken) /\ txStage \in Seq(1 .. taken + n)
      /\ queued \in Seq(1 .. taken + n) /\ dropped \subseteq 1 .. taken + n
  <2>1. /\ taken \in Nat /\ L \in Nat /\ Done \in Nat /\ Done = taken - L /\ Done <= taken
        /\ MaxSamples \in Nat /\ txStage \in Seq(1 .. taken) /\ queued \in Seq(1 .. taken)
        /\ dropped \subseteq 1 .. taken
    BY SampleNumbers DEF Samples, Done, SampleTypes
  <2>2. 1 .. taken \subseteq 1 .. taken + n
    BY <2>1
  <2>3. txStage \in Seq(1 .. taken + n) /\ queued \in Seq(1 .. taken + n)
    <3>1. /\ \A k \in 1 .. Len(txStage) : txStage[k] \in 1 .. taken
          /\ \A k \in 1 .. Len(queued) : queued[k] \in 1 .. taken
      BY <2>1
    <3> QED  BY <2>1, <2>2, <3>1
  <2> QED  BY <2>1, <2>2, <2>3
<1>2. c \in Seq(1 .. taken + n) /\ Len(c) = n /\ \A k \in 1 .. n : c[k] = taken + k
  BY <1>1
<1> HIDE DEF c
<1>3. txStage' = txStage \o c
  BY DEF c, Reads
<1>4. /\ txStage' \in Seq(1 .. taken + n) /\ Len(txStage') = L + n
      /\ \A k \in 1 .. L : txStage'[k] = txStage[k]
      /\ \A k \in L + 1 .. L + n : txStage'[k] = c[k - L]
  <2>1. txStage \in Seq(1 .. taken + n)
    BY <1>1
  <2> HIDE DEF L
  <2>2. L = Len(txStage)
    BY DEF L
  <2> DEFINE q == txStage
             T == 1 .. taken + n
  <2>3. q \in Seq(T) /\ c \in Seq(T)
    BY <1>2, <2>1
  <2> HIDE DEF q, T
  <2>4. /\ q \o c \in Seq(T) /\ Len(q \o c) = Len(q) + Len(c)
        /\ \A k \in 1 .. Len(q) : (q \o c)[k] = q[k]
        /\ \A k \in Len(q) + 1 .. Len(q) + Len(c) : (q \o c)[k] = c[k - Len(q)]
    BY <2>3, Concat
  <2> QED  BY <1>2, <1>3, <2>2, <2>4 DEF q, T
<1>5. \A k \in 1 .. L + n : txStage'[k] = taken - L + k
  <2> TAKE k \in 1 .. L + n
  <2>1. CASE k <= L
    <3>1. k \in 1 .. L
      BY <2>1
    <3> QED  BY <1>4, <3>1 DEF Samples
  <2>2. CASE k > L
    <3>1. k - L \in 1 .. n /\ k \in L + 1 .. L + n
      BY <1>1, <2>2
    <3>2. txStage'[k] = taken + (k - L)
      BY <1>2, <1>4, <3>1
    <3> QED  BY <1>1, <3>2
  <2> QED  BY <1>1, <2>1, <2>2
<1>6. Done' = Done /\ Done \in 0 .. taken + n
  BY <1>1, <1>4 DEF Done, Reads
<1>7. taken - L = taken + n - (L + n)
  BY <1>1
<1>8. SampleTypes'
  BY <1>1, <1>4 DEF SampleTypes, Reads
<1> QED  BY <1>1, <1>4, <1>5, <1>6, <1>7, <1>8 DEF Samples, Reads

\* Every step of a device is one of these, or leaves the samples alone.
LEMMA DeviceSamples ==
    ASSUME DeviceTypeOK
    PROVE  SampleTypes
  BY DEF DeviceTypeOK, SampleTypes

TxAction == TxRead \/ TxReadStopped \/ RFNMTransmit \/ BladeRFTransmit \/ USRPTransmit

\* Whatever driver the TX worker belongs to.
LEMMA TxSamples ==
    ASSUME DeviceTypeOK, SampleInv, TxAction
    PROVE  SampleTypes' /\ SampleInv'
<1>1. /\ SampleTypes /\ Samples /\ Left \in Nat /\ Left = Len(txStage) - off
      /\ off \in Nat /\ Len(txStage) \in Nat
  BY DeviceSamples, SampleNumbers DEF SampleInv, Left
<1>2. ctx' = ctx
  BY DEF TxAction, TxRead, TxReadStopped, RFNMTransmit, BladeRFTransmit, USRPTransmit, TxSend,
         TxTo, TxQueue, TxDrop, TxFail, TxErase, contextVars
<1>3. \A d : Uses("tx", d)' = Uses("tx", d)
  BY <1>2 DEF Uses
<1>4. ASSUME UNCHANGED sampleVars
      PROVE  SampleTypes' /\ Samples'
  BY <1>1, <1>4 DEF sampleVars, SampleTypes, Samples, Done
<1>5. CASE TxRead
  <2>1. PICK n \in 1 .. MaxCount : Reads(n)
    BY <1>5 DEF TxRead, Reads
  <2>2. n \in Nat /\ off = 0 /\ off' = 0
    BY <1>5, DeviceAssumption DEF TxRead, SampleInv
  <2>3. SampleTypes' /\ Samples'
    BY <1>1, <2>1, <2>2, SamplesRead
  <2> QED  BY <1>5, <2>2, <2>3 DEF TxRead, SampleInv
<1>6. CASE TxReadStopped \/ TxFail \/ TxTo("drain", "ended")
  <2>1. UNCHANGED sampleVars /\ txWorker' = "ended"
    BY <1>6 DEF TxReadStopped, TxFail, TxTo
  <2> QED  BY <1>4, <2>1 DEF SampleInv
<1>7. CASE Uses("tx", "rfnm") /\ (TxQueue \/ TxDrop)
  <2>1. ChunkSize \in Nat /\ off + ChunkSize <= Len(txStage)
    BY <1>1, ChunkFits
  <2>2. Queues(ChunkSize) \/ Drops(ChunkSize)
    BY <1>7 DEF TxQueue, TxDrop, Queues, Drops, Chunk
  <2>3. SampleTypes' /\ Samples'
    BY <1>1, <2>1, <2>2, SamplesQueued, SamplesDropped
  <2>4. txWorker' = "drain"
    BY <1>7 DEF TxQueue, TxDrop
  <2> QED  BY <1>3, <1>7, <2>3, <2>4 DEF SampleInv
<1>8. CASE TxErase
  <2>1. Erases /\ off' = 0
    BY <1>8 DEF TxErase, Erases
  <2>2. SampleTypes' /\ Samples'
    BY <1>1, <2>1, SamplesErased
  <2> QED  BY <2>1, <2>2 DEF SampleInv
<1>9. ASSUME NEW n \in 0 .. Len(txStage), TxSend(n), Uses("tx", "bladerf") \/ Uses("tx", "usrp")
      PROVE  SampleTypes' /\ SampleInv'
  <2>1. off = 0 /\ txWorker' = "read" /\ off' = off
    BY <1>9 DEF TxSend, SampleInv, Uses
  <2>2. Sends(n)
    BY <1>9 DEF TxSend, Sends
  <2>3. SampleTypes' /\ Samples'
    BY <1>1, <2>1, <2>2, SamplesSent
  <2> QED  BY <2>1, <2>3 DEF SampleInv
<1> QED  BY <1>1, <1>5, <1>6, <1>7, <1>8, <1>9
         DEF TxAction, RFNMTransmit, BladeRFTransmit, USRPTransmit

\* The account of the samples is the property TxAccounted.
LEMMA SamplesAccounted ==
    ASSUME DeviceTypeOK, SampleInv
    PROVE  TxAccounted
<1> DEFINE L == Len(txStage)
           waiting == {txStage[k] : k \in off + 1 .. L}
<1>1. /\ L \in Nat /\ off \in Nat /\ taken \in Nat /\ off <= L /\ Done = taken - (L - off)
      /\ Done \in 0 .. taken
  BY DeviceSamples, SampleNumbers DEF Done, SampleInv, Samples
<1>2. \A k \in off + 1 .. L : txStage[k] = taken - L + k
  <2>1. \A k \in off + 1 .. L : k \in 1 .. L
    BY <1>1
  <2> QED  BY <2>1 DEF SampleInv, Samples
<1>3. waiting = Done + 1 .. taken
  <2> HIDE DEF L
  <2>1. ASSUME NEW x \in Done + 1 .. taken PROVE x \in waiting
    <3>1. x - (taken - L) \in off + 1 .. L /\ taken - L + (x - (taken - L)) = x
      BY <1>1
    <3>2. txStage[x - (taken - L)] = x
      BY <1>2, <3>1
    <3> QED  BY <3>1, <3>2
  <2>2. ASSUME NEW k \in off + 1 .. L PROVE txStage[k] \in Done + 1 .. taken
    BY <1>1, <1>2
  <2> QED  BY <2>1, <2>2
<1>4. /\ 1 .. taken = (1 .. Done) \cup (Done + 1 .. taken)
      /\ (1 .. Done) \cap (Done + 1 .. taken) = {}
  BY <1>1
<1>5. /\ \A k \in 1 .. Len(queued) - 1 : queued[k] < queued[k + 1]
      /\ ToSet(queued) \cup dropped = 1 .. Done
      /\ ToSet(queued) \cap dropped = {}
  BY DEF SampleInv, Samples
<1> HIDE DEF waiting, L
<1>6. /\ ToSet(queued) \cup dropped \cup waiting = 1 .. taken
      /\ (ToSet(queued) \cup dropped) \cap waiting = {}
  BY <1>3, <1>4, <1>5
<1> QED  BY <1>5, <1>6 DEF TxAccounted, waiting, L

----------------------------------------------------------------------------
(* The objects of main, its blocks and its thread. *)

MainTypes ==
    /\ pc \in {"command", "tun", "openRX", "openTX", "rates", "rateRX", "rateTX", "modem",
               "startDsp", "startRX", "startTX", "startTXWork", "catchStop", "catchJoin",
               "catchClose", "spawn", "arm", "wait", "disarm", "join", "stopRX", "joinRX",
               "closeRX", "stopTX", "joinTX", "closeTX", "stopDsp", "unwind", "hung", "ended",
               "killed", "crashed", "aborted"}
    /\ cmd \in Commands
    /\ alive \subseteq ToSet(Objects) /\ dsp \subseteq ToSet(BlockOrder)
    /\ samplerate \in [Halves -> Int]
    /\ run \in BOOLEAN /\ handler \in BOOLEAN /\ tun \in BOOLEAN
    /\ sendWorker \in {"none", "recv", "send", "ended"}
    /\ failed \in BOOLEAN

\* The types of the devices and those of main.
LEMMA TypesParts == TypeOK <=> DeviceTypeOK /\ MainTypes
  BY DEF TypeOK, MainTypes

\* The objects in the order of their declaration, all different.
LEMMA Things ==
    /\ ToSet(Objects) = {"rxd", "agc", "txd", "lp", "rx", "ns", "tx"}
    /\ ToSet(BlockOrder) = {"tx", "agc", "lp", "rx", "ns"}
    /\ FirstObjects(0) = {} /\ FirstObjects(1) = {"rxd"} /\ FirstObjects(2) = {"rxd", "agc"}
    /\ FirstObjects(3) = {"rxd", "agc", "txd"} /\ FirstObjects(4) = {"rxd", "agc", "txd", "lp"}
    /\ FirstObjects(5) = {"rxd", "agc", "txd", "lp", "rx"}
    /\ FirstObjects(6) = {"rxd", "agc", "txd", "lp", "rx", "ns"}
    /\ FirstObjects(7) = ToSet(Objects)
<1>1. /\ DOMAIN Objects = 1 .. 7 /\ Objects[1] = "rxd" /\ Objects[2] = "agc"
      /\ Objects[3] = "txd" /\ Objects[4] = "lp" /\ Objects[5] = "rx" /\ Objects[6] = "ns"
      /\ Objects[7] = "tx"
  BY DEF Objects
<1>2. ToSet(BlockOrder) = {"tx", "agc", "lp", "rx", "ns"}
  BY DEF ToSet, BlockOrder
<1>3. ToSet(Objects) = {Objects[i] : i \in 1 .. 7}
  BY <1>1 DEF ToSet
<1>4. /\ 1 .. 0 = {} /\ 1 .. 1 = {1} /\ 1 .. 2 = {1, 2} /\ 1 .. 3 = {1, 2, 3}
      /\ 1 .. 4 = {1, 2, 3, 4} /\ 1 .. 5 = {1, 2, 3, 4, 5} /\ 1 .. 6 = {1, 2, 3, 4, 5, 6}
      /\ 1 .. 7 = {1, 2, 3, 4, 5, 6, 7}
  OBVIOUS
<1>5. /\ FirstObjects(0) = {} /\ FirstObjects(1) = {"rxd"} /\ FirstObjects(2) = {"rxd", "agc"}
      /\ FirstObjects(3) = {"rxd", "agc", "txd"} /\ FirstObjects(4) = {"rxd", "agc", "txd", "lp"}
  BY <1>1, <1>4 DEF FirstObjects
<1>6. FirstObjects(5) = {"rxd", "agc", "txd", "lp", "rx"}
  BY <1>1, <1>4 DEF FirstObjects
<1>7. FirstObjects(6) = {"rxd", "agc", "txd", "lp", "rx", "ns"}
  BY <1>1, <1>4 DEF FirstObjects
<1>8. {Objects[i] : i \in 1 .. 7} = {"rxd", "agc", "txd", "lp", "rx", "ns", "tx"}
  BY <1>1, <1>4
<1> QED  BY <1>2, <1>3, <1>5, <1>6, <1>7, <1>8 DEF FirstObjects

----------------------------------------------------------------------------
(* What the methods do, whatever the driver. *)

ContextTypes ==
    /\ contexts \in [Idents -> [refCount : Nat, txWorkStarted : BOOLEAN]]
    /\ ctx \in [Halves -> Idents \cup {NoIdent}]
    /\ leaked \subseteq Idents
    /\ rate \in [Idents -> [Halves -> Nat]]

HalfTypes ==
    /\ running \subseteq Halves /\ on \subseteq Halves
    /\ rxWorker \in {"none", "read", "swap", "ended"}
    /\ txWorker \in {"none", "read", "drain", "ended"}
    /\ rxStop \in BOOLEAN /\ txStop \in BOOLEAN

\* The types of the devices, by what they are about.
LEMMA DeviceParts == DeviceTypeOK <=> ContextTypes /\ HalfTypes /\ SampleTypes
  BY DEF DeviceTypeOK, ContextTypes, HalfTypes, SampleTypes

\* At most a stream is told to stop.
Told ==
    /\ UNCHANGED <<contextVars, halfVars, rxWorker, txWorker, sampleVars>>
    /\ rxStop' \in BOOLEAN /\ txStop' \in BOOLEAN

\* A step that leaves the devices alone tells no stream to stop, either.
LEMMA Unchanged ==
    ASSUME HalfTypes, UNCHANGED deviceVars
    PROVE  Told
  BY DEF HalfTypes, Told, deviceVars, rxVars, txVars

\* stop() tells the stream of a half to stop, and nothing else.
LEMMA StopsTell ==
    ASSUME HalfTypes, StopRX \/ StopTX
    PROVE  Told
<1>1. CASE UNCHANGED deviceVars
  BY <1>1, Unchanged
<1>2. CASE TellRX
  BY <1>2 DEF TellRX, Told, HalfTypes, txVars
<1>3. CASE TellTX
  BY <1>3 DEF TellTX, Told, HalfTypes, rxVars
<1> QED  BY <1>1, <1>2, <1>3
         DEF StopRX, StopTX, RFNMStopRX, BladeRFStopRX, USRPStopRX, RFNMStopTX, BladeRFStopTX,
             USRPStopTX

\* A half has been stopped and its worker has ended.
EndedRX ==
    /\ UNCHANGED <<contextVars, rxWorker, txVars>>
    /\ rxStop' \in BOOLEAN
    /\ running' = running \ {"rx"} /\ on' = on \ {"rx"}
    /\ rxWorker \in {"none", "ended"}

EndedTX ==
    /\ UNCHANGED <<ctx, leaked, rate, rxVars, txWorker, sampleVars>>
    /\ txStop' \in BOOLEAN
    /\ running' = running \ {"tx"} /\ on' = on \ {"tx"}
    /\ txWorker \in {"none", "ended"}
    /\ contexts' \in [Idents -> [refCount : Nat, txWorkStarted : BOOLEAN]]
    /\ \A i \in Idents : /\ contexts'[i].refCount = contexts[i].refCount
                         /\ ~contexts'[i].txWorkStarted

\* After the join the receiving half and its worker have ended.
LEMMA FinishRXEnds ==
    ASSUME HalfTypes, HalfInv, FinishRX
    PROVE  EndedRX
<1>1. CASE JoinRX
  BY <1>1 DEF JoinRX, EndedRX
<1>2. CASE UNCHANGED deviceVars /\ "rx" \notin running /\ ~Uses("rx", "usrp")
  <2>1. "rx" \notin on /\ rxWorker \notin {"read", "swap"}
    BY <1>2 DEF HalfInv
  <2>2. rxWorker \in {"none", "ended"} /\ rxStop \in BOOLEAN
    BY <2>1 DEF HalfTypes
  <2> QED  BY <1>2, <2>1, <2>2 DEF EndedRX, deviceVars, halfVars, rxVars
<1>3. \A d \in {"rfnm", "bladerf"} : Uses("rx", d) => ~Uses("rx", "usrp")
  BY DEF Uses
<1> QED  BY <1>1, <1>2, <1>3 DEF FinishRX, RFNMJoinRX, BladeRFJoinRX, USRPJoinRX

\* After the join the transmitting half and its worker have ended.
LEMMA FinishTXEnds ==
    ASSUME ContextTypes, HalfTypes, HalfInv, RefsBalanced, ~failed, pc = "joinTX", FinishTX
    PROVE  EndedTX
<1>1. \A i \in Idents : contexts[i].txWorkStarted =>
          /\ "tx" \in running /\ ctx["tx"] = i /\ DriverOf[i] = "rfnm"
  BY DEF RefsBalanced, HalfInv
<1>2. CASE UNCHANGED deviceVars /\ "tx" \notin running
  <2>1. "tx" \notin on /\ txWorker \notin {"read", "drain"}
    BY <1>2 DEF HalfInv
  <2>2. txWorker \in {"none", "ended"} /\ txStop \in BOOLEAN
    BY <2>1 DEF HalfTypes
  <2>3. \A i \in Idents : ~contexts[i].txWorkStarted
    BY <1>1, <1>2
  <2> QED  BY <1>2, <2>1, <2>2, <2>3
           DEF EndedTX, deviceVars, halfVars, contextVars, txVars, ContextTypes
<1>3. CASE JoinTX /\ UNCHANGED contexts /\ (Uses("tx", "bladerf") \/ Uses("tx", "usrp"))
  <2>1. \A i \in Idents : ~contexts[i].txWorkStarted
    BY <1>1, <1>3 DEF Uses
  <2> QED  BY <1>3, <2>1 DEF JoinTX, EndedTX, ContextTypes
<1>4. CASE /\ Uses("tx", "rfnm") /\ JoinTX
           /\ contexts' = [contexts EXCEPT ![ctx["tx"]].txWorkStarted = FALSE]
  <2>1. /\ contexts \in [Idents -> [refCount : Nat, txWorkStarted : BOOLEAN]]
        /\ ctx["tx"] \in Idents
    BY <1>4 DEF ContextTypes, Uses, Halves
  <2>2. /\ contexts' \in [Idents -> [refCount : Nat, txWorkStarted : BOOLEAN]]
        /\ \A i \in Idents :
              /\ contexts'[i].refCount = contexts[i].refCount
              /\ contexts'[i].txWorkStarted =
                    IF i = ctx["tx"] THEN FALSE ELSE contexts[i].txWorkStarted
    BY <1>4, <2>1
  <2>3. \A i \in Idents : ~contexts'[i].txWorkStarted
    BY <1>1, <2>2
  <2> QED  BY <1>4, <2>2, <2>3 DEF JoinTX, EndedTX
<1> QED  BY <1>2, <1>3, <1>4 DEF FinishTX, RFNMJoinTX, BladeRFJoinTX, USRPJoinTX

\* The halves of f that hold the context i.
HoldersOf(f, i) == (IF f["rx"] = i THEN 1 ELSE 0) + (IF f["tx"] = i THEN 1 ELSE 0)
Holders(i) == HoldersOf(ctx, i)

\* The halves that hold a context, counted.
LEMMA HalvesCounted ==
    ASSUME NEW i, NEW f
    PROVE  Cardinality({h \in Halves : f[h] = i}) = HoldersOf(f, i)
<1>1. CASE f["rx"] = i /\ f["tx"] = i
  <2>1. {h \in Halves : f[h] = i} = {"rx"} \cup {"tx"}
    BY <1>1 DEF Halves
  <2>2. IsFiniteSet({"rx"}) /\ Cardinality({"rx"}) = 1 /\ "tx" \notin {"rx"}
    BY FS_Singleton
  <2>3. Cardinality({"rx"} \cup {"tx"}) = 2
    BY <2>2, FS_AddElement
  <2> QED  BY <1>1, <2>1, <2>3 DEF HoldersOf
<1>2. CASE f["rx"] = i /\ f["tx"] # i
  <2>1. {h \in Halves : f[h] = i} = {"rx"}
    BY <1>2 DEF Halves
  <2> QED  BY <1>2, <2>1, FS_Singleton DEF HoldersOf
<1>3. CASE f["rx"] # i /\ f["tx"] = i
  <2>1. {h \in Halves : f[h] = i} = {"tx"}
    BY <1>3 DEF Halves
  <2> QED  BY <1>3, <2>1, FS_Singleton DEF HoldersOf
<1>4. CASE f["rx"] # i /\ f["tx"] # i
  <2>1. {h \in Halves : f[h] = i} = {}
    BY <1>4 DEF Halves
  <2> QED  BY <1>4, <2>1, FS_EmptySet DEF HoldersOf
<1> QED  BY <1>1, <1>2, <1>3, <1>4

Counted ==
    \A i \in Idents :
        /\ i \in leaked => DriverOf[i] \in {"rfnm", "bladerf"}
        /\ contexts[i].refCount = Holders(i) + (IF i \in leaked THEN 1 ELSE 0)
        /\ contexts[i].txWorkStarted => "tx" \in running /\ ctx["tx"] = i

\* RefsBalanced, with the holders counted half by half.
LEMMA Balance ==
    /\ RefsBalanced <=> Counted
    /\ RefsBalanced' <=> Counted'
<1>1. \A i \in Idents : Cardinality({h \in Halves : ctx[h] = i}) = Holders(i)
  BY HalvesCounted DEF Holders
<1>2. \A i \in Idents : Cardinality({h \in Halves : ctx'[h] = i}) = HoldersOf(ctx', i)
  BY HalvesCounted
<1> QED  BY <1>1, <1>2 DEF RefsBalanced, Counted, Holders

\* A half has let its context go, and stopped what was on.
Closed(h) ==
    /\ UNCHANGED <<leaked, running, rxVars, txVars>>
    /\ ctx' = [ctx EXCEPT ![h] = NoIdent]
    /\ on' = IF Uses(h, "usrp") THEN on \ {h} ELSE on
    /\ contexts' \in [Idents -> [refCount : Nat, txWorkStarted : BOOLEAN]]
    /\ rate' \in [Idents -> [Halves -> Nat]]
    /\ \A i \in Idents :
          /\ contexts'[i].refCount = contexts[i].refCount - (IF ctx[h] = i THEN 1 ELSE 0)
          /\ contexts'[i].txWorkStarted => contexts[i].txWorkStarted
          /\ rate'[i] = rate[i] \/ (ctx[h] = i /\ contexts'[i].refCount = 0)

\* Each driver's close lets the context of the half go.
LEMMA CloseCloses ==
    ASSUME ContextTypes, Counted, NEW h \in Halves, Close(h)
    PROVE  Closed(h)
<1>1. /\ contexts \in [Idents -> [refCount : Nat, txWorkStarted : BOOLEAN]]
      /\ rate \in [Idents -> [Halves -> Nat]]
      /\ ctx \in [Halves -> Idents \cup {NoIdent}]
  BY DEF ContextTypes
<1>2. CASE ctx[h] = NoIdent /\ UNCHANGED deviceVars
  <2>1. \A i \in Idents : ctx[h] # i
    BY <1>2, DeviceAssumption
  <2>2. ctx' = [ctx EXCEPT ![h] = NoIdent]
    BY <1>1, <1>2 DEF deviceVars, contextVars
  <2>3. \A i \in Idents : contexts[i].refCount - 0 = contexts[i].refCount
    BY <1>1
  <2> QED  BY <1>1, <1>2, <2>1, <2>2, <2>3
           DEF Closed, Uses, deviceVars, contextVars, halfVars
<1>3. CASE ctx[h] # NoIdent /\ Release(h)
  <2> DEFINE c == ctx[h]
             last == contexts[c].refCount = 1
             new == [refCount |-> contexts[c].refCount - 1,
                     txWorkStarted |-> contexts[c].txWorkStarted /\ ~last]
  <2>1. c \in Idents
    BY <1>1, <1>3
  <2>2. contexts[c].refCount \in Nat /\ contexts[c].refCount >= 1
    BY <1>1, <2>1 DEF Counted, Holders, HoldersOf, Halves
  <2>3. contexts[c].refCount - 1 \in Nat
    BY <2>2
  <2>4. new \in [refCount : Nat, txWorkStarted : BOOLEAN]
    BY <1>1, <2>1, <2>3
  <2>5. contexts' = [contexts EXCEPT ![c] = new]
    BY <1>3 DEF Release
  <2>6. new.refCount = contexts[c].refCount - 1 /\ (new.txWorkStarted => contexts[c].txWorkStarted)
    OBVIOUS
  <2>7. /\ contexts' \in [Idents -> [refCount : Nat, txWorkStarted : BOOLEAN]]
        /\ \A i \in Idents : contexts'[i] = IF i = c THEN new ELSE contexts[i]
    <3> HIDE DEF new, c
    <3> QED  BY <1>1, <2>1, <2>4, <2>5
  <2>8. \A i \in Idents :
           /\ contexts'[i].refCount = contexts[i].refCount - (IF c = i THEN 1 ELSE 0)
           /\ contexts'[i].txWorkStarted => contexts[i].txWorkStarted
    <3> HIDE DEF new, c
    <3>1. \A i \in Idents : contexts[i].refCount \in Nat
      BY <1>1
    <3> QED  BY <2>6, <2>7, <3>1
  <2>9. rate' = IF last THEN [rate EXCEPT ![c] = [k \in Halves |-> 0]] ELSE rate
    BY <1>3 DEF Release
  <2>10. /\ rate' \in [Idents -> [Halves -> Nat]]
         /\ \A i \in Idents : rate'[i] = rate[i] \/ (c = i /\ contexts'[i].refCount = 0)
    <3>1. CASE ~last
      <4>1. rate' = rate
        BY <2>9, <3>1
      <4> QED  BY <1>1, <4>1
    <3>2. CASE last
      <4>1. [k \in Halves |-> 0] \in [Halves -> Nat]
        OBVIOUS
      <4>2. rate' = [rate EXCEPT ![c] = [k \in Halves |-> 0]]
        BY <2>9, <3>2
      <4>3. contexts'[c].refCount = 0
        BY <2>1, <2>8, <3>2
      <4> HIDE DEF c, last
      <4> QED  BY <1>1, <2>1, <4>1, <4>2, <4>3
    <3> QED  BY <3>1, <3>2
  <2>11. UNCHANGED leaked /\ ctx' = [ctx EXCEPT ![h] = NoIdent]
    BY <1>3 DEF Release
  <2>12. /\ UNCHANGED <<running, rxVars, txVars>>
         /\ on' = IF Uses(h, "usrp") THEN on \ {h} ELSE on
    <3>1. Uses(h, "rfnm") \/ Uses(h, "bladerf") \/ Uses(h, "limesdr") => ~Uses(h, "usrp")
      BY DEF Uses
    <3> QED  BY <1>3, <3>1
             DEF Close, RFNMClose, BladeRFClose, LimeSDRClose, USRPClose, halfVars
  <2> QED  BY <2>7, <2>8, <2>10, <2>11, <2>12 DEF Closed
<1>4. \A d : Uses(h, d) => ctx[h] # NoIdent
  BY DEF Uses
<1> QED  BY <1>2, <1>3, <1>4 DEF Close, RFNMClose, BladeRFClose, LimeSDRClose, USRPClose

(***************************************************************************)
(* Rates: what a driver offers, and what it sets.                          *)
(***************************************************************************)
Rateable == MinRate \in 1 .. MAX_RATE

\* The best rate of a driver is not below the one asked for.
LEMMA BestRates ==
    ASSUME NEW h \in Halves, Best(h), Clocked(h) \/ Uses(h, "usrp")
    PROVE  /\ samplerate[h] \in Nat
           /\ Rateable => samplerate[h] >= MinRate /\ samplerate[h] > 0
<1>1. MinRate \in Nat /\ (Rateable => MinRate > 0 /\ MinRate <= MAX_RATE)
  BY AppAssumption DEF Rateable
<1>2. CASE Uses(h, "rfnm")
  <2>1. Stepped(MinRate) \in Nat /\ Stepped(MinRate) >= MinRate
    BY <1>1, SteppedUp
  <2>2. samplerate[h] = RFNMBestRX(MinRate) /\ RFNM_MIN_SAMPLERATE \in Nat
    BY <1>2, RFNMAssumption DEF Best
  <2> QED  BY <1>1, <2>1, <2>2 DEF RFNMBestRX
<1>3. CASE Uses(h, "bladerf")
  BY <1>1, <1>3, BladeRFAssumption DEF Best, BladeRFBest
<1>4. CASE Uses(h, "usrp")
  BY <1>1, <1>4, USRPAssumption DEF Best, USRPBest
<1> QED  BY <1>2, <1>3, <1>4 DEF Clocked

\* main chooses the best rate of each half.
LEMMA RatesChosen ==
    ASSUME HoldInv, pc = "rates", ChooseRates
    PROVE  /\ samplerate' \in [Halves -> Int]
           /\ \A h \in Halves : Best(h)'
<1>1. /\ ctx["rx"] # NoIdent /\ DriverOf[ctx["rx"]] \in Drivers
      /\ ctx["tx"] # NoIdent /\ DriverOf[ctx["tx"]] \in Drivers \ {"limesdr"}
  BY DEF HoldInv, Setup
<1>2. samplerate' = [rx |-> BestRX, tx |-> BestTX] /\ ctx' = ctx
  BY DEF ChooseRates, deviceVars, contextVars
<1>3. samplerate'["rx"] = BestRX /\ samplerate'["tx"] = BestTX
  BY <1>2
<1>4. \A h, d : Uses(h, d)' = Uses(h, d)
  BY <1>2 DEF Uses
<1>5. /\ Uses("rx", "rfnm") => BestRX = RFNMBestRX(MinRate)
      /\ Uses("rx", "bladerf") => BestRX = BladeRFBest(MinRate)
      /\ Uses("rx", "usrp") => BestRX = USRPBest(MinRate)
      /\ Uses("rx", "limesdr") => BestRX = -1
  BY DEF BestRX, Uses, LimeSDRBest
<1>6. /\ Uses("tx", "rfnm") => BestTX = RFNMBestRX(MinRate)
      /\ Uses("tx", "bladerf") => BestTX = BladeRFBest(MinRate)
      /\ Uses("tx", "usrp") => BestTX = USRPBest(MinRate)
  BY DEF BestTX, Uses, RFNMBestTX, RFNMBestRX
<1>7. Best("rx")' /\ Best("tx")'
  BY <1>3, <1>4, <1>5, <1>6 DEF Best
<1>8. \A h \in Halves : Best(h)'
  BY <1>7 DEF Halves
<1>9. RFNMBestRX(MinRate) \in Int /\ BladeRFBest(MinRate) \in Int /\ USRPBest(MinRate) \in Int
  <2>1. MinRate \in Nat /\ Stepped(MinRate) \in Nat
    BY AppAssumption, SteppedUp
  <2> QED  BY <2>1, RFNMAssumption, BladeRFAssumption, USRPAssumption
           DEF RFNMBestRX, BladeRFBest, USRPBest
<1>10. BestRX \in Int /\ BestTX \in Int
  BY <1>1, <1>5, <1>6, <1>9 DEF Uses, Drivers
<1> QED  BY <1>2, <1>8, <1>10 DEF Halves

Fitted ==
    /\ UNCHANGED <<contexts, ctx, leaked, halfVars, rxVars, txVars>>
    /\ rate' \in [Idents -> [Halves -> Nat]]

\* The receiver's context gets the rate that was chosen.
LEMMA RateSetRX ==
    ASSUME ContextTypes, RateInv, pc = "rateRX", SetRateRX
    PROVE  Fitted /\ (Clocked("rx") => rate'[ctx["rx"]]["rx"] = samplerate["rx"])
<1>1. /\ rate \in [Idents -> [Halves -> Nat]] /\ ctx \in [Halves -> Idents \cup {NoIdent}]
      /\ "rx" \in Halves /\ Best("rx")
  BY DEF ContextTypes, RateInv, Rated, Halves
<1>2. CASE UNCHANGED deviceVars /\ Uses("rx", "limesdr")
  BY <1>1, <1>2 DEF deviceVars, contextVars, Fitted, Clocked, Uses
<1>3. ASSUME Clocked("rx") \/ Uses("rx", "usrp")
      PROVE  samplerate["rx"] \in Nat /\ ctx["rx"] \in Idents
  BY <1>1, <1>3, BestRates DEF Clocked, Uses
<1>4. CASE RFNMSetRate("rx", samplerate["rx"])
  <2>1. /\ samplerate["rx"] \in Nat /\ ctx["rx"] \in Idents
        /\ rate' = [rate EXCEPT ![ctx["rx"]] = [k \in Halves |-> samplerate["rx"]]]
    BY <1>3, <1>4 DEF RFNMSetRate, Clocked
  <2> QED  BY <1>1, <1>4, <2>1 DEF RFNMSetRate, Fitted
<1>5. CASE SetRate("rx", samplerate["rx"]) /\ (Uses("rx", "bladerf") \/ Uses("rx", "usrp"))
  <2>1. /\ samplerate["rx"] \in Nat /\ ctx["rx"] \in Idents
        /\ rate' = [rate EXCEPT ![ctx["rx"]]["rx"] = samplerate["rx"]]
    BY <1>3, <1>5 DEF SetRate, Clocked
  <2> QED  BY <1>1, <1>5, <2>1 DEF SetRate, Fitted
<1> QED  BY <1>2, <1>4, <1>5
         DEF SetRateRX, BladeRFSetRate, LimeSDRSetRate, USRPSetRate, RFNMSetRate

\* One clock serves the halves of an RFNM device, which ask for the same rate.
LEMMA RateSetTX ==
    ASSUME ContextTypes, RateInv, pc = "rateTX", SetRateTX
    PROVE  /\ Fitted
           /\ Clocked("rx") => rate'[ctx["rx"]]["rx"] = samplerate["rx"]
           /\ Clocked("tx") => rate'[ctx["tx"]]["tx"] = samplerate["tx"]
<1>1. /\ rate \in [Idents -> [Halves -> Nat]] /\ ctx \in [Halves -> Idents \cup {NoIdent}]
      /\ "tx" \in Halves /\ "rx" \in Halves /\ Best("tx") /\ Best("rx")
      /\ Clocked("rx") => rate[ctx["rx"]]["rx"] = samplerate["rx"]
  BY DEF ContextTypes, RateInv, Rated, RatedRX, Halves
<1>2. ASSUME Clocked("tx") \/ Uses("tx", "usrp")
      PROVE  samplerate["tx"] \in Nat /\ ctx["tx"] \in Idents
  BY <1>1, <1>2, BestRates DEF Clocked, Uses
<1>3. Clocked("rx") => ctx["rx"] \in Idents
  BY <1>1 DEF Clocked, Uses
<1>4. CASE RFNMSetRate("tx", samplerate["tx"])
  <2>1. /\ samplerate["tx"] \in Nat /\ ctx["tx"] \in Idents /\ Uses("tx", "rfnm")
        /\ rate' = [rate EXCEPT ![ctx["tx"]] = [k \in Halves |-> samplerate["tx"]]]
    BY <1>2, <1>4 DEF RFNMSetRate, Clocked
  <2>2. Clocked("rx") /\ ctx["rx"] = ctx["tx"] => samplerate["rx"] = samplerate["tx"]
    BY <1>1, <2>1 DEF Clocked, Uses, Best
  <2> QED  BY <1>1, <1>3, <1>4, <2>1, <2>2 DEF RFNMSetRate, Fitted
<1>5. CASE SetRate("tx", samplerate["tx"]) /\ (Uses("tx", "bladerf") \/ Uses("tx", "usrp"))
  <2>1. /\ samplerate["tx"] \in Nat /\ ctx["tx"] \in Idents
        /\ rate' = [rate EXCEPT ![ctx["tx"]]["tx"] = samplerate["tx"]]
    BY <1>2, <1>5 DEF SetRate, Clocked
  <2>2. /\ rate' \in [Idents -> [Halves -> Nat]]
        /\ rate'[ctx["tx"]]["tx"] = samplerate["tx"]
        /\ \A i \in Idents : rate'[i]["rx"] = rate[i]["rx"]
    BY <1>1, <2>1
  <2> QED  BY <1>1, <1>3, <1>5, <2>2 DEF SetRate, Fitted
<1> QED  BY <1>4, <1>5 DEF SetRateTX, BladeRFSetRate, USRPSetRate, RFNMSetRate

(***************************************************************************)
(* A half is opened, or its constructor throws and leaves the context.     *)
(***************************************************************************)
Acquired(i) ==
    /\ contexts' \in [Idents -> [refCount : Nat, txWorkStarted : BOOLEAN]]
    /\ \A j \in Idents :
          /\ contexts'[j].refCount = contexts[j].refCount + (IF j = i THEN 1 ELSE 0)
          /\ contexts'[j].txWorkStarted => contexts[j].txWorkStarted

Opened(h, i) ==
    /\ Acquired(i) /\ ctx' = [ctx EXCEPT ![h] = i]
    /\ UNCHANGED <<leaked, rate, halfVars, rxVars, txVars>>

Lost(i) ==
    /\ Acquired(i) /\ leaked' = leaked \cup {i} /\ DriverOf[i] \in {"rfnm", "bladerf"}
    /\ UNCHANGED <<ctx, rate, halfVars, rxVars, txVars>>

\* A context that is acquired is counted once more.
LEMMA AcquireCounts ==
    ASSUME ContextTypes, NEW i \in Idents, Acquire(i)
    PROVE  Acquired(i)
<1>1. /\ contexts \in [Idents -> [refCount : Nat, txWorkStarted : BOOLEAN]]
      /\ contexts' = [contexts EXCEPT ![i].refCount = contexts[i].refCount + 1]
  BY DEF ContextTypes, Acquire
<1>2. contexts[i].refCount \in Nat /\ contexts[i].refCount + 1 \in Nat
  BY <1>1
<1>3. /\ contexts' \in [Idents -> [refCount : Nat, txWorkStarted : BOOLEAN]]
      /\ \A j \in Idents :
            /\ contexts'[j].refCount =
                  IF j = i THEN contexts[j].refCount + 1 ELSE contexts[j].refCount
            /\ contexts'[j].txWorkStarted = contexts[j].txWorkStarted
  BY <1>1, <1>2
<1>4. \A j \in Idents : contexts[j].refCount \in Nat
  BY <1>1
<1> QED  BY <1>3, <1>4 DEF Acquired

\* A receiver's constructor acquires the context that the command line selects.
LEMMA RXOpened ==
    ASSUME ContextTypes, OpenRX
    PROVE  \E i \in Idents : /\ i = Selected(cmd.rxdev) /\ DriverOf[i] \in Drivers
                             /\ Opened("rx", i)
<1>1. PICK i \in Idents : /\ i = Selected(cmd.rxdev) /\ DriverOf[i] \in Drivers
                          /\ Open("rx", i)
  BY DEF OpenRX, RFNMOpenRX, BladeRFOpenRX, LimeSDROpenRX, USRPOpenRX, Drivers
<1> QED  BY <1>1, AcquireCounts DEF Open, Opened

\* A transmitter's constructor acquires the context that the command line selects.
LEMMA TXOpened ==
    ASSUME ContextTypes, OpenTX
    PROVE  \E i \in Idents : /\ i = Selected(cmd.txdev) /\ DriverOf[i] \in Drivers \ {"limesdr"}
                             /\ Opened("tx", i)
<1>1. PICK i \in Idents : /\ i = Selected(cmd.txdev) /\ DriverOf[i] \in Drivers \ {"limesdr"}
                          /\ Open("tx", i)
  BY DEF OpenTX, RFNMOpenTX, BladeRFOpenTX, USRPOpenTX, Drivers
<1> QED  BY <1>1, AcquireCounts DEF Open, Opened

\* The halves start.
StartedTX ==
    /\ UNCHANGED <<ctx, leaked, rate, rxVars, txStop, sampleVars>>
    /\ txWorker' = "read" /\ running' = running \cup {"tx"}
    /\ on' \in {on, on \cup {"tx"}}
    /\ contexts' \in [Idents -> [refCount : Nat, txWorkStarted : BOOLEAN]]
    /\ \A i \in Idents :
          /\ contexts'[i].refCount = contexts[i].refCount
          /\ contexts'[i].txWorkStarted =>
                contexts[i].txWorkStarted \/ (ctx["tx"] = i /\ DriverOf[i] = "rfnm")

\* Each driver's start leaves the transmitter running.
LEMMA TXStarted ==
    ASSUME ContextTypes, RFNMStartTX \/ BladeRFStartTX \/ USRPStartTX
    PROVE  StartedTX
<1>1. contexts \in [Idents -> [refCount : Nat, txWorkStarted : BOOLEAN]]
  BY DEF ContextTypes
<1>2. CASE LaunchTX
  BY <1>1, <1>2 DEF LaunchTX, StartedTX, contextVars
<1>3. CASE RFNMStartTX
  <2>1. /\ ctx["tx"] \in Idents /\ DriverOf[ctx["tx"]] = "rfnm"
        /\ contexts' = [contexts EXCEPT ![ctx["tx"]].txWorkStarted = TRUE]
    BY <1>3 DEF RFNMStartTX, Uses, ContextTypes, Halves
  <2>2. /\ contexts' \in [Idents -> [refCount : Nat, txWorkStarted : BOOLEAN]]
        /\ \A i \in Idents :
              /\ contexts'[i].refCount = contexts[i].refCount
              /\ contexts'[i].txWorkStarted =
                    IF i = ctx["tx"] THEN TRUE ELSE contexts[i].txWorkStarted
    BY <1>1, <2>1
  <2> QED  BY <1>3, <2>1, <2>2 DEF RFNMStartTX, StartedTX
<1> QED  BY <1>2, <1>3 DEF BladeRFStartTX, USRPStartTX

\* The workers of the devices go on.
RxMoves ==
    /\ UNCHANGED <<contextVars, halfVars, rxStop, txVars>>
    /\ rxWorker \in {"read", "swap"} /\ rxWorker' \in {"read", "swap", "ended"}

TxMoves ==
    /\ UNCHANGED <<contextVars, halfVars, rxVars, txStop>>
    /\ txWorker \in {"read", "drain"} /\ txWorker' \in {"read", "drain", "ended"}

\* A worker goes round its loop or ends, and changes nothing of main.
LEMMA WorkersMove ==
    /\ DeviceRX => RxMoves /\ UNCHANGED mainVars
    /\ DeviceTX => TxAction /\ TxMoves /\ UNCHANGED mainVars
<1>1. DeviceRX => RxMoves /\ UNCHANGED mainVars
  BY DEF DeviceRX, RFNMReceive, RFNMReceiveError, BladeRFReceive, USRPReceive, USRPReceiveError,
         RxSwap, RxSwapStopped, RxTo, RxMoves
<1>2. TxAction => TxMoves
  BY DEF TxAction, TxRead, TxReadStopped, RFNMTransmit, BladeRFTransmit, USRPTransmit, TxQueue,
         TxDrop, TxFail, TxErase, TxSend, TxTo, TxMoves
<1>3. DeviceTX => TxAction /\ UNCHANGED mainVars
  BY DEF DeviceTX, TxAction
<1> QED  BY <1>1, <1>2, <1>3

\* What a failed start-up leaves behind.
LEMMA ThrowLeaves ==
    ASSUME ContextTypes, HalfTypes, RateInv, Throw
    PROVE  \/ Told
           \/ pc \in {"openRX", "openTX"} /\ \E i \in Idents : Lost(i)
           \/ pc \in {"rateRX", "rateTX"} /\ Fitted
           \/ pc = "startRX" /\ USRPStartRXThrows
<1>1. CASE UNCHANGED deviceVars
  BY <1>1, Unchanged
<1>2. CASE /\ pc \in {"openRX", "openTX"}
           /\ \E i \in Idents : DriverOf[i] \in {"rfnm", "bladerf"} /\ Leak(i)
  <2>1. PICK i \in Idents : DriverOf[i] \in {"rfnm", "bladerf"} /\ Leak(i)
    BY <1>2
  <2>2. Lost(i)
    BY <2>1, AcquireCounts DEF Leak, Lost
  <2> QED  BY <1>2, <2>2
<1>3. CASE pc = "rateRX" /\ SetRateRX
  BY <1>3, RateSetRX
<1>4. CASE pc = "rateTX" /\ SetRateTX
  BY <1>4, RateSetTX
<1>5. CASE pc = "startRX" /\ USRPStartRXThrows
  BY <1>5
<1> QED  BY <1>1, <1>2, <1>3, <1>4, <1>5
         DEF Throw, LeftBehind, BladeRFOpenRXThrows, RFNMOpenTXThrows, BladeRFOpenTXThrows

----------------------------------------------------------------------------
(* The types of the devices. *)

DeviceStep ==
    \/ Told \/ EndedRX \/ EndedTX
    \/ \E h \in Halves : Closed(h) /\ h \notin running
    \/ \E i \in Idents : \/ Lost(i) /\ leaked = {}
                         \/ \E h \in Halves : Opened(h, i) /\ ctx[h] = NoIdent
    \/ Fitted
    \/ LaunchRX \/ USRPStartRXThrows
    \/ RFNMEnableTX
    \/ StartedTX /\ txWorker = "none"
    \/ RxMoves
    \/ TxMoves /\ SampleTypes' /\ SampleInv'

\* Every step keeps the types of main and of the devices.
LEMMA StepTypes ==
    ASSUME DeviceTypeOK, DeviceStep
    PROVE  DeviceTypeOK'
<1>1. ContextTypes /\ HalfTypes /\ SampleTypes
  BY DeviceParts
<1> ContextTypes' /\ HalfTypes' /\ SampleTypes' => DeviceTypeOK'
  BY DEF DeviceTypeOK, ContextTypes, HalfTypes, SampleTypes
<1>2. UNCHANGED contextVars => ContextTypes'
  BY <1>1 DEF contextVars, ContextTypes
<1>3. UNCHANGED sampleVars => SampleTypes'
  BY <1>1 DEF sampleVars, SampleTypes
<1>4. UNCHANGED <<halfVars, rxVars, txVars>> => HalfTypes' /\ SampleTypes'
  BY <1>1, <1>3 DEF halfVars, rxVars, txVars, HalfTypes
<1>5. CASE Told
  <2>1. HalfTypes'
    BY <1>1, <1>5 DEF Told, halfVars, HalfTypes
  <2> QED  BY <1>2, <1>3, <1>5, <2>1 DEF Told
<1>6. CASE EndedRX
  <2>1. HalfTypes'
    BY <1>1, <1>6 DEF EndedRX, txVars, HalfTypes
  <2> QED  BY <1>2, <1>3, <1>6, <2>1 DEF EndedRX, txVars
<1>7. CASE EndedTX
  <2>1. HalfTypes'
    BY <1>1, <1>7 DEF EndedTX, rxVars, HalfTypes
  <2>2. ContextTypes'
    BY <1>1, <1>7 DEF EndedTX, ContextTypes
  <2> QED  BY <1>3, <1>7, <2>1, <2>2 DEF EndedTX
<1>8. ASSUME NEW h \in Halves, Closed(h) PROVE DeviceTypeOK'
  <2>1. HalfTypes'
    BY <1>1, <1>8 DEF Closed, rxVars, txVars, HalfTypes
  <2>2. SampleTypes'
    BY <1>3, <1>8 DEF Closed, txVars
  <2>3. ContextTypes'
    BY <1>1, <1>8 DEF Closed, ContextTypes
  <2> QED  BY <2>1, <2>2, <2>3
<1>9. ASSUME NEW i \in Idents, Lost(i) PROVE DeviceTypeOK'
  <2>1. ContextTypes'
    BY <1>1, <1>9 DEF Lost, Acquired, ContextTypes
  <2>2. UNCHANGED <<halfVars, rxVars, txVars>>
    BY <1>9 DEF Lost
  <2> QED  BY <1>4, <2>1, <2>2
<1>10. ASSUME NEW i \in Idents, NEW h \in Halves, Opened(h, i) PROVE DeviceTypeOK'
  <2>1. ContextTypes'
    BY <1>1, <1>10 DEF Opened, Acquired, ContextTypes
  <2>2. UNCHANGED <<halfVars, rxVars, txVars>>
    BY <1>10 DEF Opened
  <2> QED  BY <1>4, <2>1, <2>2
<1>11. CASE Fitted
  <2>1. ContextTypes'
    BY <1>1, <1>11 DEF Fitted, ContextTypes
  <2>2. UNCHANGED <<halfVars, rxVars, txVars>>
    BY <1>11 DEF Fitted
  <2> QED  BY <1>4, <2>1, <2>2
<1>12. CASE LaunchRX
  <2>1. HalfTypes'
    BY <1>1, <1>12 DEF LaunchRX, txVars, HalfTypes, Halves
  <2> QED  BY <1>2, <1>3, <1>12, <2>1 DEF LaunchRX, txVars
<1>13. CASE USRPStartRXThrows
  <2>1. HalfTypes'
    BY <1>1, <1>13 DEF USRPStartRXThrows, rxVars, txVars, HalfTypes, Halves
  <2> QED  BY <1>2, <1>3, <1>13, <2>1 DEF USRPStartRXThrows, txVars
<1>14. CASE RFNMEnableTX
  <2>1. HalfTypes'
    BY <1>1, <1>14 DEF RFNMEnableTX, rxVars, txVars, HalfTypes, Halves
  <2> QED  BY <1>2, <1>3, <1>14, <2>1 DEF RFNMEnableTX, txVars
<1>15. CASE StartedTX
  <2>1. HalfTypes'
    BY <1>1, <1>15 DEF StartedTX, rxVars, HalfTypes, Halves
  <2>2. ContextTypes'
    BY <1>1, <1>15 DEF StartedTX, ContextTypes
  <2> QED  BY <1>3, <1>15, <2>1, <2>2 DEF StartedTX
<1>16. CASE RxMoves
  <2>1. HalfTypes'
    BY <1>1, <1>16 DEF RxMoves, halfVars, txVars, HalfTypes
  <2> QED  BY <1>2, <1>3, <1>16, <2>1 DEF RxMoves, txVars
<1>17. CASE TxMoves /\ SampleTypes'
  <2>1. HalfTypes'
    BY <1>1, <1>17 DEF TxMoves, halfVars, rxVars, HalfTypes
  <2> QED  BY <1>2, <1>17, <2>1 DEF TxMoves
<1> QED  BY <1>5, <1>6, <1>7, <1>8, <1>9, <1>10, <1>11, <1>12, <1>13, <1>14, <1>15, <1>16, <1>17
         DEF DeviceStep

\* The steps that no device takes part in.
Plain ==
    \/ Command \/ MakeTUN \/ ChooseRates \/ MakeModem \/ StartBlock \/ Spawn \/ Arm \/ Wait
    \/ Disarm \/ JoinSender \/ StopBlock \/ UnwindRunning \/ PacketFromTUN \/ TUNError
    \/ SendPacket \/ Interrupt \/ Finished

\* The steps without a device leave all devices alone.
LEMMA PlainSteps ==
    ASSUME Plain
    PROVE  UNCHANGED deviceVars
  BY DEF Plain, Command, MakeTUN, ChooseRates, MakeModem, StartBlock, Spawn, Arm, Wait, Disarm,
         JoinSender, StopBlock, UnwindRunning, PacketFromTUN, TUNError, SendPacket, SenderTo, Interrupt,
         Finished, vars

\* Where a destruction of running blocks that does not go well leaves main.
LEMMA Destruction ==
    ASSUME UnwindRunning
    PROVE  /\ pc = "unwind" /\ pc' \in {"hung", "aborted"}
           /\ UNCHANGED <<deviceVars, cmd, alive, dsp, samplerate, run, handler, tun, sendWorker, failed>>
  BY DEF UnwindRunning

\* The steps: of the workers, of main with a device, and without one.
LEMMA NextSplit ==
    Next <=> \/ Plain \/ OpenRX \/ OpenTX \/ Configure \/ StartRX \/ StartTX \/ Throw \/ Catch
             \/ StopDevices \/ Unwind \/ DeviceRX \/ DeviceTX
  BY DEF Next, Main, Plain

\* The steps of main with a device, by their kind.
LEMMA DeviceSteps ==
    ASSUME DeviceTypeOK, MainInv, HoldInv, HalfInv, RefsBalanced, RateInv, SampleInv, Next
    PROVE  DeviceStep
<1>1. ContextTypes /\ HalfTypes /\ SampleTypes /\ Counted
  BY DeviceParts, Balance
<1>2. CASE Plain
  BY <1>1, <1>2, PlainSteps, Unchanged DEF DeviceStep
<1>3. CASE OpenRX
  BY <1>1, <1>3, RXOpened DEF DeviceStep, Halves, OpenRX, Goto, HoldInv, Begin
<1>4. CASE OpenTX
  BY <1>1, <1>4, TXOpened DEF DeviceStep, Halves, OpenTX, Goto, HoldInv, Begin
<1>5. CASE Configure
  BY <1>1, <1>5, RateSetRX, RateSetTX DEF DeviceStep, Configure, Goto
<1>6. CASE StartRX
  BY <1>6 DEF DeviceStep, StartRX, RFNMStartRX, BladeRFStartRX, USRPStartRX
<1>7. CASE StartTX
  <2>1. txWorker = "none"
    BY <1>7 DEF StartTX, Goto, HalfInv, StartUp
  <2> QED  BY <1>1, <1>7, <2>1, TXStarted DEF DeviceStep, StartTX
<1>8. CASE Throw
  BY <1>1, <1>8, ThrowLeaves DEF DeviceStep, HoldInv, Begin
<1>9. CASE Catch
  <2>1. Told \/ EndedRX \/ (Closed("rx") /\ "rx" \notin running)
    <3>1. "rx" \in Halves
      BY DEF Halves
    <3>2. "rx" \in running => pc # "catchClose"
      BY DEF HalfInv, RxUp, Serving
    <3> QED  BY <1>1, <1>9, <3>1, <3>2, StopsTell, FinishRXEnds, CloseCloses DEF Catch, Goto
  <2> QED  BY <2>1 DEF DeviceStep, Halves
<1>10. CASE StopDevices
  <2>1. "rx" \in Halves /\ "tx" \in Halves
    BY DEF Halves
  <2>2. pc = "joinTX" => ~failed
    BY DEF MainInv, Catching, Unwinding
  <2>3. /\ "rx" \in running => pc # "closeRX"
        /\ "tx" \in running => pc # "closeTX"
    BY DEF HalfInv, RxUp, TxUp, Serving
  <2>4. \/ Told \/ EndedRX \/ EndedTX
        \/ Closed("rx") /\ "rx" \notin running
        \/ Closed("tx") /\ "tx" \notin running
    BY <1>1, <1>10, <2>1, <2>2, <2>3, StopsTell, FinishRXEnds, FinishTXEnds, CloseCloses
       DEF StopDevices, Goto
  <2> QED  BY <2>1, <2>4 DEF DeviceStep
<1>11. CASE Unwind
  <2>1. "rx" \in Halves /\ "tx" \in Halves
    BY DEF Halves
  <2>2. UNCHANGED deviceVars \/ Close("rx") \/ Close("tx")
    BY <1>11 DEF Unwind
  <2>3. "rx" \notin running /\ "tx" \notin running
    BY <1>11 DEF Unwind, HalfInv, RxUp, TxUp, Serving
  <2> QED  BY <1>1, <2>1, <2>2, <2>3, Unchanged, CloseCloses DEF DeviceStep
<1>12. CASE DeviceRX
  BY <1>12, WorkersMove DEF DeviceStep
<1>13. CASE DeviceTX
  <2>1. TxMoves /\ TxAction
    BY <1>13, WorkersMove
  <2> QED  BY <2>1, TxSamples DEF DeviceStep
<1> QED  BY <1>2, <1>3, <1>4, <1>5, <1>6, <1>7, <1>8, <1>9, <1>10, <1>11, <1>12, <1>13, NextSplit

----------------------------------------------------------------------------
(* The objects are destroyed in the opposite order of their declarations. *)

\* Destroying the last object leaves the ones in front of it.
LEMMA Destroyed ==
    ASSUME NEW n \in 1 .. 7, alive = FirstObjects(n)
    PROVE  LastAlive = Objects[n] /\ alive \ {LastAlive} = FirstObjects(n - 1)
<1> DEFINE P(i) == /\ Objects[i] \in alive
                   /\ \A j \in i + 1 .. Len(Objects) : Objects[j] \notin alive
<1>1. DOMAIN Objects = 1 .. 7 /\ Len(Objects) = 7
  BY DEF Objects
<1>2. \A i, j \in 1 .. 7 : Objects[i] = Objects[j] => i = j
  <2>1. /\ Objects[1] = "rxd" /\ Objects[2] = "agc" /\ Objects[3] = "txd" /\ Objects[4] = "lp"
        /\ Objects[5] = "rx" /\ Objects[6] = "ns" /\ Objects[7] = "tx"
    BY DEF Objects
  <2>2. 1 .. 7 = {1, 2, 3, 4, 5, 6, 7}
    OBVIOUS
  <2> QED  BY <2>1, <2>2
<1>3. \A j \in 1 .. 7 : Objects[j] \in alive <=> j <= n
  <2>1. ASSUME NEW j \in 1 .. 7 PROVE Objects[j] \in alive <=> j <= n
    <3>1. CASE j <= n
      <4>1. j \in 1 .. n
        BY <3>1
      <4> QED  BY <3>1, <4>1 DEF FirstObjects
    <3>2. CASE ~(j <= n)
      <4>1. \A i \in 1 .. n : i \in 1 .. 7 /\ i # j
        BY <3>2
      <4> QED  BY <1>2, <3>2, <4>1 DEF FirstObjects
    <3> QED  BY <3>1, <3>2
  <2> QED  BY <2>1
<1>4. P(n)
  <2>1. \A j \in n + 1 .. 7 : j \in 1 .. 7 /\ ~(j <= n)
    OBVIOUS
  <2> QED  BY <1>1, <1>3, <2>1
<1>5. \A i \in 1 .. 7 : P(i) => i = n
  <2>1. ASSUME NEW i \in 1 .. 7, P(i) PROVE i = n
    <3>1. i <= n
      BY <1>3, <2>1
    <3>2. ASSUME i # n PROVE FALSE
      <4>1. n \in i + 1 .. 7
        BY <3>1, <3>2
      <4> QED  BY <1>1, <1>3, <2>1, <4>1
    <3> QED  BY <3>2
  <2> QED  BY <2>1
<1> HIDE DEF P
<1>6. (CHOOSE i \in 1 .. 7 : P(i)) = n
  BY <1>4, <1>5
<1>7. LastAlive = Objects[n]
  BY <1>1, <1>6 DEF LastAlive, P
<1>8. alive \ {Objects[n]} = FirstObjects(n - 1)
  <2>1. \A i \in 1 .. n - 1 : i \in 1 .. n /\ i \in 1 .. 7 /\ i # n
    OBVIOUS
  <2>2. \A i \in 1 .. n : i # n => i \in 1 .. n - 1
    OBVIOUS
  <2>3. FirstObjects(n - 1) \subseteq alive \ {Objects[n]}
    BY <1>2, <2>1 DEF FirstObjects
  <2>4. alive \ {Objects[n]} \subseteq FirstObjects(n - 1)
    BY <2>2 DEF FirstObjects
  <2> QED  BY <2>3, <2>4
<1> QED  BY <1>7, <1>8

\* The first block of a set is in the set.
LEMMA BlockChosen ==
    ASSUME NEW S, S \subseteq ToSet(BlockOrder), S # {}
    PROVE  FirstBlock(S) \in S
<1> DEFINE P(i) == /\ BlockOrder[i] \in S
                   /\ \A j \in 1 .. i - 1 : BlockOrder[j] \notin S
<1>1. DOMAIN BlockOrder = 1 .. 5 /\ 1 .. 5 = {1, 2, 3, 4, 5}
  BY DEF BlockOrder
<1>2. ToSet(BlockOrder) = {BlockOrder[i] : i \in 1 .. 5}
  BY <1>1 DEF ToSet
<1>3. \E i \in 1 .. 5 : P(i)
  <2>1. /\ 1 .. 1 - 1 = {} /\ 1 .. 2 - 1 = {1} /\ 1 .. 3 - 1 = {1, 2} /\ 1 .. 4 - 1 = {1, 2, 3}
        /\ 1 .. 5 - 1 = {1, 2, 3, 4}
    OBVIOUS
  <2>2. \E i \in 1 .. 5 : BlockOrder[i] \in S
    BY <1>2
  <2>3. P(1) \/ P(2) \/ P(3) \/ P(4) \/ P(5)
    BY <1>1, <2>1, <2>2
  <2> QED  BY <2>3
<1> HIDE DEF P
<1>4. P(CHOOSE i \in 1 .. 5 : P(i))
  BY <1>3
<1> QED  BY <1>1, <1>4 DEF FirstBlock, P

\* Every step keeps what main has at each statement.
LEMMA MainSteps ==
    ASSUME MainTypes, MainInv, HoldInv, Next
    PROVE  MainTypes' /\ MainInv'
<1> USE DEF MainTypes, MainInv, Begin, Setup, Catching, Serving, RxUp, TxUp, ModemUp, Inside,
            Ending, Unwinding, Goto
<1>1. CASE Command \/ MakeTUN
  <2>1. CASE Command
    <3>1. /\ pc = "command" /\ pc' \in {"ended", "tun"}
          /\ UNCHANGED <<cmd, alive, dsp, samplerate, run, handler, tun, sendWorker, failed>>
      BY <2>1 DEF Command
    <3> QED  BY <3>1
  <2>2. CASE MakeTUN
    BY <2>2 DEF MakeTUN
  <2> QED  BY <1>1, <2>1, <2>2
<1>2. CASE OpenRX \/ OpenTX
  <2>1. "rxd" \in ToSet(Objects) /\ "agc" \in ToSet(Objects) /\ "txd" \in ToSet(Objects)
    BY Things
  <2>2. /\ FirstObjects(2) = {"rxd", "agc"}
        /\ FirstObjects(3) = {"rxd", "agc"} \cup {"txd"}
    BY Things
  <2>3. CASE OpenRX
    BY <2>1, <2>2, <2>3 DEF OpenRX
  <2>4. CASE OpenTX
    BY <2>1, <2>2, <2>4 DEF OpenTX
  <2> QED  BY <1>2, <2>3, <2>4
<1>3. CASE ChooseRates
  <2>1. samplerate' \in [Halves -> Int]
    BY <1>3, RatesChosen DEF ChooseRates
  <2> QED  BY <1>3, <2>1 DEF ChooseRates
<1>4. CASE Configure
  BY <1>4 DEF Configure
<1>5. CASE MakeModem
  <2>1. ToSet(BlockOrder) # {} /\ FirstObjects(7) = ToSet(Objects)
    BY Things
  <2> QED  BY <1>5, <2>1 DEF MakeModem
<1>6. CASE StartBlock
  <2>1. ToSet(BlockOrder) \ dsp # {} /\ ToSet(BlockOrder) \ dsp \subseteq ToSet(BlockOrder)
    BY <1>6 DEF StartBlock
  <2>2. dsp' \subseteq ToSet(BlockOrder)
    BY <1>6, <2>1, BlockChosen DEF StartBlock
  <2> QED  BY <1>6, <2>2 DEF StartBlock
<1>7. CASE StartRX \/ StartTX
  BY <1>7 DEF StartRX, StartTX
<1>8. CASE Throw
  <2>1. /\ UNCHANGED <<cmd, alive, dsp, samplerate, run, handler, tun, sendWorker>>
        /\ failed' = TRUE
        /\ pc' = IF pc \in {"startTX", "startTXWork"} THEN "catchStop" ELSE "unwind"
    BY <1>8 DEF Throw
  <2>2. pc \in {"command", "tun", "openRX", "openTX", "rates", "rateRX", "rateTX", "startRX",
                "startTX", "startTXWork"}
    BY <1>8 DEF Throw, MayThrow
  <2>3. \A n \in {0, 2, 3, 7} : n \in 0 .. 7
    OBVIOUS
  <2>4. FirstObjects(0) = {} /\ FirstObjects(7) = ToSet(Objects)
        /\ ToSet(BlockOrder) \subseteq ToSet(Objects)
    BY Things
  <2> QED  BY <2>1, <2>2, <2>3, <2>4
<1>9. CASE Catch
  <2>1. FirstObjects(7) = ToSet(Objects) /\ ToSet(BlockOrder) \subseteq ToSet(Objects) /\ 7 \in 0 .. 7
    BY Things
  <2> QED  BY <1>9, <2>1 DEF Catch
<1>10. CASE Spawn \/ Arm \/ Wait \/ Disarm \/ JoinSender
  <2>1. /\ UNCHANGED <<cmd, alive, dsp, samplerate, run, tun, failed>>
        /\ handler' \in BOOLEAN
    BY <1>10 DEF Spawn, Arm, Wait, Disarm, JoinSender
  <2>2. \/ pc = "spawn" /\ pc' = "arm" /\ sendWorker' = "recv"
        \/ pc = "arm" /\ pc' = "wait" /\ sendWorker' = sendWorker
        \/ pc = "wait" /\ pc' = "disarm" /\ sendWorker' = sendWorker
        \/ pc = "disarm" /\ pc' = "join" /\ sendWorker' = sendWorker
        \/ pc = "join" /\ pc' = "stopRX" /\ sendWorker = "ended" /\ sendWorker' = sendWorker
    BY <1>10 DEF Spawn, Arm, Wait, Disarm, JoinSender
  <2> QED  BY <2>1, <2>2
<1>11. CASE Interrupt
  <2>1. /\ pc' \in {pc, "killed"} /\ run' \in BOOLEAN /\ pc \notin {"ended", "crashed"}
        /\ UNCHANGED <<cmd, alive, dsp, samplerate, handler, tun, sendWorker, failed>>
    BY <1>11 DEF Interrupt, Over
  <2>2. CASE pc' = pc
    BY <2>1, <2>2
  <2>3. CASE pc' = "killed"
    BY <2>1, <2>3
  <2> QED  BY <2>1, <2>2, <2>3
<1>12. CASE PacketFromTUN \/ TUNError \/ SendPacket
  <2>1. /\ sendWorker \in {"recv", "send"} /\ sendWorker' \in {"recv", "send", "ended"}
        /\ UNCHANGED <<pc, cmd, alive, dsp, samplerate, run, handler, tun, failed>>
        /\ pc # "killed"
    BY <1>12 DEF PacketFromTUN, TUNError, SendPacket, SenderTo, Over
  <2>2. pc \in Serving
    BY <2>1
  <2> QED  BY <2>1, <2>2
<1>13. CASE StopDevices
  BY <1>13 DEF StopDevices
<1>14. CASE StopBlock
  <2>1. 7 \in 0 .. 7
    OBVIOUS
  <2> QED  BY <1>14, <2>1 DEF StopBlock
<1>15. CASE Unwind
  <2>1. UNCHANGED <<cmd, samplerate, run, handler, sendWorker, failed>> /\ pc = "unwind"
    BY <1>15 DEF Unwind
  <2>2. CASE alive = {}
    <3>1. pc' = "ended" /\ tun' = FALSE /\ UNCHANGED <<alive, dsp>>
      BY <1>15, <2>2 DEF Unwind, CloseTUN
    <3> QED  BY ZenonT(30), <2>1, <2>2, <3>1
  <2>3. CASE alive # {}
    <3>1. PICK n \in 0 .. 7 : alive = FirstObjects(n)
      BY <2>1
    <3>2. n \in 1 .. 7
      BY <2>3, <3>1, Things
    <3>3. alive' = FirstObjects(n - 1) /\ n - 1 \in 0 .. 7 /\ alive' = alive \ {LastAlive}
      <4>1. alive' = alive \ {LastAlive}
        BY <1>15, <2>3 DEF Unwind
      <4>2. alive \ {LastAlive} = FirstObjects(n - 1)
        BY <3>1, <3>2, Destroyed
      <4> QED  BY <3>2, <4>1, <4>2
    <3>4. dsp' = dsp \ {LastAlive} /\ UNCHANGED <<pc, tun>>
      BY <1>15, <2>3 DEF Unwind
    <3>5. dsp' = {} \/ (failed /\ dsp' = alive' \cap ToSet(BlockOrder))
      BY <2>1, <3>3, <3>4
    <3>6. alive' \subseteq ToSet(Objects) /\ dsp' \subseteq ToSet(BlockOrder)
      BY <3>3, <3>4
    <3> QED  BY <2>1, <3>3, <3>4, <3>5, <3>6
  <2> QED  BY <2>2, <2>3
<1>16. CASE UnwindRunning
  <2>1. /\ pc = "unwind" /\ pc' \in {"hung", "aborted"}
        /\ UNCHANGED <<cmd, alive, dsp, samplerate, run, handler, tun, sendWorker, failed>>
    BY <1>16, Destruction
  <2> QED  BY <2>1
<1>17. CASE DeviceRX \/ DeviceTX \/ Finished
  <2>1. UNCHANGED mainVars
    BY <1>17 DEF DeviceRX, DeviceTX, Finished, vars
  <2> QED  BY <2>1 DEF mainVars
<1> QED  BY <1>1, <1>2, <1>3, <1>4, <1>5, <1>6, <1>7, <1>8, <1>9, <1>10, <1>11, <1>12, <1>13,
            <1>14, <1>15, <1>16, <1>17 DEF Next, Main

----------------------------------------------------------------------------
(* The contexts that the halves hold. *)

\* Every step keeps who holds which context.
LEMMA HoldSteps ==
    ASSUME DeviceTypeOK, MainTypes, MainInv, HoldInv, HalfInv, RefsBalanced, RateInv, Next
    PROVE  HoldInv'
<1> USE DEF Begin, Setup
<1>1. /\ ContextTypes /\ HalfTypes /\ Counted
      /\ ctx \in [Halves -> Idents \cup {NoIdent}] /\ "rx" \in Halves /\ "tx" \in Halves
  BY DeviceParts, Balance DEF ContextTypes, Halves
<1> DEFINE Moved ==
      /\ pc' \in Begin => pc \in Begin
      /\ pc' \in Begin \cup {"openTX"} => pc \in Begin \cup {"openTX"}
      /\ pc' \in {"openTX"} \cup Setup => pc \in {"openTX"} \cup Setup
      /\ pc' \in Setup => pc \in Setup
      /\ pc' \in {"unwind", "ended"} /\ "rxd" \notin alive' => ctx["rx"] = NoIdent
      /\ pc' \in {"unwind", "ended"} /\ "txd" \notin alive' => ctx["tx"] = NoIdent
<1>2. ASSUME UNCHANGED <<ctx, leaked, cmd>>, Moved
      PROVE  HoldInv'
  BY <1>2 DEF HoldInv, Selected
<1>3. /\ FirstObjects(2) = {"rxd", "agc"} /\ FirstObjects(3) = {"rxd", "agc", "txd"}
      /\ "rxd" \in FirstObjects(7) /\ "txd" \in FirstObjects(7)
  BY Things
<1>4. Told => UNCHANGED <<ctx, leaked>>
  BY DEF Told, contextVars
<1>5. CASE Plain
  <2>1. UNCHANGED <<ctx, leaked>>
    BY <1>5, PlainSteps DEF deviceVars, contextVars
  <2>2. UNCHANGED cmd
    BY <1>5 DEF Plain, Command, MakeTUN, ChooseRates, MakeModem, StartBlock, Spawn, Arm, Wait,
                Disarm, JoinSender, StopBlock, UnwindRunning, PacketFromTUN, TUNError, SendPacket, SenderTo,
                Interrupt, Finished, vars, mainVars
  <2>3. CASE Command \/ MakeTUN \/ ChooseRates \/ MakeModem
    BY <2>3 DEF HoldInv, Command, MakeTUN, ChooseRates, MakeModem, Goto, Selected,
                deviceVars, contextVars
  <2>4. CASE StartBlock
    BY <1>2, <2>1, <2>2, <2>4 DEF StartBlock
  <2>5. CASE Spawn \/ Arm \/ Wait \/ Disarm \/ JoinSender
    <3>1. pc' \in {"arm", "wait", "disarm", "join", "stopRX"}
      BY <2>5 DEF Spawn, Arm, Wait, Disarm, JoinSender, Goto
    <3> QED  BY <1>2, <2>1, <2>2, <3>1
  <2>6. CASE StopBlock
    <3>1. pc' \in {"stopDsp", "unwind"} /\ "rxd" \in alive' /\ "txd" \in alive'
      BY <1>3, <2>6 DEF StopBlock, MainInv
    <3> QED  BY <1>2, <2>1, <2>2, <3>1
  <2>7. CASE PacketFromTUN \/ TUNError \/ SendPacket \/ Interrupt \/ Finished
    <3>1. pc' \in {pc, "killed"} /\ alive' = alive
      BY <2>7 DEF PacketFromTUN, TUNError, SendPacket, SenderTo, Interrupt, Finished, vars, mainVars
    <3>2. Moved
      BY <3>1 DEF HoldInv
    <3> QED  BY <1>2, <2>1, <2>2, <3>2
  <2>8. CASE UnwindRunning
    <3>1. Moved
      BY <2>8, Destruction DEF HoldInv
    <3> QED  BY <1>2, <2>1, <2>2, <3>1
  <2> QED  BY <1>5, <2>3, <2>4, <2>5, <2>6, <2>7, <2>8 DEF Plain
<1>6. CASE OpenRX
  <2>1. PICK i \in Idents : /\ i = Selected(cmd.rxdev) /\ DriverOf[i] \in Drivers
                            /\ Opened("rx", i)
    BY <1>1, <1>6, RXOpened
  <2>2. ctx'["rx"] = i /\ ctx'["tx"] = ctx["tx"] /\ leaked' = leaked
    BY <1>1, <2>1 DEF Opened
  <2>3. pc = "openRX" /\ pc' = "openTX" /\ cmd' = cmd
    BY <1>6 DEF OpenRX, Goto
  <2> QED  BY <2>1, <2>2, <2>3, DeviceAssumption DEF HoldInv, Selected
<1>7. CASE OpenTX
  <2>1. PICK i \in Idents : /\ i = Selected(cmd.txdev) /\ DriverOf[i] \in Drivers \ {"limesdr"}
                            /\ Opened("tx", i)
    BY <1>1, <1>7, TXOpened
  <2>2. ctx'["tx"] = i /\ ctx'["rx"] = ctx["rx"] /\ leaked' = leaked
    BY <1>1, <2>1 DEF Opened
  <2>3. pc = "openTX" /\ pc' = "rates" /\ cmd' = cmd
    BY <1>7 DEF OpenTX, Goto
  <2> QED  BY <2>1, <2>2, <2>3, DeviceAssumption DEF HoldInv, Selected
<1>8. CASE Configure
  <2>1. Fitted
    BY <1>1, <1>8, RateSetRX, RateSetTX DEF Configure, Goto
  <2>2. Moved
    BY <1>8 DEF Configure, Goto
  <2> QED  BY <1>2, <1>8, <2>1, <2>2 DEF Configure, Fitted
<1>9. CASE StartRX
  <2>1. UNCHANGED <<ctx, leaked>>
    BY <1>9 DEF StartRX, RFNMStartRX, BladeRFStartRX, USRPStartRX, LaunchRX, contextVars
  <2> QED  BY <1>2, <1>9, <2>1 DEF StartRX, Goto
<1>10. CASE StartTX
  <2>1. UNCHANGED <<ctx, leaked>>
    BY <1>1, <1>10, TXStarted DEF StartTX, RFNMEnableTX, StartedTX, contextVars
  <2>2. pc' \in {"startTXWork", "spawn"} /\ cmd' = cmd
    BY <1>10 DEF StartTX, Goto
  <2> QED  BY <1>2, <2>1, <2>2
<1>11. CASE Throw
  <2>1. pc' \in {"catchStop", "unwind"} /\ alive' = alive /\ cmd' = cmd /\ ctx' = ctx
    <3>1. ctx' = ctx
      BY <1>1, <1>4, <1>11, ThrowLeaves DEF Lost, Fitted, USRPStartRXThrows, contextVars
    <3> QED  BY <1>11, <3>1 DEF Throw
  <2>2. /\ "rxd" \notin alive => pc \in Begin
        /\ "txd" \notin alive => pc \in Begin \cup {"openTX"}
    <3>1. pc \in {"command", "tun", "openRX", "openTX", "rates", "rateRX", "rateTX", "startRX",
                  "startTX", "startTXWork"}
      BY <1>11 DEF Throw, MayThrow
    <3> QED  BY <1>3, <3>1 DEF MainInv, ModemUp, RxUp
  <2>3. /\ "rxd" \notin alive' => ctx["rx"] = NoIdent
        /\ "txd" \notin alive' => ctx["tx"] = NoIdent
    BY <2>1, <2>2 DEF HoldInv
  <2> QED  BY <2>1, <2>3 DEF HoldInv, Selected
<1>12. CASE Catch
  <2>1. CASE pc' # "unwind"
    <3>1. EndedRX => UNCHANGED <<ctx, leaked>>
      BY DEF EndedRX, contextVars
    <3>2. UNCHANGED <<ctx, leaked>>
      BY <1>1, <1>4, <1>12, <2>1, <3>1, StopsTell, FinishRXEnds DEF Catch, Goto
    <3>3. pc' \in {"catchJoin", "catchClose"} /\ cmd' = cmd
      BY <1>12, <2>1 DEF Catch, Goto
    <3> QED  BY <1>2, <3>2, <3>3
  <2>2. CASE pc' = "unwind"
    <3>1. Closed("rx") /\ pc = "catchClose" /\ alive' = alive /\ cmd' = cmd
      BY <1>1, <1>12, <2>2, CloseCloses DEF Catch, Goto
    <3>2. ctx'["rx"] = NoIdent /\ ctx'["tx"] = ctx["tx"]
      BY <1>1, <3>1 DEF Closed
    <3>3. "txd" \in alive'
      BY <1>3, <3>1 DEF MainInv, ModemUp, Catching
    <3> QED  BY <2>2, <3>1, <3>2, <3>3 DEF HoldInv, Selected
  <2> QED  BY <2>1, <2>2
<1>13. CASE StopDevices
  <2>1. /\ pc' \in {"joinRX", "closeRX", "stopTX", "joinTX", "closeTX", "stopDsp"}
        /\ cmd' = cmd
    BY <1>13 DEF StopDevices, Goto
  <2>2. pc = "joinTX" => ~failed
    BY DEF MainInv, Catching, Unwinding
  <2>3. Told \/ EndedRX \/ EndedTX \/ Closed("rx") \/ Closed("tx")
    BY <1>1, <1>13, <2>2, StopsTell, FinishRXEnds, FinishTXEnds, CloseCloses
       DEF StopDevices, Goto
  <2>4. ctx'["rx"] \in {ctx["rx"], NoIdent} /\ ctx'["tx"] \in {ctx["tx"], NoIdent}
    BY <1>1, <1>4, <2>3 DEF EndedRX, EndedTX, Closed, contextVars
  <2> QED  BY <2>1, <2>4 DEF HoldInv, Selected
<1>14. CASE Unwind
  <2>1. pc = "unwind" /\ pc' \in {"unwind", "ended"} /\ cmd' = cmd
    BY <1>14 DEF Unwind
  <2>2. CASE alive = {}
    <3>1. UNCHANGED <<deviceVars, alive>>
      BY <1>14, <2>2 DEF Unwind
    <3>2. Moved
      BY <2>1, <3>1 DEF HoldInv
    <3> QED  BY <1>2, <2>1, <3>1, <3>2 DEF deviceVars, contextVars
  <2>3. CASE alive # {}
    <3>1. /\ alive' = alive \ {LastAlive}
          /\ CASE LastAlive = "rxd" -> Close("rx")
               [] LastAlive = "txd" -> Close("tx")
               [] OTHER -> UNCHANGED deviceVars
      BY <1>14, <2>3 DEF Unwind
    <3>2. CASE LastAlive = "rxd"
      <4>1. Closed("rx")
        BY <1>1, <3>1, <3>2, CloseCloses
      <4>2. ctx'["rx"] = NoIdent /\ ctx'["tx"] = ctx["tx"]
        BY <1>1, <4>1 DEF Closed
      <4>3. "txd" \notin alive' => "txd" \notin alive
        BY <3>1, <3>2
      <4> QED  BY <2>1, <4>2, <4>3 DEF HoldInv, Selected
    <3>3. CASE LastAlive = "txd"
      <4>1. Closed("tx")
        BY <1>1, <3>1, <3>3, CloseCloses
      <4>2. ctx'["tx"] = NoIdent /\ ctx'["rx"] = ctx["rx"]
        BY <1>1, <4>1 DEF Closed
      <4>3. "rxd" \notin alive' => "rxd" \notin alive
        BY <3>1, <3>3
      <4> QED  BY <2>1, <4>2, <4>3 DEF HoldInv, Selected
    <3>4. CASE LastAlive # "rxd" /\ LastAlive # "txd"
      <4>1. UNCHANGED deviceVars
        BY <3>1, <3>4
      <4>2. /\ "rxd" \notin alive' => "rxd" \notin alive
            /\ "txd" \notin alive' => "txd" \notin alive
        BY <3>1, <3>4
      <4>3. Moved
        BY <2>1, <4>2 DEF HoldInv
      <4> QED  BY <1>2, <2>1, <4>1, <4>3 DEF deviceVars, contextVars
    <3> QED  BY <3>2, <3>3, <3>4
  <2> QED  BY <2>2, <2>3
<1>15. CASE DeviceRX \/ DeviceTX
  <2>1. UNCHANGED <<contextVars, mainVars>>
    BY <1>15, WorkersMove DEF RxMoves, TxMoves
  <2>2. UNCHANGED <<ctx, leaked, cmd, pc, alive>>
    BY <2>1 DEF contextVars, mainVars
  <2>3. Moved
    BY <2>2 DEF HoldInv
  <2> QED  BY <1>2, <2>2, <2>3
<1> QED  BY <1>5, <1>6, <1>7, <1>8, <1>9, <1>10, <1>11, <1>12, <1>13, <1>14, <1>15, NextSplit

----------------------------------------------------------------------------
(* The halves that run, and their workers. *)

\* Every step keeps which half runs.
LEMMA HalfSteps ==
    ASSUME DeviceTypeOK, MainTypes, MainInv, HoldInv, HalfInv, RefsBalanced, RateInv, Next
    PROVE  HalfInv'
<1> USE DEF RxUp, TxUp, Serving, StartUp, Begin, Setup
<1>1. /\ ContextTypes /\ HalfTypes /\ Counted
      /\ ctx \in [Halves -> Idents \cup {NoIdent}] /\ "rx" \in Halves /\ "tx" \in Halves
  BY DeviceParts, Balance DEF ContextTypes, Halves
<1>2. "rx" \notin running => rxWorker \notin {"read", "swap"}
  BY DEF HalfInv
<1>3. "tx" \notin running => txWorker \notin {"read", "drain"}
  BY DEF HalfInv
<1> DEFINE Moved ==
      /\ "rx" \in running => pc' \in RxUp \cup {"killed"}
      /\ "tx" \in running => pc' \in TxUp \cup {"killed"}
      /\ pc' \in StartUp => pc \in StartUp
      /\ failed => failed'
      /\ pc \in {"startTXWork", "killed"} => failed' \/ pc' \in {"startTXWork", "killed"}
           Started == \A i \in Idents : contexts'[i].txWorkStarted => contexts[i].txWorkStarted
<1>4. ASSUME UNCHANGED <<ctx, running, on, rxWorker, txWorker, cmd>>, Moved, Started
      PROVE  HalfInv'
  <2> USE DEF HalfInv
  <2>1. \A h, d : Uses(h, d)' = Uses(h, d)
    BY <1>4 DEF Uses
  <2>2. Selected(cmd.txdev)' = Selected(cmd.txdev)
    BY <1>4 DEF Selected
  <2> QED  BY <1>4, <2>1, <2>2
<1>5. Told => UNCHANGED <<ctx, running, on, rxWorker, txWorker>> /\ Started
  BY DEF Told, contextVars, halfVars
<1>6. UNCHANGED deviceVars => UNCHANGED <<ctx, running, on, rxWorker, txWorker>> /\ Started
  BY DEF deviceVars, contextVars, halfVars, rxVars, txVars
<1>7. CASE Plain
  <2>1. UNCHANGED <<ctx, running, on, rxWorker, txWorker>> /\ Started
    BY <1>6, <1>7, PlainSteps
  <2>2. UNCHANGED <<cmd, failed>>
    BY <1>7 DEF Plain, Command, MakeTUN, ChooseRates, MakeModem, StartBlock, Spawn, Arm, Wait,
                Disarm, JoinSender, StopBlock, UnwindRunning, PacketFromTUN, TUNError, SendPacket, SenderTo,
                Interrupt, Finished, vars, mainVars
  <2>3. CASE Command \/ MakeTUN \/ ChooseRates \/ MakeModem \/ StartBlock \/ StopBlock
    <3>1. /\ pc \in {"command", "tun", "rates", "modem", "startDsp", "stopDsp"}
          /\ pc' \in StartUp => pc \in StartUp
      BY <2>3 DEF Command, MakeTUN, ChooseRates, MakeModem, StartBlock, StopBlock, Goto
    <3>2. Moved
      BY <2>2, <3>1 DEF HalfInv
    <3> QED  BY <1>4, <2>1, <2>2, <3>2
  <2>4. CASE Spawn \/ Arm \/ Wait \/ Disarm \/ JoinSender
    <3>1. /\ pc \in {"spawn", "arm", "wait", "disarm", "join"}
          /\ pc' \in {"arm", "wait", "disarm", "join", "stopRX"}
      BY <2>4 DEF Spawn, Arm, Wait, Disarm, JoinSender, Goto
    <3>2. Moved
      BY <2>2, <3>1
    <3> QED  BY <1>4, <2>1, <2>2, <3>2
  <2>5. CASE PacketFromTUN \/ TUNError \/ SendPacket \/ Interrupt \/ Finished
    <3>1. pc' \in {pc, "killed"}
      BY <2>5 DEF PacketFromTUN, TUNError, SendPacket, SenderTo, Interrupt, Finished, vars, mainVars
    <3>2. Moved
      BY <2>2, <3>1 DEF HalfInv
    <3> QED  BY <1>4, <2>1, <2>2, <3>2
  <2>6. CASE UnwindRunning
    <3>1. Moved
      BY <2>2, <2>6, Destruction DEF HalfInv
    <3> QED  BY <1>4, <2>1, <2>2, <3>1
  <2> QED  BY <1>7, <2>3, <2>4, <2>5, <2>6 DEF Plain
<1>8. CASE OpenRX \/ OpenTX
  <2>1. PICK h \in Halves, i \in Idents :
            /\ h = "rx" => pc = "openRX"
            /\ Opened(h, i) /\ pc \in {"openRX", "openTX"}
            /\ pc' \in {"openTX", "rates"} /\ UNCHANGED <<cmd, failed>>
    BY <1>1, <1>8, RXOpened, TXOpened DEF OpenRX, OpenTX, Goto
  <2>2. /\ UNCHANGED <<running, on, rxWorker, txWorker>> /\ Started
        /\ ctx' = [ctx EXCEPT ![h] = i]
    BY <2>1 DEF Opened, Acquired, halfVars, rxVars, txVars
  <2>3. h = "rx" => ctx["rx"] = NoIdent
    BY <2>1 DEF HoldInv
  <2>4. "rx" \in on => Uses("rx", "usrp")'
    <3>1. "rx" \notin running
      BY <2>1 DEF HalfInv
    <3>2. "rx" \in on => Uses("rx", "usrp")
      BY <3>1 DEF HalfInv
    <3>3. "rx" \in on => h = "tx"
      BY <2>3, <3>2 DEF Uses, Halves
    <3>4. h = "tx" => ctx'["rx"] = ctx["rx"]
      BY <1>1, <2>2
    <3> QED  BY <3>2, <3>3, <3>4 DEF Uses
  <2>5. Selected(cmd.txdev)' = Selected(cmd.txdev)
    BY <2>1 DEF Selected
  <2> QED  BY <2>1, <2>2, <2>4, <2>5 DEF HalfInv
<1>9. CASE Configure
  <2>1. Fitted
    BY <1>1, <1>9, RateSetRX, RateSetTX DEF Configure, Goto
  <2>2. UNCHANGED <<ctx, running, on, rxWorker, txWorker>> /\ Started
    BY <2>1 DEF Fitted, halfVars, rxVars, txVars
  <2>3. Moved
    BY <1>9 DEF Configure, Goto, HalfInv
  <2> QED  BY <1>4, <1>9, <2>2, <2>3 DEF Configure
<1>10. CASE StartRX
  <2>1. /\ UNCHANGED <<ctx, contexts, txWorker>> /\ running' = running \cup {"rx"}
        /\ on' = on \cup {"rx"} /\ rxWorker' = "read"
    BY <1>10 DEF StartRX, RFNMStartRX, BladeRFStartRX, USRPStartRX, LaunchRX, contextVars, txVars
  <2>2. pc = "startRX" /\ pc' = "startTX" /\ UNCHANGED <<cmd, failed>>
    BY <1>10 DEF StartRX, Goto
  <2>3. Selected(cmd.txdev)' = Selected(cmd.txdev)
    BY <2>2 DEF Selected
  <2> QED  BY <2>1, <2>2, <2>3 DEF HalfInv
<1>11. CASE StartTX
  <2>1. UNCHANGED <<cmd, failed>> /\ pc \in {"startTX", "startTXWork"}
    BY <1>11 DEF StartTX, Goto
  <2>2. Selected(cmd.txdev)' = Selected(cmd.txdev)
    BY <2>1 DEF Selected
  <2>3. CASE Goto("startTX", "startTXWork") /\ RFNMEnableTX
    <3>1. /\ UNCHANGED <<ctx, contexts, running, rxWorker, txWorker>> /\ on' = on \cup {"tx"}
          /\ ctx["tx"] # NoIdent /\ DriverOf[ctx["tx"]] = "rfnm"
      BY <2>3 DEF RFNMEnableTX, contextVars, rxVars, txVars, Uses
    <3>2. DriverOf[Selected(cmd.txdev)] = "rfnm"
      BY <3>1 DEF HoldInv
    <3>3. Uses("rx", "usrp")' = Uses("rx", "usrp")
      BY <3>1 DEF Uses
    <3> QED  BY <2>1, <2>2, <2>3, <3>1, <3>2, <3>3 DEF HalfInv, Goto
  <2>4. CASE StartedTX /\ pc' = "spawn"
    <3>1. /\ UNCHANGED <<ctx, rxWorker>> /\ running' = running \cup {"tx"}
          /\ txWorker' = "read" /\ on' \in {on, on \cup {"tx"}}
          /\ \A i \in Idents : contexts'[i].txWorkStarted =>
                contexts[i].txWorkStarted \/ DriverOf[i] = "rfnm"
      BY <2>4 DEF StartedTX, rxVars
    <3>2. Uses("rx", "usrp")' = Uses("rx", "usrp")
      BY <3>1 DEF Uses
    <3> QED  BY <2>1, <2>2, <2>4, <3>1, <3>2 DEF HalfInv
  <2> QED  BY <1>1, <1>11, <2>3, <2>4, TXStarted DEF StartTX, Goto
<1>12. CASE Throw
  <2>1. /\ cmd' = cmd /\ failed' = TRUE
        /\ pc' = IF pc \in {"startTX", "startTXWork"} THEN "catchStop" ELSE "unwind"
    BY <1>12 DEF Throw
  <2>2. pc \in {"command", "tun", "openRX", "openTX", "rates", "rateRX", "rateTX", "startRX",
                "startTX", "startTXWork"}
    BY <1>12 DEF Throw, MayThrow
  <2>3. Moved
    BY <2>1, <2>2 DEF HalfInv
  <2>4. CASE Told \/ Fitted \/ (\E i \in Idents : Lost(i))
    <3>1. UNCHANGED <<ctx, running, on, rxWorker, txWorker>> /\ Started
      BY <1>5, <2>4 DEF Fitted, Lost, Acquired, halfVars, rxVars, txVars
    <3> QED  BY <1>4, <2>1, <2>3, <3>1
  <2>5. CASE USRPStartRXThrows /\ pc = "startRX"
    <3>1. /\ UNCHANGED <<ctx, contexts, running, rxWorker, txWorker>> /\ on' = on \cup {"rx"}
          /\ Uses("rx", "usrp")
      BY <2>5 DEF USRPStartRXThrows, contextVars, rxVars, txVars
    <3>2. Uses("rx", "usrp")' /\ Selected(cmd.txdev)' = Selected(cmd.txdev)
      BY <2>1, <3>1 DEF Uses, Selected
    <3> QED  BY <2>1, <2>3, <3>1, <3>2 DEF HalfInv
  <2> QED  BY <1>1, <1>12, <2>4, <2>5, ThrowLeaves
<1>13. CASE UNCHANGED <<cmd, failed>> /\ Told /\ Moved
  BY <1>4, <1>5, <1>13
<1>14. ASSUME UNCHANGED <<cmd, failed>>, EndedRX, pc \in {"catchJoin", "joinRX"},
              pc' \in {"catchClose", "closeRX"}, pc = "joinRX" => pc' = "closeRX",
              pc = "catchJoin" => pc' = "catchClose"
       PROVE  HalfInv'
  <2>1. /\ UNCHANGED <<ctx, contexts, rxWorker, txWorker>> /\ running' = running \ {"rx"}
        /\ on' = on \ {"rx"} /\ rxWorker \in {"none", "ended"}
    BY <1>14 DEF EndedRX, contextVars, txVars
  <2>2. Selected(cmd.txdev)' = Selected(cmd.txdev)
    BY <1>14 DEF Selected
  <2> QED  BY <1>14, <2>1, <2>2 DEF HalfInv
<1>15. ASSUME UNCHANGED <<cmd, failed>>, EndedTX, pc = "joinTX", pc' = "closeTX"
       PROVE  HalfInv'
  <2>1. /\ UNCHANGED <<ctx, rxWorker, txWorker>> /\ running' = running \ {"tx"}
        /\ on' = on \ {"tx"} /\ txWorker \in {"none", "ended"}
        /\ \A i \in Idents : ~contexts'[i].txWorkStarted
    BY <1>15 DEF EndedTX, rxVars
  <2>2. Uses("rx", "usrp")' = Uses("rx", "usrp")
    BY <2>1 DEF Uses
  <2> QED  BY <1>15, <2>1, <2>2 DEF HalfInv
<1>16. ASSUME UNCHANGED <<cmd, failed>>, NEW h \in Halves, Closed(h), h \notin running,
              h = "rx" => pc \in {"catchClose", "closeRX", "unwind"},
              Moved
       PROVE  HalfInv'
  <2>1. /\ UNCHANGED <<running, rxWorker, txWorker>> /\ ctx' = [ctx EXCEPT ![h] = NoIdent]
        /\ on' = IF Uses(h, "usrp") THEN on \ {h} ELSE on
        /\ Started
    BY <1>16 DEF Closed, rxVars, txVars
  <2>2. Selected(cmd.txdev)' = Selected(cmd.txdev) /\ on' \subseteq on
    BY <1>16, <2>1 DEF Selected
  <2>3. "rx" \in on' => "rx" \in running' \/ Uses("rx", "usrp")'
    <3>1. CASE h = "rx"
      <4>1. "rx" \in on => Uses("rx", "usrp")
        BY <1>16, <3>1 DEF HalfInv
      <4> QED  BY <2>1, <3>1, <4>1
    <3>2. CASE h = "tx"
      <4>1. ctx'["rx"] = ctx["rx"]
        BY <1>1, <2>1, <3>2
      <4>2. Uses("rx", "usrp")' = Uses("rx", "usrp")
        BY <4>1 DEF Uses
      <4> QED  BY <2>1, <2>2, <4>2 DEF HalfInv
    <3> QED  BY <3>1, <3>2 DEF Halves
  <2> QED  BY <1>16, <2>1, <2>2, <2>3 DEF HalfInv
<1>17. CASE Catch
  <2>1. UNCHANGED <<cmd, failed>>
    BY <1>17 DEF Catch
  <2>2. CASE Goto("catchStop", "catchJoin") /\ StopRX
    BY <1>1, <1>13, <2>1, <2>2, StopsTell DEF Goto, HalfInv
  <2>3. CASE Goto("catchJoin", "catchClose") /\ FinishRX
    BY <1>1, <1>14, <2>1, <2>3, FinishRXEnds DEF Goto
  <2>4. CASE Goto("catchClose", "unwind") /\ Close("rx")
    <3>1. Closed("rx") /\ "rx" \notin running /\ "tx" \notin running
      BY <1>1, <2>4, CloseCloses DEF Goto, HalfInv
    <3>2. Moved
      BY <2>1, <2>4, <3>1 DEF Goto
    <3> QED  BY <1>1, <1>16, <2>1, <2>4, <3>1, <3>2 DEF Goto
  <2> QED  BY <1>17, <2>2, <2>3, <2>4 DEF Catch
<1>18. CASE StopDevices
  <2>1. UNCHANGED <<cmd, failed>>
    BY <1>18 DEF StopDevices
  <2>2. CASE Goto("stopRX", "joinRX") /\ StopRX
    BY <1>1, <1>13, <2>1, <2>2, StopsTell DEF Goto, HalfInv
  <2>3. CASE Goto("joinRX", "closeRX") /\ FinishRX
    BY <1>1, <1>14, <2>1, <2>3, FinishRXEnds DEF Goto
  <2>4. CASE Goto("closeRX", "stopTX") /\ Close("rx")
    <3>1. Closed("rx") /\ "rx" \notin running
      BY <1>1, <2>4, CloseCloses DEF Goto, HalfInv
    <3>2. Moved
      BY <2>1, <2>4, <3>1 DEF Goto
    <3> QED  BY <1>1, <1>16, <2>1, <2>4, <3>1, <3>2 DEF Goto
  <2>5. CASE Goto("stopTX", "joinTX") /\ StopTX
    BY <1>1, <1>13, <2>1, <2>5, StopsTell DEF Goto, HalfInv
  <2>6. CASE Goto("joinTX", "closeTX") /\ FinishTX
    <3>1. ~failed
      BY <2>6 DEF MainInv, Catching, Unwinding, Goto
    <3>2. EndedTX
      BY <1>1, <2>6, <3>1, FinishTXEnds DEF Goto
    <3> QED  BY <1>15, <2>1, <2>6, <3>2 DEF Goto
  <2>7. CASE Goto("closeTX", "stopDsp") /\ Close("tx")
    <3>1. Closed("tx") /\ "tx" \notin running /\ "rx" \notin running
      BY <1>1, <2>7, CloseCloses DEF Goto, HalfInv
    <3>2. Moved
      BY <2>1, <2>7, <3>1 DEF Goto
    <3> QED  BY <1>1, <1>16, <2>1, <3>1, <3>2
  <2> QED  BY <1>18, <2>2, <2>3, <2>4, <2>5, <2>6, <2>7 DEF StopDevices
<1>19. CASE Unwind
  <2>1. UNCHANGED <<cmd, failed>> /\ pc = "unwind" /\ pc' \in {"unwind", "ended"}
    BY <1>19 DEF Unwind
  <2>2. "rx" \notin running /\ "tx" \notin running
    BY <2>1 DEF HalfInv
  <2>3. Moved
    BY <2>1, <2>2
  <2>4. UNCHANGED deviceVars \/ Close("rx") \/ Close("tx")
    BY <1>19 DEF Unwind
  <2>5. CASE UNCHANGED deviceVars
    BY <1>4, <1>6, <2>1, <2>3, <2>5
  <2>6. CASE Close("rx") \/ Close("tx")
    <3>1. Closed("rx") \/ Closed("tx")
      BY <1>1, <2>6, CloseCloses
    <3> QED  BY <1>1, <1>16, <2>1, <2>2, <2>3, <3>1
  <2> QED  BY <2>4, <2>5, <2>6
<1>20. CASE DeviceRX
  <2>1. /\ UNCHANGED <<ctx, contexts, running, on, txWorker, pc, cmd, failed>>
        /\ rxWorker \in {"read", "swap"}
    BY <1>20, WorkersMove DEF RxMoves, contextVars, halfVars, txVars, mainVars
  <2>2. "rx" \in running
    BY <1>2, <2>1
  <2>3. Uses("rx", "usrp")' = Uses("rx", "usrp") /\ Selected(cmd.txdev)' = Selected(cmd.txdev)
    BY <2>1 DEF Uses, Selected
  <2> QED  BY <2>1, <2>2, <2>3 DEF HalfInv
<1>21. CASE DeviceTX
  <2>1. /\ UNCHANGED <<ctx, contexts, running, on, rxWorker, pc, cmd, failed>>
        /\ txWorker \in {"read", "drain"}
    BY <1>21, WorkersMove DEF TxMoves, contextVars, halfVars, rxVars, mainVars
  <2>2. "tx" \in running
    BY <1>3, <2>1
  <2>3. Uses("rx", "usrp")' = Uses("rx", "usrp") /\ Selected(cmd.txdev)' = Selected(cmd.txdev)
    BY <2>1 DEF Uses, Selected
  <2> QED  BY <2>1, <2>2, <2>3 DEF HalfInv
<1> QED  BY <1>7, <1>8, <1>9, <1>10, <1>11, <1>12, <1>17, <1>18, <1>19, <1>20, <1>21, NextSplit

----------------------------------------------------------------------------
(* The references. *)

\* Every step keeps the references balanced.
LEMMA RefSteps ==
    ASSUME DeviceTypeOK, RefsBalanced, DeviceStep
    PROVE  RefsBalanced'
<1>1. /\ ContextTypes /\ Counted
      /\ ctx \in [Halves -> Idents \cup {NoIdent}] /\ Halves = {"rx", "tx"}
      /\ contexts \in [Idents -> [refCount : Nat, txWorkStarted : BOOLEAN]]
  BY DeviceParts, Balance DEF ContextTypes, Halves
<1>2. \A i \in Idents : /\ contexts[i].refCount \in Nat /\ i # NoIdent
                        /\ Holders(i) \in Nat
  BY <1>1, DeviceAssumption DEF Holders, HoldersOf
<1> SUFFICES Counted'
  BY Balance
<1>3. ASSUME UNCHANGED <<ctx, leaked>>,
             \A i \in Idents :
                /\ contexts'[i].refCount = contexts[i].refCount
                /\ contexts'[i].txWorkStarted =>
                      /\ contexts[i].txWorkStarted \/ ctx["tx"] = i
                      /\ "tx" \in running' \/ (running' = running /\ contexts[i].txWorkStarted)
      PROVE  Counted'
  BY <1>1, <1>3 DEF Counted, Holders, HoldersOf
<1>4. CASE Told \/ Fitted \/ LaunchRX \/ USRPStartRXThrows \/ RFNMEnableTX \/ RxMoves \/ TxMoves
  <2>1. UNCHANGED <<ctx, leaked, contexts>> /\ running' \in {running, running \cup {"rx"}}
    BY <1>4 DEF Told, Fitted, LaunchRX, USRPStartRXThrows, RFNMEnableTX, RxMoves, TxMoves,
                contextVars, halfVars
  <2> QED  BY <1>1, <2>1 DEF Counted, Holders, HoldersOf
<1>5. CASE EndedRX
  <2>1. UNCHANGED <<ctx, leaked, contexts>> /\ running' = running \ {"rx"}
    BY <1>5 DEF EndedRX, contextVars
  <2> QED  BY <1>1, <2>1 DEF Counted, Holders, HoldersOf
<1>6. CASE EndedTX
  BY <1>3, <1>6 DEF EndedTX
<1>7. CASE StartedTX
  BY <1>3, <1>7 DEF StartedTX
<1>8. ASSUME NEW h \in Halves, Closed(h), h \notin running
      PROVE  Counted'
  <2>1. /\ UNCHANGED <<leaked, running>> /\ ctx' = [ctx EXCEPT ![h] = NoIdent]
        /\ \A i \in Idents :
              /\ contexts'[i].refCount = contexts[i].refCount - (IF ctx[h] = i THEN 1 ELSE 0)
              /\ contexts'[i].txWorkStarted => contexts[i].txWorkStarted
    BY <1>8 DEF Closed
  <2>2. ASSUME NEW i \in Idents PROVE Holders(i)' = Holders(i) - (IF ctx[h] = i THEN 1 ELSE 0)
    <3>1. CASE h = "rx"
      <4>1. ctx'["rx"] = NoIdent /\ ctx'["tx"] = ctx["tx"]
        BY <1>1, <2>1, <3>1
      <4> QED  BY <1>2, <3>1, <4>1 DEF Holders, HoldersOf
    <3>2. CASE h = "tx"
      <4>1. ctx'["tx"] = NoIdent /\ ctx'["rx"] = ctx["rx"]
        BY <1>1, <2>1, <3>2
      <4> QED  BY <1>2, <3>2, <4>1 DEF Holders, HoldersOf
    <3> QED  BY <1>1, <3>1, <3>2
  <2>3. ASSUME NEW i \in Idents, contexts'[i].txWorkStarted
        PROVE  "tx" \in running' /\ ctx'["tx"] = i
    <3>1. "tx" \in running /\ ctx["tx"] = i
      BY <1>1, <2>1, <2>3 DEF Counted
    <3>2. h # "tx"
      BY <1>8, <3>1
    <3> QED  BY <1>1, <2>1, <3>1, <3>2
  <2>4. \A i \in Idents : contexts'[i].refCount = Holders(i)' + (IF i \in leaked THEN 1 ELSE 0)
    BY <1>1, <1>2, <2>1, <2>2 DEF Counted
  <2> QED  BY <1>1, <2>1, <2>3, <2>4 DEF Counted
<1>9. ASSUME NEW j \in Idents, NEW h \in Halves, Opened(h, j), ctx[h] = NoIdent
      PROVE  Counted'
  <2>1. /\ UNCHANGED <<leaked, running>> /\ ctx' = [ctx EXCEPT ![h] = j]
        /\ \A i \in Idents :
              /\ contexts'[i].refCount = contexts[i].refCount + (IF i = j THEN 1 ELSE 0)
              /\ contexts'[i].txWorkStarted => contexts[i].txWorkStarted
    BY <1>9 DEF Opened, Acquired, halfVars
  <2>2. ASSUME NEW i \in Idents PROVE Holders(i)' = Holders(i) + (IF i = j THEN 1 ELSE 0)
    <3>1. CASE h = "rx"
      <4>1. ctx'["rx"] = j /\ ctx'["tx"] = ctx["tx"]
        BY <1>1, <2>1, <3>1
      <4> QED  BY <1>2, <1>9, <3>1, <4>1 DEF Holders, HoldersOf
    <3>2. CASE h = "tx"
      <4>1. ctx'["tx"] = j /\ ctx'["rx"] = ctx["rx"]
        BY <1>1, <2>1, <3>2
      <4> QED  BY <1>2, <1>9, <3>2, <4>1 DEF Holders, HoldersOf
    <3> QED  BY <1>1, <3>1, <3>2
  <2>3. ASSUME NEW i \in Idents, contexts'[i].txWorkStarted
        PROVE  "tx" \in running' /\ ctx'["tx"] = i
    <3>1. "tx" \in running /\ ctx["tx"] = i
      BY <1>1, <2>1, <2>3 DEF Counted
    <3>2. h # "tx"
      BY <1>2, <1>9, <3>1
    <3> QED  BY <1>1, <2>1, <3>1, <3>2
  <2>4. \A i \in Idents : contexts'[i].refCount = Holders(i)' + (IF i \in leaked THEN 1 ELSE 0)
    BY <1>1, <1>2, <2>1, <2>2 DEF Counted
  <2> QED  BY <1>1, <2>1, <2>3, <2>4 DEF Counted
<1>10. ASSUME NEW j \in Idents, Lost(j), leaked = {}
       PROVE  Counted'
  <2>1. /\ UNCHANGED <<ctx, running>> /\ leaked' = {j} /\ DriverOf[j] \in {"rfnm", "bladerf"}
        /\ \A i \in Idents :
              /\ contexts'[i].refCount = contexts[i].refCount + (IF i = j THEN 1 ELSE 0)
              /\ contexts'[i].txWorkStarted => contexts[i].txWorkStarted
    BY <1>10 DEF Lost, Acquired, halfVars
  <2>2. \A i \in Idents : Holders(i)' = Holders(i) /\ contexts[i].refCount = Holders(i)
    BY <1>1, <1>2, <1>10, <2>1 DEF Holders, HoldersOf, Counted
  <2> QED  BY <1>1, <1>2, <2>1, <2>2 DEF Counted
<1> QED  BY <1>4, <1>5, <1>6, <1>7, <1>8, <1>9, <1>10 DEF DeviceStep

----------------------------------------------------------------------------
(* The rates. *)

\* Every step keeps the rates.
LEMMA RateSteps ==
    ASSUME DeviceTypeOK, MainInv, HoldInv, HalfInv, RefsBalanced, RateInv, Next, RefsBalanced'
    PROVE  RateInv'
<1> USE DEF Rated, RatedRX, RatedTX, ModemUp, RxUp, TxUp, Serving, Catching
<1>1. /\ ContextTypes /\ HalfTypes /\ Counted /\ Counted'
      /\ ctx \in [Halves -> Idents \cup {NoIdent}] /\ "rx" \in Halves /\ "tx" \in Halves
  BY DeviceParts, Balance DEF ContextTypes, Halves
<1> DEFINE Moved ==
      /\ pc' \in Rated \cup {"crashed"} => pc \in Rated \cup {"crashed"}
      /\ pc' \in RatedRX => pc \in RatedRX
      /\ pc' \in RatedTX => pc \in RatedTX
      /\ pc' = "crashed" => pc = "crashed"
<1>2. ASSUME UNCHANGED <<ctx, rate, samplerate>>, Moved
      PROVE  RateInv'
  <2> HIDE DEF Rated, RatedRX, RatedTX
  <2>1. /\ \A h, d : Uses(h, d)' = Uses(h, d)
        /\ \A h : Clocked(h)' = Clocked(h)
    BY <1>2 DEF Uses, Clocked
  <2>2. \A h : Best(h) => Best(h)'
    BY <1>2, <2>1 DEF Best
  <2> QED  BY <1>2, <2>1, <2>2 DEF RateInv
<1>3. ASSUME pc' \in {"openRX", "openTX", "rates", "tun", "unwind", "hung", "ended", "killed",
                     "aborted"}
      PROVE  RateInv'
  BY <1>3 DEF RateInv
<1>4. Told \/ EndedRX \/ EndedTX => UNCHANGED <<ctx, rate>>
  BY DEF Told, EndedRX, EndedTX, contextVars
<1>5. CASE ChooseRates
  <2>1. pc = "rates" /\ pc' = "rateRX"
    BY <1>5 DEF ChooseRates, Goto
  <2>2. \A h \in Halves : Best(h)'
    BY <1>5, <2>1, RatesChosen
  <2> QED  BY <2>1, <2>2 DEF RateInv
<1>6. CASE MakeModem
  <2>1. UNCHANGED <<ctx, rate, samplerate>> /\ pc = "modem"
    BY <1>6 DEF MakeModem, Goto, deviceVars, contextVars
  <2>2. CASE pc' = "startDsp"
    BY <1>2, <2>1, <2>2
  <2>3. CASE pc' = "crashed"
    <3>1. ~(samplerate["rx"] > 0) /\ ctx["rx"] # NoIdent
      BY <1>6, <2>1, <2>3 DEF MakeModem, Goto, HoldInv, Setup
    <3>2. \A h \in Halves : Best(h)
      BY <2>1 DEF RateInv
    <3>3. \A h : Best(h) => Best(h)'
      BY <2>1 DEF Best, Uses
    <3>4. ctx'["rx"] # NoIdent /\ ~(samplerate'["rx"] > 0)
      BY <2>1, <3>1
    <3> QED  BY <2>3, <3>2, <3>3, <3>4 DEF RateInv
  <2> QED  BY <1>6, <2>2, <2>3 DEF MakeModem, Goto
<1>7. CASE Plain /\ ~ChooseRates /\ ~MakeModem
  <2>1. UNCHANGED <<ctx, rate>>
    BY <1>7, PlainSteps DEF deviceVars, contextVars
  <2>2. UNCHANGED samplerate
    BY <1>7 DEF Plain, Command, MakeTUN, StartBlock, Spawn, Arm, Wait,
                Disarm, JoinSender, StopBlock, UnwindRunning, PacketFromTUN, TUNError, SendPacket, SenderTo,
                Interrupt, Finished, vars, mainVars
  <2>3. CASE Command \/ MakeTUN
    BY <1>3, <2>3 DEF Command, MakeTUN, Goto
  <2>4. CASE Spawn \/ Arm \/ Wait \/ Disarm \/ JoinSender
    <3>1. /\ pc \in {"spawn", "arm", "wait", "disarm", "join"}
          /\ pc' \in {"arm", "wait", "disarm", "join", "stopRX"}
      BY <2>4 DEF Spawn, Arm, Wait, Disarm, JoinSender, Goto
    <3>2. Moved
      BY <3>1
    <3> QED  BY <1>2, <2>1, <2>2, <3>2
  <2>5. CASE StartBlock \/ StopBlock
    <3>1. /\ pc \in {"startDsp", "stopDsp"} /\ pc' \in {"startDsp", "stopDsp", "startRX", "unwind"}
      BY <2>5 DEF StartBlock, StopBlock
    <3>2. Moved
      BY <3>1
    <3> QED  BY <1>2, <2>1, <2>2, <3>2
  <2>6. CASE PacketFromTUN \/ TUNError \/ SendPacket \/ Interrupt \/ Finished
    <3>1. pc' \in {pc, "killed"}
      BY <2>6 DEF PacketFromTUN, TUNError, SendPacket, SenderTo, Interrupt, Finished, vars, mainVars
    <3>2. Moved
      BY <3>1
    <3> QED  BY <1>2, <2>1, <2>2, <3>2
  <2>7. CASE UnwindRunning
    BY <1>3, <2>7, Destruction
  <2> QED  BY <1>7, <2>3, <2>4, <2>5, <2>6, <2>7 DEF Plain
<1>8. CASE OpenRX \/ OpenTX
  BY <1>3, <1>8 DEF OpenRX, OpenTX, Goto
<1>9. CASE Configure
  <2>1. UNCHANGED samplerate
    BY <1>9 DEF Configure
  <2>2. CASE pc = "rateRX"
    <3>1. pc' = "rateTX" /\ SetRateRX
      BY <1>9, <2>2 DEF Configure, Goto
    <3>2. Fitted /\ (Clocked("rx") => rate'[ctx["rx"]]["rx"] = samplerate["rx"])
      BY <1>1, <2>2, <3>1, RateSetRX
    <3>3. ctx' = ctx
      BY <3>2 DEF Fitted
    <3>4. /\ \A h : Clocked(h)' = Clocked(h)
          /\ \A h : Best(h) => Best(h)'
      BY <2>1, <3>3 DEF Best, Uses, Clocked
    <3>5. \A h \in Halves : Best(h)
      BY <2>2 DEF RateInv
    <3> QED  BY <2>1, <3>1, <3>2, <3>3, <3>4, <3>5 DEF RateInv
  <2>3. CASE pc = "rateTX"
    <3>1. pc' = "modem" /\ SetRateTX
      BY <1>9, <2>3 DEF Configure, Goto
    <3>2. /\ Fitted
          /\ Clocked("rx") => rate'[ctx["rx"]]["rx"] = samplerate["rx"]
          /\ Clocked("tx") => rate'[ctx["tx"]]["tx"] = samplerate["tx"]
      BY <1>1, <2>3, <3>1, RateSetTX
    <3>3. ctx' = ctx
      BY <3>2 DEF Fitted
    <3>4. /\ \A h : Clocked(h)' = Clocked(h)
          /\ \A h : Best(h) => Best(h)'
      BY <2>1, <3>3 DEF Best, Uses, Clocked
    <3>5. \A h \in Halves : Best(h)
      BY <2>3 DEF RateInv
    <3> QED  BY <2>1, <3>1, <3>2, <3>3, <3>4, <3>5 DEF RateInv
  <2> QED  BY <1>9, <2>2, <2>3 DEF Configure, Goto
<1>10. CASE StartRX \/ StartTX
  <2>1. UNCHANGED <<ctx, rate>>
    BY <1>1, <1>10, TXStarted DEF StartRX, RFNMStartRX, BladeRFStartRX, USRPStartRX, LaunchRX,
          StartTX, RFNMEnableTX, StartedTX, contextVars
  <2>2. /\ UNCHANGED samplerate /\ pc \in {"startRX", "startTX", "startTXWork"}
        /\ pc' \in {"startTX", "startTXWork", "spawn"}
    BY <1>10 DEF StartRX, StartTX, Goto
  <2>3. Moved
    BY <2>2
  <2> QED  BY <1>2, <2>1, <2>2, <2>3
<1>11. CASE Throw
  <2>1. CASE pc \in {"startTX", "startTXWork"}
    <3>1. pc' = "catchStop" /\ UNCHANGED samplerate
      BY <1>11, <2>1 DEF Throw
    <3>2. UNCHANGED <<ctx, rate>>
      BY <1>1, <1>4, <1>11, <2>1, ThrowLeaves
    <3> QED  BY <1>2, <2>1, <3>1, <3>2
  <2>2. CASE pc \notin {"startTX", "startTXWork"}
    BY <1>3, <1>11, <2>2 DEF Throw
  <2> QED  BY <2>1, <2>2
<1>12. ASSUME NEW h \in Halves, Closed(h), UNCHANGED samplerate, Moved, pc' # "crashed"
       PROVE  RateInv'
  <2> HIDE DEF Rated, RatedRX, RatedTX
  <2>1. /\ ctx' = [ctx EXCEPT ![h] = NoIdent]
        /\ \A i \in Idents : rate'[i] = rate[i] \/ contexts'[i].refCount = 0
    BY <1>12 DEF Closed
  <2>2. \A k \in Halves : ctx'[k] = NoIdent \/ ctx'[k] = ctx[k]
    BY <1>1, <2>1 DEF Halves
  <2>3. ASSUME NEW k \in Halves, ctx'[k] # NoIdent
        PROVE  ctx'[k] = ctx[k] /\ rate'[ctx[k]] = rate[ctx[k]]
    <3>1. ctx'[k] = ctx[k] /\ ctx[k] \in Idents
      BY <1>1, <2>2, <2>3
    <3>2. Holders(ctx[k])' > 0
      <4>1. HoldersOf(ctx', ctx'[k]) > 0
        BY DEF HoldersOf, Halves
      <4> QED  BY <3>1, <4>1 DEF Holders, HoldersOf
    <3>3. contexts'[ctx[k]].refCount # 0
      <4>1. \A j \in Idents : contexts'[j].refCount = HoldersOf(ctx', j) + (IF j \in leaked' THEN 1 ELSE 0)
        BY <1>1 DEF Counted, Holders
      <4>2. HoldersOf(ctx', ctx[k]) > 0 /\ HoldersOf(ctx', ctx[k]) \in Nat
        BY <3>1 DEF HoldersOf, Halves
      <4> QED  BY <3>1, <4>1, <4>2
    <3> QED  BY <2>1, <3>1, <3>3
  <2>4. ASSUME NEW k \in Halves, NEW d, Uses(k, d)'
        PROVE  Uses(k, d) /\ ctx'[k] = ctx[k] /\ rate'[ctx[k]] = rate[ctx[k]]
    <3>1. ctx'[k] # NoIdent /\ DriverOf[ctx'[k]] = d
      BY <2>4 DEF Uses
    <3> QED  BY <2>3, <3>1 DEF Uses
  <2>5. \A k \in Halves : Clocked(k)' =>
            Clocked(k) /\ ctx'[k] = ctx[k] /\ rate'[ctx[k]] = rate[ctx[k]]
    BY <2>4 DEF Clocked
  <2>6. \A k \in Halves : Best(k) => Best(k)'
    BY <1>12, <2>4 DEF Best
  <2> QED  BY <1>1, <1>12, <2>5, <2>6 DEF RateInv
<1>13. CASE Catch
  <2>1. CASE pc' = "unwind"
    BY <1>3, <2>1
  <2>2. CASE pc' # "unwind"
    <3>1. UNCHANGED <<ctx, rate>>
      BY <1>1, <1>4, <1>13, <2>2, StopsTell, FinishRXEnds DEF Catch, Goto
    <3>2. /\ pc \in {"catchStop", "catchJoin"} /\ pc' \in {"catchJoin", "catchClose"}
          /\ UNCHANGED samplerate
      BY <1>13, <2>2 DEF Catch, Goto
    <3>3. Moved
      BY <3>2
    <3> QED  BY <1>2, <3>1, <3>2, <3>3
  <2> QED  BY <2>1, <2>2
<1>14. CASE StopDevices
  <2>1. /\ pc \in {"stopRX", "joinRX", "closeRX", "stopTX", "joinTX", "closeTX"}
        /\ pc' \in {"joinRX", "closeRX", "stopTX", "joinTX", "closeTX", "stopDsp"}
        /\ UNCHANGED samplerate
    BY <1>14 DEF StopDevices, Goto
  <2>2. Moved /\ pc' # "crashed"
    BY <2>1
  <2>3. pc = "joinTX" => ~failed
    BY DEF MainInv, Unwinding
  <2>4. Told \/ EndedRX \/ EndedTX \/ Closed("rx") \/ Closed("tx")
    BY <1>1, <1>14, <2>3, StopsTell, FinishRXEnds, FinishTXEnds, CloseCloses
       DEF StopDevices, Goto
  <2>5. CASE Closed("rx") \/ Closed("tx")
    BY <1>1, <1>12, <2>1, <2>2, <2>5
  <2>6. CASE Told \/ EndedRX \/ EndedTX
    BY <1>2, <1>4, <2>1, <2>2, <2>6
  <2> QED  BY <2>4, <2>5, <2>6
<1>15. CASE Unwind
  BY <1>3, <1>15 DEF Unwind
<1>16. CASE DeviceRX \/ DeviceTX
  <2>1. UNCHANGED <<contextVars, mainVars>>
    BY <1>16, WorkersMove DEF RxMoves, TxMoves
  <2>2. UNCHANGED <<ctx, rate, samplerate, pc>>
    BY <2>1 DEF contextVars, mainVars
  <2> QED  BY <1>2, <2>2
<1> QED  BY <1>5, <1>6, <1>7, <1>8, <1>9, <1>10, <1>11, <1>13, <1>14, <1>15, <1>16, NextSplit DEF Plain

----------------------------------------------------------------------------
(* The samples. *)

\* Every step keeps the account of the samples.
LEMMA SampleSteps ==
    ASSUME DeviceTypeOK, HalfInv, SampleInv, DeviceStep
    PROVE  SampleInv'
<1>1. /\ ctx \in [Halves -> Idents \cup {NoIdent}] /\ Halves = {"rx", "tx"}
  BY DEF DeviceTypeOK, Halves
<1>2. ASSUME UNCHANGED sampleVars,
             txWorker' = txWorker \/ (txWorker = "none" /\ txWorker' = "read"),
             txWorker = "drain" /\ Uses("tx", "rfnm") => Uses("tx", "rfnm")'
      PROVE  SampleInv'
  <2>1. Samples'
    BY <1>2 DEF SampleInv, Samples, Done, sampleVars
  <2>2. off' = off
    BY <1>2 DEF sampleVars
  <2> QED  BY <1>2, <2>1, <2>2 DEF SampleInv
<1>3. ctx' = ctx => Uses("tx", "rfnm")' = Uses("tx", "rfnm")
  BY DEF Uses
<1>4. CASE \/ Told \/ EndedRX \/ EndedTX \/ Fitted \/ LaunchRX \/ USRPStartRXThrows
           \/ RFNMEnableTX \/ RxMoves
  <2>1. UNCHANGED <<ctx, sampleVars, txWorker>>
    BY <1>4 DEF Told, EndedRX, EndedTX, Fitted, LaunchRX, USRPStartRXThrows, RFNMEnableTX,
                RxMoves, contextVars, txVars
  <2> QED  BY <1>2, <1>3, <2>1
<1>5. CASE StartedTX /\ txWorker = "none"
  BY <1>2, <1>3, <1>5 DEF StartedTX
<1>6. ASSUME NEW i \in Idents, Lost(i)
      PROVE  SampleInv'
  BY <1>2, <1>3, <1>6 DEF Lost, txVars
<1>7. ASSUME NEW i \in Idents, NEW h \in Halves, Opened(h, i), ctx[h] = NoIdent
      PROVE  SampleInv'
  <2>1. UNCHANGED <<sampleVars, txWorker>> /\ ctx' = [ctx EXCEPT ![h] = i]
    BY <1>7 DEF Opened, txVars
  <2>2. Uses("tx", "rfnm") => ctx'["tx"] = ctx["tx"]
    BY <1>1, <1>7, <2>1 DEF Uses
  <2>3. Uses("tx", "rfnm") => Uses("tx", "rfnm")'
    BY <2>2 DEF Uses
  <2> QED  BY <1>2, <2>1, <2>3
<1>8. ASSUME NEW h \in Halves, Closed(h), h \notin running
      PROVE  SampleInv'
  <2>1. UNCHANGED <<sampleVars, txWorker>> /\ ctx' = [ctx EXCEPT ![h] = NoIdent]
    BY <1>8 DEF Closed, txVars
  <2>2. txWorker = "drain" => ctx'["tx"] = ctx["tx"]
    BY <1>1, <1>8, <2>1 DEF HalfInv
  <2>3. txWorker = "drain" /\ Uses("tx", "rfnm") => Uses("tx", "rfnm")'
    BY <2>2 DEF Uses
  <2> QED  BY <1>2, <2>1, <2>3
<1> QED  BY <1>4, <1>5, <1>6, <1>7, <1>8 DEF DeviceStep

----------------------------------------------------------------------------
(* What follows from where everything is. *)

\* UsersProvided follows from where main is, until the process is killed.
LEMMA Providing ==
    ASSUME MainTypes, MainInv, HalfInv, pc # "killed"
    PROVE  UsersProvided
<1> USE DEF Begin, Setup, Catching, Serving, RxUp, TxUp, ModemUp, Inside, Ending, Unwinding
<1>1. /\ ToSet(Objects) = {"rxd", "agc", "txd", "lp", "rx", "ns", "tx"}
      /\ ToSet(BlockOrder) = {"tx", "agc", "lp", "rx", "ns"}
  BY Things
<1>2. \A n \in 0 .. 7 : /\ "lp" \in FirstObjects(n) => "rxd" \in FirstObjects(n)
                        /\ "rx" \in FirstObjects(n) => "lp" \in FirstObjects(n)
                        /\ "ns" \in FirstObjects(n) => "rx" \in FirstObjects(n)
  <2>1. 0 .. 7 = {0, 1, 2, 3, 4, 5, 6, 7}
    OBVIOUS
  <2> QED  BY <2>1, Things
<1>3. CASE dsp = {}
  <2>1. pc \notin ModemUp
    BY <1>1, <1>3 DEF MainInv
  <2>2. /\ rxWorker \notin {"read", "swap"} /\ txWorker \notin {"read", "drain"}
    BY <2>1 DEF HalfInv
  <2>3. sendWorker \notin {"recv", "send"}
    BY <2>1 DEF MainInv
  <2> QED  BY <1>3, <2>2, <2>3 DEF UsersProvided
<1>4. CASE dsp # {} /\ pc \in Unwinding
  <2>1. /\ failed /\ dsp = alive \cap ToSet(BlockOrder) /\ tun
        /\ \E n \in 0 .. 7 : alive = FirstObjects(n)
        /\ sendWorker \notin {"recv", "send"}
    BY <1>4 DEF MainInv
  <2>2. rxWorker \notin {"read", "swap"} /\ txWorker \notin {"read", "drain"}
    BY <1>4 DEF HalfInv
  <2>3. /\ "lp" \in alive => "rxd" \in alive
        /\ "rx" \in alive => "lp" \in alive
        /\ "ns" \in alive => "rx" \in alive
    BY <1>2, <2>1
  <2> QED  BY <2>1, <2>2, <2>3 DEF UsersProvided
<1>5. CASE pc \in {"startDsp", "stopDsp"} \cup ModemUp
  <2>1. alive = ToSet(Objects) /\ tun
    BY <1>5, Things DEF MainInv
  <2>2. pc \in ModemUp => dsp = ToSet(BlockOrder)
    BY DEF MainInv
  <2>3. /\ rxWorker \in {"read", "swap"} => pc \in ModemUp
        /\ txWorker \in {"read", "drain"} => pc \in ModemUp
        /\ sendWorker \in {"recv", "send"} => pc \in ModemUp
    BY <1>5 DEF HalfInv, MainInv
  <2>4. /\ "lp" \in ToSet(BlockOrder) /\ "agc" \in ToSet(BlockOrder) /\ "tx" \in ToSet(BlockOrder)
        /\ {"rxd", "lp", "rx", "tx"} \subseteq ToSet(Objects)
    BY <1>1
  <2> QED  BY <2>1, <2>2, <2>3, <2>4 DEF UsersProvided
<1>6. dsp # {} => pc \in {"startDsp", "stopDsp"} \cup Unwinding \cup ModemUp
  BY DEF MainTypes, MainInv
<1> QED  BY <1>3, <1>4, <1>5, <1>6

\* RateKept follows from the rates that were set, until the process is killed.
LEMMA KeptRates ==
    ASSUME Rateable, DeviceTypeOK, HoldInv, HalfInv, RateInv, pc # "killed"
    PROVE  RateKept
<1>1. /\ running \subseteq Halves /\ Halves = {"rx", "tx"}
  BY DEF DeviceTypeOK, Halves
<1>2. ASSUME NEW h \in running, Clocked(h)
      PROVE  rate[ctx[h]][h] = samplerate[h] /\ samplerate[h] >= MinRate
  <2>1. h \in Halves /\ (h = "rx" => pc \in RxUp) /\ (h = "tx" => pc \in TxUp)
    BY <1>1 DEF HalfInv
  <2>2. RxUp \subseteq RatedRX /\ TxUp \subseteq RatedTX /\ RatedRX \subseteq Rated
        /\ RatedTX \subseteq Rated
    BY DEF RxUp, TxUp, Rated, RatedRX, RatedTX, ModemUp, Serving, Catching
  <2>3. Best(h) /\ rate[ctx[h]][h] = samplerate[h]
    BY <1>1, <1>2, <2>1, <2>2 DEF RateInv
  <2> QED  BY <1>2, <2>1, <2>3, BestRates
<1>3. ASSUME pc = "crashed"
      PROVE  DriverOf[Selected(cmd.rxdev)] = "limesdr"
  <2>1. /\ ctx["rx"] = Selected(cmd.rxdev) /\ DriverOf[ctx["rx"]] \in Drivers
        /\ ctx["rx"] # NoIdent /\ Best("rx") /\ ~(samplerate["rx"] > 0)
    BY <1>1, <1>3 DEF RateInv, HoldInv
  <2>2. ~(Clocked("rx") \/ Uses("rx", "usrp"))
    BY <1>1, <2>1, BestRates
  <2> QED  BY <2>1, <2>2 DEF Clocked, Uses, Drivers
<1> QED  BY <1>2, <1>3 DEF RateKept, Clocked

\* At the end of main nothing runs.
LEMMA Quiet ==
    ASSUME DeviceTypeOK, MainTypes, MainInv, HoldInv, HalfInv
    PROVE  QuietExit
<1> SUFFICES ASSUME pc = "ended"
             PROVE  /\ running = {} /\ dsp = {}
                    /\ rxWorker \in {"none", "ended"} /\ txWorker \in {"none", "ended"}
                    /\ sendWorker \in {"none", "ended"}
                    /\ ctx = [h \in Halves |-> NoIdent]
                    /\ \/ on = {}
                       \/ failed /\ on = {"tx"} /\ DriverOf[Selected(cmd.txdev)] = "rfnm"
  BY DEF QuietExit
<1>1. /\ ctx \in [Halves -> Idents \cup {NoIdent}] /\ Halves = {"rx", "tx"}
      /\ running \subseteq Halves /\ on \subseteq Halves
      /\ rxWorker \in {"none", "read", "swap", "ended"}
      /\ txWorker \in {"none", "read", "drain", "ended"}
  BY DEF DeviceTypeOK, Halves
<1>2. running = {}
  BY <1>1 DEF HalfInv, RxUp, TxUp, Serving
<1>3. rxWorker \in {"none", "ended"} /\ txWorker \in {"none", "ended"}
  BY <1>1, <1>2 DEF HalfInv
<1>4. alive = {} /\ dsp = {} /\ sendWorker \in {"none", "ended"}
  BY DEF MainInv, Begin, Serving
<1>5. ctx["rx"] = NoIdent /\ ctx["tx"] = NoIdent
  BY <1>4 DEF HoldInv
<1>6. ctx = [h \in Halves |-> NoIdent]
  BY <1>1, <1>5
<1>7. "rx" \notin on
  BY <1>2, <1>5 DEF HalfInv, Uses
<1>8. "tx" \in on => failed /\ DriverOf[Selected(cmd.txdev)] = "rfnm"
  BY <1>2 DEF HalfInv
<1>9. on = {} \/ on = {"tx"}
  BY <1>1, <1>7
<1> QED  BY <1>2, <1>3, <1>4, <1>6, <1>8, <1>9

\* An interrupt that no handler takes ends everything at once.
LEMMA Killed ==
    ASSUME Next, pc' = "killed"
    PROVE  UNCHANGED <<deviceVars, cmd, alive, dsp, samplerate, tun, sendWorker, failed>>
<1>1. Interrupt \/ Finished \/ (pc' = pc /\ pc \in {"killed"})
  <2>1. CASE DeviceRX \/ DeviceTX \/ PacketFromTUN \/ TUNError \/ SendPacket
    BY <2>1 DEF DeviceRX, DeviceTX, PacketFromTUN, TUNError, SendPacket, SenderTo, mainVars
  <2>2. CASE Main
    BY <2>2 DEF Main, Command, MakeTUN, OpenRX, OpenTX, ChooseRates, Configure, MakeModem,
                StartBlock, StartRX, StartTX, Throw, Catch, Spawn, Arm, Wait, Disarm, JoinSender,
                StopDevices, StopBlock, Unwind, UnwindRunning, Goto
  <2> QED  BY <2>1, <2>2 DEF Next
<1>2. CASE Interrupt
  BY <1>2 DEF Interrupt
<1>3. CASE Finished
  BY <1>3 DEF Finished, vars, mainVars
<1>4. pc # "killed" \/ Finished
  BY DEF Next, Main, Over, DeviceRX, DeviceTX, PacketFromTUN, TUNError, SendPacket, SenderTo,
         Interrupt, Command, MakeTUN, OpenRX, OpenTX, ChooseRates, Configure, MakeModem,
         StartBlock, StartRX, StartTX, Throw, MayThrow, Catch, Spawn, Arm, Wait, Disarm,
         JoinSender, StopDevices, StopBlock, Unwind, UnwindRunning, Goto
<1> QED  BY <1>1, <1>2, <1>3, <1>4

----------------------------------------------------------------------------
(* The invariant. *)

\* The first state has the invariant, and the rates.
LEMMA AppStart ==
    ASSUME Init
    PROVE  AppInv /\ RateKept
<1>1. /\ DeviceInit /\ pc = "command" /\ cmd \in Commands /\ alive = {} /\ dsp = {}
      /\ samplerate = [h \in Halves |-> 0]
      /\ run = TRUE /\ handler = FALSE /\ tun = FALSE /\ sendWorker = "none" /\ failed = FALSE
  BY DEF Init
<1>2. /\ ctx["rx"] = NoIdent /\ ctx["tx"] = NoIdent /\ leaked = {} /\ running = {} /\ on = {}
      /\ rxWorker = "none" /\ txWorker = "none"
      /\ \A i \in Idents : contexts[i].refCount = 0 /\ ~contexts[i].txWorkStarted
  BY <1>1 DEF DeviceInit, Halves
<1>3. ContextTypes
  BY <1>1 DEF DeviceInit, ContextTypes
<1>4. HalfTypes
  BY <1>1 DEF DeviceInit, HalfTypes
<1>5. /\ taken = 0 /\ txStage = <<>> /\ off = 0 /\ queued = <<>> /\ dropped = {}
      /\ Len(txStage) = 0 /\ Len(queued) = 0 /\ MaxSamples \in Nat
  BY <1>1, DeviceAssumption DEF DeviceInit
<1>6. SampleTypes
  BY <1>5 DEF SampleTypes
<1>7. DeviceTypeOK
  BY <1>3, <1>4, <1>6, DeviceParts
<1>8. MainTypes
  <2>1. samplerate \in [Halves -> Int]
    <3>1. 0 \in Int
      OBVIOUS
    <3> QED  BY <1>1, <3>1
  <2>2. run \in BOOLEAN /\ handler \in BOOLEAN /\ tun \in BOOLEAN /\ failed \in BOOLEAN
    BY <1>1
  <2>3. alive \subseteq ToSet(Objects) /\ dsp \subseteq ToSet(BlockOrder)
    BY <1>1
  <2> QED  BY <1>1, <2>1, <2>2, <2>3 DEF MainTypes
<1>9. MainInv
  BY <1>1 DEF MainInv, Begin, Setup, Catching, Serving, RxUp, TxUp, ModemUp, Inside, Ending, Unwinding
<1>10. HoldInv
  BY <1>1, <1>2 DEF HoldInv, Begin, Setup
<1>11. HalfInv
  BY <1>1, <1>2 DEF HalfInv
<1>12. RefsBalanced
  <2>1. \A i \in Idents : i # NoIdent
    BY DeviceAssumption
  <2>2. Counted
    BY <1>2, <2>1 DEF Counted, Holders, HoldersOf
  <2> QED  BY <2>2, Balance
<1>13. RateInv
  BY <1>1 DEF RateInv, Rated, RatedRX, RatedTX, ModemUp, RxUp, TxUp, Serving, Catching
<1>14. SampleInv
  <2>1. ToSet(queued) = {}
    BY <1>5 DEF ToSet
  <2>2. Done = 0
    <3>1. 0 - (0 - 0) = 0
      OBVIOUS
    <3> QED  BY <1>5, <3>1 DEF Done
  <2>3. Samples
    BY <1>5, <2>1, <2>2 DEF Samples
  <2> QED  BY <1>2, <1>5, <2>3 DEF SampleInv
<1>15. UsersProvided
  BY <1>1, <1>8, <1>9, <1>11, Providing
<1>16. RateKept
  BY <1>1, <1>2 DEF RateKept
<1> QED  BY <1>7, <1>8, <1>9, <1>10, <1>11, <1>12, <1>13, <1>14, <1>15, <1>16, TypesParts
         DEF AppInv

\* Every step keeps the invariant.
LEMMA AppStep ==
    ASSUME AppInv, Next
    PROVE  AppInv'
<1>1. /\ DeviceTypeOK /\ MainTypes /\ MainInv /\ HoldInv /\ HalfInv /\ RefsBalanced
      /\ RateInv /\ SampleInv /\ UsersProvided
  BY TypesParts DEF AppInv
<1>2. DeviceStep
  BY <1>1, DeviceSteps
<1>3. DeviceTypeOK'
  BY <1>1, <1>2, StepTypes
<1>4. MainTypes' /\ MainInv'
  BY <1>1, MainSteps
<1>5. HoldInv' /\ HalfInv'
  BY <1>1, HoldSteps, HalfSteps
<1>6. RefsBalanced' /\ SampleInv'
  BY <1>1, <1>2, RefSteps, SampleSteps
<1>7. RateInv'
  BY <1>1, <1>6, RateSteps
<1>8. UsersProvided'
  <2>1. CASE pc' = "killed"
    BY <1>1, <2>1, Killed DEF UsersProvided, Over, deviceVars, rxVars, txVars
  <2>2. CASE pc' # "killed"
    <3>1. (MainTypes /\ MainInv /\ HalfInv /\ pc # "killed" => UsersProvided)'
      BY Providing, PTL
    <3> QED  BY <1>4, <1>5, <2>2, <3>1
  <2> QED  BY <2>1, <2>2
<1>9. TypeOK'
  BY <1>3, <1>4 DEF TypeOK, MainTypes
<1> QED  BY <1>4, <1>5, <1>6, <1>7, <1>8, <1>9 DEF AppInv

\* So does a step that changes nothing.
LEMMA AppStutters ==
    ASSUME AppInv, UNCHANGED vars
    PROVE  AppInv'
<1> USE DEF vars, deviceVars, contextVars, halfVars, rxVars, txVars, sampleVars, mainVars
<1>1. /\ DeviceTypeOK /\ MainTypes /\ MainInv /\ HoldInv /\ HalfInv /\ RefsBalanced
      /\ RateInv /\ SampleInv /\ UsersProvided
  BY TypesParts DEF AppInv
<1>2. DeviceTypeOK'
  BY <1>1 DEF DeviceTypeOK
<1>3. MainTypes' /\ MainInv'
  BY <1>1 DEF MainTypes, MainInv
<1>4. \A h, d : Uses(h, d)' = Uses(h, d)
  BY DEF Uses
<1>5. HoldInv' /\ HalfInv'
  BY <1>1, <1>4 DEF HoldInv, HalfInv, Selected
<1>6. RefsBalanced'
  BY <1>1 DEF RefsBalanced
<1>7. RateInv'
  BY <1>1, <1>4 DEF RateInv, Best, Clocked
<1>8. SampleInv'
  BY <1>1, <1>4 DEF SampleInv, Samples, Done
<1>9. UsersProvided'
  BY <1>1 DEF UsersProvided, Over
<1>10. TypeOK'
  BY <1>2, <1>3 DEF TypeOK, MainTypes
<1> QED  BY <1>3, <1>5, <1>6, <1>7, <1>8, <1>9, <1>10 DEF AppInv

(***************************************************************************)
(* At each statement of main, from its first to the last destructor, and   *)
(* wherever an exception or an interrupt takes it: which objects, threads, *)
(* contexts, rates and samples there are (main.cpp:188-295).               *)
(***************************************************************************)
THEOREM AppInvariance == Spec => []AppInv
<1>1. Init => AppInv
  BY AppStart
<1>2. AppInv /\ [Next]_vars => AppInv'
  BY AppStep, AppStutters
<1> QED  BY <1>1, <1>2, PTL DEF Spec

(***************************************************************************)
(* The variables of the application and of its devices keep their types,   *)
(* for any devices, drivers, command lines and rates (main.cpp:188-295).   *)
(***************************************************************************)
THEOREM AppTypes == Spec => []TypeOK
<1>1. AppInv => TypeOK
  BY DEF AppInv
<1> QED  BY <1>1, AppInvariance, PTL

(***************************************************************************)
(* acquireContext and releaseContext: a context is counted once for each   *)
(* half that holds it, whatever fails (rfnm.cpp:181, bladerf.cpp:138-140). *)
(***************************************************************************)
THEOREM AppReferences == Spec => []RefsBalanced
<1>1. AppInv => RefsBalanced
  BY DEF AppInv
<1> QED  BY <1>1, AppInvariance, PTL

(***************************************************************************)
(* When main returns nothing runs any more (main.cpp:268-293).             *)
(***************************************************************************)
THEOREM AppQuiet == Spec => []QuietExit
<1>1. AppInv => QuietExit
  BY TypesParts, Quiet DEF AppInv
<1> QED  BY <1>1, AppInvariance, PTL

(***************************************************************************)
(* Who runs finds the thread at the other end of its stream running, the   *)
(* owner of the stream alive and the TUN interface open.                   *)
(***************************************************************************)
THEOREM AppProvided == Spec => []UsersProvided
<1>1. AppInv => UsersProvided
  BY DEF AppInv
<1> QED  BY <1>1, AppInvariance, PTL

(***************************************************************************)
(* The TX workers send each sample once and in order, or drop it, or still *)
(* hold it, whatever the sizes of buffers, granules and packets.           *)
(***************************************************************************)
THEOREM AppSamples == Spec => []TxAccounted
<1>1. AppInv => TxAccounted
  BY TypesParts, SamplesAccounted DEF AppInv
<1> QED  BY <1>1, AppInvariance, PTL

(***************************************************************************)
(* A half that runs samples at the rate that main chose, when some BladeRF *)
(* rate is as high as what main asks for: that driver takes its highest    *)
(* rate for any above it.                                                  *)
(***************************************************************************)
THEOREM AppRates == Rateable /\ Spec => []RateKept
<1> SUFFICES ASSUME Rateable PROVE Spec => []RateKept
  OBVIOUS
<1>1. Init => RateKept
  BY AppStart
<1>2. AppInv' /\ RateKept /\ [Next]_vars => RateKept'
  <2> SUFFICES ASSUME AppInv', RateKept, [Next]_vars PROVE RateKept'
    OBVIOUS
  <2>1. CASE UNCHANGED vars
    BY <2>1 DEF vars, deviceVars, contextVars, halfVars, mainVars, RateKept, Uses, Selected
  <2>2. CASE Next /\ pc' = "killed"
    BY <2>2, Killed DEF deviceVars, contextVars, halfVars, RateKept, Uses, Selected
  <2>3. CASE pc' # "killed"
    <3>1. (DeviceTypeOK /\ HoldInv /\ HalfInv /\ RateInv /\ pc # "killed" => RateKept)'
      BY KeptRates, PTL
    <3>2. DeviceTypeOK' /\ HoldInv' /\ HalfInv' /\ RateInv'
      BY DEF AppInv, TypeOK
    <3> QED  BY <2>3, <3>1, <3>2
  <2> QED  BY <2>1, <2>2, <2>3
<1> QED  BY <1>1, <1>2, AppInvariance, PTL DEF Spec
=============================================================================
