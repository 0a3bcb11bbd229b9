--------------------------------- MODULE App ---------------------------------
(***************************************************************************)
(* main(): start-up with its failures, the sender thread, the interrupt    *)
(* and the shutdown, on devices of any driver, the two halves on one       *)
(* device, on two, or on devices of two drivers.  What the modem's blocks  *)
(* do between start and stop is module Pipeline.                           *)
(***************************************************************************)
EXTENDS RFNM, BladeRF, LimeSDR, USRP

CONSTANTS
    Commands,           \* command lines: list option, RX and TX device
    FirstDevice,        \* per driver: what list() finds first, or NoIdent
    MinRate             \* twice the baud rate

ASSUME AppAssumption ==
    /\ FirstDevice \in [{"rfnm", "bladerf", "limesdr", "usrp"} -> Idents \cup {NoIdent}]
    /\ \A c \in Commands : /\ c.list \in BOOLEAN
                           /\ {c.rxdev, c.txdev} \subseteq Idents \cup DOMAIN FirstDevice
    /\ MinRate \in Nat

VARIABLES
    pc, cmd,            \* the main thread, its command line
    alive, dsp,         \* the objects of main that exist; the blocks that run
    run, handler,       \* the run flag; is the handler of SIGINT installed
    samplerate,         \* per half: the rate that main chose
    tun,                \* is the TUN interface there
    sendWorker,         \* the thread that reads the TUN interface
    failed              \* history: an exception

mainVars == <<pc, cmd, alive, dsp, samplerate, run, handler, tun, sendWorker, failed>>
vars == <<deviceVars, mainVars>>

\* The objects of main in the order they are made; the blocks in the order they
\* are started and stopped.
Objects == <<"rxd", "agc", "txd", "lp", "rx", "ns", "tx">>
BlockOrder == <<"tx", "agc", "lp", "rx", "ns">>
Over == pc \in {"ended", "killed", "crashed", "aborted"}

TypeOK ==
    /\ DeviceTypeOK
    /\ pc \in {"command", "tun", "openRX", "openTX", "rates", "rateRX", "rateTX", "modem",
               "startDsp", "startRX", "startTX", "startTXWork", "catchStop", "catchJoin", "catchClose", "spawn",
               "arm", "wait", "disarm", "join", "stopRX", "joinRX", "closeRX", "stopTX",
               "joinTX", "closeTX", "stopDsp", "unwind", "hung", "ended", "killed", "crashed",
               "aborted"}
    /\ cmd \in Commands
    /\ alive \subseteq ToSet(Objects) /\ dsp \subseteq ToSet(BlockOrder)
    /\ samplerate \in [Halves -> Int]
    /\ run \in BOOLEAN /\ handler \in BOOLEAN /\ tun \in BOOLEAN
    /\ sendWorker \in {"none", "recv", "send", "ended"}
    /\ failed \in BOOLEAN

Init ==
    /\ DeviceInit
    /\ pc = "command"
    /\ cmd \in Commands
    /\ alive = {} /\ dsp = {} /\ samplerate = [h \in Halves |-> 0]
    /\ run = TRUE /\ handler = FALSE /\ tun = FALSE /\ sendWorker = "none"
    /\ failed = FALSE

----------------------------------------------------------------------------
(* Start-up. *)

Goto(from, to) == pc = from /\ pc' = to

\* --list shows the devices.
Command ==
    /\ Goto("command", IF cmd.list THEN "ended" ELSE "tun")
    /\ UNCHANGED <<deviceVars, cmd, alive, dsp, samplerate, run, handler, tun, sendWorker, failed>>

MakeTUN ==
    /\ Goto("tun", "openRX")
    /\ tun' = TRUE
    /\ UNCHANGED <<deviceVars, cmd, alive, dsp, samplerate, run, handler, sendWorker, failed>>

\* selectDevice: without an identifier the driver is asked for its devices.
Selected(dev) == IF dev \in Idents THEN dev ELSE FirstDevice[dev]

OpenRX ==
    /\ Goto("openRX", "openTX")
    /\ \E i \in Idents \cap {Selected(cmd.rxdev)} :
        RFNMOpenRX(i) \/ BladeRFOpenRX(i) \/ LimeSDROpenRX(i) \/ USRPOpenRX(i)
    /\ alive' = {"rxd", "agc"}
    /\ UNCHANGED <<cmd, dsp, samplerate, run, handler, tun, sendWorker, failed>>

OpenTX ==
    /\ Goto("openTX", "rates")
    /\ \E i \in Idents \cap {Selected(cmd.txdev)} :
        RFNMOpenTX(i) \/ BladeRFOpenTX(i) \/ USRPOpenTX(i)
    /\ alive' = alive \cup {"txd"}
    /\ UNCHANGED <<cmd, dsp, samplerate, run, handler, tun, sendWorker, failed>>

BestRX == CASE Uses("rx", "rfnm") -> RFNMBestRX(MinRate)
            [] Uses("rx", "bladerf") -> BladeRFBest(MinRate)
            [] Uses("rx", "limesdr") -> LimeSDRBest
            [] Uses("rx", "usrp") -> USRPBest(MinRate)
BestTX == CASE Uses("tx", "rfnm") -> RFNMBestTX(MinRate)
            [] Uses("tx", "bladerf") -> BladeRFBest(MinRate)
            [] Uses("tx", "usrp") -> USRPBest(MinRate)

ChooseRates ==
    /\ Goto("rates", "rateRX")
    /\ samplerate' = [rx |-> BestRX, tx |-> BestTX]
    /\ UNCHANGED <<deviceVars, cmd, alive, dsp, run, handler, tun, sendWorker, failed>>

SetRateRX == LET r == samplerate["rx"]
             IN  RFNMSetRate("rx", r) \/ BladeRFSetRate("rx", r) \/ LimeSDRSetRate \/ USRPSetRate("rx", r)
SetRateTX == LET r == samplerate["tx"]
             IN  RFNMSetRate("tx", r) \/ BladeRFSetRate("tx", r) \/ USRPSetRate("tx", r)

Configure ==
    /\ \/ Goto("rateRX", "rateTX") /\ SetRateRX
       \/ Goto("rateTX", "modem") /\ SetRateTX
    /\ UNCHANGED <<cmd, alive, dsp, samplerate, run, handler, tun, sendWorker, failed>>

(***************************************************************************)
(* The modem's objects are made, the low-pass filter first.  For a rate    *)
(* below 0 it has no taps, and FIR::init clears a buffer of -1 samples,    *)
(* the whole address space.                                                *)
(***************************************************************************)
MakeModem ==
    /\ IF samplerate["rx"] > 0
       THEN Goto("modem", "startDsp") /\ alive' = ToSet(Objects)
       ELSE Goto("modem", "crashed") /\ UNCHANGED alive
    /\ UNCHANGED <<deviceVars, cmd, dsp, samplerate, run, handler, tun, sendWorker, failed>>

\* The first one of the blocks in S.
FirstBlock(S) ==
    BlockOrder[CHOOSE i \in DOMAIN BlockOrder : /\ BlockOrder[i] \in S
                                               /\ \A j \in 1 .. i - 1 : BlockOrder[j] \notin S]

StartBlock ==
    /\ pc = "startDsp"
    /\ dsp' = dsp \cup {FirstBlock(ToSet(BlockOrder) \ dsp)}
    /\ pc' = IF dsp' = ToSet(BlockOrder) THEN "startRX" ELSE pc
    /\ UNCHANGED <<deviceVars, cmd, alive, samplerate, run, handler, tun, sendWorker, failed>>

StartRX ==
    /\ Goto("startRX", "startTX")
    /\ RFNMStartRX \/ BladeRFStartRX \/ USRPStartRX
    /\ UNCHANGED <<cmd, alive, dsp, samplerate, run, handler, tun, sendWorker, failed>>

StartTX ==
    /\ \/ Goto("startTX", "startTXWork") /\ RFNMEnableTX
       \/ Goto("startTXWork", "spawn") /\ RFNMStartTX
       \/ Goto("startTX", "spawn") /\ (BladeRFStartTX \/ USRPStartTX)
    /\ UNCHANGED <<cmd, alive, dsp, samplerate, run, handler, tun, sendWorker, failed>>

(***************************************************************************)
(* Steps of the start-up that may fail: no device named, no TUN interface, *)
(* no device, one that does not transmit, does not answer or refuses a     *)
(* setting.  What had been done before the exception stays.                *)
(***************************************************************************)
MayThrow ==
    \/ pc = "command" /\ ~cmd.list
    \/ pc \in {"tun", "openRX", "openTX", "rateTX", "startTXWork"}
    \/ pc = "rates" /\ \E h \in Halves : Uses(h, "bladerf") \/ Uses(h, "usrp")
    \/ pc = "rateRX" /\ ~Uses("rx", "limesdr")
    \/ pc = "startRX" /\ ~Uses("rx", "bladerf")
    \/ pc = "startTX" /\ ~Uses("tx", "bladerf")

LeftBehind ==
    \/ UNCHANGED deviceVars
    \/ pc = "openRX" /\ \E i \in Idents \cap {Selected(cmd.rxdev)} : BladeRFOpenRXThrows(i)
    \/ pc = "openTX" /\ \E i \in Idents \cap {Selected(cmd.txdev)} :
                            RFNMOpenTXThrows(i) \/ BladeRFOpenTXThrows(i)
    \/ pc = "rateRX" /\ SetRateRX
    \/ pc = "rateTX" /\ SetRateTX
    \/ pc = "startRX" /\ USRPStartRXThrows

\* main catches what the TX device's start throws, to stop the RX device.
Throw ==
    /\ MayThrow /\ LeftBehind
    /\ failed' = TRUE
    /\ pc' = IF pc \in {"startTX", "startTXWork"} THEN "catchStop" ELSE "unwind"
    /\ UNCHANGED <<cmd, alive, dsp, samplerate, run, handler, tun, sendWorker>>

StopRX == RFNMStopRX \/ BladeRFStopRX \/ USRPStopRX
FinishRX == RFNMJoinRX \/ BladeRFJoinRX \/ USRPJoinRX
StopTX == RFNMStopTX \/ BladeRFStopTX \/ USRPStopTX
FinishTX == RFNMJoinTX \/ BladeRFJoinTX \/ USRPJoinTX

\* A half that was closed has no context any more.
Close(h) == \/ ctx[h] = NoIdent /\ UNCHANGED deviceVars
            \/ RFNMClose(h) \/ BladeRFClose(h) \/ LimeSDRClose(h) \/ USRPClose(h)

Catch ==
    /\ \/ Goto("catchStop", "catchJoin") /\ StopRX
       \/ Goto("catchJoin", "catchClose") /\ FinishRX
       \/ Goto("catchClose", "unwind") /\ Close("rx")
    /\ UNCHANGED <<cmd, alive, dsp, samplerate, run, handler, tun, sendWorker, failed>>

----------------------------------------------------------------------------
(* Running. *)

Spawn ==
    /\ Goto("spawn", "arm")
    /\ sendWorker' = "recv"
    /\ UNCHANGED <<deviceVars, cmd, alive, dsp, samplerate, run, handler, tun, failed>>

Arm ==
    /\ Goto("arm", "wait")
    /\ handler' = TRUE
    /\ UNCHANGED <<deviceVars, cmd, alive, dsp, samplerate, run, tun, sendWorker, failed>>

Wait ==
    /\ Goto("wait", "disarm")
    /\ ~run
    /\ UNCHANGED <<deviceVars, cmd, alive, dsp, samplerate, run, handler, tun, sendWorker, failed>>

Disarm ==
    /\ Goto("disarm", "join")
    /\ handler' = FALSE
    /\ UNCHANGED <<deviceVars, cmd, alive, dsp, samplerate, run, tun, sendWorker, failed>>

\* The interrupt: the handler, or the end of the process.
Interrupt ==
    /\ ~Over
    /\ IF handler THEN run' = FALSE /\ UNCHANGED pc ELSE pc' = "killed" /\ UNCHANGED run
    /\ UNCHANGED <<deviceVars, cmd, alive, dsp, samplerate, handler, tun, sendWorker, failed>>

\* The sender thread: a packet, an error of the interface, a packet sent.
SenderTo(from, to) ==
    /\ ~Over
    /\ sendWorker = from /\ sendWorker' = to
    /\ UNCHANGED <<deviceVars, pc, cmd, alive, dsp, samplerate, run, handler, tun, failed>>

PacketFromTUN == SenderTo("recv", "send")
TUNError == SenderTo("recv", "ended")
SendPacket == SenderTo("send", "recv")

----------------------------------------------------------------------------
(* Shutdown. *)

\* Mutant: the join that main.cpp:265 still has to make possible is left out.
JoinSenderNot ==
    /\ Goto("join", "stopRX")
    /\ UNCHANGED <<deviceVars, cmd, alive, dsp, samplerate, run, handler, tun, sendWorker, failed>>

JoinSender ==
    /\ Goto("join", "stopRX")
    /\ sendWorker = "ended"
    /\ UNCHANGED <<deviceVars, cmd, alive, dsp, samplerate, run, handler, tun, sendWorker, failed>>

StopDevices ==
    /\ \/ Goto("stopRX", "joinRX") /\ StopRX
       \/ Goto("joinRX", "closeRX") /\ FinishRX
       \/ Goto("closeRX", "stopTX") /\ Close("rx")
       \/ Goto("stopTX", "joinTX") /\ StopTX
       \/ Goto("joinTX", "closeTX") /\ FinishTX
       \/ Goto("closeTX", "stopDsp") /\ Close("tx")
    /\ UNCHANGED <<cmd, alive, dsp, samplerate, run, handler, tun, sendWorker, failed>>

StopBlock ==
    /\ pc = "stopDsp"
    /\ dsp' = dsp \ {FirstBlock(dsp)}
    /\ pc' = IF dsp' = {} THEN "unwind" ELSE pc
    /\ UNCHANGED <<deviceVars, cmd, alive, samplerate, run, handler, tun, sendWorker, failed>>

(***************************************************************************)
(* The end of main's scope: its objects are destroyed, the last one first, *)
(* and when main has returned the global that holds the TUN interface.     *)
(* The destructors stop a block and close a device; a device that still    *)
(* ran would be stopped, too, but main never lets it come to that.  That a *)
(* block is stopped here is sure only when none runs any more.             *)
(***************************************************************************)
LastAlive ==
    Objects[CHOOSE i \in DOMAIN Objects :
                /\ Objects[i] \in alive
                /\ \A j \in i + 1 .. Len(Objects) : Objects[j] \notin alive]

CloseTUN == tun' = FALSE

Unwind ==
    /\ pc = "unwind"
    /\ IF alive = {}
       THEN pc' = "ended" /\ CloseTUN /\ UNCHANGED <<deviceVars, alive, dsp>>
       ELSE /\ alive' = alive \ {LastAlive}
            /\ dsp' = dsp \ {LastAlive}
            /\ CASE LastAlive = "rxd" -> Close("rx")
                 [] LastAlive = "txd" -> Close("tx")
                 [] OTHER -> UNCHANGED deviceVars
            /\ UNCHANGED <<pc, tun>>
    /\ UNCHANGED <<cmd, samplerate, run, handler, sendWorker, failed>>

(***************************************************************************)
(* Undefined behaviour.  A start-up that fails after the blocks were       *)
(* started destroys them while their threads run: tx with the stream that  *)
(* agc sleeps on, then agc, lp and ns, which ~block stops when the derived *)
(* part of the object is gone.  It may go well, as in Unwind; it may also  *)
(* leave main waiting for ever, in the destructor of a condition variable  *)
(* or in a join, or take the program down.                                 *)
(***************************************************************************)
UnwindRunning ==
    /\ pc = "unwind" /\ dsp # {}
    /\ pc' \in {"hung", "aborted"}
    /\ UNCHANGED <<deviceVars, cmd, alive, dsp, samplerate, run, handler, tun, sendWorker, failed>>

----------------------------------------------------------------------------
Main == \/ Command \/ MakeTUN \/ OpenRX \/ OpenTX \/ ChooseRates \/ Configure \/ MakeModem
        \/ StartBlock \/ StartRX \/ StartTX \/ Throw \/ Catch \/ Spawn \/ Arm \/ Wait \/ Disarm \/ JoinSender
        \/ StopDevices \/ StopBlock \/ Unwind \/ UnwindRunning

DeviceRX ==
    /\ ~Over
    /\ \/ RFNMReceive \/ RFNMReceiveError \/ BladeRFReceive \/ USRPReceive \/ USRPReceiveError
       \/ RxSwap \/ RxSwapStopped
    /\ UNCHANGED mainVars

DeviceTX ==
    /\ ~Over
    /\ TxRead \/ TxReadStopped \/ RFNMTransmit \/ BladeRFTransmit \/ USRPTransmit
    /\ UNCHANGED mainVars

Finished == Over /\ UNCHANGED vars

Next == \/ Main \/ DeviceRX \/ DeviceTX
        \/ PacketFromTUN \/ TUNError \/ SendPacket \/ Interrupt \/ Finished

Spec == Init /\ [][Next]_vars

(***************************************************************************)
(* Every thread that can go on does.  For DeviceRX that includes samples   *)
(* that the radio delivers; nothing makes packets or errors arrive at the  *)
(* TUN interface.                                                          *)
(***************************************************************************)
FairSpec ==
    /\ Spec
    /\ WF_vars(Main) /\ WF_vars(DeviceRX) /\ WF_vars(DeviceTX) /\ WF_vars(SendPacket)

----------------------------------------------------------------------------
(***************************************************************************)
(* acquireContext and releaseContext of every driver: a context is counted *)
(* once for each half that holds it, whatever devices were asked for and   *)
(* wherever the start-up failed; only an RFNM transmitter or a BladeRF     *)
(* half whose constructor threw leaves a reference behind (rfnm.cpp:181,   *)
(* bladerf.cpp:18, 138-140).  TX workers of librfnm run only in a context  *)
(* whose transmitting half runs.                                           *)
(***************************************************************************)
RefsBalanced ==
    \A i \in Idents :
        /\ i \in leaked => DriverOf[i] \in {"rfnm", "bladerf"}
        /\ contexts[i].refCount =
             Cardinality({h \in Halves : ctx[h] = i}) + (IF i \in leaked THEN 1 ELSE 0)
        /\ contexts[i].txWorkStarted => "tx" \in running /\ ctx["tx"] = i

(***************************************************************************)
(* When main returns (main.cpp:268-293) nothing runs any more: no half of  *)
(* a device, no worker, no block, no sender thread; no channel or streamer *)
(* is on, unless it is the TX channel of an RFNM device whose start failed *)
(* after it had been turned on (rfnm.cpp:222-227).                         *)
(***************************************************************************)
QuietExit ==
    pc = "ended" =>
        /\ running = {} /\ dsp = {}
        /\ rxWorker \in {"none", "ended"} /\ txWorker \in {"none", "ended"}
        /\ sendWorker \in {"none", "ended"}
        /\ ctx = [h \in Halves |-> NoIdent]
        /\ \/ on = {}
           \/ failed /\ on = {"tx"} /\ DriverOf[Selected(cmd.txdev)] = "rfnm"

(***************************************************************************)
(* The order of start and stop in main (main.cpp:225-284): a worker of a   *)
(* device, a running block and the sender thread always find the thread at *)
(* the other end of their stream running and the object that owns the      *)
(* stream alive, and those that use the TUN interface find it open.  A     *)
(* failed start-up is left out for tx, which is destroyed while agc still  *)
(* reads its output.                                                       *)
(***************************************************************************)
UsersProvided ==
    /\ rxWorker \in {"read", "swap"} => "lp" \in dsp
    /\ txWorker \in {"read", "drain"} => "agc" \in dsp
    /\ "lp" \in dsp => "rxd" \in alive
    /\ "rx" \in dsp => "lp" \in alive
    /\ "ns" \in dsp => "rx" \in alive
    /\ "agc" \in dsp /\ ~failed => "tx" \in alive
    /\ sendWorker \in {"recv", "send"} /\ ~Over => "tx" \in dsp
    /\ "rx" \in dsp \/ (sendWorker \in {"recv", "send"} /\ ~Over) => tun

(***************************************************************************)
(* The TX workers (rfnm.cpp:251-288, bladerf.cpp:231-252, usrp.cpp:176-    *)
(* 199): samples go to the device once and in order; each one that was     *)
(* read was sent, dropped when the device did not take it or waits for the *)
(* next turn.                                                              *)
(***************************************************************************)
TxAccounted ==
    LET waiting == {txStage[k] : k \in off + 1 .. Len(txStage)}
        sent == ToSet(queued)
    IN  /\ \A k \in 1 .. Len(queued) - 1 : queued[k] < queued[k + 1]
        /\ sent \cup dropped \cup waiting = 1 .. taken
        /\ sent \cap dropped = {} /\ (sent \cup dropped) \cap waiting = {}

(***************************************************************************)
(* A half that runs samples at the rate that main chose for it and made    *)
(* its filters and its modem for, and not below the one that main asked    *)
(* for (device.h:35-36), also when the other half, configured after it,    *)
(* shares its clock (rfnm.cpp:385-396).  A USRP may round the rate, which  *)
(* nobody looks at, so it is left out; a LimeSDR, whose best rate is -1    *)
(* (limesdr.cpp:43-45), is the only device for which main crashes before   *)
(* its blocks run.                                                         *)
(***************************************************************************)
RateKept ==
    /\ \A h \in running : (Uses(h, "rfnm") \/ Uses(h, "bladerf")) =>
                           rate[ctx[h]][h] = samplerate[h] /\ samplerate[h] >= MinRate
    /\ pc = "crashed" => DriverOf[Selected(cmd.rxdev)] = "limesdr"

(***************************************************************************)
(* Once the sender thread has ended the shutdown (main.cpp:263-287) comes  *)
(* to its end, also when a worker of a device died of an error and reads   *)
(* or writes its stream no more; and so does the program when a step of    *)
(* the start-up fails before the blocks run (main.cpp:289-292).  When the  *)
(* RX or TX device does not start, with the blocks running, the RX device  *)
(* comes to its stop (main.cpp:238-245) and main to the destruction of its *)
(* objects; no more is promised, see UnwindRunning.                        *)
(***************************************************************************)
Terminates ==
    /\ ((pc = "join" /\ sendWorker = "ended") \/ (failed /\ dsp = {})) ~> Over
    /\ pc = "catchStop" ~> (pc = "unwind" \/ Over)
=============================================================================
