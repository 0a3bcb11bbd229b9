-------------------------------- MODULE RFNM --------------------------------
(***************************************************************************)
(* The RFNM driver.  The workers of librfnm that send belong to the        *)
(* context, one clock serves both halves, and samples are sent in          *)
(* multiples of GRANULE (256), PACKET (RFNM_USB_TX_PACKET_ELEM_CNT) at     *)
(* most.                                                                   *)
(***************************************************************************)
EXTENDS Device

CONSTANTS
    GRANULE, PACKET,            \* sizes of what is queued, in samples
    RATE_STEP,                  \* rates are multiples of it
    RFNM_MIN_SAMPLERATE

ASSUME RFNMAssumption ==
    /\ GRANULE \in Nat \ {0} /\ PACKET \in Nat /\ PACKET >= GRANULE
    /\ RATE_STEP \in Nat \ {0} /\ RFNM_MIN_SAMPLERATE \in Nat

----------------------------------------------------------------------------
RFNMOpenRX(i) == DriverOf[i] = "rfnm" /\ Open("rx", i)
RFNMOpenTX(i) == DriverOf[i] = "rfnm" /\ Open("tx", i)

\* No TX channel.
RFNMOpenTXThrows(i) == DriverOf[i] = "rfnm" /\ Leak(i)

RFNMClose(h) == Uses(h, "rfnm") /\ Release(h) /\ UNCHANGED <<halfVars, rxVars, txVars>>

Stepped(min) == ((min + RATE_STEP - 1) \div RATE_STEP) * RATE_STEP
RFNMBestRX(min) == IF Stepped(min) > RFNM_MIN_SAMPLERATE THEN Stepped(min)
                   ELSE RFNM_MIN_SAMPLERATE

\* Mutant: the rate is not rounded up to a step.
RFNMBestTXExact(min) == IF min > RFNM_MIN_SAMPLERATE THEN min ELSE RFNM_MIN_SAMPLERATE

RFNMBestTX(min) == IF Stepped(min) > RFNM_MIN_SAMPLERATE THEN Stepped(min)
                   ELSE RFNM_MIN_SAMPLERATE

\* One clock: what one half sets holds for both.
RFNMSetRate(h, r) ==
    /\ Uses(h, "rfnm")
    /\ rate' = [rate EXCEPT ![ctx[h]] = [k \in Halves |-> r]]
    /\ UNCHANGED <<contexts, ctx, leaked, halfVars, rxVars, txVars>>

----------------------------------------------------------------------------
(* The receiving half. *)

RFNMStartRX == Uses("rx", "rfnm") /\ LaunchRX

\* Mutant: the worker is not told.
RFNMStopRXSilent == Uses("rx", "rfnm") /\ UNCHANGED deviceVars

RFNMStopRX ==
    /\ Uses("rx", "rfnm")
    /\ IF "rx" \in running THEN TellRX ELSE UNCHANGED deviceVars

RFNMJoinRX ==
    /\ Uses("rx", "rfnm")
    /\ IF "rx" \in running THEN JoinRX ELSE UNCHANGED deviceVars

\* stream->read: with samples; after an error; a timeout changes nothing.
RFNMReceive == Uses("rx", "rfnm") /\ RxTo("read", "swap")
RFNMReceiveError == Uses("rx", "rfnm") /\ RxTo("read", "ended")

----------------------------------------------------------------------------
(* The transmitting half. *)

\* start(): the channel is turned on, then the librfnm workers are started.
RFNMEnableTX ==
    /\ Uses("tx", "rfnm")
    /\ on' = on \cup {"tx"}
    /\ UNCHANGED <<contextVars, running, rxVars, txVars>>

RFNMStartTX ==
    /\ Uses("tx", "rfnm")
    /\ contexts' = [contexts EXCEPT ![ctx["tx"]].txWorkStarted = TRUE]
    /\ running' = running \cup {"tx"}
    /\ txWorker' = "read"
    /\ UNCHANGED <<ctx, leaked, rate, on, rxVars, txStop, sampleVars>>

RFNMStopTX ==
    /\ Uses("tx", "rfnm")
    /\ IF "tx" \in running THEN TellTX ELSE UNCHANGED deviceVars

RFNMJoinTX ==
    /\ Uses("tx", "rfnm")
    /\ IF "tx" \in running
       THEN /\ JoinTX
            /\ contexts' = [contexts EXCEPT ![ctx["tx"]].txWorkStarted = FALSE]
       ELSE UNCHANGED deviceVars

Left == Len(txStage) - off
ChunkSize == IF (Left \div GRANULE) * GRANULE > PACKET
             THEN PACKET ELSE (Left \div GRANULE) * GRANULE
Chunk == SubSeq(txStage, off + 1, off + ChunkSize)

TxQueue ==
    /\ txWorker = "drain" /\ Left >= GRANULE
    /\ queued' = queued \o Chunk
    /\ off' = off + ChunkSize
    /\ UNCHANGED <<contextVars, halfVars, rxVars, txWorker, txStop, txStage, taken, dropped>>

\* tx_dqbuf has no free buffer.
TxDrop ==
    /\ txWorker = "drain" /\ Left >= GRANULE
    /\ dropped' = dropped \cup ToSet(Chunk)
    /\ off' = off + ChunkSize
    /\ UNCHANGED <<contextVars, halfVars, rxVars, txWorker, txStop, txStage, taken, queued>>

\* tx_qbuf fails: the worker returns, and what was queued is still staged.
TxFail == Left >= GRANULE /\ TxTo("drain", "ended")

\* Mutant: everything is erased, also what was not queued.
TxEraseAll ==
    /\ txWorker = "drain" /\ Left < GRANULE
    /\ txStage' = <<>>
    /\ off' = 0
    /\ txWorker' = "read"
    /\ UNCHANGED <<contextVars, halfVars, rxVars, txStop, taken, queued, dropped>>

\* Mutant: the count of what is done is not taken back.
TxEraseKeeps ==
    /\ txWorker = "drain" /\ Left < GRANULE
    /\ txStage' = SubSeq(txStage, off + 1, Len(txStage))
    /\ txWorker' = "read"
    /\ UNCHANGED <<contextVars, halfVars, rxVars, txStop, off, taken, queued, dropped>>

TxErase ==
    /\ txWorker = "drain" /\ Left < GRANULE
    /\ txStage' = SubSeq(txStage, off + 1, Len(txStage))
    /\ off' = 0
    /\ txWorker' = "read"
    /\ UNCHANGED <<contextVars, halfVars, rxVars, txStop, taken, queued, dropped>>

RFNMTransmit == Uses("tx", "rfnm") /\ (TxQueue \/ TxDrop \/ TxFail \/ TxErase)
=============================================================================
