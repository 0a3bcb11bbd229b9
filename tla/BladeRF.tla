------------------------------ MODULE BladeRF ------------------------------
(***************************************************************************)
(* The BladeRF driver.  Both constructors set a gain and throw when that   *)
(* fails; after that no method but setSamplerate looks at errors.          *)
(***************************************************************************)
EXTENDS Device

CONSTANTS MIN_RATE, MAX_RATE    \* bladerf_get_sample_rate_range

ASSUME BladeRFAssumption == MIN_RATE \in Nat /\ MAX_RATE \in Nat /\ MIN_RATE <= MAX_RATE

BladeRFOpenRX(i) == DriverOf[i] = "bladerf" /\ Open("rx", i)
BladeRFOpenTX(i) == DriverOf[i] = "bladerf" /\ Open("tx", i)

\* "Failed to enable the AGC"; "Failed to get TX gain range", "to set TX gain"
BladeRFOpenRXThrows(i) == DriverOf[i] = "bladerf" /\ Leak(i)
BladeRFOpenTXThrows(i) == DriverOf[i] = "bladerf" /\ Leak(i)

BladeRFClose(h) == Uses(h, "bladerf") /\ Release(h) /\ UNCHANGED <<halfVars, rxVars, txVars>>

BladeRFBest(min) == IF min < MIN_RATE THEN MIN_RATE ELSE IF min > MAX_RATE THEN MAX_RATE ELSE min
BladeRFSetRate(h, r) == Uses(h, "bladerf") /\ SetRate(h, r)

BladeRFStartRX == Uses("rx", "bladerf") /\ LaunchRX

BladeRFStopRX ==
    /\ Uses("rx", "bladerf")
    /\ IF "rx" \in running THEN TellRX ELSE UNCHANGED deviceVars

BladeRFJoinRX ==
    /\ Uses("rx", "bladerf")
    /\ IF "rx" \in running THEN JoinRX ELSE UNCHANGED deviceVars

\* bladerf_sync_rx, whatever it returns
BladeRFReceive == Uses("rx", "bladerf") /\ RxTo("read", "swap")

BladeRFStartTX == Uses("tx", "bladerf") /\ LaunchTX

BladeRFStopTX ==
    /\ Uses("tx", "bladerf")
    /\ IF "tx" \in running THEN TellTX ELSE UNCHANGED deviceVars

BladeRFJoinTX ==
    /\ Uses("tx", "bladerf")
    /\ IF "tx" \in running THEN JoinTX /\ UNCHANGED contexts ELSE UNCHANGED deviceVars

\* bladerf_sync_tx sends the buffer or fails.
BladeRFTransmit == Uses("tx", "bladerf") /\ (TxSend(0) \/ TxSend(Len(txStage)))
=============================================================================
