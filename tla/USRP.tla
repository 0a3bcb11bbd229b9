-------------------------------- MODULE USRP --------------------------------
(***************************************************************************)
(* The USRP driver.  It keeps no running flag: stop() always stops the     *)
(* stream, joins a worker if there is one, and drops the streamer.  Here   *)
(* `running` says that there is a worker to join and `on` that there is a  *)
(* streamer.  Errors of UHD are exceptions and end a worker.               *)
(***************************************************************************)
EXTENDS Device

CONSTANT FIRST_RATE             \* get_rx_rates, get_tx_rates: the first one

ASSUME USRPAssumption == FIRST_RATE \in Nat

USRPOpenRX(i) == DriverOf[i] = "usrp" /\ Open("rx", i)
USRPOpenTX(i) == DriverOf[i] = "usrp" /\ Open("tx", i)

\* The destructor calls stop(), which finds no worker, and close().
USRPClose(h) ==
    /\ Uses(h, "usrp") /\ Release(h)
    /\ on' = on \ {h}
    /\ UNCHANGED <<running, rxVars, txVars>>

USRPBest(min) == IF min > FIRST_RATE THEN min ELSE FIRST_RATE
USRPSetRate(h, r) == Uses(h, "usrp") /\ SetRate(h, r)

USRPStartRX == Uses("rx", "usrp") /\ LaunchRX

\* The streamer is there when issue_stream_cmd throws.
USRPStartRXThrows ==
    /\ Uses("rx", "usrp")
    /\ on' = on \cup {"rx"}
    /\ UNCHANGED <<contextVars, running, rxVars, txVars>>

USRPStopRX == Uses("rx", "usrp") /\ TellRX
USRPJoinRX == Uses("rx", "usrp") /\ JoinRX

\* recv: with samples; after an error; none after a second changes nothing.
USRPReceive == Uses("rx", "usrp") /\ RxTo("read", "swap")
USRPReceiveError == Uses("rx", "usrp") /\ RxTo("read", "ended")

USRPStartTX == Uses("tx", "usrp") /\ LaunchTX
USRPStopTX == Uses("tx", "usrp") /\ TellTX
USRPJoinTX == Uses("tx", "usrp") /\ JoinTX /\ UNCHANGED contexts

\* send: what it takes within a second; an exception ends the worker.
USRPTransmit ==
    /\ Uses("tx", "usrp")
    /\ (\E n \in 0 .. Len(txStage) : TxSend(n)) \/ TxTo("drain", "ended")
=============================================================================
