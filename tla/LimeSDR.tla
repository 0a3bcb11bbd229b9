------------------------------ MODULE LimeSDR ------------------------------
(***************************************************************************)
(* The LimeSDR driver, which only receives.  Its best rate is -1, which    *)
(* the device refuses and no modem can be made for, so main never comes to *)
(* start it: start, stop and the worker are left out.                      *)
(***************************************************************************)
EXTENDS Device

LimeSDROpenRX(i) == DriverOf[i] = "limesdr" /\ Open("rx", i)

LimeSDRClose(h) == Uses(h, "limesdr") /\ Release(h) /\ UNCHANGED <<halfVars, rxVars, txVars>>

LimeSDRBest == -1

\* That LMS_SetSampleRate fails is not looked at.
LimeSDRSetRate == Uses("rx", "limesdr") /\ UNCHANGED deviceVars
=============================================================================
