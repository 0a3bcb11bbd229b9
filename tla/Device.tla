------------------------------- MODULE Device -------------------------------
(***************************************************************************)
(* What the drivers of the radios have in common: contexts shared by the   *)
(* receiving and the transmitting half of a device, a worker thread for    *)
(* each half, and the samples that go through them.  Each driver is a      *)
(* module of its own that builds its methods from these steps.             *)
(*                                                                         *)
(* A context whose reference count is 0 is not in its driver's map.        *)
(* Samples are numbered in the order the modem makes them.                 *)
(***************************************************************************)
EXTENDS Integers, FiniteSets, Sequences, SequencesExt

CONSTANTS
    Idents, NoIdent,        \* device identifiers
    DriverOf,               \* the driver of each
    MaxCount,               \* bound: samples in one buffer of the input stream
    MaxSamples              \* bound: samples in all

ASSUME DeviceAssumption ==
    /\ NoIdent \notin Idents
    /\ DOMAIN DriverOf = Idents
    /\ MaxCount \in Nat /\ MaxSamples \in Nat

VARIABLES
    contexts,               \* per identifier: reference count, TX workers
    ctx,                    \* per half: the context it holds
    leaked,                 \* history: contexts of a constructor that threw
    rate,                   \* per identifier and half: the rate of its samples
    running, on,            \* the halves that run; whose channel or stream is on
    rxWorker, rxStop,       \* RX worker; write stop of its stream
    txWorker, txStop,       \* TX worker; read stop of its stream
    txStage, off,           \* samples in its hands, and how many of them are done
    taken, queued, dropped  \* histories: samples read, queued, dropped

Halves == {"rx", "tx"}
contextVars == <<contexts, ctx, leaked, rate>>
halfVars == <<running, on>>
rxVars == <<rxWorker, rxStop>>
sampleVars == <<txStage, off, taken, queued, dropped>>
txVars == <<txWorker, txStop, sampleVars>>
deviceVars == <<contextVars, halfVars, rxVars, txVars>>

DeviceTypeOK ==
    /\ contexts \in [Idents -> [refCount : Nat, txWorkStarted : BOOLEAN]]
    /\ ctx \in [Halves -> Idents \cup {NoIdent}]
    /\ leaked \subseteq Idents
    /\ rate \in [Idents -> [Halves -> Nat]]
    /\ running \subseteq Halves /\ on \subseteq Halves
    /\ rxWorker \in {"none", "read", "swap", "ended"}
    /\ txWorker \in {"none", "read", "drain", "ended"}
    /\ rxStop \in BOOLEAN /\ txStop \in BOOLEAN
    /\ taken \in 0 .. MaxSamples
    /\ txStage \in Seq(1 .. taken) /\ off \in 0 .. Len(txStage)
    /\ queued \in Seq(1 .. taken) /\ dropped \subseteq 1 .. taken

DeviceInit ==
    /\ contexts = [i \in Idents |-> [refCount |-> 0, txWorkStarted |-> FALSE]]
    /\ ctx = [h \in Halves |-> NoIdent] /\ leaked = {}
    /\ rate = [i \in Idents |-> [h \in Halves |-> 0]]
    /\ running = {} /\ on = {}
    /\ rxWorker = "none" /\ rxStop = FALSE
    /\ txWorker = "none" /\ txStop = FALSE /\ txStage = <<>> /\ off = 0
    /\ taken = 0 /\ queued = <<>> /\ dropped = {}

\* The half h is a device of this driver.
Uses(h, driver) == ctx[h] # NoIdent /\ DriverOf[ctx[h]] = driver

----------------------------------------------------------------------------
(* Contexts. *)

\* Mutant: a context that is open already is not counted again.
AcquireUncounted(i) ==
    contexts' = IF contexts[i].refCount > 0 THEN contexts
                ELSE [contexts EXCEPT ![i].refCount = 1]

Acquire(i) == contexts' = [contexts EXCEPT ![i].refCount = @ + 1]

Open(h, i) ==
    /\ Acquire(i)
    /\ ctx' = [ctx EXCEPT ![h] = i]
    /\ UNCHANGED <<leaked, rate, halfVars, rxVars, txVars>>

\* The context is acquired, then the constructor throws: nobody releases it.
Leak(i) ==
    /\ Acquire(i)
    /\ leaked' = leaked \cup {i}
    /\ UNCHANGED <<ctx, rate, halfVars, rxVars, txVars>>

\* The last reference deletes the context, and what was set in it.
Release(h) ==
    LET last == contexts[ctx[h]].refCount = 1
    IN  /\ contexts' = [contexts EXCEPT ![ctx[h]] =
                           [refCount |-> @.refCount - 1,
                            txWorkStarted |-> @.txWorkStarted /\ ~last]]
        /\ rate' = IF last THEN [rate EXCEPT ![ctx[h]] = [k \in Halves |-> 0]] ELSE rate
        /\ ctx' = [ctx EXCEPT ![h] = NoIdent]
        /\ UNCHANGED leaked

SetRate(h, r) ==
    /\ rate' = [rate EXCEPT ![ctx[h]][h] = r]
    /\ UNCHANGED <<contexts, ctx, leaked, halfVars, rxVars, txVars>>

----------------------------------------------------------------------------
(* The receiving half. *)

LaunchRX ==
    /\ rxWorker' = "read"
    /\ running' = running \cup {"rx"} /\ on' = on \cup {"rx"}
    /\ UNCHANGED <<contextVars, rxStop, txVars>>

\* stop(), up to its join, and from there.
TellRX ==
    /\ rxStop' = TRUE
    /\ UNCHANGED <<contextVars, halfVars, rxWorker, txVars>>

\* Mutant: stop() does not wait for the worker.
JoinRXNot ==
    /\ rxStop' = FALSE
    /\ running' = running \ {"rx"} /\ on' = on \ {"rx"}
    /\ UNCHANGED <<contextVars, rxWorker, txVars>>

JoinRX ==
    /\ rxWorker \in {"none", "ended"}
    /\ rxStop' = FALSE
    /\ running' = running \ {"rx"} /\ on' = on \ {"rx"}
    /\ UNCHANGED <<contextVars, rxWorker, txVars>>

RxTo(from, to) ==
    /\ rxWorker = from /\ rxWorker' = to
    /\ UNCHANGED <<contextVars, halfVars, rxStop, txVars>>

\* swap(): the reader takes the samples, or the stream is stopped.
RxSwap == ~rxStop /\ RxTo("swap", "read")
RxSwapStopped == rxStop /\ RxTo("swap", "ended")

----------------------------------------------------------------------------
(* The transmitting half. *)

LaunchTX ==
    /\ txWorker' = "read"
    /\ running' = running \cup {"tx"} /\ on' = on \cup {"tx"}
    /\ UNCHANGED <<contextVars, rxVars, txStop, sampleVars>>

TellTX ==
    /\ txStop' = TRUE
    /\ UNCHANGED <<contextVars, halfVars, rxVars, txWorker, sampleVars>>

JoinTX ==
    /\ txWorker \in {"none", "ended"}
    /\ txStop' = FALSE
    /\ running' = running \ {"tx"} /\ on' = on \ {"tx"}
    /\ UNCHANGED <<ctx, leaked, rate, rxVars, txWorker, sampleVars>>

\* read(): samples of the modem, or the stream is stopped.
TxRead ==
    /\ txWorker = "read" /\ ~txStop
    /\ \E count \in 1 .. MaxCount :
        /\ taken + count <= MaxSamples
        /\ taken' = taken + count
        /\ txStage' = txStage \o [k \in 1 .. count |-> taken + k]
    /\ txWorker' = "drain"
    /\ UNCHANGED <<contextVars, halfVars, rxVars, txStop, off, queued, dropped>>

TxTo(from, to) ==
    /\ txWorker = from /\ txWorker' = to
    /\ UNCHANGED <<contextVars, halfVars, rxVars, txStop, sampleVars>>

TxReadStopped == txStop /\ TxTo("read", "ended")

\* The device takes the first n samples of a buffer, the others are lost.
TxSend(n) ==
    /\ txWorker = "drain" /\ txWorker' = "read"
    /\ queued' = queued \o SubSeq(txStage, 1, n)
    /\ dropped' = dropped \cup ToSet(SubSeq(txStage, n + 1, Len(txStage)))
    /\ txStage' = <<>>
    /\ UNCHANGED <<contextVars, halfVars, rxVars, txStop, off, taken>>
=============================================================================
