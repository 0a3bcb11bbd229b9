------------------------------- MODULE Stream -------------------------------
(***************************************************************************)
(* dsp::stream (vendor/dsp/stream.h): two buffers between a writer and a   *)
(* reader thread, two mutexes and two condition variables, and the threads *)
(* that stop, join, clear and restart either end (dsp::block::doStop and   *)
(* doStart, Transmitter::stop, Receiver::stop).                            *)
(*                                                                         *)
(* A critical section whose effects a thread under the OTHER mutex could   *)
(* see is split at the points where the order matters, and the mutex is    *)
(* held in between; a notify_all is a step after the unlock, as in the     *)
(* code.  What a buffer holds and how many items (dataSize) are both       *)
(* abstracted to the value that was written.                               *)
(***************************************************************************)
CONSTANTS Data,     \* values the writer produces
          Empty     \* no value

ASSUME DataAssumption == Empty \notin Data

VARIABLES
    canSwap, dataReady, writerStop, readerStop, dataSize,
    writeBuf, readBuf,      \* which buffer each end has
    content,                \* what the buffers hold
    swapMtx, rdyMtx,        \* the thread holding the mutex, or "free"
    swapWait, rdyWait,      \* threads asleep on swapCV and rdyCV
    wPc, rPc,               \* the writer and the reader
    wCtl, rCtl,             \* the threads that stop and start them
    got                     \* what the reader last took: size and content

flags == <<canSwap, dataReady, writerStop, readerStop>>
buffers == <<dataSize, writeBuf, readBuf, content>>
locks == <<swapMtx, rdyMtx, swapWait, rdyWait>>
vars == <<flags, buffers, locks, wPc, rPc, wCtl, rCtl, got>>

Buffers == {0, 1}
WPcs == {"fill", "lockSwap", "testSwap", "sleep", "swapping", "setReady",
         "notifyReady", "stopped"}
RPcs == {"lockReady", "testReady", "sleep", "use", "clearReady", "setSwap",
         "notifySwap", "stopped"}
CtlPcs == {"up", "notify", "join", "clear", "down"}

FlagsOK == /\ canSwap \in BOOLEAN /\ dataReady \in BOOLEAN
           /\ writerStop \in BOOLEAN /\ readerStop \in BOOLEAN

TypeOK ==
    /\ FlagsOK
    /\ dataSize \in Data \cup {Empty}
    /\ writeBuf \in Buffers /\ readBuf \in Buffers
    /\ content \in [Buffers -> Data \cup {Empty}]
    /\ swapMtx \in {"free", "writer"}
    /\ rdyMtx \in {"free", "reader"}
    /\ swapWait \subseteq {"writer"} /\ rdyWait \subseteq {"reader"}
    /\ wPc \in WPcs /\ rPc \in RPcs
    /\ wCtl \in CtlPcs /\ rCtl \in CtlPcs
    /\ got \in (Data \cup {Empty}) \X (Data \cup {Empty})

Init ==
    /\ canSwap = TRUE /\ dataReady = FALSE
    /\ writerStop = FALSE /\ readerStop = FALSE
    /\ dataSize = Empty
    /\ writeBuf = 0 /\ readBuf = 1
    /\ content = [b \in Buffers |-> Empty]
    /\ swapMtx = "free" /\ rdyMtx = "free"
    /\ swapWait = {} /\ rdyWait = {}
    /\ wPc = "fill" /\ rPc = "lockReady"
    /\ wCtl = "up" /\ rCtl = "up"
    /\ got = <<Empty, Empty>>

----------------------------------------------------------------------------
(* The writer: it fills its buffer and calls swap. *)

WGoto(from, to) == wPc = from /\ wPc' = to
RGoto(from, to) == rPc = from /\ rPc' = to

Fill ==
    /\ WGoto("fill", "lockSwap")
    /\ \E d \in Data : content' = [content EXCEPT ![writeBuf] = d]
    /\ UNCHANGED <<flags, dataSize, writeBuf, readBuf, locks, rPc, wCtl, rCtl, got>>

SwapLock ==
    /\ WGoto("lockSwap", "testSwap")
    /\ swapMtx = "free" /\ swapMtx' = "writer"
    /\ UNCHANGED <<flags, buffers, rdyMtx, swapWait, rdyWait, rPc, wCtl, rCtl, got>>

\* Mutant: the writer waits on the reader's condition variable.
SwapWaitWrong ==
    /\ WGoto("testSwap", "sleep")
    /\ ~canSwap /\ ~writerStop
    /\ swapMtx' = "free"
    /\ rdyWait' = rdyWait \cup {"writer"}
    /\ UNCHANGED <<flags, buffers, rdyMtx, swapWait, rPc, wCtl, rCtl, got>>

\* swapCV.wait: the mutex is given up and the thread sleeps, in one step.
SwapWait ==
    /\ WGoto("testSwap", "sleep")
    /\ ~canSwap /\ ~writerStop
    /\ swapMtx' = "free"
    /\ swapWait' = swapWait \cup {"writer"}
    /\ UNCHANGED <<flags, buffers, rdyMtx, rdyWait, rPc, wCtl, rCtl, got>>

SwapWake ==
    /\ WGoto("sleep", "lockSwap")
    /\ "writer" \notin swapWait
    /\ UNCHANGED <<flags, buffers, locks, rPc, wCtl, rCtl, got>>

\* swap returns false.
SwapStopped ==
    /\ WGoto("testSwap", "stopped")
    /\ writerStop
    /\ swapMtx' = "free"
    /\ UNCHANGED <<flags, buffers, rdyMtx, swapWait, rdyWait, rPc, wCtl, rCtl, got>>

\* Mutant: swap does not wait for the reader.
SwapBeginEarly ==
    /\ WGoto("testSwap", "swapping")
    /\ ~writerStop
    /\ UNCHANGED <<flags, buffers, locks, rPc, wCtl, rCtl, got>>

SwapBegin ==
    /\ WGoto("testSwap", "swapping")
    /\ canSwap /\ ~writerStop
    /\ UNCHANGED <<flags, buffers, locks, rPc, wCtl, rCtl, got>>

SwapEnd ==
    /\ WGoto("swapping", "setReady")
    /\ dataSize' = content[writeBuf]
    /\ writeBuf' = readBuf
    /\ readBuf' = writeBuf
    /\ canSwap' = FALSE
    /\ swapMtx' = "free"
    /\ UNCHANGED <<dataReady, writerStop, readerStop, content, rdyMtx, swapWait,
                   rdyWait, rPc, wCtl, rCtl, got>>

SetReady ==
    /\ WGoto("setReady", "notifyReady")
    /\ rdyMtx = "free"
    /\ dataReady' = TRUE
    /\ UNCHANGED <<canSwap, writerStop, readerStop, buffers, locks, rPc, wCtl, rCtl, got>>

\* Mutant: swap does not notify the reader.
NotifyReadyNot ==
    /\ WGoto("notifyReady", "fill")
    /\ UNCHANGED <<flags, buffers, locks, rPc, wCtl, rCtl, got>>

NotifyReady ==
    /\ WGoto("notifyReady", "fill")
    /\ rdyWait' = {}
    /\ UNCHANGED <<flags, buffers, swapMtx, rdyMtx, swapWait, rPc, wCtl, rCtl, got>>

Writer == \/ Fill \/ SwapLock \/ SwapWait \/ SwapWake \/ SwapStopped
          \/ SwapBegin \/ SwapEnd \/ SetReady \/ NotifyReady

----------------------------------------------------------------------------
(* The reader: read, use of the buffer, flush. *)

ReadLock ==
    /\ RGoto("lockReady", "testReady")
    /\ rdyMtx = "free" /\ rdyMtx' = "reader"
    /\ UNCHANGED <<flags, buffers, swapMtx, swapWait, rdyWait, wPc, wCtl, rCtl, got>>

ReadWait ==
    /\ RGoto("testReady", "sleep")
    /\ ~dataReady /\ ~readerStop
    /\ rdyMtx' = "free"
    /\ rdyWait' = rdyWait \cup {"reader"}
    /\ UNCHANGED <<flags, buffers, swapMtx, swapWait, wPc, wCtl, rCtl, got>>

ReadWake ==
    /\ RGoto("sleep", "lockReady")
    /\ "reader" \notin rdyWait
    /\ UNCHANGED <<flags, buffers, locks, wPc, wCtl, rCtl, got>>

\* Mutant: a stopped read throws away data that is ready.
ReadStoppedDrops ==
    /\ RGoto("testReady", "stopped")
    /\ readerStop
    /\ rdyMtx' = "free"
    /\ dataReady' = FALSE /\ canSwap' = (canSwap \/ dataReady)
    /\ UNCHANGED <<writerStop, readerStop, buffers, swapMtx, swapWait, rdyWait,
                   wPc, wCtl, rCtl, got>>

\* read returns -1, data or not.
ReadStopped ==
    /\ RGoto("testReady", "stopped")
    /\ readerStop
    /\ rdyMtx' = "free"
    /\ UNCHANGED <<flags, buffers, swapMtx, swapWait, rdyWait, wPc, wCtl, rCtl, got>>

\* read returns dataSize.
ReadReturn ==
    /\ RGoto("testReady", "use")
    /\ dataReady /\ ~readerStop
    /\ rdyMtx' = "free"
    /\ got' = <<dataSize, got[2]>>
    /\ UNCHANGED <<flags, buffers, swapMtx, swapWait, rdyWait, wPc, wCtl, rCtl>>

Use ==
    /\ RGoto("use", "clearReady")
    /\ got' = <<got[1], content[readBuf]>>
    /\ UNCHANGED <<flags, buffers, locks, wPc, wCtl, rCtl>>

\* Mutant: flush hands the buffer back but leaves dataReady set.
FlushReadyNot ==
    /\ RGoto("clearReady", "setSwap")
    /\ rdyMtx = "free"
    /\ UNCHANGED <<flags, buffers, locks, wPc, wCtl, rCtl, got>>

FlushReady ==
    /\ RGoto("clearReady", "setSwap")
    /\ rdyMtx = "free"
    /\ dataReady' = FALSE
    /\ UNCHANGED <<canSwap, writerStop, readerStop, buffers, locks, wPc, wCtl, rCtl, got>>

FlushSwap ==
    /\ RGoto("setSwap", "notifySwap")
    /\ swapMtx = "free"
    /\ canSwap' = TRUE
    /\ UNCHANGED <<dataReady, writerStop, readerStop, buffers, locks, wPc, wCtl, rCtl, got>>

\* Mutant: flush does not notify the writer.
NotifySwapNot ==
    /\ RGoto("notifySwap", "lockReady")
    /\ UNCHANGED <<flags, buffers, locks, wPc, wCtl, rCtl, got>>

NotifySwap ==
    /\ RGoto("notifySwap", "lockReady")
    /\ swapWait' = {}
    /\ UNCHANGED <<flags, buffers, swapMtx, rdyMtx, rdyWait, wPc, wCtl, rCtl, got>>

Reader == \/ ReadLock \/ ReadWait \/ ReadWake \/ ReadStopped \/ ReadReturn
          \/ Use \/ FlushReady \/ FlushSwap \/ NotifySwap

\* A condition variable may let a thread go that nobody notified.
SpuriousWake ==
    /\ \/ "writer" \in swapWait /\ swapWait' = {} /\ UNCHANGED rdyWait
       \/ "reader" \in rdyWait /\ rdyWait' = {} /\ UNCHANGED swapWait
    /\ UNCHANGED <<flags, buffers, swapMtx, rdyMtx, wPc, rPc, wCtl, rCtl, got>>

----------------------------------------------------------------------------
(* The threads that stop an end, join its worker and start it again. *)

StopWriter ==
    /\ wCtl = "up" /\ wCtl' = "notify"
    /\ swapMtx = "free"
    /\ writerStop' = TRUE
    /\ UNCHANGED <<canSwap, dataReady, readerStop, buffers, locks, wPc, rPc, rCtl, got>>

\* Mutant: stopWriter does not notify.
StopWriterNotifyNot ==
    /\ wCtl = "notify" /\ wCtl' = "join"
    /\ UNCHANGED <<flags, buffers, locks, wPc, rPc, rCtl, got>>

StopWriterNotify ==
    /\ wCtl = "notify" /\ wCtl' = "join"
    /\ swapWait' = {}
    /\ UNCHANGED <<flags, buffers, swapMtx, rdyMtx, rdyWait, wPc, rPc, rCtl, got>>

JoinWriter ==
    /\ wCtl = "join" /\ wCtl' = "clear"
    /\ wPc = "stopped"
    /\ UNCHANGED <<flags, buffers, locks, wPc, rPc, rCtl, got>>

\* clearWriteStop takes no mutex.
ClearWriteStop ==
    /\ wCtl = "clear" /\ wCtl' = "down"
    /\ writerStop' = FALSE
    /\ UNCHANGED <<canSwap, dataReady, readerStop, buffers, locks, wPc, rPc, rCtl, got>>

StartWriter ==
    /\ wCtl = "down" /\ wCtl' = "up"
    /\ wPc' = "fill"
    /\ UNCHANGED <<flags, buffers, locks, rPc, rCtl, got>>

StopReader ==
    /\ rCtl = "up" /\ rCtl' = "notify"
    /\ rdyMtx = "free"
    /\ readerStop' = TRUE
    /\ UNCHANGED <<canSwap, dataReady, writerStop, buffers, locks, wPc, rPc, wCtl, got>>

StopReaderNotify ==
    /\ rCtl = "notify" /\ rCtl' = "join"
    /\ rdyWait' = {}
    /\ UNCHANGED <<flags, buffers, swapMtx, rdyMtx, swapWait, wPc, rPc, wCtl, got>>

JoinReader ==
    /\ rCtl = "join" /\ rCtl' = "clear"
    /\ rPc = "stopped"
    /\ UNCHANGED <<flags, buffers, locks, wPc, rPc, wCtl, got>>

ClearReadStop ==
    /\ rCtl = "clear" /\ rCtl' = "down"
    /\ readerStop' = FALSE
    /\ UNCHANGED <<canSwap, dataReady, writerStop, buffers, locks, wPc, rPc, wCtl, got>>

StartReader ==
    /\ rCtl = "down" /\ rCtl' = "up"
    /\ rPc' = "lockReady"
    /\ UNCHANGED <<flags, buffers, locks, wPc, wCtl, got>>

WriterControl == \/ StopWriter \/ StopWriterNotify \/ JoinWriter
                 \/ ClearWriteStop \/ StartWriter
ReaderControl == \/ StopReader \/ StopReaderNotify \/ JoinReader
                 \/ ClearReadStop \/ StartReader

Next == Writer \/ Reader \/ SpuriousWake \/ WriterControl \/ ReaderControl

Spec == Init /\ [][Next]_vars

(***************************************************************************)
(* Every thread that can take a step takes one: the workers, and a thread  *)
(* that is inside stop().  Nobody has to call stop() or start().  For the  *)
(* workers the fairness is strong, since a worker that waits for a mutex   *)
(* is not passed over forever by threads that stop and start the other     *)
(* end again and again: each holds the mutex for one assignment and joins  *)
(* a thread before it comes back.                                          *)
(***************************************************************************)
Fairness ==
    /\ SF_vars(Writer) /\ SF_vars(Reader)
    /\ WF_vars(StopWriterNotify \/ JoinWriter \/ ClearWriteStop)
    /\ WF_vars(StopReaderNotify \/ JoinReader \/ ClearReadStop)

FairSpec == Spec /\ Fairness

----------------------------------------------------------------------------
(* Properties. *)

\* The writer touches its buffer, or swaps the two.
WriterOwns == IF wPc = "swapping" THEN Buffers
              ELSE IF wPc \in {"fill", "lockSwap", "testSwap", "sleep"} THEN {writeBuf}
              ELSE {}

\* The reader works on what read() gave it until it flushes.
ReaderOwns == IF rPc \in {"use", "clearReady"} THEN {readBuf} ELSE {}

(***************************************************************************)
(* The two threads never work on the same buffer, and the writer never     *)
(* exchanges the pointers and the size while the reader uses them - they   *)
(* are written under swapMtx and read under rdyMtx or no mutex at all      *)
(* (stream.h:52-57, 75, and the readBuf of every block).                   *)
(***************************************************************************)
BufferExclusion ==
    /\ WriterOwns \cap ReaderOwns = {}
    /\ wPc = "swapping" => ~(rPc = "testReady" /\ dataReady)
    /\ writeBuf # readBuf

(***************************************************************************)
(* At every moment the exchanged buffer is in exactly one place: the       *)
(* writer may swap, or it is about to announce data, or data is ready, or  *)
(* the reader is between the two halves of flush (stream.h:43-92).         *)
(***************************************************************************)
OneToken ==
    /\ canSwap => ~dataReady /\ wPc # "setReady" /\ rPc # "setSwap"
    /\ dataReady => wPc # "setReady" /\ rPc # "setSwap"
    /\ wPc = "setReady" => rPc # "setSwap"
    /\ canSwap \/ dataReady \/ wPc = "setReady" \/ rPc = "setSwap"

(***************************************************************************)
(* The writer sleeps only while somebody is going to wake it: the reader   *)
(* still has the buffer to give back, or is about to notify, or a stop     *)
(* is.  The same for the reader (stream.h:47, 73: no wake-up is lost).     *)
(***************************************************************************)
NoLostWakeup ==
    /\ "writer" \in swapWait /\ canSwap => rPc = "notifySwap" \/ wCtl = "notify"
    /\ "writer" \in swapWait /\ writerStop => wCtl = "notify"
    /\ "reader" \in rdyWait /\ dataReady => wPc = "notifyReady" \/ rCtl = "notify"
    /\ "reader" \in rdyWait /\ readerStop => rCtl = "notify"

\* The value between the ends: swapped in, and not yet used by the reader.
Slot == IF canSwap \/ rPc \in {"clearReady", "setSwap"} THEN Empty
        ELSE content[readBuf]

H == INSTANCE Handoff WITH
    slot <- Slot,
    got <- IF rPc = "use" THEN <<got[2], got[2]>> ELSE got

(***************************************************************************)
(* Nothing that swap() announced is lost, doubled or torn between the size *)
(* and the content, across any number of stops and restarts of both ends.  *)
(***************************************************************************)
ImplementsHandoff == H!HandoffSpec

\* stop() of a block returns: its worker is woken from either wait and joined.
StopTerminates ==
    /\ wCtl = "notify" ~> wCtl = "down"
    /\ rCtl = "notify" ~> rCtl = "down"

\* Data that was announced is read, or the reader is being stopped or down.
DataIsRead == dataReady ~> (~dataReady \/ rCtl # "up")

\* A writer in swap() gets through as long as the reader keeps reading.
SwapReturns == wPc = "lockSwap" ~> (wPc \in {"fill", "stopped"} \/ rCtl # "up")
=============================================================================
