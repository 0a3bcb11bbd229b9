---------------------------- MODULE StreamProofs ----------------------------
(***************************************************************************)
(* Proofs about dsp::stream, for any set of values, any number of swaps    *)
(* and any interleaving of the workers with stops and restarts of either   *)
(* end.                                                                    *)
(***************************************************************************)
EXTENDS Stream, TLAPS

(***************************************************************************)
(* The inductive invariant.  OneToken alone is not inductive: it needs to  *)
(* know who holds the mutexes (so that the test of a predicate and the act *)
(* on it are not torn apart), that a reader between read() and flush() has *)
(* dataReady set, and that a worker is only restarted once it is joined.   *)
(***************************************************************************)
Mutexes ==
    /\ swapMtx = "writer" <=> wPc \in {"testSwap", "swapping"}
    /\ rdyMtx = "reader" <=> rPc = "testReady"

Protocol ==
    /\ wPc = "swapping" => canSwap
    /\ rPc \in {"use", "clearReady"} => dataReady
    /\ wCtl \in {"clear", "down"} => wPc = "stopped"
    /\ rCtl \in {"clear", "down"} => rPc = "stopped"

\* What is in the buffers and in got.
Values ==
    /\ wPc \in {"lockSwap", "testSwap", "sleep", "swapping"} => content[writeBuf] \in Data
    /\ ~canSwap => dataSize \in Data /\ dataSize = content[readBuf]
    /\ rPc = "use" => got[1] = dataSize
    /\ rPc # "use" => got[1] = got[2]

Inv == /\ TypeOK /\ Mutexes /\ Protocol /\ OneToken
       /\ writeBuf # readBuf
       /\ Values

\* The first state has the invariant.
LEMMA InitInv == Init => Inv
  <1> SUFFICES ASSUME Init PROVE Inv
    OBVIOUS
  <1>1. FlagsOK
    BY Zenon DEF Init, FlagsOK
  <1> QED
    BY <1>1 DEF Init, Inv, TypeOK, Mutexes, Protocol, OneToken, Values, Buffers, WPcs,
                RPcs, CtlPcs

\* The flags are Boolean: the proofs below need not look at their types again.
LEMMA FlagsTyped == FlagsOK /\ Next => FlagsOK'
  <1> SUFFICES ASSUME FlagsOK, Next PROVE FlagsOK'
    OBVIOUS
  <1> USE DEF FlagsOK, flags
  <1>1. CASE Writer
    BY <1>1, Zenon DEF Writer, Fill, SwapLock, SwapWait, SwapWake, SwapStopped,
                SwapBegin, SwapEnd, SetReady, NotifyReady
  <1>2. CASE Reader
    BY <1>2, Zenon DEF Reader, ReadLock, ReadWait, ReadWake, ReadStopped, ReadReturn,
                Use, FlushReady, FlushSwap, NotifySwap
  <1>3. CASE SpuriousWake
    BY <1>3, Zenon DEF SpuriousWake
  <1>4. CASE WriterControl
    BY <1>4, Zenon DEF WriterControl, StopWriter, StopWriterNotify, JoinWriter,
                ClearWriteStop, StartWriter
  <1>5. CASE ReaderControl
    BY <1>5, Zenon DEF ReaderControl, StopReader, StopReaderNotify, JoinReader,
                ClearReadStop, StartReader
  <1> QED
    BY <1>1, <1>2, <1>3, <1>4, <1>5 DEF Next

\* A step of the writer keeps the invariant.
LEMMA WriterInv == Inv /\ Writer => Inv'
  <1> SUFFICES ASSUME Inv, Writer PROVE Inv'
    OBVIOUS
  <1>0. FlagsOK'
    BY FlagsTyped DEF Inv, TypeOK, Next
  <1> USE DEF Inv, TypeOK, Mutexes, Protocol, OneToken, Values, Buffers, WPcs, RPcs,
              CtlPcs, WGoto, flags, buffers, locks
  <1>1. CASE Fill
    BY <1>0, <1>1 DEF Fill
  <1>2. CASE SwapLock
    BY <1>0, <1>2 DEF SwapLock
  <1>3. CASE SwapWait
    BY <1>0, <1>3 DEF SwapWait
  <1>4. CASE SwapWake
    BY <1>0, <1>4 DEF SwapWake
  <1>5. CASE SwapStopped
    BY <1>0, <1>5 DEF SwapStopped
  <1>6. CASE SwapBegin
    BY <1>0, <1>6 DEF SwapBegin
  <1>7. CASE SwapEnd
    BY <1>0, <1>7 DEF SwapEnd
  <1>8. CASE SetReady
    BY <1>0, <1>8 DEF SetReady
  <1>9. CASE NotifyReady
    BY <1>0, <1>9 DEF NotifyReady
  <1> QED
    BY <1>1, <1>2, <1>3, <1>4, <1>5, <1>6, <1>7, <1>8, <1>9 DEF Writer

\* A step of the reader keeps the invariant.
LEMMA ReaderInv == Inv /\ Reader => Inv'
  <1> SUFFICES ASSUME Inv, Reader PROVE Inv'
    OBVIOUS
  <1>0. FlagsOK'
    BY FlagsTyped DEF Inv, TypeOK, Next
  <1> USE DEF Inv, TypeOK, Mutexes, Protocol, OneToken, Values, Buffers, WPcs, RPcs,
              CtlPcs, RGoto, flags, buffers, locks
  <1>1. CASE ReadLock
    BY <1>0, <1>1 DEF ReadLock
  <1>2. CASE ReadWait
    BY <1>0, <1>2 DEF ReadWait
  <1>3. CASE ReadWake
    BY <1>0, <1>3 DEF ReadWake
  <1>4. CASE ReadStopped
    BY <1>0, <1>4 DEF ReadStopped
  <1>5. CASE ReadReturn
    BY <1>0, <1>5 DEF ReadReturn
  <1>6. CASE Use
    BY <1>0, <1>6 DEF Use
  <1>7. CASE FlushReady
    BY <1>0, <1>7 DEF FlushReady
  <1>8. CASE FlushSwap
    BY <1>0, <1>8 DEF FlushSwap
  <1>9. CASE NotifySwap
    BY <1>0, <1>9 DEF NotifySwap
  <1> QED
    BY <1>1, <1>2, <1>3, <1>4, <1>5, <1>6, <1>7, <1>8, <1>9 DEF Reader

\* So does a step of a thread that stops or starts an end, or a spurious wake-up.
LEMMA ControlInv ==
  Inv /\ (SpuriousWake \/ WriterControl \/ ReaderControl) => Inv'
  <1> SUFFICES ASSUME Inv, SpuriousWake \/ WriterControl \/ ReaderControl PROVE Inv'
    OBVIOUS
  <1>0. FlagsOK'
    BY FlagsTyped DEF Inv, TypeOK, Next
  <1> USE DEF Inv, TypeOK, Mutexes, Protocol, OneToken, Values, Buffers, WPcs, RPcs,
              CtlPcs, flags, buffers, locks
  <1>1. CASE SpuriousWake
    <2>1. swapWait' \subseteq {"writer"} /\ rdyWait' \subseteq {"reader"}
      BY <1>1 DEF SpuriousWake
    <2> QED
      BY <1>0, <1>1, <2>1 DEF SpuriousWake
  <1>2. CASE StopWriter
    BY <1>0, <1>2 DEF StopWriter
  <1>3. CASE StopWriterNotify
    BY <1>0, <1>3 DEF StopWriterNotify
  <1>4. CASE JoinWriter
    BY <1>0, <1>4 DEF JoinWriter
  <1>5. CASE ClearWriteStop
    BY <1>0, <1>5 DEF ClearWriteStop
  <1>6. CASE StartWriter
    BY <1>0, <1>6 DEF StartWriter
  <1>7. CASE StopReader
    BY <1>0, <1>7 DEF StopReader
  <1>8. CASE StopReaderNotify
    BY <1>0, <1>8 DEF StopReaderNotify
  <1>9. CASE JoinReader
    BY <1>0, <1>9 DEF JoinReader
  <1>10. CASE ClearReadStop
    BY <1>0, <1>10 DEF ClearReadStop
  <1>11. CASE StartReader
    BY <1>0, <1>11 DEF StartReader
  <1> QED
    BY <1>1, <1>2, <1>3, <1>4, <1>5, <1>6, <1>7, <1>8, <1>9, <1>10, <1>11
       DEF WriterControl, ReaderControl

\* A step that changes nothing keeps the invariant.
LEMMA StutterInv == Inv /\ UNCHANGED vars => Inv'
  BY DEF Inv, TypeOK, FlagsOK, Mutexes, Protocol, OneToken, Values, vars, flags, buffers, locks

\* The inductive invariant holds in every reachable state of the stream.
THEOREM Invariance == Spec => []Inv
  <1>1. Inv /\ [Next]_vars => Inv'
    BY WriterInv, ReaderInv, ControlInv, StutterInv DEF Next
  <1> QED
    BY <1>1, InitInv, PTL DEF Spec

(***************************************************************************)
(* The type invariant of the stream, for any set of values.                *)
(***************************************************************************)
THEOREM TypeCorrect == Spec => []TypeOK
  BY Invariance, PTL DEF Inv

(***************************************************************************)
(* Writer and reader never work on the same buffer, and the pointers are   *)
(* not exchanged while the reader uses them (stream.h:52-57, 75).          *)
(***************************************************************************)
THEOREM Exclusion == Spec => []BufferExclusion
  <1>1. Inv => BufferExclusion
    BY DEF Inv, TypeOK, Mutexes, Protocol, OneToken, BufferExclusion, WriterOwns,
           ReaderOwns, Buffers, WPcs, RPcs
  <1> QED
    BY <1>1, Invariance, PTL

(***************************************************************************)
(* The exchanged buffer is in exactly one place at a time                  *)
(* (stream.h:43-92).                                                       *)
(***************************************************************************)
THEOREM Token == Spec => []OneToken
  BY Invariance, PTL DEF Inv

(***************************************************************************)
(* No wake-up of the two condition variables is lost (stream.h:47, 73).    *)
(***************************************************************************)
THEOREM Wakeups == Spec => []NoLostWakeup
  <1>1. Init => NoLostWakeup
    BY DEF Init, NoLostWakeup
  <1>2. ASSUME NoLostWakeup, Inv, [Next]_vars PROVE NoLostWakeup'
    <2> USE <1>2 DEF NoLostWakeup, flags, buffers, locks, WGoto, RGoto
    <2>1. CASE Writer
      BY <2>1 DEF Writer, Fill, SwapLock, SwapWait, SwapWake, SwapStopped,
                  SwapBegin, SwapEnd, SetReady, NotifyReady
    <2>2. CASE Reader
      BY <2>2 DEF Reader, ReadLock, ReadWait, ReadWake, ReadStopped, ReadReturn,
                  Use, FlushReady, FlushSwap, NotifySwap
    <2>3. CASE SpuriousWake
      BY <2>3 DEF SpuriousWake
    <2>4. CASE WriterControl
      BY <2>4 DEF Inv, Protocol, WriterControl, StopWriter, StopWriterNotify, JoinWriter,
                  ClearWriteStop, StartWriter
    <2>5. CASE ReaderControl
      BY <2>5 DEF Inv, Protocol, ReaderControl, StopReader, StopReaderNotify, JoinReader,
                  ClearReadStop, StartReader
    <2>6. CASE UNCHANGED vars
      BY <2>6 DEF vars
    <2> QED
      BY <2>1, <2>2, <2>3, <2>4, <2>5, <2>6 DEF Next
  <1> QED
    BY <1>1, <1>2, Invariance, PTL DEF Spec

(***************************************************************************)
(* The stream implements the hand-off: what was swapped in is handed out   *)
(* once, whole, size and content together (Handoff.tla).                   *)
(***************************************************************************)
THEOREM Refinement == Spec => ImplementsHandoff
  <1> DEFINE hgot == IF rPc = "use" THEN <<got[2], got[2]>> ELSE got
  <1>1. Init => H!HandoffInit
    BY DEF Init, H!HandoffInit, Slot
  <1>2. ASSUME Inv, Inv', [Next]_vars
        PROVE  [H!Put \/ H!Get]_<<Slot, hgot>>
    <2> USE <1>2 DEF Inv, TypeOK, Mutexes, Protocol, OneToken, Values, Buffers,
                     Slot, flags, buffers, locks, WGoto, RGoto
    <2>1. CASE SwapEnd
      <3>1. Slot = Empty /\ Slot' = content[writeBuf] /\ hgot' = hgot
        BY <2>1 DEF SwapEnd
      <3> QED
        BY <3>1, <2>1 DEF SwapEnd, H!Put
    <2>2. CASE Use
      <3>1. Slot = content[readBuf] /\ Slot \in Data /\ Slot' = Empty
        BY <2>2 DEF Use
      <3>2. hgot' = <<Slot, Slot>>
        BY <2>2, <3>1 DEF Use
      <3> QED
        BY <3>1, <3>2, DataAssumption DEF H!Get
    <2>3. CASE Writer /\ ~SwapEnd
      BY <2>3 DEF Writer, Fill, SwapLock, SwapWait, SwapWake, SwapStopped,
                  SwapBegin, SetReady, NotifyReady
    <2>4. CASE ReadReturn
      BY <2>4 DEF ReadReturn
    <2>5. CASE Reader /\ ~Use /\ ~ReadReturn
      BY <2>5 DEF Reader, ReadLock, ReadWait, ReadWake, ReadStopped, FlushReady,
                  FlushSwap, NotifySwap
    <2>6. CASE SpuriousWake
      BY <2>6 DEF SpuriousWake
    <2>7. CASE WriterControl
      <3>1. UNCHANGED <<canSwap, rPc, content, readBuf, got>>
        BY <2>7, Zenon DEF WriterControl, StopWriter, StopWriterNotify, JoinWriter,
                    ClearWriteStop, StartWriter
      <3> QED
        BY <3>1
    <2>8. CASE ReaderControl
      <3>1. /\ UNCHANGED <<canSwap, content, readBuf, got>>
            /\ rPc' = rPc \/ (rPc = "stopped" /\ rPc' = "lockReady")
        BY <2>8, Zenon DEF ReaderControl, StopReader, StopReaderNotify, JoinReader,
                    ClearReadStop, StartReader
      <3> QED
        BY <3>1
    <2>9. CASE UNCHANGED vars
      BY <2>9 DEF vars
    <2> QED
      BY <2>1, <2>2, <2>3, <2>4, <2>5, <2>6, <2>7, <2>8, <2>9 DEF Next
  <1>3. Inv /\ Inv' /\ [Next]_vars => [H!Put \/ H!Get]_<<Slot, hgot>>
    BY <1>2
  <1> QED
    BY <1>1, <1>3, Invariance, PTL DEF Spec, ImplementsHandoff, H!HandoffSpec
=============================================================================
