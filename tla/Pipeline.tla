------------------------------- MODULE Pipeline -------------------------------
(***************************************************************************)
(* The threads of the modem joined by streams: the worker of the           *)
(* transmitter and the chain behind it, or the chain in front of the       *)
(* receiver's worker with its doubler; and the thread that starts and      *)
(* stops them.                                                             *)
(*                                                                         *)
(* A stream is what module Handoff says of it: "slot" is the buffer that   *)
(* was swapped in and not flushed.  What a block computes is left out: an  *)
(* item that goes in comes out.                                            *)
(***************************************************************************)
EXTENDS Naturals, FiniteSets, Sequences, SequencesExt

CONSTANTS
    Blocks, Streams,
    inputOf,        \* the stream a block reads, or NoStream
    outputsOf,      \* the streams it writes, in the order of its swaps
    FlushFirst,     \* blocks that flush before they swap (the others after)
    NoStream,
    MaxItems,       \* bound: items the source makes
    MaxStops        \* bound: calls of stop() on running blocks

Sinks == {b \in Blocks : outputsOf[b] = <<>>}
Sources == {b \in Blocks : inputOf[b] = NoStream}
Outputs(b) == ToSet(outputsOf[b])

\* A block reads s and writes t.
Feeds(s, t) == \E b \in Blocks : inputOf[b] = s /\ t \in Outputs(b)

\* The stream itself and those in front of it, up to the source.
Upstream == [s \in Streams |->
    {t \in Streams : \A U \in SUBSET Streams :
        s \in U /\ (\A u \in U, v \in Streams : Feeds(v, u) => v \in U) => t \in U}]

\* The streams between the source and block b.
PathTo(b) == IF b \in Sources THEN {} ELSE Upstream[inputOf[b]]

ASSUME TopologyAssumption ==
    /\ NoStream \notin Streams
    /\ inputOf \in [Blocks -> Streams \cup {NoStream}]
    /\ outputsOf \in [Blocks -> Seq(Streams)]
    /\ FlushFirst \subseteq Blocks
    /\ MaxItems \in Nat /\ MaxStops \in Nat

(***************************************************************************)
(* The modem's chains: one source, a stream has one reader and one writer, *)
(* none leads back to itself, and every sink is behind the source.         *)
(***************************************************************************)
ASSUME ChainAssumption ==
    /\ \A b, c \in Blocks : inputOf[b] = inputOf[c] => b = c
    /\ \A b, c \in Blocks : \A i \in DOMAIN outputsOf[b], j \in DOMAIN outputsOf[c] :
          outputsOf[b][i] = outputsOf[c][j] => b = c /\ i = j
    /\ \A s, t \in Streams : Feeds(s, t) => t \notin Upstream[s]
    /\ \A k \in Sinks : \E b \in Sources : Outputs(b) \cap PathTo(k) # {}

VARIABLES
    slot,                       \* per stream: the item swapped in, or 0
    readerStop, writerStop,     \* the streams whose stop flags are set
    running,                    \* the blocks whose running flag is set
    pc, held, nextOut,          \* per block: its thread, its item, its next swap
    control,                    \* the start() or stop() in progress
    produced, received, lost, stops     \* histories

streams == <<slot, readerStop, writerStop>>
threads == <<pc, held, nextOut>>
histories == <<produced, received, lost, stops>>
vars == <<streams, running, threads, control, histories>>

None == 0
Items == 1 .. MaxItems
Idle == [stage |-> "idle", block |-> None]
Stages == {"stopReader", "stopWriter", "join", "clear"}

TypeOK ==
    /\ slot \in [Streams -> Items \cup {None}]
    /\ readerStop \subseteq Streams /\ writerStop \subseteq Streams
    /\ running \subseteq Blocks
    /\ pc \in [Blocks -> {"down", "read", "flush", "swap", "leave", "exited"}]
    /\ held \in [Blocks -> Items \cup {None}]
    /\ nextOut \in [Blocks -> Nat]
    /\ \A b \in Blocks \ Sinks : nextOut[b] \in 1 .. Len(outputsOf[b])
    /\ control \in {Idle} \cup [stage : Stages, block : Blocks]
    /\ produced \in 0 .. MaxItems
    /\ received \in [Sinks -> Seq(Items)]
    /\ \A b \in Blocks \ running : pc[b] = "down"     \* one thread, and joined
    /\ lost \subseteq Items \X Streams
    /\ stops \in 0 .. MaxStops

Init ==
    /\ slot = [s \in Streams |-> None]
    /\ readerStop = {} /\ writerStop = {} /\ running = {}
    /\ pc = [b \in Blocks |-> "down"]
    /\ held = [b \in Blocks |-> None]
    /\ nextOut = [b \in Blocks |-> 1]
    /\ control = Idle
    /\ produced = 0 /\ received = [b \in Sinks |-> <<>>]
    /\ lost = {} /\ stops = 0

----------------------------------------------------------------------------
(* The worker of a block: run() until it returns -1. *)

Goto(b, label) == pc' = [pc EXCEPT ![b] = label]

\* A source has nothing to read: it makes an item of its own.
Produce(b) ==
    /\ pc[b] = "read" /\ b \in Sources
    /\ produced < MaxItems
    /\ produced' = produced + 1
    /\ held' = [held EXCEPT ![b] = produced + 1]
    /\ Goto(b, "swap")
    /\ UNCHANGED <<streams, running, nextOut, control, received, lost, stops>>

\* At the bound: the source is stopped before the item it would make.
Exhausted(b) ==
    /\ pc[b] = "read" /\ b \in Sources
    /\ produced = MaxItems
    /\ Outputs(b) \cap writerStop # {}
    /\ Goto(b, "exited")
    /\ UNCHANGED <<streams, running, held, nextOut, control, histories>>

Read(b) ==
    /\ pc[b] = "read" /\ b \notin Sources
    /\ inputOf[b] \notin readerStop
    /\ slot[inputOf[b]] # None
    /\ held' = [held EXCEPT ![b] = slot[inputOf[b]]]
    /\ received' = IF b \in Sinks
                   THEN [received EXCEPT ![b] = Append(@, slot[inputOf[b]])]
                   ELSE received
    /\ Goto(b, IF b \in FlushFirst \cup Sinks THEN "flush" ELSE "swap")
    /\ UNCHANGED <<streams, running, nextOut, control, produced, lost, stops>>

\* read() returns -1, also when an item is ready.
ReadStopped(b) ==
    /\ pc[b] = "read" /\ b \notin Sources
    /\ inputOf[b] \in readerStop
    /\ Goto(b, "exited")
    /\ UNCHANGED <<streams, running, held, nextOut, control, histories>>

\* Mutant: the flush is forgotten.
FlushForgotten(b) ==
    /\ pc[b] = "flush"
    /\ IF b \in FlushFirst \ Sinks
       THEN Goto(b, "swap") /\ UNCHANGED held
       ELSE Goto(b, "read") /\ held' = [held EXCEPT ![b] = None]
    /\ UNCHANGED <<streams, running, nextOut, control, histories>>

Flush(b) ==
    /\ pc[b] = "flush"
    /\ slot' = [slot EXCEPT ![inputOf[b]] = None]
    /\ IF b \in FlushFirst \ Sinks
       THEN Goto(b, "swap") /\ UNCHANGED held
       ELSE Goto(b, "read") /\ held' = [held EXCEPT ![b] = None]
    /\ UNCHANGED <<readerStop, writerStop, running, nextOut, control, histories>>

NextOutput(b) == outputsOf[b][nextOut[b]]

Swap(b) ==
    /\ pc[b] = "swap"
    /\ NextOutput(b) \notin writerStop
    /\ slot[NextOutput(b)] = None
    /\ slot' = [slot EXCEPT ![NextOutput(b)] = held[b]]
    /\ IF nextOut[b] < Len(outputsOf[b])
       THEN /\ nextOut' = [nextOut EXCEPT ![b] = @ + 1]
            /\ UNCHANGED <<pc, held>>
       ELSE /\ nextOut' = [nextOut EXCEPT ![b] = 1]
            /\ IF b \in FlushFirst \cup Sources
               THEN Goto(b, "read") /\ held' = [held EXCEPT ![b] = None]
               ELSE Goto(b, "flush") /\ UNCHANGED held
    /\ UNCHANGED <<readerStop, writerStop, running, control, histories>>

\* The outputs that a block has not given its item to yet.
Ungiven(b) == {outputsOf[b][i] : i \in nextOut[b] .. Len(outputsOf[b])}

\* Mutant: the return value of swap is ignored and the loop goes on.
SwapIgnored(b) ==
    /\ pc[b] = "swap"
    /\ NextOutput(b) \in writerStop
    /\ lost' = lost \cup ({held[b]} \X Ungiven(b))
    /\ nextOut' = [nextOut EXCEPT ![b] = 1]
    /\ held' = [held EXCEPT ![b] = None]
    /\ Goto(b, "read")
    /\ UNCHANGED <<streams, running, control, produced, received, stops>>

\* swap() returns false: the item in hand is lost and run() returns -1; a block
\* that has not flushed its input yet does so before.
SwapStopped(b) ==
    /\ pc[b] = "swap"
    /\ NextOutput(b) \in writerStop
    /\ lost' = lost \cup ({held[b]} \X Ungiven(b))
    /\ nextOut' = [nextOut EXCEPT ![b] = 1]
    /\ held' = [held EXCEPT ![b] = None]
    /\ Goto(b, IF b \in FlushFirst \cup Sources THEN "exited" ELSE "leave")
    /\ UNCHANGED <<streams, running, control, produced, received, stops>>

\* Mutant: a block whose swap failed leaves without a flush.
LeaveUnflushed(b) ==
    /\ pc[b] = "leave"
    /\ Goto(b, "exited")
    /\ UNCHANGED <<streams, running, held, nextOut, control, histories>>

Leave(b) ==
    /\ pc[b] = "leave"
    /\ slot' = [slot EXCEPT ![inputOf[b]] = None]
    /\ Goto(b, "exited")
    /\ UNCHANGED <<readerStop, writerStop, running, held, nextOut, control, histories>>

Worker(b) == \/ Produce(b) \/ Exhausted(b) \/ Read(b) \/ ReadStopped(b) \/ Flush(b)
             \/ Swap(b) \/ SwapStopped(b) \/ Leave(b)

----------------------------------------------------------------------------
(* The thread that calls start() and stop(). *)

Start(b) ==
    /\ control = Idle
    /\ b \notin running
    /\ running' = running \cup {b}
    /\ Goto(b, "read")
    /\ UNCHANGED <<streams, held, nextOut, control, histories>>

At(stage, b) == control = [stage |-> stage, block |-> b]
ThenTo(stage, b) == control' = [stage |-> stage, block |-> b]

CallStop(b) ==
    /\ control = Idle
    /\ b \in running
    /\ stops < MaxStops
    /\ stops' = stops + 1
    /\ ThenTo("stopReader", b)
    /\ UNCHANGED <<streams, running, threads, produced, received, lost>>

\* Mutant: stopping the reader throws away what is ready.
StopReaderDrops(b) ==
    /\ At("stopReader", b)
    /\ readerStop' = readerStop \cup ({inputOf[b]} \cap Streams)
    /\ slot' = [s \in Streams |-> IF s = inputOf[b] THEN None ELSE slot[s]]
    /\ ThenTo("stopWriter", b)
    /\ UNCHANGED <<writerStop, running, threads, histories>>

StopReader(b) ==
    /\ At("stopReader", b)
    /\ readerStop' = readerStop \cup ({inputOf[b]} \cap Streams)
    /\ ThenTo("stopWriter", b)
    /\ UNCHANGED <<slot, writerStop, running, threads, histories>>

\* Mutant: only the first output is stopped.
StopFirstWriter(b) ==
    /\ At("stopWriter", b)
    /\ writerStop' = writerStop \cup {outputsOf[b][i] : i \in 1 .. Min({1, Len(outputsOf[b])})}
    /\ ThenTo("join", b)
    /\ UNCHANGED <<slot, readerStop, running, threads, histories>>

StopWriter(b) ==
    /\ At("stopWriter", b)
    /\ writerStop' = writerStop \cup Outputs(b)
    /\ ThenTo("join", b)
    /\ UNCHANGED <<slot, readerStop, running, threads, histories>>

\* Mutant: the thread is not waited for.
JoinNot(b) ==
    /\ At("join", b)
    /\ ThenTo("clear", b)
    /\ UNCHANGED <<streams, running, threads, histories>>

Join(b) ==
    /\ At("join", b)
    /\ pc[b] = "exited"
    /\ Goto(b, "down")
    /\ ThenTo("clear", b)
    /\ UNCHANGED <<streams, running, held, nextOut, histories>>

\* Mutant: the stop flags of the outputs stay.
ClearReaderOnly(b) ==
    /\ At("clear", b)
    /\ readerStop' = readerStop \ {inputOf[b]}
    /\ running' = running \ {b}
    /\ control' = Idle
    /\ UNCHANGED <<slot, writerStop, threads, histories>>

Clear(b) ==
    /\ At("clear", b)
    /\ readerStop' = readerStop \ {inputOf[b]}
    /\ writerStop' = writerStop \ Outputs(b)
    /\ running' = running \ {b}
    /\ control' = Idle
    /\ UNCHANGED <<slot, threads, histories>>

Stop(b) == StopReader(b) \/ StopWriter(b) \/ Join(b) \/ Clear(b)

Next == \E b \in Blocks : Worker(b) \/ Start(b) \/ CallStop(b) \/ Stop(b)

Spec == Init /\ [][Next]_vars

(***************************************************************************)
(* Every worker runs (module Stream shows that nobody sleeps on a stream   *)
(* for good), and a stop() that was called goes on.  Nobody has to call    *)
(* start() or stop().                                                      *)
(***************************************************************************)
FairSpec ==
    /\ Spec
    /\ \A b \in Blocks : WF_vars(Worker(b)) /\ WF_vars(Stop(b))

----------------------------------------------------------------------------
(* Properties. *)

OnPath(b, k) == b = k \/ Outputs(b) \cap PathTo(k) # {}

(***************************************************************************)
(* Every sink gets items in the order the source made them and none twice, *)
(* whatever blocks are stopped and restarted (doubler.h:25-32: a doubler   *)
(* that gave up flushes, or it would hand out its item again).             *)
(***************************************************************************)
InOrder ==
    \A k \in Sinks : \A i, j \in 1 .. Len(received[k]) :
        i < j => received[k][i] < received[k][j]

(***************************************************************************)
(* An item is somewhere until each sink has it: in a stream, in the hand   *)
(* of a block, or given up by a block whose swap was stopped.  A stop of a *)
(* reader loses nothing (block.h:75-94, stream.h:75).                      *)
(***************************************************************************)
Accounted ==
    \A k \in Sinks : \A n \in 1 .. produced :
        \/ n \in ToSet(received[k])
        \/ \E s \in PathTo(k) : slot[s] = n \/ <<n, s>> \in lost
        \/ \E b \in Blocks : OnPath(b, k) /\ held[b] = n

(***************************************************************************)
(* One stop() of one block costs each sink at most one item.               *)
(***************************************************************************)
OneLossPerStop ==
    \A k \in Sinks :
        Cardinality({n \in Items : \E s \in PathTo(k) : <<n, s>> \in lost}) <= stops

(***************************************************************************)
(* stop() returns, whatever the neighbours of the block are doing and in   *)
(* whatever order blocks are stopped (block.h:75-94, transmitter.cpp:42-59, *)
(* receiver.cpp:52-70).                                                    *)
(***************************************************************************)
StopReturns == control # Idle ~> control = Idle

(***************************************************************************)
(* Once all blocks run for good, every item gets to every sink unless it   *)
(* was lost by a stop before: restarted blocks go on where they stopped,   *)
(* also a doubler between two outputs.                                     *)
(***************************************************************************)
AllRunning == running = Blocks /\ control = Idle

Flow ==
    <>[]AllRunning =>
        \A k \in Sinks : <>(/\ produced = MaxItems
                            /\ \A n \in Items : \/ n \in ToSet(received[k])
                                                \/ \E s \in PathTo(k) : <<n, s>> \in lost)
=============================================================================
