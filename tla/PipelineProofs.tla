---------------------------- MODULE PipelineProofs ----------------------------
(***************************************************************************)
(* The chain of blocks hands its items on in order and loses none except   *)
(* the one that a stopped block has in its hand: for every topology that   *)
(* ChainAssumption admits, and any number of items and stops.              *)
(***************************************************************************)
EXTENDS Pipeline, FiniteSetTheorems, TLAPS

(***************************************************************************)
(* stop() and start().                                                     *)
(***************************************************************************)
Control ==
    /\ control # Idle => control.block \in running
    /\ \A b \in Blocks : At("clear", b) => pc[b] = "down"
    /\ writerStop = {s \in Streams : \E b \in Blocks :
                        s \in Outputs(b) /\ (At("join", b) \/ At("clear", b))}

(***************************************************************************)
(* What a block has in its hand, and in the stream it reads.               *)
(***************************************************************************)

\* The item in the hand is still in the input stream.
Unflushed(b) ==
    \/ pc[b] \in {"flush", "leave"}
    \/ pc[b] = "swap" /\ b \notin FlushFirst \cup Sources

Hands ==
    \A b \in Blocks :
        /\ held[b] = None <=> pc[b] \in {"down", "read", "exited", "leave"}
        /\ pc[b] # "swap" => nextOut[b] = 1
        /\ b \in Sources => pc[b] \notin {"flush", "leave"} /\ held[b] \in {None, produced}
        /\ b \in Sinks => pc[b] \notin {"swap", "leave"}
        /\ b \in FlushFirst => pc[b] # "leave"
        /\ Unflushed(b) => slot[inputOf[b]] # None
        /\ Unflushed(b) /\ pc[b] # "leave" => held[b] = slot[inputOf[b]]

\* The current item of b was given to its output u, or lost on the way there.
Given(b, u) ==
    \/ pc[b] = "swap" /\ u \notin Ungiven(b)
    \/ pc[b] = "flush" /\ b \notin FlushFirst
    \/ pc[b] = "leave"

(***************************************************************************)
(* Order: what is behind a stream went into it before what comes next.     *)
(***************************************************************************)

\* The blocks that stream u leads to.
Fed(u) == {b \in Blocks \ Sources : u \in PathTo(b)}

\* The items that went into stream u and did not get lost.
Past(u) ==
    {slot[t] : t \in {s \in Streams : u \in Upstream[s]}}
        \cup {held[b] : b \in Fed(u)}
        \cup UNION {ToSet(received[k]) : k \in Fed(u) \cap Sinks}

Rising ==
    /\ \A u \in Streams : Past(u) \subseteq 0 .. produced
    /\ \A b \in Blocks : \A u \in Outputs(b) : held[b] # None /\ ~Given(b, u) =>
          \A x \in Past(u) : x < held[b]
    /\ \A b \in Blocks \ Sources : slot[inputOf[b]] # None =>
          /\ ~Unflushed(b) => held[b] < slot[inputOf[b]]
          /\ \A u \in Outputs(b) : \A x \in Past(u) :
                x < slot[inputOf[b]] \/ (x = slot[inputOf[b]] /\ Unflushed(b) /\ Given(b, u))
    /\ \A k \in Sinks : slot[inputOf[k]] # None => \A x \in ToSet(received[k]) :
          x < slot[inputOf[k]] \/ (x = slot[inputOf[k]] /\ pc[k] = "flush")

(***************************************************************************)
(* Accounts: what a block gave to an output is still somewhere behind it.  *)
(***************************************************************************)

\* Item n is behind stream u on the way to sink k, or was lost there.
Somewhere(n, u, k) ==
    \/ n \in ToSet(received[k])
    \/ \E t \in PathTo(k) : u \in Upstream[t] /\
          (slot[t] = n \/ <<n, t>> \in lost \/ \E b \in Blocks : inputOf[b] = t /\ held[b] = n)

\* The item that block b is about to be done with.
Turn(b) == IF pc[b] = "leave" THEN slot[inputOf[b]] ELSE held[b]

Accounts ==
    /\ \A k \in Sinks : \A b \in Blocks : \A u \in Outputs(b) \cap PathTo(k) :
          Given(b, u) => Somewhere(Turn(b), u, k)
    /\ \A k \in Sinks : pc[k] = "flush" => held[k] \in ToSet(received[k])
    /\ \A k \in Sinks : \A b \in Sources : \A u \in Outputs(b) \cap PathTo(k) :
          \A n \in 1 .. produced :
              Somewhere(n, u, k) \/ (held[b] = n /\ ~Given(b, u))

(***************************************************************************)
(* Losses: a stop that may still cost an item has not cost one yet.        *)
(***************************************************************************)
Lost(k) == {n \in Items : \E s \in PathTo(k) : <<n, s>> \in lost}

\* The block that is being stopped has not left its loop.
Stopping == control # Idle /\ pc[control.block] \notin {"leave", "exited", "down"}

Budget ==
    \A k \in Sinks : Cardinality(Lost(k)) + (IF Stopping THEN 1 ELSE 0) <= stops

PipeInv == /\ TypeOK /\ Control /\ Hands /\ Rising /\ InOrder
           /\ Accounts /\ Budget

----------------------------------------------------------------------------
(* The topology. *)

\* Readers and writers are unique, and a sink is not a source.
LEMMA Wiring ==
    /\ \A b \in Blocks : Outputs(b) \subseteq Streams
    /\ \A b \in Blocks \ Sources : inputOf[b] \in Streams
    /\ \A b, c \in Blocks : inputOf[b] = inputOf[c] => b = c
    /\ \A b, c \in Blocks : \A u \in Outputs(b) : u \in Outputs(c) => b = c
    /\ \A k \in Sinks : k \in Blocks /\ k \notin Sources /\ Outputs(k) = {}
    /\ Sources \subseteq Blocks
<1>1. \A b \in Blocks : outputsOf[b] \in Seq(Streams) /\ inputOf[b] \in Streams \cup {NoStream}
  BY TopologyAssumption
<1>2. \A b \in Blocks : Outputs(b) \subseteq Streams
  BY <1>1 DEF Outputs, ToSet
<1>3. \A b \in Blocks \ Sources : inputOf[b] \in Streams
  BY <1>1 DEF Sources
<1>4. \A b, c \in Blocks : \A u \in Outputs(b) : u \in Outputs(c) => b = c
  BY ChainAssumption DEF Outputs, ToSet
<1>5. \A k \in Sinks : k \in Blocks /\ k \notin Sources /\ Outputs(k) = {}
  BY ChainAssumption DEF Sinks, PathTo, Outputs, ToSet
<1> QED  BY <1>2, <1>3, <1>4, <1>5, ChainAssumption DEF Sources

\* A stream is among those in front of it.
LEMMA UpSelf ==
    ASSUME NEW s \in Streams
    PROVE  s \in Upstream[s] /\ Upstream[s] \subseteq Streams
  BY DEF Upstream

\* What feeds a stream in front of u is in front of u.
LEMMA UpClosed ==
    ASSUME NEW s \in Streams, NEW u \in Upstream[s], NEW v \in Streams, Feeds(v, u)
    PROVE  v \in Upstream[s]
  BY DEF Upstream

\* No set smaller than Upstream has these two properties.
LEMMA UpLeast ==
    ASSUME NEW s \in Streams, NEW U \in SUBSET Streams, s \in U,
           \A u \in U, v \in Streams : Feeds(v, u) => v \in U
    PROVE  Upstream[s] \subseteq U
  BY DEF Upstream

\* In front of a stream in front of u is in front of u.
LEMMA UpTransitive ==
    ASSUME NEW s \in Streams, NEW t \in Upstream[s]
    PROVE  Upstream[t] \subseteq Upstream[s]
<1>1. t \in Streams /\ Upstream[s] \subseteq Streams
  BY UpSelf
<1> QED  BY <1>1, UpLeast, UpClosed

\* In front of a block's output are the output and what is in front of the block.
LEMMA UpStep ==
    ASSUME NEW b \in Blocks, NEW u \in Outputs(b)
    PROVE  Upstream[u] = {u} \cup PathTo(b)
<1>1. /\ u \in Streams /\ u \in Upstream[u] /\ Upstream[u] \subseteq Streams
      /\ \A v \in Streams : Feeds(v, u) => v = inputOf[b] /\ b \notin Sources
  BY Wiring, UpSelf, TopologyAssumption DEF Feeds, Sources
<1>2. CASE b \in Sources
  <2> DEFINE U == {u}
  <2>1. U \in SUBSET Streams /\ u \in U /\ \A x \in U, v \in Streams : Feeds(v, x) => v \in U
    BY <1>1, <1>2
  <2>2. Upstream[u] \subseteq U
    <3> HIDE DEF U
    <3> QED  BY <1>1, <2>1, UpLeast
  <2> QED  BY <1>1, <1>2, <2>2 DEF PathTo
<1>3. CASE b \notin Sources
  <2> DEFINE s == inputOf[b]
  <2>1. s \in Streams /\ Feeds(s, u) /\ PathTo(b) = Upstream[s]
    BY <1>3, Wiring DEF Feeds, PathTo
  <2>2. Upstream[s] \subseteq Upstream[u]
    BY <1>1, <2>1, UpClosed, UpTransitive
  <2>3. Upstream[u] \subseteq {u} \cup Upstream[s]
    <3>1. s \in Upstream[s] /\ Upstream[s] \subseteq Streams
      BY <2>1, UpSelf
    <3> DEFINE U == {u} \cup Upstream[s]
    <3>2. U \in SUBSET Streams /\ u \in U
      BY <1>1, <3>1
    <3>3. \A x \in U, v \in Streams : Feeds(v, x) => v \in U
      BY <1>1, <2>1, <3>1, UpClosed
    <3> HIDE DEF U
    <3>4. Upstream[u] \subseteq U
      BY <1>1, <3>2, <3>3, UpLeast
    <3> QED  BY <3>4 DEF U
  <2> QED  BY <1>1, <2>1, <2>2, <2>3
<1> QED  BY <1>2, <1>3

\* No block is behind its own output.
LEMMA NoLoop ==
    ASSUME NEW b \in Blocks, NEW u \in Outputs(b)
    PROVE  u \notin PathTo(b)
<1>1. b \notin Sources => Feeds(inputOf[b], u) /\ inputOf[b] \in Streams /\ u \in Streams
  BY Wiring DEF Feeds
<1> QED  BY <1>1, ChainAssumption DEF PathTo

\* A block that reads a stream on the way to a sink is the sink, or writes the next.
LEMMA NextOnPath ==
    ASSUME NEW k \in Blocks, NEW b \in Blocks, inputOf[b] \in PathTo(k), b # k
    PROVE  \E u \in Outputs(b) : u \in PathTo(k)
<1> DEFINE s == inputOf[k]
           t == inputOf[b]
           U == {x \in Upstream[s] : x = s \/ \E u \in Upstream[s] : Feeds(x, u)}
<1>1. k \notin Sources /\ s \in Streams /\ PathTo(k) = Upstream[s]
  BY Wiring DEF PathTo
<1>2. s \in Upstream[s] /\ Upstream[s] \subseteq Streams
  BY <1>1, UpSelf
<1>3. \A u \in U, v \in Streams : Feeds(v, u) => v \in U
  BY <1>1, UpClosed
<1>4. Upstream[s] \subseteq U
  BY <1>1, <1>2, <1>3, UpLeast
<1>5. t \in U /\ t # s
  BY <1>1, <1>4, Wiring
<1> QED  BY <1>1, <1>5, Wiring DEF Feeds

\* What is in front of a stream on the way to a block is on that way too.
LEMMA OnTheWay ==
    ASSUME NEW k \in Blocks, NEW t \in PathTo(k)
    PROVE  t \in Streams /\ t \in Upstream[t] /\ Upstream[t] \subseteq PathTo(k)
<1>1. PathTo(k) = Upstream[inputOf[k]] /\ inputOf[k] \in Streams
  BY Wiring DEF PathTo
<1> QED  BY <1>1, UpSelf, UpTransitive

----------------------------------------------------------------------------
(* Types. *)

\* 0 is not an item.
LEMMA NotAnItem == None \notin Items /\ Items \subseteq Nat \ {0} /\ MaxItems \in Nat
  BY TopologyAssumption DEF None, Items

\* The outputs that are still to be served.
LEMMA UngivenOutputs ==
    ASSUME TypeOK, Hands, NEW b \in Blocks
    PROVE  /\ pc[b] = "swap" => /\ b \notin Sinks
                                /\ nextOut[b] \in 1 .. Len(outputsOf[b])
                                /\ NextOutput(b) \in Outputs(b) /\ NextOutput(b) \in Streams
                                /\ NextOutput(b) \in Ungiven(b)
           /\ nextOut[b] = 1 => Ungiven(b) = Outputs(b)
           /\ Ungiven(b) \subseteq Outputs(b)
<1>1. outputsOf[b] \in Seq(Streams) /\ nextOut[b] \in Nat
  BY TopologyAssumption DEF TypeOK
<1>2. pc[b] = "swap" => b \notin Sinks /\ nextOut[b] \in 1 .. Len(outputsOf[b])
  BY DEF TypeOK, Hands
<1>3. Len(outputsOf[b]) \in Nat /\ Outputs(b) = {outputsOf[b][i] : i \in 1 .. Len(outputsOf[b])}
  BY <1>1 DEF Outputs, ToSet
<1>4. nextOut[b] \notin {0} => Ungiven(b) \subseteq Outputs(b)
  BY <1>1, <1>3 DEF Ungiven
<1>5. nextOut[b] # 0
  <2>1. CASE b \in Sinks
    BY <2>1 DEF Hands
  <2>2. CASE b \notin Sinks
    BY <2>2 DEF TypeOK
  <2> QED  BY <2>1, <2>2
<1> QED  BY <1>1, <1>2, <1>3, <1>4, <1>5, Wiring DEF Ungiven, NextOutput

\* A step of a worker keeps the types.
LEMMA WorkerTypes ==
    ASSUME TypeOK, Hands, NEW b \in Blocks, Worker(b)
    PROVE  TypeOK'
<1>1. /\ slot \in [Streams -> Items \cup {None}] /\ held \in [Blocks -> Items \cup {None}]
      /\ pc \in [Blocks -> {"down", "read", "flush", "swap", "leave", "exited"}]
      /\ nextOut \in [Blocks -> Nat] /\ received \in [Sinks -> Seq(Items)]
      /\ \A c \in Blocks \ Sinks : nextOut[c] \in 1 .. Len(outputsOf[c])
      /\ lost \subseteq Items \X Streams /\ produced \in 0 .. MaxItems
      /\ \A c \in Blocks \ running : pc[c] = "down"
  BY DEF TypeOK
<1>2. b \in running /\ b \notin Blocks \ running
  BY <1>1 DEF Worker, Produce, Exhausted, Read, ReadStopped, Flush, Swap, SwapStopped, Leave
<1>3. UNCHANGED <<readerStop, writerStop, running, control, stops>>
  BY DEF Worker, Produce, Exhausted, Read, ReadStopped, Flush, Swap, SwapStopped, Leave,
         streams, histories
<1>4. SUFFICES /\ slot' \in [Streams -> Items \cup {None}] /\ held' \in [Blocks -> Items \cup {None}]
               /\ pc' \in [Blocks -> {"down", "read", "flush", "swap", "leave", "exited"}]
               /\ nextOut' \in [Blocks -> Nat] /\ received' \in [Sinks -> Seq(Items)]
               /\ \A c \in Blocks \ Sinks : nextOut'[c] \in 1 .. Len(outputsOf[c])
               /\ lost' \subseteq Items \X Streams /\ produced' \in 0 .. MaxItems
               /\ \A c \in Blocks \ running : pc'[c] = pc[c]
  BY <1>1, <1>3 DEF TypeOK
<1>5. CASE Produce(b)
  BY <1>1, <1>2, <1>5, NotAnItem DEF Produce, Goto, streams, Items
<1>6. CASE Exhausted(b) \/ ReadStopped(b)
  BY <1>1, <1>2, <1>6 DEF Exhausted, ReadStopped, Goto, streams, histories
<1>7. CASE Read(b)
  <2>1. inputOf[b] \in Streams /\ slot[inputOf[b]] \in Items
    BY <1>1, <1>7, Wiring DEF Read
  <2>2. received' \in [Sinks -> Seq(Items)]
    <3>1. b \in Sinks => Append(received[b], slot[inputOf[b]]) \in Seq(Items)
      BY <1>1, <2>1
    <3> QED  BY <1>1, <1>7, <3>1 DEF Read
  <2> QED  BY <1>1, <1>2, <1>7, <2>1, <2>2 DEF Read, Goto, streams
<1>8. CASE Flush(b)
  BY <1>1, <1>2, <1>8 DEF Flush, Goto, histories
<1>9. CASE Leave(b)
  BY <1>1, <1>2, <1>9 DEF Leave, Goto, histories
<1>10. CASE Swap(b)
  <2>1. nextOut[b] \in 1 .. Len(outputsOf[b]) /\ NextOutput(b) \in Streams /\ b \notin Sinks
    BY <1>10, UngivenOutputs DEF Swap
  <2>2. 1 \in 1 .. Len(outputsOf[b]) /\ Len(outputsOf[b]) \in Nat
    BY <2>1, TopologyAssumption
  <2>3. slot' \in [Streams -> Items \cup {None}] /\ held' \in [Blocks -> Items \cup {None}]
    BY <1>1, <1>10 DEF Swap, Goto
  <2>4. PICK n \in Nat : n \in 1 .. Len(outputsOf[b]) /\ nextOut' = [nextOut EXCEPT ![b] = n]
    <3>1. CASE nextOut[b] < Len(outputsOf[b])
      <4>1. nextOut[b] + 1 \in Nat /\ nextOut[b] + 1 \in 1 .. Len(outputsOf[b])
        BY <2>1, <2>2, <3>1
      <4> QED  BY <1>10, <3>1, <4>1 DEF Swap
    <3>2. CASE ~(nextOut[b] < Len(outputsOf[b]))
      BY <1>10, <2>2, <3>2 DEF Swap
    <3> QED  BY <3>1, <3>2
  <2>5. /\ nextOut' \in [Blocks -> Nat]
        /\ \A c \in Blocks \ Sinks : nextOut'[c] \in 1 .. Len(outputsOf[c])
    <3>1. nextOut'[b] = n /\ \A c \in Blocks : c # b => nextOut'[c] = nextOut[c]
      BY <1>1, <2>4
    <3> QED  BY <1>1, <2>4, <3>1
  <2> QED  BY ZenonT(30), <1>1, <1>2, <1>10, <2>3, <2>5 DEF Swap, Goto, histories
<1>11. CASE SwapStopped(b)
  <2>1. b \notin Sinks /\ Ungiven(b) \subseteq Streams /\ 1 \in 1 .. Len(outputsOf[b])
    BY <1>11, UngivenOutputs, Wiring, TopologyAssumption DEF SwapStopped
  <2>2. held[b] \in Items
    BY <1>1, <1>11 DEF SwapStopped, Hands
  <2>3. lost' \subseteq Items \X Streams
    BY <1>1, <1>11, <2>1, <2>2 DEF SwapStopped
  <2> QED  BY <1>1, <1>2, <1>11, <2>1, <2>3 DEF SwapStopped, Goto, streams
<1> QED  BY <1>5, <1>6, <1>7, <1>8, <1>9, <1>10, <1>11 DEF Worker

ControlStep(b) == Start(b) \/ CallStop(b) \/ Stop(b)

\* A step of start() or stop() keeps the types.
LEMMA ControlTypes ==
    ASSUME TypeOK, Control, Hands, NEW b \in Blocks, ControlStep(b)
    PROVE  TypeOK'
<1>1. /\ pc \in [Blocks -> {"down", "read", "flush", "swap", "leave", "exited"}]
      /\ running \subseteq Blocks /\ readerStop \subseteq Streams /\ writerStop \subseteq Streams
      /\ stops \in 0 .. MaxStops /\ \A c \in Blocks \ running : pc[c] = "down"
      /\ control \in {Idle} \cup [stage : Stages, block : Blocks]
  BY DEF TypeOK
<1>2. UNCHANGED <<slot, held, nextOut, produced, received, lost>>
  BY DEF ControlStep, Start, CallStop, Stop, StopReader, StopWriter, Join, Clear, streams,
         threads, histories
<1>3. SUFFICES /\ pc' \in [Blocks -> {"down", "read", "flush", "swap", "leave", "exited"}]
               /\ running' \subseteq Blocks /\ readerStop' \subseteq Streams
               /\ writerStop' \subseteq Streams /\ stops' \in 0 .. MaxStops
               /\ \A c \in Blocks \ running' : pc'[c] = "down"
               /\ control' \in {Idle} \cup [stage : Stages, block : Blocks]
  BY <1>2 DEF TypeOK
<1>4. CASE Start(b)
  BY <1>1, <1>4 DEF Start, Goto, streams, histories
<1>5. CASE CallStop(b)
  BY <1>1, <1>5, TopologyAssumption DEF CallStop, ThenTo, Stages, streams, threads
<1>6. CASE StopReader(b)
  BY <1>1, <1>6 DEF StopReader, ThenTo, Stages, threads, histories
<1>7. CASE StopWriter(b)
  BY <1>1, <1>7, Wiring DEF StopWriter, ThenTo, Stages, threads, histories
<1>8. CASE Join(b)
  BY <1>1, <1>8 DEF Join, Goto, ThenTo, Stages, streams, histories
<1>9. CASE Clear(b)
  <2>1. pc[b] = "down"
    BY <1>9 DEF Clear, Control
  <2> QED  BY <1>1, <1>9, <2>1 DEF Clear, threads, histories
<1> QED  BY <1>4, <1>5, <1>6, <1>7, <1>8, <1>9 DEF ControlStep, Stop

\* A worker is neither down nor does it touch the stop.
LEMMA WorkerControl ==
    ASSUME TypeOK, Control, NEW b \in Blocks, Worker(b)
    PROVE  Control'
<1>1. /\ UNCHANGED <<writerStop, running, control>> /\ pc[b] # "down"
      /\ \A c \in Blocks : c # b => pc'[c] = pc[c]
  BY DEF TypeOK, Worker, Produce, Exhausted, Read, ReadStopped, Flush, Swap, SwapStopped,
         Leave, Goto, streams
<1>2. \A c \in Blocks : At("clear", c) => c # b
  BY <1>1 DEF Control
<1> QED  BY <1>1, <1>2 DEF Control, At

\* A step of start() or stop() keeps the flags where it is.
LEMMA ControlControl ==
    ASSUME TypeOK, Control, NEW b \in Blocks, ControlStep(b)
    PROVE  Control'
<1>1. pc \in [Blocks -> {"down", "read", "flush", "swap", "leave", "exited"}]
  BY DEF TypeOK
<1>2. \A x, y, c, d : [stage |-> x, block |-> c] = [stage |-> y, block |-> d] <=> x = y /\ c = d
  OBVIOUS
<1>3. \A x, c : x # "idle" => [stage |-> x, block |-> c] # Idle
  BY DEF Idle
<1>4. CASE Start(b)
  BY <1>3, <1>4 DEF Control, Start, Goto, At, streams
<1>5. CASE CallStop(b) \/ StopReader(b)
  <2> DEFINE Cut(c) == At("join", c) \/ At("clear", c)
  <2>1. /\ \A c \in Blocks : ~Cut(c)
        /\ UNCHANGED <<writerStop, running, pc>> /\ b \in running
    BY <1>2, <1>3, <1>5 DEF Control, CallStop, StopReader, At, streams, threads
  <2>2. \/ control' = [stage |-> "stopReader", block |-> b]
        \/ control' = [stage |-> "stopWriter", block |-> b]
    BY <1>5 DEF CallStop, StopReader, ThenTo
  <2>3. control'.block = b /\ \A c \in Blocks : ~Cut(c)'
    BY <1>2, <2>2 DEF At
  <2>4. writerStop = {} /\ writerStop' = {}
    BY <2>1 DEF Control
  <2>5. \A c \in Blocks : ~At("clear", c)'
    BY <2>3
  <2> QED  BY <2>1, <2>3, <2>4, <2>5 DEF Control
<1>6. CASE StopWriter(b)
  <2>1. writerStop = {}
    BY <1>2, <1>6 DEF Control, StopWriter, At
  <2>2. writerStop' = Outputs(b) /\ Outputs(b) \subseteq Streams
    BY <1>6, <2>1, Wiring DEF StopWriter
  <2> QED  BY <1>2, <1>3, <1>6, <2>2 DEF Control, StopWriter, ThenTo, At, threads
<1>7. CASE Join(b)
  <2>1. /\ \A c \in Blocks : At("join", c) <=> c = b
        /\ \A c \in Blocks : ~At("clear", c)
        /\ control # Idle /\ control.block = b
    BY <1>2, <1>3, <1>7 DEF Join, At
  <2>2. b \in running /\ writerStop = Outputs(b) \cap Streams
    BY <2>1 DEF Control
  <2>3. /\ \A c \in Blocks : At("clear", c)' <=> c = b
        /\ \A c \in Blocks : ~At("join", c)'
        /\ control'.block = b
    BY <1>2, <1>7 DEF Join, ThenTo, At
  <2>4. pc'[b] = "down" /\ UNCHANGED <<writerStop, running>>
    BY <1>1, <1>7 DEF Join, Goto, streams
  <2> QED  BY <2>2, <2>3, <2>4 DEF Control
<1>8. CASE Clear(b)
  <2>1. writerStop = Outputs(b)
    BY <1>2, <1>8, Wiring DEF Control, Clear, At
  <2> QED  BY <1>3, <1>8, <2>1 DEF Control, Clear, At, threads
<1> QED  BY <1>4, <1>5, <1>6, <1>7, <1>8 DEF ControlStep, Stop

----------------------------------------------------------------------------
(* Hands. *)

\* The step of one worker leaves the others as they are, with what they read.
LEMMA Others ==
    ASSUME TypeOK, Hands, NEW b \in Blocks, Worker(b), NEW c \in Blocks, c # b
    PROVE  /\ pc'[c] = pc[c] /\ held'[c] = held[c] /\ nextOut'[c] = nextOut[c]
           /\ Unflushed(c)' = Unflushed(c) /\ \A u : Given(c, u)' = Given(c, u)
           /\ Unflushed(c) => slot'[inputOf[c]] = slot[inputOf[c]]
           /\ Unflushed(c) => c \notin Sources
<1>1. /\ slot \in [Streams -> Items \cup {None}] /\ held \in [Blocks -> Items \cup {None}]
      /\ pc \in [Blocks -> {"down", "read", "flush", "swap", "leave", "exited"}]
      /\ nextOut \in [Blocks -> Nat]
  BY DEF TypeOK
<1>2. pc'[c] = pc[c] /\ held'[c] = held[c] /\ nextOut'[c] = nextOut[c]
  BY <1>1 DEF Worker, Produce, Exhausted, Read, ReadStopped, Flush, Swap, SwapStopped, Leave,
              Goto
<1>3. Unflushed(c)' = Unflushed(c) /\ \A u : Given(c, u)' = Given(c, u)
  BY <1>2 DEF Unflushed, Given, Ungiven
<1>4. ASSUME Unflushed(c)
      PROVE  slot'[inputOf[c]] = slot[inputOf[c]] /\ c \notin Sources
  <2>1. c \notin Sources /\ inputOf[c] \in Streams /\ slot[inputOf[c]] # None
    BY <1>4, Wiring DEF Hands, Unflushed
  <2>2. inputOf[c] # inputOf[b]
    BY Wiring
  <2>3. CASE Swap(b)
    <3>1. slot[NextOutput(b)] = None /\ slot' = [slot EXCEPT ![NextOutput(b)] = held[b]]
      BY <2>3 DEF Swap
    <3> QED  BY <1>1, <2>1, <3>1
  <2>4. CASE Flush(b) \/ Leave(b)
    <3>1. slot' = [slot EXCEPT ![inputOf[b]] = None]
      BY <2>4 DEF Flush, Leave
    <3> QED  BY <1>1, <2>1, <2>2, <3>1
  <2>5. CASE ~(Swap(b) \/ Flush(b) \/ Leave(b))
    <3>1. slot' = slot
      BY <2>5 DEF Worker, Produce, Exhausted, Read, ReadStopped, SwapStopped, streams
    <3> QED  BY <2>1, <3>1
  <2> QED  BY <2>1, <2>3, <2>4, <2>5
<1> QED  BY <1>2, <1>3, <1>4

\* A step of a worker keeps what the hands hold.
LEMMA WorkerHands ==
    ASSUME TypeOK, Hands, NEW b \in Blocks, Worker(b)
    PROVE  Hands'
<1> DEFINE OK(c) ==
        /\ held[c] = None <=> pc[c] \in {"down", "read", "exited", "leave"}
        /\ pc[c] # "swap" => nextOut[c] = 1
        /\ c \in Sources => pc[c] \notin {"flush", "leave"} /\ held[c] \in {None, produced}
        /\ c \in Sinks => pc[c] \notin {"swap", "leave"}
        /\ c \in FlushFirst => pc[c] # "leave"
        /\ Unflushed(c) => slot[inputOf[c]] # None
        /\ Unflushed(c) /\ pc[c] # "leave" => held[c] = slot[inputOf[c]]
<1>1. /\ slot \in [Streams -> Items \cup {None}] /\ held \in [Blocks -> Items \cup {None}]
      /\ pc \in [Blocks -> {"down", "read", "flush", "swap", "leave", "exited"}]
      /\ nextOut \in [Blocks -> Nat] /\ produced \in Nat
  BY TopologyAssumption DEF TypeOK
<1>2. \A c \in Blocks : OK(c)
  BY DEF Hands
<1>3. SUFFICES \A c \in Blocks : OK(c)'
  BY DEF Hands
<1>4. ASSUME NEW c \in Blocks, c # b
      PROVE  OK(c)'
  <2>1. /\ pc'[c] = pc[c] /\ held'[c] = held[c] /\ nextOut'[c] = nextOut[c]
        /\ Unflushed(c)' = Unflushed(c)
        /\ Unflushed(c) => slot'[inputOf[c]] = slot[inputOf[c]]
    BY <1>4, Others
  <2>2. c \in Sources => produced' = produced
    <3>1. c \in Sources => b \notin Sources
      BY <1>4, Wiring DEF Sources
    <3> QED  BY <3>1 DEF Worker, Produce, Exhausted, Read, ReadStopped, Flush, Swap,
                         SwapStopped, Leave, histories
  <2> QED  BY <1>2, <2>1, <2>2
<1>5. OK(b)'
  <2>1. b \notin Sources => inputOf[b] \in Streams
    BY Wiring
  <2>2. b \in Sinks => b \notin Sources
    BY Wiring
  <2>3. CASE Produce(b)
    BY <1>1, <1>2, <2>2, <2>3 DEF Produce, Goto, Unflushed, None, streams
  <2>4. CASE Exhausted(b) \/ ReadStopped(b)
    BY <1>1, <1>2, <2>4 DEF Exhausted, ReadStopped, Goto, Unflushed, streams, histories
  <2>5. CASE Read(b)
    BY <1>1, <1>2, <2>1, <2>5 DEF Read, Goto, Unflushed, streams
  <2>6. CASE Flush(b)
    BY <1>1, <1>2, <2>1, <2>2, <2>6 DEF Flush, Goto, Unflushed, histories
  <2>7. CASE Leave(b)
    BY <1>1, <1>2, <2>7 DEF Leave, Goto, Unflushed, histories
  <2>8. CASE SwapStopped(b)
    BY <1>1, <1>2, <2>8 DEF SwapStopped, Goto, Unflushed, streams
  <2>9. CASE Swap(b)
    <3> DEFINE u == NextOutput(b)
    <3>1. u \in Outputs(b) /\ slot[u] = None /\ slot' = [slot EXCEPT ![u] = held[b]]
      BY <2>9, UngivenOutputs DEF Swap
    <3>2. Unflushed(b) => slot'[inputOf[b]] = slot[inputOf[b]]
      BY <1>1, <1>2, <3>1
    <3>3. UNCHANGED produced /\ pc[b] = "swap"
      BY <2>9 DEF Swap, histories
    <3> HIDE DEF u
    <3>4. CASE UNCHANGED <<pc, held>>
      BY <1>1, <1>2, <3>2, <3>3, <3>4 DEF Unflushed
    <3>5. CASE /\ b \in FlushFirst \cup Sources /\ Goto(b, "read") /\ nextOut' = [nextOut EXCEPT ![b] = 1]
               /\ held' = [held EXCEPT ![b] = None]
      BY <1>1, <1>2, <3>2, <3>3, <3>5 DEF Goto, Unflushed
    <3>6. CASE /\ b \notin FlushFirst \cup Sources /\ Goto(b, "flush") /\ UNCHANGED held
               /\ nextOut' = [nextOut EXCEPT ![b] = 1]
      BY <1>1, <1>2, <3>2, <3>3, <3>6 DEF Goto, Unflushed
    <3> QED  BY <2>9, <3>4, <3>5, <3>6 DEF Swap
  <2> QED  BY <2>3, <2>4, <2>5, <2>6, <2>7, <2>8, <2>9 DEF Worker
<1> QED  BY <1>4, <1>5

\* Starting and stopping only moves a block between the states in which it
\* holds nothing.
Calm ==
    /\ UNCHANGED <<slot, held, nextOut, produced, received, lost>>
    /\ \A c \in Blocks : pc'[c] = pc[c] \/ {pc[c], pc'[c]} \subseteq {"down", "read", "exited"}

\* start() and stop() touch no items.
LEMMA ControlCalm ==
    ASSUME TypeOK, NEW b \in Blocks, ControlStep(b) \/ Exhausted(b) \/ ReadStopped(b)
    PROVE  Calm
<1>1. /\ pc \in [Blocks -> {"down", "read", "flush", "swap", "leave", "exited"}]
      /\ \A c \in Blocks \ running : pc[c] = "down"
  BY DEF TypeOK
<1>2. CASE ControlStep(b)
  BY <1>1, <1>2 DEF Calm, ControlStep, Start, CallStop, Stop, StopReader, StopWriter, Join, Clear,
     Goto, streams, threads, histories
<1>3. CASE Exhausted(b) \/ ReadStopped(b)
  BY <1>1, <1>3 DEF Calm, Exhausted, ReadStopped, Goto, streams, histories
<1> QED  BY <1>2, <1>3

\* A step that touches no items leaves each block where it is with its item.
LEMMA CalmFacts ==
    ASSUME Calm, NEW c \in Blocks
    PROVE  /\ Unflushed(c)' = Unflushed(c) /\ \A u : Given(c, u)' = Given(c, u)
           /\ pc'[c] \in {"flush", "leave", "swap"} <=> pc[c] \in {"flush", "leave", "swap"}
           /\ pc[c] \in {"flush", "leave", "swap"} => pc'[c] = pc[c]
  BY DEF Calm, Unflushed, Given, Ungiven

\* It keeps what the hands hold.
LEMMA CalmHands == Hands /\ Calm => Hands'
<1> SUFFICES ASSUME Hands, Calm PROVE Hands'
  OBVIOUS
<1>1. \A c \in Blocks : /\ Unflushed(c)' = Unflushed(c)
                        /\ pc'[c] = pc[c] \/ {pc[c], pc'[c]} \subseteq {"down", "read", "exited"}
  BY CalmFacts DEF Calm
<1> QED  BY <1>1 DEF Hands, Calm

----------------------------------------------------------------------------
(* Order. *)

\* A swap gives the item to one output, the last one ends the turn.
SwapEnds(b) ==
    /\ \A u \in Outputs(b) : u = NextOutput(b) \/ Given(b, u)
    /\ IF b \in FlushFirst \cup Sources
       THEN pc' = [pc EXCEPT ![b] = "read"] /\ held' = [held EXCEPT ![b] = None]
       ELSE pc' = [pc EXCEPT ![b] = "flush"] /\ held' = held

SwapGoesOn(b) ==
    /\ pc' = pc /\ held' = held
    /\ \A u \in Outputs(b) : Given(b, u)' <=> Given(b, u) \/ u = NextOutput(b)

\* A swap puts the item in the hand into the output, and goes on to the next.
LEMMA SwapEffect ==
    ASSUME TypeOK, Hands, NEW b \in Blocks, Swap(b)
    PROVE  /\ NextOutput(b) \in Outputs(b) /\ NextOutput(b) \in Streams
           /\ pc[b] = "swap" /\ ~Given(b, NextOutput(b))
           /\ slot[NextOutput(b)] = None /\ slot' = [slot EXCEPT ![NextOutput(b)] = held[b]]
           /\ held[b] \in Items /\ b \notin Sinks
           /\ SwapEnds(b) \/ SwapGoesOn(b)
           /\ UNCHANGED <<produced, received, lost>>
<1> DEFINE m == Len(outputsOf[b])
           n == nextOut[b]
           o == outputsOf[b]
<1>1. /\ NextOutput(b) \in Outputs(b) /\ NextOutput(b) \in Streams /\ NextOutput(b) \in Ungiven(b)
      /\ pc[b] = "swap" /\ n \in 1 .. m /\ b \notin Sinks /\ o \in Seq(Streams) /\ m \in Nat
      /\ slot[NextOutput(b)] = None /\ slot' = [slot EXCEPT ![NextOutput(b)] = held[b]]
      /\ nextOut \in [Blocks -> Nat]
  BY UngivenOutputs, TopologyAssumption DEF Swap, TypeOK
<1>2. held[b] \in Items
  <2>1. held[b] # None
    BY <1>1 DEF Hands
  <2> QED  BY <2>1 DEF TypeOK
<1>3. ~Given(b, NextOutput(b))
  BY <1>1 DEF Given
<1>4. /\ \A i, j \in 1 .. m : o[i] = o[j] => i = j
      /\ Outputs(b) = {o[i] : i \in 1 .. m}
      /\ NextOutput(b) = o[n] /\ Ungiven(b) = {o[i] : i \in n .. m}
  BY <1>1, ChainAssumption DEF Outputs, ToSet, NextOutput, Ungiven
<1>5. CASE n < m
  <2>1. nextOut' = [nextOut EXCEPT ![b] = n + 1] /\ pc' = pc /\ held' = held
    BY <1>5 DEF Swap
  <2>2. Ungiven(b)' = {o[i] : i \in n + 1 .. m}
    BY <1>1, <2>1 DEF Ungiven
  <2>3. \A i \in 1 .. m : o[i] \in Ungiven(b)' <=> o[i] \in Ungiven(b) /\ o[i] # o[n]
    <3> HIDE DEF o, m, n
    <3>1. /\ \A i \in 1 .. m : o[i] \in {o[j] : j \in n .. m} <=> i >= n
          /\ \A i \in 1 .. m : o[i] \in {o[j] : j \in n + 1 .. m} <=> i >= n + 1
          /\ \A i \in 1 .. m : o[i] # o[n] <=> i # n
      BY <1>1, <1>4
    <3> QED  BY <1>1, <1>4, <2>2, <3>1
  <2>4. \A u \in Outputs(b) : Given(b, u)' <=> Given(b, u) \/ u = NextOutput(b)
    BY SMTT(30), <1>1, <1>4, <2>1, <2>3 DEF Given
  <2> QED  BY <1>1, <1>2, <1>3, <2>1, <2>4 DEF SwapGoesOn, Swap, histories
<1>6. CASE ~(n < m)
  <2>1. n = m
    BY <1>1, <1>6
  <2>2. Ungiven(b) = {NextOutput(b)}
    BY <1>1, <1>4, <2>1
  <2>3. \A u \in Outputs(b) : u = NextOutput(b) \/ Given(b, u)
    BY <1>1, <2>2 DEF Given
  <2> QED  BY <1>1, <1>2, <1>3, <1>6, <2>3 DEF SwapEnds, Swap, Goto, histories
<1> QED  BY <1>5, <1>6

\* What is behind a block is behind the stream it reads.
LEMMA PastNested ==
    ASSUME NEW b \in Blocks \ Sources
    PROVE  /\ inputOf[b] \in Streams /\ inputOf[b] \in PathTo(b)
           /\ held[b] \in Past(inputOf[b]) /\ slot[inputOf[b]] \in Past(inputOf[b])
           /\ b \in Sinks => ToSet(received[b]) \subseteq Past(inputOf[b])
           /\ \A u \in Outputs(b) : Past(u) \subseteq Past(inputOf[b])
<1> DEFINE s == inputOf[b]
<1>1. s \in Streams /\ s \in PathTo(b) /\ s \in Upstream[s] /\ b \in Fed(s)
  BY Wiring, UpSelf DEF PathTo, Fed
<1>2. ASSUME NEW u \in Outputs(b)
      PROVE  /\ \A t \in Streams : u \in Upstream[t] => s \in Upstream[t]
             /\ Fed(u) \subseteq Fed(s)
  <2>1. Feeds(s, u)
    BY DEF Feeds
  <2>2. \A t \in Streams : u \in Upstream[t] => s \in Upstream[t]
    BY <1>1, <2>1, UpClosed
  <2>3. \A c \in Blocks : u \in PathTo(c) => s \in PathTo(c)
    BY <2>2, Wiring DEF PathTo
  <2> QED  BY <2>2, <2>3 DEF Fed
<1>3. \A u \in Outputs(b) : Past(u) \subseteq Past(s)
  BY <1>2 DEF Past
<1> QED  BY <1>1, <1>3 DEF Past

\* Nothing gets behind a stream except through it.
LEMMA PastSteps ==
    ASSUME TypeOK, Hands, NEW b \in Blocks, Worker(b), NEW w \in Streams, NEW x \in Past(w)'
    PROVE  x \in Past(w) \/ x = None \/ (Swap(b) /\ w = NextOutput(b) /\ x = held[b])
<1>1. /\ slot \in [Streams -> Items \cup {None}] /\ held \in [Blocks -> Items \cup {None}]
      /\ received \in [Sinks -> Seq(Items)]
  BY DEF TypeOK
<1>2. b \notin Sources => inputOf[b] \in Streams /\ PathTo(b) = Upstream[inputOf[b]]
  BY Wiring DEF PathTo
<1>3. CASE \E t \in Streams : w \in Upstream[t] /\ x = slot'[t]
  <2>1. PICK t \in Streams : w \in Upstream[t] /\ x = slot'[t]
    BY <1>3
  <2>2. slot[t] \in Past(w)
    BY <2>1 DEF Past
  <2>3. CASE Swap(b) /\ t = NextOutput(b)
    <3>1. x = held[b] /\ Upstream[t] = {t} \cup PathTo(b)
      BY <1>1, <2>1, <2>3, SwapEffect, UpStep
    <3>2. w \in PathTo(b) => held[b] \in Past(w)
      BY DEF Past, Fed, PathTo
    <3> QED  BY <2>1, <2>3, <3>1, <3>2
  <2>4. CASE Swap(b) /\ t # NextOutput(b)
    BY <1>1, <2>1, <2>2, <2>4 DEF Swap
  <2>5. CASE Flush(b) \/ Leave(b)
    BY <1>1, <2>1, <2>2, <2>5 DEF Flush, Leave
  <2>6. CASE ~(Swap(b) \/ Flush(b) \/ Leave(b))
    BY <2>1, <2>2, <2>6
       DEF Worker, Produce, Exhausted, Read, ReadStopped, SwapStopped, streams
  <2> QED  BY <2>3, <2>4, <2>5, <2>6
<1>4. CASE \E c \in Fed(w) : x = held'[c]
  <2>1. PICK c \in Fed(w) : x = held'[c]
    BY <1>4
  <2>2. held[c] \in Past(w) /\ c \in Blocks \ Sources /\ w \in PathTo(c)
    BY <2>1 DEF Past, Fed
  <2>3. CASE c # b
    BY <2>1, <2>2, <2>3, Others
  <2>4. CASE c = b /\ Read(b)
    <3>1. x = slot[inputOf[b]]
      BY <1>1, <2>1, <2>2, <2>4 DEF Read
    <3> QED  BY <1>2, <2>2, <2>4, <3>1 DEF Past
  <2>5. CASE c = b /\ ~Read(b)
    <3>1. held'[b] = held[b] \/ held'[b] = None
      BY <1>1, <2>2, <2>5 DEF Worker, Produce, Exhausted, ReadStopped, Flush, Swap,
                              SwapStopped, Leave
    <3> QED  BY <2>1, <2>2, <2>5, <3>1
  <2> QED  BY <2>3, <2>4, <2>5
<1>5. CASE \E k \in Fed(w) \cap Sinks : x \in ToSet(received'[k])
  <2>1. PICK k \in Fed(w) \cap Sinks : x \in ToSet(received'[k])
    BY <1>5
  <2>2. ToSet(received[k]) \subseteq Past(w) /\ w \in PathTo(k)
    BY <2>1 DEF Past, Fed
  <2>3. CASE Read(b) /\ k = b
    <3>1. received'[k] = Append(received[k], slot[inputOf[b]])
      BY <1>1, <2>1, <2>3 DEF Read
    <3>2. x \in ToSet(received[k]) \/ x = slot[inputOf[b]]
      BY <1>1, <2>1, <3>1 DEF ToSet
    <3>3. slot[inputOf[b]] \in Past(w)
      BY <1>2, <2>1, <2>2, <2>3, Wiring DEF Past
    <3> QED  BY <2>2, <3>2, <3>3
  <2>4. CASE ~(Read(b) /\ k = b)
    <3>1. received'[k] = received[k]
      BY <1>1, <2>1, <2>4 DEF Worker, Produce, Exhausted, Read, ReadStopped, Flush, Swap,
                              SwapStopped, Leave, histories
    <3> QED  BY <2>1, <2>2, <3>1
  <2> QED  BY <2>3, <2>4
<1> QED  BY <1>3, <1>4, <1>5 DEF Past

\* What is behind a stream are numbers.
LEMMA PastTyped ==
    ASSUME TypeOK, Hands, Rising, NEW b \in Blocks
    PROVE  /\ held[b] \in Nat /\ held[b] <= produced
           /\ \A u \in Streams : \A x \in Past(u) : x \in Nat /\ x <= produced
           /\ produced \in Nat /\ None = 0
           /\ b \notin Sources => slot[inputOf[b]] \in Nat /\ slot[inputOf[b]] <= produced
<1>1. held[b] \in Nat /\ produced \in Nat /\ None = 0
  <2>1. held[b] \in Items \cup {None} /\ produced \in 0 .. MaxItems
    BY DEF TypeOK
  <2>2. held[b] \in Items => held[b] \in Nat
    BY NotAnItem
  <2>3. held[b] = None => held[b] \in Nat
    BY DEF None
  <2>4. held[b] \in Nat
    BY <2>1, <2>2, <2>3
  <2> QED  BY <2>1, <2>4, NotAnItem DEF None
<1>2. \A u \in Streams : \A x \in Past(u) : x \in Nat /\ x <= produced
  BY <1>1 DEF Rising
<1>3. CASE b \in Sources
  BY <1>1, <1>2, <1>3 DEF Hands
<1>4. CASE b \notin Sources
  BY <1>1, <1>2, <1>4, PastNested
<1> QED  BY <1>1, <1>2, <1>3, <1>4

\* A step of a worker keeps the order of the items.
LEMMA WorkerRising ==
    ASSUME TypeOK, Hands, Hands', Rising, NEW b \in Blocks, Worker(b), ~Exhausted(b),
           ~ReadStopped(b)
    PROVE  Rising'
<1> DEFINE Behind(c) == \A u \in Outputs(c) : held[c] # None /\ ~Given(c, u) =>
                            \A x \in Past(u) : x < held[c]
           Ahead(c) == slot[inputOf[c]] # None =>
              /\ ~Unflushed(c) => held[c] < slot[inputOf[c]]
              /\ \A u \in Outputs(c) : \A x \in Past(u) :
                    x < slot[inputOf[c]]
                    \/ (x = slot[inputOf[c]] /\ Unflushed(c) /\ Given(c, u))
           Arriving(c) == slot[inputOf[c]] # None => \A x \in ToSet(received[c]) :
              x < slot[inputOf[c]] \/ (x = slot[inputOf[c]] /\ pc[c] = "flush")
           s == inputOf[b]
           v == NextOutput(b)
<1>1. /\ slot \in [Streams -> Items \cup {None}] /\ held \in [Blocks -> Items \cup {None}]
      /\ pc \in [Blocks -> {"down", "read", "flush", "swap", "leave", "exited"}]
      /\ received \in [Sinks -> Seq(Items)] /\ produced \in Nat
  BY TopologyAssumption DEF TypeOK
<1>2. /\ \A c \in Blocks : Behind(c) /\ held[c] \in Nat /\ held[c] <= produced
      /\ \A c \in Blocks \ Sources : Ahead(c) /\ inputOf[c] \in Streams
                                     /\ slot[inputOf[c]] \in Nat
      /\ \A c \in Sinks : Arriving(c)
      /\ \A u \in Streams : \A x \in Past(u) : x \in Nat /\ x <= produced
      /\ \A c \in Blocks : Outputs(c) \subseteq Streams
  BY PastTyped, Wiring DEF Rising
<1>3. \A w \in Streams : \A x \in Past(w)' :
         x \in Past(w) \/ x = 0 \/ (Swap(b) /\ w = v /\ x = held[b])
  BY PastSteps DEF None
<1>4. \A w \in Streams : \A x \in Past(w)' : x \in Nat /\ (x \in Past(w) \/ x = 0 \/ x = held[b])
  BY <1>2, <1>3
<1>5. SUFFICES /\ \A c \in Blocks : Behind(c)'
               /\ \A c \in Blocks \ Sources : Ahead(c)'
               /\ \A c \in Sinks : Arriving(c)'
  <2>1. \A u \in Streams : Past(u)' \subseteq 0 .. produced'
    <3>1. produced' \in Nat /\ produced <= produced'
      BY <1>1 DEF Worker, Produce, Exhausted, Read, ReadStopped, Flush, Swap, SwapStopped,
                  Leave, histories
    <3> QED  BY <1>1, <1>2, <1>4, <3>1
  <2> QED  BY <2>1 DEF Rising
<1>6. ASSUME NEW c \in Blocks, c # b
      PROVE  /\ Behind(c)' /\ (c \notin Sources => Ahead(c)')
             /\ (c \in Sinks => Arriving(c)')
  <2>1. /\ pc'[c] = pc[c] /\ held'[c] = held[c] /\ Unflushed(c)' = Unflushed(c)
        /\ \A u : Given(c, u)' = Given(c, u)
    BY <1>6, Others
  <2>2. \A u \in Outputs(c) : \A x \in Past(u)' : x \in Nat /\ (x \in Past(u) \/ x = 0)
    <3>1. \A u \in Outputs(c) : Swap(b) => u # v
      BY <1>6, SwapEffect, Wiring
    <3> QED  BY <1>2, <1>3, <1>4, <3>1
  <2>3. Behind(c)'
    BY <1>2, <2>1, <2>2 DEF None
  <2>4. c \in Sinks => received'[c] = received[c]
    BY <1>1, <1>6 DEF Worker, Produce, Exhausted, Read, ReadStopped, Flush, Swap, SwapStopped,
                      Leave, histories
  <2>5. ASSUME c \notin Sources, slot'[inputOf[c]] = slot[inputOf[c]]
        PROVE  Ahead(c)' /\ (c \in Sinks => Arriving(c)')
    BY <1>2, <2>1, <2>2, <2>4, <2>5 DEF None
  <2>6. ASSUME c \notin Sources, slot'[inputOf[c]] # slot[inputOf[c]], slot'[inputOf[c]] # None
        PROVE  Ahead(c)' /\ (c \in Sinks => Arriving(c)')
    <3>1. inputOf[c] # inputOf[b] /\ inputOf[c] \in Streams
      BY <1>6, <2>6, Wiring
    <3>2. Swap(b)
      BY <1>1, <2>6, <3>1
         DEF Worker, Produce, Exhausted, Read, ReadStopped, Flush, SwapStopped, Leave, streams
    <3>3. /\ inputOf[c] = v /\ slot'[v] = held[b] /\ slot[v] = None /\ v \in Outputs(b)
          /\ ~Given(b, v) /\ held[b] # None
      BY <1>1, <2>6, <3>1, <3>2, SwapEffect, NotAnItem
    <3>4. \A x \in Past(v) : x < held[b]
      BY <1>2, <3>3
    <3>5. ~Unflushed(c)
      BY <3>3 DEF Hands
    <3>6. /\ held[c] \in Past(v) /\ \A u \in Outputs(c) : Past(u) \subseteq Past(v)
          /\ c \in Sinks => ToSet(received[c]) \subseteq Past(v)
      BY <2>6, <3>3, PastNested
    <3>7. Ahead(c)'
      BY <1>2, <2>1, <2>2, <3>3, <3>4, <3>5, <3>6 DEF None
    <3>8. c \in Sinks => Arriving(c)'
      BY <2>4, <3>3, <3>4, <3>6
    <3> QED  BY <3>7, <3>8
  <2> QED  BY <2>3, <2>5, <2>6, Wiring
<1>7. Behind(b)' /\ (b \notin Sources => Ahead(b)') /\ (b \in Sinks => Arriving(b)')
  <2>1. /\ b \in Sinks => b \notin Sources
        /\ \A u \in Outputs(b) : \A x \in Past(u)' :
              x \in Nat /\ (x \in Past(u) \/ x = 0 \/ (Swap(b) /\ u = v /\ x = held[b]))
    BY <1>2, <1>3, <1>4, Wiring
  <2>2. CASE Produce(b)
    <3>1. held'[b] = produced + 1 /\ b \in Sources
      BY <1>1, <2>2 DEF Produce
    <3>2. ~Swap(b)
      BY <2>2 DEF Produce, Swap
    <3> QED  BY <1>1, <1>2, <2>1, <3>1, <3>2
  <2>3. CASE Read(b)
    <3>1. /\ b \notin Sources /\ slot' = slot /\ held'[b] = slot[s] /\ slot[s] # None
          /\ pc'[b] = IF b \in FlushFirst \cup Sinks THEN "flush" ELSE "swap"
          /\ ~Unflushed(b) /\ ~Swap(b) /\ nextOut' = nextOut /\ pc[b] = "read"
      BY <1>1, <2>3 DEF Read, Goto, Unflushed, Swap, streams
    <3>2. \A u \in Outputs(b) : \A x \in Past(u) : x < slot[s]
      BY <1>2, <3>1
    <3>3. Behind(b)'
      BY <1>2, <2>1, <3>1, <3>2 DEF None
    <3>4. Ahead(b)'
      <4>1. Unflushed(b)'
        BY <3>1 DEF Unflushed
      <4> QED  BY <1>2, <2>1, <3>1, <3>2, <4>1 DEF None
    <3>5. b \in Sinks => Arriving(b)'
      <4> SUFFICES ASSUME b \in Sinks, NEW x \in ToSet(received'[b])
                   PROVE  x < slot[s] \/ (x = slot[s] /\ pc'[b] = "flush")
        BY <3>1
      <4>1. received'[b] = Append(received[b], slot[s]) /\ received[b] \in Seq(Items)
        BY <1>1, <2>3 DEF Read
      <4>2. x \in ToSet(received[b]) \/ x = slot[s]
        BY <4>1 DEF ToSet
      <4> QED  BY <1>2, <3>1, <4>2
    <3> QED  BY <3>3, <3>4, <3>5
  <2>4. CASE Flush(b)
    <3>1. b \notin Sources /\ slot'[s] = None /\ ~Swap(b)
      BY <1>1, <1>2, <2>4 DEF Flush, Hands, Swap
    <3>2. CASE b \in FlushFirst \ Sinks
      <4>1. held' = held /\ \A u : ~Given(b, u)
        BY <2>4, <3>2 DEF Flush, Given
      <4> QED  BY <1>2, <2>1, <3>1, <4>1 DEF None
    <3>3. CASE ~(b \in FlushFirst \ Sinks)
      <4>1. held'[b] = None
        BY <1>1, <2>4, <3>3 DEF Flush
      <4> QED  BY <3>1, <4>1
    <3> QED  BY <3>2, <3>3
  <2>5. CASE Leave(b)
    <3>1. b \notin Sources /\ slot'[s] = None /\ held'[b] = None
      BY <1>1, <1>2, <2>5 DEF Leave, Hands
    <3> QED  BY <3>1
  <2>6. CASE SwapStopped(b)
    <3>1. held'[b] = None /\ slot' = slot /\ b \notin Sinks /\ ~Swap(b) /\ pc[b] = "swap"
          /\ pc'[b] = IF b \in FlushFirst \cup Sources THEN "exited" ELSE "leave"
      BY <1>1, <2>6 DEF SwapStopped, Hands, Goto, Swap, streams
    <3>2. ASSUME b \notin Sources, slot[s] # None
          PROVE  Ahead(b)'
      <4>1. CASE b \in FlushFirst
        <5>1. ~Unflushed(b)
          BY <3>1, <3>2, <4>1 DEF Unflushed
        <5> QED  BY <1>2, <2>1, <3>1, <3>2, <5>1 DEF None
      <4>2. CASE b \notin FlushFirst
        <5>1. Unflushed(b)' /\ \A u : Given(b, u)'
          BY <3>1, <3>2, <4>2 DEF Unflushed, Given
        <5> QED  BY <1>2, <2>1, <3>1, <3>2, <5>1 DEF None
      <4> QED  BY <4>1, <4>2
    <3> QED  BY <3>1, <3>2
  <2>7. CASE Swap(b)
    <3>1. /\ v \in Outputs(b) /\ pc[b] = "swap" /\ b \notin Sinks /\ held[b] \in Items
          /\ slot' = [slot EXCEPT ![v] = held[b]]
          /\ SwapEnds(b) \/ SwapGoesOn(b)
      BY <2>7, SwapEffect
    <3>2. b \notin Sources => slot'[s] = slot[s]
      <4>1. b \notin Sources => v # s
        BY <3>1, NoLoop, PastNested
      <4>2. b \notin Sources => s \in Streams
        BY Wiring
      <4> QED  BY <1>1, <3>1, <4>1, <4>2
    <3>3. CASE SwapGoesOn(b)
      <4>1. /\ held' = held /\ Unflushed(b)' = Unflushed(b)
            /\ \A u \in Outputs(b) : Given(b, u)' <=> Given(b, u) \/ u = v
        BY <3>3 DEF SwapGoesOn, Unflushed
      <4>2. Behind(b)'
        BY <1>2, <2>1, <4>1 DEF None
      <4>3. ASSUME b \notin Sources, slot[s] # None
            PROVE  Ahead(b)'
        <5>1. CASE Unflushed(b)
          <6>1. held[b] = slot[s]
            BY <3>1, <5>1 DEF Hands
          <6> QED  BY <1>2, <2>1, <3>2, <4>1, <4>3, <5>1, <6>1 DEF None
        <5>2. CASE ~Unflushed(b)
          BY <1>2, <2>1, <3>2, <4>1, <4>3, <5>2 DEF None
        <5> QED  BY <5>1, <5>2
      <4> QED  BY <3>1, <3>2, <4>2, <4>3
    <3>4. CASE SwapEnds(b) /\ b \in FlushFirst \cup Sources
      <4>1. /\ held'[b] = None
            /\ b \notin Sources => ~Unflushed(b) /\ ~Unflushed(b)'
        BY <1>1, <3>1, <3>4 DEF SwapEnds, Unflushed
      <4> QED  BY <1>2, <2>1, <3>1, <3>2, <4>1 DEF None
    <3>5. CASE SwapEnds(b) /\ b \notin FlushFirst \cup Sources
      <4>1. /\ held' = held /\ Unflushed(b) /\ Unflushed(b)' /\ \A u : Given(b, u)'
            /\ held[b] = slot[s]
        BY <1>1, <3>1, <3>5 DEF SwapEnds, Unflushed, Given, Hands
      <4> QED  BY <1>2, <2>1, <3>1, <3>2, <4>1 DEF None
    <3> QED  BY <3>1, <3>3, <3>4, <3>5
  <2> QED  BY <2>2, <2>3, <2>4, <2>5, <2>6, <2>7 DEF Worker
<1> QED  BY <1>6, <1>7, Wiring

\* A step that touches no items keeps their order.
LEMMA CalmRising == Rising /\ Calm => Rising'
<1> SUFFICES ASSUME Rising, Calm PROVE Rising'
  OBVIOUS
<1>1. UNCHANGED <<slot, held, produced, received>>
  BY DEF Calm
<1>2. \A u : Past(u)' = Past(u)
  BY <1>1 DEF Past, Fed
<1>3. \A c \in Blocks : /\ Unflushed(c)' = Unflushed(c) /\ \A u : Given(c, u)' = Given(c, u)
                        /\ pc[c] = "flush" => pc'[c] = "flush"
  BY CalmFacts
<1>4. \A k \in Sinks : k \in Blocks
  BY Wiring
<1> QED  BY <1>1, <1>2, <1>3, <1>4 DEF Rising

----------------------------------------------------------------------------
(* Accounts. *)

\* What is behind a stream is behind every stream in front of it.
LEMMA Widen ==
    ASSUME NEW k \in Blocks, NEW w \in PathTo(k), NEW u \in Upstream[w], NEW n
    PROVE  /\ Somewhere(n, w, k) => Somewhere(n, u, k)
           /\ Somewhere(n, w, k)' => Somewhere(n, u, k)'
<1>1. \A t \in PathTo(k) : w \in Upstream[t] => u \in Upstream[t]
  BY OnTheWay, UpTransitive
<1> QED  BY <1>1 DEF Somewhere

\* Nothing is taken from a sink.
LEMMA ReceivedGrows ==
    ASSUME TypeOK, NEW b \in Blocks, Worker(b), NEW k \in Sinks
    PROVE  ToSet(received[k]) \subseteq ToSet(received'[k])
<1>1. received \in [Sinks -> Seq(Items)]
  BY DEF TypeOK
<1>2. CASE Read(b) /\ b = k
  <2>1. received'[k] = Append(received[k], slot[inputOf[b]])
    BY <1>1, <1>2 DEF Read
  <2>2. ToSet(received[k]) \subseteq ToSet(Append(received[k], slot[inputOf[b]]))
    BY <1>1 DEF ToSet
  <2> QED  BY <2>1, <2>2
<1>3. CASE ~(Read(b) /\ b = k)
  BY <1>1, <1>3 DEF Worker, Produce, Exhausted, Read, ReadStopped, Flush, Swap, SwapStopped,
              Leave, histories
<1> QED  BY <1>2, <1>3

\* A step of a worker touches its input stream and its hand only.
LEMMA FarStays ==
    ASSUME TypeOK, Hands, NEW b \in Blocks, Worker(b), NEW t \in Streams, t # inputOf[b],
           NEW n \in Items
    PROVE  /\ slot[t] = n => slot'[t] = n
           /\ <<n, t>> \in lost => <<n, t>> \in lost'
           /\ \A c \in Blocks : inputOf[c] = t /\ held[c] = n => held'[c] = n
           /\ \A k \in Sinks : ToSet(received[k]) \subseteq ToSet(received'[k])
<1>1. /\ slot \in [Streams -> Items \cup {None}] /\ received \in [Sinks -> Seq(Items)]
      /\ n # None
  BY NotAnItem DEF TypeOK
<1>2. slot[t] = n => slot'[t] = n
  <2>1. CASE Swap(b)
    BY <1>1, <2>1 DEF Swap
  <2>2. CASE Flush(b) \/ Leave(b)
    BY <1>1, <2>2 DEF Flush, Leave
  <2>3. CASE ~(Swap(b) \/ Flush(b) \/ Leave(b))
    BY <2>3 DEF Worker, Produce, Exhausted, Read, ReadStopped, SwapStopped, streams
  <2> QED  BY <2>1, <2>2, <2>3
<1>3. lost \subseteq lost'
  BY DEF Worker, Produce, Exhausted, Read, ReadStopped, Flush, Swap, SwapStopped, Leave,
         histories
<1>4. \A c \in Blocks : inputOf[c] = t => held'[c] = held[c]
  BY Others
<1>5. \A k \in Sinks : ToSet(received[k]) \subseteq ToSet(received'[k])
  BY ReceivedGrows
<1> QED  BY <1>2, <1>3, <1>4, <1>5

\* What is behind a worker's output stays there when the worker steps.
LEMMA BeyondStays ==
    ASSUME TypeOK, Hands, NEW b \in Blocks, Worker(b), NEW k \in Sinks,
           NEW w \in Outputs(b) \cap PathTo(k), NEW n \in Items, Somewhere(n, w, k)
    PROVE  Somewhere(n, w, k)'
<1>1. ToSet(received[k]) \subseteq ToSet(received'[k]) \/ \A t \in Streams : t = inputOf[b]
  BY FarStays
<1>2. ASSUME NEW t \in PathTo(k), w \in Upstream[t]
      PROVE  t \in Streams /\ t # inputOf[b]
  <2>1. t \in Streams
    BY OnTheWay, Wiring
  <2>2. t = inputOf[b] => PathTo(b) = Upstream[t]
    BY <2>1, TopologyAssumption DEF PathTo, Sources
  <2> QED  BY <1>2, <2>1, <2>2, NoLoop
<1>3. w \in Streams /\ w # inputOf[b]
  <2>1. w \in Upstream[w]
    BY OnTheWay, Wiring
  <2> QED  BY <1>2, <2>1
<1>4. CASE n \in ToSet(received[k])
  BY <1>1, <1>3, <1>4 DEF Somewhere
<1>5. CASE n \notin ToSet(received[k])
  <2>1. PICK t \in PathTo(k) : w \in Upstream[t] /\
           (slot[t] = n \/ <<n, t>> \in lost \/ \E c \in Blocks : inputOf[c] = t /\ held[c] = n)
    BY <1>5 DEF Somewhere
  <2>2. t \in Streams /\ t # inputOf[b]
    BY <1>2, <2>1
  <2>3. slot'[t] = n \/ <<n, t>> \in lost' \/ \E c \in Blocks : inputOf[c] = t /\ held'[c] = n
    BY <2>1, <2>2, FarStays
  <2> QED  BY <2>1, <2>3 DEF Somewhere
<1> QED  BY <1>4, <1>5

\* What an output has just got, or lost, is behind it.
LEMMA JustGiven ==
    ASSUME TypeOK, Hands, NEW b \in Blocks, NEW k \in Sinks,
           NEW u \in Outputs(b) \cap PathTo(k), NEW n, n = held[b],
           \/ Swap(b) /\ u = NextOutput(b)
           \/ SwapStopped(b) /\ u \in Ungiven(b)
    PROVE  Somewhere(n, u, k)'
<1>1. u \in Upstream[u] /\ u \in Streams /\ u \in PathTo(k)
  BY OnTheWay, Wiring
<1>2. slot'[u] = n \/ <<n, u>> \in lost'
  <2>1. CASE Swap(b) /\ u = NextOutput(b)
    BY <1>1, <2>1 DEF Swap, TypeOK
  <2>2. CASE SwapStopped(b) /\ u \in Ungiven(b)
    BY <2>2 DEF SwapStopped
  <2> QED  BY <2>1, <2>2
<1> QED  BY <1>1, <1>2 DEF Somewhere

\* An item somewhere behind a stream stays there: a worker that is done with
\* it has given it to its next output on the way, or is the sink.
LEMMA Stays ==
    ASSUME TypeOK, Hands, Accounts, NEW b \in Blocks, Worker(b), NEW k \in Sinks,
           NEW u \in PathTo(k), NEW n \in Items, Somewhere(n, u, k)
    PROVE  Somewhere(n, u, k)'
<1> DEFINE s == inputOf[b]
<1>1. /\ slot \in [Streams -> Items \cup {None}] /\ held \in [Blocks -> Items \cup {None}]
      /\ pc \in [Blocks -> {"down", "read", "flush", "swap", "leave", "exited"}]
      /\ received \in [Sinks -> Seq(Items)] /\ n # None /\ k \in Blocks
  BY NotAnItem, Wiring DEF TypeOK
<1>2. u \in Streams
  BY <1>1, OnTheWay
<1>3. ToSet(received[k]) \subseteq ToSet(received'[k])
  BY ReceivedGrows
<1>4. CASE n \in ToSet(received[k])
  BY <1>3, <1>4 DEF Somewhere
<1>5. CASE \E t \in PathTo(k) : t # s /\ u \in Upstream[t] /\
           (slot[t] = n \/ <<n, t>> \in lost \/ \E c \in Blocks : inputOf[c] = t /\ held[c] = n)
  <2>1. PICK t \in PathTo(k) : t # s /\ u \in Upstream[t] /\
           (slot[t] = n \/ <<n, t>> \in lost \/ \E c \in Blocks : inputOf[c] = t /\ held[c] = n)
    BY <1>5
  <2>2. t \in Streams
    BY <1>1, OnTheWay
  <2>3. slot'[t] = n \/ <<n, t>> \in lost' \/ \E c \in Blocks : inputOf[c] = t /\ held'[c] = n
    BY <2>1, <2>2, FarStays
  <2> QED  BY <2>1, <2>3 DEF Somewhere
<1>6. CASE s \in PathTo(k) /\ u \in Upstream[s] /\ <<n, s>> \in lost
  <2>1. <<n, s>> \in lost'
    BY <1>6 DEF Worker, Produce, Exhausted, Read, ReadStopped, Flush, Swap, SwapStopped, Leave,
            histories
  <2> QED  BY <1>6, <2>1 DEF Somewhere
<1>7. CASE s \in PathTo(k) /\ u \in Upstream[s] /\ (slot[s] = n \/ held[b] = n)
  <2>1. s \in Streams /\ b \notin Sources /\ PathTo(b) = Upstream[s]
    <3>1. s \in Streams
      BY <1>1, <1>7, OnTheWay
    <3> QED  BY <3>1, TopologyAssumption DEF Sources, PathTo
  <2>2. SUFFICES ASSUME slot'[s] # n, held'[b] # n
                 PROVE  Somewhere(n, u, k)'
    BY <1>7 DEF Somewhere
  <2>3. SUFFICES \/ b = k /\ n \in ToSet(received[k])
                 \/ b # k /\ \A w \in Outputs(b) \cap PathTo(k) : Somewhere(n, w, k)'
    <3>1. CASE b = k /\ n \in ToSet(received[k])
      BY <1>4, <3>1
    <3>2. CASE b # k /\ \A w \in Outputs(b) \cap PathTo(k) : Somewhere(n, w, k)'
      <4>1. PICK w \in Outputs(b) : w \in PathTo(k)
        BY <1>1, <1>7, <3>2, NextOnPath
      <4>2. u \in Upstream[w]
        BY <1>7, <2>1, <4>1, UpStep
      <4>3. Somewhere(n, w, k)'
        BY <3>2, <4>1
      <4> QED  BY <1>1, <4>1, <4>2, <4>3, Widen
    <3> QED  BY <3>1, <3>2
  <2>4. b \in Sinks => b = k
    <3>1. b # k => Outputs(b) # {}
      BY <1>1, <1>7, NextOnPath
    <3> QED  BY <3>1, Wiring
  <2>5. ASSUME NEW w \in Outputs(b) \cap PathTo(k), Given(b, w), Turn(b) = n
        PROVE  Somewhere(n, w, k)'
    <3>1. Somewhere(n, w, k)
      BY <2>5 DEF Accounts
    <3> QED  BY <2>5, <3>1, BeyondStays
  <2>6. CASE Produce(b) \/ Exhausted(b)
    BY <2>1, <2>6 DEF Produce, Exhausted
  <2>7. CASE Read(b) \/ ReadStopped(b)
    <3>1. slot' = slot /\ held[b] = None
      BY <2>7 DEF Read, ReadStopped, Hands, streams
    <3> QED  BY <1>1, <1>7, <2>2, <3>1
  <2>8. CASE Flush(b)
    <3>1. /\ pc[b] = "flush" /\ held[b] = slot[s] /\ held[b] = n
          /\ held' = IF b \in FlushFirst \ Sinks THEN held ELSE [held EXCEPT ![b] = None]
      BY <1>7, <2>8 DEF Flush, Hands, Unflushed
    <3>2. b \notin FlushFirst \/ b \in Sinks
      BY <2>2, <3>1
    <3>3. CASE b \in Sinks
      BY <2>4, <3>1, <3>3 DEF Accounts
    <3>4. CASE b \notin Sinks
      BY <2>5, <3>1, <3>2, <3>4 DEF Given, Turn
    <3> QED  BY <3>3, <3>4
  <2>9. CASE Leave(b)
    <3>1. pc[b] = "leave" /\ slot[s] = n /\ b \notin Sinks
      BY <1>1, <1>7, <2>9 DEF Leave, Hands
    <3> QED  BY <2>5, <3>1 DEF Given, Turn
  <2>10. CASE Swap(b) \/ SwapStopped(b)
    <3>1. pc[b] = "swap" /\ b \notin Sinks
      BY <2>10 DEF Swap, SwapStopped, Hands
    <3>2. slot'[s] = slot[s]
      <4>1. CASE Swap(b)
        <5>1. NextOutput(b) # s
          BY <2>1, <4>1, SwapEffect, NoLoop, UpSelf
        <5> QED  BY <1>1, <2>1, <4>1, <5>1 DEF Swap
      <4>2. CASE SwapStopped(b)
        BY <4>2 DEF SwapStopped, streams
      <4> QED  BY <2>10, <4>1, <4>2
    <3>3. held[b] = n /\ Turn(b) = n
      BY <1>7, <2>2, <3>1, <3>2 DEF Turn
    <3>4. ASSUME NEW w \in Outputs(b) \cap PathTo(k), ~Given(b, w)
          PROVE  Somewhere(n, w, k)'
      <4>1. CASE Swap(b)
        <5>1. w = NextOutput(b)
          BY <2>2, <3>3, <3>4, <4>1, SwapEffect DEF SwapEnds, SwapGoesOn
        <5> QED  BY <3>3, <4>1, <5>1, JustGiven
      <4>2. CASE SwapStopped(b)
        <5>1. w \in Ungiven(b)
          BY <3>1, <3>4 DEF Given
        <5> QED  BY <3>3, <4>2, <5>1, JustGiven
      <4> QED  BY <2>10, <4>1, <4>2
    <3> QED  BY <2>4, <2>5, <3>1, <3>3, <3>4
  <2> QED  BY <2>6, <2>7, <2>8, <2>9, <2>10 DEF Worker
<1>8. CASE \E t \in PathTo(k) : u \in Upstream[t] /\
           (slot[t] = n \/ <<n, t>> \in lost \/ \E c \in Blocks : inputOf[c] = t /\ held[c] = n)
  <2>1. \A c \in Blocks : inputOf[c] = s => c = b
    BY Wiring
  <2> QED  BY <1>5, <1>6, <1>7, <1>8, <2>1
<1> QED  BY <1>4, <1>8 DEF Somewhere

\* What a block is about to be done with is an item.
LEMMA TurnIsItem ==
    ASSUME TypeOK, Hands, NEW b \in Blocks, NEW u \in Outputs(b), Given(b, u)
    PROVE  Turn(b) \in Items
<1>1. slot \in [Streams -> Items \cup {None}] /\ held \in [Blocks -> Items \cup {None}]
  BY DEF TypeOK
<1>2. CASE pc[b] = "leave"
  BY <1>1, <1>2, Wiring DEF Hands, Unflushed, Turn
<1>3. CASE pc[b] # "leave"
  BY <1>1, <1>3 DEF Hands, Given, Turn
<1> QED  BY <1>2, <1>3

\* A worker that is not in its swaps has given nothing.
LEMMA TurnGoesOn ==
    ASSUME TypeOK, Hands, Hands', NEW b \in Blocks, Worker(b), NEW u \in Outputs(b),
           Given(b, u)'
    PROVE  /\ Swap(b) \/ SwapStopped(b)
           /\ Turn(b)' = held[b] /\ Turn(b) = held[b] /\ held[b] \in Items
           /\ \/ Given(b, u)
              \/ Swap(b) /\ u = NextOutput(b)
              \/ SwapStopped(b) /\ u \in Ungiven(b)
<1>1. /\ slot \in [Streams -> Items \cup {None}] /\ held \in [Blocks -> Items \cup {None}]
      /\ pc \in [Blocks -> {"down", "read", "flush", "swap", "leave", "exited"}]
  BY DEF TypeOK
<1>2. /\ b \notin Sinks
      /\ nextOut[b] = 1 => Ungiven(b) = Outputs(b)
  BY UngivenOutputs, Wiring
<1>3. CASE Produce(b)
  <2>1. pc'[b] = "swap" /\ nextOut' = nextOut /\ nextOut[b] = 1
    BY <1>1, <1>3 DEF Produce, Goto, Hands
  <2> QED  BY <1>2, <2>1 DEF Given, Ungiven
<1>4. CASE Exhausted(b) \/ ReadStopped(b) \/ Leave(b)
  <2>1. pc'[b] = "exited"
    BY <1>1, <1>4 DEF Exhausted, ReadStopped, Leave, Goto
  <2> QED  BY <2>1 DEF Given
<1>5. CASE Read(b) \/ Flush(b)
  <2>1. /\ nextOut' = nextOut /\ nextOut[b] = 1
        /\ pc'[b] \in {"swap", "read"} \/ (pc'[b] = "flush" /\ b \in FlushFirst)
    BY <1>1, <1>2, <1>5 DEF Read, Flush, Goto, Hands
  <2> QED  BY <1>2, <2>1 DEF Given, Ungiven
<1>6. CASE Swap(b)
  <2>1. /\ pc[b] = "swap" /\ held[b] \in Items /\ Turn(b) = held[b]
        /\ SwapEnds(b) \/ SwapGoesOn(b)
    BY <1>6, SwapEffect DEF Turn
  <2>2. held' = held /\ pc'[b] \in {"flush", "swap"}
    BY <1>1, <2>1 DEF SwapEnds, SwapGoesOn, Given
  <2>3. u = NextOutput(b) \/ Given(b, u)
    BY <1>6, SwapEffect DEF SwapEnds, SwapGoesOn
  <2> QED  BY <1>6, <2>1, <2>2, <2>3 DEF Turn
<1>7. CASE SwapStopped(b)
  <2>1. pc[b] = "swap" /\ held[b] \in Items
    BY <1>1, <1>7 DEF SwapStopped, Hands
  <2>2. pc'[b] = "leave" /\ b \notin FlushFirst \cup Sources /\ slot' = slot
    BY <1>1, <1>7 DEF SwapStopped, Goto, Given, streams
  <2>3. held[b] = slot[inputOf[b]]
    BY <2>1, <2>2 DEF Hands, Unflushed
  <2> QED  BY <1>7, <2>1, <2>2, <2>3 DEF Turn, Given
<1> QED  BY <1>3, <1>4, <1>5, <1>6, <1>7 DEF Worker

\* A step of a worker keeps the accounts.
LEMMA WorkerAccounts ==
    ASSUME TypeOK, Hands, TypeOK', Hands', Accounts, NEW b \in Blocks, Worker(b)
    PROVE  Accounts'
<1>1. /\ slot \in [Streams -> Items \cup {None}] /\ held \in [Blocks -> Items \cup {None}]
      /\ pc \in [Blocks -> {"down", "read", "flush", "swap", "leave", "exited"}]
      /\ received \in [Sinks -> Seq(Items)] /\ produced \in 0 .. MaxItems /\ MaxItems \in Nat
      /\ \A k \in Sinks : k \in Blocks /\ k \notin Sources
  BY TopologyAssumption, Wiring DEF TypeOK
<1>2. ASSUME NEW k \in Sinks, NEW c \in Blocks, NEW u \in Outputs(c) \cap PathTo(k),
             Given(c, u)', NEW n, n = Turn(c)'
      PROVE  Somewhere(n, u, k)'
  <2>1. CASE c # b
    <3>1. /\ pc'[c] = pc[c] /\ held'[c] = held[c] /\ Given(c, u)
          /\ pc[c] = "leave" => slot'[inputOf[c]] = slot[inputOf[c]]
      BY <1>2, <2>1, Others DEF Unflushed
    <3>2. n = Turn(c) /\ n \in Items
      BY <1>2, <3>1, TurnIsItem DEF Turn
    <3>3. Somewhere(n, u, k)
      BY <3>1, <3>2 DEF Accounts
    <3> QED  BY <3>2, <3>3, Stays
  <2>2. CASE c = b
    <3>1. /\ n = Turn(b) /\ n = held[b] /\ n \in Items /\ u \in Outputs(b) \cap PathTo(k)
          /\ \/ Given(b, u)
             \/ Swap(b) /\ u = NextOutput(b)
             \/ SwapStopped(b) /\ u \in Ungiven(b)
      BY <1>2, <2>2, TurnGoesOn
    <3>2. CASE Given(b, u)
      <4>1. Somewhere(n, u, k)
        BY <3>1, <3>2 DEF Accounts
      <4> QED  BY <3>1, <4>1, Stays
    <3>3. CASE ~Given(b, u)
      BY <3>1, <3>3, JustGiven
    <3> QED  BY <3>2, <3>3
  <2> QED  BY <2>1, <2>2
<1>3. ASSUME NEW k \in Sinks, pc'[k] = "flush"
      PROVE  held'[k] \in ToSet(received'[k])
  <2>1. k \in Blocks /\ ToSet(received[k]) \subseteq ToSet(received'[k])
    BY <1>1, ReceivedGrows
  <2>2. CASE k # b
    BY <1>3, <2>1, <2>2, Others DEF Accounts
  <2>3. CASE k = b /\ Read(b)
    <3>1. received'[k] = Append(received[k], slot[inputOf[b]]) /\ held'[b] = slot[inputOf[b]]
      BY <1>1, <2>3 DEF Read
    <3>2. slot[inputOf[b]] \in ToSet(Append(received[k], slot[inputOf[b]]))
      <4>1. /\ Len(received[k]) + 1 \in DOMAIN Append(received[k], slot[inputOf[b]])
            /\ Append(received[k], slot[inputOf[b]])[Len(received[k]) + 1] = slot[inputOf[b]]
        BY <1>1
      <4> QED  BY <4>1 DEF ToSet
    <3> QED  BY <2>3, <3>1, <3>2
  <2>4. CASE k = b /\ ~Read(b)
    <3>1. pc[b] # "swap"
      BY <2>4 DEF Hands
    <3> QED  BY <1>1, <1>3, <2>4, <3>1
             DEF Worker, Produce, Exhausted, ReadStopped, Flush, Swap, SwapStopped, Leave, Goto
  <2> QED  BY <2>2, <2>3, <2>4
<1>4. ASSUME NEW k \in Sinks, NEW c \in Sources, NEW u \in Outputs(c) \cap PathTo(k),
             NEW n \in 1 .. produced'
      PROVE  Somewhere(n, u, k)' \/ (held'[c] = n /\ ~Given(c, u)')
  <2>1. c \in Blocks /\ n \in Nat /\ (n \in 1 .. produced => n \in Items)
    BY <1>1, Wiring DEF Items
  <2>2. CASE n \in 1 .. produced /\ Somewhere(n, u, k)
    BY <2>1, <2>2, Stays
  <2>3. CASE n \in 1 .. produced /\ held[c] = n /\ ~Given(c, u) /\ c # b
    BY <2>1, <2>3, Others
  <2>4. CASE n \in 1 .. produced /\ held[c] = n /\ ~Given(c, u) /\ c = b
    <3>1. pc[b] \notin {"read", "flush", "leave"}
      BY <1>1, <2>1, <2>4, NotAnItem DEF Hands
    <3>2. CASE Swap(b)
      <4>1. CASE u = NextOutput(b)
        BY <2>4, <3>2, <4>1, JustGiven
      <4>2. CASE u # NextOutput(b)
        <5>1. SwapGoesOn(b)
          BY <2>4, <3>2, <4>2, SwapEffect DEF SwapEnds
        <5> QED  BY <2>4, <4>2, <5>1 DEF SwapGoesOn
      <4> QED  BY <4>1, <4>2
    <3>3. CASE SwapStopped(b)
      <4>1. u \in Ungiven(b)
        BY <2>4, <3>3 DEF SwapStopped, Given
      <4> QED  BY <2>4, <3>3, <4>1, JustGiven
    <3> QED  BY <3>1, <3>2, <3>3 DEF Worker, Produce, Exhausted, Read, ReadStopped, Flush, Leave
  <2>5. CASE n \notin 1 .. produced
    <3>1. Produce(b) /\ n = produced + 1
      BY <1>1, <2>1, <2>5 DEF Worker, Produce, Exhausted, Read, ReadStopped, Flush, Swap,
                              SwapStopped, Leave, histories
    <3>2. c = b
      BY <2>1, <3>1, Wiring DEF Produce, Sources
    <3>3. held'[c] = n
      BY <1>1, <3>1, <3>2 DEF Produce
    <3>4. ~Given(b, u)'
      BY <3>1, <3>2, TurnGoesOn DEF Produce, Swap, SwapStopped, Goto
    <3> QED  BY <3>2, <3>3, <3>4
  <2> QED  BY <2>2, <2>3, <2>4, <2>5 DEF Accounts
<1> QED  BY <1>2, <1>3, <1>4 DEF Accounts

\* So does a step that touches no items.
LEMMA CalmAccounts == TypeOK /\ Hands /\ Accounts /\ Calm => Accounts'
<1> SUFFICES ASSUME TypeOK, Hands, Accounts, Calm PROVE Accounts'
  OBVIOUS
<1>1. UNCHANGED <<slot, held, produced, received, lost>>
  BY DEF Calm
<1>2. \A c \in Blocks : /\ \A u : Given(c, u)' = Given(c, u)
                        /\ pc'[c] \in {"flush", "leave"} => pc'[c] = pc[c]
                        /\ Turn(c)' = Turn(c)
  BY <1>1, CalmFacts DEF Turn
<1>3. \A n, u, k : Somewhere(n, u, k)' <=> Somewhere(n, u, k)
  BY <1>1 DEF Somewhere
<1>4. /\ \A k \in Sinks : k \in Blocks
      /\ \A c \in Sources : c \in Blocks
  BY Wiring
<1>5. \A k \in Sinks : \A b \in Blocks : \A u \in Outputs(b) \cap PathTo(k) :
          Given(b, u)' => Somewhere(Turn(b), u, k)'
  <2> SUFFICES ASSUME NEW k \in Sinks, NEW b \in Blocks, NEW u \in Outputs(b) \cap PathTo(k),
                      Given(b, u)', NEW n, n = Turn(b)
               PROVE  Somewhere(n, u, k)'
    BY <1>2 DEF Somewhere
  <2> QED  BY <1>2, <1>3 DEF Accounts
<1>6. \A k \in Sinks : pc'[k] = "flush" => held'[k] \in ToSet(received'[k])
  BY <1>1, <1>2, <1>4 DEF Accounts
<1>7. \A k \in Sinks : \A b \in Sources : \A u \in Outputs(b) \cap PathTo(k) :
          \A n \in 1 .. produced' :
              Somewhere(n, u, k)' \/ (held'[b] = n /\ ~Given(b, u)')
  BY <1>1, <1>2, <1>3, <1>4 DEF Accounts
<1> QED  BY <1>5, <1>6, <1>7 DEF Accounts

----------------------------------------------------------------------------
(* A sink's items. *)

\* A step of a worker keeps the order in the sinks.
LEMMA StepInOrder ==
    ASSUME TypeOK, TypeOK', Rising, InOrder, NEW b \in Blocks, Worker(b)
    PROVE  InOrder'
<1>1. received \in [Sinks -> Seq(Items)] /\ Items \subseteq Nat
  BY NotAnItem DEF TypeOK
<1>2. CASE Read(b) /\ b \in Sinks
  <2> DEFINE x == slot[inputOf[b]]
             r == received[b]
  <2>1. received' = [received EXCEPT ![b] = Append(r, x)] /\ x # None /\ pc[b] = "read"
    BY <1>2 DEF Read
  <2>2. x \in Items /\ r \in Seq(Items) /\ x \in Nat
    <3>1. inputOf[b] \in Streams
      BY <1>2, Wiring
    <3>2. x \in Items \cup {None}
      BY <3>1 DEF TypeOK
    <3>3. r \in Seq(Items)
      BY <1>1, <1>2
    <3> HIDE DEF x, r
    <3> QED  BY <1>1, <2>1, <3>2, <3>3
  <2>3. \A i \in 1 .. Len(r) : r[i] < x
    <3>1. \A y \in ToSet(r) : y < x
      BY <1>2, <2>1 DEF Rising
    <3> QED  BY <2>2, <3>1 DEF ToSet
  <2>4. \A i, j \in 1 .. Len(r) : i < j => r[i] < r[j]
    BY <1>2 DEF InOrder
  <2>5. \A i, j \in 1 .. Len(Append(r, x)) : i < j => Append(r, x)[i] < Append(r, x)[j]
    <3> HIDE DEF x, r
    <3> QED  BY <2>2, <2>3, <2>4
  <2>6. /\ received'[b] = Append(r, x)
        /\ \A k \in Sinks : k # b => received'[k] = received[k]
    BY <1>1, <1>2, <2>1
  <2> HIDE DEF x, r
  <2> SUFFICES ASSUME NEW k \in Sinks
               PROVE  \A i, j \in 1 .. Len(received'[k]) :
                          i < j => received'[k][i] < received'[k][j]
    BY DEF InOrder
  <2>7. CASE k = b
    BY <2>5, <2>6, <2>7
  <2>8. CASE k # b
    <3>1. received'[k] = received[k]
      BY <2>6, <2>8
    <3> QED  BY <3>1 DEF InOrder
  <2> QED  BY <2>7, <2>8
<1>3. CASE ~(Read(b) /\ b \in Sinks)
  <2>1. received' = received
    BY <1>3 DEF Worker, Produce, Exhausted, Read, ReadStopped, Flush, Swap, SwapStopped, Leave,
            histories
  <2> QED  BY <2>1 DEF InOrder
<1> QED  BY <1>2, <1>3

----------------------------------------------------------------------------
(* Losses. *)

\* The lost items can be counted.
LEMMA LostFinite ==
    ASSUME TypeOK, NEW k \in Sinks
    PROVE  IsFiniteSet(Lost(k)) /\ Cardinality(Lost(k)) \in Nat /\ Lost(k) \subseteq Items
<1>1. IsFiniteSet(Items) /\ Lost(k) \subseteq Items
  BY NotAnItem, FS_Interval DEF Items, Lost
<1> QED  BY <1>1, FS_Subset, FS_CardinalityType

\* A swap fails only for the block that is being stopped, before it left its loop.
LEMMA StoppedIsStopping ==
    ASSUME TypeOK, Control, Hands, NEW b \in Blocks, SwapStopped(b)
    PROVE  Stopping /\ ~Stopping'
<1>1. NextOutput(b) \in Outputs(b) /\ NextOutput(b) \in writerStop /\ pc[b] = "swap"
  BY UngivenOutputs DEF SwapStopped
<1>2. PICK c \in Blocks : NextOutput(b) \in Outputs(c) /\ (At("join", c) \/ At("clear", c))
  BY <1>1 DEF Control
<1>3. c = b
  BY <1>1, <1>2, Wiring
<1>4. control # Idle /\ control.block = b
  BY <1>2, <1>3 DEF At, Idle
<1>5. pc'[b] \in {"exited", "leave"} /\ control' = control
  BY <1>1 DEF TypeOK, SwapStopped, Goto
<1> QED  BY <1>1, <1>4, <1>5 DEF Stopping

\* Only a worker that is being stopped loses an item.
LEMMA WorkerBudget ==
    ASSUME TypeOK, TypeOK', Control, Hands, Budget, NEW b \in Blocks, Worker(b)
    PROVE  Budget'
<1>1. UNCHANGED <<control, stops>> /\ stops \in Nat
  BY TopologyAssumption DEF TypeOK, Worker, Produce, Exhausted, Read, ReadStopped, Flush, Swap,
         SwapStopped, Leave, histories
<1>2. SUFFICES ASSUME NEW k \in Sinks
               PROVE  Cardinality(Lost(k)') + (IF Stopping' THEN 1 ELSE 0) <= stops
  BY <1>1 DEF Budget
<1>3. Cardinality(Lost(k)) + (IF Stopping THEN 1 ELSE 0) <= stops
  BY DEF Budget
<1>4. Cardinality(Lost(k)) \in Nat /\ IsFiniteSet(Lost(k))
  BY LostFinite
<1>5. CASE SwapStopped(b)
  <2>1. Stopping /\ ~Stopping'
    BY <1>5, StoppedIsStopping
  <2>2. Lost(k)' \subseteq Lost(k) \cup {held[b]}
    <3>1. lost' \subseteq lost \cup ({held[b]} \X Ungiven(b))
      BY <1>5 DEF SwapStopped
    <3> QED  BY <3>1 DEF Lost
  <2>3. /\ IsFiniteSet(Lost(k) \cup {held[b]})
        /\ Cardinality(Lost(k) \cup {held[b]}) <= Cardinality(Lost(k)) + 1
        /\ Cardinality(Lost(k) \cup {held[b]}) \in Nat
    <3> DEFINE L == Lost(k)
               x == held[b]
    <3>1. /\ IsFiniteSet(L \cup {x})
          /\ Cardinality(L \cup {x}) = IF x \in L THEN Cardinality(L) ELSE Cardinality(L) + 1
      <4>1. IsFiniteSet(L)
        BY <1>4
      <4> HIDE DEF L, x
      <4> QED  BY <4>1, FS_AddElement
    <3> QED  BY <1>4, <3>1
  <2>4. /\ Cardinality(Lost(k)') <= Cardinality(Lost(k) \cup {held[b]})
        /\ Cardinality(Lost(k)') \in Nat
    <3> DEFINE M == Lost(k) \cup {held[b]}
               N == Lost(k)'
    <3>1. IsFiniteSet(M) /\ N \subseteq M
      BY <2>2, <2>3
    <3> HIDE DEF M, N
    <3>2. IsFiniteSet(N) /\ Cardinality(N) <= Cardinality(M) /\ Cardinality(N) \in Nat
      BY <3>1, FS_Subset, FS_CardinalityType
    <3> QED  BY <3>2 DEF M, N
  <2> QED  BY <1>1, <1>3, <1>4, <2>1, <2>3, <2>4
<1>6. CASE ~SwapStopped(b)
  <2>1. lost' = lost
    BY <1>6 DEF Worker, Produce, Exhausted, Read, ReadStopped, Flush, Swap, Leave, histories
  <2>2. Stopping' => Stopping
    <3>0. pc \in [Blocks -> {"down", "read", "flush", "swap", "leave", "exited"}]
      BY DEF TypeOK
    <3>1. /\ pc[b] \notin {"leave", "exited", "down"} \/ pc'[b] = "exited"
          /\ \A c \in Blocks : c # b => pc'[c] = pc[c]
      <4>1. CASE Leave(b)
        BY <3>0, <4>1 DEF Leave, Goto
      <4>2. CASE Swap(b)
        BY <3>0, <4>2 DEF Swap, Goto
      <4>3. CASE ~(Leave(b) \/ Swap(b))
        BY <3>0, <4>3 DEF Worker, Produce, Exhausted, Read, ReadStopped, Flush, SwapStopped, Goto
      <4> QED  BY <4>1, <4>2, <4>3
    <3>2. control # Idle => control.block \in Blocks
      BY DEF Control, TypeOK
    <3> QED  BY <1>1, <3>1, <3>2 DEF Stopping
  <2>3. Lost(k)' = Lost(k)
    BY <2>1 DEF Lost
  <2> QED  BY <1>1, <1>3, <1>4, <2>2, <2>3
<1> QED  BY <1>5, <1>6

\* A stop is paid for when it begins.
LEMMA ControlBudget ==
    ASSUME TypeOK, TypeOK', Control, Hands, Budget, NEW b \in Blocks, ControlStep(b)
    PROVE  Budget'
<1>1. /\ lost' = lost /\ stops \in Nat
      /\ pc \in [Blocks -> {"down", "read", "flush", "swap", "leave", "exited"}]
  BY TopologyAssumption DEF TypeOK, ControlStep, Start, CallStop, Stop, StopReader, StopWriter,
         Join, Clear, histories
<1>2. SUFFICES ASSUME NEW k \in Sinks
               PROVE  Cardinality(Lost(k)') + (IF Stopping' THEN 1 ELSE 0) <= stops'
  BY DEF Budget
<1>3. Cardinality(Lost(k)) + (IF Stopping THEN 1 ELSE 0) <= stops
  BY DEF Budget
<1>4. Cardinality(Lost(k)) \in Nat /\ Lost(k)' = Lost(k)
  BY <1>1, LostFinite DEF Lost
<1>5. CASE CallStop(b)
  <2>1. stops' = stops + 1 /\ control = Idle
    BY <1>5 DEF CallStop
  <2> QED  BY <1>1, <1>3, <1>4, <2>1 DEF Stopping
<1>6. CASE ~CallStop(b)
  <2>1. stops' = stops
    BY <1>6 DEF ControlStep, Start, Stop, StopReader, StopWriter, Join, Clear, histories
  <2>2. Stopping' => Stopping
    <3>1. CASE Start(b) \/ Clear(b)
      BY <3>1 DEF Start, Clear, Stopping
    <3>2. CASE Join(b)
      <4>1. pc'[b] = "down" /\ control'.block = b
        BY <1>1, <3>2 DEF Join, Goto, ThenTo
      <4> QED  BY <4>1 DEF Stopping
    <3>3. CASE StopReader(b) \/ StopWriter(b)
      <4>1. pc' = pc /\ control # Idle /\ control.block = b /\ control'.block = b
        BY <3>3 DEF StopReader, StopWriter, ThenTo, At, Idle, threads
      <4> QED  BY <4>1 DEF Stopping
    <3> QED  BY <1>6, <3>1, <3>2, <3>3 DEF ControlStep, Stop
  <2> QED  BY <1>1, <1>3, <1>4, <2>1, <2>2
<1> QED  BY <1>5, <1>6

----------------------------------------------------------------------------
(* The invariant. *)

\* The first state has the invariant.
LEMMA PipeInit == Init => PipeInv
<1> SUFFICES ASSUME Init PROVE PipeInv
  OBVIOUS
<1>1. /\ slot = [s \in Streams |-> None] /\ held = [b \in Blocks |-> None]
      /\ pc = [b \in Blocks |-> "down"] /\ nextOut = [b \in Blocks |-> 1]
      /\ readerStop = {} /\ writerStop = {} /\ running = {} /\ control = Idle
      /\ produced = 0 /\ received = [b \in Sinks |-> <<>>] /\ lost = {} /\ stops = 0
  BY DEF Init
<1>2. MaxItems \in Nat /\ MaxStops \in Nat /\ \A s \in Sinks : s \in Blocks
  BY TopologyAssumption, Wiring
<1>3. TypeOK
  <2>2. \A b \in Blocks \ Sinks : 1 \in 1 .. Len(outputsOf[b])
    <3> SUFFICES ASSUME NEW b \in Blocks \ Sinks PROVE 1 \in 1 .. Len(outputsOf[b])
      OBVIOUS
    <3>1. outputsOf[b] \in Seq(Streams) /\ outputsOf[b] # <<>>
      BY TopologyAssumption DEF Sinks
    <3> QED  BY <3>1
  <2>3. received \in [Sinks -> Seq(Items)]
    BY <1>1
  <2> QED  BY <1>1, <1>2, <2>2, <2>3 DEF TypeOK
<1>4. Control
  BY <1>1 DEF Control, At, Idle
<1>5. Hands
  BY <1>1, <1>2 DEF Hands, Unflushed
<1>6. \A b \in Blocks : held[b] = None
  BY <1>1
<1>7. \A b \in Blocks \ Sources : slot[inputOf[b]] = None
  BY <1>1, Wiring
<1>8. \A k \in Sinks : ToSet(received[k]) = {} /\ Len(received[k]) = 0
  BY <1>1 DEF ToSet
<1>9. Rising
  <2>1. \A u \in Streams : Past(u) \subseteq {None}
    BY <1>1, <1>2, <1>6, <1>8 DEF Past, Fed
  <2>2. \A k \in Sinks : k \in Blocks \ Sources
    BY Wiring
  <2> QED  BY <1>1, <1>6, <1>7, <1>8, <2>1, <2>2 DEF Rising, None
<1>10. InOrder
  BY <1>8 DEF InOrder
<1>11. Accounts
  BY <1>1, <1>2, Wiring DEF Accounts, Given
<1>12. Budget
  <2>1. \A k \in Sinks : Lost(k) = {}
    BY <1>1 DEF Lost
  <2>2. \A k \in Sinks : Cardinality(Lost(k)) = 0
    BY <2>1, FS_EmptySet
  <2> QED  BY <1>1, <2>2 DEF Budget, Stopping
<1> QED  BY <1>3, <1>4, <1>5, <1>9, <1>10, <1>11, <1>12 DEF PipeInv

\* Every step keeps the invariant.
LEMMA PipeNext == PipeInv /\ [Next]_vars => PipeInv'
<1> SUFFICES ASSUME PipeInv, [Next]_vars PROVE PipeInv'
  OBVIOUS
<1> USE DEF PipeInv
<1>1. ASSUME NEW b \in Blocks, Worker(b)
      PROVE  PipeInv'
  <2>1. TypeOK' /\ Control' /\ Hands'
    BY <1>1, WorkerTypes, WorkerControl, WorkerHands
  <2>2. Rising'
    <3>1. CASE Exhausted(b) \/ ReadStopped(b)
      BY <3>1, ControlCalm, CalmRising
    <3>2. CASE ~(Exhausted(b) \/ ReadStopped(b))
      BY <1>1, <2>1, <3>2, WorkerRising
    <3> QED  BY <3>1, <3>2
  <2>3. InOrder' /\ Accounts' /\ Budget'
    BY <1>1, <2>1, StepInOrder, WorkerAccounts, WorkerBudget
  <2> QED  BY <2>1, <2>2, <2>3
<1>2. ASSUME NEW b \in Blocks, ControlStep(b)
      PROVE  PipeInv'
  <2>1. Calm /\ TypeOK' /\ Control'
    BY <1>2, ControlCalm, ControlTypes, ControlControl
  <2>2. Hands' /\ Rising' /\ Accounts' /\ Budget'
    BY <1>2, <2>1, CalmHands, CalmRising, CalmAccounts, ControlBudget
  <2>3. InOrder'
    BY <2>1 DEF Calm, InOrder
  <2> QED  BY <2>1, <2>2, <2>3
<1>3. CASE UNCHANGED vars
  <2>1. /\ UNCHANGED <<slot, readerStop, writerStop, running, pc, held, nextOut, control>>
        /\ UNCHANGED <<produced, received, lost, stops>>
    BY <1>3 DEF vars, streams, threads, histories
  <2>2. Calm
    BY <2>1 DEF Calm
  <2>3. TypeOK' /\ Control'
    BY <2>1 DEF TypeOK, Control, At
  <2>4. Hands' /\ Rising' /\ Accounts' /\ InOrder'
    BY <2>1, <2>2, CalmHands, CalmRising, CalmAccounts DEF InOrder
  <2>5. Budget'
    BY <2>1 DEF Budget, Lost, Stopping
  <2> QED  BY <2>3, <2>4, <2>5
<1> QED  BY <1>1, <1>2, <1>3 DEF Next, ControlStep

\* The invariant holds in every reachable state.
LEMMA PipeInvariance == Spec => []PipeInv
  BY PipeInit, PipeNext, PTL DEF Spec

(***************************************************************************)
(* The variables have their types (block.h, stream.h).                     *)
(***************************************************************************)
THEOREM PipeTypes == Spec => []TypeOK
<1>1. PipeInv => TypeOK
  BY DEF PipeInv
<1> QED  BY <1>1, PipeInvariance, PTL

(***************************************************************************)
(* Every sink gets items in the order the source made them and none twice, *)
(* whatever blocks are stopped and restarted (doubler.h:25-32).            *)
(***************************************************************************)
THEOREM PipeInOrder == Spec => []InOrder
<1>1. PipeInv => InOrder
  BY DEF PipeInv
<1> QED  BY <1>1, PipeInvariance, PTL

(***************************************************************************)
(* An item is in a sink, in a stream or a hand on the way to it, or was    *)
(* lost by a stop of a block on that way (block.h:75-94, stream.h:75).     *)
(***************************************************************************)
THEOREM PipeAccounted == Spec => []Accounted
<1>1. ASSUME PipeInv PROVE Accounted
  <2> SUFFICES ASSUME NEW k \in Sinks, NEW n \in 1 .. produced
               PROVE  \/ n \in ToSet(received[k])
                      \/ \E s \in PathTo(k) : slot[s] = n \/ <<n, s>> \in lost
                      \/ \E b \in Blocks : OnPath(b, k) /\ held[b] = n
    BY DEF Accounted
  <2>1. PICK b \in Sources : Outputs(b) \cap PathTo(k) # {}
    BY ChainAssumption
  <2>2. PICK u \in Outputs(b) : u \in PathTo(k)
    BY <2>1
  <2>3. b \in Blocks /\ k \in Blocks
    BY Wiring
  <2>4. Somewhere(n, u, k) \/ held[b] = n
    BY <1>1, <2>2 DEF PipeInv, Accounts
  <2>5. CASE held[b] = n
    BY <2>1, <2>3, <2>5 DEF OnPath
  <2>6. ASSUME NEW c \in Blocks, inputOf[c] \in PathTo(k), held[c] = n
        PROVE  OnPath(c, k) /\ held[c] = n
    BY <2>3, <2>6, NextOnPath DEF OnPath
  <2> QED  BY <2>4, <2>5, <2>6 DEF Somewhere
<1> QED  BY <1>1, PipeInvariance, PTL

(***************************************************************************)
(* One stop() of one block costs each sink at most one item.               *)
(***************************************************************************)
THEOREM PipeLosses == Spec => []OneLossPerStop
<1>1. ASSUME PipeInv PROVE OneLossPerStop
  <2> SUFFICES ASSUME NEW k \in Sinks
               PROVE  Cardinality(Lost(k)) <= stops
    BY DEF OneLossPerStop, Lost
  <2>1. Cardinality(Lost(k)) \in Nat /\ stops \in Nat
    BY <1>1, LostFinite, TopologyAssumption DEF PipeInv, TypeOK
  <2> QED  BY <1>1, <2>1 DEF PipeInv, Budget
<1> QED  BY <1>1, PipeInvariance, PTL
=============================================================================
