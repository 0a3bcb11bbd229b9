# RyFi in TLA+

RyFi carries IP packets over a software-defined radio: packets from a TUN
interface are packed into frames, coded, modulated and transmitted, and the
other way round at the receiving station. This directory holds a specification
of the program's own logic: TLA+ modules, TLC configurations that check them on
small instances, and proofs checked by TLAPS. `PROJECT.json` maps every
definition to the lines it models.

Paths below are relative to the repository.

## 1. The system

```
 TUN -> sendWorker -> Transmitter -> RSEncoder -> ConvEncoder -> Framer -> RRC -> AGC -> TX device
 TUN <- onPacket  <-  Receiver <- RSDecoder <- ConvDecoder <- Deframer <- Doubler <- demod <- FIR <- RX device
                                                                 null sink <-/
```

Every arrow between blocks is a `dsp::stream`: two buffers that a writer and a
reader thread exchange. Every block is a thread that reads one stream, works,
flushes it and swaps into the next.

| component | state | operations | interacts with | hard about it | makes it correct |
|---|---|---|---|---|---|
| frame, packet (`src/ryfi/frame.*`, `packet.*`) | counter, two packet pointers, data; a heap buffer | serialize, deserialize; copy, move, resize | transmitter, receiver | boundaries, ownership | a frame says where its packets start; one owner per buffer |
| transmitter (`transmitter.*`) | queue of at most 32, the worker's frame, packet and offsets | send, worker, start, stop | callers' threads, stream `in` | send in the middle of a frame, headers at the end of a frame, restart | frames are well formed, packets leave once and in order |
| receiver (`receiver.*`) | last counter, partial packet, cursor | worker, start, stop | stream `rs.out`, `onPacket` | lost frames, counter wrap, restart of either end | only whole packets are handed over; a loss costs only what it hit |
| stream (`vendor/dsp/stream.h`) | two buffers, flags, two mutexes, two condition variables | swap, read, flush, stop and clear for either end | every pair of neighbouring threads | two mutexes over shared state, wake-ups, stop at any time | exclusive buffers, nothing lost or doubled, nobody sleeps for good |
| blocks (`vendor/dsp/block.h`, `processor.h`, `routing/doubler.h`) | running, temporary stop depth, thread | start, stop, setInput, run | their streams | order of stops along a chain, a doubler with one side stopped | every stop returns, a chain resumes |
| framer, deframer (`framing.*`) | shift register, countdown, known rotation | run | streams | sync in data, what survives a stop, hard-coded length | frames are cut where they begin |
| Reed-Solomon codec (`rs_codec.*`, libcorrect) | one decoder: syndromes, two locators, roots, locations | run, encode, decode | streams | interleaving, what a dropped frame leaves in the decoder, sizes of the locators | up to 16 wrong bytes in a block are corrected; what is repaired is a word |
| convolutional codec (`conv_codec.*`, libcorrect) | one decoder: two error buffers, a ring of histories | run, encode, decode | streams | ring and early tracebacks, renormalizing of 16-bit metrics, state that outlives a block | the closest message comes out |
| application (`main.cpp`) | run flag, threads, devices | main, sendWorker, signal handler | everything | start and shutdown order, a thread blocked in `read` | an interrupt ends the program |
| TUN (`tun.*`) | file descriptor | open, recv, send, close | application | blocking reads | open as long as anybody uses it |
| devices (`device.*`, `device/*.cpp`) | driver table, contexts with reference counts, workers, staged samples | list, open, close, start, stop, tune, samplerate | application, vendor libraries | shared contexts, partial failures, a device without samples | references balance, samples go out once and in order |

DSP mathematics (filters, resamplers, loops), the command-line parser, the logger
and the benchmarks are not protocol logic and stay outside.

## 2. Modules

| module | models | 
|---|---|
| `FrameFormat` | frames, packet pointers, and bytes as *cells* |
| `Transmitter` | `ryfi::Transmitter`: `send`, the worker, `start`, `stop` |
| `Receiver` | `ryfi::Receiver`: the worker, `start`, `stop` |
| `Link` | both, joined by a layer that loses frames; the properties of the two |
| `PacketService` | what the modem promises: whole packets, in order, none twice |
| `Stream` | `dsp::stream` and the threads at its ends |
| `Handoff` | what a stream promises: a slot that hands values over |
| `Pipeline` | `dsp::block`, processors, doubler and sink as threads over streams; start and stop |
| `Framing` | `ryfi::Framer` and `ryfi::Deframer` with the channel between them |
| `ReedSolomon` | libcorrect's Reed-Solomon code: field, polynomials, encoder, decoder |
| `FrameCodec` | `RSEncoder` and `RSDecoder` over it: blocks, interleaving, scrambling, frames that are dropped |
| `ConvCode` | libcorrect's convolutional code: register, outputs, encoder, distances |
| `ConvCodec` | `ConvEncoder` and `ConvDecoder` over it: the Viterbi decoder with its buffers |
| `Device` | what all drivers share: contexts with reference counts, a worker for each half, the samples |
| `RFNM`, `BladeRF`, `USRP`, `LimeSDR` | the four drivers, built from its steps |
| `App` | `main` over the drivers: start-up, rates, sender thread, interrupt, shutdown, destructors |
| `MCLink`, `MCStream`, `MCPipeline`, `MCFraming`, `MCFrameCodec`, `MCConvCodec`, `MCApp` | instances for TLC |
| `StreamProofs`, `PipelineProofs`, `FramingProofs`, `AppProofs` | theorems about the module of that name, and their proofs |
| `LinkProofs` | theorems about `Link`: the sender's frames, the receiver, the refinement of `PacketService` |
| `ConvProofs`, `FrameCodecProofs` | theorems about `ConvCodec` and `FrameCodec`, and the lemmas about `ConvCode` and `ReedSolomon` they rest on |
| `Induction` | induction over the numbers, recursive functions and division, as lemmas without an operator parameter |

### Transmitter, Receiver, Link

A byte is abstracted to its origin: the cell `[id, at, size]` is byte `at` of the
serialized form of the `id`-th packet that `send` accepted, with `size` bytes of
content; bytes from `rand()` are `Noise`. So a property can say "these bytes are
that packet" and the receiver parses a size exactly when the two bytes at hand
are a header; from any other two bytes it may parse any size up to `MaxParsed`.

State and code: the variables have the names of the code's members and locals.
`packets` is the queue, `frame`, `counter`, `frameOffset`, `pkt`, `pktToWrite` and
`pktWritten` are the worker's locals; `lastCounter`, `pktExpected`, `pktBuffer`
(whose length is `pktRead`), `frameRead`, `firstPacket` and `lastPacket` the
receiver's. `txStream` and `rxStream` are the streams `in` and `rs.out`, of which
only the frame swapped in and not flushed is kept. Each turn of the loop that fills
a frame (`PadShort`, `PadIdle`, `StartPacket`, `ContinuePacket`) and each turn of
the loop that takes one apart (`CopyPart`, `FinishPacket`, `SkipRest`,
`ParseHeader`) is one action, because `send` may come between any two of them;
reading a frame and the test of its counter are one action (`ReadConsecutive`,
`ReadAfterLoss`), since the worker touches only its own locals there. A `send`
that finds the queue full changes nothing and is not an action. `stop` is the
flag (`StopTx`), the worker's own exit (`AbandonFrame`, `RxExit`) and the join
(`JoinTx`, `JoinRx`): the frame the worker holds is lost, the queue is kept.

`Link` adds the physical layer: a frame arrives as it was sent (`CarryFrame`) or
not at all (`LoseFrame`). Frames are lost from the head of the channel while the
receiver has none waiting; as the channel is in order this is no restriction. A
decoder that mistakes noise for a valid frame is not modelled: four Reed-Solomon
blocks would have to be mis-corrected at once.

Ghost variables record what the code does not know: `missed` and `lastEpoch`
whether the frame at hand really follows the last one, `tainted` and `spliced`
whether a packet was continued across a gap the counter does not show, `harmed`
the packets that a lost frame, a stop or a splice took bytes from.

| property | says |
|---|---|
| `TypeOK` | types, and the cursors stay inside the frame |
| `FrameWellFormed` | every frame sent: packets back to back, noise only behind them, headers uncut, both pointers right |
| `Integrity` | every delivered packet is byte for byte one that was accepted, unless it was open across an unnoticed gap |
| `HeaderAlignment` | a size is parsed only from a real header, also after an unnoticed gap |
| `LossContainment` | a packet that a later one overtook arrived, unless it lost a byte itself |
| `ImplementsService` | refinement of `PacketService`; a packet that is not intact maps to no packet, so it is excluded too |
| `Arrival` | without losses every packet with content arrives |

### Stream

The writer is `Fill` and the steps of `swap`, the reader the steps of `read`, `Use`
and the steps of `flush`. The mutexes are variables; `wait` gives up the mutex and
goes to sleep in one step, `notify_all` is a step of its own after the unlock, and a
thread may wake up without being notified. Setting `dataReady` in `swap` and the two halves of
`flush` are each one step taken when the mutex is free, because nothing else
happens while it is held. A thread for each end calls stop (flag, notify), joins
the worker, clears the flag without a mutex, as the code does, and starts a new
worker.

| property | says |
|---|---|
| `BufferExclusion` | the threads never work on one buffer, the pointers are not swapped under the reader |
| `OneToken` | the exchanged buffer is in one place: writer may swap, about to be announced, ready, or half flushed |
| `NoLostWakeup` | who sleeps although its condition holds is about to be notified |
| `ImplementsHandoff` | refinement of `Handoff`: nothing lost, doubled or torn, across stops |
| `StopTerminates` | a stop returns |
| `DataIsRead`, `SwapReturns` | announced data is read; swap returns while the reader reads |

### Pipeline

What a stream promises in `Handoff` is used here: `slot` is the item swapped in and
not flushed. The topology is a constant: `inputOf` and `outputsOf`, and `FlushFirst`
for the blocks that flush before they swap. `ChainAssumption` says what `Transmitter`, `Receiver`
and `main` wire up: a stream has one reader and one writer, nothing leads back to itself
(`Upstream` is the least set of streams that a stream hangs on) and every sink is behind a
source. A worker is `run()` in a loop: `Read` or
`ReadStopped`, `Flush`, one `Swap` or `SwapStopped` for each output, and `Leave` for a
block that flushes although its swap failed (`doubler.h:25-32`). `Start` and `CallStop`
are taken by one controlling thread, and `doStop` is its four steps: `StopReader`,
`StopWriter`, `Join`, `Clear`. The order in which blocks are started and stopped is
not fixed, so the orders of `Transmitter::stop`, `Receiver::stop` and `main` are among
those that are checked.

| property | says |
|---|---|
| `TypeOK` | types, and a block that is not running has no thread |
| `InOrder` | a sink gets items in order and none twice, also across stops and through the doubler |
| `Accounted` | an item is in a stream, in a hand or was given up by a stopped swap until every sink has it |
| `OneLossPerStop` | one stop costs each sink at most one item |
| `StopReturns` | a stop returns, whatever state its neighbours are in |
| `Flow` | once all blocks run for good, what was not lost arrives at every sink |

### Framing

A symbol is its quadrant. The bits of the constellation are a Gray code, so turning by
90 degrees adds one and the Hamming distance of two symbols is their distance on the
circle; `syncRots`, `Distance` and `TurnBack` (the table `symRots`) say so. The deframer
takes one symbol per step: `SearchSymbol` pushes it into the register and tests the
four rotations from the last known one, `CopySymbol` and `PutFrame` are the countdown,
`PutStopped` a swap that fails because the block is stopped. `recv`, `knownRot` and
`shift` have the code's names, `Len(writeBuf)` is `outCount`, and, as in the code, none
of them is reset by a stop. `shift` is not initialized in the code: its first value is
any of `InitShifts`, one of them a single symbol short of a sync word.

The channel sends frame after frame. It flips bits of a sync word (`Damages`), its phase
`Slip`s, and a `Gap` goes from any symbol to any other; a stop of any block in front of
the deframer is a gap to it. Errors in the data of a frame are the business of the coders.
`dirty`, `calm` and `disturbed` are ghosts: whether something happened to the frame at
hand, how many frames in a row nothing happened to, and whether something happened
since the last frame was put out.

| property | says |
|---|---|
| `TypeOK` | types, and `recv` and `outCount` add up to the frame |
| `BackInStep` | after any disturbance the second undisturbed frame is put out, whole and in its own phase |
| `GarbageHasCause` | between two disturbances at most one frame comes out that was never sent |

### ReedSolomon and FrameCodec

`ReedSolomon` has the functions of `libcorrect/src/reed-solomon` under names of their
own: the tables of the field (`Exp`, `Log`), arithmetic in elements and in logarithms,
polynomials with their tables of powers, the generator, the encoder, and the
decoder as functions on a record `rs` that has the decoder's buffers as fields:
`Syndromes`, a turn of Berlekamp-Massey (`LocatorTurn`: `Lengthened` or `Adjusted`),
the search for roots (`Factorize`), `Locations`, the evaluator and Forney's values
(`Values`), `Repair`. The field is a parameter, `BITS`: in the code an element is a byte, the
field has 256 elements, and NROOTS is 32. The exclusive or (`Xor`) is the element whose bits
are the sums of two bits. Two assumptions say what the code takes for granted of its numbers:
`PrimitiveAssumption`, that the powers of alpha are all elements ("assume alpha is a primitive
element", `field.h:35`), and `GapAssumption`, that a root tells where its error is (the gap is 1
in RyFi). TLC evaluates both on the instance.

`FrameCodec` sends frames: `encode` makes and interleaves the blocks and scrambles
them, `Hit` damages one symbol after the other within `Hits`, and the decoder takes one
block at a time: `BeginBlock` (which also says whether it is clean), `FindLocator` once
per turn, `FindRoots`, `FindValues`, `RepairBlock`. A block that cannot be corrected
drops the frame at once, and the decoder keeps what it had found so far for the
next frame, as the code does. For a locator of the largest order the search reads one power more
than the element's row of the table has (`decode.c:130-136`, `decode.c:291`). The rows are
allocated one by one and what is behind one is not known: any element but 0 may then be taken
for a root or missed (`Found`). So there may be more roots than the locator's order, up to 255, and
the search writes each of them to `error_roots`, which has twice NROOTS entries (`decode.c:136-138`,
`decode.c:267`), before it compares their number with the order. A search that runs over the end is
`OverrunRoots`; what it overwrites is not known, so the model ends there (`pc = "overrun"`).

| property | says |
|---|---|
| `Corrected` | up to half as many wrong symbols per block as there is parity, wherever they are: the frame arrives, whatever the frame before it left in the decoder; only beyond that is one dropped, or are roots written behind their buffer |
| `RepairedIsWord` | what the decoder repairs is a word of the code, also beyond that, unless the locator has order NROOTS |
| `InBounds` | types; the locators stay in their NROOTS + 1 coefficients and all located symbols in the block; the roots are no more than the locator's order, so within their buffer, unless that order is NROOTS |

### ConvCode and ConvCodec

`ConvCode` is the register with its output `Table` and the encoder, whose tail of
ORDER + 1 sets empties the register. `ConvCodec` is the decoder set by set: `DecodeWarmup`,
`DecodeInner` and `DecodeTail` are the three phases of `_convolutional_decode`; each ends
with `error_buffer_swap` (`Swapped`), the last two go through
`history_buffer_process_skip` (`Process`), which renormalizes when its counter is due and
writes the older bits when the ring is full; `Flush` writes the rest, and only whole
bytes leave the bit writer. Distances are added modulo `DISTANCE_MAX` + 1. Messages are long enough for the three
phases (`LongEnough`), as the block of a whole frame is. A sample is -1, 0
or 1 on the air (-2 and 2 are clamped) and becomes a soft value by `ToSoft`, the
conversion of `ConvDecoder::decode` on a coarser scale. The table of pairs of outputs
and the bit reader are modelled by what they compute.

| property | says |
|---|---|
| `ClosestDecoded` | a message that is closer to what arrived than any other comes out whole, by the sets whose distances the decoder keeps |
| `ClosestOfAllDecoded` | the same by all sets: does not hold, see the findings |
| `NoWrap` | the metrics that are read never exceed what a `distance_t` holds with one more set, although the counter for renormalizing outlives the block |
| `TypeOK` | types, and the cursors of the ring and of the two buffers |

`ClosestDecoded` speaks of few changed samples only (at most two of a message, or a
stretch of silence): the decoder decides about a bit MIN_TRACEBACK sets after it, so
that with much noise it may differ from the decoder that waits to the end.

### Device, the drivers and App

`contexts`, `refCount`, `txWorkStarted`, `running`, `txStage` and `off` have the names of
the code; `ctx` and `running` hold for each half what the two objects hold. A
context with reference count 0 is not in the driver's map. `on` says whether the channel
or the stream of a half is on, `rate` at which rate it samples. `stop` is split at its
join (`TellRX`, `JoinRX`), `start` of the RFNM transmitter between turning the channel
on and starting the workers, because it may fail between the two. The receiving worker
waits for the radio or in `swap`; a read that times out changes nothing. The transmitting
worker takes a buffer (`TxRead`); what it does with it is the driver's: RFNM queues or
drops it in chunks of whole granules (`TxQueue`, `TxDrop`) and erases what is done
(`TxErase`), the others send it at once, in part or not at all (`TxSend`). Samples are
numbers, in the order in which they are made; 256 is `GRANULE`,
`RFNM_USB_TX_PACKET_ELEM_CNT` is `PACKET`.

The drivers differ in what fails and where. The halves of an RFNM device share one clock
(`RFNMSetRate`), its transmitter's constructor may throw and its start may leave the
channel on. Both constructors of a BladeRF may throw with the context acquired;
its workers look at no error. A USRP has no running flag, stops whatever there
is, and its workers die of exceptions. A LimeSDR only receives, and its best rate is -1:
`MakeModem` shows what that comes to. `lowPass` makes no taps for it, and `FIR::init` clears a
buffer of -1 samples, so the program crashes before the device is started; its start,
stop and worker are therefore not modelled.

`App` is the main thread as a program counter; each value is the next call. Every step of
the start-up may also fail (`Throw`, with what had been done by then: `LeftBehind`), `Unwind`
destroys the objects in reverse order, and an
`Interrupt` comes at any time: it sets `run` while the handler is installed and ends
the process otherwise, so a second one gets out of a shutdown that hangs. The blocks only
run or do not (`dsp`): what happens between them is `Pipeline`, that a block can always be
stopped is shown there. What is not shown there is a block that is *destroyed* while it runs, and
that happens when the RX or TX device fails to start: `tx` is destroyed with the stream whose
condition variable `agc` sleeps on (`transmitter.h:71`, `stream.h:72-73`), `agc` is stopped by its destructor
afterwards and uses that stream, and `~block` stops the thread of an object whose derived part is
gone (`block.h:20-24`). This is undefined, so with blocks running main may go on, wait for ever
(`hung`) or crash (`aborted`): `UnwindRunning`, besides `Unwind`.

| property | says |
|---|---|
| `TypeOK` | types, and the cursor stays inside the staged samples |
| `RefsBalanced` | a context counts the halves that hold it; one reference too many only where a constructor threw; TX workers run only for a running half |
| `QuietExit` | when `main` returns nothing runs, nothing is open, and nothing is on but the channel of an RFNM transmitter whose start failed |
| `UsersProvided` | workers, blocks and the sender thread find the other end of their stream running and its owner alive, and the TUN interface open |
| `TxAccounted` | samples go out once and in order; each is sent, dropped or waits |
| `RateKept` | a running half of an RFNM device or a BladeRF samples at the rate its modem was made for, also when the halves share a clock; only a LimeSDR takes the program down |
| `Terminates` | once the sender thread has ended the shutdown comes to its end, whatever happened to the devices' workers, and so does a start-up that fails before the blocks run; one that fails with the blocks running stops the device and comes to the destruction of the objects, and no more is promised |

## 3. Runs

| run | question | bounds |
|---|---|---|
| `link_loss` | is the link the packet service when losses are shorter than the counter's range and the receiver is restarted? | frames of 4 bytes, counter mod 3, up to 2 losses in a row, 3 packets of 1 or 4 bytes, queue of 2, one restart of the receiver |
| `link_restart` | what do restarts of the sender, and losses of exactly the counter's range, cost? | counter mod 2, 3 packets, up to 2 losses in a row, one restart of the sender |
| `link_live` | does everything arrive when nothing is lost? | frames of 5 bytes, packets of 0 or 4 bytes |
| `link_splice` | *finding*: is a partial packet always cancelled at a gap? | as `link_restart`, but 2 packets and one loss in a row |
| `stream` | safety of the stream, refinement of the hand-off, and does anybody wait forever? | two values, any number of swaps, stops and restarts |
| `pipe` | order and losses in a chain under stops; does every stop return and the chain resume? | 5 blocks (device, doubler, null sink, decoder, receiver), 2 items, 2 stops |
| `frame_sync` | is the real sync word found, and nothing taken for it? | 32 symbols of sync, 2 of data; 0, 5 or 6 wrong bits; slips between frames; stops |
| `frame_gap` | what does a gap or a slip at any point cost? | 7 symbols of sync, 6 of data; one gap or slip within a frame, any number between frames; stops |
| `app` | is everything counted, stopped and ended, at the right rate, whatever fails? | 5 devices of 4 drivers, 11 command lines, 7 samples, granules and packets of 2 samples, buffers of 1 to 4 |
| `frame_codec` | is a damaged frame corrected, whatever happened to the one before it? | field of 8 elements, 3 symbols of parity, 2 blocks; first frame: any 4 of 4 places, 3 values; second: any 2 symbols |
| `conv` | does the closest message come out, and do the metrics fit? | 3 bits of register, ring of 7 slices, soft values 0 to 7; a long message in noise, one set changed, then any two samples |
| `conv_first` | *finding*: by all sets? | as `conv` |

Why the bounds are enough: with frames of 4 bytes a packet of one byte (3
serialized) leaves the one byte that no header fits in, two packets follow each
other in a frame and a packet of 4 bytes (6 serialized) starts in one frame and
ends in the next, with its header at any offset, the last two bytes included.
Frames of 5 bytes add the other parities. Three packets are enough for one to be
lost, one to be spliced and one to show that the receiver is back in step. Noise
frames flow without a bound, since no variable counts them. The stream has no
bound at all besides the number of values. In `pipe` two stops let a block
be stopped again after a restart, or two neighbours in either order; two items
wait for each other wherever a block or a reader is stopped. The run says
`CHECK_DEADLOCK FALSE` because items and stops are bounded: a chain that delivered
everything rests.

`frame_sync` has the program's sync word and threshold: 5 wrong bits are the most that
is accepted, 6 the fewest that hide a sync word. Its data is short, because what matters
is the register, which sees the old sync word, then the new one, in any two phases. In
`frame_gap` the data is nearly as long as the sync word, so that a countdown that is off
swallows all or part of one. The frames of both runs do not look like a sync word at any
offset; that real frames do not is the task of the scrambler (a chance of about
2 in 10^12 per symbol).

In `app` the two halves may ask for one device, for two, or for the first one found, of one
driver or of two; the drivers' rates are all different and none is the minimum, so that a rate
taken from the wrong half shows. Buffers are longer and shorter than a granule and than a packet, so
every remainder is left behind and carried on. Start and stop happen once, as in `main`.

In `frame_codec` one error in a block can be corrected, two, three or four confuse the decoder, and
there is still a message of four symbols. With three symbols of parity the field's seven elements
but 0 are more than the six entries of the roots' buffer, so a locator of the largest order runs over its end, as
it may in the code (255 and 64); with four they are not, which is why the run does not have four. The first frame is hit in places of the first
block only, with errors that leave the decoder at every stage of giving up or with a wrong repair; the
second frame anywhere. The same properties were checked with two and with four symbols of parity, where
two errors in a block are corrected; `CodecCorrected` proves the correction for any number. In `conv` the sizes are scaled together: a ring of 7 slices is filled and
traced back several times in a long message, the counter for renormalizing (every 5 sets) comes
round in each message and at different sets, and 83 leaves the metrics the room that 65535 leaves
them in the code: after the warm-up of a message, whose sets are not counted, and an interval
they still fit. Three bits of register keep the search over all messages that
`ClosestDecoded` compares with small.

Fairness: in `link_live` the two workers and the physical layer (weak: each is a
loop of a thread that only waits for its stream). In `stream` the two
workers (strong, since each locks a mutex that others take: it is assumed that
a thread waiting for a mutex gets it at some time) and the threads inside `stop`
(weak). In `pipe` each worker and each `stop` in progress (weak: that a block
does not sleep on a stream for good is what `stream` shows). Calls of `send`,
`start` and `stop` are never assumed; `Flow` speaks only of behaviours in which all
blocks run in the end. The source of a pipeline always has an item to make: a radio
that stops delivering samples is another question. In `app` the main thread, the workers of the devices and the sender
thread with a packet in hand go on (weak: each only waits for conditions that stay true). For
the receiving worker this says that the radio goes on delivering samples or reports an error:
`stop` waits for a worker that sees the flag only in `swap` (`rfnm.cpp:150`, `usrp.cpp:91-97`), so
a device that falls silent without an error would hold it up. A BladeRF needs no such assumption:
its worker goes to `swap` after a timeout, too. That a packet arrives at the TUN interface, or
an error, or an interrupt, is not assumed.

Each property of a passing run has a mutant: an operator named for the bug and
marked `Mutant` in the module, which takes the place of the definition behind it
and makes TLC report that property.

## 4. Findings

* `link_splice`: `receiver.cpp:96-103` says that the partial packet is cancelled
  "if the frames aren't consecutive". What is compared is a counter, and a sender
  that is stopped and started counts from 0 again (`transmitter.cpp:97`). When its
  counter happens to be the one expected, bytes of a new packet are appended to the
  old partial one and the mix goes to `onPacket`. `link_restart`
  shows the other half: the damage stays in that packet.
* `conv_first`: `error_buffer.c:9` keeps "two error metrics, one for last round and one for
  this", but the first `error_buffer_swap` (`error_buffer.c:39-43`) hands out the buffer that
  was read, which is all zeros, once more. The distances of the first set of every block are
  dropped, and when that set decides between two messages the wrong one may come out. With
  `conv`: that is all that is lost.

More things met while modelling, without a run of their own:

* `main.cpp:259` says "Ready! Press CTRL+C to stop.", but after the interrupt `main` waits for the
  sender thread (`main.cpp:266`), which is blocked in `read`: line 265 has "TODO: Stop sender
  thread". `Terminates` says what holds once that thread has ended.
* A LimeSDR as receiver crashes the program: `limesdr.cpp:44` answers -1 where `device.h:36` asks for
  the best samplerate "given a minimum required samplerate" (`RateKept` says that no other device
  does).
* `usrp.cpp:31` says "Prevent the rate from going under the minimum samplerate", but the
  comparison is one of integers: for a baud rate that is not a whole number the rate is cut off below the
  minimum. A BladeRF's best rate is below the minimum when the minimum is above its range
  (`bladerf.cpp:44`). The instance has neither case.
* `transmitter.h:48` says that `send` returns "True if the packet was send". A packet without content is
  queued, true is returned, and the worker throws it away. `main.cpp` never sends one.
* `decode.c:132` of the Reed-Solomon decoder says "we need at most n powers, where n is the largest
  possible degree", but a polynomial of degree n has n + 1 coefficients: for a locator of order NROOTS the table is
  read one element behind the end of a row. What is there decides which elements are roots, so there may be more
  of them than NROOTS, and `decode.c:136-138` writes them all: more than 64 run over the end of
  `error_roots`. `frame_codec` reaches this (`OverrunRoots`); `Corrected` and `InBounds`
  say that it takes a block with too many errors and a locator of that order.
* `rfnm.cpp:298-299` says that discovery only runs from the `--list` command, but `selectDevice`
  (`device.cpp:93`) calls `list` for a device without an identifier.
* When the RX or TX device fails to start (`main.cpp:239-245`) the blocks are destroyed while their
  threads run, first of all the stream that `agc` sleeps on. Whether the program then ends, hangs or crashes is
  left to the platform (`UnwindRunning`); `UsersProvided` and `Terminates` leave this case out.

## 5. Proofs

Everything proved holds for every value of the constants that satisfies the named
assumptions of the modules, and for any number of steps. A theorem that needs more of the
constants says so in front of `Spec`. Each inductive invariant was checked by TLC on the runs'
instances before it was proved.

### The stream (`StreamProofs`; uses only that `Empty` is not a data value)

| theorem | says |
|---|---|
| `TypeCorrect` | `Spec => []TypeOK` |
| `Exclusion` | `Spec => []BufferExclusion` |
| `Token` | `Spec => []OneToken` |
| `Wakeups` | `Spec => []NoLostWakeup` |
| `Refinement` | `Spec => ImplementsHandoff` |

The argument is one inductive invariant, `Inv`. `OneToken`, the idea of the
algorithm, is not inductive alone. It needs `Mutexes` (a thread between the test of
a flag and its act on it holds the mutex, so the flag cannot have changed),
`Protocol` (a reader between `read` and the end of `flush` has `dataReady` set, so
the writer cannot swap; a worker is restarted only when it was joined) and, for the
refinement, `Values` (what is announced is in the reader's buffer). Two buffers that
differ and one token give `BufferExclusion`. `NoLostWakeup` is inductive relative to
`Inv`: the only step that makes a condition true is followed by its notification.
In the refinement the step that swaps the pointers is the abstract `Put`, the
reader's `Use` is `Get`, and all others, stops included, are stutters.

### The transmitter (`LinkProofs`, first part; `FormatAssumption`, `TransmitterAssumption`)

| theorem | says |
|---|---|
| `TransmitterInvariance` | `LinkSpec => []TxInv`, which contains `TxTypeOK` |
| `FramesAreWellFormed` | `LinkSpec => []FrameWellFormed` |

`FrameWellFormed` speaks of frames that were handed over, so the invariant has to
say what a frame is like while it is filled. `Packed(f, n)` is well-formedness of the
first `n` bytes: they are chained, no header starts at the last offset, and the
pointers name the first and last header among them. The worker's frame is packed up
to `frameOffset`; a packet that is cut has `pktWritten` of `pktToWrite` bytes out; the
last byte in a frame that is not full is the end of a packet (`LastByte`); and the
queue holds packets in increasing order, all behind the current one (`QueueOrder`), which
is what makes the ids in a frame grow. `PackStart`, `PackMore` and `PackNoise` say that
the three ways in which the worker adds bytes keep a frame packed;
`PackedWellFormed` that a frame packed to its end is well formed. The content of the
frame *behind* `frameOffset` is not constrained at all: the code reuses one frame
object, and what an earlier frame left there is always overwritten.

### The receiver and the link (`LinkProofs`, second part; also `LinkAssumption`)

| theorem | says |
|---|---|
| `LinkInvariance` | `LinkSpec => []LinkInv` |
| `LinkTypes` | `LinkSpec => []TypeOK` |
| `HeadersAreAligned` | `LinkSpec => []HeaderAlignment` |
| `PacketsAreWhole` | `LinkSpec => []Integrity` |

Whether a packet is whole is decided at the sender's and the receiver's ends at different
times, so `LinkInv` has a part for each end and one for the way between. At the sender: `TxInv`,
every byte belongs to an accepted packet with content (`SenderBytes`), and the worker goes on where the
last frame ended (`SenderRuns`). On the way (`Seams`): any two frames that follow each other, the
receiver's last frame and the one the worker fills included, meet: the
second goes on with the packet the first one leaves open, or starts with a new one, and their
counters are one apart if they are of one run of the worker. At the receiver:
`Cursor` says that extraction stands in front of a header or right behind one, except in front of the
frame's first packet; `Partial` that the partial packet is never complete; and `Prefix` that it is a
beginning of the packet whose next byte is at the cursor, unless it is tainted.
`HeaderAlignment` follows from `Cursor` alone, since a well-formed frame has a header wherever a
packet ends and another one follows. `Integrity` needs the whole: a consecutive counter means that the frames meet
when none was lost between them and the sender was not restarted, and if not, `tainted`
is set. `RunOfPacket` is the lemma about frames behind it: from one byte of a packet on, a
frame has the packet's bytes in a row.

### The service (`LinkProofs`, third part)

| theorem | says |
|---|---|
| `ServiceInvariance` | `LinkSpec => []ServiceInv` |
| `LossIsContained` | `LinkSpec => []LossContainment` |
| `GapsAreNoticed` | `Shown /\ LinkSpec => [](NoticedInv /\ GapsCancel)` |
| `LinkImplementsService` | `Shown /\ (MaxLoss = 0 => MaxRxRestarts = 0) /\ LinkSpec => ImplementsService` |

`LossContainment` is about order: packets that are on their way pass a queue of places
(delivered, the receiver's hand, `rxStream`, `txStream`, the worker's frame, its packet,
the queue), `Route` says that the numbers in each place are below those in the places behind it and that
a packet that is in none of them is harmed or empty. A packet is
found where its *last* byte is. For a step to keep `Route`, what the receiver passes over
must be harmed: that is `Severed` (behind a gap the rest of a packet belongs to a harmed one),
`TailKnown` (a packet that goes on in the next frame is being read, or is harmed) and
`Passed` (so is what is in front of the frame's first packet).

`Shown` is what the comment at `receiver.cpp:96` takes for granted: the sender is not restarted
and fewer frames than the counter has values are lost in a row. Then `Behind` relates the counter that the
receiver has, the one it gets next and the number of frames lost in between, no packet
is ever tainted (`Whole`), and the link implements `PacketService` with the packets'
numbers as their values. `GapsCancel` is the property that the run `link_splice` refutes for a sender
that is restarted; the theorem says that this is the only way, besides a loss of the counter's whole range. The second
hypothesis is about the abstract specification's `Lossy`, which is `MaxLoss > 0`: a receiver that is stopped
gives up the frame in its hand, so a link without losses but with stops of the receiver does not
keep every packet.

### The chain of blocks (`PipelineProofs`; `TopologyAssumption`, `ChainAssumption`)

| theorem | says |
|---|---|
| `PipeInvariance` | `Spec => []PipeInv` |
| `PipeTypes` | `Spec => []TypeOK` |
| `PipeInOrder` | `Spec => []InOrder` |
| `PipeAccounted` | `Spec => []Accounted` |
| `PipeLosses` | `Spec => []OneLossPerStop` |

For any chain or tree of blocks. `Control` says where the controlling thread is and which stop
flags it has set; `Hands` what a block holds at each statement, and that an item that is not
flushed is still in its input stream. `InOrder` becomes inductive as `Rising`: whatever is behind
a stream (in streams further on, hands and sinks) is below what its writer holds
and has not yet given to it. With a doubler that holds of each output on its own, hence
`Given(b, u)`. `Accounted` becomes `Accounts`: what a block gave to an output is still somewhere
behind this output on the way to each sink, or was lost there. An induction over the topology is not needed,
because both speak of everything behind a stream at once and `Upstream`
is closed (`Wiring` and the lemmas on paths). `OneLossPerStop` needs
`Budget`: while the block being stopped has not left its loop, one loss of the allowed number is
still to come; a block that is not being stopped never loses anything.

### The deframer (`FramingProofs`; `FramingAssumption`)

| theorem | says |
|---|---|
| `FrameInvariance` | `Spec => []FrameInv` |
| `FrameTypes` | `Spec => []TypeOK` |
| `FrameSeen` | `Separated /\ Spec => SyncSeen` |
| `FramePutOut` | `FrameSyms = DataSyms /\ Spec => FrameOut` |

`BackInStep` and `GarbageHasCause` depend on the bits: a sync word that resembles itself shifted, or
a payload that resembles it, violates both. They stay with TLC and the code's sync word. What holds for
every sync word are the two steps they are made of. `SyncSeen`: a deframer that is searching and
has pushed the whole sync word, with fewer wrong bits than the tolerance, begins the
frame in the phase the symbols arrive in. `Separated` (twice the tolerance is at most one more than the number
of symbols; 6 and 32 in the code) makes a word that is close to one rotation far from the three others
(`OneRotation`), and then the search, which goes on after a hit and counts from the new rotation, still
ends in this one (`MatchOnly`). `FrameOut`: a frame that is cut where the data begins is the data. Its
invariant, `CopiedSoFar`, needs no history of the countdown, because `airPos` and `Len(writeBuf)`
that differ by the sync word's length say that the copy began with the data.
`FrameSyms = DataSyms` is the hard-coded 8168.

### The application (`AppProofs`; `AppAssumption` and those of `Device`)

| theorem | says |
|---|---|
| `AppInvariance` | `Spec => []AppInv` |
| `AppTypes` | `Spec => []TypeOK` |
| `AppReferences` | `Spec => []RefsBalanced` |
| `AppQuiet` | `Spec => []QuietExit` |
| `AppProvided` | `Spec => []UsersProvided` |
| `AppSamples` | `Spec => []TxAccounted` |
| `AppRates` | `Rateable /\ Spec => []RateKept` |

For any devices of the four drivers, command lines, rates, and sizes of buffers, granules and packets.
`AppInv` says for each statement of `main` what exists. `MainInv`: the
objects alive are the first so many in the order of their declaration, the blocks that run, the sender
thread, the TUN interface. `HoldInv`: the contexts that the halves hold, and of which driver. `HalfInv`: a half runs only
between its `start` and its `stop`, its worker only while it runs, its channel is on only while it
runs, up to the cases the drivers differ in. `RateInv`: the rates were chosen, set, and the context
that keeps them is held; for a shared RFNM clock both halves chose the same. `SampleInv`: the samples in hand are
the last that were read, and the others were sent in order or dropped. `RefsBalanced` and
`UsersProvided` are inductive only together with these. The proof goes by kind of step: each driver's
version of an operation is shown to be of a kind (`Closed`, `StartedTX`, `Queues`, ...) and each part of `AppInv` to survive the kind.

`QuietExit` is not a conjunct: at `ended` it follows from the others. When an interrupt kills the
process, `main` is nowhere (`killed`) and what the invariant says by the statement of `main` is
gone; `UsersProvided` and `RateKept` hold there because they held before and nothing moves any more. `Rateable` says that
the rate asked for is positive and not above the BladeRF's highest: its driver takes its highest rate for
any above it (`bladerf.cpp:44`), so the modem would run below the minimum.

### The convolutional decoder (`ConvProofs`; `ConvAssumption`, `ConvCodecAssumption`)

| theorem | says |
|---|---|
| `ConvInvariance` | `Spec => []ConvInv` |
| `ConvTypes` | `Spec => []TypeOK` |
| `ConvLength` | `Spec => []WholeLength` |
| `ConvNoWrap` | `Roomy /\ Spec => []NoWrap` |

For any order, rate, polynomials, soft values, length of a message and of the ring, and any noise.
`ConvInv` is the bookkeeping: what is on the air is one set of samples for each step of the
register, `Buffers` says which of the two metric buffers is read and which is written (up to the second set
of a block both are the first: the swap that `conv_first` is about), and `Ledger` that the bits put out and
the slices in the ring add up to the sets decoded so far, through early tracebacks as well as without. From
it follows that the cursors stay in the ring and that a message comes out with as many bits as it
went in with (`WholeLength`): the decoder finds two bits more, which stay in the bit
writer because they are not a whole byte. Hence the condition that a byte has more than two bits.

`NoWrap` is about the sizes of metrics. The interval between two renormalizations is as many sets
as fit a `distance_t` if each costs the most it can (`decode.c:285-286`), which would be enough if every set were
counted. The sets of the warm-up are not, and the counter outlives a message. What saves it is that the *best* path is much
cheaper than the worst. `Spread`: two registers that agree in all bits but the newest k have metrics that differ by
at most k sets, since they have a common past. `Cheap`: one register has a metric of at most `Bound`, which
is half a set for each set of its `Age`, and so have those kin to it. The half is where the polynomials come in: if
all of them see the newest bit (`OddPolynomials`), the two ways to go on differ in every
bit of the set, their distances add up to a whole set, and the cheaper one costs half of it at
most. `Roomy` asks a `distance_t` to hold that, with ORDER whole sets above it. RyFi's polynomials, 0161 and 0127,
are odd, and its numbers are 127 * 255 + 7 * 510 = 35955 of 65535. In the last ORDER sets
of a message only the paths that lead to zeros are alive, so half a set is not promised any more (`Ruled`).

### The Reed-Solomon stage (`FrameCodecProofs`; `RSAssumption`, `PrimitiveAssumption`, `GapAssumption`, `FrameCodecAssumption`)

| theorem | says |
|---|---|
| `CodecInvariance` | `Spec => []CodecInv` |
| `CodecInBounds` | `Spec => []InBounds` |
| `CodecTransparent` | `Spec => []Transparent` |
| `CodecUndisturbed` | `Spec => [][Undisturbed]_vars` |
| `CodecWholeFrame` | a delivered frame has a whole message for each block |
| `FieldLaws` | `Mul`, by tables of powers and logarithms, and `Add`, bit by bit, obey the laws of a field (`DivLaws` has the inverse) |
| `EncodeWord` | a block as `Encode` makes it is 0 at every root of the code |
| `CodecRepairs` | `Spec => []RepairInv` |
| `CodecCorrected` | `Spec => []Corrected` |
| `CodecWordInvariance` | `Spec => []WordInv` |
| `CodecRepairedIsWord` | `Spec => RepairedIsWord` |

For any field with a primitive element, any number of symbols of parity, blocks and scrambling sequence, and
whatever the channel does to the symbols. The decoder's buffers are not looked after by checks, and that
they suffice is not obvious in three places. The loop of Berlekamp-Massey shifts a locator by a delay that only grows until
it is reset, and never looks at the size of the buffer; `Progress` says what keeps it inside:
with t turns done, the number of errors is at most t and at least the locator's order, and the last locator's order and
the delay together are at most t + 1 less that number. The comment at `decode.c:71` ("we have a headroom of numerrors") is
this. It also says that the order is 0 only as long as all syndromes were, and since a block comes to the roots only with a syndrome
that is not 0, there is a derivative to take (`OrderOfLocator`). The second place is a
logarithm that is no place in a block: that of 1. The search for an error's location begins with 0, whose entry
in the table of logarithms is 0, too, so where the answer is 1 it has already stopped at 0 (`LocationType`). The third is the roots: nothing counts them as
they are written. A locator begins with 1 (`Fits`), so it has no more roots than its order (`RootCount`), as long as the
tables have all of its powers (`CodecFits`). For the order NROOTS they have not, and no bound is proved
because there is none. `InBounds` names this exception.

`Transparent`: a block that the decoder works on is the block that was encoded plus the damage done to its own symbols.
Every place on the air is one symbol of one block (`Cells`), and scrambling twice is nothing, because the elements are a
group in which each is its own inverse (`AddGroup`, from the bits of `Xor`). `Undisturbed` follows with
`EncodeType` (the message stands unchanged in front of its parity): a block that was not struck and that
its syndromes find clean is delivered as it was sent, whatever happened to the blocks it is interleaved with. The
definitions `Progress`, `CodecInv`, `Transparent` and `Undisturbed` are in the module of the proofs; TLC
checked them on the instance of `frame_codec` with four symbols of parity.

#### That the decoder corrects

`Corrected` says that a frame with at most NROOTS / 2 wrong symbols in each block is delivered as it
was sent, and that one is dropped only where more are wrong; `RepairedIsWord` that what the decoder
repairs is a word of the code also where more are wrong (unless the locator has order NROOTS, where
it reads past its tables). Both are proved from the bits up:

1. *The field* (`FieldLaws`). The tables of `field.h` are built by doubling, with the primitive
   polynomial taken off where a bit falls out, so doubling is linear (`DoubleLinear`).
   `Mul(x, Exp[n + 1])` is the double of `Mul(x, Exp[n])` (`MulNext`), and every element but 0 is a
   power (`EveryPower`): distributivity and associativity follow by running through the powers.
2. *The encoder* (`EncodeWord`). A factor x + root multiplies the value of a polynomial
   (`LinearFactor`), so the generator is 0 at every root (`GeneratorRoots`); a division takes a
   multiple of it away (`DividedValue`); so message and remainder together are 0 there.
3. *The syndromes* (`SyndromeSum`). They are sums of powers: each error, weighted by its place
   (`Weights`), times the place's power, because the root of number l to the power m is, but for
   FIRST_ROOT, the place m to the power l (`Crossed`). From here on `y` are any weights whose power
   sums are the syndromes.
4. *Berlekamp-Massey* (`TurnExplains`). `Explains(r, y, t)`: the locator makes the sums of the turns
   before t vanish, the last locator those before the turn it was given up in, where it missed by
   the last discrepancy, and the order is at most the number of errors. A discrepancy is a power sum
   of the weights times the locator's values (`Convolution`, `DiscrepancySum`), and a turn is a
   combination of two such sums (`TurnSum`). As many sums in a row as there are weights determine
   them (`Vandermonde`, by taking a place away with `AwaySum`), so a locator that explains a long
   enough run of them has a root at every error and misses no more (`Massey`): one that does miss
   had to grow, and never past the number of errors. After the last turn, with at most NROOTS / 2
   errors, the locator has a root at each of them and no others (`ExplainsSolves`, `RootCount`,
   `FoundErrata`).
5. *Forney's formula* (`Forney`). The error evaluator at an error's root is that error times the
   product of the other factors (`OmegaAt`, `OmegaRoot`), and so is the formal derivative without
   the error (`DerivativeAt`, from the terms of odd order in pairs, `OwnFactor`). Their quotient is
   what `Values` stores, at the place `Locations` finds (`ValuesMended`), and adding it again leaves
   what was encoded (`RepairMends`).

`RepairInv` puts this along the decoder's steps: after the syndromes, what was received is what was
sent plus the noise and the syndromes are the noise's power sums; in turn t, `Fits`, that is
`Explains` for *all* weights that explain the syndromes; after the roots and the values, where the
block can be corrected, that these are the errors; and that the messages written so far are those
sent, for each such block. `Fits` says "all" because it is then true of any block, also one with too
many errors, which has many explanations.

For a block that was struck too often (`WordInv`) there is no one set of errors to find. The decoder
goes on only if the locator has as many roots as its order. Then there are errors at exactly these
places whose first sums are the syndromes (`Solvable`: the map from weights to sums is one to one by
`Vandermonde`, so onto, as the sets are finite: `OntoItself`), the locator's recurrence carries the
agreement on to the other syndromes (`ExplainsRecurs`, `Continued`), and since `Fits` speaks of
these errors too, no place is without one (`Credible`). So Forney's formula gives them, and what is
left after the repair has no syndromes (`RepairWord`).

TLC checked `RepairInv` and `WordInv` on the instance of `frame_codec` with four symbols of parity and on one with GAP = 3 and
FIRST_ROOT = 2 before they were proved. Nothing is assumed of the numbers but what the named
assumptions say: that the polynomial is primitive, and that raising to the power GAP reaches every
element, so that the places of a block differ.

### Induction

The library's induction theorems take an operator as a parameter, which the installed provers cannot
instantiate. `Induction` states facts about sets and functions instead. A set with a member has a least one
(`LeastNat`); a set that has 0 and with each number below `n` its successor has all up to `n` (`UpTo`), proved from the
theorems about finite sets. An induction is then a proof that a set defined by comprehension is
closed (`RunOfPacket`, `RestIsNoise`). A recursive function over an interval, given as a table of steps, exists and has the type
its steps preserve (`Recursion`, `Unrolled`): that is how the recursive functions of the two codes, which TLA+
defines by `CHOOSE`, get their equations and types (`XorSumType`, `RemainderType`, `RepairType`, `DistanceSums`). Division with a
remainder is there because the provers know nothing of a quotient by a variable.

### Only model-checked

* Liveness: `Arrival`, `StopTerminates`, `DataIsRead`, `SwapReturns`, `StopReturns`, `Flow`,
  `Terminates`. Fairness and `ENABLED` are out of the prover's reach.
* `BackInStep` and `GarbageHasCause`, which hold for some sync words and payloads only.
* `ClosestDecoded`, which holds for few changed samples only: how many an early traceback stands depends on
  the polynomials.

## 6. Plan

1. *done*: `FrameFormat`, `Transmitter`, `Receiver`, `Link` with `PacketService`;
   `Stream` with `Handoff`; proofs of `Stream` and of the transmitter's frames.
2. *done*: `Pipeline`. Left: `tempStop` and `setInput`, and a block that makes
   several buffers, or none, of one.
3. *done*: `Framing`. Left: the length 8168 against the sizes of the coders (with
   `FrameCodec`).
4. *done*: `ReedSolomon` and `FrameCodec`, `ConvCode` and `ConvCodec`. Left: the sizes along the
   chain of the real frame, and how the interleaving spreads a burst over the blocks.
5. *done*: `Device`, `RFNM`, `BladeRF`, `USRP`, `LimeSDR` and `App`. Left: the list caches, a second
   start of a device after a failed `tx_qbuf` (the program does neither).
6. *done*: proofs of `Link` (header alignment, integrity, containment of losses, refinement of
   `PacketService`), `Pipeline`, `Framing`, `App`, of the convolutional decoder's bookkeeping and
   metrics, and of the Reed-Solomon stage: bounds, interleaving, the algebra of the code, correction. Left: how
   many changed samples an early traceback of the Viterbi decoder stands; an action
   property of the transmitter's queue and of the drivers' shared clock.

## 7. What is not modelled

Floating-point signal processing, the vendor libraries of the radios, the command line,
logging and benchmarks. Of the link: frames that are decoded wrongly. Of the stream:
allocation of the buffers (`setBufferSize`, `free`) and more than one thread at an end, which
the program does not have. Of libcorrect: decoding with erasures, hard decisions and the
quadratic metric, which RyFi does not call, the SSE variants, which it does not call either, and
the tools that look for polynomials. Of the drivers: gains, antennas, filters, frequencies,
parsing of identifiers, and that UHD may round a rate. Of the packets: the heap buffer that
`Packet` owns, which is copied and moved but never shared.
