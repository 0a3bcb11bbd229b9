------------------------------ MODULE ConvCodec ------------------------------
(***************************************************************************)
(* The convolutional stage of the modem: ConvEncoder sends messages, the   *)
(* channel changes samples, and ConvDecoder finds the message again with   *)
(* the Viterbi decoder of libcorrect, one instance of it for all messages. *)
(***************************************************************************)
EXTENDS ConvCode

CONSTANTS
    BYTE,               \* bits that the writer counts as a byte, 8 in the code
    DISTANCE_MAX,       \* distance_max: what a distance_t can hold
    MIN_TRACEBACK,      \* 5 * order in the code
    GROUP,              \* traceback_length, 15 * order in the code
    Traffic             \* the first message, the second, ... is one of `sent`; at most
                        \* `most` samples of the sets `at` become one of `by`, or all
                        \* samples of one of `fades` become 0

CAP == MIN_TRACEBACK + GROUP
\* Mutant: the rate is forgotten.
IntervalPerBit == DISTANCE_MAX \div SOFT_MAX
INTERVAL == DISTANCE_MAX \div (RATE * SOFT_MAX)      \* renormalize_interval
HIGHBIT == Pow2[ORDER - 1]
Paths == 0 .. HIGHBIT - 1           \* states with the oldest bit left out

\* Whole bytes, and room for the three phases of the decoder.
LongEnough(m) == Len(m) % BYTE = 0 /\ SetsOf(m) >= 2 * ORDER - 2

ASSUME ConvCodecAssumption ==
    /\ BYTE \in Nat \ {0} /\ MIN_TRACEBACK \in Nat \ {0} /\ GROUP \in Nat \ {0}
    /\ DISTANCE_MAX \in Nat /\ INTERVAL > 0
    /\ Len(Traffic) \in Nat /\ DOMAIN Traffic = 1 .. Len(Traffic)
    /\ \A n \in DOMAIN Traffic :
          /\ Traffic[n].by \subseteq Int
          /\ \A m \in Traffic[n].sent : m \in Seq({0, 1}) /\ LongEnough(m)

VARIABLES
    pc, frameNo,        \* where the message is, and which one it is
    msg, air,           \* what was sent and the samples that arrive
    struck,             \* the samples that were changed
    i,                  \* the set that is decoded next
    errors,             \* error_buffer_t: two buffers, and which is read and written
    history,            \* history_buffer: a ring of slices
    out                 \* the bits that were written

channel == <<frameNo, msg, air, struck>>
vars == <<pc, channel, i, errors, history, out>>

Sets == Len(air)

TypeOK ==
    /\ pc \in {"idle", "air", "decode", "flush", "done"}
    /\ frameNo \in 0 .. Len(Traffic)
    /\ i \in 0 .. Sets
    /\ errors.buffer \in [0 .. 1 -> [States -> 0 .. DISTANCE_MAX]]
    /\ errors.index \in 0 .. 1 /\ errors.read \in 0 .. 1 /\ errors.write \in 0 .. 1
    /\ history.slice \in [0 .. CAP - 1 -> [Paths -> {0, 1}]]
    /\ history.index \in 0 .. CAP - 1 /\ history.len \in 0 .. CAP - 1
    /\ history.counter \in 0 .. INTERVAL - 1

----------------------------------------------------------------------------
(* The sender and the channel. *)

NoErrors == [buffer |-> [b \in 0 .. 1 |-> [s \in States |-> 0]],
             index |-> 0, read |-> 0, write |-> 1]

Init ==
    /\ pc = "idle" /\ frameNo = 0
    /\ msg = <<>> /\ air = <<>> /\ struck = {}
    /\ i = 0 /\ errors = NoErrors /\ out = <<>>
    /\ history = [slice |-> [k \in 0 .. CAP - 1 |-> [s \in Paths |-> 0]],
                  index |-> 0, len |-> 0, counter |-> 0]

Modulate(sets) == [n \in DOMAIN sets |-> [j \in 1 .. RATE |-> 2 * sets[n][j] - 1]]

Send ==
    /\ pc \in {"idle", "done"} /\ frameNo < Len(Traffic)
    /\ pc' = "air" /\ frameNo' = frameNo + 1
    /\ msg' \in Traffic[frameNo'].sent
    /\ air' = Modulate(Encode(msg')) /\ struck' = {}
    /\ UNCHANGED <<i, errors, history, out>>

Hit ==
    /\ pc = "air" /\ Cardinality(struck) < Traffic[frameNo].most
    /\ \E n \in DOMAIN air \cap Traffic[frameNo].at, j \in 1 .. RATE, x \in Traffic[frameNo].by :
          /\ \A s \in struck : RATE * s[1] + s[2] < RATE * n + j
          /\ x # air[n][j]
          /\ air' = [air EXCEPT ![n][j] = x]
          /\ struck' = struck \cup {<<n, j>>}
    /\ UNCHANGED <<pc, frameNo, msg, i, errors, history, out>>

Fade ==
    /\ pc = "air" /\ struck = {}
    /\ \E fade \in Traffic[frameNo].fades :
          /\ struck' = (fade \cap DOMAIN air) \X (1 .. RATE)
          /\ air' = [n \in DOMAIN air |-> [j \in 1 .. RATE |->
                        IF <<n, j>> \in struck' THEN 0 ELSE air[n][j]]]
    /\ UNCHANGED <<pc, frameNo, msg, i, errors, history, out>>

----------------------------------------------------------------------------
(* The decoder: _convolutional_decode and what it calls. *)

\* A new message: the metrics are cleared, the counter of the history goes on.
Begin ==
    /\ pc = "air" /\ pc' = "decode"
    /\ air' = [n \in DOMAIN air |-> [j \in 1 .. RATE |-> ToSoft(air[n][j])]]
    /\ out' = <<>>
    /\ errors' = NoErrors
    /\ history' = [history EXCEPT !.index = 0, !.len = 0]
    /\ UNCHANGED <<frameNo, msg, struck, i>>

Sum(a, b) == (a + b) % (DISTANCE_MAX + 1)       \* of two distance_t

Read == errors.buffer[errors.read]
Written == errors.buffer[errors.write]

\* Mutant: the index is not taken back to 0.
SwappedOn(metric) ==
    [buffer |-> [errors.buffer EXCEPT ![errors.write] = metric],
     read |-> errors.index, index |-> errors.index + 1, write |-> errors.index + 1]

\* The buffer that was written, and error_buffer_swap.
Swapped(metric) ==
    [buffer |-> [errors.buffer EXCEPT ![errors.write] = metric],
     read |-> errors.index, index |-> 1 - errors.index, write |-> 1 - errors.index]

\* The set at hand has the distance Cost(s) to the output of state s.
Cost(s) == Distance(Table[s], air[i + 1])

\* The register is loaded: a state has one predecessor.
DecodeWarmup ==
    /\ pc = "decode" /\ i < ORDER - 1 /\ i < Sets
    /\ errors' = Swapped([s \in States |->
                     IF s < Pow2[i + 1] THEN Sum(Cost(s), Read[s \div 2]) ELSE Written[s]])
    /\ i' = i + 1
    /\ UNCHANGED <<pc, channel, history, out>>

\* Mutant: paths that the tail has ruled out are searched too.
SearchAll(metric, skip) ==
    LET Least == {s \in Paths : \A t \in Paths : metric[s] <= metric[t]}
    IN  CHOOSE s \in Least : \A t \in Least : s <= t

\* The first of the best paths, out of every skip-th one.
Search(metric, skip) ==
    LET Better(s) == s % skip = 0 /\ metric[s] < DISTANCE_MAX
        Least == {s \in Paths : Better(s) /\ \A t \in Paths : Better(t) => metric[s] <= metric[t]}
    IN  IF Least = {} THEN 0 ELSE CHOOSE s \in Least : \A t \in Least : s <= t

Renormalized(metric, best) ==
    [s \in States |-> IF s \in Paths THEN (metric[s] - metric[best]) % (DISTANCE_MAX + 1)
                      ELSE metric[s]]

\* From a path backwards through the ring: the bit that left the register at every
\* step, from the last to the first.  The latest `depth` bits are not yet certain.
Dropped(h, k, s) == h.slice[(h.index - k) % CAP][s]
Path(h, best) ==
    LET path[k \in 0 .. h.len] ==
            IF k = 0 THEN best
            ELSE (path[k - 1] + HIGHBIT * Dropped(h, k, path[k - 1])) \div 2
    IN  path

Traceback(h, best, depth) ==
    LET path == Path(h, best)
    IN  [k \in 1 .. h.len - depth |-> Dropped(h, depth + k, path[depth + k - 1])]

\* history_buffer_process_skip, after a slice was filled
Process(metric, slice, skip) ==
    LET h == [history EXCEPT !.slice[history.index] = slice,
                             !.index = (@ + 1) % CAP, !.len = @ + 1]
        renormalize == history.counter + 1 = INTERVAL
        best == Search(metric, skip)
        bits == IF h.len = CAP THEN Traceback(h, best, MIN_TRACEBACK) ELSE <<>>
    IN  /\ errors' = Swapped(IF renormalize THEN Renormalized(metric, best) ELSE metric)
        /\ history' = [h EXCEPT !.counter = IF renormalize THEN 0 ELSE @ + 1,
                                !.len = @ - Len(bits)]
        /\ out' = out \o Reverse(bits)

\* Add, compare, select: a state is reached from two, with the oldest bit 0 or 1.
Low(s) == Sum(Cost(s), Read[s \div 2])
High(s) == Sum(Cost(s + HIGHBIT), Read[(s + HIGHBIT) \div 2])

DecodeInner ==
    /\ pc = "decode" /\ i \in ORDER - 1 .. Sets - ORDER
    /\ Process([s \in States |-> IF s \notin Paths THEN Written[s]
                                 ELSE IF Low(s) <= High(s) THEN Low(s) ELSE High(s)],
               [s \in Paths |-> IF Low(s) <= High(s) THEN 0 ELSE 1], 1)
    /\ i' = i + 1
    /\ UNCHANGED <<pc, channel>>

\* Only bits 0 come in: fewer and fewer states are possible.
DecodeTail ==
    /\ pc = "decode" /\ i \in Sets - ORDER + 1 .. Sets - 1
    /\ LET skip == Pow2[ORDER - (Sets - i)]
           old == history.slice[history.index]
       IN  Process([s \in States |-> IF s \notin Paths \/ s % skip # 0 THEN Written[s]
                                     ELSE IF Low(s) < High(s) THEN Low(s) ELSE High(s)],
                   [s \in Paths |-> IF s % skip # 0 THEN old[s]
                                    ELSE IF Low(s) < High(s) THEN 0 ELSE 1], skip)
    /\ i' = i + 1
    /\ UNCHANGED <<pc, channel>>

\* All states but 0 are ruled out.  What does not fill a byte stays in the writer.
Flush ==
    /\ pc = "decode" /\ i = Sets
    /\ LET bits == out \o Reverse(Traceback(history, 0, 0))
       IN  out' = SubSeq(bits, 1, BYTE * (Len(bits) \div BYTE))
    /\ history' = [history EXCEPT !.len = 0]
    /\ pc' = "done" /\ i' = 0
    /\ UNCHANGED <<channel, errors>>

Finished == pc = "done" /\ frameNo = Len(Traffic) /\ UNCHANGED vars

Next == Send \/ Hit \/ Fade \/ Begin \/ DecodeWarmup \/ DecodeInner \/ DecodeTail \/ Flush \/ Finished

Spec == Init /\ [][Next]_vars

----------------------------------------------------------------------------
(* Properties. *)

Messages(len) == [1 .. len -> {0, 1}]
Lengths == {Len(m) : m \in UNION {Traffic[n].sent : n \in DOMAIN Traffic}}
Codeword == [m \in UNION {Messages(len) : len \in Lengths} |-> Encode(m)]

\* What a message costs, by all sets from `first` on.
Costs(m, first) ==
    LET sum[n \in 0 .. Sets] ==
            IF n < first THEN 0 ELSE sum[n - 1] + Distance(Codeword[m][n], air[n])
    IN  sum[Sets]

Closest(first) == \A m \in Messages(Len(msg)) \ {msg} : Costs(m, first) > Costs(msg, first)

(***************************************************************************)
(* A message that is closer to what arrived than any other one, by the     *)
(* sets whose distances the decoder keeps, comes out whole: through the    *)
(* ring and its early tracebacks, through renormalizing at any set, and    *)
(* whatever the message before left (history_buffer.c:105-195).  The first *)
(* set is not kept: after the first error_buffer_swap the buffer that was  *)
(* read is read again (error_buffer.c:39-43).  This holds for few changed  *)
(* samples only, as there are on the air here: the decoder decides about a *)
(* bit MIN_TRACEBACK sets after it, so that in much noise it may differ    *)
(* from one that waits for the end of the message.                         *)
(***************************************************************************)
ClosestDecoded == pc = "done" /\ Closest(2) => out = msg

(***************************************************************************)
(* The same by all sets: "one for last round and one for this"             *)
(* (error_buffer.c:9).                                                     *)
(***************************************************************************)
ClosestOfAllDecoded == pc = "done" /\ Closest(1) => out = msg

\* The states that the next set descends from.
ReadNext ==
    IF i < ORDER - 1 THEN {s \in Paths : s < Pow2[i]}
    ELSE IF i <= Sets - ORDER THEN Paths
    ELSE {s \in Paths : s % Pow2[i - (Sets - ORDER + 1)] = 0}

(***************************************************************************)
(* A metric never passes what a distance_t holds, although the counter     *)
(* that calls for renormalizing does not count the sets of the warm-up and *)
(* is not reset with the metrics (decode.c:285-286,                        *)
(* history_buffer.c:163-175).                                              *)
(***************************************************************************)
NoWrap == pc = "decode" /\ i < Sets =>
             \A s \in ReadNext : Read[s] + RATE * SOFT_MAX <= DISTANCE_MAX
=============================================================================
