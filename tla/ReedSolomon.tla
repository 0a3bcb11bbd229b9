----------------------------- MODULE ReedSolomon -----------------------------
(***************************************************************************)
(* The Reed-Solomon code of libcorrect: the field, its polynomials, the    *)
(* encoder, and the decoder as it works on the buffers of its instance.    *)
(*                                                                         *)
(* BITS stands for the 8 bits of a byte and FIELD for 256: the code has    *)
(* them as numbers, and everything else follows from them.  A polynomial   *)
(* is the array of its coefficients, from 0 to the size of its buffer, and *)
(* an order kept beside it.                                                *)
(***************************************************************************)
EXTENDS Integers, FiniteSets, Sequences

CONSTANTS
    BITS,               \* bits of an element
    PRIMITIVE,          \* the primitive polynomial of the field, as bits
    FIRST_ROOT, GAP,    \* first_consecutive_root, generator_root_gap
    NROOTS              \* num_roots: symbols of parity, min_distance

\* 1 << n
Pow2[n \in 0 .. BITS] == IF n = 0 THEN 1 ELSE 2 * Pow2[n - 1]
FIELD == Pow2[BITS]

ASSUME RSAssumption ==
    /\ BITS \in Nat /\ BITS >= 2 /\ PRIMITIVE \in FIELD .. 2 * FIELD - 1
    /\ FIRST_ROOT \in 1 .. FIELD - 1 /\ GAP \in 1 .. FIELD - 1
    /\ NROOTS \in 1 .. FIELD - 3

Elements == 0 .. FIELD - 1
BLOCK == FIELD - 1              \* block_length
MESSAGE == BLOCK - NROOTS       \* message_length

----------------------------------------------------------------------------
(* The field: addition bit by bit, and logarithms to the base of a         *)
(* primitive element.                                                      *)

Bit(x, k) == (x \div Pow2[k]) % 2
HasBits(z, x, y) == \A k \in 0 .. BITS - 1 : Bit(z, k) = (Bit(x, k) + Bit(y, k)) % 2

Xor == [x \in Elements |-> [y \in Elements |-> CHOOSE z \in Elements : HasBits(z, x, y)]]
Add(x, y) == Xor[x][y]

\* Where doubling makes the bit above an element, the primitive polynomial takes it away.
Exp == LET exp[i \in 0 .. 2 * FIELD - 1] ==
             IF i = 0 THEN 1
             ELSE LET double == 2 * exp[i - 1]
                  IN  IF double > FIELD - 1 THEN Add(double - FIELD, PRIMITIVE - FIELD) ELSE double
       IN  exp

\* Of the two logarithms of 1 the table keeps the later one; 0 stands for log(0).
Log == [x \in Elements |-> IF x = 0 THEN 0
                           ELSE CHOOSE i \in 1 .. FIELD - 1 : Exp[i] = x]

Mul(x, y) == IF x = 0 \/ y = 0 THEN 0 ELSE Exp[Log[x] + Log[y]]
Div(x, y) == IF x = 0 \/ y = 0 THEN 0 ELSE Exp[FIELD - 1 + Log[x] - Log[y]]
Pow(x, n) == Exp[(Log[x] * n) % (FIELD - 1)]
\* The same on logarithms, which stay in 0 .. FIELD - 1; and from them to an element.
MulLog(k, l) == IF k + l > FIELD - 1 THEN k + l - (FIELD - 1) ELSE k + l
DivLog(k, l) == MulLog(FIELD - 1 - l, k)
MulLogElement(k, l) == Exp[k + l]

\* "assume alpha is a primitive element": it has FIELD - 1 powers, of which 1 is the last.
ASSUME PrimitiveAssumption ==
    /\ \A x \in 1 .. FIELD - 1 : \E i \in 1 .. FIELD - 1 : Exp[i] = x
    /\ \A i \in 1 .. FIELD - 1 : Exp[i] = 1 => i = FIELD - 1

\* No two elements have the same power GAP, so that a root tells where the error is.
ASSUME GapAssumption ==
    \A x \in 1 .. FIELD - 1 : \E j \in 1 .. FIELD - 1 : Pow(j, GAP) = x

\* x added to itself n times
Times(x, n) == IF n % 2 = 1 THEN x ELSE 0

\* f[0] + ... + f[n]
XorSum(f, n) == LET sum[i \in 0 .. n] == IF i = 0 THEN f[0] ELSE Add(sum[i - 1], f[i])
                IN  sum[n]

----------------------------------------------------------------------------
(* Polynomials. *)

\* Powers of an element, as logarithms.
PowerTable(x, order) ==
    LET power[i \in 0 .. order] == IF i = 0 THEN Log[1] ELSE MulLog(power[i - 1], Log[x])
    IN  [i \in 0 .. order |-> IF x = 0 THEN 0 ELSE power[i]]

\* A table begins with 0 only if it is the table of 0.
EvalTable(coeff, order, powers) ==
    IF powers[0] = 0 THEN coeff[0]
    ELSE XorSum([i \in 0 .. order |-> IF coeff[i] = 0 THEN 0 ELSE MulLogElement(Log[coeff[i]], powers[i])],
                order)

EvalLogTable(logs, order, powers) ==
    IF powers[0] = 0 THEN (IF logs[0] = 0 THEN 0 ELSE Exp[logs[0]])
    ELSE XorSum([i \in 0 .. order |-> IF logs[i] = 0 THEN 0 ELSE MulLogElement(logs[i], powers[i])],
                order)

\* The product of orders l and r, cut off above order res.
Product(left, l, right, r, res) ==
    [k \in 0 .. res |->
        XorSum([i \in 0 .. k |-> IF i <= l /\ k - i <= r THEN Mul(left[i], right[k - i]) ELSE 0], k)]

\* The divisor, of order NROOTS, is taken from m so that the coefficient of order i goes.
Divided(divisor, m, i) ==
    LET q == DivLog(Log[m[i]], Log[divisor[NROOTS]])
    IN  IF i = 0 \/ i < NROOTS \/ m[i] = 0 THEN m
        ELSE [j \in 0 .. BLOCK - 1 |->
                 LET d == divisor[j - (i - NROOTS)]
                 IN  IF j \in i - NROOTS .. i /\ d # 0
                     THEN Add(m[j], MulLogElement(Log[d], q)) ELSE m[j]]

\* Long division from the highest order down; the remainder is left below NROOTS.
Remainder(dividend, divisor) ==
    LET rest[n \in 0 .. BLOCK] ==
            IF n = 0 THEN dividend ELSE Divided(divisor, rest[n - 1], BLOCK - n)
    IN  rest[BLOCK]

Derivative(coeff, order) == [i \in 0 .. order - 1 |-> Times(coeff[i + 1], i + 1)]

----------------------------------------------------------------------------
(* An instance: correct_reed_solomon_create and the tables of the decoder. *)

Roots == [i \in 0 .. NROOTS - 1 |-> Exp[(GAP * (i + FIRST_ROOT)) % (FIELD - 1)]]

Generator ==
    LET linear(i) == [k \in 0 .. 1 |-> IF k = 0 THEN Roots[i] ELSE 1]
        poly[n \in 0 .. NROOTS - 1] ==
            IF n = 0 THEN linear(0) ELSE Product(linear(n), 1, poly[n - 1], n, n + 1)
    IN  poly[NROOTS - 1]

RootPowers == [i \in 0 .. NROOTS - 1 |-> PowerTable(Roots[i], BLOCK - 1)]
ElementPowers == [x \in Elements |-> PowerTable(x, NROOTS - 1)]

\* The first symbol of a block is the coefficient of the highest order.
Reversed(block) == [i \in 0 .. BLOCK - 1 |-> block[BLOCK - i]]

Encode(msg) ==
    LET poly == [i \in 0 .. BLOCK - 1 |-> IF i < NROOTS THEN 0 ELSE msg[BLOCK - i]]
        parity == Remainder(poly, Generator)
    IN  msg \o [i \in 1 .. NROOTS |-> parity[NROOTS - i]]

----------------------------------------------------------------------------
(***************************************************************************)
(* The decoder.  Its buffers outlive a call; what another call left in     *)
(* them is what this one finds.                                            *)
(***************************************************************************)
Zeros == [i \in 0 .. NROOTS |-> 0]

NewDecoder ==
    [received |-> [i \in 0 .. BLOCK - 1 |-> 0],
     syndromes |-> [i \in 0 .. NROOTS - 1 |-> 0],
     locator |-> Zeros, order |-> 0,
     last |-> Zeros, lastOrder |-> 0, lastDiscrepancy |-> 1,
     numerrors |-> 0, delay |-> 1,
     roots |-> [i \in 0 .. 2 * NROOTS - 1 |-> 0], numroots |-> 0,
     vals |-> [i \in 0 .. NROOTS - 1 |-> 0],
     locations |-> [i \in 0 .. NROOTS - 1 |-> 0]]

\* The block and its syndromes.
Syndromes(rs, block) ==
    LET word == Reversed(block)
    IN  [rs EXCEPT !.received = word,
                   !.syndromes = [i \in 0 .. NROOTS - 1 |-> EvalTable(word, BLOCK - 1, RootPowers[i])]]

AllZero(rs) == \A i \in 0 .. NROOTS - 1 : rs.syndromes[i] = 0

\* Berlekamp-Massey, before its first turn.
\* Mutant: the last locator stays what the call before left.
LocatorInitKeeps(rs) ==
    [rs EXCEPT !.locator = [Zeros EXCEPT ![0] = 1], !.order = 0,
               !.lastDiscrepancy = 1, !.numerrors = 0, !.delay = 1]
LocatorInit(rs) ==
    LET one == [Zeros EXCEPT ![0] = 1]
    IN  [rs EXCEPT !.locator = one, !.order = 0, !.last = one, !.lastOrder = 0,
                   !.lastDiscrepancy = 1, !.numerrors = 0, !.delay = 1]

Discrepancy(rs, i) ==
    XorSum([j \in 0 .. rs.numerrors |-> IF j = 0 THEN rs.syndromes[i]
                                        ELSE Mul(rs.locator[j], rs.syndromes[i - j])],
           rs.numerrors)

\* The order the locator gets in a turn that changes it; the buffers end at NROOTS.
Reach(rs) == rs.lastOrder + rs.delay

\* last * x^delay * discrepancy / lastDiscrepancy, where the loop of the code puts it.
Shifted(rs, d) ==
    [j \in 0 .. NROOTS |->
        CASE j < rs.delay -> 0
          [] j \in rs.delay .. Reach(rs) -> Div(Mul(rs.last[j - rs.delay], d), rs.lastDiscrepancy)
          [] OTHER -> rs.last[j]]

\* A discrepancy, and room for another tap: the locator and the last one change places.
Replaced(rs, d) ==
    LET shifted == Shifted(rs, d)
    IN  [rs EXCEPT !.locator = [j \in 0 .. NROOTS |->
                       IF j <= Reach(rs) THEN Add(@[j], shifted[j]) ELSE @[j]],
                   !.last = [j \in 0 .. NROOTS |->
                       IF j <= Reach(rs) THEN rs.locator[j] ELSE shifted[j]],
                   !.order = Reach(rs), !.lastOrder = rs.order, !.lastDiscrepancy = d]

Lengthened(rs, i, d) == [Replaced(rs, d) EXCEPT !.numerrors = i + 1 - @, !.delay = 1]

\* No more taps: the locator changes, the last one stays.
Adjusted(rs, d) ==
    [rs EXCEPT !.locator = [j \in 0 .. NROOTS |->
                   IF j \in rs.delay .. Reach(rs)
                   THEN Add(@[j], Div(Mul(rs.last[j - rs.delay], d), rs.lastDiscrepancy))
                   ELSE @[j]],
               !.order = IF Reach(rs) > rs.order THEN Reach(rs) ELSE rs.order,
               !.delay = @ + 1]

LocatorTurn(rs, i) ==
    LET d == Discrepancy(rs, i)
    IN  IF d = 0 THEN [rs EXCEPT !.delay = @ + 1]
        ELSE IF 2 * rs.numerrors <= i THEN Lengthened(rs, i, d) ELSE Adjusted(rs, d)

\* Chien search, and what it reads.  A table has the powers from 0 to NROOTS - 1; a
\* locator of order NROOTS makes the search read one entry past its end, and whatever
\* is found there turns any element but 0 into a root or keeps it from being one.
Partial(rs, x) ==
    EvalLogTable([i \in 0 .. rs.order |-> Log[rs.locator[i]]],
                 IF rs.order < NROOTS THEN rs.order ELSE NROOTS - 1, ElementPowers[x])

\* The sets of elements the search may take for roots.
\* Mutant: the tables of powers end one element earlier.
FoundShort(rs) ==
    IF rs.order < NROOTS - 1 THEN {{x \in Elements : Partial(rs, x) = 0}}
    ELSE SUBSET {x \in Elements \ {0} : Partial(rs, x) # 0}
Found(rs) ==
    IF rs.order < NROOTS THEN {{x \in Elements : Partial(rs, x) = 0}}
    ELSE SUBSET {x \in Elements \ {0} : Partial(rs, x) # 0}

\* The roots are found in the order of the elements.
Nth(S, n) == CHOOSE x \in S : Cardinality({y \in S : y < x}) = n

\* Every element found is written and counted.  These are the writes within the buffer,
\* error_roots with its 2 * NROOTS entries (decode.c:267); those behind it, which the
\* code does not prevent, are the action OverrunRoots of FrameCodec.
Factorize(rs, found) ==
    [rs EXCEPT !.roots = [i \in DOMAIN @ |->
                   IF i < Cardinality(found) THEN Nth(found, i)
                   ELSE IF i < rs.order THEN 0 ELSE @[i]],
               !.numroots = Cardinality(found)]

\* Where the error of a root is.  The search begins with 0, whose logarithm the table
\* has as 0: that makes it the power to find for the root 1, before it comes to 1 itself,
\* whose logarithm is no place in a block.
Powers(root) == {j \in Elements : Pow(j, GAP) = Div(1, root)}
LastLocationOf(root) == LET S == Powers(root) IN Log[CHOOSE j \in S : \A k \in S : k <= j]
LocationOf(root) == LET S == Powers(root) IN Log[CHOOSE j \in S : \A k \in S : j <= k]

Locations(rs) ==
    [rs EXCEPT !.locations = [i \in DOMAIN @ |->
        IF i >= rs.order \/ rs.roots[i] = 0 THEN @[i] ELSE LocationOf(rs.roots[i])]]

\* What the errors are: Forney's formula.
Values(rs) ==
    LET evaluator == Product(rs.locator, rs.order, rs.syndromes, NROOTS - 1, NROOTS - 1)
        derivative == Derivative(rs.locator, rs.order)
    IN  [rs EXCEPT !.vals = [i \in DOMAIN @ |->
            IF i >= rs.order \/ rs.roots[i] = 0 THEN @[i]
            ELSE LET powers == ElementPowers[rs.roots[i]]
                 IN  Mul(Pow(rs.roots[i], FIRST_ROOT - 1),
                         Div(EvalTable(evaluator, NROOTS - 1, powers),
                             EvalTable(derivative, rs.order - 1, powers)))]]

Repair(rs) ==
    LET repaired[n \in 0 .. rs.order] ==
            IF n = 0 THEN rs.received
            ELSE [repaired[n - 1] EXCEPT ![rs.locations[n - 1]] = Add(@, rs.vals[n - 1])]
    IN  [rs EXCEPT !.received = repaired[rs.order]]

MessageOf(rs) == [i \in 1 .. MESSAGE |-> rs.received[BLOCK - i]]
=============================================================================
