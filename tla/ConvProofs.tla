------------------------------ MODULE ConvProofs ------------------------------
(***************************************************************************)
(* The bookkeeping of the convolutional decoder, for every code, every     *)
(* size of the ring and every message: the cursors stay in their buffers,  *)
(* no bit is lost or made up on its way through the ring, and the metrics  *)
(* never pass what a distance_t holds.                                     *)
(***************************************************************************)
EXTENDS ConvCodec, Induction

----------------------------------------------------------------------------
(* Powers of two, and shifting by them. *)

\* The powers are the positive numbers that begin with 1 and double.
LEMMA Pow2Fact ==
    /\ Pow2 \in [0 .. ORDER -> Nat \ {0}]
    /\ Pow2[0] = 1
    /\ \A k \in 0 .. ORDER - 1 : Pow2[k + 1] = 2 * Pow2[k]
<1> ORDER \in Nat
  BY ConvAssumption
<1> DEFINE V == Nat \ {0}
           step == [k \in 1 .. ORDER |-> [x \in V |-> 2 * x]]
<1>1. step \in [1 .. ORDER -> [V -> V]]
  OBVIOUS
<1>2. \A k \in 1 .. ORDER : \A x \in V : step[k][x] = 2 * x
  OBVIOUS
<1>3. 1 \in V
  OBVIOUS
<1> HIDE DEF step, V
<1>4. PICK f \in [0 .. ORDER -> V] : Unrolls(f, ORDER, 1, step)
  BY <1>1, <1>3, Recursion
<1>5. f = [k \in 0 .. ORDER |-> IF k = 0 THEN 1 ELSE 2 * f[k - 1]]
  <2>1. ASSUME NEW k \in 0 .. ORDER
        PROVE  f[k] = IF k = 0 THEN 1 ELSE 2 * f[k - 1]
    <3>1. k # 0 => k \in 1 .. ORDER /\ k - 1 \in 0 .. ORDER
      OBVIOUS
    <3> QED  BY <1>2, <1>4, <3>1 DEF Unrolls
  <2> QED  BY <1>4, <2>1
<1>6. Pow2 = CHOOSE g : g = [k \in 0 .. ORDER |-> IF k = 0 THEN 1 ELSE 2 * g[k - 1]]
  BY DEF Pow2
<1>7. Pow2 = [k \in 0 .. ORDER |-> IF k = 0 THEN 1 ELSE 2 * Pow2[k - 1]]
  BY <1>5, <1>6, Zenon
<1> DEFINE S == {k \in 0 .. ORDER : Pow2[k] \in V}
<1>8. Pow2[0] = 1
  BY <1>7
<1>9. ASSUME NEW k \in 0 .. ORDER - 1
      PROVE  Pow2[k + 1] = 2 * Pow2[k]
  BY <1>7
<1>10. \A k \in 0 .. ORDER : k \in S
  <2>1. 0 \in S
    BY <1>3, <1>8
  <2>2. ASSUME NEW k \in 0 .. ORDER - 1, k \in S
        PROVE  k + 1 \in S
    BY <1>9, <2>2 DEF V
  <2> HIDE DEF S
  <2> QED  BY <2>1, <2>2, UpTo
<1>11. DOMAIN Pow2 = 0 .. ORDER /\ Pow2 = [k \in DOMAIN Pow2 |-> Pow2[k]]
  BY <1>7
<1> QED  BY <1>8, <1>9, <1>10, <1>11 DEF V

\* What is a multiple of m on top of x goes to the quotient.
LEMMA DivPlus ==
    ASSUME NEW x \in Nat, NEW m \in Nat \ {0}, NEW q \in Nat
    PROVE  (x + q * m) \div m = (x \div m) + q
<1> DEFINE d == x \div m
           r == x % m
<1>1. d \in Nat /\ r \in 0 .. m - 1 /\ x = m * d + r
  BY Division
<1> HIDE DEF d, r
<1>2. x + q * m = m * (d + q) + r /\ x + q * m \in Nat /\ d + q \in Nat
  BY <1>1
<1>3. (x + q * m) \div m = d + q
  BY <1>1, <1>2, Quotient
<1> QED  BY <1>3 DEF d

\* The register: ORDER bits, the oldest of them HIGHBIT.
LEMMA Register1 ==
    /\ HIGHBIT \in Nat \ {0} /\ Pow2[ORDER] = 2 * HIGHBIT
    /\ ORDER \in Nat /\ ORDER >= 2 /\ RATE \in Nat /\ RATE >= 2
    /\ SOFT_MAX \in Nat \ {0}
    /\ States = 0 .. 2 * HIGHBIT - 1
<1>1. ORDER \in Nat /\ ORDER >= 2
  BY ConvAssumption
<1>2. ORDER - 1 \in 0 .. ORDER - 1 /\ (ORDER - 1) + 1 = ORDER /\ ORDER - 1 \in 0 .. ORDER
  BY <1>1
<1> QED  BY <1>1, <1>2, Pow2Fact, ConvAssumption DEF HIGHBIT, States

\* All powers up to HIGHBIT divide it.
LEMMA Pow2Divides ==
    \A k \in 0 .. ORDER - 1 : \E q \in Nat : HIGHBIT = q * Pow2[k]
<1> DEFINE n == ORDER - 1
           S == {j \in 0 .. n : \E q \in Nat : HIGHBIT = q * Pow2[n - j]}
<1>1. n \in Nat /\ ORDER \in Nat
  BY ConvAssumption
<1>2. 0 \in S
  <2>1. HIGHBIT = 1 * Pow2[n - 0]
    BY <1>1, Register1 DEF HIGHBIT
  <2> QED  BY <1>1, <2>1
<1>3. ASSUME NEW j \in 0 .. n - 1, j \in S
      PROVE  j + 1 \in S
  <2>1. PICK q \in Nat : HIGHBIT = q * Pow2[n - j]
    BY <1>3
  <2>2. n - (j + 1) \in 0 .. ORDER - 1 /\ (n - (j + 1)) + 1 = n - j /\ j + 1 \in 0 .. n
    BY <1>1
  <2>3. Pow2[n - j] = 2 * Pow2[n - (j + 1)] /\ Pow2[n - (j + 1)] \in Nat
    <3>1. Pow2[(n - (j + 1)) + 1] = 2 * Pow2[n - (j + 1)]
      BY <2>2, Pow2Fact
    <3>2. n - (j + 1) \in 0 .. ORDER
      BY <2>2, <1>1
    <3> QED  BY <2>2, <3>1, <3>2, Pow2Fact
  <2>4. HIGHBIT = (2 * q) * Pow2[n - (j + 1)] /\ 2 * q \in Nat
    BY <2>1, <2>3
  <2> QED  BY <2>2, <2>4
<1>4. \A j \in 0 .. n : j \in S
  <2> HIDE DEF S, n
  <2> QED  BY <1>1, <1>2, <1>3, UpTo
<1>5. ASSUME NEW k \in 0 .. ORDER - 1
      PROVE  \E q \in Nat : HIGHBIT = q * Pow2[k]
  <2>1. n - k \in 0 .. n /\ n - (n - k) = k
    BY <1>1
  <2>2. n - k \in S
    BY <2>1, <1>4
  <2> QED  BY <2>1, <2>2
<1> QED  BY <1>5

\* The state before path s, when the bit that left the register was b.
Before(s, b) == (s + b * HIGHBIT) \div 2

\* Paths with the same bits but the latest k.
Kin(k, s, t) == s \div Pow2[k] = t \div Pow2[k]

LEMMA BeforeType ==
    ASSUME NEW s \in Paths, NEW b \in {0, 1}
    PROVE  Before(s, b) \in Paths /\ s + b * HIGHBIT \in States
BY Register1 DEF Before, Paths

\* Where two paths are kin by all but k bits, the states before them are by all but k - 1,
\* if the same bit left the register.
LEMMA KinBefore ==
    ASSUME NEW k \in 0 .. ORDER - 2, NEW s \in Paths, NEW t \in Paths, NEW b \in {0, 1},
           Kin(k + 1, s, t)
    PROVE  Kin(k, Before(s, b), Before(t, b))
<1>1. ORDER \in Nat /\ HIGHBIT \in Nat \ {0} /\ k \in 0 .. ORDER - 1 /\ k + 1 \in 0 .. ORDER - 1
      /\ k \in 0 .. ORDER /\ k + 1 \in 0 .. ORDER
  BY Register1
<1>2. PICK q \in Nat : HIGHBIT = q * Pow2[k + 1]
  BY <1>1, Pow2Divides
<1> DEFINE m == Pow2[k]
           n == Pow2[k + 1]
<1>3. m \in Nat \ {0} /\ n \in Nat \ {0} /\ n = 2 * m
  BY <1>1, Pow2Fact
<1>4. b * HIGHBIT = (b * q) * n /\ b * q \in Nat
  <2> HIDE DEF n
  <2>1. CASE b = 0
    BY <2>1, <1>3, <1>1
  <2>2. CASE b = 1
    BY <2>2, <1>2, <1>3, <1>1 DEF n
  <2> QED  BY <2>1, <2>2
<1>5. ASSUME NEW x \in Paths
      PROVE  Before(x, b) \div m = (x \div n) + b * q
  <2>1. x \in Nat /\ x + b * HIGHBIT \in Nat
    BY <1>1 DEF Paths
  <2>2. Before(x, b) \div m = (x + b * HIGHBIT) \div n
    BY <1>3, <2>1, DivTwice DEF Before
  <2>3. (x + (b * q) * n) \div n = (x \div n) + b * q
    <3> DEFINE p == b * q
    <3>1. p \in Nat
      BY <1>4 DEF p
    <3>2. n \in Nat \ {0}
      BY <1>3
    <3> HIDE DEF p, n
    <3>3. x \in Nat
      BY <2>1
    <3>4. (x + p * n) \div n = (x \div n) + p
      BY <3>1, <3>2, <3>3, DivPlus
    <3> QED  BY <3>4 DEF p
  <2> QED  BY <2>2, <2>3, <1>4
<1>6. Before(s, b) \div m = Before(t, b) \div m
  <2>1. s \div n = t \div n
    BY DEF Kin
  <2> QED  BY <1>5, <2>1
<1> QED  BY <1>6 DEF Kin

\* Every path is kin to itself, and, when all bits are left out, to every other.
LEMMA KinEnds ==
    ASSUME NEW s \in Paths, NEW t \in Paths
    PROVE  /\ Kin(ORDER - 1, s, t)
           /\ Kin(0, s, t) => s = t
<1>1. HIGHBIT \in Nat \ {0} /\ s \in 0 .. HIGHBIT - 1 /\ t \in 0 .. HIGHBIT - 1
  BY Register1 DEF Paths
<1>2. \A x \in 0 .. HIGHBIT - 1 : x \div HIGHBIT = 0
  <2> TAKE x \in 0 .. HIGHBIT - 1
  <2>1. x = HIGHBIT * 0 + x /\ x \in Nat
    BY <1>1
  <2> QED  BY <1>1, <2>1, Quotient
<1>3. s \div 1 = s /\ t \div 1 = t
  BY <1>1
<1> QED  BY <1>1, <1>2, <1>3, Pow2Fact DEF Kin, HIGHBIT

----------------------------------------------------------------------------
(* What a set costs. *)

SETMAX == RATE * SOFT_MAX       \* the most that a set can be off
HALF == SETMAX \div 2

\* Each polynomial sees the bit that came in last, as the two of the code do, 0161 and 0127.
OddPolynomials == \A j \in 1 .. RATE : POLY[j] % 2 = 1

LEMMA SetMaxFact ==
    /\ SETMAX \in Nat /\ SETMAX >= 2 /\ HALF \in Nat /\ HALF + HALF <= SETMAX /\ HALF < SETMAX
    /\ \A x, y \in Nat : x + y = SETMAX => x <= HALF \/ y <= HALF
<1>1. RATE * SOFT_MAX \in Nat /\ RATE * SOFT_MAX >= 2
  <2>1. PICK r \in Nat, c \in Nat : RATE = 2 + r /\ SOFT_MAX = 1 + c
    <3>1. RATE - 2 \in Nat /\ SOFT_MAX - 1 \in Nat /\ RATE = 2 + (RATE - 2) /\ SOFT_MAX = 1 + (SOFT_MAX - 1)
      BY Register1
    <3> QED  BY <3>1
  <2>2. (2 + r) * (1 + c) = 2 + 2 * c + r + r * c /\ r * c \in Nat
    OBVIOUS
  <2> QED  BY <2>1, <2>2
<1> DEFINE d == RATE * SOFT_MAX
<1> HIDE DEF d
<1>2. SETMAX = d /\ d \in Nat /\ d >= 2
  BY <1>1 DEF SETMAX, d
<1> QED  BY <1>2 DEF HALF

LEMMA OnesFinite ==
    ASSUME NEW x, NEW mask
    PROVE  IsFiniteSet(Ones(x, mask)) /\ Cardinality(Ones(x, mask)) \in Nat
<1>1. IsFiniteSet(0 .. ORDER - 1)
  BY FS_Interval, Register1
<1>2. Ones(x, mask) \subseteq 0 .. ORDER - 1
  BY DEF Ones
<1> QED  BY <1>1, <1>2, FS_Subset, FS_CardinalityType

LEMMA TableType == Table \in [States -> [1 .. RATE -> {0, 1}]]
<1>1. \A x, mask : Cardinality(Ones(x, mask)) % 2 \in {0, 1}
  <2> TAKE x, mask
  <2> DEFINE c == Cardinality(Ones(x, mask))
  <2>1. c \in Nat
    BY OnesFinite
  <2> HIDE DEF c
  <2>2. c % 2 \in {0, 1}
    BY <2>1
  <2> QED  BY <2>2 DEF c
<1> QED  BY <1>1 DEF Table

\* The two states that follow a path have opposite outputs.
LEMMA TableOpposite ==
    ASSUME OddPolynomials, NEW z \in Paths, NEW j \in 1 .. RATE
    PROVE  /\ 2 * z \in States /\ 2 * z + 1 \in States
           /\ Table[2 * z + 1][j] = 1 - Table[2 * z][j]
<1> DEFINE a == 2 * z
           b == 2 * z + 1
           mask == POLY[j]
<1>1. a \in States /\ b \in States /\ z \in Nat
  BY Register1 DEF Paths
<1>2. mask \in Nat /\ mask % 2 = 1
  BY ConvAssumption, Register1 DEF OddPolynomials
<1>3. Bit(a, 0) = 0 /\ Bit(b, 0) = 1 /\ Bit(mask, 0) = 1
  <2>1. a \div 1 = a /\ b \div 1 = b /\ mask \div 1 = mask /\ a % 2 = 0 /\ b % 2 = 1
    BY <1>1, <1>2
  <2> QED  BY <1>2, <2>1, Pow2Fact DEF Bit
<1>4. ASSUME NEW k \in 1 .. ORDER - 1
      PROVE  Bit(a, k) = Bit(b, k)
  <2>1. k - 1 \in 0 .. ORDER - 1 /\ (k - 1) + 1 = k /\ k - 1 \in 0 .. ORDER
    BY Register1
  <2> DEFINE m == Pow2[k - 1]
  <2>2. m \in Nat \ {0} /\ Pow2[k] = 2 * m
    BY <2>1, Pow2Fact
  <2> HIDE DEF m
  <2>3. a \div 2 = z /\ b \div 2 = z /\ a \in Nat /\ b \in Nat
    BY <1>1
  <2>4. a \div (2 * m) = (a \div 2) \div m /\ b \div (2 * m) = (b \div 2) \div m
    BY <2>2, <2>3, DivTwice
  <2> QED  BY <2>2, <2>3, <2>4 DEF Bit
<1>5. Ones(b, mask) = Ones(a, mask) \cup {0} /\ 0 \notin Ones(a, mask)
  <2>1. \A k \in 0 .. ORDER - 1 : k = 0 \/ k \in 1 .. ORDER - 1
    OBVIOUS
  <2>2. 0 \in 0 .. ORDER - 1
    BY Register1
  <2> HIDE DEF a, b, mask
  <2> QED  BY <1>3, <1>4, <2>1, <2>2 DEF Ones
<1> DEFINE c == Cardinality(Ones(a, mask))
<1>6. c \in Nat /\ Cardinality(Ones(b, mask)) = c + 1
  BY <1>5, OnesFinite, FS_AddElement
<1>7. (c + 1) % 2 = 1 - (c % 2)
  <2> HIDE DEF c
  <2> QED  BY <1>6
<1> QED  BY <1>1, <1>6, <1>7 DEF Table

\* The partial sums of a distance.
Sums(set, soft, f) ==
    f[0] = 0 /\ \A j \in 1 .. RATE : f[j] = f[j - 1] + Apart(set[j], soft[j])

LEMMA DistanceSums ==
    ASSUME NEW set \in [1 .. RATE -> {0, 1}], NEW soft \in [1 .. RATE -> 0 .. SOFT_MAX]
    PROVE  /\ \A j \in 1 .. RATE : Apart(set[j], soft[j]) \in 0 .. SOFT_MAX
           /\ \E f \in [0 .. RATE -> Nat] : Sums(set, soft, f) /\ Distance(set, soft) = f[RATE]
<1> RATE \in Nat /\ SOFT_MAX \in Nat
  BY Register1
<1>1. \A j \in 1 .. RATE : Apart(set[j], soft[j]) \in 0 .. SOFT_MAX
  BY DEF Apart
<1> DEFINE step == [j \in 1 .. RATE |-> [x \in Nat |-> x + Apart(set[j], soft[j])]]
<1>2. step \in [1 .. RATE -> [Nat -> Nat]]
  BY <1>1
<1>3. \A j \in 1 .. RATE : \A x \in Nat : step[j][x] = x + Apart(set[j], soft[j])
  OBVIOUS
<1> HIDE DEF step
<1>4. PICK f \in [0 .. RATE -> Nat] : Unrolls(f, RATE, 0, step)
  BY <1>2, Recursion
<1>5. ASSUME NEW j \in 0 .. RATE
      PROVE  f[j] = IF j = 0 THEN 0 ELSE f[j - 1] + Apart(set[j], soft[j])
  <2>1. j # 0 => j \in 1 .. RATE /\ j - 1 \in 0 .. RATE
    OBVIOUS
  <2> QED  BY <1>3, <1>4, <2>1 DEF Unrolls
<1>6. f = [j \in 0 .. RATE |-> IF j = 0 THEN 0 ELSE f[j - 1] + Apart(set[j], soft[j])]
  BY <1>5
<1> DEFINE sum == CHOOSE g : g = [j \in 0 .. RATE |->
                        IF j = 0 THEN 0 ELSE g[j - 1] + Apart(set[j], soft[j])]
<1>7. sum = [j \in 0 .. RATE |-> IF j = 0 THEN 0 ELSE sum[j - 1] + Apart(set[j], soft[j])]
  BY <1>6, Zenon
<1>8. Distance(set, soft) = sum[RATE]
  BY DEF Distance
<1> HIDE DEF sum
<1>9. sum[0] = 0 /\ \A j \in 1 .. RATE : sum[j] = sum[j - 1] + Apart(set[j], soft[j])
  BY <1>7
<1> DEFINE S == {j \in 0 .. RATE : sum[j] \in Nat}
<1>10. \A j \in 0 .. RATE : j \in S
  <2>1. 0 \in S
    BY <1>9
  <2>2. ASSUME NEW j \in 0 .. RATE - 1, j \in S
        PROVE  j + 1 \in S
    <3>1. j + 1 \in 1 .. RATE /\ (j + 1) - 1 = j
      OBVIOUS
    <3>2. sum[j + 1] = sum[j] + Apart(set[j + 1], soft[j + 1])
      BY <3>1, <1>9
    <3> QED  BY <2>2, <3>1, <3>2, <1>1
  <2> HIDE DEF S
  <2> QED  BY <2>1, <2>2, UpTo
<1>11. sum \in [0 .. RATE -> Nat]
  BY <1>7, <1>10
<1> QED  BY <1>1, <1>8, <1>9, <1>11 DEF Sums

LEMMA DistanceType ==
    ASSUME NEW set \in [1 .. RATE -> {0, 1}], NEW soft \in [1 .. RATE -> 0 .. SOFT_MAX]
    PROVE  Distance(set, soft) \in 0 .. SETMAX
<1> RATE \in Nat /\ SOFT_MAX \in Nat
  BY Register1
<1>1. \A j \in 1 .. RATE : Apart(set[j], soft[j]) \in 0 .. SOFT_MAX
  BY DistanceSums
<1>2. PICK f \in [0 .. RATE -> Nat] : Sums(set, soft, f) /\ Distance(set, soft) = f[RATE]
  BY DistanceSums
<1> DEFINE S == {j \in 0 .. RATE : f[j] <= j * SOFT_MAX}
<1>3. 0 \in S
  BY <1>2 DEF Sums
<1>4. ASSUME NEW j \in 0 .. RATE - 1, j \in S
      PROVE  j + 1 \in S
  <2>1. j + 1 \in 1 .. RATE /\ (j + 1) - 1 = j /\ j \in 0 .. RATE /\ j + 1 \in 0 .. RATE
    OBVIOUS
  <2>2. f[j + 1] = f[j] + Apart(set[j + 1], soft[j + 1])
    BY <2>1, <1>2 DEF Sums
  <2>3. (j + 1) * SOFT_MAX = j * SOFT_MAX + SOFT_MAX
    OBVIOUS
  <2>4. f[j] <= j * SOFT_MAX /\ f[j] \in Nat /\ j * SOFT_MAX \in Nat
    BY <1>4, <2>1
  <2>5. f[j + 1] <= (j + 1) * SOFT_MAX
    BY <2>1, <2>2, <2>3, <2>4, <1>1
  <2> QED  BY <2>1, <2>5
<1>5. RATE \in S
  <2>1. RATE \in 0 .. RATE
    OBVIOUS
  <2> HIDE DEF S
  <2> QED  BY <1>3, <1>4, <2>1, UpTo
<1>6. SETMAX \in Nat /\ f[RATE] \in Nat /\ f[RATE] <= SETMAX
  BY <1>5, SetMaxFact DEF SETMAX
<1> QED  BY <1>2, <1>6

\* What is close to a set is as far from the opposite one.
LEMMA DistanceOpposite ==
    ASSUME NEW set \in [1 .. RATE -> {0, 1}], NEW other \in [1 .. RATE -> {0, 1}],
           NEW soft \in [1 .. RATE -> 0 .. SOFT_MAX],
           \A j \in 1 .. RATE : other[j] = 1 - set[j]
    PROVE  Distance(set, soft) + Distance(other, soft) = SETMAX
<1> RATE \in Nat /\ SOFT_MAX \in Nat
  BY Register1
<1>1. PICK f \in [0 .. RATE -> Nat] : Sums(set, soft, f) /\ Distance(set, soft) = f[RATE]
  BY DistanceSums
<1>2. PICK g \in [0 .. RATE -> Nat] : Sums(other, soft, g) /\ Distance(other, soft) = g[RATE]
  BY DistanceSums
<1>3. \A j \in 1 .. RATE : Apart(set[j], soft[j]) + Apart(other[j], soft[j]) = SOFT_MAX
  BY DEF Apart
<1>4. \A j \in 1 .. RATE : /\ Apart(set[j], soft[j]) \in 0 .. SOFT_MAX
                           /\ Apart(other[j], soft[j]) \in 0 .. SOFT_MAX
  BY DistanceSums
<1> DEFINE S == {j \in 0 .. RATE : f[j] + g[j] = j * SOFT_MAX}
<1>5. 0 \in S
  BY <1>1, <1>2 DEF Sums
<1>6. ASSUME NEW j \in 0 .. RATE - 1, j \in S
      PROVE  j + 1 \in S
  <2>1. j + 1 \in 1 .. RATE /\ (j + 1) - 1 = j /\ j \in 0 .. RATE /\ j + 1 \in 0 .. RATE
    OBVIOUS
  <2>2. /\ f[j + 1] = f[j] + Apart(set[j + 1], soft[j + 1])
        /\ g[j + 1] = g[j] + Apart(other[j + 1], soft[j + 1])
    BY <2>1, <1>1, <1>2 DEF Sums
  <2>3. (j + 1) * SOFT_MAX = j * SOFT_MAX + SOFT_MAX
    OBVIOUS
  <2>4. f[j] + g[j] = j * SOFT_MAX /\ f[j] \in Nat /\ g[j] \in Nat
    BY <1>6, <2>1
  <2>5. f[j + 1] + g[j + 1] = (j + 1) * SOFT_MAX
    <3> DEFINE a == Apart(set[j + 1], soft[j + 1])
               b == Apart(other[j + 1], soft[j + 1])
    <3>1. a \in Nat /\ b \in Nat /\ a + b = SOFT_MAX
      BY <2>1, <1>3, <1>4
    <3>2. f[j + 1] = f[j] + a /\ g[j + 1] = g[j] + b
      BY <2>2
    <3> DEFINE p == j * SOFT_MAX
               q == (j + 1) * SOFT_MAX
    <3>3. /\ q = p + SOFT_MAX /\ f[j] + g[j] = p /\ p \in Nat /\ q \in Nat
          /\ f[j] \in Nat /\ g[j] \in Nat
      BY <2>3, <2>4
    <3>4. (f[j] + a) + (g[j] + b) = p + SOFT_MAX
      <4> DEFINE u == f[j]
                 w == g[j]
      <4>1. u \in Nat /\ w \in Nat /\ u + w = p
        BY <3>3
      <4> HIDE DEF a, b, p, u, w
      <4>2. (u + a) + (w + b) = p + SOFT_MAX
        BY <3>1, <3>3, <4>1
      <4> QED  BY <4>2, Zenon DEF u, w
    <3> QED  BY <3>2, <3>3, <3>4
  <2> QED  BY <2>1, <2>5
<1>7. RATE \in S
  <2>1. RATE \in 0 .. RATE
    OBVIOUS
  <2> HIDE DEF S
  <2> QED  BY <1>5, <1>6, <2>1, UpTo
<1> QED  BY <1>1, <1>2, <1>7 DEF SETMAX

\* The recursion of the encoder's register, and that its values are states.
LEMMA RegisterSteps ==
    ASSUME NEW m \in Seq({0, 1})
    PROVE  /\ SetsOf(m) \in Nat /\ Len(m) \in Nat /\ SetsOf(m) = Len(m) + ORDER + 1
           /\ Register(m) \in [0 .. SetsOf(m) -> States]
           /\ Register(m)[0] = 0
           /\ \A n \in 1 .. SetsOf(m) :
                 Register(m)[n] = (2 * Register(m)[n - 1] + Input(m, n)) % Pow2[ORDER]
<1> DEFINE N == SetsOf(m)
           W == Pow2[ORDER]
<1>1. N \in Nat /\ Len(m) \in Nat /\ N = Len(m) + ORDER + 1
  BY Register1 DEF SetsOf
<1>2. W \in Nat \ {0} /\ States = 0 .. W - 1
  BY Register1 DEF States
<1>3. \A n \in 1 .. N : Input(m, n) \in {0, 1}
  BY <1>1 DEF Input
<1> DEFINE step == [n \in 1 .. N |-> [x \in States |-> (2 * x + Input(m, n)) % W]]
<1>4. \A n \in 1 .. N : \A x \in States : (2 * x + Input(m, n)) % W \in States
  <2> HIDE DEF W, N
  <2>1. ASSUME NEW n \in 1 .. N, NEW x \in States
        PROVE  (2 * x + Input(m, n)) % W \in States
    <3> DEFINE y == 2 * x + Input(m, n)
    <3>1. y \in Nat
      BY <1>2, <1>3
    <3> HIDE DEF y
    <3>2. y % W \in 0 .. W - 1
      BY <1>2, <3>1
    <3> QED  BY <1>2, <3>2 DEF y
  <2> QED  BY <2>1
<1>5. step \in [1 .. N -> [States -> States]]
  BY <1>4
<1>6. \A n \in 1 .. N : \A x \in States : step[n][x] = (2 * x + Input(m, n)) % W
  OBVIOUS
<1>7. 0 \in States
  BY <1>2
<1> HIDE DEF step, W, N
<1>8. PICK f \in [0 .. N -> States] : Unrolls(f, N, 0, step)
  BY <1>1, <1>5, <1>7, Recursion
<1>9. ASSUME NEW n \in 0 .. N
      PROVE  f[n] = IF n = 0 THEN 0 ELSE (2 * f[n - 1] + Input(m, n)) % W
  <2>1. n # 0 => n \in 1 .. N /\ n - 1 \in 0 .. N
    BY <1>1
  <2> QED  BY <1>6, <1>8, <2>1 DEF Unrolls
<1>10. f = [n \in 0 .. N |-> IF n = 0 THEN 0 ELSE (2 * f[n - 1] + Input(m, n)) % W]
  BY <1>9
<1> DEFINE register == CHOOSE g : g = [n \in 0 .. N |->
                             IF n = 0 THEN 0 ELSE (2 * g[n - 1] + Input(m, n)) % W]
<1>11. register = [n \in 0 .. N |-> IF n = 0 THEN 0 ELSE (2 * register[n - 1] + Input(m, n)) % W]
  BY <1>10, Zenon
<1>12. Register(m) = register
  BY DEF Register, N, W
<1> HIDE DEF register
<1>13. register[0] = 0 /\ \A n \in 1 .. N : register[n] = (2 * register[n - 1] + Input(m, n)) % W
  BY <1>1, <1>11
<1> DEFINE S == {n \in 0 .. N : register[n] \in States}
<1>14. \A n \in 0 .. N : n \in S
  <2>1. 0 \in S
    BY <1>1, <1>7, <1>13
  <2>2. ASSUME NEW n \in 0 .. N - 1, n \in S
        PROVE  n + 1 \in S
    <3>1. n + 1 \in 1 .. N /\ (n + 1) - 1 = n /\ n + 1 \in 0 .. N
      BY <1>1
    <3>2. register[n + 1] = (2 * register[n] + Input(m, n + 1)) % W
      BY <3>1, <1>13
    <3> QED  BY <2>2, <3>1, <3>2, <1>4 DEF W
  <2> HIDE DEF S
  <2> QED  BY <2>1, <2>2, <1>1, UpTo
<1>15. register \in [0 .. N -> States]
  BY <1>11, <1>14
<1> QED  BY <1>1, <1>12, <1>13, <1>15 DEF N, W

LEMMA EncodeType ==
    ASSUME NEW m \in Seq({0, 1})
    PROVE  Encode(m) \in [1 .. SetsOf(m) -> [1 .. RATE -> {0, 1}]]
<1>1. Register(m) \in [0 .. SetsOf(m) -> States] /\ SetsOf(m) \in Nat
  BY RegisterSteps
<1>2. \A n \in 1 .. SetsOf(m) : Table[Register(m)[n]] \in [1 .. RATE -> {0, 1}]
  BY <1>1, TableType
<1> QED  BY <1>2 DEF Encode

----------------------------------------------------------------------------
(* Tracing a path back through the ring. *)

Metrics == [States -> 0 .. DISTANCE_MAX]
Slices == [Paths -> {0, 1}]
Errors == [buffer : [0 .. 1 -> Metrics], index : 0 .. 1, read : 0 .. 1, write : 0 .. 1]
History == [slice : [0 .. CAP - 1 -> Slices], index : 0 .. CAP - 1, len : 0 .. CAP - 1,
            counter : 0 .. INTERVAL - 1]
\* Between filling a slice and the traceback, the ring may be full.
Ring(h) == /\ h.slice \in [0 .. CAP - 1 -> Slices] /\ h.index \in 0 .. CAP - 1
           /\ h.len \in 0 .. CAP

LEMMA RingSize ==
    /\ CAP \in Nat /\ CAP >= 2 /\ MIN_TRACEBACK \in 1 .. CAP - 1
    /\ BYTE \in Nat \ {0}
    /\ DISTANCE_MAX \in Nat /\ INTERVAL \in Nat \ {0}
    /\ 0 \in Paths /\ Paths \subseteq States /\ Paths \subseteq Nat
<1>1. DISTANCE_MAX \div SETMAX \in Nat
  <2> DEFINE d == SETMAX
  <2>1. d \in Nat \ {0} /\ DISTANCE_MAX \in Nat
    BY SetMaxFact, ConvCodecAssumption
  <2> HIDE DEF d
  <2>2. DISTANCE_MAX \div d \in Nat
    BY <2>1, Division
  <2> QED  BY <2>2 DEF d
<1>2. INTERVAL \in Nat \ {0}
  BY <1>1, ConvCodecAssumption DEF INTERVAL, SETMAX
<1> QED  BY <1>2, Register1, ConvCodecAssumption DEF CAP, Paths

LEMMA DroppedType ==
    ASSUME NEW h, Ring(h), NEW k \in Int, NEW s \in Paths
    PROVE  Dropped(h, k, s) \in {0, 1}
<1> DEFINE x == h.index - k
           c == CAP
<1>1. x \in Int /\ c \in Nat \ {0}
  BY RingSize DEF Ring
<1>2. x % c \in 0 .. c - 1
  <2> HIDE DEF x, c
  <2> QED  BY <1>1, RestType
<1> QED  BY <1>2 DEF Dropped, Ring, Slices

LEMMA PathType ==
    ASSUME NEW h, Ring(h), NEW best \in Paths
    PROVE  /\ Path(h, best) \in [0 .. h.len -> Paths]
           /\ Path(h, best)[0] = best
           /\ \A k \in 1 .. h.len :
                 Path(h, best)[k] = Before(Path(h, best)[k - 1],
                                           Dropped(h, k, Path(h, best)[k - 1]))
<1> DEFINE N == h.len
           Back(k, x) == Before(x, Dropped(h, k, x))
           step == [k \in 1 .. N |-> [x \in Paths |-> Back(k, x)]]
<1>1. N \in Nat
  BY RingSize DEF Ring
<1>2. \A k \in 1 .. N : \A x \in Paths : Back(k, x) \in Paths
  BY DroppedType, BeforeType
<1>3. \A k \in 1 .. N : \A x \in Paths :
         (x + HIGHBIT * Dropped(h, k, x)) \div 2 = Back(k, x)
  <2> TAKE k \in 1 .. N
  <2> TAKE x \in Paths
  <2> DEFINE d == Dropped(h, k, x)
  <2>1. d \in {0, 1}
    BY DroppedType
  <2> HIDE DEF d
  <2>2. HIGHBIT * d = d * HIGHBIT
    BY <2>1, Register1
  <2> QED  BY <2>2 DEF Before, d
<1> HIDE DEF Back
<1>4. step \in [1 .. N -> [Paths -> Paths]]
  BY <1>2
<1>5. \A k \in 1 .. N : \A x \in Paths : step[k][x] = Back(k, x)
  OBVIOUS
<1> HIDE DEF step, N
<1>6. PICK f \in [0 .. N -> Paths] : Unrolls(f, N, best, step)
  BY <1>1, <1>4, Recursion
<1>7. ASSUME NEW k \in 0 .. N
      PROVE  f[k] = IF k = 0 THEN best
                    ELSE (f[k - 1] + HIGHBIT * Dropped(h, k, f[k - 1])) \div 2
  <2>1. k # 0 => k \in 1 .. N /\ k - 1 \in 0 .. N
    BY <1>1
  <2> QED  BY <1>3, <1>5, <1>6, <2>1 DEF Unrolls
<1>8. f = [k \in 0 .. N |-> IF k = 0 THEN best
                             ELSE (f[k - 1] + HIGHBIT * Dropped(h, k, f[k - 1])) \div 2]
  BY <1>7
<1> DEFINE path == CHOOSE g : g = [k \in 0 .. N |-> IF k = 0 THEN best
                             ELSE (g[k - 1] + HIGHBIT * Dropped(h, k, g[k - 1])) \div 2]
<1>9. path = [k \in 0 .. N |-> IF k = 0 THEN best
                             ELSE (path[k - 1] + HIGHBIT * Dropped(h, k, path[k - 1])) \div 2]
  BY <1>8, Zenon
<1>10. Path(h, best) = path
  BY DEF Path, N
<1> HIDE DEF path
<1>11. /\ path[0] = best
       /\ \A k \in 1 .. N :
             path[k] = (path[k - 1] + HIGHBIT * Dropped(h, k, path[k - 1])) \div 2
  BY <1>1, <1>9
<1> DEFINE S == {k \in 0 .. N : path[k] \in Paths}
<1>12. \A k \in 0 .. N : k \in S
  <2>1. 0 \in S
    BY <1>1, <1>11
  <2>2. ASSUME NEW k \in 0 .. N - 1, k \in S
        PROVE  k + 1 \in S
    <3>1. k + 1 \in 1 .. N /\ (k + 1) - 1 = k /\ k + 1 \in 0 .. N
      BY <1>1
    <3>2. path[k + 1] = (path[k] + HIGHBIT * Dropped(h, k + 1, path[k])) \div 2
      BY <3>1, <1>11
    <3> QED  BY <2>2, <3>1, <3>2, <1>2, <1>3
  <2> HIDE DEF S
  <2> QED  BY <2>1, <2>2, <1>1, UpTo
<1>13. path \in [0 .. N -> Paths]
  BY <1>9, <1>12
<1>14. ASSUME NEW k \in 1 .. N
       PROVE  path[k] = Back(k, path[k - 1])
  <2>1. k - 1 \in 0 .. N
    BY <1>1
  <2> QED  BY <1>3, <1>11, <1>13, <2>1
<1> QED  BY <1>10, <1>11, <1>13, <1>14 DEF N, Back

\* A traceback gives one bit for each slice that it leaves.
LEMMA TracebackType ==
    ASSUME NEW h, Ring(h), NEW best \in Paths, NEW depth \in 0 .. h.len
    PROVE  /\ Traceback(h, best, depth) \in Seq({0, 1})
           /\ Len(Traceback(h, best, depth)) = h.len - depth
<1> DEFINE path == Path(h, best)
           n == h.len - depth
           bits == [k \in 1 .. n |-> Dropped(h, depth + k, path[depth + k - 1])]
<1>1. n \in Nat /\ h.len \in Nat
  BY RingSize DEF Ring
<1>2. path \in [0 .. h.len -> Paths]
  BY PathType
<1>3. ASSUME NEW k \in 1 .. n
      PROVE  Dropped(h, depth + k, path[depth + k - 1]) \in {0, 1}
  <2>1. depth + k \in Int /\ depth + k - 1 \in 0 .. h.len
    BY <1>1
  <2>2. path[depth + k - 1] \in Paths
    BY <1>2, <2>1
  <2> QED  BY <2>1, <2>2, DroppedType
<1>4. bits \in [1 .. n -> {0, 1}]
  BY <1>3
<1>5. Traceback(h, best, depth) = bits
  BY DEF Traceback
<1> HIDE DEF bits, n
<1>6. bits \in Seq({0, 1}) /\ Len(bits) = n
  BY <1>1, <1>4, FunctionIsSeq
<1> QED  BY <1>5, <1>6 DEF n

LEMMA ReverseType ==
    ASSUME NEW S, NEW s \in Seq(S)
    PROVE  Reverse(s) \in Seq(S) /\ Len(Reverse(s)) = Len(s)
<1> DEFINE n == Len(s)
           r == [k \in 1 .. n |-> s[(n - k) + 1]]
<1>1. n \in Nat /\ r \in [1 .. n -> S]
  OBVIOUS
<1>2. Reverse(s) = r
  BY DEF Reverse
<1> HIDE DEF r, n
<1>3. r \in Seq(S) /\ Len(r) = n
  BY <1>1, FunctionIsSeq
<1> QED  BY <1>2, <1>3 DEF n

\* The search ends on a path, and on a best one, if any is below the most.
LEMMA SearchBest ==
    ASSUME NEW metric \in Metrics, NEW skip \in Nat \ {0}
    PROVE  /\ Search(metric, skip) \in Paths
           /\ \A t \in Paths : t % skip = 0 /\ metric[t] < DISTANCE_MAX =>
                 /\ Search(metric, skip) % skip = 0
                 /\ \A s \in Paths : s % skip = 0 => metric[Search(metric, skip)] <= metric[s]
<1> DEFINE Better(s) == s % skip = 0 /\ metric[s] < DISTANCE_MAX
           Least == {s \in Paths : Better(s) /\ \A t \in Paths : Better(t) => metric[s] <= metric[t]}
           best == Search(metric, skip)
<1>1. best = IF Least = {} THEN 0 ELSE CHOOSE s \in Least : \A t \in Least : s <= t
  BY DEF Search
<1>2. Least \in SUBSET Nat /\ Least \subseteq Paths
  BY RingSize
<1>3. Least # {} => best \in Least
  <2> SUFFICES ASSUME Least # {} PROVE best \in Least
    OBVIOUS
  <2> HIDE DEF Least, best
  <2>1. \E s \in Least : \A t \in Least : s <= t
    BY <1>2, LeastNat
  <2>2. best = CHOOSE s \in Least : \A t \in Least : s <= t
    BY <1>1
  <2> QED  BY <2>1, <2>2
<1>4. \A s \in Paths : metric[s] \in Nat /\ metric[s] <= DISTANCE_MAX
  BY RingSize DEF Metrics
<1>5. ASSUME NEW t \in Paths, Better(t)
      PROVE  Least # {}
  <2> DEFINE V == {metric[s] : s \in {s \in Paths : Better(s)}}
  <2>1. V \in SUBSET Nat /\ V # {}
    BY <1>4, <1>5
  <2>2. PICK v \in V : \A w \in V : v <= w
    <3> HIDE DEF V
    <3> QED  BY <2>1, LeastNat
  <2>3. PICK s \in Paths : Better(s) /\ metric[s] = v
    BY <2>2
  <2>4. \A u \in Paths : Better(u) => metric[s] <= metric[u]
    BY <2>2, <2>3
  <2> QED  BY <2>3, <2>4
<1>6. best \in Paths
  BY <1>1, <1>2, <1>3, RingSize
<1>7. ASSUME NEW t \in Paths, Better(t)
      PROVE  best % skip = 0 /\ \A s \in Paths : s % skip = 0 => metric[best] <= metric[s]
  <2>1. best \in Least
    BY <1>3, <1>5, <1>7
  <2>2. Better(best) /\ \A s \in Paths : Better(s) => metric[best] <= metric[s]
    BY <2>1
  <2>3. ASSUME NEW s \in Paths, s % skip = 0
        PROVE  metric[best] <= metric[s]
    <3>1. metric[best] < DISTANCE_MAX /\ metric[best] \in Nat /\ metric[s] \in Nat /\ DISTANCE_MAX \in Nat
      BY <2>2, <1>4, <1>6, RingSize
    <3> HIDE DEF best
    <3>2. CASE metric[s] < DISTANCE_MAX
      BY <2>2, <2>3, <3>2
    <3>3. CASE ~(metric[s] < DISTANCE_MAX)
      BY <3>1, <3>3
    <3> QED  BY <3>2, <3>3
  <2> QED  BY <2>2, <2>3
<1> HIDE DEF best
<1> QED  BY <1>6, <1>7 DEF best

LEMMA RenormalizedType ==
    ASSUME NEW metric \in Metrics, NEW best \in Paths
    PROVE  Renormalized(metric, best) \in Metrics
<1> DEFINE m == DISTANCE_MAX + 1
<1>1. m \in Nat \ {0} /\ m - 1 = DISTANCE_MAX
  BY RingSize
<1>2. ASSUME NEW s \in States
      PROVE  (metric[s] - metric[best]) % m \in 0 .. DISTANCE_MAX
  <2> DEFINE x == metric[s] - metric[best]
  <2>1. x \in Int
    BY RingSize DEF Metrics
  <2> HIDE DEF x, m
  <2>2. x % m \in 0 .. m - 1
    BY <1>1, <2>1, RestType
  <2> QED  BY <1>1, <2>2 DEF x
<1>3. \A s \in States : metric[s] \in 0 .. DISTANCE_MAX
  BY DEF Metrics
<1> QED  BY <1>2, <1>3 DEF Renormalized, Metrics

\* error_buffer_swap, with the typed buffers.
LEMMA SwappedType ==
    ASSUME errors \in Errors, NEW metric \in Metrics
    PROVE  /\ Swapped(metric) \in Errors
           /\ Swapped(metric).read = errors.index
           /\ Swapped(metric).index = 1 - errors.index
           /\ Swapped(metric).write = 1 - errors.index
           /\ Swapped(metric).buffer = [errors.buffer EXCEPT ![errors.write] = metric]
BY DEF Swapped, Errors

\* history_buffer_process_skip: each slice that comes in is in the ring or has gone out.
LEMMA ProcessType ==
    ASSUME errors \in Errors, history \in History, out \in Seq({0, 1}),
           NEW metric \in Metrics, NEW slice \in Slices, NEW skip \in Nat \ {0},
           Process(metric, slice, skip)
    PROVE  /\ errors' \in Errors /\ history' \in History /\ out' \in Seq({0, 1})
           /\ errors' = Swapped(IF history.counter + 1 = INTERVAL
                                THEN Renormalized(metric, Search(metric, skip)) ELSE metric)
           /\ history'.counter = IF history.counter + 1 = INTERVAL THEN 0
                                 ELSE history.counter + 1
           /\ Len(out') + history'.len = Len(out) + history.len + 1
<1> DEFINE next == (history.index + 1) % CAP
           h == [history EXCEPT !.slice[history.index] = slice,
                                !.index = (@ + 1) % CAP, !.len = @ + 1]
           renormalize == history.counter + 1 = INTERVAL
           best == Search(metric, skip)
           bits == IF h.len = CAP THEN Traceback(h, best, MIN_TRACEBACK) ELSE <<>>
<1>1. /\ errors' = Swapped(IF renormalize THEN Renormalized(metric, best) ELSE metric)
      /\ history' = [h EXCEPT !.counter = IF renormalize THEN 0 ELSE @ + 1,
                              !.len = @ - Len(bits)]
      /\ out' = out \o Reverse(bits)
  BY DEF Process
<1>2. best \in Paths
  BY SearchBest
<1>3. (IF renormalize THEN Renormalized(metric, best) ELSE metric) \in Metrics
  BY <1>2, RenormalizedType
<1>4. errors' \in Errors
  BY <1>1, <1>3, SwappedType
<1>5. /\ CAP \in Nat /\ CAP >= 2 /\ MIN_TRACEBACK \in 1 .. CAP - 1 /\ INTERVAL \in Nat \ {0}
  BY RingSize
<1>6. next \in 0 .. CAP - 1
  <2> DEFINE x == history.index + 1
             c == CAP
  <2>1. x \in Int /\ c \in Nat \ {0}
    BY <1>5 DEF History
  <2>2. x % c \in 0 .. c - 1
    <3> HIDE DEF x, c
    <3> QED  BY <2>1, RestType
  <2> QED  BY <2>2
<1>7. /\ h.slice \in [0 .. CAP - 1 -> Slices] /\ h.index \in 0 .. CAP - 1
      /\ h.len = history.len + 1 /\ h.counter = history.counter
      /\ h = [slice |-> h.slice, index |-> h.index, len |-> h.len, counter |-> h.counter]
  <2>1. h = [slice |-> [history.slice EXCEPT ![history.index] = slice], index |-> next,
             len |-> history.len + 1, counter |-> history.counter]
    <3>1. h = [history EXCEPT !.slice[history.index] = slice, !.index = next,
                              !.len = history.len + 1]
      BY DEF History, next
    <3> HIDE DEF h, next
    <3> QED  BY <3>1 DEF History
  <2> HIDE DEF h, next
  <2>2. [history.slice EXCEPT ![history.index] = slice] \in [0 .. CAP - 1 -> Slices]
    BY DEF History
  <2> QED  BY <2>1, <2>2, <1>6
<1>8. history.len \in 0 .. CAP - 1 /\ history.counter \in 0 .. INTERVAL - 1
  BY DEF History
<1> HIDE DEF h, next
<1>9. Ring(h)
  BY <1>5, <1>7, <1>8 DEF Ring
<1>10. bits \in Seq({0, 1}) /\ Len(bits) = IF h.len = CAP THEN h.len - MIN_TRACEBACK ELSE 0
  <2>1. CASE h.len = CAP
    <3>1. MIN_TRACEBACK \in 0 .. h.len
      BY <2>1, <1>5
    <3>2. /\ Traceback(h, best, MIN_TRACEBACK) \in Seq({0, 1})
          /\ Len(Traceback(h, best, MIN_TRACEBACK)) = h.len - MIN_TRACEBACK
      BY <3>1, <1>2, <1>9, TracebackType
    <3> QED  BY <3>2, <2>1
  <2>2. CASE h.len # CAP
    BY <2>2
  <2> QED  BY <2>1, <2>2
<1> HIDE DEF bits, best
<1> DEFINE n == Len(bits)
<1>11. n \in Nat /\ h.len - n \in 0 .. CAP - 1
  <2>1. n \in Nat
    BY <1>10
  <2>2. n = IF h.len = CAP THEN h.len - MIN_TRACEBACK ELSE 0
    BY <1>10
  <2> HIDE DEF n
  <2>3. h.len \in 0 .. CAP
    BY <1>5, <1>7, <1>8
  <2>4. CASE h.len = CAP
    BY <2>2, <2>4, <1>5
  <2>5. CASE h.len # CAP
    BY <2>2, <2>3, <2>5, <1>5
  <2> QED  BY <2>1, <2>4, <2>5
<1> HIDE DEF n
<1>12. Reverse(bits) \in Seq({0, 1}) /\ Len(Reverse(bits)) = n
  BY <1>10, ReverseType DEF n
<1>13. out' \in Seq({0, 1}) /\ Len(out') = Len(out) + n /\ Len(out) \in Nat
  <2> DEFINE r == Reverse(bits)
  <2>1. r \in Seq({0, 1}) /\ Len(r) = n /\ out' = out \o r
    BY <1>1, <1>12
  <2> DEFINE B == {0, 1}
  <2>2. out \in Seq(B) /\ r \in Seq(B)
    BY <2>1
  <2> HIDE DEF r, B
  <2>3. out \o r \in Seq(B) /\ Len(out \o r) = Len(out) + Len(r) /\ Len(out) \in Nat
    BY <2>2
  <2> QED  BY <2>1, <2>3 DEF B
<1>14. /\ history'.len = h.len - n
       /\ history'.counter = IF renormalize THEN 0 ELSE history.counter + 1
       /\ history' = [slice |-> h.slice, index |-> h.index, len |-> h.len - n,
                      counter |-> IF renormalize THEN 0 ELSE history.counter + 1]
  BY <1>1, <1>7 DEF n
<1>15. (IF renormalize THEN 0 ELSE history.counter + 1) \in 0 .. INTERVAL - 1
  BY <1>5, <1>8
<1>16. history' \in History
  <2> DEFINE c == IF renormalize THEN 0 ELSE history.counter + 1
             m == h.len - n
  <2>1. h.slice \in [0 .. CAP - 1 -> Slices] /\ h.index \in 0 .. CAP - 1 /\ m \in 0 .. CAP - 1 /\ c \in 0 .. INTERVAL - 1
    BY <1>7, <1>11, <1>15
  <2>2. history' = [slice |-> h.slice, index |-> h.index, len |-> m, counter |-> c]
    BY <1>14
  <2> HIDE DEF c, m, h
  <2> QED  BY <2>1, <2>2 DEF History
<1>17. Len(out') + history'.len = Len(out) + history.len + 1
  <2> DEFINE l == h.len
             o == Len(out)
             p == Len(out')
             q == history'.len
             k == history.len
  <2>1. k \in Nat
    BY <1>5, <1>8
  <2>2. l = k + 1
    BY <1>7
  <2>3. o \in Nat /\ p = o + n
    BY <1>13
  <2>4. n \in Nat
    BY <1>11
  <2>5. q = l - n
    BY <1>14
  <2> HIDE DEF l, o, p, q, k
  <2>6. p + q = o + k + 1
    BY <2>1, <2>2, <2>3, <2>4, <2>5
  <2> QED  BY <2>6 DEF o, p, q, k
<1>18. errors' = Swapped(IF history.counter + 1 = INTERVAL
                         THEN Renormalized(metric, Search(metric, skip)) ELSE metric)
  BY <1>1 DEF best
<1> QED  BY <1>4, <1>13, <1>14, <1>16, <1>17, <1>18

----------------------------------------------------------------------------
(* The inductive invariant of the bookkeeping. *)

Samples(S) == [1 .. SetsOf(msg) -> [1 .. RATE -> S]]

\* What was sent fits the traffic, and what arrives has as many sets.
OnAir ==
    /\ frameNo \in 0 .. Len(Traffic)
    /\ pc = "idle" => air = <<>>
    /\ pc # "idle" => frameNo \in 1 .. Len(Traffic) /\ msg \in Seq({0, 1}) /\ LongEnough(msg)
    /\ pc = "air" => air \in Samples(Int)
    /\ pc \in {"decode", "done"} => air \in Samples(0 .. SOFT_MAX)

\* Which buffer is read and which is written: after the first set both are as they were
\* for it, but for the one that is written next.
Buffers ==
    pc = "decode" =>
        /\ i = 0 => errors.index = 0 /\ errors.read = 0 /\ errors.write = 1
        /\ i = 1 => errors.index = 1 /\ errors.read = 0 /\ errors.write = 1
        /\ i >= 2 => errors.write = errors.index /\ errors.read = 1 - errors.index

\* No bit leaves the register in the warm-up, then one with every set, and it is in the
\* ring or it has been written.
Ledger ==
    pc = "decode" => IF i < ORDER - 1 THEN out = <<>> /\ history.len = 0
                     ELSE Len(out) + history.len = i - (ORDER - 1)

(***************************************************************************)
(* A message comes out with as many bits as it went in with: the two that  *)
(* the decoder finds too many stay in the writer, which writes whole bytes *)
(* (decode.c:294-321, bit.c:96-106).                                       *)
(***************************************************************************)
WholeLength == pc = "done" /\ BYTE > 2 => Len(out) = Len(msg)

ConvInv ==
    /\ pc \in {"idle", "air", "decode", "done"} /\ OnAir
    /\ errors \in Errors /\ history \in History /\ out \in Seq({0, 1})
    /\ i \in 0 .. Sets /\ (pc # "decode" => i = 0)
    /\ Buffers /\ Ledger /\ WholeLength

\* There is a set for each phase of the decoder.
LEMMA SetsFact ==
    ASSUME OnAir, pc \in {"air", "decode", "done"}
    PROVE  /\ Sets = SetsOf(msg) /\ Sets \in Nat /\ Len(msg) \in Nat
           /\ Sets = Len(msg) + ORDER + 1 /\ Sets >= 2 * ORDER - 2
           /\ Len(msg) % BYTE = 0
<1> DEFINE n == SetsOf(msg)
<1>1. msg \in Seq({0, 1}) /\ LongEnough(msg)
  BY DEF OnAir
<1>2. Len(msg) \in Nat /\ n = Len(msg) + ORDER + 1 /\ n \in Nat
  BY <1>1, Register1 DEF SetsOf
<1>3. \E S : air \in [1 .. n -> [1 .. RATE -> S]]
  BY DEF OnAir, Samples
<1>4. Len(air) = n
  <2> PICK S : air \in [1 .. n -> [1 .. RATE -> S]]
    BY <1>3
  <2> DEFINE T == [1 .. RATE -> S]
  <2>1. air \in [1 .. n -> T]
    OBVIOUS
  <2> HIDE DEF T, n
  <2> QED  BY <1>2, <2>1, FunctionIsSeq
<1> QED  BY <1>1, <1>2, <1>4 DEF LongEnough, Sets

\* The same after a step.
LEMMA SetsFactNext ==
    ASSUME OnAir', (pc \in {"air", "decode", "done"})'
    PROVE  Sets' \in Nat
<1> DEFINE n == SetsOf(msg)'
<1>1. msg' \in Seq({0, 1})
  BY DEF OnAir
<1>2. n \in Nat
  BY <1>1, Register1 DEF SetsOf
<1>3. \E S : air' \in [1 .. n -> [1 .. RATE -> S]]
  BY DEF OnAir, Samples
<1>4. Len(air') = n
  <2> PICK S : air' \in [1 .. n -> [1 .. RATE -> S]]
    BY <1>3
  <2> DEFINE T == [1 .. RATE -> S]
  <2>1. air' \in [1 .. n -> T]
    OBVIOUS
  <2> HIDE DEF T, n
  <2> QED  BY <1>2, <2>1, FunctionIsSeq
<1> QED  BY <1>2, <1>4 DEF Sets

LEMMA CostType ==
    ASSUME OnAir, pc = "decode", NEW n \in 0 .. Sets - 1, NEW s \in States
    PROVE  Distance(Table[s], air[n + 1]) \in 0 .. SETMAX
<1>1. n + 1 \in 1 .. SetsOf(msg)
  BY SetsFact
<1>2. air[n + 1] \in [1 .. RATE -> 0 .. SOFT_MAX]
  BY <1>1 DEF OnAir, Samples
<1>3. Table[s] \in [1 .. RATE -> {0, 1}]
  BY TableType
<1> QED  BY <1>2, <1>3, DistanceType

LEMMA SumType ==
    ASSUME NEW a \in Nat, NEW b \in Nat
    PROVE  /\ Sum(a, b) \in 0 .. DISTANCE_MAX
           /\ a + b <= DISTANCE_MAX => Sum(a, b) = a + b
<1> DEFINE m == DISTANCE_MAX + 1
           x == a + b
<1>1. m \in Nat \ {0} /\ x \in Nat /\ m - 1 = DISTANCE_MAX
  BY RingSize
<1> HIDE DEF m, x
<1>2. x % m \in 0 .. m - 1
  BY <1>1, RestType
<1>3. x <= m - 1 => x % m = x
  <2> SUFFICES ASSUME x <= m - 1 PROVE x % m = x
    OBVIOUS
  <2>1. x \in 0 .. m - 1 /\ x = m * 0 + x
    BY <1>1
  <2> QED  BY <1>1, <2>1, Quotient
<1> QED  BY <1>1, <1>2, <1>3 DEF Sum, m, x

\* The metrics that are read and written, and the sums that the decoder compares.
LEMMA SumsType ==
    ASSUME OnAir, pc = "decode", i \in 0 .. Sets - 1, errors \in Errors
    PROVE  /\ Read \in Metrics /\ Written \in Metrics
           /\ \A s \in States : /\ Cost(s) \in 0 .. SETMAX
                                /\ s \div 2 \in Paths
                                /\ Sum(Cost(s), Read[s \div 2]) \in 0 .. DISTANCE_MAX
           /\ \A s \in Paths : Low(s) \in 0 .. DISTANCE_MAX /\ High(s) \in 0 .. DISTANCE_MAX
<1>1. Read \in Metrics /\ Written \in Metrics
  BY DEF Read, Written, Errors
<1>2. ASSUME NEW s \in States
      PROVE  /\ Cost(s) \in 0 .. SETMAX /\ s \div 2 \in Paths
             /\ Sum(Cost(s), Read[s \div 2]) \in 0 .. DISTANCE_MAX
  <2>1. Cost(s) \in 0 .. SETMAX
    BY CostType DEF Cost
  <2>2. s \div 2 \in Paths
    BY Register1 DEF Paths
  <2>3. Read[s \div 2] \in Nat /\ Cost(s) \in Nat
    BY <1>1, <2>1, <2>2, RingSize, SetMaxFact DEF Metrics
  <2> QED  BY <2>1, <2>2, <2>3, SumType
<1>3. ASSUME NEW s \in Paths
      PROVE  s \in States /\ s + HIGHBIT \in States
  BY Register1 DEF Paths
<1> QED  BY <1>1, <1>2, <1>3 DEF Low, High

LEMMA InitInv == Init => ConvInv
<1> SUFFICES ASSUME Init PROVE ConvInv
  OBVIOUS
<1>1. /\ pc = "idle" /\ frameNo = 0 /\ air = <<>> /\ i = 0 /\ out = <<>> /\ Len(air) = 0
  BY DEF Init
<1>2. Len(Traffic) \in Nat
  BY ConvCodecAssumption
<1>3. errors \in Errors
  BY RingSize DEF Init, NoErrors, Errors, Metrics
<1>4. history \in History
  BY RingSize DEF Init, History, Slices
<1> QED  BY <1>1, <1>2, <1>3, <1>4 DEF ConvInv, OnAir, Buffers, Ledger, WholeLength, Sets

LEMMA SendInv == ConvInv /\ Send => ConvInv'
<1> SUFFICES ASSUME ConvInv, Send PROVE ConvInv'
  OBVIOUS
<1>1. /\ pc' = "air" /\ frameNo' = frameNo + 1 /\ frameNo < Len(Traffic)
      /\ msg' \in Traffic[frameNo'].sent
      /\ air' = Modulate(Encode(msg'))
      /\ UNCHANGED <<i, errors, history, out>> /\ i = 0
  BY DEF Send, ConvInv
<1>2. frameNo' \in 1 .. Len(Traffic)
  BY <1>1, ConvCodecAssumption DEF ConvInv, OnAir
<1>3. msg' \in Seq({0, 1}) /\ LongEnough(msg')
  BY <1>1, <1>2, ConvCodecAssumption
<1> DEFINE n == SetsOf(msg')
           sets == Encode(msg')
<1>4. n \in Nat /\ sets \in [1 .. n -> [1 .. RATE -> {0, 1}]]
  BY <1>3, RegisterSteps, EncodeType
<1>5. \A k \in 1 .. n : \A j \in 1 .. RATE : 2 * sets[k][j] - 1 \in Int
  <2> HIDE DEF n, sets
  <2> TAKE k \in 1 .. n
  <2> TAKE j \in 1 .. RATE
  <2>1. sets[k][j] \in {0, 1}
    BY <1>4
  <2> QED  BY <2>1
<1>6. air' \in [1 .. n -> [1 .. RATE -> Int]]
  <2>1. DOMAIN sets = 1 .. n
    BY <1>4
  <2>2. air' = [k \in 1 .. n |-> [j \in 1 .. RATE |-> 2 * sets[k][j] - 1]]
    BY <1>1, <2>1 DEF Modulate
  <2> HIDE DEF n, sets
  <2> QED  BY <1>5, <2>2
<1>7. OnAir'
  BY <1>1, <1>2, <1>3, <1>6, ConvCodecAssumption DEF OnAir, Samples
<1>8. Sets' \in Nat
  BY <1>1, <1>7, SetsFactNext
<1>9. Buffers' /\ Ledger' /\ WholeLength'
  BY <1>1 DEF Buffers, Ledger, WholeLength
<1> QED  BY <1>1, <1>7, <1>8, <1>9 DEF ConvInv

LEMMA HitInv == ConvInv /\ Hit => ConvInv'
<1> SUFFICES ASSUME ConvInv, Hit PROVE ConvInv'
  OBVIOUS
<1>1. /\ pc = "air" /\ UNCHANGED <<pc, frameNo, msg, i, errors, history, out>> /\ i = 0
      /\ OnAir
  BY DEF Hit, ConvInv
<1>2. PICK n \in DOMAIN air, j \in 1 .. RATE, x \in Traffic[frameNo].by :
         air' = [air EXCEPT ![n][j] = x]
  BY DEF Hit
<1>3. x \in Int
  BY <1>1, ConvCodecAssumption DEF OnAir
<1>4. air \in [1 .. SetsOf(msg) -> [1 .. RATE -> Int]]
  BY <1>1 DEF OnAir, Samples
<1>5. air' \in [1 .. SetsOf(msg) -> [1 .. RATE -> Int]]
  BY <1>2, <1>3, <1>4
<1>6. OnAir'
  BY <1>1, <1>5 DEF OnAir, Samples, SetsOf
<1>7. Sets' \in Nat
  BY <1>1, <1>6, SetsFactNext
<1>8. Buffers' /\ Ledger' /\ WholeLength'
  BY <1>1 DEF Buffers, Ledger, WholeLength
<1> QED  BY <1>1, <1>6, <1>7, <1>8 DEF ConvInv

LEMMA FadeInv == ConvInv /\ Fade => ConvInv'
<1> SUFFICES ASSUME ConvInv, Fade PROVE ConvInv'
  OBVIOUS
<1>1. /\ pc = "air" /\ UNCHANGED <<pc, frameNo, msg, i, errors, history, out>> /\ i = 0
      /\ OnAir
  BY DEF Fade, ConvInv
<1>2. air' = [n \in DOMAIN air |-> [j \in 1 .. RATE |->
                 IF <<n, j>> \in struck' THEN 0 ELSE air[n][j]]]
  BY DEF Fade
<1>3. air \in [1 .. SetsOf(msg) -> [1 .. RATE -> Int]]
  BY <1>1 DEF OnAir, Samples
<1>4. air' \in [1 .. SetsOf(msg) -> [1 .. RATE -> Int]]
  <2> DEFINE N == SetsOf(msg)
             faded(n) == [j \in 1 .. RATE |-> IF <<n, j>> \in struck' THEN 0 ELSE air[n][j]]
  <2>1. ASSUME NEW n \in 1 .. N
        PROVE  faded(n) \in [1 .. RATE -> Int]
    <3>1. air[n] \in [1 .. RATE -> Int]
      BY <1>3
    <3> DEFINE gone(j) == <<n, j>> \in struck'
               x(j) == IF gone(j) THEN 0 ELSE air[n][j]
    <3>2. ASSUME NEW j \in 1 .. RATE
          PROVE  x(j) \in Int
      <4>1. air[n][j] \in Int
        BY <3>1
      <4> HIDE DEF gone
      <4> QED  BY <4>1
    <3> QED  BY <3>2
  <2>2. air' = [n \in 1 .. N |-> faded(n)]
    BY <1>2, <1>3
  <2> HIDE DEF N, faded
  <2>3. air' \in [1 .. N -> [1 .. RATE -> Int]]
    BY <2>1, <2>2
  <2> QED  BY <2>3 DEF N
<1>5. OnAir'
  BY <1>1, <1>4 DEF OnAir, Samples, SetsOf
<1>6. Sets' \in Nat
  BY <1>1, <1>5, SetsFactNext
<1>7. Buffers' /\ Ledger' /\ WholeLength'
  BY <1>1 DEF Buffers, Ledger, WholeLength
<1> QED  BY <1>1, <1>5, <1>6, <1>7 DEF ConvInv

LEMMA BeginInv == ConvInv /\ Begin => ConvInv'
<1> SUFFICES ASSUME ConvInv, Begin PROVE ConvInv'
  OBVIOUS
<1>1. /\ pc = "air" /\ pc' = "decode" /\ i = 0 /\ OnAir /\ history \in History
      /\ air' = [n \in DOMAIN air |-> [j \in 1 .. RATE |-> ToSoft(air[n][j])]]
      /\ out' = <<>> /\ errors' = NoErrors
      /\ history' = [history EXCEPT !.index = 0, !.len = 0]
      /\ UNCHANGED <<frameNo, msg, struck, i>>
  BY DEF Begin, ConvInv
<1>2. air \in [1 .. SetsOf(msg) -> [1 .. RATE -> Int]]
  BY <1>1 DEF OnAir, Samples
<1>3. \A x \in Int : ToSoft(x) \in 0 .. SOFT_MAX
  <2> DEFINE half == SOFT_MAX \div 2
             ceiling == (SOFT_MAX + 1) \div 2
  <2>1. SOFT_MAX \in Nat /\ half \in Nat /\ ceiling \in Nat
    BY Register1
  <2>2. ASSUME NEW y \in Int
        PROVE  Clamp(y) \in 0 .. SOFT_MAX
    BY <2>1 DEF Clamp
  <2>3. ASSUME NEW x \in Int
        PROVE  x * half + ceiling \in Int
    <3> HIDE DEF half, ceiling
    <3> QED  BY <2>1
  <2> QED  BY <2>2, <2>3 DEF ToSoft
<1>4. air' \in [1 .. SetsOf(msg) -> [1 .. RATE -> 0 .. SOFT_MAX]]
  BY <1>1, <1>2, <1>3
<1>5. OnAir'
  BY <1>1, <1>4 DEF OnAir, Samples, SetsOf
<1>6. Sets' \in Nat
  BY <1>1, <1>5, SetsFactNext
<1>7. errors' \in Errors /\ errors'.index = 0 /\ errors'.read = 0 /\ errors'.write = 1
  BY <1>1, RingSize DEF NoErrors, Errors, Metrics
<1>8. history' \in History /\ history'.len = 0
  <2>1. 0 \in 0 .. CAP - 1
    BY RingSize
  <2>2. history' = [slice |-> history.slice, index |-> 0, len |-> 0, counter |-> history.counter]
    BY <1>1 DEF History
  <2> QED  BY <1>1, <2>1, <2>2 DEF History
<1>9. Buffers' /\ Ledger' /\ WholeLength'
  BY <1>1, <1>7, <1>8, Register1 DEF Buffers, Ledger, WholeLength
<1> QED  BY <1>1, <1>5, <1>6, <1>7, <1>8, <1>9 DEF ConvInv

\* What all steps of the decoder but the last have in common.
LEMMA DecodeInv ==
    ASSUME ConvInv, pc = "decode", i < Sets, UNCHANGED <<pc, channel>>, i' = i + 1,
           errors' \in Errors, history' \in History, out' \in Seq({0, 1}),
           NEW metric, errors' = Swapped(metric),
           Ledger'
    PROVE  ConvInv'
<1>1. /\ OnAir /\ errors \in Errors /\ i \in 0 .. Sets /\ Sets \in Nat /\ Buffers
      /\ UNCHANGED <<pc, frameNo, msg, air>> /\ Sets' = Sets
  BY SetsFact DEF ConvInv, channel, Sets
<1>2. OnAir'
  BY <1>1 DEF OnAir, Samples, SetsOf
<1>3. i' \in 0 .. Sets'
  BY <1>1
<1>4. /\ errors'.read = errors.index /\ errors'.index = 1 - errors.index
      /\ errors'.write = 1 - errors.index
  BY DEF Swapped
<1>5. Buffers'
  <2>1. CASE i = 0
    BY <2>1, <1>1, <1>4 DEF Buffers
  <2>2. CASE i # 0
    <3>1. i' >= 2 /\ errors.index \in 0 .. 1
      BY <2>2, <1>1 DEF Errors
    <3> QED  BY <3>1, <1>4 DEF Buffers
  <2> QED  BY <2>1, <2>2
<1>6. WholeLength'
  BY <1>1 DEF WholeLength
<1> QED  BY <1>1, <1>2, <1>3, <1>5, <1>6 DEF ConvInv

LEMMA WarmupInv == ConvInv /\ DecodeWarmup => ConvInv'
<1> SUFFICES ASSUME ConvInv, DecodeWarmup PROVE ConvInv'
  OBVIOUS
<1> DEFINE metric == [s \in States |->
                         IF s < Pow2[i + 1] THEN Sum(Cost(s), Read[s \div 2]) ELSE Written[s]]
<1>1. /\ pc = "decode" /\ i < ORDER - 1 /\ i < Sets /\ errors' = Swapped(metric) /\ i' = i + 1
      /\ UNCHANGED <<pc, channel, history, out>>
  BY DEF DecodeWarmup
<1>2. /\ OnAir /\ errors \in Errors /\ history \in History /\ out \in Seq({0, 1})
      /\ i \in 0 .. Sets - 1 /\ Ledger /\ Sets \in Nat
  BY <1>1, SetsFact DEF ConvInv
<1>3. metric \in Metrics
  <2>1. \A s \in States : /\ Sum(Cost(s), Read[s \div 2]) \in 0 .. DISTANCE_MAX
                          /\ Written[s] \in 0 .. DISTANCE_MAX
    BY <1>1, <1>2, SumsType DEF Metrics
  <2> QED  BY <2>1 DEF Metrics
<1>4. errors' \in Errors
  BY <1>1, <1>2, <1>3, SwappedType
<1>5. Ledger'
  <2>1. out = <<>> /\ history.len = 0
    BY <1>1, <1>2 DEF Ledger
  <2>2. i' \in Nat /\ (i' < ORDER - 1 \/ i' = ORDER - 1) /\ Len(<<>>) = 0
    BY <1>1, <1>2, Register1
  <2> QED  BY <1>1, <2>1, <2>2, Register1 DEF Ledger
<1> HIDE DEF metric
<1> QED  BY <1>1, <1>2, <1>4, <1>5, DecodeInv

\* A slice is filled and processed.
LEMMA ProcessInv ==
    ASSUME ConvInv, pc = "decode", i < Sets, i >= ORDER - 1, UNCHANGED <<pc, channel>>, i' = i + 1,
           NEW metric \in Metrics, NEW slice \in Slices, NEW skip \in Nat \ {0},
           Process(metric, slice, skip)
    PROVE  ConvInv'
<1>1. /\ errors \in Errors /\ history \in History /\ out \in Seq({0, 1}) /\ i \in Nat
      /\ Ledger /\ Len(out) \in Nat /\ history.len \in Nat
  BY SetsFact, RingSize DEF ConvInv, History
<1> DEFINE kept == IF history.counter + 1 = INTERVAL
                   THEN Renormalized(metric, Search(metric, skip)) ELSE metric
<1>2. /\ errors' \in Errors /\ history' \in History /\ out' \in Seq({0, 1})
      /\ errors' = Swapped(kept)
      /\ Len(out') + history'.len = Len(out) + history.len + 1
  BY <1>1, ProcessType
<1>3. Ledger'
  <2>1. Len(out) + history.len = i - (ORDER - 1) /\ ORDER \in Nat
    BY <1>1, Register1 DEF Ledger
  <2>2. ~(i' < ORDER - 1) /\ Len(out') + history'.len = i' - (ORDER - 1)
    BY <1>1, <1>2, <2>1
  <2> QED  BY <2>2 DEF Ledger
<1> HIDE DEF kept
<1> QED  BY <1>2, <1>3, DecodeInv

LEMMA InnerInv == ConvInv /\ DecodeInner => ConvInv'
<1> SUFFICES ASSUME ConvInv, DecodeInner PROVE ConvInv'
  OBVIOUS
<1> DEFINE metric == [s \in States |-> IF s \notin Paths THEN Written[s]
                                       ELSE IF Low(s) <= High(s) THEN Low(s) ELSE High(s)]
           slice == [s \in Paths |-> IF Low(s) <= High(s) THEN 0 ELSE 1]
<1>1. /\ pc = "decode" /\ i \in ORDER - 1 .. Sets - ORDER /\ Process(metric, slice, 1)
      /\ i' = i + 1 /\ UNCHANGED <<pc, channel>>
  BY DEF DecodeInner
<1>2. /\ OnAir /\ errors \in Errors /\ Sets \in Nat /\ ORDER \in Nat /\ ORDER >= 2
      /\ i \in 0 .. Sets - 1 /\ i >= ORDER - 1 /\ i < Sets
  BY <1>1, SetsFact, Register1 DEF ConvInv
<1>3. metric \in Metrics
  <2>1. /\ \A s \in States : Written[s] \in 0 .. DISTANCE_MAX
        /\ \A s \in Paths : Low(s) \in 0 .. DISTANCE_MAX /\ High(s) \in 0 .. DISTANCE_MAX
    BY <1>1, <1>2, SumsType DEF Metrics
  <2> QED  BY <2>1 DEF Metrics
<1>4. slice \in Slices
  BY DEF Slices
<1> HIDE DEF metric, slice
<1> QED  BY <1>1, <1>2, <1>3, <1>4, ProcessInv

LEMMA TailInv == ConvInv /\ DecodeTail => ConvInv'
<1> SUFFICES ASSUME ConvInv, DecodeTail PROVE ConvInv'
  OBVIOUS
<1> DEFINE skip == Pow2[ORDER - (Sets - i)]
           old == history.slice[history.index]
           metric == [s \in States |-> IF s \notin Paths \/ s % skip # 0 THEN Written[s]
                                       ELSE IF Low(s) < High(s) THEN Low(s) ELSE High(s)]
           slice == [s \in Paths |-> IF s % skip # 0 THEN old[s]
                                     ELSE IF Low(s) < High(s) THEN 0 ELSE 1]
<1>1. /\ pc = "decode" /\ i \in Sets - ORDER + 1 .. Sets - 1 /\ Process(metric, slice, skip)
      /\ i' = i + 1 /\ UNCHANGED <<pc, channel>>
  BY DEF DecodeTail
<1>2. /\ OnAir /\ errors \in Errors /\ Sets \in Nat /\ ORDER \in Nat /\ ORDER >= 2
      /\ history \in History /\ i \in 0 .. Sets - 1 /\ i >= ORDER - 1 /\ i < Sets
  BY <1>1, SetsFact, Register1 DEF ConvInv
<1>3. skip \in Nat \ {0}
  <2>1. ORDER - (Sets - i) \in 0 .. ORDER
    BY <1>1, <1>2
  <2> QED  BY <2>1, Pow2Fact
<1>4. old \in Slices
  BY <1>2 DEF History
<1> HIDE DEF skip, old
<1>5. metric \in Metrics
  <2>1. /\ \A s \in States : Written[s] \in 0 .. DISTANCE_MAX
        /\ \A s \in Paths : Low(s) \in 0 .. DISTANCE_MAX /\ High(s) \in 0 .. DISTANCE_MAX
    BY <1>1, <1>2, SumsType DEF Metrics
  <2> QED  BY <2>1 DEF Metrics
<1>6. slice \in Slices
  BY <1>4 DEF Slices
<1> HIDE DEF metric, slice
<1> QED  BY <1>1, <1>2, <1>3, <1>5, <1>6, ProcessInv

LEMMA FlushInv == ConvInv /\ Flush => ConvInv'
<1> SUFFICES ASSUME ConvInv, Flush PROVE ConvInv'
  OBVIOUS
<1> DEFINE back == Traceback(history, 0, 0)
           bits == out \o Reverse(back)
           n == BYTE * (Len(bits) \div BYTE)
<1>1. /\ pc = "decode" /\ i = Sets /\ out' = SubSeq(bits, 1, n)
      /\ history' = [history EXCEPT !.len = 0] /\ pc' = "done" /\ i' = 0
      /\ UNCHANGED <<channel, errors>>
  BY DEF Flush
<1>2. /\ OnAir /\ errors \in Errors /\ history \in History /\ out \in Seq({0, 1}) /\ Ledger
      /\ UNCHANGED <<frameNo, msg, air>> /\ Sets' = Sets
  BY <1>1 DEF ConvInv, channel, Sets
<1>3. /\ Sets \in Nat /\ Len(msg) \in Nat /\ Sets = Len(msg) + ORDER + 1
      /\ Len(msg) % BYTE = 0 /\ ORDER \in Nat /\ BYTE \in Nat \ {0}
  BY <1>1, <1>2, SetsFact, Register1, RingSize
<1>4. back \in Seq({0, 1}) /\ Len(back) = history.len
  <2>1. Ring(history) /\ history.len \in Nat
    BY <1>2, RingSize DEF History, Ring
  <2>2. 0 \in Paths /\ 0 \in 0 .. history.len
    BY <2>1, RingSize
  <2> QED  BY <2>1, <2>2, TracebackType
<1>5. bits \in Seq({0, 1}) /\ Len(bits) = Len(msg) + 2
  <2> DEFINE B == {0, 1}
             r == Reverse(back)
  <2>1. r \in Seq(B) /\ Len(r) = history.len /\ out \in Seq(B)
    BY <1>2, <1>4, ReverseType
  <2>2. out \o r \in Seq(B) /\ Len(out \o r) = Len(out) + Len(r)
    <3> HIDE DEF B, r
    <3> QED  BY <2>1
  <2>3. Len(out) + history.len = Len(msg) + 2
    <3>1. ~(i < ORDER - 1) /\ i - (ORDER - 1) = Len(msg) + 2
      BY <1>1, <1>3
    <3> QED  BY <1>1, <1>2, <3>1 DEF Ledger
  <2> QED  BY <2>1, <2>2, <2>3
<1>6. n \in 0 .. Len(bits) /\ (BYTE > 2 => n = Len(msg))
  <2> DEFINE L == Len(bits)
             q == L \div BYTE
             p == Len(msg) \div BYTE
  <2>1. L \in Nat /\ L = Len(msg) + 2
    BY <1>3, <1>5
  <2> HIDE DEF L
  <2>2. q \in Nat /\ L % BYTE \in 0 .. BYTE - 1 /\ L = BYTE * q + (L % BYTE)
    BY <1>3, <2>1, Division
  <2> DEFINE M == Len(msg)
             b == BYTE
  <2>3. p \in Nat /\ M = b * p /\ M \in Nat /\ b \in Nat \ {0}
    <3>1. M \in Nat /\ b \in Nat \ {0} /\ M % b = 0
      BY <1>3
    <3> HIDE DEF M, b
    <3>2. M \div b \in Nat /\ M = b * (M \div b) + (M % b)
      BY <3>1, Division
    <3>3. M = b * (M \div b)
      <4> DEFINE x == b * (M \div b)
      <4>1. M = x + 0 /\ x \in Nat
        BY <3>1, <3>2
      <4> HIDE DEF x
      <4>2. M = x
        BY <4>1
      <4> QED  BY <4>2 DEF x
    <3> QED  BY <3>1, <3>2, <3>3 DEF M, b
  <2>4. BYTE > 2 => q = p
    <3> SUFFICES ASSUME BYTE > 2 PROVE q = p
      OBVIOUS
    <3>1. 2 \in 0 .. b - 1 /\ L = M + 2
      BY <2>1, <2>3
    <3> HIDE DEF p, M, b
    <3>0. L = b * p + 2
      BY <2>3, <3>1
    <3>2. L \div b = p
      <4>1. L \in Nat /\ b \in Nat \ {0} /\ p \in Nat /\ 2 \in 0 .. b - 1
        BY <2>1, <2>3, <3>1
      <4> QED  BY <3>0, <4>1, Quotient
    <3> QED  BY <3>2 DEF b
  <2> HIDE DEF q, p
  <2>5. BYTE * q \in 0 .. L
    <3>1. BYTE * q \in Nat
      BY <1>3, <2>2
    <3> QED  BY <2>1, <2>2, <3>1
  <2> QED  BY <2>3, <2>4, <2>5 DEF L, q
<1> HIDE DEF bits, n
<1>7. out' \in Seq({0, 1}) /\ Len(out') = n
  <2> DEFINE B == {0, 1}
  <2>1. bits \in Seq(B) /\ n \in 0 .. Len(bits)
    BY <1>5, <1>6
  <2> HIDE DEF B
  <2>2. SubSeq(bits, 1, n) \in Seq(B) /\ Len(SubSeq(bits, 1, n)) = n
    BY <2>1
  <2> QED  BY <1>1, <2>2 DEF B
<1>8. OnAir'
  BY <1>1, <1>2 DEF OnAir, Samples, SetsOf
<1>9. history' \in History
  <2>1. 0 \in 0 .. CAP - 1
    BY RingSize
  <2> QED  BY <1>1, <1>2, <2>1 DEF History
<1>10. Buffers' /\ Ledger' /\ WholeLength'
  BY <1>1, <1>2, <1>6, <1>7 DEF Buffers, Ledger, WholeLength
<1> QED  BY <1>1, <1>2, <1>3, <1>7, <1>8, <1>9, <1>10 DEF ConvInv

LEMMA NextInv == ConvInv /\ [Next]_vars => ConvInv'
<1> SUFFICES ASSUME ConvInv, [Next]_vars PROVE ConvInv'
  OBVIOUS
<1>1. CASE Send \/ Hit \/ Fade \/ Begin
  BY <1>1, SendInv, HitInv, FadeInv, BeginInv
<1>2. CASE DecodeWarmup \/ DecodeInner \/ DecodeTail \/ Flush
  BY <1>2, WarmupInv, InnerInv, TailInv, FlushInv
<1>3. CASE UNCHANGED vars
  BY <1>3 DEF vars, channel, ConvInv, OnAir, Samples, SetsOf, Sets, Buffers, Ledger, WholeLength
<1> QED  BY <1>1, <1>2, <1>3 DEF Next, Finished

\* The invariant of the bookkeeping holds in every state of the stage.
THEOREM ConvInvariance == Spec => []ConvInv
<1>1. Init => ConvInv
  BY InitInv
<1>2. ConvInv /\ [Next]_vars => ConvInv'
  BY NextInv
<1> QED  BY <1>1, <1>2, PTL DEF Spec

\* The cursors of the ring and of the two metric buffers stay in them, the ring is never
\* full after a step, and every slice has a bit for every path (history_buffer.c:143-195,
\* error_buffer.c:23-43).
THEOREM ConvTypes == Spec => []TypeOK
<1>1. ConvInv => TypeOK
  BY DEF ConvInv, TypeOK, OnAir, Errors, History, Metrics, Slices
<1> QED  BY <1>1, ConvInvariance, PTL

\* Every message comes out with as many bits as it went in with, where the writer counts
\* more than two bits as a byte.
THEOREM ConvLength == Spec => []WholeLength
<1>1. ConvInv => WholeLength
  BY DEF ConvInv
<1> QED  BY <1>1, ConvInvariance, PTL

----------------------------------------------------------------------------
(* How far the metrics are apart, and how high they can be. *)

\* What a path costs at most whose latest k bits are arbitrary, and that has taken the
\* cheaper of the two ways in all sets before them.
Bound(age, k) == k * SETMAX + HALF * (IF age > k THEN age - k ELSE 0)

LEMMA Monotone ==
    ASSUME NEW a \in Nat, NEW b \in Nat, NEW c \in Nat, a <= b
    PROVE  c * a <= c * b /\ c * a \in Nat /\ c * b \in Nat
<1>1. PICK d \in Nat : b = a + d
  <2>1. b - a \in Nat /\ b = a + (b - a)
    OBVIOUS
  <2> QED  BY <2>1
<1>2. c * b = c * a + c * d /\ c * a \in Nat /\ c * d \in Nat
  BY <1>1
<1> QED  BY <1>2

LEMMA BoundFact ==
    ASSUME NEW age \in Nat, NEW k \in Nat
    PROVE  /\ Bound(age, k) \in Nat /\ k * SETMAX \in Nat /\ k * SETMAX <= Bound(age, k)
           /\ (k + 1) * SETMAX = k * SETMAX + SETMAX
           /\ Bound(age + 1, k + 1) = Bound(age, k) + SETMAX
           /\ Bound(age + 1, 0) = Bound(age, 0) + HALF
           /\ Bound(age, k) < Bound(age, k + 1)
<1> DEFINE S == SETMAX
           H == HALF
           m == k * S
           n == (k + 1) * S
           x == IF age > k THEN age - k ELSE 0
           y == IF age > k + 1 THEN age - (k + 1) ELSE 0
<1>1. S \in Nat /\ H \in Nat /\ H < S
  BY SetMaxFact
<1>2. x \in Nat /\ y \in Nat /\ (x = y \/ x = y + 1)
  OBVIOUS
<1>3. (IF age + 1 > k + 1 THEN (age + 1) - (k + 1) ELSE 0) = x
  OBVIOUS
<1>4. m \in Nat /\ n = m + S
  <2> HIDE DEF S
  <2> QED  BY <1>1
<1>5. H * x \in Nat /\ H * y \in Nat /\ (H * x = H * y \/ H * x = H * y + H)
  <2> HIDE DEF H, x, y
  <2>1. H * (y + 1) = H * y + H
    BY <1>1, <1>2
  <2> QED  BY <1>1, <1>2, <2>1
<1>6. /\ Bound(age, k) = m + H * x /\ Bound(age + 1, k + 1) = n + H * x
      /\ Bound(age, k + 1) = n + H * y
  BY <1>3 DEF Bound
<1>7. Bound(age, 0) = H * age /\ Bound(age + 1, 0) = H * age + H /\ H * age \in Nat
  <2>1. 0 * S = 0
    BY <1>1
  <2>2. /\ (IF age > 0 THEN age - 0 ELSE 0) = age
        /\ (IF age + 1 > 0 THEN (age + 1) - 0 ELSE 0) = age + 1
    OBVIOUS
  <2>3. Bound(age, 0) = 0 * S + H * age /\ Bound(age + 1, 0) = 0 * S + H * (age + 1)
    BY <2>2 DEF Bound
  <2>4. H * (age + 1) = H * age + H /\ H * age \in Nat
    <3> HIDE DEF H
    <3> QED  BY <1>1
  <2> DEFINE z == 0 * S
             p == H * age
             q == H * (age + 1)
  <2>5. /\ z = 0 /\ q = p + H /\ p \in Nat /\ q \in Nat
        /\ Bound(age, 0) = z + p /\ Bound(age + 1, 0) = z + q
    BY <1>1, <2>1, <2>3, <2>4
  <2> HIDE DEF z, p, q, H
  <2>6. Bound(age, 0) = p /\ Bound(age + 1, 0) = p + H
    BY <1>1, <2>5
  <2> QED  BY <2>5, <2>6 DEF p
<1> DEFINE hx == H * x
           hy == H * y
<1>8. /\ Bound(age, k) = m + hx /\ Bound(age + 1, k + 1) = n + hx
      /\ Bound(age, k + 1) = n + hy
      /\ hx \in Nat /\ hy \in Nat /\ (hx = hy \/ hx = hy + H)
  BY <1>5, <1>6
<1> HIDE DEF S, H, m, n, hx, hy
<1>9. /\ Bound(age, k) \in Nat /\ m <= Bound(age, k)
      /\ Bound(age + 1, k + 1) = Bound(age, k) + S
      /\ Bound(age, k) < Bound(age, k + 1)
  BY <1>1, <1>4, <1>8
<1> QED  BY <1>4, <1>7, <1>9 DEF S, H, m, n

LEMMA BoundAge ==
    ASSUME NEW age \in Nat, NEW older \in Nat, age <= older, NEW k \in Nat
    PROVE  Bound(age, k) <= Bound(older, k)
<1> DEFINE x == IF age > k THEN age - k ELSE 0
           y == IF older > k THEN older - k ELSE 0
           S == SETMAX
           H == HALF
<1>1. x \in Nat /\ y \in Nat /\ x <= y /\ H \in Nat
  BY SetMaxFact
<1>2. H * x <= H * y /\ H * x \in Nat /\ H * y \in Nat
  <2> HIDE DEF x, y, H
  <2> QED  BY <1>1, Monotone
<1>3. k * S \in Nat
  BY BoundFact
<1>4. Bound(age, k) = k * S + H * x /\ Bound(older, k) = k * S + H * y
  BY DEF Bound
<1> DEFINE m == k * S
           hx == H * x
           hy == H * y
<1>5. Bound(age, k) = m + hx /\ Bound(older, k) = m + hy /\ hx <= hy
      /\ m \in Nat /\ hx \in Nat /\ hy \in Nat
  BY <1>2, <1>3, <1>4
<1> HIDE DEF m, hx, hy
<1> QED  BY <1>5

(***************************************************************************)
(* What a distance_t must hold, for the metrics never to wrap: in all sets *)
(* but ORDER of those between two renormalizations the best path costs at  *)
(* most half of a set, and in those ORDER all of it.  The code's numbers   *)
(* are 127 * 255 + 7 * 510 and 65535 (decode.c:285-286).                   *)
(***************************************************************************)
Roomy == OddPolynomials /\ (INTERVAL - 1) * HALF + ORDER * SETMAX <= DISTANCE_MAX

LEMMA BoundRoom ==
    ASSUME Roomy, NEW age \in 0 .. ORDER + INTERVAL - 2
    PROVE  Bound(age, ORDER - 1) + SETMAX <= DISTANCE_MAX
<1> DEFINE S == SETMAX
           H == HALF
           N == ORDER - 1
           x == IF age > N THEN age - N ELSE 0
           y == INTERVAL - 1
<1>1. S \in Nat /\ H \in Nat /\ N \in Nat /\ ORDER = N + 1 /\ INTERVAL \in Nat \ {0}
      /\ DISTANCE_MAX \in Nat
  BY SetMaxFact, Register1, RingSize
<1>2. x \in Nat /\ y \in Nat /\ x <= y /\ age \in Nat
  BY <1>1
<1>3. H * x <= H * y /\ H * x \in Nat /\ H * y \in Nat
  <2> HIDE DEF x, y, H
  <2> QED  BY <1>1, <1>2, Monotone
<1>4. N * S \in Nat /\ ORDER * S = N * S + S
  BY <1>1, BoundFact
<1>5. Bound(age, N) = N * S + H * x
  BY DEF Bound
<1>6. y * H = H * y
  <2> HIDE DEF y, H
  <2> QED  BY <1>1, <1>2
<1>7. y * H + ORDER * S <= DISTANCE_MAX
  BY DEF Roomy
<1> DEFINE m == N * S
           hx == H * x
           hy == H * y
<1>8. /\ Bound(age, N) = m + hx /\ hx <= hy /\ hy + (m + S) <= DISTANCE_MAX
      /\ m \in Nat /\ hx \in Nat /\ hy \in Nat
  BY <1>3, <1>4, <1>5, <1>6, <1>7
<1> HIDE DEF m, hx, hy, S, N
<1>9. Bound(age, N) + S <= DISTANCE_MAX
  BY <1>1, <1>8
<1> QED  BY <1>9 DEF S, N

\* Two paths that are alive cost the same but for the sets in which they differ.
Spread(f, live) ==
    \A k \in 0 .. ORDER - 1 : \A s, t \in live :
        Kin(k, s, t) => f[s] <= f[t] + k * SETMAX

\* There is a path that is cheap, and so are those that are kin to it.
Cheap(f, live, from, age) ==
    \E z \in live : \A k \in from .. ORDER - 1 : \A s \in live :
        Kin(k, s, z) => f[s] <= Bound(age, k)

\* From the metrics f of `live` to g of `next`: a path goes on from the best of those that
\* have dropped a bit of B.
Round(f, live, g, next, cost, B) ==
    \A s \in next :
        /\ \A b \in B : /\ Before(s, b) \in live
                        /\ g[s] <= f[Before(s, b)] + cost[s + b * HIGHBIT]
        /\ \E b \in B : g[s] = f[Before(s, b)] + cost[s + b * HIGHBIT]

LEMMA SpreadStep ==
    ASSUME NEW f \in Metrics, NEW g \in Metrics, NEW cost \in [States -> 0 .. SETMAX],
           NEW B \in SUBSET {0, 1}, NEW live \in SUBSET Paths, NEW next \in SUBSET Paths,
           Round(f, live, g, next, cost, B), Spread(f, live)
    PROVE  Spread(g, next)
<1> SUFFICES ASSUME NEW k \in 0 .. ORDER - 1, NEW s \in next, NEW t \in next, Kin(k, s, t)
             PROVE  g[s] <= g[t] + k * SETMAX
  BY DEF Spread
<1>1. \A x \in Paths : f[x] \in Nat /\ g[x] \in Nat
  BY RingSize DEF Metrics
<1>2. CASE k = 0
  <2>1. s = t /\ 0 * SETMAX = 0
    BY <1>2, KinEnds, SetMaxFact
  <2> QED  BY <1>1, <1>2, <2>1
<1>3. CASE k # 0
  <2> DEFINE j == k - 1
  <2>1. j \in 0 .. ORDER - 2 /\ j + 1 = k /\ j \in 0 .. ORDER - 1 /\ j \in Nat
    BY <1>3, Register1
  <2>2. PICK b \in B : g[t] = f[Before(t, b)] + cost[t + b * HIGHBIT]
    BY DEF Round
  <2>3. /\ Before(s, b) \in live /\ Before(t, b) \in live
        /\ g[s] <= f[Before(s, b)] + cost[s + b * HIGHBIT]
    BY DEF Round
  <2>4. s + b * HIGHBIT \in States /\ t + b * HIGHBIT \in States
    BY BeforeType
  <2>5. Kin(j, Before(s, b), Before(t, b))
    BY <2>1, KinBefore
  <2>6. f[Before(s, b)] <= f[Before(t, b)] + j * SETMAX
    BY <2>1, <2>3, <2>5 DEF Spread
  <2>7. k * SETMAX = j * SETMAX + SETMAX /\ j * SETMAX \in Nat
    BY <2>1, BoundFact
  <2> DEFINE fs == f[Before(s, b)]
             ft == f[Before(t, b)]
             cs == cost[s + b * HIGHBIT]
             ct == cost[t + b * HIGHBIT]
             gs == g[s]
             gt == g[t]
             m == j * SETMAX
             n == k * SETMAX
  <2>8. /\ fs \in Nat /\ ft \in Nat /\ cs \in 0 .. SETMAX /\ ct \in 0 .. SETMAX
        /\ gs \in Nat /\ gt \in Nat /\ SETMAX \in Nat
        /\ gt = ft + ct /\ gs <= fs + cs /\ fs <= ft + m /\ n = m + SETMAX /\ m \in Nat
    BY <1>1, <2>2, <2>3, <2>4, <2>6, <2>7, SetMaxFact
  <2> HIDE DEF fs, ft, cs, ct, gs, gt, m, n
  <2>9. gs <= gt + n
    BY <2>8
  <2> QED  BY <2>9 DEF gs, gt, n
<1> QED  BY <1>2, <1>3

\* Every path that is alive can go on, and if all bits are possible, at half a set.
GoesOn(live, next, cost, B, half) ==
    \A z \in live : \E y \in next : \E b \in B :
        Before(y, b) = z /\ (half => cost[y + b * HIGHBIT] <= HALF)

LEMMA CheapStep ==
    ASSUME NEW f \in Metrics, NEW g \in Metrics, NEW cost \in [States -> 0 .. SETMAX],
           NEW B \in SUBSET {0, 1}, NEW live \in SUBSET Paths, NEW next \in SUBSET Paths,
           NEW from \in 0 .. ORDER - 2, NEW to \in {from, from + 1}, to = 0 \/ to = from + 1,
           NEW age \in Nat,
           Round(f, live, g, next, cost, B), GoesOn(live, next, cost, B, to = 0),
           Cheap(f, live, from, age)
    PROVE  /\ Cheap(g, next, to, age + 1)
           /\ \E t \in next : g[t] < Bound(age, ORDER - 1) + SETMAX
<1>1. PICK z \in live : \A k \in from .. ORDER - 1 : \A s \in live :
                           Kin(k, s, z) => f[s] <= Bound(age, k)
  BY DEF Cheap
<1>2. PICK y \in next, b \in B : /\ Before(y, b) = z
                                 /\ to = 0 => cost[y + b * HIGHBIT] <= HALF
  BY DEF GoesOn
<1>3. \A x \in Paths : f[x] \in Nat /\ g[x] \in Nat
  BY RingSize DEF Metrics
<1>4. ORDER \in Nat /\ ORDER >= 2 /\ SETMAX \in Nat /\ HALF \in Nat
  BY Register1, SetMaxFact
<1>5. \A s \in next : \A a \in B : s + a * HIGHBIT \in States
  BY BeforeType
<1>6. ASSUME NEW k \in to .. ORDER - 1, NEW s \in next, Kin(k, s, y)
      PROVE  g[s] <= Bound(age + 1, k)
  <2>1. CASE k = 0
    <3>1. s = y /\ to = 0
      BY <2>1, <1>4, <1>6, KinEnds
    <3>2. 0 \in from .. ORDER - 1 /\ Kin(0, z, z)
      BY <3>1, <1>4 DEF Kin
    <3>3. f[z] <= Bound(age, 0)
      BY <1>1, <3>2
    <3>4. g[y] <= f[z] + cost[y + b * HIGHBIT] /\ cost[y + b * HIGHBIT] <= HALF
      BY <1>2, <3>1 DEF Round
    <3>5. Bound(age + 1, 0) = Bound(age, 0) + HALF /\ Bound(age, 0) \in Nat
      BY BoundFact
    <3> DEFINE c == cost[y + b * HIGHBIT]
    <3>6. c \in Nat /\ c <= HALF /\ g[y] <= f[z] + c /\ f[z] \in Nat /\ g[y] \in Nat
      BY <1>3, <1>4, <1>5, <3>4
    <3> HIDE DEF c
    <3>7. g[y] <= Bound(age, 0) + HALF
      BY <1>4, <3>3, <3>5, <3>6
    <3> QED  BY <2>1, <3>1, <3>5, <3>7
  <2>2. CASE k # 0
    <3> DEFINE j == k - 1
    <3>1. j \in 0 .. ORDER - 2 /\ j + 1 = k /\ j \in from .. ORDER - 1 /\ j \in Nat
      BY <2>2, <1>4
    <3>2. /\ Before(s, b) \in live
          /\ g[s] <= f[Before(s, b)] + cost[s + b * HIGHBIT]
      BY DEF Round
    <3>3. Kin(j, Before(s, b), z)
      BY <1>2, <1>6, <3>1, KinBefore
    <3>4. f[Before(s, b)] <= Bound(age, j)
      BY <1>1, <3>1, <3>2, <3>3
    <3>5. Bound(age + 1, k) = Bound(age, j) + SETMAX /\ Bound(age, j) \in Nat
      BY <3>1, BoundFact
    <3> DEFINE c == cost[s + b * HIGHBIT]
               fs == f[Before(s, b)]
               gs == g[s]
    <3>6. c \in 0 .. SETMAX /\ gs <= fs + c /\ fs \in Nat /\ gs \in Nat /\ fs <= Bound(age, j)
      BY <1>3, <1>5, <3>2, <3>4
    <3> HIDE DEF c, fs, gs, j
    <3>7. gs <= Bound(age, j) + SETMAX
      BY <1>4, <3>5, <3>6
    <3> QED  BY <3>5, <3>7 DEF gs
  <2> QED  BY <2>1, <2>2
<1>7. g[y] < Bound(age, ORDER - 1) + SETMAX
  <2> DEFINE k == ORDER - 2
  <2>1. k \in from .. ORDER - 1 /\ k \in Nat /\ k + 1 = ORDER - 1 /\ Kin(k, z, z)
    BY <1>4 DEF Kin
  <2>2. f[z] <= Bound(age, k)
    BY <1>1, <2>1
  <2> DEFINE c == cost[y + b * HIGHBIT]
  <2>3. g[y] <= f[z] + c /\ c \in 0 .. SETMAX /\ f[z] \in Nat /\ g[y] \in Nat
    BY <1>2, <1>3, <1>5 DEF Round
  <2>4. Bound(age, k) < Bound(age, k + 1) /\ Bound(age, k) \in Nat /\ Bound(age, k + 1) \in Nat
    BY <2>1, BoundFact
  <2> HIDE DEF c, k
  <2>5. g[y] < Bound(age, k + 1) + SETMAX
    BY <1>4, <2>2, <2>3, <2>4
  <2> QED  BY <2>1, <2>5
<1> QED  BY <1>6, <1>7 DEF Cheap

\* A cheap path and all that are kin to it in some bit are all paths that are alive.
LEMMA CheapRoom ==
    ASSUME NEW f, NEW live \in SUBSET Paths, NEW from \in 0 .. ORDER - 1, NEW age \in Nat,
           Cheap(f, live, from, age)
    PROVE  \A s \in live : f[s] <= Bound(age, ORDER - 1)
<1>1. PICK z \in live : \A k \in from .. ORDER - 1 : \A s \in live :
                           Kin(k, s, z) => f[s] <= Bound(age, k)
  BY DEF Cheap
<1>2. ORDER - 1 \in from .. ORDER - 1
  BY Register1
<1>3. \A s \in live : Kin(ORDER - 1, s, z)
  BY KinEnds
<1> QED  BY <1>1, <1>2, <1>3

\* At the beginning all metrics are 0.
LEMMA ZeroMetrics ==
    ASSUME NEW f, NEW live \in SUBSET Paths, 0 \in live, \A s \in live : f[s] = 0,
           NEW from \in Nat, NEW age \in Nat
    PROVE  Spread(f, live) /\ Cheap(f, live, from, age)
<1>1. \A k \in Nat : Bound(age, k) \in Nat /\ k * SETMAX \in Nat
  BY BoundFact
<1>2. ASSUME NEW k \in Nat
      PROVE  0 <= Bound(age, k) /\ 0 <= 0 + k * SETMAX
  <2> DEFINE x == Bound(age, k)
             y == k * SETMAX
  <2>1. x \in Nat /\ y \in Nat
    BY <1>1
  <2> HIDE DEF x, y
  <2>2. 0 <= x /\ 0 <= 0 + y
    BY <2>1
  <2> QED  BY <2>2 DEF x, y
<1>3. \A k \in from .. ORDER - 1 : k \in Nat
  BY Register1
<1>4. \A k \in 0 .. ORDER - 1 : k \in Nat
  OBVIOUS
<1>5. Spread(f, live)
  BY <1>2, <1>4 DEF Spread
<1>6. Cheap(f, live, from, age)
  BY <1>2, <1>3 DEF Cheap
<1> QED  BY <1>5, <1>6

\* Renormalizing takes the metric of the best path from all that are alive.
LEMMA RenormalizeStep ==
    ASSUME NEW g \in Metrics, NEW skip \in Nat \ {0}, NEW next,
           next = {s \in Paths : s % skip = 0}, NEW t \in next, g[t] < DISTANCE_MAX,
           Spread(g, next), NEW from \in Nat, NEW age \in Nat,
           NEW h, h = Renormalized(g, Search(g, skip))
    PROVE  Spread(h, next) /\ Cheap(h, next, from, age)
<1> DEFINE best == Search(g, skip)
<1>1. best \in next /\ \A s \in next : g[best] <= g[s]
  BY SearchBest
<1>2. \A s \in Paths : g[s] \in Nat /\ g[s] <= DISTANCE_MAX /\ s \in States
  BY RingSize DEF Metrics
<1>3. ASSUME NEW s \in next
      PROVE  h[s] = g[s] - g[best]
  <2> DEFINE x == g[s] - g[best]
             m == DISTANCE_MAX + 1
  <2>1. /\ g[s] \in Nat /\ g[best] \in Nat /\ g[best] <= g[s] /\ g[s] <= DISTANCE_MAX
        /\ DISTANCE_MAX \in Nat
    BY <1>1, <1>2, RingSize
  <2>2. x \in 0 .. m - 1 /\ m \in Nat \ {0} /\ x \in Nat
    <3> HIDE DEF best
    <3> QED  BY <2>1
  <2>3. h[s] = x % m
    BY <1>2 DEF Renormalized
  <2> HIDE DEF x, m
  <2>4. x = m * 0 + x
    BY <2>2
  <2>5. x % m = x
    BY <2>2, <2>4, Quotient
  <2> QED  BY <2>3, <2>5 DEF x
<1> HIDE DEF best
<1>4. \A k \in Nat : k * SETMAX \in Nat /\ k * SETMAX <= Bound(age, k) /\ Bound(age, k) \in Nat
  BY BoundFact
<1>5. ASSUME NEW k \in 0 .. ORDER - 1, NEW s \in next, NEW u \in next, Kin(k, s, u)
      PROVE  h[s] <= h[u] + k * SETMAX
  <2> DEFINE m == k * SETMAX
  <2>1. m \in Nat /\ g[s] <= g[u] + m
    BY <1>4, <1>5 DEF Spread
  <2>2. g[s] \in Nat /\ g[u] \in Nat /\ g[best] \in Nat
    BY <1>1, <1>2
  <2> HIDE DEF m
  <2>3. h[s] <= h[u] + m
    BY <1>3, <2>1, <2>2
  <2> QED  BY <2>3 DEF m
<1>6. ASSUME NEW k \in from .. ORDER - 1, NEW s \in next, Kin(k, s, best)
      PROVE  h[s] <= Bound(age, k)
  <2> DEFINE m == k * SETMAX
             d == Bound(age, k)
  <2>1. k \in 0 .. ORDER - 1 /\ k \in Nat
    BY Register1
  <2>2. m \in Nat /\ d \in Nat /\ m <= d /\ g[s] <= g[best] + m
    BY <1>1, <1>4, <1>6, <2>1 DEF Spread
  <2>3. g[s] \in Nat /\ g[best] \in Nat
    BY <1>1, <1>2
  <2> HIDE DEF m, d
  <2>4. h[s] <= d
    BY <1>3, <2>2, <2>3
  <2> QED  BY <2>4 DEF d
<1>7. Spread(h, next)
  BY <1>5 DEF Spread
<1>8. Cheap(h, next, from, age)
  BY <1>1, <1>6 DEF Cheap
<1> QED  BY <1>7, <1>8

----------------------------------------------------------------------------
(* The metrics of the decoder stay in the bound. *)

\* The paths that are alive before set n + 1, and how many of their latest bits are 0.
Live(n) ==
    IF n < ORDER - 1 THEN {s \in Paths : s < Pow2[n]}
    ELSE IF n <= Sets - ORDER THEN Paths
    ELSE {s \in Paths : s % Pow2[n - (Sets - ORDER + 1)] = 0}
Ruled(n) == IF n <= Sets - ORDER THEN 0 ELSE n - (Sets - ORDER + 1)

\* The sets that the metrics have gathered since they were 0, or not many more.
Age == IF i < ORDER - 1 THEN i ELSE ORDER - 1 + history.counter

MetricInv ==
    pc = "decode" =>
        /\ i <= 1 => \A s \in Paths : Read[s] = 0
        /\ Spread(Read, Live(i)) /\ Cheap(Read, Live(i), Ruled(i), Age)

CostAt == [s \in States |-> Cost(s)]

\* Of the two states that follow a path, one costs at most half a set.
LEMMA CheaperChild ==
    ASSUME Roomy, OnAir, pc = "decode", i \in 0 .. Sets - 1, NEW z \in Paths
    PROVE  /\ CostAt \in [States -> 0 .. SETMAX]
           /\ \E e \in {0, 1} : 2 * z + e \in States /\ CostAt[2 * z + e] <= HALF
<1>1. \A s \in States : Cost(s) \in 0 .. SETMAX
  BY CostType DEF Cost
<1>2. CostAt \in [States -> 0 .. SETMAX] /\ \A s \in States : CostAt[s] = Cost(s)
  BY <1>1 DEF CostAt
<1>3. OddPolynomials
  BY DEF Roomy
<1>4. /\ 2 * z \in States /\ 2 * z + 1 \in States /\ z \in Nat
      /\ \A j \in 1 .. RATE : Table[2 * z + 1][j] = 1 - Table[2 * z][j]
  <2>1. 1 \in 1 .. RATE /\ z \in Nat
    BY Register1, RingSize
  <2> QED  BY <1>3, <2>1, TableOpposite
<1> DEFINE a == Table[2 * z]
           b == Table[2 * z + 1]
           soft == air[i + 1]
<1>5. a \in [1 .. RATE -> {0, 1}] /\ b \in [1 .. RATE -> {0, 1}]
  BY <1>4, TableType
<1>6. soft \in [1 .. RATE -> 0 .. SOFT_MAX]
  <2>1. i + 1 \in 1 .. SetsOf(msg)
    BY SetsFact
  <2> QED  BY <2>1 DEF OnAir, Samples
<1>7. Distance(a, soft) + Distance(b, soft) = SETMAX
  <2> HIDE DEF a, b, soft
  <2>1. \A j \in 1 .. RATE : b[j] = 1 - a[j]
    BY <1>4 DEF a, b
  <2> QED  BY <1>5, <1>6, <2>1, DistanceOpposite
<1>8. Cost(2 * z) + Cost(2 * z + 1) = SETMAX
  BY <1>7 DEF Cost
<1>9. Cost(2 * z) <= HALF \/ Cost(2 * z + 1) <= HALF
  <2> DEFINE x == Cost(2 * z)
             y == Cost(2 * z + 1)
  <2>1. x \in Nat /\ y \in Nat /\ x + y = SETMAX
    BY <1>1, <1>4, <1>8, SetMaxFact
  <2> HIDE DEF x, y
  <2>2. x <= HALF \/ y <= HALF
    BY <2>1, SetMaxFact
  <2> QED  BY <2>2 DEF x, y
<1>10. CASE Cost(2 * z) <= HALF
  <2>1. 2 * z + 0 = 2 * z
    BY <1>4
  <2>2. 2 * z + 0 \in States /\ CostAt[2 * z + 0] <= HALF
    BY <1>2, <1>4, <1>10, <2>1
  <2> QED  BY <1>2, <2>2
<1>11. CASE Cost(2 * z + 1) <= HALF
  BY <1>2, <1>4, <1>11
<1> QED  BY <1>9, <1>10, <1>11

\* A state is a path and the bit that has left it, and it follows from one path.
LEMMA ChildPath ==
    ASSUME NEW z \in Paths, NEW e \in {0, 1}
    PROVE  \E y \in Paths : \E b \in {0, 1} :
              /\ y + b * HIGHBIT = 2 * z + e /\ Before(y, b) = z
              /\ 2 * z + e < HIGHBIT => b = 0
<1> DEFINE x == 2 * z + e
<1>1. HIGHBIT \in Nat \ {0} /\ z \in 0 .. HIGHBIT - 1
  BY Register1 DEF Paths
<1>2. x \in 0 .. 2 * HIGHBIT - 1 /\ x \div 2 = z
  BY <1>1
<1> HIDE DEF x
<1>3. CASE x < HIGHBIT
  <2>1. x \in Paths /\ 0 * HIGHBIT = 0 /\ x + 0 = x
    BY <1>1, <1>2, <1>3 DEF Paths
  <2>2. x + 0 * HIGHBIT = x
    BY <2>1
  <2> QED  BY <1>2, <2>1, <2>2 DEF Before, x
<1>4. CASE ~(x < HIGHBIT)
  <2> DEFINE y == x - HIGHBIT
  <2>1. y \in Paths /\ 1 * HIGHBIT = HIGHBIT /\ y + HIGHBIT = x
    BY <1>1, <1>2, <1>4 DEF Paths
  <2> HIDE DEF y
  <2>2. y + 1 * HIGHBIT = x
    BY <2>1
  <2> QED  BY <1>2, <1>4, <2>1, <2>2 DEF Before, x
<1> QED  BY <1>3, <1>4

\* What is read after error_buffer_swap: after the first set still the buffer of zeros.
LEMMA ReadAfter ==
    ASSUME pc = "decode", Buffers, errors \in Errors, i \in Nat,
           NEW m \in Metrics, errors' = Swapped(m)
    PROVE  /\ i = 0 => Read' = Read
           /\ i > 0 => Read' = m
<1>1. /\ errors'.read = errors.index
      /\ errors'.buffer = [errors.buffer EXCEPT ![errors.write] = m]
  BY SwappedType
<1>2. errors.buffer \in [0 .. 1 -> Metrics] /\ errors.index \in 0 .. 1
  BY DEF Errors
<1>3. CASE i = 0
  BY <1>1, <1>2, <1>3 DEF Buffers, Read
<1>4. CASE i > 0
  <2>1. errors.write = errors.index
    <3>1. i = 1 \/ i >= 2
      BY <1>4
    <3> QED  BY <3>1 DEF Buffers
  <2> QED  BY <1>1, <1>2, <1>4, <2>1 DEF Read
<1> QED  BY <1>3, <1>4

\* The metrics have room for one more set, so that no sum wraps.
LEMMA RoomFact ==
    ASSUME Roomy, ConvInv, MetricInv, pc = "decode", i < Sets
    PROVE  /\ Age \in 0 .. ORDER + INTERVAL - 2
           /\ Ruled(i) \in 0 .. ORDER - 2
           /\ Live(i) \subseteq Paths
           /\ \A s \in Live(i) : Read[s] + SETMAX <= DISTANCE_MAX
           /\ \A s \in Live(i) : \A c \in 0 .. SETMAX : Sum(c, Read[s]) = Read[s] + c
<1>1. /\ OnAir /\ errors \in Errors /\ history.counter \in 0 .. INTERVAL - 1
      /\ i \in 0 .. Sets - 1 /\ Sets \in Nat /\ Sets >= 2 * ORDER - 2
      /\ ORDER \in Nat /\ ORDER >= 2 /\ INTERVAL \in Nat \ {0} /\ DISTANCE_MAX \in Nat
      /\ SETMAX \in Nat
  BY SetsFact, Register1, RingSize, SetMaxFact DEF ConvInv, History
<1>2. Age \in 0 .. ORDER + INTERVAL - 2
  BY <1>1 DEF Age
<1>3. Ruled(i) \in 0 .. ORDER - 2
  BY <1>1 DEF Ruled
<1>4. Live(i) \subseteq Paths
  BY DEF Live
<1>5. \A s \in Live(i) : Read[s] <= Bound(Age, ORDER - 1)
  <2>1. Ruled(i) \in 0 .. ORDER - 1 /\ Age \in Nat
    BY <1>1, <1>2, <1>3
  <2> QED  BY <1>4, <2>1, CheapRoom DEF MetricInv
<1>6. /\ Bound(Age, ORDER - 1) + SETMAX <= DISTANCE_MAX
      /\ Bound(Age, ORDER - 1) \in Nat
  <2>1. Age \in Nat /\ ORDER - 1 \in Nat
    BY <1>1, <1>2
  <2> QED  BY <1>2, <2>1, BoundRoom, BoundFact
<1>7. \A s \in Paths : Read[s] \in Nat
  BY <1>1, SumsType, RingSize DEF Metrics
<1>8. ASSUME NEW s \in Live(i)
      PROVE  Read[s] + SETMAX <= DISTANCE_MAX
  <2> DEFINE d == Bound(Age, ORDER - 1)
             r == Read[s]
  <2>1. d \in Nat /\ r \in Nat /\ r <= d /\ d + SETMAX <= DISTANCE_MAX
    BY <1>4, <1>5, <1>6, <1>7
  <2> HIDE DEF d, r
  <2>2. r + SETMAX <= DISTANCE_MAX
    BY <1>1, <2>1
  <2> QED  BY <2>2 DEF r
<1>9. ASSUME NEW s \in Live(i), NEW c \in 0 .. SETMAX
      PROVE  Sum(c, Read[s]) = Read[s] + c
  <2> DEFINE r == Read[s]
  <2>1. r \in Nat /\ r + SETMAX <= DISTANCE_MAX
    BY <1>4, <1>7, <1>8
  <2> HIDE DEF r
  <2>2. c \in Nat /\ c + r <= DISTANCE_MAX /\ c + r = r + c
    BY <1>1, <2>1
  <2>3. Sum(c, r) = r + c
    BY <2>1, <2>2, SumType
  <2> QED  BY <2>3 DEF r
<1> QED  BY <1>2, <1>3, <1>4, <1>8, <1>9

\* The first set.
LEMMA FirstMetrics ==
    ASSUME Roomy, ConvInv, MetricInv, DecodeWarmup, i = 0
    PROVE  MetricInv'
<1>1. /\ pc = "decode" /\ i < Sets /\ i' = 1 /\ UNCHANGED <<pc, air, history>>
      /\ OnAir /\ errors \in Errors /\ Buffers /\ i \in 0 .. Sets - 1
      /\ \A s \in Paths : Read[s] = 0
  BY SetsFact DEF DecodeWarmup, channel, ConvInv, MetricInv
<1> DEFINE metric == [s \in States |->
                         IF s < Pow2[i + 1] THEN Sum(Cost(s), Read[s \div 2]) ELSE Written[s]]
<1>2. errors' = Swapped(metric)
  BY DEF DecodeWarmup
<1>3. metric \in Metrics
  <2>1. \A s \in States : /\ Sum(Cost(s), Read[s \div 2]) \in 0 .. DISTANCE_MAX
                          /\ Written[s] \in 0 .. DISTANCE_MAX
    BY <1>1, SumsType DEF Metrics
  <2> QED  BY <2>1 DEF Metrics
<1> HIDE DEF metric
<1>4. Read' = Read
  BY <1>1, <1>2, <1>3, ReadAfter
<1> DEFINE live == Live(1)
<1>5. live \subseteq Paths /\ 0 \in live
  <2>1. 0 \in Paths /\ Sets \in Nat /\ Sets >= 2 * ORDER - 2 /\ Sets = Len(msg) + ORDER + 1
        /\ Len(msg) \in Nat /\ ORDER \in Nat /\ ORDER >= 2
    BY <1>1, SetsFact, RingSize, Register1
  <2>2. 1 < ORDER - 1 => Pow2[1] \in Nat \ {0}
    <3>1. 1 \in 0 .. ORDER
      BY <2>1
    <3> QED  BY <3>1, Pow2Fact
  <2>3. ~(1 < ORDER - 1) => 1 <= Sets - ORDER
    BY <2>1
  <2> QED  BY <2>1, <2>2, <2>3 DEF Live
<1>6. Ruled(1) \in Nat
  BY <1>1, SetsFact, Register1 DEF Ruled
<1>7. Age' \in Nat
  BY <1>1, Register1, RingSize DEF Age, ConvInv, History
<1>8. Live(i)' = live /\ Ruled(i)' = Ruled(1)
  BY <1>1 DEF Live, Ruled, Sets
<1> HIDE DEF live
<1>9. Spread(Read, live) /\ Cheap(Read, live, Ruled(1), Age')
  BY <1>1, <1>5, <1>6, <1>7, ZeroMetrics
<1>10. /\ \A s \in Paths : Read'[s] = 0
       /\ Spread(Read', live) /\ Cheap(Read', live, Ruled(1), Age')
  BY <1>1, <1>4, <1>9
<1> QED  BY <1>8, <1>10 DEF MetricInv, Spread, Cheap

\* The other sets of the warm-up.
LEMMA WarmupMetrics ==
    ASSUME Roomy, ConvInv, MetricInv, DecodeWarmup, i # 0
    PROVE  MetricInv'
<1>1. /\ pc = "decode" /\ i < Sets /\ i < ORDER - 1 /\ i' = i + 1 /\ i \in Nat /\ i > 0
      /\ UNCHANGED <<pc, air, history>>
      /\ OnAir /\ errors \in Errors /\ Buffers /\ i \in 0 .. Sets - 1
      /\ Spread(Read, Live(i)) /\ Cheap(Read, Live(i), Ruled(i), Age)
      /\ Sets \in Nat /\ Sets >= 2 * ORDER - 2 /\ ORDER \in Nat /\ ORDER >= 2
  BY SetsFact, Register1 DEF DecodeWarmup, channel, ConvInv, MetricInv
<1> DEFINE metric == [s \in States |->
                         IF s < Pow2[i + 1] THEN Sum(Cost(s), Read[s \div 2]) ELSE Written[s]]
           live == Live(i)
           next == {s \in Paths : s < Pow2[i + 1]}
           B == {0}
<1>2. errors' = Swapped(metric)
  BY DEF DecodeWarmup
<1>3. metric \in Metrics
  <2>1. \A s \in States : /\ Sum(Cost(s), Read[s \div 2]) \in 0 .. DISTANCE_MAX
                          /\ Written[s] \in 0 .. DISTANCE_MAX
    BY <1>1, SumsType DEF Metrics
  <2> QED  BY <2>1 DEF Metrics
<1>4. \A s \in next : metric[s] = Sum(Cost(s), Read[s \div 2])
  BY RingSize
<1> HIDE DEF metric
<1>5. Read' = metric
  BY <1>1, <1>2, <1>3, ReadAfter
<1>6. live = {s \in Paths : s < Pow2[i]} /\ live \subseteq Paths
  BY <1>1 DEF Live
<1>7. /\ Pow2[i] \in Nat \ {0} /\ Pow2[i + 1] = 2 * Pow2[i] /\ Pow2[i + 1] <= HIGHBIT
      /\ HIGHBIT \in Nat
  <2>1. i \in 0 .. ORDER - 1 /\ i \in 0 .. ORDER /\ i + 1 \in 0 .. ORDER - 1 /\ i + 1 \in 0 .. ORDER
    BY <1>1
  <2>2. PICK q \in Nat : HIGHBIT = q * Pow2[i + 1]
    BY <2>1, Pow2Divides
  <2> DEFINE p == Pow2[i + 1]
  <2>3. p \in Nat \ {0} /\ HIGHBIT \in Nat \ {0} /\ HIGHBIT = q * p
    BY <2>1, <2>2, Pow2Fact, Register1
  <2>4. p <= HIGHBIT
    <3> HIDE DEF p
    <3>1. q # 0
      BY <2>3
    <3>2. PICK r \in Nat : q = r + 1
      <4>1. q - 1 \in Nat /\ q = (q - 1) + 1
        BY <3>1
      <4> QED  BY <4>1
    <3>3. q * p = r * p + p /\ r * p \in Nat
      BY <2>3, <3>2
    <3> QED  BY <2>3, <3>3
  <2> QED  BY <2>1, <2>3, <2>4, Pow2Fact
<1>8. Live(i)' = next /\ Ruled(i)' = 0 /\ Ruled(i) = 0
  <2>1. CASE i + 1 < ORDER - 1
    BY <1>1, <2>1 DEF Live, Ruled, Sets
  <2>2. CASE ~(i + 1 < ORDER - 1)
    <3>1. i + 1 = ORDER - 1
      BY <1>1, <2>2
    <3>2. next = Paths
      BY <1>7, <3>1 DEF Paths, HIGHBIT
    <3>3. CASE i + 1 <= Sets - ORDER
      BY <1>1, <2>2, <3>2, <3>3 DEF Live, Ruled, Sets
    <3>4. CASE ~(i + 1 <= Sets - ORDER)
      <4>1. (i + 1) - (Sets - ORDER + 1) = 0 /\ i <= Sets - ORDER
        BY <1>1, <3>1, <3>4
      <4>2. \A s \in Paths : s % Pow2[0] = 0
        BY RingSize, Pow2Fact
      <4>3. Live(i)' = {s \in Paths : s % Pow2[(i + 1) - (Sets - ORDER + 1)] = 0}
        BY <1>1, <2>2, <3>4 DEF Live, Sets
      <4>4. Ruled(i)' = (i + 1) - (Sets - ORDER + 1) /\ Ruled(i) = 0
        BY <1>1, <3>4, <4>1 DEF Ruled, Sets
      <4> QED  BY <3>2, <4>1, <4>2, <4>3, <4>4
    <3> QED  BY <3>3, <3>4
  <2> QED  BY <2>1, <2>2
<1>9. CostAt \in [States -> 0 .. SETMAX]
  BY <1>1, RingSize, CheaperChild
<1>10. Round(Read, live, metric, next, CostAt, B)
  <2> SUFFICES ASSUME NEW s \in next
               PROVE  /\ Before(s, 0) \in live
                      /\ metric[s] = Read[Before(s, 0)] + CostAt[s + 0 * HIGHBIT]
    <3>1. \A x \in Paths : Read[x] \in Nat
      BY <1>1, SumsType, RingSize DEF Metrics
    <3>2. \A s \in next : s + 0 * HIGHBIT \in States
      BY BeforeType
    <3> QED  BY <1>9, <3>1, <3>2, <1>6, <1>3, SetMaxFact, RingSize DEF Round, Metrics
  <2>1. s \in Paths /\ s \in States /\ s \in Nat /\ s < 2 * Pow2[i] /\ s + 0 * HIGHBIT = s
    BY <1>7, RingSize
  <2>2. Before(s, 0) = s \div 2
    BY <2>1 DEF Before
  <2>3. Before(s, 0) \in Paths
    BY <2>1, BeforeType
  <2>4. Before(s, 0) \in live
    BY <1>6, <1>7, <2>1, <2>2, <2>3
  <2>5. Cost(s) \in 0 .. SETMAX /\ CostAt[s] = Cost(s)
    BY <1>1, <2>1, SumsType DEF CostAt
  <2>6. Sum(Cost(s), Read[Before(s, 0)]) = Read[Before(s, 0)] + Cost(s)
    BY <1>1, <2>4, <2>5, RoomFact
  <2> QED  BY <1>4, <2>1, <2>2, <2>4, <2>5, <2>6
<1>11. GoesOn(live, next, CostAt, B, TRUE)
  <2> SUFFICES ASSUME NEW z \in live
               PROVE  \E y \in next : Before(y, 0) = z /\ CostAt[y + 0 * HIGHBIT] <= HALF
    BY DEF GoesOn
  <2>1. z \in Paths /\ z \in Nat /\ z < Pow2[i]
    BY <1>6, RingSize
  <2>2. PICK e \in {0, 1} : CostAt[2 * z + e] <= HALF
    BY <1>1, <2>1, CheaperChild
  <2>3. 2 * z + e < Pow2[i + 1] /\ 2 * z + e < HIGHBIT /\ 2 * z + e \in Nat
    BY <1>7, <2>1
  <2>4. PICK y \in Paths, b \in {0, 1} :
           y + b * HIGHBIT = 2 * z + e /\ Before(y, b) = z /\ b = 0
    BY <2>1, <2>3, ChildPath
  <2>5. y \in Nat /\ y + 0 * HIGHBIT = y /\ y = 2 * z + e
    BY <1>7, <2>4, RingSize
  <2>6. y \in next
    BY <2>3, <2>4, <2>5
  <2> QED  BY <2>2, <2>4, <2>5, <2>6
<1>12. /\ Read \in Metrics /\ Age \in Nat /\ 0 \in 0 .. ORDER - 2
  BY <1>1, SumsType, RoomFact, Register1, RingSize
<1> HIDE DEF live, next, B
<1>13. next \in SUBSET Paths /\ B \in SUBSET {0, 1}
  BY DEF next, B
<1>14. Spread(metric, next)
  BY <1>1, <1>3, <1>6, <1>9, <1>10, <1>12, <1>13, SpreadStep DEF live
<1>15. Cheap(metric, next, 0, Age + 1)
  <2>1. 0 \in {0, 0 + 1}
    OBVIOUS
  <2>2. Cheap(Read, live, 0, Age)
    BY <1>1, <1>8 DEF live
  <2>3. GoesOn(live, next, CostAt, B, 0 = 0)
    BY <1>11
  <2> QED  BY <1>3, <1>6, <1>9, <1>10, <1>12, <1>13, <2>1, <2>2, <2>3, CheapStep
<1>16. Cheap(metric, next, 0, Age')
  <2>1. Age' \in Nat /\ Age + 1 \in Nat /\ Age + 1 <= Age'
    <3>1. history.counter \in Nat
      BY RingSize DEF ConvInv, History
    <3> QED  BY <1>1, <3>1 DEF Age
  <2>2. PICK z \in next : \A k \in 0 .. ORDER - 1 : \A s \in next :
                             Kin(k, s, z) => metric[s] <= Bound(Age + 1, k)
    BY <1>15 DEF Cheap
  <2>3. ASSUME NEW k \in 0 .. ORDER - 1, NEW s \in next, Kin(k, s, z)
        PROVE  metric[s] <= Bound(Age', k)
    <3>1. /\ Bound(Age + 1, k) <= Bound(Age', k)
          /\ Bound(Age + 1, k) \in Nat /\ Bound(Age', k) \in Nat
      <4>1. k \in Nat
        OBVIOUS
      <4> DEFINE a == Age + 1
                 b == Age'
      <4>2. a \in Nat /\ b \in Nat /\ a <= b
        BY <2>1
      <4> HIDE DEF a, b
      <4>3. Bound(a, k) <= Bound(b, k) /\ Bound(a, k) \in Nat /\ Bound(b, k) \in Nat
        BY <4>1, <4>2, BoundAge, BoundFact
      <4> QED  BY <4>3 DEF a, b
    <3>2. metric[s] <= Bound(Age + 1, k) /\ metric[s] \in Nat
      BY <1>3, <1>13, <2>2, <2>3, RingSize DEF Metrics
    <3> DEFINE m == metric[s]
               p == Bound(Age + 1, k)
               q == Bound(Age', k)
    <3>3. m \in Nat /\ p \in Nat /\ q \in Nat /\ m <= p /\ p <= q
      BY <3>1, <3>2
    <3> HIDE DEF m, p, q
    <3>4. m <= q
      BY <3>3
    <3> QED  BY <3>4 DEF m, q
  <2> QED  BY <2>3 DEF Cheap
<1>17. ~(i' <= 1)
  BY <1>1
<1>18. /\ Spread(Read', Live(i)') /\ Cheap(Read', Live(i)', Ruled(i)', Age')
  BY <1>5, <1>8, <1>14, <1>16
<1> QED  BY <1>17, <1>18 DEF MetricInv, Spread, Cheap

\* What history_buffer_process_skip leaves of the metrics of a set.
LEMMA ProcessMetrics ==
    ASSUME ConvInv, pc = "decode", i >= ORDER - 1, i < Sets, UNCHANGED <<pc, channel>>, i' = i + 1,
           NEW metric \in Metrics, NEW slice \in Slices, NEW skip \in Nat \ {0},
           Process(metric, slice, skip),
           NEW next, next = {s \in Paths : s % skip = 0}, Live(i)' = next,
           NEW to \in Nat, Ruled(i)' = to,
           Spread(metric, next), Cheap(metric, next, to, Age + 1),
           NEW t \in next, metric[t] < DISTANCE_MAX
    PROVE  MetricInv'
<1> DEFINE kept == IF history.counter + 1 = INTERVAL
                   THEN Renormalized(metric, Search(metric, skip)) ELSE metric
<1>1. /\ errors \in Errors /\ history \in History /\ out \in Seq({0, 1}) /\ Buffers
      /\ history.counter \in Nat /\ i \in Nat /\ i > 0 /\ ORDER \in Nat /\ ORDER >= 2
  BY RingSize, SetsFact, Register1 DEF ConvInv, History
<1>2. /\ errors' = Swapped(kept)
      /\ history'.counter = IF history.counter + 1 = INTERVAL THEN 0 ELSE history.counter + 1
  BY <1>1, ProcessType
<1>3. kept \in Metrics
  BY SearchBest, RenormalizedType
<1>4. Age = ORDER - 1 + history.counter /\ Age' = ORDER - 1 + history'.counter
  BY <1>1 DEF Age
<1>5. Spread(kept, next) /\ Cheap(kept, next, to, Age')
  <2>1. CASE history.counter + 1 = INTERVAL
    <3>1. Age' \in Nat
      BY <1>1, <1>2, <1>4, <2>1
    <3> DEFINE h == Renormalized(metric, Search(metric, skip))
    <3>2. kept = h
      BY <2>1
    <3> HIDE DEF kept
    <3>3. Spread(h, next) /\ Cheap(h, next, to, Age')
      BY <3>1, RenormalizeStep
    <3> QED  BY <3>2, <3>3
  <2>2. CASE history.counter + 1 # INTERVAL
    <3>1. kept = metric
      BY <2>2
    <3>2. Age' = Age + 1
      BY <1>1, <1>2, <1>4, <2>2
    <3> QED  BY <3>1, <3>2
  <2> QED  BY <2>1, <2>2
<1> HIDE DEF kept
<1>6. Read' = kept
  BY <1>1, <1>2, <1>3, ReadAfter
<1>7. ~(i' <= 1)
  BY <1>1
<1> QED  BY <1>5, <1>6, <1>7 DEF MetricInv, Spread, Cheap

\* Add, compare, select, by the two states that a path is reached from.
LEMMA SelectRound ==
    ASSUME Roomy, ConvInv, MetricInv, pc = "decode", i < Sets,
           NEW next \in SUBSET Paths, NEW metric \in Metrics,
           \A s \in next : /\ Before(s, 0) \in Live(i) /\ Before(s, 1) \in Live(i)
                           /\ metric[s] = Low(s) \/ metric[s] = High(s)
                           /\ metric[s] <= Low(s) /\ metric[s] <= High(s)
    PROVE  Round(Read, Live(i), metric, next, CostAt, {0, 1})
<1>1. OnAir /\ i \in 0 .. Sets - 1 /\ errors \in Errors
  BY SetsFact DEF ConvInv
<1>2. CostAt \in [States -> 0 .. SETMAX] /\ \A s \in States : CostAt[s] = Cost(s)
  BY <1>1, CheaperChild, RingSize DEF CostAt
<1> SUFFICES ASSUME NEW s \in next
             PROVE  /\ Low(s) = Read[Before(s, 0)] + CostAt[s + 0 * HIGHBIT]
                    /\ High(s) = Read[Before(s, 1)] + CostAt[s + 1 * HIGHBIT]
  BY DEF Round
<1>3. /\ s \in Paths /\ s \in Nat /\ s + 0 * HIGHBIT = s /\ s + 1 * HIGHBIT = s + HIGHBIT
      /\ s \in States /\ s + HIGHBIT \in States
  BY RingSize, Register1 DEF Paths
<1>4. Before(s, 0) = s \div 2 /\ Before(s, 1) = (s + HIGHBIT) \div 2
  BY <1>3 DEF Before
<1>5. Cost(s) \in 0 .. SETMAX /\ Cost(s + HIGHBIT) \in 0 .. SETMAX
  BY <1>1, <1>3, SumsType
<1>6. /\ Sum(Cost(s), Read[Before(s, 0)]) = Read[Before(s, 0)] + Cost(s)
      /\ Sum(Cost(s + HIGHBIT), Read[Before(s, 1)]) = Read[Before(s, 1)] + Cost(s + HIGHBIT)
  BY <1>5, RoomFact
<1> QED  BY <1>2, <1>3, <1>4, <1>6 DEF Low, High

\* A path below the bound can be renormalized by.
LEMMA BelowMost ==
    ASSUME Roomy, NEW age \in 0 .. ORDER + INTERVAL - 2, NEW x \in Nat,
           x < Bound(age, ORDER - 1) + SETMAX
    PROVE  x < DISTANCE_MAX
<1>1. age \in Nat /\ ORDER - 1 \in Nat
  BY Register1, RingSize
<1> DEFINE d == Bound(age, ORDER - 1)
<1>2. d \in Nat /\ d + SETMAX <= DISTANCE_MAX /\ SETMAX \in Nat /\ DISTANCE_MAX \in Nat
  BY <1>1, BoundRoom, BoundFact, SetMaxFact, RingSize
<1> HIDE DEF d
<1>3. x < d + SETMAX
  BY DEF d
<1> QED  BY <1>2, <1>3

LEMMA InnerMetrics ==
    ASSUME Roomy, ConvInv, MetricInv, DecodeInner
    PROVE  MetricInv'
<1> DEFINE metric == [s \in States |-> IF s \notin Paths THEN Written[s]
                                       ELSE IF Low(s) <= High(s) THEN Low(s) ELSE High(s)]
           slice == [s \in Paths |-> IF Low(s) <= High(s) THEN 0 ELSE 1]
           B == {0, 1}
<1>1. /\ pc = "decode" /\ i \in ORDER - 1 .. Sets - ORDER /\ Process(metric, slice, 1)
      /\ i' = i + 1 /\ UNCHANGED <<pc, channel>>
  BY DEF DecodeInner
<1>2. /\ OnAir /\ errors \in Errors /\ Sets \in Nat /\ ORDER \in Nat /\ ORDER >= 2
      /\ i \in 0 .. Sets - 1 /\ i >= ORDER - 1 /\ i < Sets /\ i <= Sets - ORDER
      /\ air' = air
  BY <1>1, SetsFact, Register1 DEF ConvInv, channel
<1>3. /\ \A s \in States : Written[s] \in 0 .. DISTANCE_MAX
      /\ \A s \in Paths : /\ Low(s) \in 0 .. DISTANCE_MAX /\ High(s) \in 0 .. DISTANCE_MAX
                          /\ s \in States
  BY <1>1, <1>2, SumsType, RingSize DEF Metrics
<1>4. metric \in Metrics /\ slice \in Slices
  BY <1>3 DEF Metrics, Slices
<1>5. \A s \in Paths : metric[s] = IF Low(s) <= High(s) THEN Low(s) ELSE High(s)
  BY <1>3
<1> HIDE DEF metric, slice
<1>6. Live(i) = Paths /\ Ruled(i) = 0
  BY <1>2 DEF Live, Ruled
<1>7. Live(i)' = Paths /\ Ruled(i)' = 0
  <2>1. CASE i + 1 <= Sets - ORDER
    BY <1>1, <1>2, <2>1 DEF Live, Ruled, Sets
  <2>2. CASE ~(i + 1 <= Sets - ORDER)
    <3>1. (i + 1) - (Sets - ORDER + 1) = 0
      BY <1>2, <2>2
    <3>2. \A s \in Paths : s % Pow2[0] = 0
      BY RingSize, Pow2Fact
    <3>3. ~(i + 1 < ORDER - 1)
      BY <1>2
    <3>4. Live(i)' = {s \in Paths : s % Pow2[(i + 1) - (Sets - ORDER + 1)] = 0}
      BY <1>1, <1>2, <2>2, <3>3 DEF Live, Sets
    <3>5. Ruled(i)' = (i + 1) - (Sets - ORDER + 1)
      BY <1>1, <1>2, <2>2 DEF Ruled, Sets
    <3> QED  BY <3>1, <3>2, <3>4, <3>5
  <2> QED  BY <2>1, <2>2
<1>8. Round(Read, Paths, metric, Paths, CostAt, B)
  <2>1. ASSUME NEW s \in Paths
        PROVE  /\ Before(s, 0) \in Paths /\ Before(s, 1) \in Paths
               /\ metric[s] = Low(s) \/ metric[s] = High(s)
               /\ metric[s] <= Low(s) /\ metric[s] <= High(s)
    <3>1. Low(s) \in Nat /\ High(s) \in Nat
      BY <1>3, RingSize
    <3>2. Before(s, 0) \in Paths /\ Before(s, 1) \in Paths
      BY BeforeType
    <3> DEFINE m == metric[s]
               p == Low(s)
               q == High(s)
    <3>3. m = (IF p <= q THEN p ELSE q) /\ p \in Nat /\ q \in Nat
      BY <1>5, <3>1
    <3> HIDE DEF m, p, q
    <3>4. (m = p \/ m = q) /\ m <= p /\ m <= q
      BY <3>3
    <3> QED  BY <3>2, <3>4 DEF m, p, q
  <2> QED  BY <1>1, <1>2, <1>4, <1>6, <2>1, SelectRound
<1>9. CostAt \in [States -> 0 .. SETMAX]
  BY <1>1, <1>2, RingSize, CheaperChild
<1>10. GoesOn(Paths, Paths, CostAt, B, TRUE)
  <2> SUFFICES ASSUME NEW z \in Paths
               PROVE  \E y \in Paths : \E b \in B :
                         Before(y, b) = z /\ CostAt[y + b * HIGHBIT] <= HALF
    BY DEF GoesOn
  <2>1. PICK e \in {0, 1} : CostAt[2 * z + e] <= HALF
    BY <1>1, <1>2, CheaperChild
  <2>2. PICK y \in Paths, b \in {0, 1} : y + b * HIGHBIT = 2 * z + e /\ Before(y, b) = z
    BY ChildPath
  <2> QED  BY <2>1, <2>2
<1>11. /\ Read \in Metrics /\ Age \in 0 .. ORDER + INTERVAL - 2 /\ Age \in Nat
       /\ 0 \in 0 .. ORDER - 2 /\ Spread(Read, Paths) /\ Cheap(Read, Paths, 0, Age)
  BY <1>1, <1>2, <1>6, SumsType, RoomFact, RingSize DEF MetricInv
<1>12. B \in SUBSET {0, 1} /\ Paths \in SUBSET Paths /\ 0 \in {0, 0 + 1}
  OBVIOUS
<1> HIDE DEF B
<1>13. Spread(metric, Paths)
  BY <1>4, <1>8, <1>9, <1>11, <1>12, SpreadStep
<1>14. /\ Cheap(metric, Paths, 0, Age + 1)
       /\ \E t \in Paths : metric[t] < Bound(Age, ORDER - 1) + SETMAX
  <2>1. GoesOn(Paths, Paths, CostAt, B, 0 = 0)
    BY <1>10
  <2> QED  BY <1>4, <1>8, <1>9, <1>11, <1>12, <2>1, CheapStep
<1>15. PICK t \in Paths : metric[t] < DISTANCE_MAX
  <2>1. PICK t \in Paths : metric[t] < Bound(Age, ORDER - 1) + SETMAX
    BY <1>14
  <2>2. metric[t] \in Nat
    BY <1>4, RingSize DEF Metrics
  <2>3. metric[t] < DISTANCE_MAX
    BY <1>11, <2>1, <2>2, BelowMost
  <2> QED  BY <2>3
<1>16. Paths = {s \in Paths : s % 1 = 0}
  <2>1. \A s \in Nat : s % 1 = 0
    OBVIOUS
  <2>2. \A s \in Paths : s % 1 = 0
    BY <2>1, RingSize
  <2> QED  BY <2>2
<1> QED  BY <1>1, <1>2, <1>4, <1>7, <1>13, <1>14, <1>15, <1>16, ProcessMetrics

\* The divisors of the paths in the tail.
LEMMA TailPaths ==
    ASSUME NEW k \in 0 .. ORDER - 2
    PROVE  /\ \A s \in Paths : \A b \in {0, 1} :
                 s % Pow2[k + 1] = 0 => Before(s, b) % Pow2[k] = 0
           /\ \A z, y \in Paths : \A b \in {0, 1} :
                 z % Pow2[k] = 0 /\ y + b * HIGHBIT = 2 * z + 0 => y % Pow2[k + 1] = 0
<1> DEFINE m == Pow2[k]
           n == Pow2[k + 1]
<1>1. k \in 0 .. ORDER - 1 /\ k + 1 \in 0 .. ORDER - 1 /\ k \in 0 .. ORDER /\ k + 1 \in 0 .. ORDER
  BY Register1
<1>2. m \in Nat \ {0} /\ n = 2 * m /\ n \in Nat \ {0} /\ HIGHBIT \in Nat \ {0}
  BY <1>1, Pow2Fact, Register1
<1>3. PICK q \in Nat : HIGHBIT = q * n
  BY <1>1, Pow2Divides
<1>4. \A b \in {0, 1} : \E c \in Nat : b * HIGHBIT = c * n
  <2> HIDE DEF n
  <2>1. 0 * HIGHBIT = 0 * n /\ 1 * HIGHBIT = q * n
    BY <1>2, <1>3
  <2> QED  BY <2>1
<1> HIDE DEF m, n
<1>5. ASSUME NEW s \in Paths, NEW b \in {0, 1}, s % n = 0
      PROVE  Before(s, b) % m = 0
  <2>1. PICK c \in Nat : b * HIGHBIT = c * n
    BY <1>4
  <2> DEFINE d == s \div n
  <2>2. d \in Nat /\ s = n * d
    <3>1. s \in Nat
      BY RingSize
    <3>2. d \in Nat /\ s = n * d + (s % n)
      BY <1>2, <3>1, Division
    <3> HIDE DEF d
    <3>3. n * d \in Nat
      BY <1>2, <3>2
    <3> QED  BY <1>5, <3>2, <3>3
  <2> HIDE DEF d
  <2>3. s + b * HIGHBIT = 2 * (m * (d + c))
    BY <1>2, <2>1, <2>2
  <2> DEFINE x == m * (d + c)
  <2>4. x \in Nat
    BY <1>2, <2>1, <2>2
  <2>5. Before(s, b) = x
    <3>1. s + b * HIGHBIT = 2 * x
      BY <2>3
    <3> HIDE DEF x
    <3>2. (2 * x) \div 2 = x
      BY <2>4
    <3> QED  BY <3>1, <3>2 DEF Before
  <2>6. x = m * (d + c) + 0 /\ d + c \in Nat /\ 0 \in 0 .. m - 1
    <3>1. x = x + 0
      <4> HIDE DEF x
      <4> QED  BY <2>4
    <3> QED  BY <1>2, <2>1, <2>2, <3>1
  <2> HIDE DEF x
  <2>7. x % m = 0
    BY <1>2, <2>4, <2>6, Quotient
  <2> QED  BY <2>5, <2>7
<1>6. ASSUME NEW z \in Paths, NEW y \in Paths, NEW b \in {0, 1},
             z % m = 0, y + b * HIGHBIT = 2 * z + 0
      PROVE  y % n = 0
  <2>1. PICK c \in Nat : b * HIGHBIT = c * n
    BY <1>4
  <2> DEFINE d == z \div m
  <2>2. d \in Nat /\ z = m * d
    <3>1. z \in Nat
      BY RingSize
    <3>2. d \in Nat /\ z = m * d + (z % m)
      BY <1>2, <3>1, Division
    <3> HIDE DEF d
    <3>3. m * d \in Nat
      BY <1>2, <3>2
    <3> QED  BY <1>6, <3>2, <3>3
  <2> HIDE DEF d
  <2>3. y \in Nat /\ z \in Nat
    BY RingSize
  <2>4. y + c * n = n * d
    <3>1. 2 * z = n * d
      BY <1>2, <2>2
    <3>2. 2 * z + 0 = 2 * z
      BY <2>3
    <3> QED  BY <1>6, <2>1, <3>1, <3>2
  <2>5. c <= d
    <3> SUFFICES ASSUME d < c PROVE FALSE
      BY <2>1, <2>2
    <3>1. PICK e \in Nat : c = d + 1 + e
      <4>1. c - d - 1 \in Nat /\ c = d + 1 + (c - d - 1)
        BY <2>1, <2>2
      <4> QED  BY <4>1
    <3>2. c * n = n * d + n + n * e /\ n * e \in Nat /\ n * d \in Nat
      BY <1>2, <2>1, <2>2, <3>1
    <3> QED  BY <1>2, <2>3, <2>4, <3>2
  <2>6. PICK e \in Nat : d = c + e
    <3>1. d - c \in Nat /\ d = c + (d - c)
      BY <2>1, <2>2, <2>5
    <3> QED  BY <3>1
  <2>7. n * d = c * n + n * e /\ c * n \in Nat /\ n * e \in Nat
    BY <1>2, <2>1, <2>6
  <2>8. y = n * e + 0 /\ 0 \in 0 .. n - 1
    <3> DEFINE x == n * e
               w == c * n
    <3>1. y + w = w + x /\ x \in Nat /\ w \in Nat
      BY <2>4, <2>7
    <3> HIDE DEF x, w
    <3>2. y = x + 0
      BY <2>3, <3>1
    <3> QED  BY <1>2, <3>2 DEF x
  <2> QED  BY <1>2, <2>3, <2>6, <2>8, Quotient
<1> QED  BY <1>5, <1>6 DEF m, n

LEMMA TailMetrics ==
    ASSUME Roomy, ConvInv, MetricInv, DecodeTail
    PROVE  MetricInv'
<1> DEFINE k == i - (Sets - ORDER + 1)
           skip == Pow2[ORDER - (Sets - i)]
           old == history.slice[history.index]
           metric == [s \in States |-> IF s \notin Paths \/ s % skip # 0 THEN Written[s]
                                       ELSE IF Low(s) < High(s) THEN Low(s) ELSE High(s)]
           slice == [s \in Paths |-> IF s % skip # 0 THEN old[s]
                                     ELSE IF Low(s) < High(s) THEN 0 ELSE 1]
           live == Live(i)
           next == {s \in Paths : s % skip = 0}
           B == {0, 1}
<1>1. /\ pc = "decode" /\ i \in Sets - ORDER + 1 .. Sets - 1 /\ Process(metric, slice, skip)
      /\ i' = i + 1 /\ UNCHANGED <<pc, channel>>
  BY DEF DecodeTail
<1>2. /\ OnAir /\ errors \in Errors /\ Sets \in Nat /\ ORDER \in Nat /\ ORDER >= 2
      /\ history \in History /\ i \in 0 .. Sets - 1 /\ i >= ORDER - 1 /\ i < Sets
      /\ i >= Sets - ORDER + 1 /\ air' = air
  BY <1>1, SetsFact, Register1 DEF ConvInv, channel
<1>3. /\ k \in 0 .. ORDER - 2 /\ k \in Nat /\ ORDER - (Sets - i) = k + 1 /\ skip = Pow2[k + 1]
      /\ (i + 1) - (Sets - ORDER + 1) = k + 1
  BY <1>1, <1>2
<1>4. skip \in Nat \ {0}
  <2>1. k + 1 \in 0 .. ORDER
    BY <1>2, <1>3
  <2> QED  BY <1>3, <2>1, Pow2Fact
<1>5. live = {s \in Paths : s % Pow2[k] = 0} /\ Ruled(i) = k
  BY <1>2 DEF Live, Ruled
<1>6. Live(i)' = next /\ Ruled(i)' = k + 1
  <2>1. ~(i + 1 < ORDER - 1) /\ ~(i + 1 <= Sets - ORDER)
    BY <1>2
  <2>2. Live(i)' = {s \in Paths : s % Pow2[(i + 1) - (Sets - ORDER + 1)] = 0}
    BY <1>1, <1>2, <2>1 DEF Live, Sets
  <2>3. Ruled(i)' = (i + 1) - (Sets - ORDER + 1)
    BY <1>1, <1>2, <2>1 DEF Ruled, Sets
  <2> HIDE DEF k
  <2> QED  BY <1>3, <2>2, <2>3
<1>7. old \in Slices
  BY <1>2 DEF History
<1> HIDE DEF skip, old, k
<1>8. /\ \A s \in States : Written[s] \in 0 .. DISTANCE_MAX
      /\ \A s \in Paths : /\ Low(s) \in 0 .. DISTANCE_MAX /\ High(s) \in 0 .. DISTANCE_MAX
                          /\ s \in States
  BY <1>1, <1>2, SumsType, RingSize DEF Metrics
<1>9. metric \in Metrics
  BY <1>8 DEF Metrics
<1>10. slice \in Slices
  BY <1>7 DEF Slices
<1>11. \A s \in next : s \in Paths /\ metric[s] = IF Low(s) < High(s) THEN Low(s) ELSE High(s)
  BY <1>8
<1> HIDE DEF metric, slice
<1>12. \A s \in next : Before(s, 0) \in live /\ Before(s, 1) \in live
  <2> SUFFICES ASSUME NEW s \in next PROVE Before(s, 0) \in live /\ Before(s, 1) \in live
    OBVIOUS
  <2>1. s \in Paths /\ s % Pow2[k + 1] = 0
    BY <1>3
  <2>2. Before(s, 0) % Pow2[k] = 0 /\ Before(s, 1) % Pow2[k] = 0
    BY <1>3, <2>1, TailPaths
  <2>3. Before(s, 0) \in Paths /\ Before(s, 1) \in Paths
    BY <2>1, BeforeType
  <2> QED  BY <1>5, <2>2, <2>3
<1>13. Round(Read, live, metric, next, CostAt, B)
  <2>1. ASSUME NEW s \in next
        PROVE  /\ metric[s] = Low(s) \/ metric[s] = High(s)
               /\ metric[s] <= Low(s) /\ metric[s] <= High(s)
    <3>1. Low(s) \in Nat /\ High(s) \in Nat
      BY <1>8, RingSize
    <3> DEFINE m == metric[s]
               p == Low(s)
               q == High(s)
    <3>2. m = (IF p < q THEN p ELSE q) /\ p \in Nat /\ q \in Nat
      BY <1>11, <3>1
    <3> HIDE DEF m, p, q
    <3>3. (m = p \/ m = q) /\ m <= p /\ m <= q
      BY <3>2
    <3> QED  BY <3>3 DEF m, p, q
  <2>2. next \in SUBSET Paths
    OBVIOUS
  <2> HIDE DEF next
  <2> QED  BY <1>1, <1>2, <1>9, <1>12, <2>1, <2>2, SelectRound
<1>14. CostAt \in [States -> 0 .. SETMAX]
  BY <1>1, <1>2, RingSize, CheaperChild
<1>15. GoesOn(live, next, CostAt, B, FALSE)
  <2> SUFFICES ASSUME NEW z \in live
               PROVE  \E y \in next : \E b \in B : Before(y, b) = z
    BY DEF GoesOn
  <2>1. z \in Paths /\ z % Pow2[k] = 0
    BY <1>5
  <2>2. PICK y \in Paths, b \in {0, 1} : y + b * HIGHBIT = 2 * z + 0 /\ Before(y, b) = z
    <3> DEFINE e == 0
    <3>1. e \in {0, 1}
      OBVIOUS
    <3> HIDE DEF e
    <3>2. \E y \in Paths : \E b \in {0, 1} :
             /\ y + b * HIGHBIT = 2 * z + e /\ Before(y, b) = z
             /\ 2 * z + e < HIGHBIT => b = 0
      <4> DEFINE w == z
      <4>1. w \in Paths
        BY <2>1
      <4> HIDE DEF live, next, w, B
      <4> QED  BY <3>1, <4>1, ChildPath DEF w
    <3> QED  BY <3>2 DEF e
  <2>3. y % Pow2[k + 1] = 0
    BY <1>3, <2>1, <2>2, TailPaths
  <2> QED  BY <1>3, <2>2, <2>3
<1>16. /\ Read \in Metrics /\ Age \in 0 .. ORDER + INTERVAL - 2 /\ Age \in Nat
       /\ Spread(Read, live) /\ Cheap(Read, live, k, Age)
  BY <1>1, <1>2, <1>5, SumsType, RoomFact, RingSize DEF MetricInv
<1>17. B \in SUBSET {0, 1} /\ next \in SUBSET Paths /\ live \in SUBSET Paths
  BY <1>5
<1>18. k + 1 \in {k, k + 1} /\ k + 1 # 0 /\ k + 1 \in Nat
  BY <1>3
<1> HIDE DEF B, live
<1>19. Spread(metric, next)
  <2> HIDE DEF next
  <2> QED  BY <1>9, <1>13, <1>14, <1>16, <1>17, SpreadStep
<1>20. /\ Cheap(metric, next, k + 1, Age + 1)
       /\ \E t \in next : metric[t] < Bound(Age, ORDER - 1) + SETMAX
  <2> HIDE DEF next
  <2> DEFINE to == k + 1
  <2>1. GoesOn(live, next, CostAt, B, to = 0)
    BY <1>15, <1>18 DEF GoesOn
  <2>2. to \in {k, k + 1} /\ (to = 0 \/ to = k + 1)
    OBVIOUS
  <2> HIDE DEF to
  <2>3. /\ Cheap(metric, next, to, Age + 1)
        /\ \E t \in next : metric[t] < Bound(Age, ORDER - 1) + SETMAX
    BY <1>3, <1>9, <1>13, <1>14, <1>16, <1>17, <2>1, <2>2, CheapStep
  <2> QED  BY <2>3 DEF to
<1>21. PICK t \in next : metric[t] < DISTANCE_MAX
  <2>1. PICK t \in next : metric[t] < Bound(Age, ORDER - 1) + SETMAX
    BY <1>20
  <2>2. metric[t] \in Nat
    BY <1>9, RingSize DEF Metrics
  <2>3. metric[t] < DISTANCE_MAX
    BY <1>16, <2>1, <2>2, BelowMost
  <2> QED  BY <2>3
<1>22. next = {s \in Paths : s % skip = 0}
  OBVIOUS
<1> HIDE DEF next
<1> QED  BY <1>1, <1>2, <1>4, <1>6, <1>9, <1>10, <1>18, <1>19, <1>20, <1>21, <1>22, ProcessMetrics

LEMMA BeginMetrics ==
    ASSUME ConvInv, Begin
    PROVE  MetricInv'
<1>1. /\ pc' = "decode" /\ i = 0 /\ i' = 0 /\ errors' = NoErrors
      /\ (pc \in {"air", "decode", "done"})'
  BY DEF Begin, ConvInv
<1>2. ConvInv'
  BY BeginInv
<1>3. /\ Sets' \in Nat /\ Sets' >= 2 * ORDER - 2 /\ ORDER \in Nat /\ ORDER >= 2
      /\ Sets' = Len(msg') + ORDER + 1 /\ Len(msg') \in Nat
  <2>1. (OnAir /\ pc \in {"air", "decode", "done"} =>
            /\ Sets \in Nat /\ Sets >= 2 * ORDER - 2 /\ Sets = Len(msg) + ORDER + 1
            /\ Len(msg) \in Nat)'
    BY SetsFact, PTL
  <2> QED  BY <1>1, <1>2, <2>1, Register1 DEF ConvInv
<1>4. /\ \A s \in Paths : Read'[s] = 0
      /\ Age' \in Nat
  <2>1. \A s \in Paths : Read'[s] = 0
    BY <1>1, RingSize DEF NoErrors, Read
  <2>2. Age' \in Nat
    BY <1>1, <1>3 DEF Age
  <2> QED  BY <2>1, <2>2
<1> DEFINE live == Live(i)'
<1>5. live \subseteq Paths /\ 0 \in live /\ Ruled(i)' \in Nat
  <2>1. 0 < Pow2[0] /\ 0 \in Paths
    BY Pow2Fact, RingSize
  <2>2. 0 < ORDER - 1 => live = {s \in Paths : s < Pow2[0]}
    BY <1>1 DEF Live
  <2>3. 0 < ORDER - 1 /\ 0 <= Sets' - ORDER
    BY <1>3
  <2> QED  BY <1>1, <2>1, <2>2, <2>3 DEF Ruled
<1> HIDE DEF live
<1>6. Spread(Read', live) /\ Cheap(Read', live, Ruled(i)', Age')
  BY <1>4, <1>5, ZeroMetrics
<1> QED  BY <1>4, <1>6 DEF MetricInv, live, Spread, Cheap

LEMMA NextMetrics ==
    ASSUME Roomy, ConvInv, MetricInv, [Next]_vars
    PROVE  MetricInv'
<1>1. CASE Send \/ Hit \/ Fade \/ Flush
  BY <1>1 DEF Send, Hit, Fade, Flush, MetricInv
<1>2. CASE Begin
  BY <1>2, BeginMetrics
<1>3. CASE DecodeWarmup
  BY <1>3, FirstMetrics, WarmupMetrics
<1>4. CASE DecodeInner \/ DecodeTail
  BY <1>4, InnerMetrics, TailMetrics
<1>5. CASE UNCHANGED vars
  BY <1>5 DEF vars, channel, MetricInv, Spread, Cheap, Read, Live, Ruled, Age, Sets
<1> QED  BY <1>1, <1>2, <1>3, <1>4, <1>5 DEF Next, Finished

(***************************************************************************)
(* No metric wraps, at any length of a message and whatever the counter of *)
(* the message before was, if a distance_t has the room that Roomy asks    *)
(* for: the warm-up adds the sets that the counter leaves out, and the     *)
(* best path is never far below the others.                                *)
(***************************************************************************)
THEOREM ConvNoWrap == Roomy /\ Spec => []NoWrap
<1> SUFFICES ASSUME Roomy PROVE Spec => []NoWrap
  OBVIOUS
<1>1. Init => ConvInv /\ MetricInv
  BY InitInv DEF Init, MetricInv
<1>2. ConvInv /\ MetricInv /\ [Next]_vars => (ConvInv /\ MetricInv)'
  BY NextInv, NextMetrics
<1>3. ConvInv /\ MetricInv => NoWrap
  <2> SUFFICES ASSUME ConvInv, MetricInv, pc = "decode", i < Sets, NEW s \in ReadNext
               PROVE  Read[s] + RATE * SOFT_MAX <= DISTANCE_MAX
    BY DEF NoWrap
  <2>1. s \in Live(i)
    BY DEF ReadNext, Live
  <2>2. Read[s] + SETMAX <= DISTANCE_MAX
    BY <2>1, RoomFact
  <2> QED  BY <2>2 DEF SETMAX
<1> QED  BY <1>1, <1>2, <1>3, PTL DEF Spec
=============================================================================
