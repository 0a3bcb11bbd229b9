-------------------------- MODULE FrameCodecProofs --------------------------
(***************************************************************************)
(* The Reed-Solomon stage, for every size of the field, every number of    *)
(* symbols of parity and any damage: scrambling and interleaving are       *)
(* undone, the decoder works inside its buffers (but for a locator of the  *)
(* largest order, whose roots nothing bounds), it restores a block with as *)
(* many wrong symbols as the parity can correct, and what it repairs is a  *)
(* word of the code whatever the damage.  The last two rest on the algebra *)
(* of the code, from the laws of the field that the tables of powers and   *)
(* logarithms make (field.h) to Berlekamp-Massey, the search of the roots  *)
(* and Forney's formula (decode.c).                                        *)
(***************************************************************************)
EXTENDS FrameCodec, Induction

----------------------------------------------------------------------------
(* Elements and their bits. *)

\* The powers are the positive numbers that begin with 1 and double.
LEMMA Pow2Fact ==
    /\ BITS \in Nat /\ BITS >= 2
    /\ Pow2 \in [0 .. BITS -> Nat \ {0}]
    /\ Pow2[0] = 1
    /\ \A k \in 0 .. BITS - 1 : Pow2[k + 1] = 2 * Pow2[k]
<1> BITS \in Nat /\ BITS >= 2
  BY RSAssumption
<1> DEFINE V == Nat \ {0}
           step == [k \in 1 .. BITS |-> [x \in V |-> 2 * x]]
<1>1. step \in [1 .. BITS -> [V -> V]]
  OBVIOUS
<1>2. \A k \in 1 .. BITS : \A x \in V : step[k][x] = 2 * x
  OBVIOUS
<1>3. 1 \in V
  OBVIOUS
<1> HIDE DEF step, V
<1>4. PICK f \in [0 .. BITS -> V] : Unrolls(f, BITS, 1, step)
  BY <1>1, <1>3, Recursion
<1>5. f = [k \in 0 .. BITS |-> IF k = 0 THEN 1 ELSE 2 * f[k - 1]]
  <2>1. ASSUME NEW k \in 0 .. BITS
        PROVE  f[k] = IF k = 0 THEN 1 ELSE 2 * f[k - 1]
    <3>1. k # 0 => k \in 1 .. BITS /\ k - 1 \in 0 .. BITS
      OBVIOUS
    <3> QED  BY <1>2, <1>4, <3>1 DEF Unrolls
  <2> QED  BY <1>4, <2>1
<1>6. Pow2 = CHOOSE g : g = [k \in 0 .. BITS |-> IF k = 0 THEN 1 ELSE 2 * g[k - 1]]
  BY DEF Pow2
<1>7. Pow2 = [k \in 0 .. BITS |-> IF k = 0 THEN 1 ELSE 2 * Pow2[k - 1]]
  BY <1>5, <1>6, Zenon
<1>8. /\ IsTable(Pow2, BITS) /\ Pow2[0] = 1
      /\ \A k \in 1 .. BITS : Pow2[k - 1] \in V => Pow2[k] = step[k][Pow2[k - 1]]
  BY <1>2, <1>7 DEF IsTable
<1>9. Pow2 \in [0 .. BITS -> V] /\ Unrolls(Pow2, BITS, 1, step)
  BY <1>1, <1>3, <1>8, Unrolled
<1>10. ASSUME NEW k \in 0 .. BITS - 1
       PROVE  Pow2[k + 1] = 2 * Pow2[k]
  <2>1. k + 1 \in 1 .. BITS /\ (k + 1) - 1 = k
    OBVIOUS
  <2> QED  BY <1>2, <1>9, <2>1 DEF Unrolls
<1> QED  BY <1>8, <1>9, <1>10 DEF V

\* Nothing about the sizes but that they are large enough.
LEMMA FieldSize ==
    /\ FIELD \in Nat /\ FIELD >= 4 /\ FIELD = Pow2[BITS]
    /\ PRIMITIVE - FIELD \in Elements
    /\ NROOTS \in Nat \ {0} /\ BLOCK \in Nat /\ BLOCK = FIELD - 1
    /\ MESSAGE \in Nat \ {0} /\ MESSAGE + NROOTS = BLOCK
<1>1. BITS \in Nat /\ BITS >= 2 /\ Pow2[0] = 1 /\ Pow2[BITS] \in Nat
      /\ Pow2[BITS] = 2 * Pow2[BITS - 1] /\ Pow2[BITS - 1] = 2 * Pow2[BITS - 2]
      /\ Pow2[BITS - 2] \in Nat \ {0}
  <2>1. BITS \in Nat /\ BITS >= 2
    BY RSAssumption
  <2>2. /\ BITS - 1 \in 0 .. BITS - 1 /\ BITS - 2 \in 0 .. BITS - 1 /\ BITS \in 0 .. BITS
        /\ BITS - 2 \in 0 .. BITS /\ (BITS - 1) + 1 = BITS /\ (BITS - 2) + 1 = BITS - 1
    BY <2>1
  <2>3. Pow2[(BITS - 1) + 1] = 2 * Pow2[BITS - 1] /\ Pow2[(BITS - 2) + 1] = 2 * Pow2[BITS - 2]
    BY <2>2, Pow2Fact
  <2> QED  BY <2>1, <2>2, <2>3, Pow2Fact
<1>2. FIELD \in Nat /\ FIELD >= 4 /\ FIELD = Pow2[BITS]
  BY <1>1 DEF FIELD
<1> QED  BY <1>2, RSAssumption DEF BLOCK, MESSAGE, Elements

LEMMA BitType ==
    ASSUME NEW x \in Nat, NEW k \in 0 .. BITS
    PROVE  Bit(x, k) \in {0, 1}
<1> DEFINE q == x \div Pow2[k]
<1>1. q \in Nat
  BY Pow2Fact, Division
<1> HIDE DEF q
<1>2. q % 2 \in {0, 1}
  BY <1>1
<1> QED  BY <1>2 DEF q, Bit

\* The lowest bit is the rest, the others are those of the half.
LEMMA BitHalf ==
    ASSUME NEW x \in Nat
    PROVE  /\ Bit(x, 0) = x % 2
           /\ \A k \in 0 .. BITS - 1 : Bit(x, k + 1) = Bit(x \div 2, k)
<1>1. x \div 1 = x
  OBVIOUS
<1>2. ASSUME NEW k \in 0 .. BITS - 1
      PROVE  Bit(x, k + 1) = Bit(x \div 2, k)
  <2>1. k \in 0 .. BITS
    BY Pow2Fact
  <2> DEFINE m == Pow2[k]
  <2>2. m \in Nat \ {0} /\ Pow2[k + 1] = 2 * m
    BY <2>1, Pow2Fact
  <2> HIDE DEF m
  <2>3. (x \div 2) \div m = x \div (2 * m)
    BY <2>2, DivTwice
  <2> QED  BY <2>2, <2>3 DEF Bit, m
<1> QED  BY <1>1, <1>2, Pow2Fact DEF Bit

\* A number is known by its bits.
LEMMA SameBits ==
    ASSUME NEW x \in Elements, NEW y \in Elements,
           \A k \in 0 .. BITS - 1 : Bit(x, k) = Bit(y, k)
    PROVE  x = y
<1> DEFINE Below(n) == 0 .. Pow2[n] - 1
           S == {n \in 0 .. BITS : \A a, b \in Below(n) :
                    (\A k \in 0 .. n - 1 : Bit(a, k) = Bit(b, k)) => a = b}
<1>1. 0 \in S
  BY Pow2Fact
<1>2. ASSUME NEW n \in 0 .. BITS - 1, n \in S
      PROVE  n + 1 \in S
  <2>1. n \in 0 .. BITS /\ n + 1 \in 0 .. BITS /\ Pow2[n] \in Nat /\ Pow2[n + 1] = 2 * Pow2[n]
    BY Pow2Fact
  <2>2. ASSUME NEW a \in Below(n + 1), NEW b \in Below(n + 1),
               \A k \in 0 .. (n + 1) - 1 : Bit(a, k) = Bit(b, k)
        PROVE  a = b
    <3>1. a \in Nat /\ b \in Nat
      BY <2>1
    <3>2. a \div 2 \in Below(n) /\ b \div 2 \in Below(n)
      BY <2>1
    <3>3. ASSUME NEW k \in 0 .. n - 1
          PROVE  Bit(a \div 2, k) = Bit(b \div 2, k)
      <4>1. k + 1 \in 0 .. (n + 1) - 1 /\ k \in 0 .. BITS - 1
        BY <2>1, Pow2Fact
      <4> QED  BY <2>2, <3>1, <4>1, BitHalf
    <3>4. a \div 2 = b \div 2
      BY <1>2, <3>2, <3>3
    <3>5. a % 2 = b % 2
      <4>1. 0 \in 0 .. (n + 1) - 1
        OBVIOUS
      <4> QED  BY <2>2, <3>1, <4>1, BitHalf
    <3> QED  BY <3>1, <3>4, <3>5
  <2> HIDE DEF Below
  <2> QED  BY <2>1, <2>2
<1>3. BITS \in S
  <2>1. BITS \in 0 .. BITS
    BY Pow2Fact
  <2> HIDE DEF S
  <2> QED  BY <1>1, <1>2, <2>1, Pow2Fact, UpTo
<1>4. x \in Below(BITS) /\ y \in Below(BITS)
  BY DEF Elements, FIELD
<1> HIDE DEF Below
<1> QED  BY <1>3, <1>4

\* For any bits there is an element.
LEMMA SomeBits ==
    ASSUME NEW b \in [0 .. BITS - 1 -> {0, 1}]
    PROVE  \E z \in Elements : \A k \in 0 .. BITS - 1 : Bit(z, k) = b[k]
<1> DEFINE Below(n) == 0 .. Pow2[n] - 1
           Top(n, z) == \A k \in 0 .. n - 1 : Bit(z, k) = b[BITS - n + k]
           S == {n \in 0 .. BITS : \E z \in Below(n) : Top(n, z)}
<1>1. 0 \in S
  <2>1. 0 \in Below(0) /\ Top(0, 0)
    <3>1. Pow2[0] = 1
      BY Pow2Fact
    <3>2. 0 .. 0 - 1 = {}
      OBVIOUS
    <3> QED  BY <3>1, <3>2
  <2>2. 0 \in 0 .. BITS
    BY Pow2Fact
  <2> HIDE DEF Below, Top
  <2> QED  BY <2>1, <2>2
<1>2. ASSUME NEW n \in 0 .. BITS - 1, n \in S
      PROVE  n + 1 \in S
  <2>1. n \in 0 .. BITS /\ n + 1 \in 0 .. BITS /\ Pow2[n] \in Nat /\ Pow2[n + 1] = 2 * Pow2[n]
    <3>1. BITS \in Nat
      BY RSAssumption
    <3>2. n \in 0 .. BITS /\ n + 1 \in 0 .. BITS
      BY <3>1
    <3> QED  BY <3>2, Pow2Fact
  <2>2. PICK z \in Below(n) : Top(n, z)
    <3> HIDE DEF Below, Top
    <3> QED  BY <1>2
  <2> DEFINE c == b[BITS - (n + 1)]
             w == 2 * z + c
  <2>3. c \in {0, 1}
    <3>1. BITS - (n + 1) \in 0 .. BITS - 1
      BY <2>1, Pow2Fact
    <3> QED  BY <3>1
  <2>4. z \in Nat /\ w \in Below(n + 1) /\ w \in Nat /\ w \div 2 = z /\ w % 2 = c
    <3> HIDE DEF c
    <3> QED  BY <2>1, <2>3
  <2> HIDE DEF w
  <2>5. ASSUME NEW k \in 0 .. (n + 1) - 1
        PROVE  Bit(w, k) = b[BITS - (n + 1) + k]
    <3>1. CASE k = 0
      <4>1. BITS - (n + 1) + 0 = BITS - (n + 1)
        BY <2>1, Pow2Fact
      <4> QED  BY <3>1, <4>1, <2>4, BitHalf
    <3>2. CASE k # 0
      <4>1. /\ k - 1 \in 0 .. n - 1 /\ k - 1 \in 0 .. BITS - 1 /\ (k - 1) + 1 = k
            /\ BITS - n + (k - 1) = BITS - (n + 1) + k
        BY <3>2, <2>1, Pow2Fact
      <4>2. Bit(z, k - 1) = b[BITS - n + (k - 1)]
        BY <2>2, <4>1
      <4>3. Bit(w, (k - 1) + 1) = Bit(z, k - 1)
        BY <2>4, <4>1, BitHalf
      <4> QED  BY <4>1, <4>2, <4>3
    <3> QED  BY <3>1, <3>2
  <2>6. Top(n + 1, w)
    BY <2>5
  <2> HIDE DEF Top, Below
  <2> QED  BY <2>1, <2>4, <2>6
<1>3. BITS \in S
  <2>1. BITS \in 0 .. BITS
    BY Pow2Fact
  <2> HIDE DEF S
  <2> QED  BY <1>1, <1>2, <2>1, Pow2Fact, UpTo
<1>4. PICK z \in Below(BITS) : Top(BITS, z)
  <2> HIDE DEF Below, Top
  <2> QED  BY <1>3
<1>5. z \in Elements
  BY DEF Elements, FIELD
<1>6. ASSUME NEW k \in 0 .. BITS - 1
      PROVE  Bit(z, k) = b[k]
  <2>1. BITS - BITS + k = k
    BY Pow2Fact
  <2> QED  BY <1>4, <2>1
<1> QED  BY <1>5, <1>6

LEMMA AddBits ==
    ASSUME NEW x \in Elements, NEW y \in Elements
    PROVE  /\ Add(x, y) \in Elements /\ HasBits(Add(x, y), x, y)
           /\ \A z \in Elements : HasBits(z, x, y) => z = Add(x, y)
<1> DEFINE b == [k \in 0 .. BITS - 1 |-> (Bit(x, k) + Bit(y, k)) % 2]
<1>1. x \in Nat /\ y \in Nat
  BY FieldSize DEF Elements
<1>2. b \in [0 .. BITS - 1 -> {0, 1}]
  <2>1. ASSUME NEW k \in 0 .. BITS - 1
        PROVE  (Bit(x, k) + Bit(y, k)) % 2 \in {0, 1}
    <3> DEFINE u == Bit(x, k)
               v == Bit(y, k)
    <3>1. u \in {0, 1} /\ v \in {0, 1}
      <4>1. k \in 0 .. BITS
        BY Pow2Fact
      <4> QED  BY <1>1, <4>1, BitType
    <3> HIDE DEF u, v
    <3>2. (u + v) % 2 \in {0, 1}
      BY <3>1
    <3> QED  BY <3>2 DEF u, v
  <2> QED  BY <2>1
<1>3. \A k \in 0 .. BITS - 1 : b[k] = (Bit(x, k) + Bit(y, k)) % 2
  OBVIOUS
<1> HIDE DEF b
<1>4. PICK z \in Elements : \A k \in 0 .. BITS - 1 : Bit(z, k) = b[k]
  BY <1>2, SomeBits
<1>5. HasBits(z, x, y)
  BY <1>3, <1>4 DEF HasBits
<1>6. Add(x, y) = CHOOSE w \in Elements : HasBits(w, x, y)
  BY DEF Add, Xor
<1>7. Add(x, y) \in Elements /\ HasBits(Add(x, y), x, y)
  BY <1>5, <1>6
<1>8. ASSUME NEW w \in Elements, HasBits(w, x, y)
      PROVE  w = Add(x, y)
  <2> DEFINE a == Add(x, y)
  <2>1. a \in Elements /\ \A k \in 0 .. BITS - 1 : Bit(w, k) = Bit(a, k)
    BY <1>7, <1>8 DEF HasBits
  <2> HIDE DEF a
  <2> QED  BY <2>1, SameBits DEF a
<1> QED  BY <1>7, <1>8

\* The bits of a sum, and what three of them make of each other.
LEMMA ElementBits ==
    ASSUME NEW x \in Elements, NEW k \in 0 .. BITS - 1
    PROVE  Bit(x, k) \in {0, 1}
<1>1. x \in Nat /\ k \in 0 .. BITS
  BY FieldSize, Pow2Fact DEF Elements
<1> QED  BY <1>1, BitType

\* Addition is that of a group in which every element is its own inverse.
LEMMA AddGroup ==
    ASSUME NEW x \in Elements, NEW y \in Elements, NEW z \in Elements
    PROVE  /\ Add(x, y) \in Elements
           /\ Add(x, y) = Add(y, x)
           /\ Add(Add(x, y), z) = Add(x, Add(y, z))
           /\ Add(Add(x, y), y) = x
           /\ 0 \in Elements /\ Add(x, 0) = x
<1>1. Add(x, y) \in Elements /\ Add(y, z) \in Elements /\ Add(y, x) \in Elements
  BY AddBits
<1>2. Add(x, y) = Add(y, x)
  <2> DEFINE a == Add(x, y)
  <2>1. HasBits(a, x, y) /\ a \in Elements
    BY AddBits
  <2> HIDE DEF a
  <2>2. ASSUME NEW k \in 0 .. BITS - 1
        PROVE  Bit(a, k) = (Bit(y, k) + Bit(x, k)) % 2
    <3> DEFINE u == Bit(x, k)
               v == Bit(y, k)
    <3>1. u \in {0, 1} /\ v \in {0, 1} /\ Bit(a, k) = (u + v) % 2
      BY <2>1, ElementBits DEF HasBits
    <3> HIDE DEF u, v
    <3>2. Bit(a, k) = (v + u) % 2
      BY <3>1
    <3> QED  BY <3>2 DEF u, v
  <2>3. HasBits(a, y, x)
    BY <2>2 DEF HasBits
  <2>4. a = Add(y, x)
    BY <2>1, <2>3, AddBits
  <2> QED  BY <2>4 DEF a
<1>3. Add(Add(x, y), z) = Add(x, Add(y, z))
  <2> DEFINE a == Add(x, y)
             b == Add(y, z)
             c == Add(a, z)
  <2>1. a \in Elements /\ b \in Elements /\ HasBits(a, x, y) /\ HasBits(b, y, z)
    BY AddBits
  <2> HIDE DEF a, b
  <2>2. c \in Elements /\ HasBits(c, a, z)
    BY <2>1, AddBits
  <2> HIDE DEF c
  <2>3. ASSUME NEW k \in 0 .. BITS - 1
        PROVE  Bit(c, k) = (Bit(x, k) + Bit(b, k)) % 2
    <3> DEFINE u == Bit(x, k)
               v == Bit(y, k)
               w == Bit(z, k)
    <3>1. /\ u \in {0, 1} /\ v \in {0, 1} /\ w \in {0, 1}
          /\ Bit(a, k) = (u + v) % 2 /\ Bit(b, k) = (v + w) % 2
          /\ Bit(c, k) = (Bit(a, k) + w) % 2
      BY <2>1, <2>2, ElementBits DEF HasBits
    <3> HIDE DEF u, v, w
    <3>2. Bit(c, k) = (u + Bit(b, k)) % 2
      BY <3>1
    <3> QED  BY <3>2 DEF u
  <2>4. HasBits(c, x, b)
    BY <2>3 DEF HasBits
  <2>5. c = Add(x, b)
    BY <2>1, <2>2, <2>4, AddBits
  <2> QED  BY <2>5 DEF a, b, c
<1>4. Add(Add(x, y), y) = x
  <2> DEFINE a == Add(x, y)
  <2>1. a \in Elements /\ HasBits(a, x, y)
    BY AddBits
  <2> HIDE DEF a
  <2>2. ASSUME NEW k \in 0 .. BITS - 1
        PROVE  Bit(x, k) = (Bit(a, k) + Bit(y, k)) % 2
    <3> DEFINE u == Bit(x, k)
               v == Bit(y, k)
    <3>1. u \in {0, 1} /\ v \in {0, 1} /\ Bit(a, k) = (u + v) % 2
      BY <2>1, ElementBits DEF HasBits
    <3> HIDE DEF u, v
    <3>2. u = (Bit(a, k) + v) % 2
      BY <3>1
    <3> QED  BY <3>2 DEF u, v
  <2>3. HasBits(x, a, y)
    BY <2>2 DEF HasBits
  <2>4. x = Add(a, y)
    BY <2>1, <2>3, AddBits
  <2> QED  BY <2>4 DEF a
<1>5. 0 \in Elements /\ Add(x, 0) = x
  <2> DEFINE e == 0
  <2>1. e \in Elements
    BY FieldSize DEF Elements
  <2>2. ASSUME NEW k \in 0 .. BITS - 1
        PROVE  Bit(x, k) = (Bit(x, k) + Bit(e, k)) % 2
    <3> DEFINE u == Bit(x, k)
    <3>1. u \in {0, 1}
      BY ElementBits
    <3>2. Bit(e, k) = 0
      <4>1. k \in 0 .. BITS /\ Pow2[k] \in Nat \ {0}
        BY Pow2Fact
      <4> DEFINE m == Pow2[k]
      <4>2. 0 = m * 0 + 0 /\ 0 \in 0 .. m - 1 /\ m \in Nat \ {0}
        BY <4>1
      <4> HIDE DEF m
      <4>3. 0 \div m = 0
        BY <4>2
      <4> QED  BY <4>3 DEF Bit, m
    <3> HIDE DEF u, e
    <3>3. u = (u + Bit(e, k)) % 2
      BY <3>1, <3>2
    <3> QED  BY <3>3 DEF u
  <2>3. HasBits(x, x, e)
    BY <2>2 DEF HasBits
  <2> HIDE DEF e
  <2>4. x = Add(x, e)
    BY <2>1, <2>3, AddBits
  <2> QED  BY <2>1, <2>4 DEF e
<1> QED  BY <1>1, <1>2, <1>3, <1>4, <1>5

----------------------------------------------------------------------------
(* Powers and logarithms. *)

Double(x) == IF 2 * x > FIELD - 1 THEN Add(2 * x - FIELD, PRIMITIVE - FIELD) ELSE 2 * x

LEMMA ExpType ==
    /\ Exp \in [0 .. 2 * FIELD - 1 -> Elements]
    /\ Exp[0] = 1
    /\ \A i \in 1 .. 2 * FIELD - 1 : Exp[i] = Double(Exp[i - 1])
<1> DEFINE n == 2 * FIELD - 1
           E == Elements
           step == [i \in 1 .. n |-> [x \in E |-> Double(x)]]
<1>1. n \in Nat /\ 1 \in E
  BY FieldSize DEF Elements
<1>2. \A x \in E : Double(x) \in E
  <2> TAKE x \in E
  <2>1. CASE 2 * x > FIELD - 1
    <3>1. 2 * x - FIELD \in Elements
      BY <2>1, FieldSize DEF Elements
    <3>2. Add(2 * x - FIELD, PRIMITIVE - FIELD) \in Elements
      BY <3>1, FieldSize, AddBits
    <3> QED  BY <2>1, <3>2 DEF Double
  <2>2. CASE ~(2 * x > FIELD - 1)
    BY <2>2, FieldSize DEF Elements, Double
  <2> QED  BY <2>1, <2>2
<1>3. step \in [1 .. n -> [E -> E]]
  <2> HIDE DEF n, E
  <2> QED  BY <1>2
<1>4. \A i \in 1 .. n : \A x \in E : step[i][x] = Double(x)
  <2> HIDE DEF n, E
  <2> QED  OBVIOUS
<1> HIDE DEF step, n, E
<1>5. PICK f \in [0 .. n -> E] : Unrolls(f, n, 1, step)
  BY <1>1, <1>3, Recursion
<1>6. f = [i \in 0 .. n |-> IF i = 0 THEN 1 ELSE Double(f[i - 1])]
  <2>1. ASSUME NEW i \in 0 .. n
        PROVE  f[i] = IF i = 0 THEN 1 ELSE Double(f[i - 1])
    <3>1. i # 0 => i \in 1 .. n /\ i - 1 \in 0 .. n
      BY <1>1
    <3> QED  BY <1>4, <1>5, <3>1 DEF Unrolls
  <2> QED  BY <1>5, <2>1
<1>7. Exp = CHOOSE g : g = [i \in 0 .. n |-> IF i = 0 THEN 1 ELSE Double(g[i - 1])]
  BY DEF Exp, n, Double
<1>8. Exp = [i \in 0 .. n |-> IF i = 0 THEN 1 ELSE Double(Exp[i - 1])]
  <2> QED  BY <1>6, <1>7, Zenon
<1>9. IsTable(Exp, n)
  BY <1>8 DEF IsTable
<1>10. \A i \in 0 .. n : Exp[i] = IF i = 0 THEN 1 ELSE Double(Exp[i - 1])
  BY <1>8
<1>11. Exp[0] = 1
  BY <1>1, <1>10
<1>12. \A i \in 1 .. n : Exp[i - 1] \in E => Exp[i] = step[i][Exp[i - 1]]
  BY <1>1, <1>4, <1>10
<1>13. Exp \in [0 .. n -> E] /\ Unrolls(Exp, n, 1, step)
  BY <1>1, <1>3, <1>9, <1>11, <1>12, Unrolled
<1>14. ASSUME NEW i \in 1 .. n
       PROVE  Exp[i] = Double(Exp[i - 1])
  <2>1. i \in 0 .. n /\ i # 0
    BY <1>1
  <2> QED  BY <1>10, <2>1
<1> QED  BY <1>11, <1>13, <1>14 DEF n, E

\* A logarithm, that of 0 included, is an element, and that of 1 the largest.
LEMMA LogType ==
    /\ Log \in [Elements -> Elements]
    /\ Log[0] = 0
    /\ \A x \in Elements \ {0} : Log[x] \in 1 .. FIELD - 1 /\ Exp[Log[x]] = x
    /\ Log[1] = FIELD - 1
    /\ \A x \in Elements \ {1} : Log[x] \in 0 .. BLOCK - 1
<1>1. Log[0] = 0 /\ 0 \in Elements /\ 1 \in Elements \ {0}
  BY FieldSize DEF Elements, Log
<1>2. ASSUME NEW x \in Elements \ {0}
      PROVE  Log[x] \in 1 .. FIELD - 1 /\ Exp[Log[x]] = x
  <2>1. x \in 1 .. FIELD - 1
    BY FieldSize DEF Elements
  <2>2. \E i \in 1 .. FIELD - 1 : Exp[i] = x
    BY <2>1, PrimitiveAssumption
  <2>3. Log[x] = CHOOSE i \in 1 .. FIELD - 1 : Exp[i] = x
    BY <1>1 DEF Log
  <2> QED  BY <2>2, <2>3
<1>3. Log[1] = FIELD - 1
  BY <1>1, <1>2, PrimitiveAssumption
<1>4. ASSUME NEW x \in Elements \ {1}
      PROVE  Log[x] \in 0 .. BLOCK - 1
  <2>1. CASE x = 0
    BY <2>1, <1>1, FieldSize
  <2>2. CASE x # 0
    <3>1. Log[x] \in 1 .. FIELD - 1 /\ Exp[Log[x]] = x /\ Exp[FIELD - 1] = 1
      BY <1>1, <1>2, <1>3, <2>2
    <3> QED  BY <3>1, FieldSize
  <2> QED  BY <2>1, <2>2
<1>5. ASSUME NEW x \in Elements
      PROVE  Log[x] \in Elements
  BY <1>1, <1>2, FieldSize DEF Elements
<1>6. Log = [x \in Elements |-> Log[x]]
  BY DEF Log
<1> QED  BY <1>1, <1>2, <1>3, <1>4, <1>5, <1>6

\* The powers repeat, and none of them is 0.
LEMMA ExpPeriod ==
    /\ \A k \in 0 .. FIELD : Exp[FIELD - 1 + k] = Exp[k]
    /\ \A k \in 0 .. 2 * FIELD - 1 : Exp[k] # 0
<1> DEFINE m == FIELD - 1
<1>1. FIELD \in Nat /\ FIELD >= 4 /\ m \in Nat /\ m >= 3 /\ 1 \in Elements \ {0}
  BY FieldSize DEF Elements
<1>2. Exp[m] = 1
  BY <1>1, LogType
<1>3. ASSUME NEW k \in 0 .. 2 * FIELD - 2
      PROVE  Exp[k + 1] = Double(Exp[k])
  <2>1. k + 1 \in 1 .. 2 * FIELD - 1 /\ (k + 1) - 1 = k
    BY <1>1
  <2> QED  BY <2>1, ExpType
<1> DEFINE S == {k \in 0 .. FIELD : Exp[m + k] = Exp[k]}
<1>4. \A k \in 0 .. FIELD : k \in S
  <2>1. 0 \in S
    <3>1. m + 0 = m
      BY <1>1
    <3> QED  BY <1>1, <1>2, <3>1, ExpType
  <2>2. ASSUME NEW k \in 0 .. FIELD - 1, k \in S
        PROVE  k + 1 \in S
    <3>1. /\ k \in 0 .. 2 * FIELD - 2 /\ m + k \in 0 .. 2 * FIELD - 2 /\ m + (k + 1) = (m + k) + 1
          /\ k + 1 \in 0 .. FIELD
      BY <1>1
    <3>2. Exp[(m + k) + 1] = Double(Exp[m + k]) /\ Exp[k + 1] = Double(Exp[k])
      BY <1>3, <3>1
    <3> QED  BY <2>2, <3>1, <3>2
  <2> HIDE DEF S
  <2> QED  BY <1>1, <2>1, <2>2, UpTo
<1>5. ASSUME NEW k \in 0 .. m
      PROVE  Exp[k] # 0
  <2> SUFFICES ASSUME Exp[k] = 0 PROVE FALSE
    OBVIOUS
  <2> DEFINE T == {j \in 0 .. m - k : Exp[k + j] = 0}
             n == m - k
  <2>1. n \in Nat /\ k \in Nat /\ k + n = m
    BY <1>1
  <2>2. 0 \in T
    <3>1. k + 0 = k /\ 0 \in 0 .. n
      BY <2>1
    <3> QED  BY <3>1
  <2>3. ASSUME NEW j \in 0 .. n - 1, j \in T
        PROVE  j + 1 \in T
    <3>1. k + j \in 0 .. 2 * FIELD - 2 /\ k + (j + 1) = (k + j) + 1 /\ j + 1 \in 0 .. n
      BY <1>1, <2>1
    <3>2. Exp[(k + j) + 1] = Double(Exp[k + j])
      BY <1>3, <3>1
    <3>3. Double(0) = 0
      BY <1>1 DEF Double
    <3> QED  BY <2>3, <3>1, <3>2, <3>3
  <2>4. \A j \in 0 .. n : j \in T
    <3> HIDE DEF T, n
    <3> QED  BY <2>1, <2>2, <2>3, UpTo
  <2>5. n \in 0 .. n
    BY <2>1
  <2>6. Exp[k + n] = 0
    BY <2>4, <2>5
  <2> QED  BY <1>2, <2>1, <2>6
<1>6. ASSUME NEW k \in 0 .. 2 * FIELD - 1
      PROVE  Exp[k] # 0
  <2>1. CASE k \in 0 .. m
    BY <1>5, <2>1
  <2>2. CASE ~(k \in 0 .. m)
    <3> DEFINE j == k - m
    <3>1. j \in 0 .. FIELD /\ m + j = k
      BY <1>1, <2>2
    <3>2. Exp[m + j] = Exp[j]
      <4> HIDE DEF j
      <4> QED  BY <1>4, <3>1
    <3>3. CASE j \in 0 .. m
      BY <1>5, <3>1, <3>2, <3>3
    <3>4. CASE ~(j \in 0 .. m)
      <4>1. j = m + 1 /\ 1 \in 0 .. FIELD /\ 1 \in 0 .. m
        BY <1>1, <3>1, <3>4
      <4>2. Exp[m + 1] = Exp[1] /\ Exp[1] # 0
        BY <1>4, <1>5, <4>1
      <4> QED  BY <3>1, <3>2, <4>1, <4>2
    <3> QED  BY <3>3, <3>4
  <2> QED  BY <2>1, <2>2
<1> QED  BY <1>4, <1>6

\* The arithmetic stays in the field.
LEMMA FieldOps ==
    ASSUME NEW x \in Elements, NEW y \in Elements
    PROVE  /\ Mul(x, y) \in Elements /\ Div(x, y) \in Elements
           /\ MulLog(x, y) \in Elements /\ DivLog(x, y) \in Elements
           /\ MulLogElement(x, y) \in Elements
<1>1. FIELD \in Nat /\ FIELD >= 4 /\ x \in 0 .. FIELD - 1 /\ y \in 0 .. FIELD - 1 /\ 0 \in Elements
  BY FieldSize DEF Elements
<1>2. MulLogElement(x, y) \in Elements
  <2>1. x + y \in 0 .. 2 * FIELD - 1
    BY <1>1
  <2> QED  BY <2>1, ExpType DEF MulLogElement
<1>3. MulLog(x, y) \in Elements
  BY <1>1 DEF MulLog, Elements
<1>4. DivLog(x, y) \in Elements
  BY <1>1 DEF DivLog, MulLog, Elements
<1>5. ASSUME x # 0, y # 0
      PROVE  Mul(x, y) \in Elements /\ Div(x, y) \in Elements
  <2> DEFINE k == Log[x]
             l == Log[y]
  <2>1. k \in 1 .. FIELD - 1 /\ l \in 1 .. FIELD - 1
    BY <1>5, LogType
  <2> HIDE DEF k, l
  <2>2. k + l \in 0 .. 2 * FIELD - 1 /\ FIELD - 1 + k - l \in 0 .. 2 * FIELD - 1
    BY <1>1, <2>1
  <2>3. Exp[k + l] \in Elements /\ Exp[FIELD - 1 + k - l] \in Elements
    BY <2>2, ExpType
  <2> QED  BY <1>5, <2>3 DEF Mul, Div, k, l
<1>6. (x = 0 \/ y = 0) => Mul(x, y) \in Elements /\ Div(x, y) \in Elements
  BY <1>1 DEF Mul, Div
<1> QED  BY <1>2, <1>3, <1>4, <1>5, <1>6

LEMMA PowType ==
    ASSUME NEW x \in Elements, NEW n \in Nat
    PROVE  Pow(x, n) \in Elements
<1> DEFINE e == Log[x] * n
           m == FIELD - 1
<1>1. Log[x] \in Nat /\ m \in Nat \ {0}
  <2>1. FIELD \in Nat /\ FIELD >= 4
    BY FieldSize
  <2>2. Log[x] \in Elements
    BY LogType
  <2> QED  BY <2>1, <2>2 DEF Elements
<1>2. e \in Nat
  <2> DEFINE l == Log[x]
  <2>1. l \in Nat
    BY <1>1
  <2> HIDE DEF l
  <2>2. l * n \in Nat
    BY <2>1
  <2> QED  BY <2>2 DEF l
<1> HIDE DEF e
<1>3. e % m \in 0 .. m - 1
  <2> HIDE DEF m
  <2> QED  BY <1>1, <1>2, Division
<1>4. e % m \in 0 .. 2 * FIELD - 1
  <2> DEFINE r == e % m
  <2>1. r \in 0 .. m - 1 /\ FIELD \in Nat /\ m = FIELD - 1
    BY <1>3, FieldSize
  <2> HIDE DEF r, m
  <2>2. r \in 0 .. 2 * FIELD - 1
    BY <2>1
  <2> QED  BY <2>2 DEF r
<1>5. Pow(x, n) = Exp[e % m]
  BY DEF Pow, e, m
<1> HIDE DEF m
<1> QED  BY <1>4, <1>5, ExpType

LEMMA TimesType ==
    ASSUME NEW x \in Elements, NEW n \in Nat
    PROVE  Times(x, n) \in Elements
BY FieldSize DEF Times, Elements

----------------------------------------------------------------------------
(* Polynomials. *)

Row(n) == [0 .. n -> Elements]

LEMMA XorSumType ==
    ASSUME NEW n \in Nat, NEW f \in Row(n)
    PROVE  XorSum(f, n) \in Elements /\ (n = 0 => XorSum(f, n) = f[0])
<1> DEFINE E == Elements
           step == [i \in 1 .. n |-> [x \in E |-> Add(x, f[i])]]
<1>1. f[0] \in E /\ \A i \in 1 .. n : f[i] \in E
  BY DEF Row
<1>2. \A i \in 1 .. n : \A x \in E : Add(x, f[i]) \in E
  BY <1>1, AddBits
<1>3. step \in [1 .. n -> [E -> E]]
  <2> HIDE DEF E
  <2> QED  BY <1>2
<1>4. \A i \in 1 .. n : \A x \in E : step[i][x] = Add(x, f[i])
  <2> HIDE DEF E
  <2> QED  OBVIOUS
<1> HIDE DEF step, E
<1>5. PICK g \in [0 .. n -> E] : Unrolls(g, n, f[0], step)
  BY <1>1, <1>3, Recursion
<1>6. g = [i \in 0 .. n |-> IF i = 0 THEN f[0] ELSE Add(g[i - 1], f[i])]
  <2>1. ASSUME NEW i \in 0 .. n
        PROVE  g[i] = IF i = 0 THEN f[0] ELSE Add(g[i - 1], f[i])
    <3>1. i # 0 => i \in 1 .. n /\ i - 1 \in 0 .. n
      OBVIOUS
    <3> QED  BY <1>4, <1>5, <3>1 DEF Unrolls
  <2> QED  BY <1>5, <2>1
<1> DEFINE sum == CHOOSE h : h = [i \in 0 .. n |-> IF i = 0 THEN f[0] ELSE Add(h[i - 1], f[i])]
<1>7. sum = [i \in 0 .. n |-> IF i = 0 THEN f[0] ELSE Add(sum[i - 1], f[i])]
  BY <1>6, Zenon
<1>8. XorSum(f, n) = sum[n]
  BY DEF XorSum
<1> HIDE DEF sum
<1>9. IsTable(sum, n)
  BY <1>7 DEF IsTable
<1>10. \A i \in 0 .. n : sum[i] = IF i = 0 THEN f[0] ELSE Add(sum[i - 1], f[i])
  BY <1>7
<1>11. sum[0] = f[0]
  BY <1>10
<1>12. \A i \in 1 .. n : sum[i - 1] \in E => sum[i] = step[i][sum[i - 1]]
  BY <1>4, <1>10
<1>13. sum \in [0 .. n -> E] /\ Unrolls(sum, n, f[0], step)
  BY <1>1, <1>3, <1>9, <1>11, <1>12, Unrolled
<1> QED  BY <1>8, <1>11, <1>13 DEF E

LEMMA PowerTableType ==
    ASSUME NEW n \in Nat, NEW x \in Elements
    PROVE  PowerTable(x, n) \in Row(n)
<1> DEFINE E == Elements
           v == Log[1]
           l == Log[x]
           step == [i \in 1 .. n |-> [p \in E |-> MulLog(p, l)]]
<1>1. v \in E /\ l \in E /\ 0 \in E
  <2>1. 0 \in E /\ 1 \in E
    BY FieldSize DEF Elements
  <2> HIDE DEF E
  <2> QED  BY <2>1, LogType DEF E
<1> HIDE DEF v, l
<1>2. \A p \in E : MulLog(p, l) \in E
  BY <1>1, FieldOps
<1>3. step \in [1 .. n -> [E -> E]]
  <2> HIDE DEF E
  <2> QED  BY <1>2
<1>4. \A i \in 1 .. n : \A p \in E : step[i][p] = MulLog(p, l)
  <2> HIDE DEF E
  <2> QED  OBVIOUS
<1> HIDE DEF step, E
<1>5. PICK g \in [0 .. n -> E] : Unrolls(g, n, v, step)
  BY <1>1, <1>3, Recursion
<1>6. g = [i \in 0 .. n |-> IF i = 0 THEN v ELSE MulLog(g[i - 1], l)]
  <2>1. ASSUME NEW i \in 0 .. n
        PROVE  g[i] = IF i = 0 THEN v ELSE MulLog(g[i - 1], l)
    <3>1. i # 0 => i \in 1 .. n /\ i - 1 \in 0 .. n
      OBVIOUS
    <3> QED  BY <1>4, <1>5, <3>1 DEF Unrolls
  <2> QED  BY <1>5, <2>1
<1> DEFINE power == CHOOSE h : h = [i \in 0 .. n |-> IF i = 0 THEN v ELSE MulLog(h[i - 1], l)]
<1>7. power = [i \in 0 .. n |-> IF i = 0 THEN v ELSE MulLog(power[i - 1], l)]
  BY <1>6, Zenon
<1>8. PowerTable(x, n) = [i \in 0 .. n |-> IF x = 0 THEN 0 ELSE power[i]]
  BY DEF PowerTable, v, l
<1> HIDE DEF power
<1>9. IsTable(power, n)
  BY <1>7 DEF IsTable
<1>10. \A i \in 0 .. n : power[i] = IF i = 0 THEN v ELSE MulLog(power[i - 1], l)
  BY <1>7
<1>11. power[0] = v
  BY <1>10
<1>12. \A i \in 1 .. n : power[i - 1] \in E => power[i] = step[i][power[i - 1]]
  BY <1>4, <1>10
<1>13. power \in [0 .. n -> E] /\ Unrolls(power, n, v, step)
  BY <1>1, <1>3, <1>9, <1>11, <1>12, Unrolled
<1>14. \A i \in 0 .. n : (IF x = 0 THEN 0 ELSE power[i]) \in E
  BY <1>1, <1>13
<1> QED  BY <1>8, <1>14 DEF E, Row

LEMMA EvalTableType ==
    ASSUME NEW n \in Nat, NEW coeff \in Row(n),
           NEW powers, \A i \in 0 .. n : powers[i] \in Elements
    PROVE  EvalTable(coeff, n, powers) \in Elements
<1> DEFINE f == [i \in 0 .. n |-> IF coeff[i] = 0 THEN 0 ELSE MulLogElement(Log[coeff[i]], powers[i])]
<1>1. ASSUME NEW i \in 0 .. n
      PROVE  (IF coeff[i] = 0 THEN 0 ELSE MulLogElement(Log[coeff[i]], powers[i])) \in Elements
  <2>1. coeff[i] \in Elements /\ powers[i] \in Elements /\ 0 \in Elements
    BY FieldSize DEF Row, Elements
  <2>2. Log[coeff[i]] \in Elements
    BY <2>1, LogType
  <2> QED  BY <2>1, <2>2, FieldOps
<1>2. f \in Row(n)
  BY <1>1 DEF Row
<1> HIDE DEF f
<1>3. XorSum(f, n) \in Elements
  BY <1>2, XorSumType
<1>4. coeff[0] \in Elements
  BY DEF Row
<1> QED  BY <1>3, <1>4 DEF EvalTable, f

LEMMA ProductType ==
    ASSUME NEW l \in Nat, NEW left, \A i \in 0 .. l : left[i] \in Elements,
           NEW r \in Nat, NEW right \in Row(r), NEW n \in Nat
    PROVE  Product(left, l, right, r, n) \in Row(n)
<1> DEFINE f(k) == [i \in 0 .. k |-> IF i <= l /\ k - i <= r THEN Mul(left[i], right[k - i]) ELSE 0]
<1>1. ASSUME NEW k \in 0 .. n
      PROVE  XorSum(f(k), k) \in Elements
  <2>1. ASSUME NEW i \in 0 .. k
        PROVE  (IF i <= l /\ k - i <= r THEN Mul(left[i], right[k - i]) ELSE 0) \in Elements
    <3>1. CASE i <= l /\ k - i <= r
      <4>1. i \in 0 .. l /\ k - i \in 0 .. r
        BY <3>1
      <4>2. left[i] \in Elements /\ right[k - i] \in Elements
        BY <4>1 DEF Row
      <4> QED  BY <3>1, <4>2, FieldOps
    <3>2. CASE ~(i <= l /\ k - i <= r)
      BY <3>2, FieldSize DEF Elements
    <3> QED  BY <3>1, <3>2
  <2>2. f(k) \in Row(k)
    BY <2>1 DEF Row
  <2> HIDE DEF f
  <2> QED  BY <2>2, XorSumType
<1> QED  BY <1>1 DEF Product, Row

LEMMA DividedType ==
    ASSUME NEW divisor \in Row(NROOTS), NEW i \in 0 .. BLOCK - 1, NEW m \in Row(BLOCK - 1)
    PROVE  Divided(divisor, m, i) \in Row(BLOCK - 1)
<1> DEFINE q == DivLog(Log[m[i]], Log[divisor[NROOTS]])
           d(j) == divisor[j - (i - NROOTS)]
           e(j) == IF j \in i - NROOTS .. i /\ d(j) # 0
                   THEN Add(m[j], MulLogElement(Log[d(j)], q)) ELSE m[j]
<1>1. BLOCK \in Nat /\ NROOTS \in Nat
  BY FieldSize
<1>2. q \in Elements
  <2>1. m[i] \in Elements /\ divisor[NROOTS] \in Elements
    BY <1>1 DEF Row
  <2> QED  BY <2>1, LogType, FieldOps
<1> HIDE DEF q
<1>3. ASSUME NEW j \in 0 .. BLOCK - 1
      PROVE  e(j) \in Elements
  <2>1. m[j] \in Elements
    BY DEF Row
  <2>2. ASSUME j \in i - NROOTS .. i, d(j) # 0
        PROVE  Add(m[j], MulLogElement(Log[d(j)], q)) \in Elements
    <3>1. j - (i - NROOTS) \in 0 .. NROOTS
      BY <1>1, <2>2
    <3>2. d(j) \in Elements
      BY <3>1 DEF Row
    <3> HIDE DEF d
    <3>3. MulLogElement(Log[d(j)], q) \in Elements
      BY <1>2, <3>2, LogType, FieldOps
    <3> QED  BY <2>1, <3>3, AddBits
  <2> QED  BY <2>1, <2>2
<1>4. [j \in 0 .. BLOCK - 1 |-> e(j)] \in Row(BLOCK - 1)
  <2> HIDE DEF e
  <2> QED  BY <1>3 DEF Row
<1>5. Divided(divisor, m, i) = IF i = 0 \/ i < NROOTS \/ m[i] = 0 THEN m
                               ELSE [j \in 0 .. BLOCK - 1 |-> e(j)]
  BY DEF Divided, q
<1> HIDE DEF e
<1> QED  BY <1>4, <1>5

\* The divisions, one after the other.
LEMMA RemainderTable ==
    ASSUME NEW dividend \in Row(BLOCK - 1), NEW divisor \in Row(NROOTS)
    PROVE  \E rest \in [0 .. BLOCK -> Row(BLOCK - 1)] :
              /\ rest[0] = dividend /\ Remainder(dividend, divisor) = rest[BLOCK]
              /\ \A n \in 1 .. BLOCK : rest[n] = Divided(divisor, rest[n - 1], BLOCK - n)
<1> DEFINE N == BLOCK
           E == Row(BLOCK - 1)
           step == [n \in 1 .. N |-> [m \in E |-> Divided(divisor, m, N - n)]]
<1>1. N \in Nat /\ dividend \in E
  BY FieldSize
<1>2. \A n \in 1 .. N, m \in E : Divided(divisor, m, N - n) \in E
  <2> TAKE n \in 1 .. N, m \in E
  <2>1. N - n \in 0 .. BLOCK - 1
    BY <1>1
  <2> QED  BY <2>1, DividedType
<1>3. step \in [1 .. N -> [E -> E]]
  <2> HIDE DEF E, N
  <2> QED  BY <1>2
<1>4. \A n \in 1 .. N : \A m \in E : step[n][m] = Divided(divisor, m, N - n)
  <2> HIDE DEF E, N
  <2> QED  OBVIOUS
<1> HIDE DEF step, E, N
<1>5. PICK g \in [0 .. N -> E] : Unrolls(g, N, dividend, step)
  BY <1>1, <1>3, Recursion
<1>6. g = [n \in 0 .. N |-> IF n = 0 THEN dividend ELSE Divided(divisor, g[n - 1], N - n)]
  <2>1. ASSUME NEW n \in 0 .. N
        PROVE  g[n] = IF n = 0 THEN dividend ELSE Divided(divisor, g[n - 1], N - n)
    <3>1. n # 0 => n \in 1 .. N /\ n - 1 \in 0 .. N
      BY <1>1
    <3> QED  BY <1>4, <1>5, <3>1 DEF Unrolls
  <2> QED  BY <1>5, <2>1
<1> DEFINE rest == CHOOSE h : h = [n \in 0 .. N |->
                        IF n = 0 THEN dividend ELSE Divided(divisor, h[n - 1], N - n)]
<1>7. rest = [n \in 0 .. N |-> IF n = 0 THEN dividend ELSE Divided(divisor, rest[n - 1], N - n)]
  BY <1>6, Zenon
<1>8. Remainder(dividend, divisor) = rest[N]
  BY DEF Remainder, N
<1> HIDE DEF rest
<1>9. IsTable(rest, N)
  BY <1>7 DEF IsTable
<1>10. \A n \in 0 .. N : rest[n] = IF n = 0 THEN dividend ELSE Divided(divisor, rest[n - 1], N - n)
  BY <1>7
<1>11. rest[0] = dividend
  BY <1>1, <1>10
<1>12. \A n \in 1 .. N : rest[n - 1] \in E => rest[n] = step[n][rest[n - 1]]
  BY <1>1, <1>4, <1>10
<1>13. rest \in [0 .. N -> E] /\ Unrolls(rest, N, dividend, step)
  BY <1>1, <1>3, <1>9, <1>11, <1>12, Unrolled
<1>14. ASSUME NEW n \in 1 .. N
       PROVE  rest[n] = Divided(divisor, rest[n - 1], N - n)
  <2>1. n \in 0 .. N /\ n # 0
    BY <1>1
  <2> QED  BY <1>10, <2>1
<1> QED  BY <1>8, <1>11, <1>13, <1>14 DEF E, N

\* What is left over is as long as what was divided.
LEMMA RemainderType ==
    ASSUME NEW dividend \in Row(BLOCK - 1), NEW divisor \in Row(NROOTS)
    PROVE  Remainder(dividend, divisor) \in Row(BLOCK - 1)
<1>1. BLOCK \in 0 .. BLOCK
  BY FieldSize
<1> QED  BY <1>1, RemainderTable

----------------------------------------------------------------------------
(* The tables of an instance, and the encoder. *)

LEMMA TablesType ==
    /\ Roots \in [0 .. NROOTS - 1 -> Elements]
    /\ RootPowers \in [0 .. NROOTS - 1 -> Row(BLOCK - 1)]
    /\ ElementPowers \in [Elements -> Row(NROOTS - 1)]
<1>1. ASSUME NEW i \in 0 .. NROOTS - 1
      PROVE  Exp[(GAP * (i + FIRST_ROOT)) % (FIELD - 1)] \in Elements
  <2> DEFINE e == GAP * (i + FIRST_ROOT)
             m == FIELD - 1
  <2>1. GAP \in Nat /\ i + FIRST_ROOT \in Nat /\ m \in Nat \ {0}
    BY FieldSize, RSAssumption
  <2>2. e \in Nat
    <3> DEFINE r == i + FIRST_ROOT
    <3>1. r \in Nat
      BY <2>1
    <3> HIDE DEF r
    <3>2. GAP * r \in Nat
      BY <2>1, <3>1
    <3> QED  BY <3>2 DEF r
  <2> HIDE DEF e
  <2>3. e % m \in 0 .. m - 1
    <3> HIDE DEF m
    <3> QED  BY <2>1, <2>2, Division
  <2>4. e % m \in 0 .. 2 * FIELD - 1
    BY <2>3, FieldSize
  <2> QED  BY <2>4, ExpType DEF e, m
<1>2. Roots \in [0 .. NROOTS - 1 -> Elements]
  BY <1>1 DEF Roots
<1>3. BLOCK - 1 \in Nat /\ NROOTS - 1 \in Nat
  BY FieldSize
<1>4. RootPowers \in [0 .. NROOTS - 1 -> Row(BLOCK - 1)]
  BY <1>2, <1>3, PowerTableType DEF RootPowers
<1>5. ElementPowers \in [Elements -> Row(NROOTS - 1)]
  BY <1>3, PowerTableType DEF ElementPowers
<1> QED  BY <1>2, <1>4, <1>5

Linear(i) == [k \in 0 .. 1 |-> IF k = 0 THEN Roots[i] ELSE 1]

\* The generator is multiplied from one factor for each root.
LEMMA GeneratorTable ==
    \E poly :
        /\ poly[0] = Linear(0) /\ Generator = poly[NROOTS - 1]
        /\ \A n \in 0 .. NROOTS - 1 : poly[n] \in Row(n + 1)
        /\ \A n \in 1 .. NROOTS - 1 : poly[n] = Product(Linear(n), 1, poly[n - 1], n, n + 1)
<1> DEFINE N == NROOTS - 1
           E == UNION {Row(n + 1) : n \in 0 .. N}
           next(n, p) == Product(Linear(n), 1, p, n, n + 1)
           step == [n \in 1 .. N |-> [p \in E |-> IF p \in Row(n) THEN next(n, p) ELSE p]]
<1>1. N \in Nat /\ N + 1 = NROOTS /\ 0 \in 0 .. N
  BY FieldSize
<1>2. ASSUME NEW i \in 0 .. N
      PROVE  Linear(i) \in Row(1) /\ \A k \in 0 .. 1 : Linear(i)[k] \in Elements
  <2>1. Roots[i] \in Elements /\ 1 \in Elements
    BY TablesType, FieldSize DEF Elements
  <2> QED  BY <2>1 DEF Row, Linear
<1>3. ASSUME NEW n \in 1 .. N, NEW p \in Row(n)
      PROVE  next(n, p) \in Row(n + 1)
  <2> DEFINE left == Linear(n)
  <2>1. \A i \in 0 .. 1 : left[i] \in Elements
    BY <1>1, <1>2
  <2>2. n \in Nat /\ n + 1 \in Nat
    BY <1>1
  <2> HIDE DEF left
  <2>3. Product(left, 1, p, n, n + 1) \in Row(n + 1)
    BY <2>1, <2>2, ProductType
  <2> QED  BY <2>3 DEF left
<1> HIDE DEF next
<1>4. ASSUME NEW n \in 0 .. N
      PROVE  Row(n + 1) \subseteq E
  OBVIOUS
<1>5. step \in [1 .. N -> [E -> E]]
  <2>1. ASSUME NEW n \in 1 .. N, NEW p \in E
        PROVE  (IF p \in Row(n) THEN next(n, p) ELSE p) \in E
    <3>1. n \in 0 .. N
      BY <1>1
    <3> HIDE DEF E
    <3> QED  BY <1>3, <1>4, <3>1
  <2> HIDE DEF E, N
  <2> QED  BY <2>1
<1>6. \A n \in 1 .. N : \A p \in E : step[n][p] = IF p \in Row(n) THEN next(n, p) ELSE p
  <2> HIDE DEF E, N
  <2> QED  OBVIOUS
<1>7. Linear(0) \in Row(1) /\ Linear(0) \in E
  <2> DEFINE zero == 0
  <2>1. zero \in 0 .. N
    BY <1>1
  <2> HIDE DEF zero, E
  <2>2. Linear(zero) \in Row(1) /\ Row(zero + 1) \subseteq E
    BY <1>2, <1>4, <2>1
  <2> QED  BY <2>2 DEF zero
<1> HIDE DEF step, E, N
<1>8. PICK g \in [0 .. N -> E] : Unrolls(g, N, Linear(0), step)
  BY <1>1, <1>5, <1>7, Recursion
<1> DEFINE S == {n \in 0 .. N : g[n] \in Row(n + 1)}
<1>9. \A n \in 0 .. N : n \in S
  <2>1. 0 \in S
    BY <1>1, <1>7, <1>8 DEF Unrolls
  <2>2. ASSUME NEW n \in 0 .. N - 1, n \in S
        PROVE  n + 1 \in S
    <3>1. n + 1 \in 1 .. N /\ (n + 1) - 1 = n /\ n + 1 \in 0 .. N /\ n \in 0 .. N
      BY <1>1
    <3>2. g[n + 1] = IF g[n] \in Row(n + 1) THEN next(n + 1, g[n]) ELSE g[n]
      BY <1>6, <1>8, <3>1 DEF Unrolls
    <3>3. g[n + 1] \in Row((n + 1) + 1)
      BY <1>3, <2>2, <3>1, <3>2
    <3> QED  BY <3>1, <3>3
  <2> HIDE DEF S
  <2> QED  BY <1>1, <2>1, <2>2, UpTo
<1>10. g = [n \in 0 .. N |-> IF n = 0 THEN Linear(0) ELSE next(n, g[n - 1])]
  <2>1. ASSUME NEW n \in 0 .. N
        PROVE  g[n] = IF n = 0 THEN Linear(0) ELSE next(n, g[n - 1])
    <3>1. CASE n = 0
      BY <1>8, <3>1 DEF Unrolls
    <3>2. CASE n # 0
      <4>1. n \in 1 .. N /\ n - 1 \in 0 .. N /\ (n - 1) + 1 = n
        BY <1>1, <3>2
      <4>2. g[n - 1] \in Row(n) /\ g[n - 1] \in E
        BY <1>8, <1>9, <4>1
      <4>3. g[n] = step[n][g[n - 1]]
        BY <1>8, <4>1 DEF Unrolls
      <4> QED  BY <1>6, <3>2, <4>1, <4>2, <4>3
    <3> QED  BY <3>1, <3>2
  <2> QED  BY <1>8, <2>1
<1> DEFINE poly == CHOOSE h : h = [n \in 0 .. N |-> IF n = 0 THEN Linear(0) ELSE next(n, h[n - 1])]
<1>11. poly = [n \in 0 .. N |-> IF n = 0 THEN Linear(0) ELSE next(n, poly[n - 1])]
  BY <1>10, Zenon
<1>12. Generator = poly[N]
  BY DEF Generator, N, next, Linear
<1> HIDE DEF poly
<1>13. \A n \in 0 .. N : poly[n] = IF n = 0 THEN Linear(0) ELSE next(n, poly[n - 1])
  BY <1>11
<1> DEFINE T == {n \in 0 .. N : poly[n] \in Row(n + 1)}
<1>14. \A n \in 0 .. N : n \in T
  <2>1. 0 \in T
    BY <1>1, <1>7, <1>13
  <2>2. ASSUME NEW n \in 0 .. N - 1, n \in T
        PROVE  n + 1 \in T
    <3>1. n + 1 \in 1 .. N /\ (n + 1) - 1 = n /\ n + 1 \in 0 .. N /\ n + 1 # 0
      BY <1>1
    <3>2. poly[n + 1] = next(n + 1, poly[n])
      BY <1>13, <3>1
    <3>3. poly[n + 1] \in Row((n + 1) + 1)
      BY <1>3, <2>2, <3>1, <3>2
    <3> QED  BY <3>1, <3>3
  <2> HIDE DEF T
  <2> QED  BY <1>1, <2>1, <2>2, UpTo
<1>15. ASSUME NEW n \in 1 .. N
       PROVE  poly[n] = Product(Linear(n), 1, poly[n - 1], n, n + 1)
  <2>1. n \in 0 .. N /\ n # 0
    BY <1>1
  <2> QED  BY <1>13, <2>1 DEF next
<1>16. poly[0] = Linear(0) /\ \A n \in 0 .. N : poly[n] \in Row(n + 1)
  BY <1>1, <1>13, <1>14
<1> WITNESS poly
<1> QED  BY <1>12, <1>15, <1>16 DEF N

\* The generator has a place for every root, and one more.
LEMMA GeneratorType == Generator \in Row(NROOTS)
<1>1. NROOTS - 1 \in 0 .. NROOTS - 1 /\ (NROOTS - 1) + 1 = NROOTS
  BY FieldSize
<1> QED  BY <1>1, GeneratorTable

\* A block is the message and its parity.
LEMMA EncodeType ==
    ASSUME NEW msg \in [1 .. MESSAGE -> Elements]
    PROVE  /\ Encode(msg) \in [1 .. BLOCK -> Elements]
           /\ \A i \in 1 .. MESSAGE : Encode(msg)[i] = msg[i]
<1> DEFINE poly == [i \in 0 .. BLOCK - 1 |-> IF i < NROOTS THEN 0 ELSE msg[BLOCK - i]]
           parity == Remainder(poly, Generator)
           tail == [i \in 1 .. NROOTS |-> parity[NROOTS - i]]
<1>1. poly \in Row(BLOCK - 1)
  <2>1. ASSUME NEW i \in 0 .. BLOCK - 1
        PROVE  (IF i < NROOTS THEN 0 ELSE msg[BLOCK - i]) \in Elements
    <3>1. /\ i \in Nat /\ i < BLOCK /\ NROOTS \in Nat /\ BLOCK \in Nat
          /\ MESSAGE = BLOCK - NROOTS /\ 0 \in Elements
      <4>1. NROOTS \in Nat /\ BLOCK \in Nat /\ FIELD \in Nat /\ FIELD >= 4
        BY FieldSize
      <4> QED  BY <4>1 DEF Elements, MESSAGE
    <3>2. CASE i < NROOTS
      BY <3>1, <3>2
    <3>3. CASE ~(i < NROOTS)
      <4>1. BLOCK - i \in 1 .. MESSAGE
        BY <3>1, <3>3
      <4> QED  BY <3>3, <4>1
    <3> QED  BY <3>2, <3>3
  <2> QED  BY <2>1 DEF Row
<1> HIDE DEF poly
<1>2. parity \in Row(BLOCK - 1)
  BY <1>1, GeneratorType, RemainderType
<1> HIDE DEF parity
<1>3. tail \in [1 .. NROOTS -> Elements]
  <2>1. ASSUME NEW i \in 1 .. NROOTS
        PROVE  parity[NROOTS - i] \in Elements
    <3>1. NROOTS - i \in 0 .. BLOCK - 1
      BY FieldSize
    <3> QED  BY <1>2, <3>1 DEF Row
  <2> QED  BY <2>1
<1> HIDE DEF tail
<1> DEFINE E == Elements
<1>4. msg \in Seq(E) /\ Len(msg) = MESSAGE /\ tail \in Seq(E) /\ Len(tail) = NROOTS
  BY <1>3, FieldSize, FunctionIsSeq
<1>5. Encode(msg) = msg \o tail
  BY DEF Encode, poly, parity, tail
<1> DEFINE w == msg \o tail
<1>6. w \in Seq(E) /\ Len(w) = BLOCK /\ \A i \in 1 .. MESSAGE : w[i] = msg[i]
  <2> HIDE DEF E
  <2> QED  BY <1>4, FieldSize
<1> HIDE DEF w
<1>7. w \in [1 .. BLOCK -> E]
  <2> HIDE DEF E
  <2> QED  BY <1>6
<1> QED  BY <1>5, <1>6, <1>7 DEF w

----------------------------------------------------------------------------
(* The buffers of the decoder. *)

Decoder == [received : Row(BLOCK - 1), syndromes : Row(NROOTS - 1),
            locator : Row(NROOTS), order : Nat,
            last : Row(NROOTS), lastOrder : Nat, lastDiscrepancy : Elements,
            numerrors : Nat, delay : Nat \ {0},
            roots : Row(2 * NROOTS - 1), numroots : Nat,
            vals : Row(NROOTS - 1), locations : [0 .. NROOTS - 1 -> 0 .. BLOCK - 1]]

LEMMA ZerosType == \A n \in Nat : [i \in 0 .. n |-> 0] \in Row(n)
BY FieldSize DEF Row, Elements

LEMMA NewDecoderType == NewDecoder \in Decoder
<1> DEFINE z(n) == [i \in 0 .. n |-> 0]
<1>1. /\ z(BLOCK - 1) \in Row(BLOCK - 1) /\ z(NROOTS - 1) \in Row(NROOTS - 1)
      /\ z(NROOTS) \in Row(NROOTS) /\ z(2 * NROOTS - 1) \in Row(2 * NROOTS - 1)
  <2>1. BLOCK - 1 \in Nat /\ NROOTS - 1 \in Nat /\ NROOTS \in Nat /\ 2 * NROOTS - 1 \in Nat
    BY FieldSize
  <2> QED  BY <2>1, ZerosType
<1>2. z(NROOTS - 1) \in [0 .. NROOTS - 1 -> 0 .. BLOCK - 1] /\ 1 \in Elements
  BY FieldSize DEF Elements
<1>3. NewDecoder = [received |-> z(BLOCK - 1), syndromes |-> z(NROOTS - 1), locator |-> z(NROOTS),
                    order |-> 0, last |-> z(NROOTS), lastOrder |-> 0, lastDiscrepancy |-> 1,
                    numerrors |-> 0, delay |-> 1, roots |-> z(2 * NROOTS - 1), numroots |-> 0,
                    vals |-> z(NROOTS - 1), locations |-> z(NROOTS - 1)]
  BY DEF NewDecoder, Zeros
<1> HIDE DEF z
<1> QED  BY <1>1, <1>2, <1>3 DEF Decoder

LEMMA SyndromesType ==
    ASSUME NEW r \in Decoder, NEW b \in [1 .. BLOCK -> Elements]
    PROVE  /\ Syndromes(r, b) \in Decoder
           /\ \A i \in 1 .. BLOCK : Syndromes(r, b).received[BLOCK - i] = b[i]
           /\ \A l \in 0 .. NROOTS - 1 :
                 Syndromes(r, b).syndromes[l]
                   = EvalTable(Syndromes(r, b).received, BLOCK - 1, RootPowers[l])
<1> DEFINE word == Reversed(b)
           syn == [i \in 0 .. NROOTS - 1 |-> EvalTable(word, BLOCK - 1, RootPowers[i])]
<1>1. word \in Row(BLOCK - 1) /\ \A i \in 1 .. BLOCK : word[BLOCK - i] = b[i]
  <2>1. \A i \in 0 .. BLOCK - 1 : BLOCK - i \in 1 .. BLOCK
    BY FieldSize
  <2>2. ASSUME NEW i \in 1 .. BLOCK
        PROVE  word[BLOCK - i] = b[i]
    <3>1. BLOCK - i \in 0 .. BLOCK - 1 /\ BLOCK - (BLOCK - i) = i
      BY FieldSize
    <3> QED  BY <3>1 DEF Reversed
  <2> QED  BY <2>1, <2>2 DEF Reversed, Row
<1> HIDE DEF word
<1>2. syn \in Row(NROOTS - 1)
  <2>1. ASSUME NEW i \in 0 .. NROOTS - 1
        PROVE  EvalTable(word, BLOCK - 1, RootPowers[i]) \in Elements
    <3>1. BLOCK - 1 \in Nat /\ RootPowers[i] \in Row(BLOCK - 1)
      BY FieldSize, TablesType
    <3>2. \A j \in 0 .. BLOCK - 1 : RootPowers[i][j] \in Elements
      BY <3>1 DEF Row
    <3> QED  BY <1>1, <3>1, <3>2, EvalTableType
  <2> QED  BY <2>1 DEF Row
<1>3. Syndromes(r, b) = [r EXCEPT !.received = word, !.syndromes = syn]
  BY DEF Syndromes, word
<1>4. \A l \in 0 .. NROOTS - 1 : syn[l] = EvalTable(word, BLOCK - 1, RootPowers[l])
  OBVIOUS
<1> HIDE DEF syn
<1> DEFINE q == Syndromes(r, b)
<1>5. q.received = word /\ q.syndromes = syn
  BY <1>3 DEF Decoder
<1>6. q \in Decoder
  BY <1>1, <1>2, <1>3 DEF Decoder
<1> HIDE DEF q
<1> QED  BY <1>1, <1>4, <1>5, <1>6 DEF q

\* What Berlekamp-Massey keeps about its cursors in front of turn t: the orders of both
\* locators leave room, and the order is 0 only where every syndrome so far was 0.
Progress(r, t) ==
    /\ r.order <= r.numerrors /\ r.numerrors <= t
    /\ r.lastOrder + r.delay <= t + 1 - r.numerrors
    /\ r.order >= 1 \/ (r.numerrors = 0 /\ \A j \in 0 .. t - 1 : r.syndromes[j] = 0)

LEMMA LocatorInitType ==
    ASSUME NEW r \in Decoder
    PROVE  /\ LocatorInit(r) \in Decoder /\ Progress(LocatorInit(r), 0)
           /\ LocatorInit(r).syndromes = r.syndromes
<1> DEFINE one == [Zeros EXCEPT ![0] = 1]
<1>1. one \in Row(NROOTS)
  BY FieldSize DEF Zeros, Row, Elements
<1>2. LocatorInit(r) = [r EXCEPT !.locator = one, !.order = 0, !.last = one, !.lastOrder = 0,
                                 !.lastDiscrepancy = 1, !.numerrors = 0, !.delay = 1]
  BY DEF LocatorInit
<1> HIDE DEF one
<1>3. 1 \in Elements
  BY FieldSize DEF Elements
<1> DEFINE q == LocatorInit(r)
<1>4. q = [received |-> r.received, syndromes |-> r.syndromes, locator |-> one, order |-> 0,
           last |-> one, lastOrder |-> 0, lastDiscrepancy |-> 1, numerrors |-> 0, delay |-> 1,
           roots |-> r.roots, numroots |-> r.numroots, vals |-> r.vals,
           locations |-> r.locations] /\ q \in Decoder
  <2>1. q = [received |-> r.received, syndromes |-> r.syndromes, locator |-> one, order |-> 0,
             last |-> one, lastOrder |-> 0, lastDiscrepancy |-> 1, numerrors |-> 0, delay |-> 1,
             roots |-> r.roots, numroots |-> r.numroots, vals |-> r.vals,
             locations |-> r.locations]
    BY <1>2 DEF Decoder
  <2>2. /\ r.received \in Row(BLOCK - 1) /\ r.syndromes \in Row(NROOTS - 1)
        /\ r.roots \in Row(2 * NROOTS - 1) /\ r.numroots \in Nat /\ r.vals \in Row(NROOTS - 1)
        /\ r.locations \in [0 .. NROOTS - 1 -> 0 .. BLOCK - 1]
    BY DEF Decoder
  <2> HIDE DEF q
  <2> QED  BY <1>1, <1>3, <2>1, <2>2 DEF Decoder
<1>5. q.order = 0 /\ q.numerrors = 0 /\ q.lastOrder = 0 /\ q.delay = 1 /\ q.syndromes = r.syndromes
  BY <1>4
<1> HIDE DEF q
<1>6. Progress(q, 0)
  BY <1>5 DEF Progress
<1> QED  BY <1>4, <1>5, <1>6 DEF q

LEMMA DiscrepancyType ==
    ASSUME NEW r \in Decoder, NEW t \in 0 .. NROOTS - 1, r.numerrors <= t
    PROVE  /\ Discrepancy(r, t) \in Elements
           /\ r.numerrors = 0 => Discrepancy(r, t) = r.syndromes[t]
<1> DEFINE n == r.numerrors
           f == [j \in 0 .. n |-> IF j = 0 THEN r.syndromes[t]
                                  ELSE Mul(r.locator[j], r.syndromes[t - j])]
<1>1. n \in Nat /\ n <= t /\ r.syndromes \in Row(NROOTS - 1) /\ r.locator \in Row(NROOTS)
  BY DEF Decoder
<1> HIDE DEF n
<1>2. ASSUME NEW j \in 0 .. n
      PROVE  (IF j = 0 THEN r.syndromes[t] ELSE Mul(r.locator[j], r.syndromes[t - j])) \in Elements
  <2>1. j \in 0 .. NROOTS /\ t - j \in 0 .. NROOTS - 1
    BY <1>1, FieldSize
  <2>2. r.locator[j] \in Elements /\ r.syndromes[t - j] \in Elements /\ r.syndromes[t] \in Elements
    BY <1>1, <2>1 DEF Row
  <2> QED  BY <2>2, FieldOps
<1>3. f \in Row(n)
  BY <1>2 DEF Row
<1>4. f[0] = r.syndromes[t]
  BY <1>1
<1>5. Discrepancy(r, t) = XorSum(f, n)
  BY DEF Discrepancy, n
<1> HIDE DEF f
<1> QED  BY <1>1, <1>3, <1>4, <1>5, XorSumType DEF n

LEMMA ShiftedType ==
    ASSUME NEW r \in Decoder, NEW d \in Elements
    PROVE  /\ Shifted(r, d) \in Row(NROOTS)
           /\ \A j \in 0 .. NROOTS : j \in r.delay .. Reach(r) =>
                 Div(Mul(r.last[j - r.delay], d), r.lastDiscrepancy) \in Elements
<1>1. /\ r.delay \in Nat /\ r.lastOrder \in Nat /\ r.last \in Row(NROOTS)
      /\ r.lastDiscrepancy \in Elements /\ Reach(r) \in Nat /\ NROOTS \in Nat /\ 0 \in Elements
  <2>1. NROOTS \in Nat /\ 0 \in Elements
    BY FieldSize DEF Elements
  <2>2. /\ r.delay \in Nat /\ r.lastOrder \in Nat /\ r.last \in Row(NROOTS)
        /\ r.lastDiscrepancy \in Elements
    BY DEF Decoder
  <2>3. Reach(r) \in Nat
    BY <2>2 DEF Reach
  <2> QED  BY <2>1, <2>2, <2>3
<1>2. ASSUME NEW j \in 0 .. NROOTS, j >= r.delay
      PROVE  Div(Mul(r.last[j - r.delay], d), r.lastDiscrepancy) \in Elements
  <2>1. j - r.delay \in 0 .. NROOTS
    BY <1>1, <1>2
  <2>2. r.last[j - r.delay] \in Elements
    BY <1>1, <2>1 DEF Row
  <2> QED  BY <1>1, <2>2, FieldOps
<1> DEFINE e(j) == Div(Mul(r.last[j - r.delay], d), r.lastDiscrepancy)
           g(j) == CASE j < r.delay -> 0
                     [] j \in r.delay .. Reach(r) -> e(j)
                     [] OTHER -> r.last[j]
<1> HIDE DEF e
<1>3. ASSUME NEW j \in 0 .. NROOTS
      PROVE  g(j) \in Elements
  <2>1. CASE j < r.delay
    <3>1. ~(j \in r.delay .. Reach(r))
      BY <1>1, <2>1
    <3> QED  BY <1>1, <2>1, <3>1
  <2>2. CASE j \in r.delay .. Reach(r)
    <3>1. j >= r.delay /\ ~(j < r.delay)
      BY <1>1, <2>2
    <3>2. e(j) \in Elements
      BY <1>2, <3>1 DEF e
    <3> QED  BY <2>2, <3>1, <3>2
  <2>3. CASE ~(j < r.delay) /\ ~(j \in r.delay .. Reach(r))
    <3>1. r.last[j] \in Elements
      BY <1>1 DEF Row
    <3> QED  BY <2>3, <3>1
  <2> QED  BY <2>1, <2>2, <2>3
<1>4. Shifted(r, d) = [j \in 0 .. NROOTS |-> g(j)]
  BY DEF Shifted, e
<1> HIDE DEF g
<1>5. Shifted(r, d) \in Row(NROOTS)
  BY <1>3, <1>4 DEF Row
<1>6. \A j \in 0 .. NROOTS : j \in r.delay .. Reach(r) =>
          Div(Mul(r.last[j - r.delay], d), r.lastDiscrepancy) \in Elements
  <2> TAKE j \in 0 .. NROOTS
  <2> HAVE j \in r.delay .. Reach(r)
  <2>1. j >= r.delay
    BY <1>1
  <2> QED  BY <1>2, <2>1
<1> QED  BY <1>5, <1>6

LEMMA LengthenedType ==
    ASSUME NEW r \in Decoder, NEW d \in Elements, NEW t \in Nat, r.numerrors <= t
    PROVE  LET q == Lengthened(r, t, d)
           IN  /\ q \in Decoder
               /\ q.order = Reach(r) /\ q.lastOrder = r.order /\ q.delay = 1
               /\ q.numerrors = t + 1 - r.numerrors /\ q.syndromes = r.syndromes
<1> DEFINE shifted == Shifted(r, d)
           R == Reach(r)
           loc == [j \in 0 .. NROOTS |-> IF j <= R THEN Add(r.locator[j], shifted[j]) ELSE r.locator[j]]
           lst == [j \in 0 .. NROOTS |-> IF j <= R THEN r.locator[j] ELSE shifted[j]]
           m == t + 1 - r.numerrors
<1>1. R \in Nat /\ m \in Nat /\ r.locator \in Row(NROOTS) /\ r.order \in Nat
  BY DEF Decoder, Reach
<1>2. shifted \in Row(NROOTS)
  BY ShiftedType
<1>3. loc \in Row(NROOTS) /\ lst \in Row(NROOTS)
  <2> HIDE DEF shifted, R
  <2>1. \A j \in 0 .. NROOTS : r.locator[j] \in Elements /\ shifted[j] \in Elements
    BY <1>1, <1>2 DEF Row
  <2>2. \A j \in 0 .. NROOTS : Add(r.locator[j], shifted[j]) \in Elements
    BY <2>1, AddBits
  <2> QED  BY <2>1, <2>2 DEF Row
<1>4. Replaced(r, d) = [r EXCEPT !.locator = loc, !.last = lst, !.order = R, !.lastOrder = r.order,
                                 !.lastDiscrepancy = d]
  BY DEF Replaced
<1> HIDE DEF loc, lst, R
<1> DEFINE p == Replaced(r, d)
<1>5. p = [received |-> r.received, syndromes |-> r.syndromes, locator |-> loc, order |-> R,
           last |-> lst, lastOrder |-> r.order, lastDiscrepancy |-> d, numerrors |-> r.numerrors,
           delay |-> r.delay, roots |-> r.roots, numroots |-> r.numroots, vals |-> r.vals,
           locations |-> r.locations]
  BY <1>4 DEF Decoder
<1> HIDE DEF p
<1> DEFINE q == Lengthened(r, t, d)
<1>6. q = [received |-> r.received, syndromes |-> r.syndromes, locator |-> loc, order |-> R,
           last |-> lst, lastOrder |-> r.order, lastDiscrepancy |-> d, numerrors |-> m,
           delay |-> 1, roots |-> r.roots, numroots |-> r.numroots, vals |-> r.vals,
           locations |-> r.locations]
  <2>1. q = [p EXCEPT !.numerrors = t + 1 - @, !.delay = 1]
    BY DEF Lengthened, p
  <2> HIDE DEF q
  <2>2. p.numerrors = r.numerrors
    BY <1>5
  <2>3. q = [p EXCEPT !.numerrors = m, !.delay = 1]
    BY <2>1, <2>2
  <2> HIDE DEF m
  <2> QED  BY <1>5, <2>3
<1> HIDE DEF m, q
<1>7. q \in Decoder
  <2>1. /\ r.received \in Row(BLOCK - 1) /\ r.syndromes \in Row(NROOTS - 1)
        /\ r.roots \in Row(2 * NROOTS - 1) /\ r.numroots \in Nat /\ r.vals \in Row(NROOTS - 1)
        /\ r.locations \in [0 .. NROOTS - 1 -> 0 .. BLOCK - 1]
    BY DEF Decoder
  <2> QED  BY <1>1, <1>3, <1>6, <2>1 DEF Decoder
<1> QED  BY <1>6, <1>7 DEF q, m, R

LEMMA AdjustedType ==
    ASSUME NEW r \in Decoder, NEW d \in Elements
    PROVE  LET q == Adjusted(r, d)
           IN  /\ q \in Decoder
               /\ q.order = IF Reach(r) > r.order THEN Reach(r) ELSE r.order
               /\ q.lastOrder = r.lastOrder /\ q.delay = r.delay + 1
               /\ q.numerrors = r.numerrors /\ q.syndromes = r.syndromes
<1> DEFINE R == Reach(r)
           e(j) == Div(Mul(r.last[j - r.delay], d), r.lastDiscrepancy)
           loc == [j \in 0 .. NROOTS |-> IF j \in r.delay .. R THEN Add(r.locator[j], e(j))
                                         ELSE r.locator[j]]
           o == IF R > r.order THEN R ELSE r.order
           w == r.delay + 1
<1>1. R \in Nat /\ r.locator \in Row(NROOTS) /\ r.order \in Nat /\ o \in Nat /\ w \in Nat \ {0}
  BY DEF Decoder, Reach
<1>2. \A j \in 0 .. NROOTS : j \in r.delay .. R => e(j) \in Elements
  BY ShiftedType
<1>3. loc \in Row(NROOTS)
  <2> HIDE DEF e, R
  <2>1. \A j \in 0 .. NROOTS : r.locator[j] \in Elements
    BY <1>1 DEF Row
  <2>2. \A j \in 0 .. NROOTS : j \in r.delay .. R => Add(r.locator[j], e(j)) \in Elements
    BY <1>2, <2>1, AddBits
  <2> QED  BY <2>1, <2>2 DEF Row
<1> DEFINE q == Adjusted(r, d)
<1>4. q = [r EXCEPT !.locator = loc, !.order = o, !.delay = w]
  BY DEF Adjusted
<1> HIDE DEF loc, o, w, q
<1>5. q \in Decoder /\ q.order = o /\ q.lastOrder = r.lastOrder /\ q.delay = w
      /\ q.numerrors = r.numerrors /\ q.syndromes = r.syndromes
  BY <1>1, <1>3, <1>4 DEF Decoder
<1> QED  BY <1>5 DEF q, o, w, R

\* A turn keeps the decoder in its types and the cursors in their room.
LEMMA LocatorTurnType ==
    ASSUME NEW r \in Decoder, NEW t \in 0 .. NROOTS - 1, Progress(r, t)
    PROVE  LET q == LocatorTurn(r, t)
           IN  q \in Decoder /\ Progress(q, t + 1) /\ q.syndromes = r.syndromes
<1> DEFINE d == Discrepancy(r, t)
           q == LocatorTurn(r, t)
           p == [r EXCEPT !.delay = @ + 1]
<1>1. /\ r.order \in Nat /\ r.lastOrder \in Nat /\ r.numerrors \in Nat /\ r.delay \in Nat \ {0}
      /\ t \in Nat
  BY FieldSize DEF Decoder
<1>2. /\ r.order <= r.numerrors /\ r.numerrors <= t
      /\ r.lastOrder + r.delay <= t + 1 - r.numerrors
      /\ r.order >= 1 \/ (r.numerrors = 0 /\ \A j \in 0 .. t - 1 : r.syndromes[j] = 0)
  BY DEF Progress
<1>3. d \in Elements /\ (r.numerrors = 0 => d = r.syndromes[t])
  BY <1>2, DiscrepancyType
<1>4. p \in Decoder /\ p.order = r.order /\ p.lastOrder = r.lastOrder /\ p.delay = r.delay + 1
      /\ p.numerrors = r.numerrors /\ p.syndromes = r.syndromes
  BY <1>1 DEF Decoder
<1>5. q = IF d = 0 THEN p
          ELSE IF 2 * r.numerrors <= t THEN Lengthened(r, t, d) ELSE Adjusted(r, d)
  BY DEF LocatorTurn
<1>6. Reach(r) = r.lastOrder + r.delay
  BY DEF Reach
<1> HIDE DEF d, p, q
<1>7. CASE d = 0
  <2>1. q = p
    BY <1>5, <1>7
  <2>2. r.numerrors = 0 /\ (\A j \in 0 .. t - 1 : r.syndromes[j] = 0)
        => \A j \in 0 .. (t + 1) - 1 : r.syndromes[j] = 0
    BY <1>1, <1>3, <1>7
  <2>3. Progress(p, t + 1)
    BY <1>1, <1>2, <1>4, <2>2 DEF Progress
  <2> QED  BY <1>4, <2>1, <2>3 DEF q
<1>8. CASE d # 0 /\ 2 * r.numerrors <= t
  <2>1. q = Lengthened(r, t, d)
    BY <1>5, <1>8
  <2>2. /\ q \in Decoder
        /\ q.order = Reach(r) /\ q.lastOrder = r.order /\ q.delay = 1
        /\ q.numerrors = t + 1 - r.numerrors /\ q.syndromes = r.syndromes
    <3>1. t \in Nat /\ r.numerrors <= t
      BY <1>1, <1>2
    <3> QED  BY <1>3, <2>1, <3>1, LengthenedType
  <2>3. Progress(q, t + 1)
    BY <1>1, <1>2, <1>6, <1>8, <2>2 DEF Progress
  <2> QED  BY <2>2, <2>3 DEF q
<1>9. CASE d # 0 /\ ~(2 * r.numerrors <= t)
  <2>1. q = Adjusted(r, d)
    BY <1>5, <1>9
  <2>2. /\ q \in Decoder
        /\ q.order = IF Reach(r) > r.order THEN Reach(r) ELSE r.order
        /\ q.lastOrder = r.lastOrder /\ q.delay = r.delay + 1
        /\ q.numerrors = r.numerrors /\ q.syndromes = r.syndromes
    BY <1>3, <2>1, AdjustedType
  <2>3. Progress(q, t + 1)
    BY <1>1, <1>2, <1>6, <1>9, <2>2 DEF Progress
  <2> QED  BY <2>2, <2>3 DEF q
<1> QED  BY <1>7, <1>8, <1>9

\* Of a set of elements there is one with any number of them before it, as far as it goes.
LEMMA NthType ==
    ASSUME NEW S \in SUBSET Elements, NEW n \in Nat, n < Cardinality(S)
    PROVE  Nth(S, n) \in S /\ Cardinality({y \in S : y < Nth(S, n)}) = n
<1> DEFINE B(x) == {y \in S : y < x}
           c(x) == Cardinality(B(x))
           T == {x \in 0 .. FIELD : c(x) > n}
<1>1. IsFiniteSet(S) /\ FIELD \in Nat /\ \A y \in S : y \in Nat /\ y < FIELD
  <2>1. IsFiniteSet(Elements)
    BY FieldSize, FS_Interval DEF Elements
  <2>2. IsFiniteSet(S)
    BY <2>1, FS_Subset
  <2> QED  BY <2>2, FieldSize DEF Elements
<1>2. ASSUME NEW x
      PROVE  IsFiniteSet(B(x)) /\ c(x) \in Nat
  <2>1. B(x) \subseteq S
    OBVIOUS
  <2> QED  BY <1>1, <2>1, FS_Subset, FS_CardinalityType
<1>3. B(FIELD) = S
  BY <1>1
<1>4. FIELD \in T
  <2>1. FIELD \in 0 .. FIELD
    BY <1>1
  <2> QED  BY <1>3, <2>1
<1>5. PICK x \in T : \A y \in T : x <= y
  <2>1. T \in SUBSET Nat /\ T # {}
    <3> HIDE DEF c
    <3> QED  BY <1>1, <1>4
  <2> HIDE DEF T
  <2> QED  BY <2>1, LeastNat
<1>6. x \in 0 .. FIELD /\ c(x) > n
  OBVIOUS
<1>7. x # 0
  <2> SUFFICES ASSUME x = 0 PROVE FALSE
    OBVIOUS
  <2>1. B(x) = {}
    BY <1>1
  <2>2. c(x) = 0
    BY <2>1, FS_EmptySet
  <2> QED  BY <1>6, <2>2
<1> DEFINE y == x - 1
<1>8. y \in 0 .. FIELD /\ y < x /\ ~(y \in T) /\ y \in Nat
  <2>1. y \in 0 .. FIELD /\ y < x /\ y \in Nat
    BY <1>1, <1>6, <1>7
  <2>2. ~(y \in T)
    <3> HIDE DEF T
    <3>1. ~(x <= y)
      BY <1>6, <2>1
    <3> QED  BY <1>5, <3>1
  <2> QED  BY <2>1, <2>2
<1>9. c(y) <= n
  <2>1. c(y) \in Nat /\ ~(c(y) > n)
    BY <1>2, <1>8
  <2> HIDE DEF c
  <2> QED  BY <2>1
<1>10. \A z \in S : z < x <=> (z < y \/ z = y)
  BY <1>1, <1>6, <1>7
<1>11. y \in S
  <2> SUFFICES ASSUME ~(y \in S) PROVE FALSE
    OBVIOUS
  <2>1. B(x) = B(y)
    BY <1>10
  <2>2. c(x) = c(y)
    BY <2>1
  <2>3. c(y) \in Nat /\ c(x) \in Nat
    BY <1>2
  <2> HIDE DEF c, y
  <2> QED  BY <1>6, <1>9, <2>2, <2>3
<1>12. c(x) = c(y) + 1
  <2>1. B(x) = B(y) \cup {y}
    BY <1>10, <1>11
  <2>2. ~(y \in B(y))
    BY <1>8
  <2>3. IsFiniteSet(B(y))
    BY <1>2
  <2> DEFINE D == B(y)
  <2> HIDE DEF D, y
  <2>4. Cardinality(D \cup {y}) = Cardinality(D) + 1
    BY <2>2, <2>3, FS_AddElement DEF D
  <2> QED  BY <2>1, <2>4 DEF D
<1>13. c(y) = n
  <2>1. c(y) \in Nat /\ c(x) \in Nat
    BY <1>2
  <2> HIDE DEF c, y
  <2> QED  BY <1>6, <1>9, <1>12, <2>1
<1>14. Cardinality({z \in S : z < y}) = n
  BY <1>13
<1>15. \E v \in S : Cardinality({z \in S : z < v}) = n
  <2> HIDE DEF y
  <2> QED  BY <1>11, <1>14
<1> QED  BY <1>15 DEF Nth

LEMMA FactorizeType ==
    ASSUME NEW r \in Decoder, NEW found \in SUBSET Elements
    PROVE  LET q == Factorize(r, found)
           IN  /\ q \in Decoder /\ q.order = r.order /\ q.received = r.received
               /\ q.locator = r.locator /\ q.syndromes = r.syndromes
               /\ \A i \in 0 .. 2 * NROOTS - 1 : i < Cardinality(found) => q.roots[i] = Nth(found, i)
<1> DEFINE c == Cardinality(found)
           list == [i \in 0 .. 2 * NROOTS - 1 |-> IF i < c THEN Nth(found, i)
                                                 ELSE IF i < r.order THEN 0 ELSE r.roots[i]]
<1>1. c \in Nat
  <2>1. IsFiniteSet(Elements)
    BY FieldSize, FS_Interval DEF Elements
  <2> QED  BY <2>1, FS_Subset, FS_CardinalityType
<1>2. r.roots \in Row(2 * NROOTS - 1)
  BY DEF Decoder
<1>3. list \in Row(2 * NROOTS - 1)
  <2>1. ASSUME NEW i \in 0 .. 2 * NROOTS - 1
        PROVE  (IF i < c THEN Nth(found, i) ELSE IF i < r.order THEN 0 ELSE r.roots[i]) \in Elements
    <3>1. i < c => Nth(found, i) \in Elements
      <4>1. i \in Nat
        BY FieldSize
      <4>2. i < Cardinality(found) => Nth(found, i) \in found
        BY <4>1, NthType
      <4> QED  BY <4>2
    <3>2. r.roots[i] \in Elements /\ 0 \in Elements
      BY <1>2, FieldSize DEF Row, Elements
    <3> HIDE DEF c
    <3> QED  BY <3>1, <3>2
  <2> HIDE DEF c
  <2> QED  BY <2>1 DEF Row
<1> DEFINE q == Factorize(r, found)
<1>4. q = [r EXCEPT !.roots = list, !.numroots = c]
  <2>1. DOMAIN r.roots = 0 .. 2 * NROOTS - 1
    BY <1>2 DEF Row
  <2> QED  BY <2>1 DEF Factorize
<1>5. \A i \in 0 .. 2 * NROOTS - 1 : i < c => list[i] = Nth(found, i)
  <2> HIDE DEF c
  <2> QED  OBVIOUS
<1> HIDE DEF list, c, q
<1>6. q \in Decoder /\ q.order = r.order /\ q.received = r.received /\ q.roots = list
      /\ q.locator = r.locator /\ q.syndromes = r.syndromes
  BY <1>1, <1>3, <1>4 DEF Decoder
<1> QED  BY <1>5, <1>6 DEF q, c

\* An error is located inside the block: where 1, whose logarithm is no place in it, would
\* be found, 0 has been found before.
LEMMA LocationType ==
    ASSUME NEW root \in Elements \ {0}
    PROVE  LocationOf(root) \in 0 .. BLOCK - 1
<1> DEFINE S == Powers(root)
           x == Div(1, root)
           m == FIELD - 1
<1>1. FIELD \in Nat /\ FIELD >= 4 /\ m \in Nat \ {0} /\ 0 \in Elements /\ 1 \in Elements
  BY FieldSize DEF Elements
<1>2. x \in Elements
  BY <1>1, FieldOps
<1>3. Pow(0, GAP) = 1 /\ Pow(1, GAP) = 1
  <2>1. GAP \in Nat /\ Log[0] = 0 /\ Log[1] = m
    BY <1>1, RSAssumption, LogType
  <2>2. (0 * GAP) % m = 0
    <3> HIDE DEF m
    <3>1. 0 * GAP = 0
      BY <2>1
    <3>2. 0 % m = 0
      BY <1>1
    <3> QED  BY <3>1, <3>2
  <2>3. (m * GAP) % m = 0
    <3> HIDE DEF m
    <3>1. m * GAP \in Nat /\ 0 \in 0 .. m - 1
      BY <1>1, <2>1
    <3> DEFINE e == m * GAP
    <3>2. e = m * GAP + 0
      BY <3>1
    <3>3. e \in Nat
      BY <3>1
    <3> HIDE DEF e
    <3>4. e % m = 0
      BY <1>1, <2>1, <3>1, <3>2, <3>3, Quotient
    <3> QED  BY <3>4 DEF e
  <2> QED  BY <2>1, <2>2, <2>3, ExpType DEF Pow, m
<1>4. S # {}
  <2>1. x # 0
    <3> DEFINE l == Log[root]
    <3>1. l \in 1 .. FIELD - 1 /\ Log[1] = FIELD - 1 /\ x = Exp[FIELD - 1 + Log[1] - l]
      BY <1>1, LogType DEF Div
    <3> HIDE DEF l, x
    <3>2. FIELD - 1 + Log[1] - l \in 0 .. 2 * FIELD - 1
      BY <1>1, <3>1
    <3> QED  BY <3>1, <3>2, ExpPeriod
  <2>2. x \in 1 .. FIELD - 1
    BY <1>1, <1>2, <2>1 DEF Elements
  <2>3. PICK j \in 1 .. FIELD - 1 : Pow(j, GAP) = x
    BY <2>2, GapAssumption
  <2>4. j \in Elements
    BY <1>1 DEF Elements
  <2> QED  BY <2>3, <2>4 DEF Powers
<1>5. S \in SUBSET Nat /\ S \subseteq Elements
  BY FieldSize DEF Powers, Elements
<1>6. PICK j \in S : \A k \in S : j <= k
  <2> HIDE DEF S
  <2> QED  BY <1>4, <1>5, LeastNat
<1> DEFINE least == CHOOSE i \in S : \A k \in S : i <= k
<1>7. least \in S /\ \A k \in S : least <= k
  <2> HIDE DEF S
  <2> QED  BY <1>6
<1>8. LocationOf(root) = Log[least]
  BY DEF LocationOf
<1> HIDE DEF least
<1>9. least # 1
  <2> SUFFICES ASSUME least = 1 PROVE FALSE
    OBVIOUS
  <2>1. 0 \in S
    BY <1>1, <1>3, <1>7 DEF Powers
  <2> QED  BY <1>7, <2>1
<1>10. least \in Elements \ {1}
  BY <1>5, <1>7, <1>9
<1> QED  BY <1>8, <1>10, LogType

LEMMA LocationsType ==
    ASSUME NEW r \in Decoder
    PROVE  LET q == Locations(r)
           IN  /\ q \in Decoder /\ q.order = r.order /\ q.received = r.received
               /\ q.locator = r.locator /\ q.syndromes = r.syndromes /\ q.roots = r.roots
               /\ \A i \in 0 .. NROOTS - 1 :
                     i < r.order /\ r.roots[i] # 0 => q.locations[i] = LocationOf(r.roots[i])
<1> DEFINE list == [i \in 0 .. NROOTS - 1 |-> IF i >= r.order \/ r.roots[i] = 0 THEN r.locations[i]
                                              ELSE LocationOf(r.roots[i])]
           q == Locations(r)
<1>1. r.locations \in [0 .. NROOTS - 1 -> 0 .. BLOCK - 1] /\ r.roots \in Row(2 * NROOTS - 1)
  BY DEF Decoder
<1>2. list \in [0 .. NROOTS - 1 -> 0 .. BLOCK - 1]
  <2>1. ASSUME NEW i \in 0 .. NROOTS - 1
        PROVE  (IF i >= r.order \/ r.roots[i] = 0 THEN r.locations[i] ELSE LocationOf(r.roots[i]))
                 \in 0 .. BLOCK - 1
    <3>1. i \in 0 .. 2 * NROOTS - 1
      BY FieldSize
    <3>2. r.roots[i] \in Elements /\ r.locations[i] \in 0 .. BLOCK - 1
      BY <1>1, <3>1 DEF Row
    <3>3. r.roots[i] # 0 => LocationOf(r.roots[i]) \in 0 .. BLOCK - 1
      BY <3>2, LocationType
    <3> QED  BY <3>2, <3>3
  <2> QED  BY <2>1
<1>3. q = [r EXCEPT !.locations = list]
  <2>1. DOMAIN r.locations = 0 .. NROOTS - 1
    BY <1>1
  <2> QED  BY <2>1 DEF Locations
<1>4. ASSUME NEW i \in 0 .. NROOTS - 1, i < r.order, r.roots[i] # 0
      PROVE  list[i] = LocationOf(r.roots[i])
  <2>1. ~(i >= r.order)
    BY <1>4, FieldSize DEF Decoder
  <2> QED  BY <1>4, <2>1
<1> HIDE DEF list, q
<1>5. q \in Decoder /\ q.order = r.order /\ q.received = r.received /\ q.locations = list
      /\ q.locator = r.locator /\ q.syndromes = r.syndromes /\ q.roots = r.roots
  BY <1>2, <1>3 DEF Decoder
<1> QED  BY <1>4, <1>5 DEF q

\* The derivative has a coefficient: the order is not 0.
LEMMA ValuesType ==
    ASSUME NEW r \in Decoder, r.order \in 1 .. NROOTS
    PROVE  LET q == Values(r)
               evaluator == Product(r.locator, r.order, r.syndromes, NROOTS - 1, NROOTS - 1)
               derivative == Derivative(r.locator, r.order)
           IN  /\ q \in Decoder /\ q.order = r.order /\ q.received = r.received
               /\ q.locations = r.locations /\ q.syndromes = r.syndromes
               /\ \A i \in 0 .. NROOTS - 1 : i < r.order /\ r.roots[i] # 0 =>
                     q.vals[i] = Mul(Pow(r.roots[i], FIRST_ROOT - 1),
                                     Div(EvalTable(evaluator, NROOTS - 1, ElementPowers[r.roots[i]]),
                                         EvalTable(derivative, r.order - 1, ElementPowers[r.roots[i]])))
<1> DEFINE n == r.order
           evaluator == Product(r.locator, n, r.syndromes, NROOTS - 1, NROOTS - 1)
           derivative == Derivative(r.locator, n)
           value(root) == Mul(Pow(root, FIRST_ROOT - 1),
                              Div(EvalTable(evaluator, NROOTS - 1, ElementPowers[root]),
                                  EvalTable(derivative, n - 1, ElementPowers[root])))
           list == [i \in 0 .. NROOTS - 1 |-> IF i >= n \/ r.roots[i] = 0 THEN r.vals[i]
                                              ELSE value(r.roots[i])]
           q == Values(r)
<1>1. /\ r.locator \in Row(NROOTS) /\ r.syndromes \in Row(NROOTS - 1) /\ r.vals \in Row(NROOTS - 1)
      /\ r.roots \in Row(2 * NROOTS - 1)
  BY DEF Decoder
<1>2. n \in 1 .. NROOTS /\ NROOTS - 1 \in Nat /\ n - 1 \in Nat /\ n - 1 <= NROOTS - 1
      /\ NROOTS \in Nat
  BY FieldSize
<1> HIDE DEF n
<1>3. evaluator \in Row(NROOTS - 1)
  <2> DEFINE l == r.locator
             s == r.syndromes
  <2>1. n \in Nat /\ NROOTS - 1 \in Nat /\ s \in Row(NROOTS - 1)
    BY <1>1, <1>2
  <2>2. \A i \in 0 .. n : l[i] \in Elements
    BY <1>1, <1>2 DEF Row
  <2> HIDE DEF l, s, n
  <2>3. Product(l, n, s, NROOTS - 1, NROOTS - 1) \in Row(NROOTS - 1)
    BY <2>1, <2>2, ProductType
  <2> QED  BY <2>3 DEF l, s
<1> HIDE DEF evaluator
<1>4. derivative \in Row(n - 1)
  <2>1. ASSUME NEW i \in 0 .. n - 1
        PROVE  Times(r.locator[i + 1], i + 1) \in Elements
    <3>1. i + 1 \in 0 .. NROOTS /\ i + 1 \in Nat
      BY <1>2
    <3>2. r.locator[i + 1] \in Elements
      BY <1>1, <3>1 DEF Row
    <3> QED  BY <3>1, <3>2, TimesType
  <2> QED  BY <2>1 DEF Derivative, Row
<1> HIDE DEF derivative
<1>5. ASSUME NEW root \in Elements
      PROVE  value(root) \in Elements
  <2>1. ElementPowers[root] \in Row(NROOTS - 1)
    BY TablesType
  <2>2. EvalTable(evaluator, NROOTS - 1, ElementPowers[root]) \in Elements
    <3>1. \A i \in 0 .. NROOTS - 1 : ElementPowers[root][i] \in Elements
      BY <2>1 DEF Row
    <3> QED  BY <1>2, <1>3, <3>1, EvalTableType
  <2>3. \A i \in 0 .. n - 1 : ElementPowers[root][i] \in Elements
    <3>1. \A i \in 0 .. n - 1 : i \in 0 .. NROOTS - 1
      BY <1>2
    <3> QED  BY <2>1, <3>1 DEF Row
  <2>4. EvalTable(derivative, n - 1, ElementPowers[root]) \in Elements
    BY <1>2, <1>4, <2>3, EvalTableType
  <2>5. Pow(root, FIRST_ROOT - 1) \in Elements
    <3>1. FIRST_ROOT - 1 \in Nat
      BY FieldSize, RSAssumption
    <3> QED  BY <3>1, PowType
  <2> QED  BY <2>2, <2>4, <2>5, FieldOps
<1>6. list \in Row(NROOTS - 1)
  <2>1. ASSUME NEW i \in 0 .. NROOTS - 1
        PROVE  (IF i >= n \/ r.roots[i] = 0 THEN r.vals[i] ELSE value(r.roots[i])) \in Elements
    <3>1. i \in 0 .. 2 * NROOTS - 1
      BY <1>2
    <3>2. r.roots[i] \in Elements /\ r.vals[i] \in Elements
      BY <1>1, <3>1 DEF Row
    <3> HIDE DEF value
    <3> QED  BY <1>5, <3>2
  <2> HIDE DEF value
  <2> QED  BY <2>1 DEF Row
<1>7. q = [r EXCEPT !.vals = list]
  <2>1. DOMAIN r.vals = 0 .. NROOTS - 1
    BY <1>1 DEF Row
  <2> QED  BY <2>1 DEF Values, evaluator, derivative, n
<1>8. ASSUME NEW i \in 0 .. NROOTS - 1, i < n, r.roots[i] # 0
      PROVE  list[i] = value(r.roots[i])
  <2>1. ~(i >= n)
    BY <1>2, <1>8
  <2> HIDE DEF value
  <2> QED  BY <1>8, <2>1
<1> HIDE DEF list, q
<1>9. q \in Decoder /\ q.order = r.order /\ q.received = r.received /\ q.locations = r.locations
      /\ q.syndromes = r.syndromes /\ q.vals = list
  BY <1>6, <1>7 DEF Decoder
<1> QED  BY <1>8, <1>9 DEF q, n, evaluator, derivative

LEMMA RepairType ==
    ASSUME NEW r \in Decoder, r.order \in 1 .. NROOTS
    PROVE  /\ Repair(r) \in Decoder
           /\ \E g : /\ g[0] = r.received /\ Repair(r).received = g[r.order]
                   /\ \A k \in 1 .. r.order :
                         /\ g[k - 1] \in Row(BLOCK - 1)
                         /\ g[k] = [g[k - 1] EXCEPT ![r.locations[k - 1]] = Add(@, r.vals[k - 1])]
<1> DEFINE n == r.order
           E == Row(BLOCK - 1)
           at(k) == r.locations[k - 1]
           val(k) == r.vals[k - 1]
           mend(k, w) == [w EXCEPT ![at(k)] = Add(@, val(k))]
           step == [k \in 1 .. n |-> [w \in E |-> mend(k, w)]]
           q == Repair(r)
<1>1. n \in Nat /\ n <= NROOTS /\ r.received \in E
  BY FieldSize DEF Decoder
<1>2. ASSUME NEW k \in 1 .. n
      PROVE  at(k) \in 0 .. BLOCK - 1 /\ val(k) \in Elements
  <2>1. k - 1 \in 0 .. NROOTS - 1
    BY <1>1, FieldSize
  <2>2. r.locations \in [0 .. NROOTS - 1 -> 0 .. BLOCK - 1] /\ r.vals \in [0 .. NROOTS - 1 -> Elements]
    BY DEF Decoder, Row
  <2> QED  BY <2>1, <2>2
<1>3. ASSUME NEW k \in 1 .. n, NEW w \in E
      PROVE  mend(k, w) \in E
  <2> HIDE DEF at, val
  <2>1. w \in [0 .. BLOCK - 1 -> Elements] /\ w[at(k)] \in Elements
    BY <1>2 DEF Row
  <2>2. Add(w[at(k)], val(k)) \in Elements
    BY <1>2, <2>1, AddBits
  <2> QED  BY <1>2, <2>1, <2>2 DEF Row
<1> HIDE DEF mend
<1>4. step \in [1 .. n -> [E -> E]]
  <2> HIDE DEF n, E
  <2> QED  BY <1>3
<1>5. \A k \in 1 .. n : \A w \in E : step[k][w] = mend(k, w)
  <2> HIDE DEF n, E
  <2> QED  OBVIOUS
<1> HIDE DEF step, E, n
<1>6. PICK g \in [0 .. n -> E] : Unrolls(g, n, r.received, step)
  BY <1>1, <1>4, Recursion
<1>7. g = [k \in 0 .. n |-> IF k = 0 THEN r.received ELSE mend(k, g[k - 1])]
  <2>1. ASSUME NEW k \in 0 .. n
        PROVE  g[k] = IF k = 0 THEN r.received ELSE mend(k, g[k - 1])
    <3>1. k # 0 => k \in 1 .. n /\ k - 1 \in 0 .. n
      BY <1>1
    <3> QED  BY <1>5, <1>6, <3>1 DEF Unrolls
  <2> QED  BY <1>6, <2>1
<1> DEFINE fixed == CHOOSE h : h = [k \in 0 .. n |-> IF k = 0 THEN r.received ELSE mend(k, h[k - 1])]
<1>8. fixed = [k \in 0 .. n |-> IF k = 0 THEN r.received ELSE mend(k, fixed[k - 1])]
  BY <1>7, Zenon
<1>9. q = [r EXCEPT !.received = fixed[n]]
  BY DEF Repair, n, mend, at, val
<1> HIDE DEF fixed
<1>10. IsTable(fixed, n)
  BY <1>8 DEF IsTable
<1>11. \A k \in 0 .. n : fixed[k] = IF k = 0 THEN r.received ELSE mend(k, fixed[k - 1])
  BY <1>8
<1>12. fixed[0] = r.received
  BY <1>1, <1>11
<1>13. \A k \in 1 .. n : fixed[k - 1] \in E => fixed[k] = step[k][fixed[k - 1]]
  BY <1>1, <1>5, <1>11
<1>14. fixed \in [0 .. n -> E] /\ Unrolls(fixed, n, r.received, step)
  BY <1>1, <1>4, <1>10, <1>12, <1>13, Unrolled
<1>15. fixed[n] \in E
  BY <1>1, <1>14
<1>16. \A k \in 1 .. n : fixed[k - 1] \in E /\ fixed[k] = mend(k, fixed[k - 1])
  <2> TAKE k \in 1 .. n
  <2>1. k \in 0 .. n /\ k - 1 \in 0 .. n /\ k # 0
    BY <1>1
  <2> QED  BY <1>11, <1>14, <2>1
<1> HIDE DEF q
<1>17. q \in Decoder /\ q.received = fixed[n]
  BY <1>9, <1>15 DEF Decoder, E
<1>18. q \in Decoder /\ \E h : /\ h[0] = r.received /\ q.received = h[n]
                                /\ \A k \in 1 .. n : h[k - 1] \in E /\ h[k] = mend(k, h[k - 1])
  BY <1>12, <1>16, <1>17
<1> QED  BY <1>18 DEF q, n, E, mend, at, val

LEMMA MessageType ==
    ASSUME NEW r \in Decoder
    PROVE  MessageOf(r) \in [1 .. MESSAGE -> Elements]
<1>1. ASSUME NEW i \in 1 .. MESSAGE
      PROVE  r.received[BLOCK - i] \in Elements
  <2>1. BLOCK - i \in 0 .. BLOCK - 1
    BY FieldSize
  <2> QED  BY <2>1 DEF Decoder, Row
<1> QED  BY <1>1 DEF MessageOf

----------------------------------------------------------------------------
(* The laws of the field. *)

\* Sums can be put together in any order.
LEMMA AddFour ==
    ASSUME NEW a \in Elements, NEW b \in Elements, NEW c \in Elements, NEW d \in Elements
    PROVE  /\ Add(Add(a, b), Add(c, d)) = Add(Add(a, c), Add(b, d))
           /\ Add(Add(a, b), c) = Add(Add(a, c), b)
           /\ Add(a, a) = 0 /\ Add(0, a) = a
           /\ Add(Add(a, b), Add(c, b)) = Add(a, c)
<1>1. \A x, y \in Elements : Add(x, y) \in Elements /\ Add(x, y) = Add(y, x)
                             /\ Add(Add(x, y), y) = x /\ Add(x, 0) = x
  BY AddGroup
<1>2. \A x, y, z \in Elements : Add(Add(x, y), z) = Add(x, Add(y, z))
  BY AddGroup
<1>3. 0 \in Elements
  BY AddGroup
<1>4. Add(Add(a, b), c) = Add(Add(a, c), b)
  <2>1. Add(Add(a, b), c) = Add(a, Add(b, c))
    BY <1>2
  <2>2. Add(Add(a, c), b) = Add(a, Add(c, b))
    BY <1>2
  <2>3. Add(b, c) = Add(c, b)
    BY <1>1
  <2> QED  BY <2>1, <2>2, <2>3
<1>5. Add(Add(a, b), Add(c, d)) = Add(Add(a, c), Add(b, d))
  <2>1. Add(Add(a, b), Add(c, d)) = Add(Add(Add(a, b), c), d)
    BY <1>1, <1>2
  <2>2. Add(Add(a, c), Add(b, d)) = Add(Add(Add(a, c), b), d)
    BY <1>1, <1>2
  <2> QED  BY <1>4, <2>1, <2>2
<1>6. Add(0, a) = a
  BY <1>1, <1>3
<1>7. Add(a, a) = 0
  <2>1. Add(Add(0, a), a) = 0
    BY <1>1, <1>3
  <2> QED  BY <1>6, <2>1
<1>8. Add(Add(a, b), Add(c, b)) = Add(a, c)
  <2>1. Add(Add(a, b), Add(c, b)) = Add(Add(Add(a, b), c), b)
    BY <1>1, <1>2
  <2>2. Add(Add(Add(a, c), b), b) = Add(a, c)
    BY <1>1
  <2> QED  BY <1>4, <2>1, <2>2
<1> QED  BY <1>4, <1>5, <1>6, <1>7, <1>8

\* A power of 2 above them leaves the bits of a number alone.
LEMMA BitsBelow ==
    ASSUME NEW n \in 0 .. BITS, NEW x \in Nat, NEW k \in 0 .. n - 1
    PROVE  Bit(x + Pow2[n], k) = Bit(x, k)
<1> DEFINE S == {i \in 0 .. BITS : \A a \in Nat, j \in 0 .. i - 1 : Bit(a + Pow2[i], j) = Bit(a, j)}
<1>1. 0 \in S
  <2>1. 0 \in 0 .. BITS /\ 0 .. 0 - 1 = {}
    BY Pow2Fact
  <2> QED  BY <2>1
<1>2. ASSUME NEW i \in 0 .. BITS - 1, i \in S
      PROVE  i + 1 \in S
  <2> DEFINE p == Pow2[i]
  <2>1. BITS \in Nat
    BY RSAssumption
  <2>2. i \in 0 .. BITS /\ i + 1 \in 0 .. BITS
    BY <2>1
  <2>3. p \in Nat /\ Pow2[i + 1] = 2 * p
    BY <2>2, Pow2Fact
  <2>4. \A a \in Nat, j \in 0 .. i - 1 : Bit(a + p, j) = Bit(a, j)
    BY <1>2
  <2> HIDE DEF p
  <2>5. ASSUME NEW a \in Nat, NEW j \in 0 .. (i + 1) - 1
        PROVE  Bit(a + 2 * p, j) = Bit(a, j)
    <3> DEFINE h == a \div 2
               u == a + 2 * p
    <3>1. h \in Nat /\ u \in Nat /\ u \div 2 = h + p /\ u % 2 = a % 2
      BY <2>3
    <3> HIDE DEF h, u
    <3>2. CASE j = 0
      <4>1. Bit(u, 0) = u % 2 /\ Bit(a, 0) = a % 2
        BY <3>1, BitHalf
      <4> QED  BY <3>1, <3>2, <4>1 DEF u
    <3>3. CASE j # 0
      <4> DEFINE l == j - 1
      <4>1. l \in 0 .. i - 1 /\ l \in 0 .. BITS - 1 /\ l + 1 = j
        BY <2>1, <3>3
      <4> HIDE DEF l
      <4>2. Bit(u, l + 1) = Bit(h + p, l)
        BY <3>1, <4>1, BitHalf
      <4>3. Bit(a, l + 1) = Bit(h, l)
        BY <4>1, BitHalf DEF h
      <4>4. Bit(h + p, l) = Bit(h, l)
        BY <2>4, <3>1, <4>1
      <4> QED  BY <4>1, <4>2, <4>3, <4>4 DEF u
    <3> QED  BY <3>2, <3>3
  <2> QED  BY <2>2, <2>3, <2>5
<1>3. n \in S
  <2> HIDE DEF S
  <2> QED  BY <1>1, <1>2, Pow2Fact, UpTo
<1> QED  BY <1>3

\* Twice an element without the bit that goes over the edge.
Low(x) == IF 2 * x > FIELD - 1 THEN 2 * x - FIELD ELSE 2 * x

\* Double shifts the bits of an element up, and the highest one out.
LEMMA LowBits ==
    ASSUME NEW x \in Elements
    PROVE  /\ Low(x) \in Elements /\ Bit(Low(x), 0) = 0
           /\ \A k \in 0 .. BITS - 2 : Bit(Low(x), k + 1) = Bit(x, k)
           /\ (2 * x > FIELD - 1) <=> Bit(x, BITS - 1) = 1
<1> DEFINE h == Pow2[BITS - 1]
           y == Low(x)
<1>0. BITS \in Nat /\ BITS >= 2
  BY RSAssumption
<1>1. h \in Nat \ {0} /\ FIELD = 2 * h /\ FIELD \in Nat
  <2>1. BITS - 1 \in 0 .. BITS - 1 /\ BITS - 1 \in 0 .. BITS /\ (BITS - 1) + 1 = BITS
    BY <1>0
  <2>2. Pow2[(BITS - 1) + 1] = 2 * Pow2[BITS - 1] /\ Pow2[BITS - 1] \in Nat \ {0}
    BY <2>1, Pow2Fact
  <2>3. FIELD = Pow2[BITS] /\ FIELD \in Nat
    BY FieldSize
  <2> QED  BY <2>1, <2>2, <2>3
<1>2. x \in Nat /\ x < FIELD
  BY <1>1 DEF Elements
<1> HIDE DEF h
<1>3. y \in Elements /\ y \in Nat /\ y % 2 = 0 /\ y = (IF 2 * x > FIELD - 1 THEN 2 * x - FIELD ELSE 2 * x)
  BY <1>1, <1>2 DEF Low, Elements
<1>4. y \div 2 = IF 2 * x > FIELD - 1 THEN x - h ELSE x
  BY <1>1, <1>2, <1>3
<1> HIDE DEF y
<1>5. Bit(y, 0) = 0
  BY <1>3, BitHalf
<1>6. ASSUME NEW k \in 0 .. BITS - 2
      PROVE  Bit(y, k + 1) = Bit(x, k)
  <2>1. k \in 0 .. BITS - 1 /\ BITS - 1 \in 0 .. BITS /\ k \in 0 .. (BITS - 1) - 1
    BY <1>0
  <2>2. Bit(y, k + 1) = Bit(y \div 2, k)
    BY <1>3, <2>1, BitHalf
  <2>3. CASE 2 * x > FIELD - 1
    <3> DEFINE z == x - h
    <3>1. z \in Nat /\ z + h = x /\ y \div 2 = z
      BY <1>1, <1>2, <1>4, <2>3
    <3> HIDE DEF z
    <3>2. Bit(z + h, k) = Bit(z, k)
      BY <2>1, <3>1, BitsBelow DEF h
    <3> QED  BY <2>2, <3>1, <3>2
  <2>4. CASE ~(2 * x > FIELD - 1)
    BY <1>4, <2>2, <2>4
  <2> QED  BY <2>3, <2>4
<1>7. (2 * x > FIELD - 1) <=> Bit(x, BITS - 1) = 1
  <2>1. Bit(x, BITS - 1) = (x \div h) % 2
    BY DEF Bit, h
  <2>2. CASE 2 * x > FIELD - 1
    <3> DEFINE z == x - h
    <3>1. z \in 0 .. h - 1 /\ x = h * 1 + z
      BY <1>1, <1>2, <2>2
    <3> HIDE DEF z
    <3>2. x \div h = 1
      BY <1>1, <1>2, <3>1, Quotient
    <3> QED  BY <2>1, <2>2, <3>2
  <2>3. CASE ~(2 * x > FIELD - 1)
    <3>1. x \in 0 .. h - 1 /\ x = h * 0 + x
      BY <1>1, <1>2, <2>3
    <3>2. x \div h = 0
      BY <1>1, <1>2, <3>1, Quotient
    <3> QED  BY <2>1, <2>3, <3>2
  <2> QED  BY <2>2, <2>3
<1> QED  BY <1>3, <1>5, <1>6, <1>7 DEF y

\* Doubling is linear.
LEMMA DoubleLinear ==
    ASSUME NEW x \in Elements, NEW y \in Elements
    PROVE  Double(x) \in Elements /\ Double(Add(x, y)) = Add(Double(x), Double(y))
<1> DEFINE s == Add(x, y)
           P == PRIMITIVE - FIELD
           Top(v) == Bit(v, BITS - 1)
           a == Low(x)
           b == Low(y)
<1>0. BITS \in Nat /\ BITS >= 2
  BY RSAssumption
<1>1. s \in Elements /\ P \in Elements /\ 0 \in Elements
  BY AddGroup, FieldSize
<1>2. ASSUME NEW v \in Elements
      PROVE  /\ Low(v) \in Elements /\ Top(v) \in {0, 1}
             /\ Double(v) = IF Top(v) = 1 THEN Add(Low(v), P) ELSE Low(v)
  <2>1. Low(v) \in Elements /\ ((2 * v > FIELD - 1) <=> Top(v) = 1)
    BY LowBits
  <2>2. Top(v) \in {0, 1}
    <3>1. BITS - 1 \in 0 .. BITS - 1
      BY <1>0
    <3> QED  BY <3>1, ElementBits
  <2> QED  BY <2>1, <2>2 DEF Double, Low
<1>3. \A k \in 0 .. BITS - 1 : Bit(s, k) = (Bit(x, k) + Bit(y, k)) % 2
  BY AddBits DEF HasBits
<1>4. Low(s) = Add(a, b)
  <2> DEFINE c == Low(s)
  <2>1. a \in Elements /\ b \in Elements /\ c \in Elements
    BY <1>1, LowBits
  <2>2. ASSUME NEW k \in 0 .. BITS - 1
        PROVE  Bit(c, k) = (Bit(a, k) + Bit(b, k)) % 2
    <3>1. CASE k = 0
      <4>1. Bit(a, 0) = 0 /\ Bit(b, 0) = 0 /\ Bit(c, 0) = 0
        BY <1>1, LowBits
      <4> QED  BY <3>1, <4>1
    <3>2. CASE k # 0
      <4> DEFINE j == k - 1
      <4>1. j \in 0 .. BITS - 2 /\ j \in 0 .. BITS - 1 /\ j + 1 = k
        BY <1>0, <3>2
      <4> HIDE DEF j
      <4>2. Bit(a, j + 1) = Bit(x, j) /\ Bit(b, j + 1) = Bit(y, j) /\ Bit(c, j + 1) = Bit(s, j)
        BY <1>1, <4>1, LowBits
      <4>3. Bit(s, j) = (Bit(x, j) + Bit(y, j)) % 2
        BY <1>3, <4>1
      <4> QED  BY <4>1, <4>2, <4>3
    <3> QED  BY <3>1, <3>2
  <2> HIDE DEF a, b, c
  <2>3. HasBits(c, a, b)
    BY <2>2 DEF HasBits
  <2> QED  BY <2>1, <2>3, AddBits DEF c
<1>5. Top(s) = (Top(x) + Top(y)) % 2
  <2>1. BITS - 1 \in 0 .. BITS - 1
    BY <1>0
  <2> QED  BY <1>3, <2>1
<1>6. /\ a \in Elements /\ Top(x) \in {0, 1}
      /\ Double(x) = IF Top(x) = 1 THEN Add(a, P) ELSE a
  BY <1>2
<1>7. /\ b \in Elements /\ Top(y) \in {0, 1}
      /\ Double(y) = IF Top(y) = 1 THEN Add(b, P) ELSE b
  BY <1>2
<1>8. Double(s) = IF Top(s) = 1 THEN Add(Add(a, b), P) ELSE Add(a, b)
  BY <1>1, <1>2, <1>4
<1> HIDE DEF P, Top, a, b, s
<1>9. Add(Add(a, b), P) = Add(Add(a, P), b)
  BY <1>1, <1>6, <1>7, AddFour
<1>10. Add(Add(a, b), P) = Add(a, Add(b, P))
  BY <1>1, <1>6, <1>7, AddGroup
<1>11. Add(Add(a, P), Add(b, P)) = Add(a, b)
  BY <1>1, <1>6, <1>7, AddFour
<1>12. Double(x) \in Elements
  BY <1>1, <1>6, AddGroup
<1>13. Double(s) = Add(Double(x), Double(y))
  <2>1. CASE Top(x) = 1 /\ Top(y) = 1
    <3>1. Top(s) = 0
      BY <1>5, <2>1
    <3> QED  BY <1>6, <1>7, <1>8, <1>11, <2>1, <3>1
  <2>2. CASE Top(x) = 1 /\ Top(y) = 0
    <3>1. Top(s) = 1
      BY <1>5, <2>2
    <3> QED  BY <1>6, <1>7, <1>8, <1>9, <2>2, <3>1
  <2>3. CASE Top(x) = 0 /\ Top(y) = 1
    <3>1. Top(s) = 1
      BY <1>5, <2>3
    <3> QED  BY <1>6, <1>7, <1>8, <1>10, <2>3, <3>1
  <2>4. CASE Top(x) = 0 /\ Top(y) = 0
    <3>1. Top(s) = 0
      BY <1>5, <2>4
    <3> QED  BY <1>6, <1>7, <1>8, <2>4, <3>1
  <2> QED  BY <1>6, <1>7, <2>1, <2>2, <2>3, <2>4
<1> QED  BY <1>12, <1>13 DEF s

\* Two powers that are the same go on in the same way.
LEMMA ExpShift ==
    ASSUME NEW i \in Nat, NEW j \in Nat, NEW t \in Nat, Exp[i] = Exp[j],
           i + t <= 2 * FIELD - 1, j + t <= 2 * FIELD - 1
    PROVE  Exp[i + t] = Exp[j + t]
<1> DEFINE S == {n \in 0 .. t : Exp[i + n] = Exp[j + n]}
<1>1. 0 \in S
  BY SMT
<1>2. ASSUME NEW n \in 0 .. t - 1, n \in S
      PROVE  n + 1 \in S
  <2> DEFINE a == i + n
             b == j + n
  <2>1. Exp[a] = Exp[b]
    BY <1>2
  <2>2. a + 1 \in 1 .. 2 * FIELD - 1 /\ (a + 1) - 1 = a /\ b + 1 \in 1 .. 2 * FIELD - 1 /\ (b + 1) - 1 = b
    BY FieldSize
  <2>3. i + (n + 1) = a + 1 /\ j + (n + 1) = b + 1 /\ n + 1 \in 0 .. t
    OBVIOUS
  <2> HIDE DEF a, b
  <2>4. Exp[a + 1] = Double(Exp[a]) /\ Exp[b + 1] = Double(Exp[b])
    BY <2>2, ExpType
  <2> QED  BY <2>1, <2>3, <2>4
<1>3. t \in S
  <2>1. t \in 0 .. t
    OBVIOUS
  <2> HIDE DEF S
  <2> QED  BY <1>1, <1>2, <2>1, UpTo
<1> QED  BY <1>3

\* A product with a power of alpha.
LEMMA MulPower ==
    ASSUME NEW x \in Elements, NEW n \in 0 .. FIELD - 1
    PROVE  Mul(x, Exp[n]) = IF x = 0 THEN 0 ELSE Exp[Log[x] + n]
<1> DEFINE y == Exp[n]
           l == Log[y]
           k == Log[x]
<1>1. FIELD \in Nat /\ FIELD >= 4 /\ n \in Nat /\ n <= FIELD - 1 /\ n \in 0 .. 2 * FIELD - 1
  BY FieldSize
<1>2. y \in Elements \ {0}
  BY <1>1, ExpType, ExpPeriod
<1>3. l \in 1 .. FIELD - 1 /\ Exp[l] = Exp[n]
  BY <1>2, LogType
<1>4. CASE x = 0
  BY <1>4 DEF Mul
<1>5. CASE x # 0
  <2>1. k \in 1 .. FIELD - 1
    BY <1>5, LogType
  <2>2. Mul(x, y) = Exp[k + l]
    BY <1>2, <1>5 DEF Mul
  <2> HIDE DEF k, l, y
  <2>3. k \in Nat /\ l \in Nat /\ l + k <= 2 * FIELD - 1 /\ n + k <= 2 * FIELD - 1
        /\ k + l = l + k /\ k + n = n + k
    BY <1>1, <1>3, <2>1
  <2>4. Exp[l + k] = Exp[n + k]
    BY <1>1, <1>3, <2>3, ExpShift
  <2> QED  BY <1>5, <2>2, <2>3, <2>4 DEF k, y
<1> QED  BY <1>4, <1>5

\* Every element but 0 is a power; a product with the next one is doubled.
LEMMA MulNext ==
    ASSUME NEW x \in Elements
    PROVE  /\ Mul(x, Exp[1]) = Double(x) /\ Mul(x, Exp[FIELD - 1]) = x /\ Exp[FIELD - 1] = 1
           /\ \A n \in 1 .. FIELD - 2 : Mul(x, Exp[n + 1]) = Double(Mul(x, Exp[n]))
<1>1. FIELD \in Nat /\ FIELD >= 4
  BY FieldSize
<1>2. Double(0) = 0
  BY <1>1 DEF Double
<1>3. Exp[FIELD - 1] = 1
  <2>1. Log[1] = FIELD - 1 /\ 1 \in Elements \ {0}
    BY <1>1, LogType DEF Elements
  <2> QED  BY <2>1, LogType
<1> DEFINE k == Log[x]
<1>4. x # 0 => k \in 1 .. FIELD - 1 /\ Exp[k] = x
  BY LogType
<1>5. \A n \in 0 .. FIELD - 1 : Mul(x, Exp[n]) = IF x = 0 THEN 0 ELSE Exp[k + n]
  BY MulPower
<1> HIDE DEF k
<1>6. Mul(x, Exp[1]) = Double(x)
  <2>1. 1 \in 0 .. FIELD - 1
    BY <1>1
  <2>2. x # 0 => k + 1 \in 1 .. 2 * FIELD - 1 /\ (k + 1) - 1 = k
    BY <1>1, <1>4
  <2>3. x # 0 => Exp[k + 1] = Double(Exp[k])
    BY <2>2, ExpType
  <2> QED  BY <1>2, <1>4, <1>5, <2>1, <2>3
<1>7. Mul(x, Exp[FIELD - 1]) = x
  <2>1. FIELD - 1 \in 0 .. FIELD - 1
    BY <1>1
  <2>2. x # 0 => k \in 0 .. FIELD /\ FIELD - 1 + k = k + (FIELD - 1)
    BY <1>1, <1>4
  <2>3. x # 0 => Exp[k + (FIELD - 1)] = Exp[k]
    BY <2>2, ExpPeriod
  <2> QED  BY <1>4, <1>5, <2>1, <2>3
<1>8. ASSUME NEW n \in 1 .. FIELD - 2
      PROVE  Mul(x, Exp[n + 1]) = Double(Mul(x, Exp[n]))
  <2>1. n \in 0 .. FIELD - 1 /\ n + 1 \in 0 .. FIELD - 1
    BY <1>1
  <2>2. x # 0 => k + (n + 1) \in 1 .. 2 * FIELD - 1 /\ (k + (n + 1)) - 1 = k + n
    BY <1>1, <1>4
  <2>3. x # 0 => Exp[k + (n + 1)] = Double(Exp[k + n])
    BY <2>2, ExpType
  <2> QED  BY <1>2, <1>5, <2>1, <2>3
<1> QED  BY <1>3, <1>6, <1>7, <1>8

\* What holds of products with 0 and with alpha, and goes on from each power to the next,
\* holds of all products.
LEMMA EveryPower ==
    ASSUME NEW S, 0 \in S, Exp[1] \in S,
           \A n \in 1 .. FIELD - 2 : Exp[n] \in S => Exp[n + 1] \in S
    PROVE  Elements \subseteq S
<1> DEFINE T == {i \in 0 .. FIELD - 2 : Exp[i + 1] \in S}
<1>1. FIELD \in Nat /\ FIELD >= 4
  BY FieldSize
<1>2. \A i \in 0 .. FIELD - 2 : i \in T
  <2>1. 0 \in T
    BY <1>1
  <2>2. ASSUME NEW i \in 0 .. (FIELD - 2) - 1, i \in T
        PROVE  i + 1 \in T
    <3>1. i + 1 \in 1 .. FIELD - 2 /\ i + 1 \in 0 .. FIELD - 2
      BY <1>1
    <3> QED  BY <2>2, <3>1
  <2>3. FIELD - 2 \in Nat
    BY <1>1
  <2> HIDE DEF T
  <2> QED  BY <2>1, <2>2, <2>3, UpTo
<1>3. ASSUME NEW x \in Elements
      PROVE  x \in S
  <2>1. CASE x = 0
    BY <2>1
  <2>2. CASE x # 0
    <3> DEFINE l == Log[x]
               i == l - 1
    <3>1. l \in 1 .. FIELD - 1 /\ Exp[l] = x
      BY <2>2, LogType
    <3> HIDE DEF l
    <3>2. i \in 0 .. FIELD - 2 /\ i + 1 = l
      BY <1>1, <3>1
    <3> HIDE DEF i
    <3> QED  BY <1>2, <3>1, <3>2
  <2> QED  BY <2>1, <2>2
<1> QED  BY <1>3

\* Multiplication, by the tables of powers and logarithms, and addition, bit by bit, obey
\* the laws of a field (field.h:26-62, 69-110); DivLaws has the inverse.
THEOREM FieldLaws ==
    ASSUME NEW x \in Elements, NEW y \in Elements, NEW z \in Elements
    PROVE  /\ Mul(x, y) \in Elements /\ Mul(x, y) = Mul(y, x)
           /\ Mul(x, 0) = 0 /\ Mul(0, x) = 0 /\ 1 \in Elements /\ Mul(x, 1) = x
           /\ Mul(Add(x, y), z) = Add(Mul(x, z), Mul(y, z))
           /\ Mul(Mul(x, y), z) = Mul(x, Mul(y, z))
<1>1. FIELD \in Nat /\ FIELD >= 4 /\ 0 \in Elements /\ 1 \in Elements
  BY FieldSize DEF Elements
<1>2. ASSUME NEW a \in Elements, NEW b \in Elements
      PROVE  Mul(a, b) \in Elements /\ Mul(a, b) = Mul(b, a) /\ Mul(a, 0) = 0 /\ Mul(0, a) = 0
  <2>1. Mul(a, b) \in Elements
    BY FieldOps
  <2>2. Mul(a, b) = Mul(b, a)
    <3> DEFINE k == Log[a]
               l == Log[b]
    <3>1. k \in Nat /\ l \in Nat
      BY <1>1, LogType DEF Elements
    <3>2. /\ Mul(a, b) = IF a = 0 \/ b = 0 THEN 0 ELSE Exp[k + l]
          /\ Mul(b, a) = IF b = 0 \/ a = 0 THEN 0 ELSE Exp[l + k]
      BY DEF Mul
    <3> HIDE DEF k, l
    <3>3. k + l = l + k
      BY <3>1
    <3> QED  BY <3>2, <3>3
  <2> QED  BY <2>1, <2>2 DEF Mul
<1>3. Mul(x, 1) = x
  BY MulNext
<1>4. \A n \in 1 .. FIELD - 2 : Exp[n] \in Elements /\ Exp[n + 1] \in Elements
  <2>1. \A n \in 1 .. FIELD - 2 : n \in 0 .. 2 * FIELD - 1 /\ n + 1 \in 0 .. 2 * FIELD - 1
    BY <1>1
  <2> QED  BY <2>1, ExpType
<1>5. Exp[1] \in Elements
  BY <1>1, ExpType
<1>6. ASSUME NEW a \in Elements, NEW b \in Elements, NEW c \in Elements
      PROVE  Mul(Add(a, b), c) = Add(Mul(a, c), Mul(b, c))
  <2> DEFINE s == Add(a, b)
             S == {w \in Elements : Mul(s, w) = Add(Mul(a, w), Mul(b, w))}
  <2>1. s \in Elements
    BY AddGroup
  <2>2. 0 \in S
    <3>1. Mul(s, 0) = 0 /\ Mul(a, 0) = 0 /\ Mul(b, 0) = 0
      BY <1>2, <2>1
    <3>2. Add(0, 0) = 0
      BY <1>1, AddGroup
    <3> QED  BY <1>1, <3>1, <3>2
  <2>3. Exp[1] \in S
    <3>1. Mul(s, Exp[1]) = Double(s) /\ Mul(a, Exp[1]) = Double(a) /\ Mul(b, Exp[1]) = Double(b)
      BY <2>1, MulNext
    <3>2. Double(s) = Add(Double(a), Double(b))
      BY DoubleLinear
    <3> QED  BY <1>5, <3>1, <3>2
  <2>4. ASSUME NEW n \in 1 .. FIELD - 2, Exp[n] \in S
        PROVE  Exp[n + 1] \in S
    <3> DEFINE p == Mul(a, Exp[n])
               q == Mul(b, Exp[n])
    <3>1. /\ Mul(s, Exp[n + 1]) = Double(Mul(s, Exp[n]))
          /\ Mul(a, Exp[n + 1]) = Double(p) /\ Mul(b, Exp[n + 1]) = Double(q)
      BY <2>1, MulNext
    <3>2. p \in Elements /\ q \in Elements /\ Mul(s, Exp[n]) = Add(p, q)
      BY <1>2, <1>4, <2>4
    <3> HIDE DEF p, q
    <3>3. Double(Add(p, q)) = Add(Double(p), Double(q))
      BY <3>2, DoubleLinear
    <3> QED  BY <1>4, <3>1, <3>2, <3>3
  <2>5. c \in S
    <3> HIDE DEF S
    <3> QED  BY <2>2, <2>3, <2>4, EveryPower
  <2> QED  BY <2>5
<1>7. ASSUME NEW a \in Elements, NEW c \in Elements
      PROVE  Mul(Double(a), c) = Double(Mul(a, c)) /\ Mul(c, Double(a)) = Double(Mul(c, a))
  <2> DEFINE d == Double(a)
             S == {w \in Elements : Mul(d, w) = Double(Mul(a, w))}
  <2>1. d \in Elements /\ Double(0) = 0
    BY <1>1, DoubleLinear DEF Double
  <2>2. 0 \in S
    <3>1. Mul(d, 0) = 0 /\ Mul(a, 0) = 0
      BY <1>2, <2>1
    <3> QED  BY <1>1, <2>1, <3>1
  <2>3. Exp[1] \in S
    <3>1. Mul(d, Exp[1]) = Double(d) /\ Mul(a, Exp[1]) = d
      BY <2>1, MulNext
    <3> QED  BY <1>5, <3>1
  <2>4. ASSUME NEW n \in 1 .. FIELD - 2, Exp[n] \in S
        PROVE  Exp[n + 1] \in S
    <3>1. /\ Mul(d, Exp[n + 1]) = Double(Mul(d, Exp[n]))
          /\ Mul(a, Exp[n + 1]) = Double(Mul(a, Exp[n]))
      BY <2>1, MulNext
    <3> QED  BY <1>4, <2>4, <3>1
  <2>5. c \in S
    <3> HIDE DEF S
    <3> QED  BY <2>2, <2>3, <2>4, EveryPower
  <2>6. Mul(d, c) = Double(Mul(a, c))
    BY <2>5
  <2>7. Mul(c, d) = Mul(d, c) /\ Mul(c, a) = Mul(a, c)
    BY <1>2, <2>1
  <2> QED  BY <2>6, <2>7
<1>8. Mul(Mul(x, y), z) = Mul(x, Mul(y, z))
  <2> DEFINE p == Mul(x, y)
             S == {w \in Elements : Mul(p, w) = Mul(x, Mul(y, w))}
  <2>1. p \in Elements
    BY <1>2
  <2>2. 0 \in S
    <3>1. Mul(p, 0) = 0 /\ Mul(y, 0) = 0 /\ Mul(x, 0) = 0
      BY <1>2, <2>1
    <3> QED  BY <1>1, <3>1
  <2>3. Exp[1] \in S
    <3>1. Mul(p, Exp[1]) = Double(p) /\ Mul(y, Exp[1]) = Double(y)
      BY <2>1, MulNext
    <3>2. Mul(x, Double(y)) = Double(p)
      BY <1>7
    <3> QED  BY <1>5, <3>1, <3>2
  <2>4. ASSUME NEW n \in 1 .. FIELD - 2, Exp[n] \in S
        PROVE  Exp[n + 1] \in S
    <3> DEFINE q == Mul(y, Exp[n])
    <3>1. Mul(p, Exp[n + 1]) = Double(Mul(p, Exp[n])) /\ Mul(y, Exp[n + 1]) = Double(q)
      BY <2>1, MulNext
    <3>2. q \in Elements /\ Mul(p, Exp[n]) = Mul(x, q)
      BY <1>2, <1>4, <2>4
    <3> HIDE DEF q
    <3>3. Mul(x, Double(q)) = Double(Mul(x, q))
      BY <1>7, <3>2
    <3> QED  BY <1>4, <3>1, <3>2, <3>3
  <2>5. z \in S
    <3> HIDE DEF S
    <3> QED  BY <2>2, <2>3, <2>4, EveryPower
  <2> QED  BY <2>5
<1> QED  BY <1>1, <1>2, <1>3, <1>6, <1>8

----------------------------------------------------------------------------
(* Sums of elements. *)

\* Summands from 0 to n.
Terms(f, n) == \A i \in 0 .. n : f[i] \in Elements

\* A sum begins with the first summand, and each of the others is added to it.
LEMMA SumSteps ==
    ASSUME NEW n \in Nat, NEW f, Terms(f, n)
    PROVE  /\ XorSum(f, 0) = f[0]
           /\ \A k \in 0 .. n : XorSum(f, k) \in Elements
           /\ \A k \in 0 .. n - 1 : XorSum(f, k + 1) = Add(XorSum(f, k), f[k + 1])
<1> DEFINE sum(m) == CHOOSE h : h = [i \in 0 .. m |-> IF i = 0 THEN f[0] ELSE Add(h[i - 1], f[i])]
<1>1. \A m : XorSum(f, m) = sum(m)[m]
  BY DEF XorSum
<1>2. ASSUME NEW m \in 0 .. n
      PROVE  /\ sum(m)[0] = f[0] /\ \A i \in 0 .. m : sum(m)[i] \in Elements
             /\ \A i \in 1 .. m : sum(m)[i] = Add(sum(m)[i - 1], f[i])
  <2> DEFINE E == Elements
             step == [i \in 1 .. m |-> [x \in E |-> Add(x, f[i])]]
  <2>0. m \in Nat
    OBVIOUS
  <2>1. f[0] \in E /\ \A i \in 1 .. m : f[i] \in E
    BY DEF Terms
  <2>2. \A i \in 1 .. m : \A x \in E : Add(x, f[i]) \in E
    BY <2>1, AddBits
  <2>3. step \in [1 .. m -> [E -> E]]
    <3> HIDE DEF E
    <3> QED  BY <2>2
  <2>4. \A i \in 1 .. m : \A x \in E : step[i][x] = Add(x, f[i])
    <3> HIDE DEF E
    <3> QED  OBVIOUS
  <2> HIDE DEF step, E
  <2>5. PICK g \in [0 .. m -> E] : Unrolls(g, m, f[0], step)
    BY <2>0, <2>1, <2>3, Recursion
  <2>6. g = [i \in 0 .. m |-> IF i = 0 THEN f[0] ELSE Add(g[i - 1], f[i])]
    <3>1. ASSUME NEW i \in 0 .. m
          PROVE  g[i] = IF i = 0 THEN f[0] ELSE Add(g[i - 1], f[i])
      <4>1. i # 0 => i \in 1 .. m /\ i - 1 \in 0 .. m
        OBVIOUS
      <4> QED  BY <2>4, <2>5, <4>1 DEF Unrolls
    <3> QED  BY <2>5, <3>1
  <2> DEFINE s == sum(m)
  <2>7. s = [i \in 0 .. m |-> IF i = 0 THEN f[0] ELSE Add(s[i - 1], f[i])]
    BY <2>6, Zenon
  <2> HIDE DEF s
  <2>8. IsTable(s, m)
    BY <2>7 DEF IsTable
  <2>9. \A i \in 0 .. m : s[i] = IF i = 0 THEN f[0] ELSE Add(s[i - 1], f[i])
    BY <2>7
  <2>10. s[0] = f[0] /\ \A i \in 1 .. m : s[i] = Add(s[i - 1], f[i])
    BY <2>9
  <2>11. \A i \in 1 .. m : s[i - 1] \in E => s[i] = step[i][s[i - 1]]
    BY <2>4, <2>10
  <2>12. s \in [0 .. m -> E] /\ Unrolls(s, m, f[0], step)
    BY <2>0, <2>1, <2>3, <2>8, <2>10, <2>11, Unrolled
  <2> QED  BY <2>10, <2>12 DEF s, E
<1> HIDE DEF sum
<1>3. ASSUME NEW k \in 0 .. n - 1
      PROVE  XorSum(f, k + 1) = Add(XorSum(f, k), f[k + 1])
  <2>1. k \in 0 .. n /\ k + 1 \in 0 .. n /\ k \in Nat /\ k + 1 \in 1 .. k + 1 /\ (k + 1) - 1 = k
    OBVIOUS
  <2> DEFINE a == sum(k)
             b == sum(k + 1)
             S == {i \in 0 .. k : a[i] = b[i]}
  <2>2. a[0] = f[0] /\ \A i \in 1 .. k : a[i] = Add(a[i - 1], f[i])
    BY <1>2, <2>1
  <2>3. b[0] = f[0] /\ \A i \in 1 .. k + 1 : b[i] = Add(b[i - 1], f[i])
    BY <1>2, <2>1
  <2> HIDE DEF a, b
  <2>4. 0 \in S
    BY <2>1, <2>2, <2>3
  <2>5. ASSUME NEW i \in 0 .. k - 1, i \in S
        PROVE  i + 1 \in S
    <3>1. i + 1 \in 1 .. k /\ i + 1 \in 1 .. k + 1 /\ i + 1 \in 0 .. k /\ (i + 1) - 1 = i
      BY <2>1
    <3> QED  BY <2>2, <2>3, <2>5, <3>1
  <2>6. k \in S
    <3>1. k \in 0 .. k
      BY <2>1
    <3> HIDE DEF S
    <3> QED  BY <2>1, <2>4, <2>5, <3>1, UpTo
  <2>7. XorSum(f, k) = a[k] /\ XorSum(f, k + 1) = b[k + 1]
    BY <1>1 DEF a, b
  <2>8. b[k + 1] = Add(b[k], f[k + 1])
    BY <2>1, <2>3
  <2> QED  BY <2>6, <2>7, <2>8
<1>4. \A k \in 0 .. n : XorSum(f, k) \in Elements
  <2> TAKE k \in 0 .. n
  <2>1. k \in 0 .. k
    OBVIOUS
  <2> QED  BY <1>1, <1>2, <2>1
<1>5. XorSum(f, 0) = f[0]
  BY <1>1, <1>2
<1> QED  BY <1>3, <1>4, <1>5

\* The sum of sums.
LEMMA SumAdd ==
    ASSUME NEW n \in Nat, NEW f, NEW g, NEW h, Terms(f, n), Terms(g, n), Terms(h, n),
           \A i \in 0 .. n : h[i] = Add(f[i], g[i])
    PROVE  XorSum(h, n) = Add(XorSum(f, n), XorSum(g, n))
<1>1. /\ XorSum(f, 0) = f[0] /\ XorSum(g, 0) = g[0] /\ XorSum(h, 0) = h[0]
      /\ \A k \in 0 .. n : XorSum(f, k) \in Elements /\ XorSum(g, k) \in Elements /\ XorSum(h, k) \in Elements
      /\ \A k \in 0 .. n - 1 :
            /\ XorSum(f, k + 1) = Add(XorSum(f, k), f[k + 1])
            /\ XorSum(g, k + 1) = Add(XorSum(g, k), g[k + 1])
            /\ XorSum(h, k + 1) = Add(XorSum(h, k), h[k + 1])
  BY SumSteps
<1>2. n \in 0 .. n /\ 0 \in 0 .. n
  OBVIOUS
<1>3. \A k \in 0 .. n - 1 : k \in 0 .. n /\ k + 1 \in 0 .. n
  OBVIOUS
<1>4. \A i \in 0 .. n : h[i] = Add(f[i], g[i])
  OBVIOUS
<1> DEFINE S == {k \in 0 .. n : XorSum(h, k) = Add(XorSum(f, k), XorSum(g, k))}
<1>5. 0 \in S
  BY <1>1, <1>2, <1>4
<1>6. ASSUME NEW k \in 0 .. n - 1, k \in S
      PROVE  k + 1 \in S
  <2> DEFINE a == XorSum(f, k)
             b == XorSum(g, k)
             c == f[k + 1]
             d == g[k + 1]
  <2>1. /\ XorSum(h, k + 1) = Add(Add(a, b), Add(c, d))
        /\ XorSum(f, k + 1) = Add(a, c) /\ XorSum(g, k + 1) = Add(b, d)
    BY <1>1, <1>3, <1>4, <1>6
  <2>2. a \in Elements /\ b \in Elements /\ c \in Elements /\ d \in Elements
    BY <1>1, <1>3 DEF Terms
  <2> HIDE DEF a, b, c, d
  <2>3. Add(Add(a, b), Add(c, d)) = Add(Add(a, c), Add(b, d))
    BY <2>2, AddFour
  <2> QED  BY <1>3, <2>1, <2>3
<1>7. n \in S
  <2> HIDE DEF S
  <2> QED  BY <1>2, <1>5, <1>6, UpTo
<1> QED  BY <1>7

\* The sum of multiples.
LEMMA SumScale ==
    ASSUME NEW n \in Nat, NEW f, NEW h, Terms(f, n), Terms(h, n), NEW x \in Elements,
           \A i \in 0 .. n : h[i] = Mul(x, f[i])
    PROVE  XorSum(h, n) = Mul(x, XorSum(f, n))
<1>1. /\ XorSum(f, 0) = f[0] /\ XorSum(h, 0) = h[0]
      /\ \A k \in 0 .. n : XorSum(f, k) \in Elements /\ XorSum(h, k) \in Elements
      /\ \A k \in 0 .. n - 1 :
            /\ XorSum(f, k + 1) = Add(XorSum(f, k), f[k + 1])
            /\ XorSum(h, k + 1) = Add(XorSum(h, k), h[k + 1])
  BY SumSteps
<1>2. n \in 0 .. n /\ 0 \in 0 .. n
  OBVIOUS
<1>3. \A k \in 0 .. n - 1 : k \in 0 .. n /\ k + 1 \in 0 .. n
  OBVIOUS
<1>4. \A i \in 0 .. n : h[i] = Mul(x, f[i])
  OBVIOUS
<1> DEFINE S == {k \in 0 .. n : XorSum(h, k) = Mul(x, XorSum(f, k))}
<1>5. 0 \in S
  BY <1>1, <1>2, <1>4
<1>6. ASSUME NEW k \in 0 .. n - 1, k \in S
      PROVE  k + 1 \in S
  <2> DEFINE a == XorSum(f, k)
             c == f[k + 1]
  <2>1. XorSum(h, k + 1) = Add(Mul(x, a), Mul(x, c)) /\ XorSum(f, k + 1) = Add(a, c)
    BY <1>1, <1>3, <1>4, <1>6
  <2>2. a \in Elements /\ c \in Elements
    BY <1>1, <1>3 DEF Terms
  <2> HIDE DEF a, c
  <2>3. Add(Mul(x, a), Mul(x, c)) = Mul(x, Add(a, c))
    <3>1. Mul(Add(a, c), x) = Add(Mul(a, x), Mul(c, x))
      BY <2>2, FieldLaws
    <3>2. Add(a, c) \in Elements
      BY <2>2, AddGroup
    <3>3. Mul(x, a) = Mul(a, x) /\ Mul(x, c) = Mul(c, x) /\ Mul(x, Add(a, c)) = Mul(Add(a, c), x)
      BY <2>2, <3>2, FieldLaws
    <3> QED  BY <3>1, <3>3
  <2> QED  BY <1>3, <2>1, <2>3
<1>7. n \in S
  <2> HIDE DEF S
  <2> QED  BY <1>2, <1>5, <1>6, UpTo
<1> QED  BY <1>7

\* Of f's summands up to m only those of g, which are s places up, are not 0.
Window(f, m, s, g, n) ==
    /\ s + n <= m /\ \A i \in 0 .. n : g[i] = f[s + i]
    /\ \A i \in 0 .. m : i < s \/ i > s + n => f[i] = 0

\* A sum of which all but a window of the terms are 0 is the sum of the window.
LEMMA SumWindow ==
    ASSUME NEW n \in Nat, NEW s \in Nat, NEW m \in Nat, NEW f, NEW g,
           Terms(f, m), Window(f, m, s, g, n)
    PROVE  XorSum(f, m) = XorSum(g, n)
<1>0. /\ s + n <= m /\ \A i \in 0 .. n : g[i] = f[s + i]
      /\ \A i \in 0 .. m : i < s \/ i > s + n => f[i] = 0
      /\ \A i \in 0 .. m : f[i] \in Elements
  BY DEF Window, Terms
<1> DEFINE W(k) == CASE k < s -> 0
                     [] k \in s .. s + n -> XorSum(g, k - s)
                     [] OTHER -> XorSum(g, n)
           S == {k \in 0 .. m : XorSum(f, k) = W(k)}
<1>1. Terms(g, n) /\ \A i \in 0 .. n : g[i] \in Elements
  <2> SUFFICES \A i \in 0 .. n : g[i] \in Elements
    BY DEF Terms
  <2> TAKE i \in 0 .. n
  <2>1. s + i \in 0 .. m
    BY <1>0
  <2> QED  BY <1>0, <2>1
<1>2. /\ XorSum(f, 0) = f[0] /\ \A k \in 0 .. m - 1 : XorSum(f, k + 1) = Add(XorSum(f, k), f[k + 1])
  BY SumSteps
<1>3. /\ XorSum(g, 0) = g[0] /\ XorSum(g, n) \in Elements
      /\ \A k \in 0 .. n - 1 : XorSum(g, k + 1) = Add(XorSum(g, k), g[k + 1])
  BY <1>1, SumSteps
<1>4. 0 \in Elements /\ \A x \in Elements : Add(x, 0) = x /\ Add(0, x) = x
  <2>1. 0 \in Elements
    BY FieldSize DEF Elements
  <2> QED  BY <2>1, AddGroup, AddFour
<1>5. 0 \in S
  <2>1. CASE s = 0
    BY <1>0, <1>2, <1>3, <2>1
  <2>2. CASE s # 0
    BY <1>0, <1>2, <2>2
  <2> QED  BY <2>1, <2>2
<1>6. ASSUME NEW k \in 0 .. m - 1, k \in S
      PROVE  k + 1 \in S
  <2>1. k + 1 \in 0 .. m /\ k \in Nat /\ XorSum(f, k + 1) = Add(W(k), f[k + 1])
    BY <1>2, <1>6
  <2>2. CASE k + 1 < s
    <3>1. W(k) = 0 /\ W(k + 1) = 0 /\ f[k + 1] = 0
      BY <1>0, <2>1, <2>2
    <3> QED  BY <1>4, <2>1, <3>1
  <2>3. CASE k + 1 = s
    <3>1. W(k) = 0 /\ W(k + 1) = g[0] /\ f[k + 1] = g[0] /\ g[0] \in Elements
      BY <1>0, <1>1, <1>3, <2>1, <2>3
    <3> QED  BY <1>4, <2>1, <3>1
  <2>4. CASE k >= s /\ k < s + n
    <3> DEFINE j == k - s
    <3>1. /\ j \in 0 .. n - 1 /\ k \in s .. s + n /\ k + 1 \in s .. s + n /\ ~(k < s) /\ ~(k + 1 < s)
          /\ (k + 1) - s = j + 1 /\ s + (j + 1) = k + 1 /\ j + 1 \in 0 .. n
      BY <1>0, <2>1, <2>4
    <3>2. W(k) = XorSum(g, j) /\ W(k + 1) = XorSum(g, j + 1)
      BY <3>1
    <3>3. f[k + 1] = g[j + 1]
      BY <1>0, <3>1
    <3> QED  BY <1>3, <2>1, <3>1, <3>2, <3>3
  <2>5. CASE k >= s + n
    <3>1. f[k + 1] = 0 /\ ~(k < s) /\ ~(k + 1 < s) /\ ~(k + 1 \in s .. s + n)
      BY <1>0, <2>1, <2>5
    <3>2. W(k + 1) = XorSum(g, n)
      BY <3>1
    <3>3. W(k) = XorSum(g, n)
      <4>1. CASE k = s + n
        <5>1. k - s = n
          BY <4>1
        <5> QED  BY <3>1, <4>1, <5>1
      <4>2. CASE k # s + n
        <5>1. ~(k \in s .. s + n)
          BY <2>5, <4>2
        <5> QED  BY <3>1, <5>1
      <4> QED  BY <4>1, <4>2
    <3> QED  BY <1>3, <1>4, <2>1, <3>1, <3>2, <3>3
  <2> QED  BY <2>1, <2>2, <2>3, <2>4, <2>5
<1>7. m \in S
  <2>1. m \in 0 .. m
    OBVIOUS
  <2> HIDE DEF S
  <2> QED  BY <1>5, <1>6, <2>1, UpTo
<1>8. W(m) = XorSum(g, n)
  <2>1. CASE m = s + n
    <3>1. m - s = n /\ ~(m < s) /\ m \in s .. s + n
      BY <2>1
    <3> QED  BY <3>1
  <2>2. CASE m # s + n
    <3>1. ~(m < s) /\ ~(m \in s .. s + n)
      BY <1>0, <2>2
    <3> QED  BY <3>1
  <2> QED  BY <2>1, <2>2
<1> QED  BY <1>7, <1>8

----------------------------------------------------------------------------
(* Values of polynomials. *)

\* R has the powers of x from 0 to n.
PowersOf(R, x, n) ==
    /\ Terms(R, n)
    /\ R[0] = 1 /\ \A j \in 0 .. n - 1 : R[j + 1] = Mul(R[j], x)

\* What a polynomial of order n is worth where R has the powers.
Value(c, n, R) == XorSum([j \in 0 .. n |-> Mul(c[j], R[j])], n)

\* Powers add their exponents.
LEMMA PowersMul ==
    ASSUME NEW x \in Elements, NEW n \in Nat, NEW R, PowersOf(R, x, n),
           NEW s \in Nat, NEW i \in Nat, s + i <= n
    PROVE  R[s + i] = Mul(R[s], R[i])
<1> DEFINE S == {k \in 0 .. i : R[s + k] = Mul(R[s], R[k])}
<1>1. R[0] = 1 /\ \A j \in 0 .. n : R[j] \in Elements
  BY DEF PowersOf, Terms
<1>2. \A j \in 0 .. n - 1 : R[j + 1] = Mul(R[j], x)
  BY DEF PowersOf
<1>3. s \in 0 .. n /\ R[s] \in Elements
  BY <1>1
<1>4. 0 \in S
  <2>1. R[s + 0] = R[s] /\ Mul(R[s], 1) = R[s]
    BY <1>3, FieldLaws
  <2> QED  BY <1>1, <2>1
<1>5. ASSUME NEW k \in 0 .. i - 1, k \in S
      PROVE  k + 1 \in S
  <2> DEFINE a == R[s]
             b == R[k]
  <2>1. /\ k \in 0 .. n - 1 /\ k \in 0 .. n /\ s + k \in 0 .. n - 1 /\ s + (k + 1) = (s + k) + 1
        /\ k + 1 \in 0 .. i
    OBVIOUS
  <2>2. R[(s + k) + 1] = Mul(R[s + k], x) /\ R[k + 1] = Mul(b, x) /\ R[s + k] = Mul(a, b)
    BY <1>2, <1>5, <2>1
  <2>3. a \in Elements /\ b \in Elements
    BY <1>1, <1>3, <2>1
  <2> HIDE DEF a, b
  <2>4. Mul(Mul(a, b), x) = Mul(a, Mul(b, x))
    BY <2>3, FieldLaws
  <2>5. R[s + (k + 1)] = Mul(a, R[k + 1])
    BY <2>1, <2>2, <2>4
  <2> QED  BY <2>1, <2>5 DEF a
<1>6. i \in S
  <2>1. i \in 0 .. i
    OBVIOUS
  <2> HIDE DEF S
  <2> QED  BY <1>4, <1>5, <2>1, UpTo
<1> QED  BY <1>6

\* The table of an element other than 0 has the logarithms of its powers.
LEMMA PowerTablePowers ==
    ASSUME NEW n \in Nat, NEW x \in Elements \ {0}
    PROVE  /\ PowerTable(x, n)[0] # 0
           /\ PowersOf([j \in 0 .. n |-> Exp[PowerTable(x, n)[j]]], x, n)
<1> DEFINE E == Elements
           v == Log[1]
           l == Log[x]
           step == [i \in 1 .. n |-> [p \in E |-> MulLog(p, l)]]
<1>1. v \in E /\ l \in E /\ v = FIELD - 1 /\ l \in 1 .. FIELD - 1 /\ Exp[l] = x
  <2>1. 0 \in E /\ 1 \in E
    BY FieldSize DEF Elements
  <2> HIDE DEF E
  <2> QED  BY <2>1, LogType DEF E
<1>2. FIELD \in Nat /\ FIELD >= 4 /\ Exp[v] = 1
  <2>1. 1 \in Elements \ {0}
    BY FieldSize DEF Elements
  <2> QED  BY <2>1, FieldSize, LogType
<1> HIDE DEF v, l
<1>3. \A p \in E : MulLog(p, l) \in E
  BY <1>1, FieldOps
<1>4. step \in [1 .. n -> [E -> E]]
  <2> HIDE DEF E
  <2> QED  BY <1>3
<1>5. \A i \in 1 .. n : \A p \in E : step[i][p] = MulLog(p, l)
  <2> HIDE DEF E
  <2> QED  OBVIOUS
<1> HIDE DEF step, E
<1>6. PICK g \in [0 .. n -> E] : Unrolls(g, n, v, step)
  BY <1>1, <1>4, Recursion
<1>7. g = [i \in 0 .. n |-> IF i = 0 THEN v ELSE MulLog(g[i - 1], l)]
  <2>1. ASSUME NEW i \in 0 .. n
        PROVE  g[i] = IF i = 0 THEN v ELSE MulLog(g[i - 1], l)
    <3>1. i # 0 => i \in 1 .. n /\ i - 1 \in 0 .. n
      OBVIOUS
    <3> QED  BY <1>5, <1>6, <3>1 DEF Unrolls
  <2> QED  BY <1>6, <2>1
<1> DEFINE power == CHOOSE h : h = [i \in 0 .. n |-> IF i = 0 THEN v ELSE MulLog(h[i - 1], l)]
<1>8. power = [i \in 0 .. n |-> IF i = 0 THEN v ELSE MulLog(power[i - 1], l)]
  BY <1>7, Zenon
<1>9. PowerTable(x, n) = [i \in 0 .. n |-> power[i]]
  <2>1. PowerTable(x, n) = [i \in 0 .. n |-> IF x = 0 THEN 0 ELSE power[i]]
    BY DEF PowerTable, v, l
  <2> HIDE DEF power
  <2>2. x # 0
    OBVIOUS
  <2> QED  BY <2>1, <2>2
<1> HIDE DEF power
<1>10. IsTable(power, n)
  BY <1>8 DEF IsTable
<1>11. \A i \in 0 .. n : power[i] = IF i = 0 THEN v ELSE MulLog(power[i - 1], l)
  BY <1>8
<1>12. power[0] = v
  BY <1>11
<1>13. \A i \in 1 .. n : power[i - 1] \in E => power[i] = step[i][power[i - 1]]
  BY <1>5, <1>11
<1>14. power \in [0 .. n -> E] /\ Unrolls(power, n, v, step)
  BY <1>1, <1>4, <1>10, <1>12, <1>13, Unrolled
<1> DEFINE R == [j \in 0 .. n |-> Exp[power[j]]]
<1>15. ASSUME NEW k \in 0 .. n
       PROVE  power[k] \in 0 .. FIELD - 1 /\ Exp[power[k]] \in Elements
  <2>1. power[k] \in 0 .. FIELD - 1
    BY <1>14 DEF E, Elements
  <2>2. power[k] \in 0 .. 2 * FIELD - 1
    BY <1>2, <2>1
  <2> QED  BY <2>1, <2>2, ExpType
<1>16. Terms(R, n)
  BY <1>15 DEF Terms
<1>17. R[0] = 1
  BY <1>2, <1>12
<1>18. ASSUME NEW j \in 0 .. n - 1
       PROVE  R[j + 1] = Mul(R[j], x)
  <2> DEFINE k == power[j]
             y == Exp[k]
  <2>1. j + 1 \in 1 .. n /\ (j + 1) - 1 = j /\ j \in 0 .. n /\ j + 1 \in 0 .. n
    OBVIOUS
  <2>2. power[j + 1] = MulLog(k, l)
    BY <1>11, <2>1
  <2>3. k \in 0 .. FIELD - 1 /\ y \in Elements
    BY <1>15, <2>1
  <2>4. R[j + 1] = Exp[MulLog(k, l)] /\ R[j] = y
    BY <2>1, <2>2
  <2> HIDE DEF k, R
  <2>5. Exp[MulLog(k, l)] = Exp[k + l]
    <3>1. CASE k + l > FIELD - 1
      <4> DEFINE j2 == k + l - (FIELD - 1)
      <4>1. j2 \in 0 .. FIELD /\ FIELD - 1 + j2 = k + l
        BY <1>1, <1>2, <2>3, <3>1
      <4>2. MulLog(k, l) = j2
        BY <3>1 DEF MulLog
      <4> HIDE DEF j2
      <4>3. Exp[FIELD - 1 + j2] = Exp[j2]
        BY <4>1, ExpPeriod
      <4> QED  BY <4>1, <4>2, <4>3
    <3>2. CASE ~(k + l > FIELD - 1)
      BY <3>2 DEF MulLog
    <3> QED  BY <3>1, <3>2
  <2>6. y # 0 /\ y = Exp[k]
    <3>1. k \in 0 .. 2 * FIELD - 1
      BY <1>2, <2>3
    <3> QED  BY <3>1, ExpPeriod
  <2> HIDE DEF y
  <2> DEFINE m == Log[y]
  <2>7. m \in 1 .. FIELD - 1 /\ Exp[m] = y
    BY <2>3, <2>6, LogType
  <2>8. Mul(y, x) = Exp[m + l]
    BY <2>6 DEF Mul, l
  <2> HIDE DEF m
  <2>9. m \in Nat /\ k \in Nat /\ l \in Nat /\ m + l <= 2 * FIELD - 1 /\ k + l <= 2 * FIELD - 1
    BY <1>1, <1>2, <2>3, <2>7
  <2>10. Exp[m + l] = Exp[k + l]
    BY <2>6, <2>7, <2>9, ExpShift
  <2> QED  BY <2>4, <2>5, <2>8, <2>10
<1>19. [j \in 0 .. n |-> Exp[PowerTable(x, n)[j]]] = R /\ PowerTable(x, n)[0] = v
  BY <1>9, <1>12
<1>20. v # 0
  BY <1>1, <1>2
<1> HIDE DEF R
<1>21. PowersOf(R, x, n)
  BY <1>16, <1>17, <1>18 DEF PowersOf
<1> QED  BY <1>19, <1>20, <1>21

\* Evaluating with a table of logarithms is evaluating.
LEMMA EvalTableValue ==
    ASSUME NEW n \in Nat, NEW c \in Row(n), NEW powers \in Row(n), powers[0] # 0
    PROVE  EvalTable(c, n, powers) = Value(c, n, [j \in 0 .. n |-> Exp[powers[j]]])
<1> DEFINE R == [j \in 0 .. n |-> Exp[powers[j]]]
           f == [i \in 0 .. n |-> IF c[i] = 0 THEN 0 ELSE MulLogElement(Log[c[i]], powers[i])]
           g == [j \in 0 .. n |-> Mul(c[j], R[j])]
<1>1. ASSUME NEW i \in 0 .. n
      PROVE  f[i] = g[i]
  <2>1. c[i] \in Elements /\ powers[i] \in 0 .. FIELD - 1
    BY DEF Row, Elements
  <2>2. Mul(c[i], Exp[powers[i]]) = IF c[i] = 0 THEN 0 ELSE Exp[Log[c[i]] + powers[i]]
    BY <2>1, MulPower
  <2> QED  BY <2>2 DEF MulLogElement
<1>2. f = g
  BY <1>1
<1>3. EvalTable(c, n, powers) = XorSum(f, n)
  BY DEF EvalTable
<1>4. Value(c, n, R) = XorSum(g, n)
  BY DEF Value
<1> QED  BY <1>2, <1>3, <1>4

\* The terms of a value are elements.
LEMMA ValueTerms ==
    ASSUME NEW n \in Nat, NEW c, NEW R, Terms(c, n), Terms(R, n)
    PROVE  /\ Terms([k \in 0 .. n |-> Mul(c[k], R[k])], n)
           /\ Value(c, n, R) \in Elements
<1> DEFINE f == [k \in 0 .. n |-> Mul(c[k], R[k])]
<1>1. Terms(f, n)
  <2>1. \A j \in 0 .. n : Mul(c[j], R[j]) \in Elements
    BY FieldLaws DEF Terms
  <2> QED  BY <2>1 DEF Terms
<1> HIDE DEF f
<1>2. n \in 0 .. n
  OBVIOUS
<1>3. XorSum(f, n) \in Elements
  BY <1>1, <1>2, SumSteps
<1> QED  BY <1>1, <1>3 DEF Value, f

\* The value of a sum is the sum of the values.
LEMMA ValueAdd ==
    ASSUME NEW n \in Nat, NEW R, NEW c, NEW d, NEW e, Terms(R, n), Terms(c, n), Terms(d, n),
           \A j \in 0 .. n : e[j] = Add(c[j], d[j])
    PROVE  Terms(e, n) /\ Value(e, n, R) = Add(Value(c, n, R), Value(d, n, R))
<1> DEFINE f == [j \in 0 .. n |-> Mul(c[j], R[j])]
           g == [j \in 0 .. n |-> Mul(d[j], R[j])]
           h == [j \in 0 .. n |-> Mul(e[j], R[j])]
<1>1. Terms(e, n)
  <2>1. \A j \in 0 .. n : Add(c[j], d[j]) \in Elements
    BY AddGroup DEF Terms
  <2> QED  BY <2>1 DEF Terms
<1>2. Terms(f, n) /\ Terms(g, n) /\ Terms(h, n)
  BY <1>1, ValueTerms
<1>3. \A j \in 0 .. n : h[j] = Add(f[j], g[j])
  <2> TAKE j \in 0 .. n
  <2>1. c[j] \in Elements /\ d[j] \in Elements /\ R[j] \in Elements /\ e[j] = Add(c[j], d[j])
    BY DEF Terms
  <2>2. Mul(Add(c[j], d[j]), R[j]) = Add(Mul(c[j], R[j]), Mul(d[j], R[j]))
    BY <2>1, FieldLaws
  <2> QED  BY <2>1, <2>2
<1> HIDE DEF f, g, h
<1>4. XorSum(h, n) = Add(XorSum(f, n), XorSum(g, n))
  BY <1>2, <1>3, SumAdd
<1> QED  BY <1>1, <1>4 DEF Value, f, g, h

\* In order m, d is y times the polynomial c of order n and s places up.
Placed(d, m, y, c, n, s) ==
    /\ s + n <= m /\ \A k \in 0 .. n : d[s + k] = Mul(y, c[k])
    /\ \A j \in 0 .. m : j < s \/ j > s + n => d[j] = 0

\* A polynomial that was shifted up and scaled is worth as much more.
LEMMA ValuePlaced ==
    ASSUME NEW x \in Elements, NEW m \in Nat, NEW R, PowersOf(R, x, m),
           NEW n \in Nat, NEW s \in Nat, NEW y \in Elements,
           NEW c, Terms(c, n), NEW d, Placed(d, m, y, c, n, s)
    PROVE  /\ Terms(d, m)
           /\ Value(d, m, R) = Mul(Mul(y, R[s]), Value(c, n, R))
<1> DEFINE z == Mul(y, R[s])
           f == [j \in 0 .. m |-> Mul(d[j], R[j])]
           g == [k \in 0 .. n |-> Mul(c[k], R[k])]
           h == [k \in 0 .. n |-> Mul(z, g[k])]
<1>1. \A j \in 0 .. m : R[j] \in Elements
  BY DEF PowersOf, Terms
<1>2. /\ s + n <= m /\ \A k \in 0 .. n : d[s + k] = Mul(y, c[k])
      /\ \A j \in 0 .. m : j < s \/ j > s + n => d[j] = 0
  BY DEF Placed
<1>3. \A k \in 0 .. n : c[k] \in Elements
  BY DEF Terms
<1>4. z \in Elements /\ R[s] \in Elements /\ 0 \in Elements
  <2>1. R[s] \in Elements
    BY <1>1, <1>2
  <2> QED  BY <2>1, FieldSize, FieldLaws DEF Elements
<1>5. \A k \in 0 .. n : k \in 0 .. m /\ s + k \in 0 .. m /\ s + k <= m /\ k \in Nat
  BY <1>2
<1>6. Terms(d, m)
  <2>1. ASSUME NEW j \in 0 .. m
        PROVE  d[j] \in Elements
    <3>1. CASE j < s \/ j > s + n
      BY <1>2, <1>4, <3>1
    <3>2. CASE ~(j < s \/ j > s + n)
      <4> DEFINE k == j - s
      <4>1. k \in 0 .. n /\ s + k = j
        BY <3>2
      <4> HIDE DEF k
      <4>2. d[j] = Mul(y, c[k]) /\ c[k] \in Elements
        BY <1>2, <1>3, <4>1
      <4> QED  BY <4>2, FieldLaws
    <3> QED  BY <3>1, <3>2
  <2> QED  BY <2>1 DEF Terms
<1>7. Terms(f, m) /\ Terms(g, n)
  <2>1. Terms(R, m) /\ Terms(R, n)
    BY <1>1, <1>5 DEF Terms
  <2> QED  BY <1>6, <2>1, ValueTerms
<1>8. Terms(h, n)
  <2>1. \A k \in 0 .. n : Mul(z, g[k]) \in Elements
    <3> HIDE DEF z, g
    <3> QED  BY <1>4, <1>7, FieldLaws DEF Terms
  <2> HIDE DEF g, z
  <2> QED  BY <2>1 DEF Terms
<1>9. ASSUME NEW k \in 0 .. n
      PROVE  h[k] = f[s + k]
  <2> DEFINE a == R[s]
             b == R[k]
             u == c[k]
  <2>1. s + k \in 0 .. m /\ s + k <= m /\ k \in 0 .. m /\ k \in Nat
    BY <1>5
  <2>2. a \in Elements /\ b \in Elements /\ u \in Elements /\ z = Mul(y, a)
    BY <1>1, <1>3, <1>4, <2>1
  <2>3. R[s + k] = Mul(a, b)
    BY <2>1, PowersMul
  <2>4. f[s + k] = Mul(Mul(y, u), Mul(a, b)) /\ h[k] = Mul(z, Mul(u, b))
    BY <1>2, <2>1, <2>3
  <2> HIDE DEF a, b, u, z
  <2>5. /\ Mul(u, b) \in Elements /\ Mul(a, b) \in Elements /\ Mul(u, a) \in Elements
        /\ Mul(y, a) \in Elements /\ Mul(a, u) = Mul(u, a)
    BY <2>2, FieldLaws
  <2>6. Mul(Mul(y, u), Mul(a, b)) = Mul(y, Mul(u, Mul(a, b)))
    BY <2>2, <2>5, FieldLaws
  <2>7. Mul(u, Mul(a, b)) = Mul(Mul(u, a), b)
    BY <2>2, FieldLaws
  <2>8. Mul(Mul(a, u), b) = Mul(a, Mul(u, b))
    BY <2>2, FieldLaws
  <2>9. Mul(z, Mul(u, b)) = Mul(y, Mul(a, Mul(u, b)))
    BY <2>2, <2>5, FieldLaws
  <2> QED  BY <2>4, <2>5, <2>6, <2>7, <2>8, <2>9
<1>10. Window(f, m, s, h, n)
  <2>1. ASSUME NEW j \in 0 .. m, j < s \/ j > s + n
        PROVE  f[j] = 0
    <3>1. d[j] = 0 /\ Mul(0, R[j]) = 0
      BY <1>1, <1>2, <1>4, <2>1, FieldLaws
    <3> QED  BY <3>1
  <2> HIDE DEF f, h
  <2> QED  BY <1>2, <1>9, <2>1 DEF Window
<1>11. \A k \in 0 .. n : h[k] = Mul(z, g[k])
  OBVIOUS
<1> HIDE DEF f, g, h, z
<1>12. XorSum(f, m) = XorSum(h, n)
  BY <1>7, <1>10, SumWindow
<1>13. XorSum(h, n) = Mul(z, XorSum(g, n))
  BY <1>4, <1>7, <1>8, <1>11, SumScale
<1> QED  BY <1>6, <1>12, <1>13 DEF Value, f, g, z

----------------------------------------------------------------------------
(* What the encoder makes is 0 at every root of the code. *)

\* A polynomial times x + r: the coefficient of the highest order stays, and the value
\* gets that factor.
LEMMA LinearFactor ==
    ASSUME NEW r \in Elements, NEW left, left[0] = r, left[1] = 1,
           NEW n \in Nat, NEW p \in Row(n),
           NEW x \in Elements, NEW R, PowersOf(R, x, n + 1)
    PROVE  LET q == Product(left, 1, p, n, n + 1)
           IN  /\ q \in Row(n + 1) /\ q[n + 1] = p[n]
               /\ Value(q, n + 1, R) = Mul(Add(r, x), Value(p, n, R))
<1> DEFINE q == Product(left, 1, p, n, n + 1)
           F(k) == [i \in 0 .. k |-> IF i <= 1 /\ k - i <= n THEN Mul(left[i], p[k - i]) ELSE 0]
           a(k) == IF k <= n THEN Mul(r, p[k]) ELSE 0
           b(k) == IF k >= 1 THEN p[k - 1] ELSE 0
           v == Value(p, n, R)
<1>1. 0 \in Elements /\ 1 \in Elements /\ Terms(p, n) /\ \A k \in 0 .. n : p[k] \in Elements
  <2>1. 0 \in Elements /\ 1 \in Elements
    BY FieldSize DEF Elements
  <2>2. \A k \in 0 .. n : p[k] \in Elements
    BY DEF Row
  <2> QED  BY <2>1, <2>2 DEF Terms
<1>2. n + 1 \in Nat /\ n + 1 \in 0 .. n + 1
  OBVIOUS
<1>3. q \in Row(n + 1)
  <2>1. \A i \in 0 .. 1 : left[i] \in Elements
    BY <1>1
  <2> QED  BY <1>2, <2>1, ProductType
<1>4. ASSUME NEW k \in 0 .. n + 1
      PROVE  a(k) \in Elements /\ b(k) \in Elements
  <2>1. k <= n => p[k] \in Elements /\ Mul(r, p[k]) \in Elements
    BY <1>1, FieldLaws
  <2>2. k >= 1 => p[k - 1] \in Elements
    BY <1>1
  <2> QED  BY <1>1, <2>1, <2>2
<1>5. ASSUME NEW k \in 0 .. n + 1
      PROVE  q[k] = Add(a(k), b(k))
  <2> DEFINE f == F(k)
  <2>1. q[k] = XorSum(f, k)
    BY DEF Product
  <2>2. f[0] = a(k)
    <3>1. 0 \in 0 .. k /\ k - 0 = k
      OBVIOUS
    <3> QED  BY <3>1
  <2>3. k >= 1 => f[1] = b(k)
    <3>1. k >= 1 => 1 \in 0 .. k /\ k - 1 <= n /\ k - 1 \in 0 .. n
      OBVIOUS
    <3>2. k >= 1 => Mul(1, p[k - 1]) = p[k - 1]
      <4>1. k >= 1 => p[k - 1] \in Elements
        BY <1>1, <3>1
      <4>2. \A y \in Elements : Mul(1, y) = Mul(y, 1) /\ Mul(y, 1) = y
        BY <1>1, FieldLaws
      <4> QED  BY <4>1, <4>2
    <3> QED  BY <3>1, <3>2
  <2>4. \A i \in 0 .. k : i > 1 => f[i] = 0
    OBVIOUS
  <2>5. a(k) \in Elements /\ b(k) \in Elements
    BY <1>4
  <2>6. \A y \in Elements : Add(y, 0) = y
    BY AddGroup
  <2> HIDE DEF f, a, b
  <2>7. CASE k = 0
    <3>1. XorSum(f, 0) = f[0]
      <4>1. Terms(f, 0)
        BY <2>2, <2>5 DEF Terms
      <4> QED  BY <4>1, SumSteps
    <3>2. b(k) = 0
      BY <2>7 DEF b
    <3> QED  BY <2>1, <2>2, <2>5, <2>6, <2>7, <3>1, <3>2
  <2>8. CASE k # 0
    <3>0. k \in Nat /\ k >= 1 /\ 0 + 1 <= k
      BY <2>8
    <3>1. Terms(f, k)
      <4> SUFFICES \A i \in 0 .. k : f[i] \in Elements
        BY DEF Terms
      <4> TAKE i \in 0 .. k
      <4>1. i = 0 \/ i = 1 \/ i > 1
        OBVIOUS
      <4> QED  BY <1>1, <2>2, <2>3, <2>4, <2>5, <3>0, <4>1
    <3>4. XorSum(f, k) = XorSum(f, 1)
      <4>1. Window(f, k, 0, f, 1)
        BY <2>4, <3>0 DEF Window
      <4> QED  BY <3>0, <3>1, <4>1, SumWindow
    <3>5. Terms(f, 1)
      BY <3>0, <3>1 DEF Terms
    <3>6. 0 \in 0 .. 1 - 1 /\ 0 + 1 = 1 /\ 1 \in Nat
      OBVIOUS
    <3>7. XorSum(f, 0 + 1) = Add(XorSum(f, 0), f[0 + 1]) /\ XorSum(f, 0) = f[0]
      BY <3>5, <3>6, SumSteps
    <3> QED  BY <2>1, <2>2, <2>3, <3>0, <3>4, <3>6, <3>7
  <2> QED  BY <2>7, <2>8
<1>6. q[n + 1] = p[n]
  <2>1. a(n + 1) = 0 /\ b(n + 1) = p[n]
    <3>1. ~(n + 1 <= n) /\ n + 1 >= 1 /\ (n + 1) - 1 = n
      OBVIOUS
    <3> QED  BY <3>1
  <2>2. p[n] \in Elements
    BY <1>1
  <2>3. q[n + 1] = Add(0, p[n])
    <3> HIDE DEF a, b, q
    <3> QED  BY <1>2, <1>5, <2>1
  <2> QED  BY <2>2, <2>3, AddFour
<1> DEFINE A == [k \in 0 .. n + 1 |-> a(k)]
           B == [k \in 0 .. n + 1 |-> b(k)]
<1>7. R[0] = 1 /\ R[1] = x /\ Terms(R, n + 1)
  <2>1. R[0] = 1 /\ Terms(R, n + 1)
    BY DEF PowersOf
  <2>2. R[0 + 1] = Mul(R[0], x)
    <3>1. 0 \in 0 .. (n + 1) - 1
      OBVIOUS
    <3> QED  BY <3>1 DEF PowersOf
  <2>3. Mul(1, x) = x
    <3>1. Mul(1, x) = Mul(x, 1) /\ Mul(x, 1) = x
      BY <1>1, FieldLaws
    <3> QED  BY <3>1
  <2> QED  BY <2>1, <2>2, <2>3
<1>8. v \in Elements
  <2>1. Terms(R, n)
    BY <1>7 DEF Terms
  <2> QED  BY <1>1, <2>1, ValueTerms
<1>9. Value(A, n + 1, R) = Mul(r, v)
  <2>1. Placed(A, n + 1, r, p, n, 0)
    BY DEF Placed
  <2> HIDE DEF A, v
  <2>4. Value(A, n + 1, R) = Mul(Mul(r, R[0]), Value(p, n, R))
    BY <1>1, <1>2, <2>1, ValuePlaced
  <2>5. Mul(r, R[0]) = r
    BY <1>7, FieldLaws
  <2> QED  BY <2>4, <2>5 DEF v
<1>10. Value(B, n + 1, R) = Mul(x, v)
  <2>1. Placed(B, n + 1, 1, p, n, 1)
    <3>1. \A k \in 0 .. n : B[1 + k] = Mul(1, p[k])
      <4> TAKE k \in 0 .. n
      <4>1. 1 + k \in 0 .. n + 1 /\ 1 + k >= 1 /\ (1 + k) - 1 = k
        OBVIOUS
      <4>2. Mul(1, p[k]) = p[k]
        <5>1. \A y \in Elements : Mul(1, y) = Mul(y, 1) /\ Mul(y, 1) = y
          BY <1>1, FieldLaws
        <5> QED  BY <1>1, <5>1
      <4> QED  BY <4>1, <4>2
    <3>2. \A j \in 0 .. n + 1 : j < 1 \/ j > 1 + n => B[j] = 0
      OBVIOUS
    <3> HIDE DEF B
    <3> QED  BY <3>1, <3>2 DEF Placed
  <2> HIDE DEF B, v
  <2>4. Value(B, n + 1, R) = Mul(Mul(1, R[1]), Value(p, n, R))
    BY <1>1, <1>2, <2>1, ValuePlaced
  <2>5. Mul(1, R[1]) = x
    <3>1. Mul(1, x) = Mul(x, 1) /\ Mul(x, 1) = x
      BY <1>1, FieldLaws
    <3> QED  BY <1>7, <3>1
  <2> QED  BY <2>4, <2>5 DEF v
<1>11. Value(q, n + 1, R) = Add(Value(A, n + 1, R), Value(B, n + 1, R))
  <2>1. Terms(A, n + 1) /\ Terms(B, n + 1) /\ \A j \in 0 .. n + 1 : q[j] = Add(A[j], B[j])
    <3> HIDE DEF a, b, q
    <3> QED  BY <1>4, <1>5 DEF Terms
  <2> HIDE DEF A, B, q
  <2> QED  BY <1>2, <1>7, <2>1, ValueAdd
<1>12. Mul(Add(r, x), v) = Add(Mul(r, v), Mul(x, v))
  BY <1>8, FieldLaws
<1> HIDE DEF A, B
<1>13. Value(q, n + 1, R) = Mul(Add(r, x), v)
  <2> HIDE DEF q, v
  <2> QED  BY <1>9, <1>10, <1>11, <1>12
<1> QED  BY <1>3, <1>6, <1>13

\* A root is not 0.
LEMMA RootsNonzero == \A i \in 0 .. NROOTS - 1 : Roots[i] \in Elements \ {0}
<1> TAKE i \in 0 .. NROOTS - 1
<1> DEFINE e == GAP * (i + FIRST_ROOT)
           m == FIELD - 1
<1>1. GAP \in Nat /\ i + FIRST_ROOT \in Nat /\ m \in Nat \ {0}
  BY FieldSize, RSAssumption
<1>2. e \in Nat
  <2> DEFINE r == i + FIRST_ROOT
  <2>1. r \in Nat
    BY <1>1
  <2> HIDE DEF r
  <2>2. GAP * r \in Nat
    BY <1>1, <2>1
  <2> QED  BY <2>2 DEF r
<1> HIDE DEF e
<1>3. e % m \in 0 .. m - 1
  <2> HIDE DEF m
  <2> QED  BY <1>1, <1>2, Division
<1>4. e % m \in 0 .. 2 * FIELD - 1
  BY <1>3, FieldSize
<1>5. Exp[e % m] # 0
  BY <1>4, ExpPeriod
<1>6. Roots[i] = Exp[e % m]
  BY DEF Roots, e, m
<1> QED  BY <1>5, <1>6, TablesType

\* The generator begins with x^NROOTS and is 0 at every root.
LEMMA GeneratorRoots ==
    /\ Generator[NROOTS] = 1
    /\ \A i \in 0 .. NROOTS - 1 : \A R : PowersOf(R, Roots[i], NROOTS) => Value(Generator, NROOTS, R) = 0
<1> DEFINE N == NROOTS - 1
<1>1. N \in Nat /\ N + 1 = NROOTS /\ 0 \in Elements /\ 1 \in Elements
  BY FieldSize DEF Elements
<1>2. PICK poly :
        /\ poly[0] = Linear(0) /\ Generator = poly[N]
        /\ \A n \in 0 .. N : poly[n] \in Row(n + 1)
        /\ \A n \in 1 .. N : poly[n] = Product(Linear(n), 1, poly[n - 1], n, n + 1)
  BY GeneratorTable
<1>3. \A n \in 0 .. N : Roots[n] \in Elements /\ Linear(n)[0] = Roots[n] /\ Linear(n)[1] = 1
  BY TablesType DEF Linear
<1> SUFFICES ASSUME NEW i \in 0 .. N, NEW R, PowersOf(R, Roots[i], N + 1)
             PROVE  poly[N][N + 1] = 1 /\ Value(poly[N], N + 1, R) = 0
  <2>1. \A i \in 0 .. N : \E R : PowersOf(R, Roots[i], N + 1)
    <3> TAKE i \in 0 .. N
    <3>1. Roots[i] \in Elements \ {0}
      BY RootsNonzero
    <3> DEFINE P == [j \in 0 .. N + 1 |-> Exp[PowerTable(Roots[i], N + 1)[j]]]
    <3>2. PowersOf(P, Roots[i], N + 1)
      BY <1>1, <3>1, PowerTablePowers
    <3> QED  BY <3>2
  <2>2. 0 \in 0 .. N
    BY <1>1
  <2> QED  BY <1>1, <1>2, <2>1, <2>2
<1> DEFINE x == Roots[i]
           S == {n \in 0 .. N : /\ poly[n][n + 1] = 1
                                /\ i <= n => Value(poly[n], n + 1, R) = 0}
<1>4. x \in Elements /\ \A n \in 0 .. N : PowersOf(R, x, n + 1)
  <2>1. x \in Elements
    BY <1>3
  <2>2. ASSUME NEW n \in 0 .. N
        PROVE  PowersOf(R, x, n + 1)
    <3>1. n + 1 <= N + 1 /\ n + 1 \in Nat
      BY <1>1
    <3> HIDE DEF x
    <3>2. PowersOf(R, x, N + 1)
      BY DEF x
    <3> HIDE DEF N
    <3> QED  BY <1>1, <3>1, <3>2 DEF PowersOf, Terms
  <2> QED  BY <2>1, <2>2
<1>5. Add(x, x) = 0
  BY <1>4, AddFour
<1>6. R[0] = 1 /\ R[1] = x
  <2>1. R[0] = 1 /\ R[0 + 1] = Mul(R[0], x)
    <3>1. 0 \in 0 .. (N + 1) - 1
      BY <1>1
    <3> QED  BY <3>1 DEF PowersOf
  <2>2. Mul(1, x) = Mul(x, 1) /\ Mul(x, 1) = x
    BY <1>1, <1>4, FieldLaws
  <2> QED  BY <2>1, <2>2
<1>7. 0 \in S
  <2>1. poly[0][1] = 1 /\ 0 \in 0 .. N
    BY <1>1, <1>2, <1>3
  <2>2. ASSUME i <= 0
        PROVE  Value(poly[0], 1, R) = 0
    <3> DEFINE p == poly[0]
               f == [j \in 0 .. 1 |-> Mul(p[j], R[j])]
    <3>1. p[0] = x /\ p[1] = 1
      BY <1>2, <1>3, <2>1, <2>2
    <3>2. f[0] = x /\ f[1] = x
      <4>1. Mul(x, 1) = x /\ Mul(1, x) = Mul(x, 1)
        BY <1>1, <1>4, FieldLaws
      <4> HIDE DEF p, x
      <4> QED  BY <1>6, <3>1, <4>1
    <3> HIDE DEF f, x
    <3>3. Terms(f, 1)
      BY <1>4, <3>2 DEF Terms
    <3>4. 0 \in 0 .. 1 - 1 /\ 0 + 1 = 1 /\ 1 \in Nat
      OBVIOUS
    <3>5. XorSum(f, 0 + 1) = Add(XorSum(f, 0), f[0 + 1]) /\ XorSum(f, 0) = f[0]
      BY <3>3, <3>4, SumSteps
    <3>6. XorSum(f, 1) = 0
      BY <1>5, <3>2, <3>4, <3>5
    <3> QED  BY <3>6 DEF Value, f
  <2> QED  BY <2>1, <2>2
<1>8. ASSUME NEW n \in 0 .. N - 1, n \in S
      PROVE  n + 1 \in S
  <2> DEFINE k == n + 1
             q == Product(Linear(k), 1, poly[n], k, k + 1)
             r == Roots[k]
             v == Value(poly[n], k, R)
  <2>1. k \in 1 .. N /\ k \in 0 .. N /\ k - 1 = n /\ n \in 0 .. N /\ k \in Nat
    BY <1>1
  <2>2. poly[n] \in Row(k) /\ poly[k] = q
    BY <1>2, <2>1
  <2>3. r \in Elements /\ Linear(k)[0] = r /\ Linear(k)[1] = 1 /\ PowersOf(R, x, k + 1)
    BY <1>3, <1>4, <2>1
  <2>4. poly[n][k] = 1 /\ (i <= n => v = 0)
    BY <1>8
  <2>5. v \in Elements
    <3>1. Terms(poly[n], k)
      BY <2>2 DEF Row, Terms
    <3>2. Terms(R, k)
      BY <1>4, <2>1 DEF PowersOf
    <3> HIDE DEF k
    <3> QED  BY <2>1, <3>1, <3>2, ValueTerms
  <2> HIDE DEF k, x, r
  <2>6. q[k + 1] = poly[n][k] /\ Value(q, k + 1, R) = Mul(Add(r, x), v)
    BY <1>4, <2>1, <2>2, <2>3, LinearFactor
  <2> HIDE DEF q, v
  <2>7. ASSUME i <= k
        PROVE  Mul(Add(r, x), v) = 0
    <3>1. CASE i = k
      <4>1. r = x
        BY <3>1 DEF r, x
      <4> QED  BY <1>5, <2>5, <4>1, FieldLaws
    <3>2. CASE i # k
      <4>1. i <= n
        BY <2>1, <2>7, <3>2
      <4>2. Add(r, x) \in Elements
        BY <1>4, <2>3, AddGroup
      <4> QED  BY <1>1, <2>4, <4>1, <4>2, FieldLaws
    <3> QED  BY <3>1, <3>2
  <2>8. k \in S
    BY <2>1, <2>2, <2>4, <2>6, <2>7
  <2> QED  BY <2>8 DEF k
<1>9. N \in S
  <2>1. N \in 0 .. N
    BY <1>1
  <2> HIDE DEF S
  <2> QED  BY <1>1, <1>7, <1>8, <2>1, UpTo
<1> QED  BY <1>9

\* Taking away a multiple of the generator leaves the values at its roots; the
\* coefficient at i is gone, and those above it are left alone.
LEMMA DividedValue ==
    ASSUME NEW i \in NROOTS .. BLOCK - 1, NEW m \in Row(BLOCK - 1)
    PROVE  LET w == Divided(Generator, m, i)
           IN  /\ w \in Row(BLOCK - 1) /\ w[i] = 0
               /\ \A j \in i + 1 .. BLOCK - 1 : w[j] = m[j]
               /\ \A l \in 0 .. NROOTS - 1 : \A R :
                     PowersOf(R, Roots[l], BLOCK - 1) =>
                         Value(w, BLOCK - 1, R) = Value(m, BLOCK - 1, R)
<1> DEFINE n == NROOTS
           M == BLOCK - 1
           G == Generator
           s == i - n
           w == Divided(G, m, i)
           y == m[i]
           d == [j \in 0 .. M |-> IF j \in s .. i THEN Mul(y, G[j - s]) ELSE 0]
<1>1. /\ n \in Nat \ {0} /\ M \in Nat /\ BLOCK \in Nat /\ i \in 0 .. M /\ i # 0 /\ ~(i < n)
      /\ s \in Nat /\ s + n = i /\ s + n <= M /\ n \in 0 .. n
  BY FieldSize
<1>2. G \in Row(n) /\ G[n] = 1 /\ Terms(G, n)
  BY GeneratorType, GeneratorRoots DEF Row, Terms
<1>3. w \in Row(M)
  BY <1>1, <1>2, DividedType
<1>4. y \in Elements /\ 0 \in Elements /\ 1 \in Elements /\ Terms(m, M) /\ \A j \in 0 .. M : m[j] \in Elements
  <2>1. 0 \in Elements /\ 1 \in Elements
    BY FieldSize DEF Elements
  <2>2. \A j \in 0 .. M : m[j] \in Elements
    BY DEF Row
  <2> QED  BY <1>1, <2>1, <2>2 DEF Terms
<1>5. \A z \in Elements : Add(z, 0) = z /\ Mul(0, z) = 0 /\ Mul(z, 0) = 0 /\ Mul(z, 1) = z /\ Add(z, z) = 0
  BY <1>4, AddGroup, AddFour, FieldLaws
<1>6. ASSUME y # 0
      PROVE  DivLog(Log[y], Log[G[n]]) = Log[y]
  <2> DEFINE k == Log[y]
  <2>1. k \in 1 .. FIELD - 1 /\ FIELD \in Nat /\ FIELD >= 4
    BY <1>4, <1>6, LogType, FieldSize
  <2>2. Log[G[n]] = FIELD - 1
    BY <1>2, LogType
  <2> HIDE DEF k
  <2>3. DivLog(k, FIELD - 1) = k
    BY <2>1 DEF DivLog, MulLog
  <2> QED  BY <2>2, <2>3 DEF k
<1>7. ASSUME NEW j \in 0 .. M, j \in s .. i
      PROVE  j - s \in 0 .. n /\ G[j - s] \in Elements
  <2>1. j - s \in 0 .. n
    BY <1>1, <1>7
  <2> QED  BY <1>2, <2>1 DEF Terms
<1>8. \A j \in 0 .. M : w[j] = Add(m[j], d[j])
  <2>1. CASE y = 0
    <3>1. w = m
      BY <2>1 DEF Divided
    <3>2. ASSUME NEW j \in 0 .. M
          PROVE  d[j] = 0
      <4>1. j \in s .. i => Mul(0, G[j - s]) = 0
        BY <1>5, <1>7
      <4> QED  BY <2>1, <4>1
    <3> QED  BY <1>4, <1>5, <3>1, <3>2
  <2>2. CASE y # 0
    <3> DEFINE q == DivLog(Log[m[i]], Log[G[n]])
               g(j) == G[j - (i - NROOTS)]
               e(j) == IF j \in i - NROOTS .. i /\ g(j) # 0
                       THEN Add(m[j], MulLogElement(Log[g(j)], q)) ELSE m[j]
    <3>1. w = [j \in 0 .. M |-> e(j)]
      BY <1>1, <2>2 DEF Divided
    <3>2. q = Log[y]
      BY <1>6, <2>2
    <3> HIDE DEF q
    <3>3. ASSUME NEW j \in 0 .. M
          PROVE  e(j) = Add(m[j], d[j])
      <4>1. CASE ~(j \in s .. i)
        BY <1>4, <1>5, <4>1
      <4>2. CASE j \in s .. i
        <5> DEFINE u == G[j - s]
        <5>1. u \in Elements
          BY <1>7, <4>2
        <5>2. d[j] = Mul(y, u) /\ g(j) = u
          BY <4>2
        <5>3. e(j) = IF u # 0 THEN Add(m[j], MulLogElement(Log[u], q)) ELSE m[j]
          BY <4>2
        <5> HIDE DEF u, d, e, g, y, s
        <5>4. CASE u = 0
          <6>1. Mul(y, u) = 0
            BY <1>4, <1>5, <5>4
          <6> QED  BY <1>4, <1>5, <5>2, <5>3, <5>4, <6>1
        <5>5. CASE u # 0
          <6>1. MulLogElement(Log[u], q) = Exp[Log[u] + Log[y]]
            BY <3>2 DEF MulLogElement
          <6>2. Mul(u, y) = Exp[Log[u] + Log[y]]
            BY <2>2, <5>5 DEF Mul
          <6>3. Mul(u, y) = Mul(y, u)
            BY <1>4, <5>1, FieldLaws
          <6> QED  BY <5>2, <5>3, <5>5, <6>1, <6>2, <6>3
        <5> QED  BY <5>4, <5>5
      <4> QED  BY <4>1, <4>2
    <3> HIDE DEF e, d, w
    <3> QED  BY <3>1, <3>3
  <2> QED  BY <2>1, <2>2
<1>9. w[i] = 0
  <2>1. i \in s .. i /\ i - s = n
    BY <1>1
  <2>2. d[i] = Mul(y, G[n])
    BY <1>1, <2>1
  <2>3. d[i] = y
    BY <1>2, <1>4, <1>5, <2>2
  <2> HIDE DEF w, d
  <2>4. w[i] = Add(y, y)
    BY <1>1, <1>8, <2>3
  <2> QED  BY <1>4, <1>5, <2>4
<1>10. ASSUME NEW j \in i + 1 .. M
       PROVE  w[j] = m[j]
  <2>1. j \in 0 .. M /\ ~(j \in s .. i)
    BY <1>1
  <2>2. d[j] = 0
    BY <2>1
  <2> HIDE DEF w, d
  <2> QED  BY <1>4, <1>5, <1>8, <2>1, <2>2
<1>11. Placed(d, M, y, G, n, s)
  <2>1. ASSUME NEW k \in 0 .. n
        PROVE  d[s + k] = Mul(y, G[k])
    <3>1. s + k \in 0 .. M /\ s + k \in s .. i /\ (s + k) - s = k
      BY <1>1
    <3> HIDE DEF s
    <3> QED  BY <3>1
  <2>2. ASSUME NEW j \in 0 .. M, j < s \/ j > s + n
        PROVE  d[j] = 0
    <3>1. ~(j \in s .. i)
      BY <1>1, <2>2
    <3> QED  BY <3>1
  <2> HIDE DEF d, y, s, G, M, n
  <2> QED  BY <1>1, <2>1, <2>2 DEF Placed
<1>12. ASSUME NEW l \in 0 .. NROOTS - 1, NEW R, PowersOf(R, Roots[l], M)
       PROVE  Value(w, M, R) = Value(m, M, R)
  <2> DEFINE x == Roots[l]
             v == Value(m, M, R)
             z == Mul(y, R[s])
  <2>1. x \in Elements
    BY TablesType
  <2>2. Terms(R, M) /\ PowersOf(R, x, M)
    BY <1>12 DEF PowersOf
  <2>3. PowersOf(R, x, n)
    <3>1. n <= M
      BY <1>1
    <3> HIDE DEF n, M, x
    <3> QED  BY <1>1, <2>2, <3>1 DEF PowersOf, Terms
  <2>4. Value(G, n, R) = 0
    BY <2>3, GeneratorRoots
  <2>5. z \in Elements
    <3>1. s \in 0 .. M
      BY <1>1
    <3>2. R[s] \in Elements
      BY <2>2, <3>1 DEF Terms
    <3> QED  BY <1>4, <3>2, FieldLaws
  <2> HIDE DEF w, d, y, s, G, M, n, x
  <2>6. Terms(d, M) /\ Value(d, M, R) = Mul(Mul(y, R[s]), Value(G, n, R))
    BY <1>1, <1>2, <1>4, <1>11, <2>1, <2>2, ValuePlaced
  <2>7. Value(d, M, R) = 0
    BY <1>5, <2>4, <2>5, <2>6
  <2>8. v \in Elements
    BY <1>1, <1>4, <2>2, ValueTerms
  <2>9. Value(w, M, R) = Add(v, Value(d, M, R))
    BY <1>1, <1>4, <1>8, <2>2, <2>6, ValueAdd
  <2> QED  BY <1>5, <2>7, <2>8, <2>9
<1> HIDE DEF w
<1> QED  BY <1>3, <1>9, <1>10, <1>12 DEF w

\* What is left over: below NROOTS, and worth as much at the roots.
LEMMA RemainderValue ==
    ASSUME NEW m \in Row(BLOCK - 1)
    PROVE  LET w == Remainder(m, Generator)
           IN  /\ w \in Row(BLOCK - 1)
               /\ \A j \in NROOTS .. BLOCK - 1 : w[j] = 0
               /\ \A l \in 0 .. NROOTS - 1 : \A R :
                     PowersOf(R, Roots[l], BLOCK - 1) =>
                         Value(w, BLOCK - 1, R) = Value(m, BLOCK - 1, R)
<1> DEFINE M == BLOCK - 1
           V(p) == \A l \in 0 .. NROOTS - 1 : \A R :
                      PowersOf(R, Roots[l], M) => Value(p, M, R) = Value(m, M, R)
           Gone(p, n) == \A j \in NROOTS .. M : j >= BLOCK - n => p[j] = 0
<1>1. BLOCK \in Nat /\ NROOTS \in Nat \ {0} /\ BLOCK \in 0 .. BLOCK /\ Generator \in Row(NROOTS)
  BY FieldSize, GeneratorType
<1>2. PICK rest \in [0 .. BLOCK -> Row(M)] :
        /\ rest[0] = m /\ Remainder(m, Generator) = rest[BLOCK]
        /\ \A n \in 1 .. BLOCK : rest[n] = Divided(Generator, rest[n - 1], BLOCK - n)
  BY <1>1, RemainderTable
<1> DEFINE S == {n \in 0 .. BLOCK : V(rest[n]) /\ Gone(rest[n], n)}
<1>3. 0 \in S
  <2>1. V(m) /\ Gone(m, 0) /\ 0 \in 0 .. BLOCK
    BY <1>1
  <2> HIDE DEF V, Gone
  <2> QED  BY <1>2, <2>1
<1>4. ASSUME NEW n \in 0 .. BLOCK - 1, n \in S
      PROVE  n + 1 \in S
  <2> DEFINE i == BLOCK - (n + 1)
             p == rest[n]
             w == rest[n + 1]
  <2>1. n + 1 \in 1 .. BLOCK /\ (n + 1) - 1 = n /\ n + 1 \in 0 .. BLOCK /\ n \in 0 .. BLOCK
        /\ i \in 0 .. M /\ i \in Nat
    BY <1>1
  <2>2. w = Divided(Generator, p, i) /\ p \in Row(M)
    BY <1>2, <2>1
  <2>3. V(p) /\ Gone(p, n)
    BY <1>4
  <2>4. V(w) /\ Gone(w, n + 1)
    <3>1. CASE i < NROOTS
      <4>1. w = p
        BY <2>2, <3>1 DEF Divided
      <4>2. Gone(p, n + 1)
        <5> TAKE j \in NROOTS .. M
        <5> HAVE j >= BLOCK - (n + 1)
        <5>1. j >= BLOCK - n
          BY <1>1, <2>1, <3>1
        <5> QED  BY <2>3, <5>1
      <4> HIDE DEF V, Gone, w, p
      <4> QED  BY <2>3, <4>1, <4>2
    <3>2. CASE ~(i < NROOTS)
      <4>0. i \in NROOTS .. M
        BY <1>1, <2>1, <3>2
      <4> HIDE DEF i, p, w
      <4>1. /\ w[i] = 0 /\ \A j \in i + 1 .. M : w[j] = p[j]
            /\ \A l \in 0 .. NROOTS - 1 : \A R :
                  PowersOf(R, Roots[l], M) => Value(w, M, R) = Value(p, M, R)
        BY <2>2, <4>0, DividedValue
      <4>2. V(w)
        BY <2>3, <4>1
      <4>3. Gone(w, n + 1)
        <5> TAKE j \in NROOTS .. M
        <5> HAVE j >= BLOCK - (n + 1)
        <5>1. CASE j = i
          BY <4>1, <5>1
        <5>2. CASE j # i
          <6>1. j \in i + 1 .. M /\ j >= BLOCK - n
            BY <1>1, <2>1, <5>2 DEF i
          <6>2. p[j] = 0
            BY <2>3, <6>1
          <6> QED  BY <4>1, <6>1, <6>2
        <5> QED  BY <5>1, <5>2
      <4> QED  BY <4>2, <4>3
    <3> QED  BY <3>1, <3>2
  <2> HIDE DEF V, Gone
  <2> QED  BY <2>1, <2>4
<1>5. BLOCK \in S
  <2> HIDE DEF S
  <2> QED  BY <1>1, <1>3, <1>4, UpTo
<1>6. V(rest[BLOCK]) /\ Gone(rest[BLOCK], BLOCK) /\ rest[BLOCK] \in Row(M)
  BY <1>1, <1>5
<1>7. \A j \in NROOTS .. M : rest[BLOCK][j] = 0
  <2> TAKE j \in NROOTS .. M
  <2>1. j >= BLOCK - BLOCK
    BY <1>1
  <2> QED  BY <1>6, <2>1
<1> QED  BY <1>2, <1>6, <1>7

\* What the encoder makes is a word of the code: as the decoder evaluates it, with its
\* tables, it is 0 at every root (encode.c:3-35, decode.c:3-31).
THEOREM EncodeWord ==
    ASSUME NEW msg \in [1 .. MESSAGE -> Elements]
    PROVE  \A l \in 0 .. NROOTS - 1 :
              EvalTable(Reversed(Encode(msg)), BLOCK - 1, RootPowers[l]) = 0
<1> DEFINE M == BLOCK - 1
           poly == [i \in 0 .. M |-> IF i < NROOTS THEN 0 ELSE msg[BLOCK - i]]
           parity == Remainder(poly, Generator)
           tail == [i \in 1 .. NROOTS |-> parity[NROOTS - i]]
           word == Reversed(Encode(msg))
<1>0. /\ BLOCK \in Nat /\ NROOTS \in Nat \ {0} /\ MESSAGE \in Nat \ {0} /\ MESSAGE + NROOTS = BLOCK
      /\ M \in Nat /\ 0 \in Elements
  BY FieldSize DEF Elements
<1>1. poly \in Row(M)
  <2>1. ASSUME NEW i \in 0 .. M
        PROVE  (IF i < NROOTS THEN 0 ELSE msg[BLOCK - i]) \in Elements
    <3>1. CASE i < NROOTS
      BY <1>0, <3>1
    <3>2. CASE ~(i < NROOTS)
      <4>1. BLOCK - i \in 1 .. MESSAGE
        BY <1>0, <3>2
      <4> QED  BY <3>2, <4>1
    <3> QED  BY <3>1, <3>2
  <2> QED  BY <2>1 DEF Row
<1>2. \A i \in 0 .. M : (i < NROOTS => poly[i] = 0) /\ (~(i < NROOTS) => poly[i] = msg[BLOCK - i])
  OBVIOUS
<1> HIDE DEF poly
<1>3. /\ parity \in Row(M) /\ \A j \in NROOTS .. M : parity[j] = 0
      /\ \A l \in 0 .. NROOTS - 1 : \A R :
            PowersOf(R, Roots[l], M) => Value(parity, M, R) = Value(poly, M, R)
  BY <1>1, RemainderValue
<1>4. Encode(msg) = msg \o tail
  BY DEF Encode, poly, parity, tail
<1> HIDE DEF parity
<1>5. \A j \in 0 .. M : parity[j] \in Elements /\ poly[j] \in Elements
  BY <1>1, <1>3 DEF Row
<1>6. tail \in [1 .. NROOTS -> Elements] /\ \A i \in 1 .. NROOTS : tail[i] = parity[NROOTS - i]
  <2>1. \A i \in 1 .. NROOTS : NROOTS - i \in 0 .. M
    BY <1>0
  <2> QED  BY <1>5, <2>1
<1> HIDE DEF tail
<1> DEFINE E == Elements
<1>7. msg \in Seq(E) /\ Len(msg) = MESSAGE /\ tail \in Seq(E) /\ Len(tail) = NROOTS
  BY <1>0, <1>6, FunctionIsSeq
<1>8. \A i \in 0 .. M : word[i] = Encode(msg)[BLOCK - i]
  BY DEF Reversed
<1> HIDE DEF word
<1>9. ASSUME NEW i \in 0 .. M
      PROVE  word[i] = Add(poly[i], parity[i])
  <2>1. CASE i < NROOTS
    <3> DEFINE k == NROOTS - i
    <3>1. k \in 1 .. NROOTS /\ BLOCK - i = MESSAGE + k /\ NROOTS - k = i
      BY <1>0, <2>1
    <3> HIDE DEF k
    <3>2. (msg \o tail)[MESSAGE + k] = tail[k]
      <4> HIDE DEF E
      <4> QED  BY <1>0, <1>7, <3>1
    <3>3. word[i] = parity[i]
      BY <1>4, <1>6, <1>8, <3>1, <3>2
    <3>4. Add(0, parity[i]) = parity[i]
      BY <1>5, AddFour
    <3> QED  BY <1>2, <2>1, <3>3, <3>4
  <2>2. CASE ~(i < NROOTS)
    <3>1. BLOCK - i \in 1 .. MESSAGE /\ i \in NROOTS .. M
      BY <1>0, <2>2
    <3>2. (msg \o tail)[BLOCK - i] = msg[BLOCK - i]
      <4> DEFINE k == BLOCK - i
      <4>1. k \in 1 .. MESSAGE
        BY <3>1
      <4> HIDE DEF E, k
      <4>2. (msg \o tail)[k] = msg[k]
        BY <1>0, <1>7, <4>1
      <4> QED  BY <4>2 DEF k
    <3>3. word[i] = poly[i] /\ parity[i] = 0
      BY <1>2, <1>3, <1>4, <1>8, <2>2, <3>1, <3>2
    <3>4. Add(poly[i], 0) = poly[i]
      BY <1>5, AddGroup
    <3> QED  BY <3>3, <3>4
  <2> QED  BY <2>1, <2>2
<1>10. Terms(poly, M) /\ Terms(parity, M)
  BY <1>5 DEF Terms
<1> TAKE l \in 0 .. NROOTS - 1
<1> DEFINE x == Roots[l]
           T == PowerTable(x, M)
           R == [j \in 0 .. M |-> Exp[T[j]]]
           v == Value(poly, M, R)
<1>11. RootPowers[l] = T
  BY DEF RootPowers
<1>12. x \in Elements \ {0}
  BY RootsNonzero
<1>13. T[0] # 0 /\ PowersOf(R, x, M) /\ T \in Row(M)
  <2> HIDE DEF x
  <2> QED  BY <1>0, <1>12, PowerTablePowers, PowerTableType
<1>14. Value(parity, M, R) = v
  BY <1>3, <1>13
<1>15. Terms(R, M)
  <2> HIDE DEF R, x
  <2> QED  BY <1>13 DEF PowersOf
<1>16. word \in Row(M)
  <2>1. word = [i \in 0 .. M |-> word[i]]
    BY DEF word, Reversed
  <2>2. \A i \in 0 .. M : Add(poly[i], parity[i]) \in Elements
    BY <1>5, AddGroup
  <2> QED  BY <1>9, <2>1, <2>2 DEF Row
<1> HIDE DEF T
<1>17. EvalTable(word, M, T) = Value(word, M, R)
  BY <1>0, <1>13, <1>16, EvalTableValue
<1> HIDE DEF R, x, M
<1>18. v \in Elements
  BY <1>0, <1>10, <1>15, ValueTerms
<1>19. Value(word, M, R) = Add(v, Value(parity, M, R))
  BY <1>0, <1>9, <1>10, <1>15, ValueAdd
<1>20. Value(word, M, R) = 0
  BY <1>14, <1>18, <1>19, AddFour
<1> QED  BY <1>11, <1>17, <1>20 DEF word, M

----------------------------------------------------------------------------
(* Powers, inverses, and the places of a block. *)

\* The rest of a sum.
LEMMA RestSum ==
    ASSUME NEW a \in Nat, NEW b \in Nat, NEW m \in Nat \ {0}
    PROVE  LET s == (a % m) + (b % m)
           IN  (a + b) % m = IF s < m THEN s ELSE s - m
<1> DEFINE qa == a \div m
           qb == b \div m
           ra == a % m
           rb == b % m
           s == ra + rb
<1>1. /\ qa \in Nat /\ ra \in 0 .. m - 1 /\ a = m * qa + ra
      /\ qb \in Nat /\ rb \in 0 .. m - 1 /\ b = m * qb + rb
  BY Division
<1> HIDE DEF qa, qb, ra, rb
<1>2. CASE s < m
  <2>1. a + b = m * (qa + qb) + s /\ s \in 0 .. m - 1 /\ qa + qb \in Nat /\ a + b \in Nat
    BY <1>1, <1>2
  <2>2. (a + b) % m = s
    BY <2>1, Quotient
  <2> QED  BY <1>2, <2>2 DEF s, ra, rb
<1>3. CASE ~(s < m)
  <2>1. a + b = m * (qa + qb + 1) + (s - m) /\ s - m \in 0 .. m - 1 /\ qa + qb + 1 \in Nat /\ a + b \in Nat
    BY <1>1, <1>3
  <2>2. (a + b) % m = s - m
    BY <2>1, Quotient
  <2> QED  BY <1>3, <2>2 DEF s, ra, rb
<1> QED  BY <1>2, <1>3

\* The powers of alpha, for every exponent.
Alpha(n) == Exp[n % (FIELD - 1)]

\* The powers of the first power, with exponents of any size.
LEMMA AlphaLaws ==
    ASSUME NEW a \in Nat, NEW b \in Nat
    PROVE  /\ Alpha(a) \in Elements \ {0} /\ Alpha(0) = 1
           /\ Alpha(a + b) = Mul(Alpha(a), Alpha(b))
<1> DEFINE m == FIELD - 1
           i == a % m
           j == b % m
           x == Exp[i]
           l == Log[x]
<1>0. m \in Nat \ {0} /\ FIELD = m + 1 /\ m >= 3
  BY FieldSize
<1>1. i \in 0 .. m - 1 /\ j \in 0 .. m - 1 /\ 0 % m = 0
  <2> HIDE DEF m
  <2> QED  BY <1>0, Division
<1>2. x \in Elements \ {0} /\ \A k \in 0 .. 2 * FIELD - 1 : Exp[k] \in Elements \ {0}
  <2>1. i \in 0 .. 2 * FIELD - 1
    BY <1>0, <1>1
  <2> HIDE DEF i
  <2> QED  BY <2>1, ExpType, ExpPeriod
<1>3. Alpha(a) = x /\ Alpha(b) = Exp[j] /\ Alpha(0) = 1
  BY <1>1, ExpType DEF Alpha
<1>4. (a + b) % m = IF i + j < m THEN i + j ELSE (i + j) - m
  <2> HIDE DEF m
  <2> QED  BY <1>0, RestSum
<1>5. Alpha(a + b) = Exp[(a + b) % m]
  BY DEF Alpha
<1> HIDE DEF i, j
<1>6. Exp[(a + b) % m] = Exp[i + j]
  <2>1. CASE i + j < m
    BY <1>4, <2>1
  <2>2. CASE ~(i + j < m)
    <3> DEFINE k == (i + j) - m
    <3>1. k \in 0 .. FIELD /\ FIELD - 1 + k = i + j /\ (a + b) % m = k
      BY <1>0, <1>1, <1>4, <2>2
    <3> HIDE DEF k
    <3>2. Exp[FIELD - 1 + k] = Exp[k]
      BY <3>1, ExpPeriod
    <3> QED  BY <3>1, <3>2
  <2> QED  BY <2>1, <2>2
<1>7. l \in 1 .. m /\ Exp[l] = Exp[i]
  BY <1>0, <1>2, LogType
<1>8. Mul(x, Exp[j]) = Exp[l + j]
  <2>1. j \in 0 .. FIELD - 1
    BY <1>0, <1>1
  <2> HIDE DEF x
  <2> QED  BY <1>2, <2>1, MulPower DEF l
<1> HIDE DEF l
<1>9. Exp[l + j] = Exp[i + j]
  <2>1. l \in Nat /\ i \in Nat /\ j \in Nat /\ l + j <= 2 * FIELD - 1 /\ i + j <= 2 * FIELD - 1
    BY <1>0, <1>1, <1>7
  <2> QED  BY <1>7, <2>1, ExpShift
<1> QED  BY <1>2, <1>3, <1>5, <1>6, <1>8, <1>9

\* Powers of an element, and powers of powers.
LEMMA PowLaws ==
    ASSUME NEW x \in Elements \ {0}, NEW n \in Nat, NEW k \in Nat
    PROVE  /\ Pow(x, n) \in Elements \ {0}
           /\ Pow(x, 0) = 1 /\ Pow(x, 1) = x
           /\ Pow(x, n + k) = Mul(Pow(x, n), Pow(x, k))
           /\ Pow(x, n + 1) = Mul(Pow(x, n), x)
<1> DEFINE l == Log[x]
           a == l * n
           b == l * k
<1>0. FIELD - 1 \in Nat /\ FIELD - 1 >= 3
  BY FieldSize
<1>1. l \in 1 .. FIELD - 1 /\ l \in Nat /\ Exp[l] = x
  BY <1>0, LogType
<1>2. \A e \in Nat : Pow(x, e) = Alpha(l * e)
  BY DEF Pow, Alpha
<1> HIDE DEF l
<1>3. a \in Nat /\ b \in Nat /\ l * (n + k) = a + b /\ l * (n + 1) = a + l /\ l * 0 = 0 /\ l * 1 = l
  BY <1>1
<1> HIDE DEF a, b
<1>4. Pow(x, n) = Alpha(a) /\ Pow(x, k) = Alpha(b) /\ Pow(x, n + k) = Alpha(a + b)
      /\ Pow(x, n + 1) = Alpha(a + l) /\ Pow(x, 0) = Alpha(0) /\ Pow(x, 1) = Alpha(l)
  <2>1. n + k \in Nat /\ n + 1 \in Nat /\ 0 \in Nat /\ 1 \in Nat
    OBVIOUS
  <2>2. Pow(x, n) = Alpha(l * n) /\ Pow(x, k) = Alpha(l * k)
    BY <1>2
  <2> QED  BY <1>2, <1>3, <2>1, <2>2 DEF a, b
<1>5. Alpha(l) = x
  <2>1. CASE l < FIELD - 1
    <3>1. l % (FIELD - 1) = l
      BY <1>0, <1>1, <2>1
    <3> QED  BY <1>1, <3>1 DEF Alpha
  <2>2. CASE l = FIELD - 1
    <3>1. l % (FIELD - 1) = 0
      BY <1>0, <2>2
    <3>2. Exp[FIELD - 1] = 1 /\ Exp[0] = 1
      BY MulNext, ExpType
    <3> QED  BY <1>1, <2>2, <3>1, <3>2 DEF Alpha
  <2> QED  BY <1>0, <1>1, <2>1, <2>2
<1>6. Alpha(a) \in Elements \ {0} /\ Alpha(0) = 1 /\ Alpha(a + b) = Mul(Alpha(a), Alpha(b))
      /\ Alpha(a + l) = Mul(Alpha(a), Alpha(l))
  BY <1>1, <1>3, AlphaLaws
<1> QED  BY <1>4, <1>5, <1>6

\* A power of a power.
LEMMA PowPow ==
    ASSUME NEW x \in Elements \ {0}, NEW n \in Nat, NEW k \in Nat
    PROVE  Pow(Pow(x, n), k) = Pow(x, n * k)
<1> DEFINE y == Pow(x, n)
           S == {j \in 0 .. k : Pow(y, j) = Pow(x, n * j)}
<1>1. y \in Elements \ {0}
  BY PowLaws
<1>2. 0 \in S
  <2>1. Pow(x, 0) = 1
    BY PowLaws
  <2>2. Pow(y, 0) = 1
    BY <1>1, PowLaws
  <2>3. n * 0 = 0
    OBVIOUS
  <2> QED  BY <2>1, <2>2, <2>3
<1>3. ASSUME NEW j \in 0 .. k - 1, j \in S
      PROVE  j + 1 \in S
  <2>1. j \in Nat /\ n * j \in Nat /\ n * (j + 1) = n * j + n /\ j + 1 \in 0 .. k
    OBVIOUS
  <2>2. Pow(y, j + 1) = Mul(Pow(y, j), y)
    BY <1>1, <2>1, PowLaws
  <2>3. Pow(x, n * j + n) = Mul(Pow(x, n * j), y)
    BY <2>1, PowLaws
  <2> QED  BY <1>3, <2>1, <2>2, <2>3
<1>4. k \in S
  <2>1. k \in 0 .. k
    OBVIOUS
  <2> HIDE DEF S
  <2> QED  BY <1>2, <1>3, <2>1, UpTo
<1> QED  BY <1>4

\* Every element but 0 has an inverse, which is what dividing by it multiplies with.
LEMMA DivLaws ==
    ASSUME NEW x \in Elements \ {0}, NEW y \in Elements
    PROVE  /\ Div(1, x) \in Elements \ {0} /\ Mul(x, Div(1, x)) = 1
           /\ Div(y, x) = Mul(y, Div(1, x))
           /\ Mul(Mul(y, x), Div(1, x)) = y
           /\ Mul(x, y) = 0 => y = 0
<1> DEFINE m == FIELD - 1
           l == Log[x]
           k == Log[y]
           p == m - l
           v == Div(1, x)
<1>0. m \in Nat \ {0} /\ FIELD = m + 1 /\ m >= 3 /\ 1 \in Elements \ {0}
  BY FieldSize DEF Elements
<1>1. l \in 1 .. m /\ (y # 0 => k \in 1 .. m) /\ Log[1] = m
  BY LogType
<1>2. p \in 0 .. m - 1 /\ p \in 0 .. FIELD - 1 /\ p \in 0 .. FIELD
  BY <1>0, <1>1
<1>3. v = Exp[p]
  <2>1. v = Exp[FIELD - 1 + Log[1] - l]
    BY <1>0 DEF Div
  <2>2. FIELD - 1 + Log[1] - l = FIELD - 1 + p
    BY <1>0, <1>1
  <2>3. Exp[FIELD - 1 + p] = Exp[p]
    <3> HIDE DEF p
    <3> QED  BY <1>2, ExpPeriod
  <2> QED  BY <2>1, <2>2, <2>3
<1>4. v \in Elements \ {0}
  <2>1. p \in 0 .. 2 * FIELD - 1
    BY <1>0, <1>2
  <2> HIDE DEF p, v
  <2> QED  BY <1>3, <2>1, ExpType, ExpPeriod
<1>5. Mul(x, v) = 1
  <2>1. Mul(x, Exp[p]) = Exp[l + p]
    <3> HIDE DEF p
    <3> QED  BY <1>2, MulPower
  <2>2. l + p = FIELD - 1
    BY <1>0, <1>1
  <2>3. Exp[FIELD - 1] = 1
    BY MulNext
  <2> HIDE DEF p, v, l
  <2> QED  BY <1>3, <2>1, <2>2, <2>3
<1>6. Div(y, x) = Mul(y, v)
  <2>1. CASE y = 0
    BY <1>4, <2>1 DEF Div, Mul
  <2>2. CASE y # 0
    <3>1. Div(y, x) = Exp[FIELD - 1 + k - l]
      BY <2>2 DEF Div
    <3>2. FIELD - 1 + k - l = k + p
      BY <1>0, <1>1, <2>2
    <3>3. Mul(y, Exp[p]) = Exp[k + p]
      <4> HIDE DEF p
      <4> QED  BY <1>2, <2>2, MulPower
    <3> HIDE DEF p, v, k
    <3> QED  BY <1>3, <3>1, <3>2, <3>3
  <2> QED  BY <2>1, <2>2
<1> HIDE DEF v
<1>7. Mul(Mul(y, x), v) = y
  <2>1. Mul(Mul(y, x), v) = Mul(y, Mul(x, v)) /\ Mul(y, 1) = y
    BY <1>4, FieldLaws
  <2> QED  BY <1>5, <2>1
<1>8. Mul(x, y) = 0 => y = 0
  <2>1. Mul(x, y) = Mul(y, x) /\ Mul(0, v) = 0
    BY <1>0, <1>4, FieldLaws
  <2> QED  BY <1>7, <2>1
<1> QED  BY <1>4, <1>5, <1>6, <1>7, <1>8 DEF v

LAST == BLOCK - 1

\* The power of alpha that stands for a place in a block.
Spot(m) == Pow(Exp[1], GAP * m)

\* Each place has one of its own.
LEMMA Spots ==
    /\ Exp[1] \in Elements \ {0}
    /\ \A m \in Nat : Spot(m) \in Elements \ {0} /\ Spot(m) = Alpha(GAP * m)
    /\ \A x \in Elements : Pow(x, GAP) = Spot(Log[x])
    /\ \A m, k \in 1 .. FIELD - 1 : Spot(m) = Spot(k) => m = k
    /\ \A m, k \in 0 .. LAST : Spot(m) = Spot(k) => m = k
    /\ Spot(0) = 1
<1> DEFINE M == FIELD - 1
           D == 1 .. M
<1>0. M \in Nat \ {0} /\ M >= 3 /\ FIELD = M + 1 /\ LAST = M - 1 /\ GAP \in Nat /\ GAP >= 1
  BY FieldSize, RSAssumption DEF LAST
<1>1. Exp[1] \in Elements \ {0}
  BY <1>0, ExpType, ExpPeriod
<1>2. Log[Exp[1]] = 1
  <2> DEFINE l == Log[Exp[1]]
             j == M - 1
  <2>1. l \in 1 .. M /\ Exp[l] = Exp[1]
    BY <1>1, LogType
  <2> HIDE DEF l
  <2>2. Exp[l + j] = Exp[1 + j]
    BY <1>0, <2>1, ExpShift
  <2>3. Exp[1 + j] = 1
    <3>1. 1 + j = FIELD - 1
      BY <1>0
    <3>2. Exp[FIELD - 1] = 1
      BY <1>1, MulNext
    <3> HIDE DEF j
    <3> QED  BY <3>1, <3>2
  <2>4. CASE l = 1
    BY <2>4 DEF l
  <2>5. CASE l # 1
    <3> DEFINE i == l - 1
    <3>1. i \in 1 .. FIELD - 1 /\ i \in 0 .. FIELD /\ i # FIELD - 1 /\ l + j = FIELD - 1 + i
      BY <1>0, <2>1, <2>5
    <3> HIDE DEF i
    <3>2. Exp[i] = 1
      BY <2>2, <2>3, <3>1, ExpPeriod
    <3> QED  BY <3>1, <3>2, PrimitiveAssumption
  <2> QED  BY <2>4, <2>5
<1>3. \A m \in Nat : Spot(m) = Alpha(GAP * m) /\ GAP * m \in Nat
  <2> TAKE m \in Nat
  <2>1. GAP * m \in Nat /\ 1 * (GAP * m) = GAP * m
    BY <1>0
  <2> QED  BY <1>2, <2>1 DEF Spot, Pow, Alpha
<1>4. \A m \in Nat : Spot(m) \in Elements \ {0}
  BY <1>0, <1>3, AlphaLaws
<1>5. ASSUME NEW x \in Elements
      PROVE  Pow(x, GAP) = Spot(Log[x])
  <2> DEFINE l == Log[x]
  <2>1. l \in Nat
    BY <1>0, LogType DEF Elements
  <2>2. Pow(x, GAP) = Alpha(l * GAP)
    BY DEF Pow, Alpha
  <2> HIDE DEF l
  <2>3. l * GAP = GAP * l
    BY <1>0, <2>1
  <2> QED  BY <1>3, <2>1, <2>2, <2>3 DEF l
<1> DEFINE f == [m \in D |-> Spot(m)]
<1>6. f \in Surjection(D, D)
  <2>1. \A m \in D : Spot(m) \in D
    <3>1. \A m \in D : m \in Nat
      OBVIOUS
    <3> QED  BY <1>0, <1>4, <3>1 DEF Elements
  <2>2. ASSUME NEW x \in D
        PROVE  \E m \in D : f[m] = x
    <3>1. PICK j \in D : Pow(j, GAP) = x
      BY GapAssumption
    <3>2. j \in Elements \ {0}
      BY <1>0 DEF Elements
    <3>3. Log[j] \in D /\ Spot(Log[j]) = x
      BY <1>5, <3>1, <3>2, LogType
    <3> QED  BY <3>3
  <2>3. f \in [D -> D]
    BY <2>1
  <2> QED  BY <2>2, <2>3 DEF Surjection
<1>7. f \in Injection(D, D)
  <2>1. IsFiniteSet(D)
    BY <1>0, FS_Interval
  <2> HIDE DEF f, D
  <2> QED  BY <1>6, <2>1, FS_SurjSameCardinalityImpliesInj
<1>8. \A m, k \in D : Spot(m) = Spot(k) => m = k
  <2> TAKE m, k \in D
  <2>1. f[m] = Spot(m) /\ f[k] = Spot(k)
    OBVIOUS
  <2>2. \A a, b \in D : f[a] = f[b] => a = b
    <3> HIDE DEF f, D
    <3> QED  BY <1>7 DEF Injection, IsInjective
  <2> HIDE DEF f, D
  <2> QED  BY <2>1, <2>2
<1>9. Spot(0) = 1 /\ Spot(M) = 1
  <2>1. Spot(0) = 1
    <3>1. GAP * 0 = 0 /\ 0 \in Nat
      BY <1>0
    <3> QED  BY <1>3, <3>1, AlphaLaws
  <2>2. (GAP * M) % M = 0
    <3>1. GAP * M \in Nat /\ 0 \in 0 .. M - 1 /\ GAP * M = M * GAP + 0
      BY <1>0
    <3> HIDE DEF M
    <3> QED  BY <1>0, <3>1, Quotient
  <2>3. Spot(M) = Exp[0]
    BY <1>0, <1>3, <2>2 DEF Alpha
  <2> QED  BY <2>1, <2>3, ExpType
<1>10. ASSUME NEW m \in 0 .. LAST, NEW k \in 0 .. LAST, Spot(m) = Spot(k)
       PROVE  m = k
  <2>1. M \in D /\ \A j \in 0 .. LAST : j # M /\ (j # 0 => j \in D)
    BY <1>0
  <2> HIDE DEF D, M
  <2> QED  BY <1>8, <1>9, <1>10, <2>1
<1> QED  BY <1>1, <1>3, <1>4, <1>5, <1>8, <1>9, <1>10

\* A sum is that of the values of its terms.
LEMMA SumSame ==
    ASSUME NEW n \in Nat, NEW f, Terms(f, n), NEW g, \A i \in 0 .. n : g[i] = f[i]
    PROVE  XorSum(g, n) = XorSum(f, n)
<1>1. Window(f, n, 0, g, n)
  BY DEF Window
<1> QED  BY <1>1, SumWindow

\* A sum with one term at most that is not 0.
LEMMA SumOne ==
    ASSUME NEW n \in Nat, NEW f, Terms(f, n), NEW s \in 0 .. n,
           \A i \in 0 .. n : i # s => f[i] = 0
    PROVE  XorSum(f, n) = f[s]
<1> DEFINE g == [i \in 0 .. 0 |-> f[s]]
<1>1. Window(f, n, s, g, 0)
  BY DEF Window
<1>2. XorSum(f, n) = XorSum(g, 0)
  <2> HIDE DEF g
  <2> QED  BY <1>1, SumWindow
<1>3. Terms(g, 0) /\ g[0] = f[s]
  BY DEF Terms
<1>4. XorSum(g, 0) = g[0]
  <2> HIDE DEF g
  <2> QED  BY <1>3, SumSteps
<1> QED  BY <1>2, <1>3, <1>4

\* A table of n + 1 rows and m + 1 columns.
Grid(F, n, m) == \A i \in 0 .. n : \A j \in 0 .. m : F[i][j] \in Elements

\* Row by row and column by column.
LEMMA SumSwap ==
    ASSUME NEW n \in Nat, NEW m \in Nat, NEW F, Grid(F, n, m)
    PROVE  LET rows == [i \in 0 .. n |-> XorSum(F[i], m)]
               columns == [j \in 0 .. m |-> XorSum([i \in 0 .. n |-> F[i][j]], n)]
           IN  /\ Terms(rows, n) /\ Terms(columns, m)
               /\ XorSum(rows, n) = XorSum(columns, m)
<1> DEFINE rows == [i \in 0 .. n |-> XorSum(F[i], m)]
           col(j) == [i \in 0 .. n |-> F[i][j]]
           part(k) == [j \in 0 .. m |-> XorSum(col(j), k)]
           S == {k \in 0 .. n : XorSum(rows, k) = XorSum(part(k), m)}
<1>0. n \in 0 .. n /\ m \in 0 .. m /\ 0 \in 0 .. n
  OBVIOUS
<1>1. \A i \in 0 .. n : Terms(F[i], m)
  BY DEF Grid, Terms
<1>2. \A j \in 0 .. m : Terms(col(j), n)
  BY DEF Grid, Terms
<1>3. ASSUME NEW i \in 0 .. n
      PROVE  XorSum(F[i], m) \in Elements
  <2>1. Terms(F[i], m)
    BY <1>1
  <2> QED  BY <1>0, <2>1, SumSteps
<1>4. Terms(rows, n) /\ \A i \in 0 .. n : rows[i] = XorSum(F[i], m)
  BY <1>3 DEF Terms
<1>5. ASSUME NEW j \in 0 .. m
      PROVE  /\ XorSum(col(j), 0) = F[0][j]
             /\ \A k \in 0 .. n : XorSum(col(j), k) \in Elements
             /\ \A k \in 0 .. n - 1 : XorSum(col(j), k + 1) = Add(XorSum(col(j), k), F[k + 1][j])
  <2> DEFINE c == col(j)
  <2>1. c[0] = F[0][j] /\ \A k \in 0 .. n - 1 : c[k + 1] = F[k + 1][j]
    BY <1>0
  <2>2. Terms(c, n)
    BY <1>2
  <2> HIDE DEF c
  <2>3. /\ XorSum(c, 0) = c[0] /\ \A k \in 0 .. n : XorSum(c, k) \in Elements
        /\ \A k \in 0 .. n - 1 : XorSum(c, k + 1) = Add(XorSum(c, k), c[k + 1])
    BY <2>2, SumSteps
  <2> QED  BY <2>1, <2>3 DEF c
<1>6. \A k \in 0 .. n : Terms(part(k), m) /\ \A j \in 0 .. m : part(k)[j] = XorSum(col(j), k)
  BY <1>5 DEF Terms
<1>7. /\ XorSum(rows, 0) = rows[0]
      /\ \A k \in 0 .. n - 1 : XorSum(rows, k + 1) = Add(XorSum(rows, k), rows[k + 1])
  <2> HIDE DEF rows
  <2> QED  BY <1>4, SumSteps
<1> HIDE DEF rows, col, part
<1>8. 0 \in S
  <2>1. \A j \in 0 .. m : part(0)[j] = F[0][j]
    BY <1>0, <1>5, <1>6
  <2>2. Terms(F[0], m)
    BY <1>0, <1>1
  <2>3. XorSum(part(0), m) = XorSum(F[0], m)
    BY <2>1, <2>2, SumSame
  <2> QED  BY <1>0, <1>4, <1>7, <2>3
<1>9. ASSUME NEW k \in 0 .. n - 1, k \in S
      PROVE  k + 1 \in S
  <2>1. k + 1 \in 0 .. n /\ k \in 0 .. n
    OBVIOUS
  <2> DEFINE p == part(k)
             q == part(k + 1)
             g == F[k + 1]
  <2>2. Terms(p, m) /\ Terms(q, m) /\ Terms(g, m)
    BY <1>1, <1>6, <2>1
  <2>3. \A j \in 0 .. m : q[j] = Add(p[j], g[j])
    BY <1>5, <1>6, <2>1
  <2> HIDE DEF p, q, g
  <2>4. XorSum(q, m) = Add(XorSum(p, m), XorSum(g, m))
    BY <2>2, <2>3, SumAdd
  <2>5. XorSum(rows, k + 1) = Add(XorSum(rows, k), XorSum(g, m))
    BY <1>4, <1>7, <2>1 DEF g
  <2> QED  BY <1>9, <2>1, <2>4, <2>5 DEF p, q
<1>10. n \in S
  <2> HIDE DEF S
  <2> QED  BY <1>0, <1>8, <1>9, UpTo
<1> DEFINE columns == [j \in 0 .. m |-> XorSum(col(j), n)]
<1>11. columns = part(n)
  BY DEF part
<1> HIDE DEF columns
<1>12. Terms(columns, m) /\ XorSum(rows, n) = XorSum(columns, m)
  BY <1>0, <1>6, <1>10, <1>11
<1> QED  BY <1>4, <1>12 DEF rows, columns, col

\* What a syndrome is of the damage: the sum of powers of the places, weighted.
PowerSum(z, i) == XorSum([m \in 0 .. LAST |-> Mul(z[m], Pow(Spot(m), i))], LAST)
Support(z) == {m \in 0 .. LAST : z[m] # 0}

\* The terms of a power sum are elements.
LEMMA PowerSumTerms ==
    ASSUME NEW z, Terms(z, LAST), NEW i \in Nat
    PROVE  /\ Terms([m \in 0 .. LAST |-> Mul(z[m], Pow(Spot(m), i))], LAST)
           /\ PowerSum(z, i) \in Elements
<1> DEFINE f == [m \in 0 .. LAST |-> Mul(z[m], Pow(Spot(m), i))]
<1>0. LAST \in Nat /\ LAST \in 0 .. LAST
  BY FieldSize DEF LAST
<1>1. \A m \in 0 .. LAST : Mul(z[m], Pow(Spot(m), i)) \in Elements
  <2> TAKE m \in 0 .. LAST
  <2>1. z[m] \in Elements
    BY DEF Terms
  <2>2. Spot(m) \in Elements \ {0}
    BY <1>0, Spots
  <2>3. Pow(Spot(m), i) \in Elements
    BY <2>2, PowLaws
  <2> QED  BY <2>1, <2>3, FieldLaws
<1>2. Terms(f, LAST)
  BY <1>1 DEF Terms
<1> HIDE DEF f
<1>3. XorSum(f, LAST) \in Elements
  BY <1>0, <1>2, SumSteps
<1> QED  BY <1>2, <1>3 DEF f, PowerSum

\* Weights times the distance of their places from the place b.
Away(z, b) == [m \in 0 .. LAST |-> Mul(z[m], Add(Spot(m), b))]

\* The sums of the weights times (place + b), where the weight at the place b is gone, are
\* made of two neighbouring sums.
LEMMA AwaySum ==
    ASSUME NEW z, Terms(z, LAST), NEW b \in Elements, NEW i \in Nat
    PROVE  /\ Terms(Away(z, b), LAST)
           /\ PowerSum(Away(z, b), i) = Add(PowerSum(z, i + 1), Mul(b, PowerSum(z, i)))
<1> DEFINE y == Away(z, b)
           f == [m \in 0 .. LAST |-> Mul(z[m], Pow(Spot(m), i + 1))]
           g == [m \in 0 .. LAST |-> Mul(z[m], Pow(Spot(m), i))]
           h == [m \in 0 .. LAST |-> Mul(y[m], Pow(Spot(m), i))]
           bg == [m \in 0 .. LAST |-> Mul(b, g[m])]
<1>0. LAST \in Nat /\ i + 1 \in Nat
  BY FieldSize DEF LAST
<1>1. ASSUME NEW m \in 0 .. LAST
      PROVE  /\ z[m] \in Elements /\ Spot(m) \in Elements \ {0}
             /\ Pow(Spot(m), i) \in Elements /\ Pow(Spot(m), i + 1) = Mul(Pow(Spot(m), i), Spot(m))
  <2>1. z[m] \in Elements /\ Spot(m) \in Elements \ {0}
    BY <1>0, Spots DEF Terms
  <2> QED  BY <2>1, PowLaws
<1>2. Terms(y, LAST) /\ \A m \in 0 .. LAST : y[m] = Mul(z[m], Add(Spot(m), b))
  <2>1. \A m \in 0 .. LAST : Mul(z[m], Add(Spot(m), b)) \in Elements
    <3> TAKE m \in 0 .. LAST
    <3>1. Add(Spot(m), b) \in Elements
      BY <1>1, AddGroup
    <3> QED  BY <1>1, <3>1, FieldLaws
  <2> QED  BY <2>1 DEF Terms, Away
<1> HIDE DEF y
<1>3. Terms(f, LAST) /\ Terms(g, LAST) /\ Terms(h, LAST)
  BY <1>0, <1>2, PowerSumTerms
<1>4. Terms(bg, LAST)
  <2>1. \A m \in 0 .. LAST : Mul(b, g[m]) \in Elements
    <3> HIDE DEF g
    <3> QED  BY <1>3, FieldLaws DEF Terms
  <2> HIDE DEF g
  <2> QED  BY <2>1 DEF Terms
<1>5. ASSUME NEW m \in 0 .. LAST
      PROVE  h[m] = Add(f[m], bg[m])
  <2> DEFINE u == z[m]
             s == Spot(m)
             p == Pow(s, i)
  <2>1. u \in Elements /\ s \in Elements /\ p \in Elements
    BY <1>1
  <2>2. /\ h[m] = Mul(Mul(u, Add(s, b)), p) /\ f[m] = Mul(u, Mul(p, s))
        /\ bg[m] = Mul(b, Mul(u, p))
    BY <1>1, <1>2
  <2> HIDE DEF u, s, p, f, h, bg
  <2>3. Mul(Mul(u, Add(s, b)), p) = Add(Mul(u, Mul(p, s)), Mul(b, Mul(u, p)))
    <3>1. Add(s, b) \in Elements /\ Mul(u, p) \in Elements /\ Mul(s, p) \in Elements /\ Mul(p, s) = Mul(s, p)
      BY <2>1, AddGroup, FieldLaws
    <3>2. Mul(Mul(u, Add(s, b)), p) = Mul(u, Mul(Add(s, b), p))
      BY <2>1, <3>1, FieldLaws
    <3>3. Mul(Add(s, b), p) = Mul(p, Add(s, b))
      BY <2>1, <3>1, FieldLaws
    <3>4. Mul(u, Mul(p, Add(s, b))) = Mul(Mul(u, p), Add(s, b))
      BY <2>1, <3>1, FieldLaws
    <3>5. Mul(Mul(u, p), Add(s, b)) = Mul(Add(s, b), Mul(u, p))
      BY <2>1, <3>1, FieldLaws
    <3>6. Mul(Add(s, b), Mul(u, p)) = Add(Mul(s, Mul(u, p)), Mul(b, Mul(u, p)))
      BY <2>1, <3>1, FieldLaws
    <3>7. Mul(s, Mul(u, p)) = Mul(Mul(u, p), s)
      BY <2>1, <3>1, FieldLaws
    <3>8. Mul(Mul(u, p), s) = Mul(u, Mul(p, s))
      BY <2>1, <3>1, FieldLaws
    <3> QED  BY <3>2, <3>3, <3>4, <3>5, <3>6, <3>7, <3>8
  <2> QED  BY <2>2, <2>3
<1>6. \A m \in 0 .. LAST : bg[m] = Mul(b, g[m])
  OBVIOUS
<1> HIDE DEF f, g, h, bg
<1>7. XorSum(h, LAST) = Add(XorSum(f, LAST), XorSum(bg, LAST))
  BY <1>0, <1>3, <1>4, <1>5, SumAdd
<1>8. XorSum(bg, LAST) = Mul(b, XorSum(g, LAST))
  BY <1>0, <1>3, <1>4, <1>6, SumScale
<1> QED  BY <1>2, <1>7, <1>8 DEF PowerSum, f, g, h, y

----------------------------------------------------------------------------
(* Power sums of weights at the places. *)

\* Two elements whose sum is 0 are the same.
LEMMA SameSum ==
    ASSUME NEW x \in Elements, NEW y \in Elements
    PROVE  Add(x, y) = 0 <=> x = y
<1>1. Add(Add(x, y), y) = x /\ Add(0, y) = y /\ Add(x, x) = 0
  BY AddGroup, AddFour
<1>2. ASSUME Add(x, y) = 0
      PROVE  x = y
  BY <1>1, <1>2
<1>3. ASSUME x = y
      PROVE  Add(x, y) = 0
  BY <1>1, <1>3
<1> QED  BY <1>2, <1>3

\* As many sums that are 0 as there are weights can only be if the weights are 0:
\* the places are different.
Vanish(z, s, w) == \A i \in 0 .. w - 1 : PowerSum(z, s + i) = 0

\* The places with a weight are finitely many.
LEMMA SupportFinite ==
    ASSUME NEW z
    PROVE  /\ IsFiniteSet(Support(z)) /\ Cardinality(Support(z)) \in Nat
           /\ Cardinality(Support(z)) = 0 => \A m \in 0 .. LAST : z[m] = 0
<1>1. IsFiniteSet(0 .. LAST)
  BY FieldSize, FS_Interval DEF LAST
<1>2. IsFiniteSet(Support(z))
  BY <1>1, FS_Subset DEF Support
<1>3. Cardinality(Support(z)) = 0 => Support(z) = {}
  BY <1>2, FS_EmptySet
<1>4. Support(z) = {} => \A m \in 0 .. LAST : z[m] = 0
  BY DEF Support
<1> QED  BY <1>2, <1>3, <1>4, FS_CardinalityType

\* As many power sums in a row as there are weights are not all 0, unless all weights are.
LEMMA Vandermonde ==
    ASSUME NEW w \in Nat, NEW s \in Nat, NEW z, Terms(z, LAST),
           Cardinality(Support(z)) <= w, Vanish(z, s, w)
    PROVE  \A m \in 0 .. LAST : z[m] = 0
<1> DEFINE Light(y, v) == Terms(y, LAST) /\ Cardinality(Support(y)) <= v /\ Vanish(y, s, v)
           Null(y) == \A m \in 0 .. LAST : y[m] = 0
           W == [0 .. LAST -> Elements]
           S == {v \in 0 .. w : \A y \in W : Light(y, v) => Null(y)}
<1>0. LAST \in Nat /\ LAST \in 0 .. LAST /\ 0 \in Elements
  BY FieldSize DEF LAST, Elements
<1>1. 0 \in S
  <2> SUFFICES ASSUME NEW y \in W, Light(y, 0) PROVE Null(y)
    OBVIOUS
  <2>1. Cardinality(Support(y)) <= 0 /\ Cardinality(Support(y)) \in Nat
    BY SupportFinite
  <2>2. Cardinality(Support(y)) = 0
    BY <2>1
  <2> QED  BY <2>2, SupportFinite
<1>2. ASSUME NEW v \in 0 .. w - 1, v \in S
      PROVE  v + 1 \in S
  <2> SUFFICES ASSUME NEW y \in W, Light(y, v + 1) PROVE Null(y)
    OBVIOUS
  <2>1. Terms(y, LAST) /\ \A m \in 0 .. LAST : y[m] \in Elements
    BY DEF Terms
  <2>2. \A i \in 0 .. v : PowerSum(y, s + i) = 0
    BY DEF Vanish
  <2>3. CASE Support(y) = {}
    BY <2>3 DEF Support
  <2>4. CASE Support(y) # {}
    <3>1. PICK m0 \in 0 .. LAST : y[m0] # 0
      BY <2>4 DEF Support
    <3> DEFINE b == Spot(m0)
               x == Away(y, b)
    <3>2. b \in Elements \ {0} /\ \A m \in 0 .. LAST : Spot(m) \in Elements
      BY <1>0, Spots
    <3>3. x \in W
      <4>1. Terms(Away(y, b), LAST)
        <5>1. 0 \in Nat
          OBVIOUS
        <5> HIDE DEF b
        <5> QED  BY <2>1, <3>2, <5>1, AwaySum
      <4> HIDE DEF b
      <4>2. x = [m \in 0 .. LAST |-> x[m]]
        BY DEF Away
      <4> QED  BY <4>1, <4>2 DEF Terms
    <3>4. Light(x, v)
      <4>1. Terms(x, LAST)
        <5> HIDE DEF x
        <5> QED  BY <3>3 DEF Terms
      <4>2. Cardinality(Support(x)) <= v
        <5>1. ASSUME NEW m \in 0 .. LAST
              PROVE  x[m] # 0 <=> y[m] # 0 /\ m # m0
          <6>1. x[m] = Mul(y[m], Add(Spot(m), b))
            BY DEF Away
          <6>2. Add(Spot(m), b) = 0 <=> m = m0
            BY <3>2, Spots, SameSum
          <6> DEFINE u == y[m]
                     d == Add(Spot(m), b)
          <6>3. u \in Elements /\ d \in Elements
            BY <2>1, <3>2, AddGroup
          <6> HIDE DEF u, d, x
          <6>4. Mul(u, d) = 0 <=> u = 0 \/ d = 0
            <7>1. u # 0 /\ Mul(u, d) = 0 => d = 0
              BY <6>3, DivLaws
            <7>2. Mul(0, d) = 0 /\ Mul(u, 0) = 0
              BY <6>3, FieldLaws
            <7> QED  BY <7>1, <7>2
          <6> QED  BY <6>1, <6>2, <6>4 DEF u, d
        <5>2. Support(x) = Support(y) \ {m0}
          <6> HIDE DEF x
          <6> QED  BY <5>1 DEF Support
        <5>3. m0 \in Support(y)
          BY <3>1 DEF Support
        <5>4. Cardinality(Support(x)) = Cardinality(Support(y)) - 1
          <6> HIDE DEF x
          <6> QED  BY <5>2, <5>3, SupportFinite, FS_RemoveElement
        <5>5. Cardinality(Support(y)) <= v + 1 /\ Cardinality(Support(y)) \in Nat
          BY SupportFinite
        <5> QED  BY <5>4, <5>5
      <4>3. Vanish(x, s, v)
        <5> SUFFICES ASSUME NEW i \in 0 .. v - 1 PROVE PowerSum(x, s + i) = 0
          BY DEF Vanish
        <5>1. i \in 0 .. v /\ i + 1 \in 0 .. v /\ s + i \in Nat /\ (s + i) + 1 = s + (i + 1)
          OBVIOUS
        <5> DEFINE k == s + i
        <5>2. PowerSum(y, k) = 0 /\ PowerSum(y, k + 1) = 0
          BY <2>2, <5>1
        <5> HIDE DEF k, b
        <5>3. k \in Nat
          BY <5>1 DEF k
        <5>4. PowerSum(x, k) = Add(PowerSum(y, k + 1), Mul(b, PowerSum(y, k)))
          BY <2>1, <3>2, <5>3, AwaySum
        <5>5. Mul(b, 0) = 0 /\ Add(0, 0) = 0
          BY <1>0, <3>2, FieldLaws, AddGroup
        <5> QED  BY <5>2, <5>4, <5>5 DEF k
      <4> QED  BY <4>1, <4>2, <4>3
    <3>5. Null(x)
      BY <1>2, <3>3, <3>4
    <3>6. ASSUME NEW m \in 0 .. LAST, m # m0
          PROVE  y[m] = 0
      <4> DEFINE d == Add(Spot(m), b)
      <4>1. Mul(y[m], d) = 0
        BY <3>5 DEF Away
      <4>2. d # 0 /\ d \in Elements
        BY <3>2, <3>6, Spots, SameSum, AddGroup
      <4> HIDE DEF d
      <4>3. Mul(d, y[m]) = 0
        BY <2>1, <4>1, <4>2, FieldLaws
      <4> QED  BY <2>1, <4>2, <4>3, DivLaws
    <3> DEFINE f == [m \in 0 .. LAST |-> Mul(y[m], Pow(Spot(m), s))]
               p == Pow(b, s)
    <3>7. Terms(f, LAST)
      BY <2>1, PowerSumTerms
    <3>8. \A m \in 0 .. LAST : m # m0 => f[m] = 0
      <4> TAKE m \in 0 .. LAST
      <4> HAVE m # m0
      <4>1. Pow(Spot(m), s) \in Elements
        BY <1>0, Spots, PowLaws
      <4> QED  BY <3>6, <4>1, FieldLaws
    <3>9. f[m0] = Mul(y[m0], p) /\ p \in Elements \ {0}
      BY <3>2, PowLaws
    <3> HIDE DEF f, p, b, x
    <3>10. XorSum(f, LAST) = f[m0]
      BY <1>0, <3>7, <3>8, SumOne
    <3>11. XorSum(f, LAST) = 0
      <4>1. 0 \in 0 .. v /\ s + 0 = s
        OBVIOUS
      <4>2. PowerSum(y, s) = 0
        BY <2>2, <4>1
      <4> QED  BY <4>2 DEF PowerSum, f
    <3>12. Mul(p, y[m0]) = 0
      BY <2>1, <3>9, <3>10, <3>11, FieldLaws
    <3>13. y[m0] = 0
      BY <2>1, <3>9, <3>12, DivLaws
    <3> QED  BY <3>1, <3>13
  <2> QED  BY <2>3, <2>4
<1>3. w \in S
  <2>1. w \in 0 .. w
    OBVIOUS
  <2> HIDE DEF S
  <2> QED  BY <1>1, <1>2, <2>1, UpTo
<1> DEFINE y == [m \in 0 .. LAST |-> z[m]]
<1>4. \A m \in 0 .. LAST : y[m] = z[m]
  OBVIOUS
<1>5. y \in W
  BY DEF Terms
<1>6. Light(y, w)
  <2>1. Terms(y, LAST)
    BY DEF Terms
  <2>2. Support(y) = Support(z)
    BY DEF Support
  <2>3. \A i : PowerSum(y, i) = PowerSum(z, i)
    <3> TAKE i
    <3>1. [m \in 0 .. LAST |-> Mul(y[m], Pow(Spot(m), i))] = [m \in 0 .. LAST |-> Mul(z[m], Pow(Spot(m), i))]
      BY <1>4
    <3> QED  BY <3>1 DEF PowerSum
  <2> HIDE DEF y
  <2> QED  BY <2>1, <2>2, <2>3 DEF Vanish
<1>7. Null(y)
  <2> HIDE DEF Light, Null, W, y
  <2> QED  BY <1>3, <1>5, <1>6
<1> QED  BY <1>4, <1>7

----------------------------------------------------------------------------
(* The syndromes of a block are the power sums of its errors. *)

\* What the polynomial c of order n is worth at x.
At(c, n, x) == Value(c, n, [j \in 0 .. n |-> Pow(x, j)])

\* The powers of an element, as a row.
LEMMA PowRow ==
    ASSUME NEW x \in Elements \ {0}, NEW n \in Nat
    PROVE  PowersOf([j \in 0 .. n |-> Pow(x, j)], x, n)
<1> DEFINE R == [j \in 0 .. n |-> Pow(x, j)]
<1>1. \A j \in 0 .. n : R[j] = Pow(x, j)
  OBVIOUS
<1> HIDE DEF R
<1>2. Terms(R, n)
  <2>1. \A j \in 0 .. n : Pow(x, j) \in Elements
    BY PowLaws
  <2> QED  BY <1>1, <2>1 DEF Terms
<1>3. R[0] = 1
  <2>1. 0 \in 0 .. n /\ 0 \in Nat
    OBVIOUS
  <2> QED  BY <1>1, <2>1, PowLaws
<1>4. ASSUME NEW j \in 0 .. n - 1
      PROVE  R[j + 1] = Mul(R[j], x)
  <2>1. j \in 0 .. n /\ j + 1 \in 0 .. n /\ j \in Nat
    OBVIOUS
  <2>2. Pow(x, j + 1) = Mul(Pow(x, j), x)
    BY <2>1, PowLaws
  <2> QED  BY <1>1, <2>1, <2>2
<1>5. PowersOf(R, x, n)
  BY <1>2, <1>3, <1>4 DEF PowersOf
<1> QED  BY <1>5 DEF R

\* Any table of the powers of x has them.
LEMMA PowersArePow ==
    ASSUME NEW x \in Elements \ {0}, NEW n \in Nat, NEW R, PowersOf(R, x, n)
    PROVE  \A j \in 0 .. n : R[j] = Pow(x, j)
<1> DEFINE S == {j \in 0 .. n : R[j] = Pow(x, j)}
<1>1. 0 \in S
  <2>1. Pow(x, 0) = 1 /\ R[0] = 1
    BY PowLaws DEF PowersOf
  <2> QED  BY <2>1
<1>2. ASSUME NEW j \in 0 .. n - 1, j \in S
      PROVE  j + 1 \in S
  <2>1. j \in Nat /\ j + 1 \in 0 .. n
    OBVIOUS
  <2>2. R[j + 1] = Mul(R[j], x) /\ Pow(x, j + 1) = Mul(Pow(x, j), x)
    BY <2>1, PowLaws DEF PowersOf
  <2> QED  BY <1>2, <2>1, <2>2
<1> HIDE DEF S
<1>3. \A j \in 0 .. n : j \in S
  BY <1>1, <1>2, UpTo
<1> QED  BY <1>3 DEF S

\* The table of an element has the logarithms of its powers.
LEMMA TablePow ==
    ASSUME NEW x \in Elements \ {0}, NEW n \in Nat
    PROVE  LET T == PowerTable(x, n)
           IN  /\ T[0] # 0
               /\ \A j \in 0 .. n : T[j] \in 0 .. FIELD - 1 /\ Exp[T[j]] = Pow(x, j)
<1> DEFINE T == PowerTable(x, n)
           R == [j \in 0 .. n |-> Exp[T[j]]]
<1>1. T[0] # 0 /\ PowersOf(R, x, n) /\ T \in Row(n)
  BY PowerTablePowers, PowerTableType
<1>2. \A j \in 0 .. n : R[j] = Exp[T[j]]
  OBVIOUS
<1> HIDE DEF R, T
<1>3. \A j \in 0 .. n : R[j] = Pow(x, j)
  BY <1>1, PowersArePow
<1>4. \A j \in 0 .. n : T[j] \in 0 .. FIELD - 1
  BY <1>1 DEF Row, Elements
<1> QED  BY <1>1, <1>2, <1>3, <1>4 DEF T

\* Both ways of evaluating a polynomial with a table of powers find its value.
LEMMA Evaluated ==
    ASSUME NEW x \in Elements \ {0}, NEW n \in Nat, NEW k \in 0 .. n, NEW c, Terms(c, k)
    PROVE  /\ At(c, k, x) \in Elements
           /\ EvalTable(c, k, PowerTable(x, n)) = At(c, k, x)
           /\ EvalLogTable([i \in 0 .. k |-> Log[c[i]]], k, PowerTable(x, n)) = At(c, k, x)
<1> DEFINE T == PowerTable(x, n)
           logs == [i \in 0 .. k |-> Log[c[i]]]
           f == [i \in 0 .. k |-> IF c[i] = 0 THEN 0 ELSE MulLogElement(Log[c[i]], T[i])]
           h == [i \in 0 .. k |-> IF logs[i] = 0 THEN 0 ELSE MulLogElement(logs[i], T[i])]
           R == [j \in 0 .. k |-> Pow(x, j)]
           g == [j \in 0 .. k |-> Mul(c[j], R[j])]
<1>1. T[0] # 0 /\ \A j \in 0 .. n : T[j] \in 0 .. FIELD - 1 /\ Exp[T[j]] = Pow(x, j)
  BY TablePow
<1> HIDE DEF T
<1>2. ASSUME NEW i \in 0 .. k
      PROVE  f[i] = g[i] /\ h[i] = g[i]
  <2>1. c[i] \in Elements /\ i \in 0 .. n
    BY DEF Terms
  <2>2. T[i] \in 0 .. FIELD - 1 /\ Exp[T[i]] = Pow(x, i)
    BY <1>1, <2>1
  <2>3. Mul(c[i], Exp[T[i]]) = IF c[i] = 0 THEN 0 ELSE Exp[Log[c[i]] + T[i]]
    BY <2>1, <2>2, MulPower
  <2>4. Log[c[i]] = 0 <=> c[i] = 0
    BY <2>1, LogType
  <2>5. g[i] = Mul(c[i], Exp[T[i]])
    BY <2>2
  <2>6. f[i] = IF c[i] = 0 THEN 0 ELSE Exp[Log[c[i]] + T[i]]
    BY DEF MulLogElement
  <2>7. h[i] = IF Log[c[i]] = 0 THEN 0 ELSE Exp[Log[c[i]] + T[i]]
    BY DEF MulLogElement
  <2> HIDE DEF f, g, h
  <2> QED  BY <2>3, <2>4, <2>5, <2>6, <2>7
<1>3. f = g /\ h = g
  BY <1>2
<1>4. EvalTable(c, k, T) = XorSum(f, k)
  BY <1>1 DEF EvalTable
<1>5. EvalLogTable(logs, k, T) = XorSum(h, k)
  BY <1>1 DEF EvalLogTable
<1>6. At(c, k, x) = XorSum(g, k)
  BY DEF At, Value
<1>7. At(c, k, x) \in Elements
  <2>1. Terms(R, k)
    <3>1. PowersOf(R, x, k)
      BY PowRow
    <3> HIDE DEF R
    <3> QED  BY <3>1 DEF PowersOf
  <2> HIDE DEF R
  <2>2. Value(c, k, R) \in Elements
    <3>1. k \in Nat
      OBVIOUS
    <3> QED  BY <2>1, <3>1, ValueTerms
  <2> QED  BY <2>2 DEF At, R
<1> QED  BY <1>3, <1>4, <1>5, <1>6, <1>7 DEF T

\* Powers of the inverse take exponents away.
LEMMA PowInverse ==
    ASSUME NEW x \in Elements \ {0}, NEW k \in Nat, NEW j \in 0 .. k
    PROVE  Pow(x, k - j) = Mul(Pow(x, k), Pow(Div(1, x), j))
<1> DEFINE v == Div(1, x)
           S == {i \in 0 .. k : Pow(x, k - i) = Mul(Pow(x, k), Pow(v, i))}
<1>1. v \in Elements \ {0} /\ Mul(x, v) = 1
  BY DivLaws
<1> HIDE DEF v
<1>2. 0 \in S
  <2>1. Pow(v, 0) = 1 /\ Pow(x, k) \in Elements /\ k - 0 = k
    BY <1>1, PowLaws
  <2>2. Mul(Pow(x, k), 1) = Pow(x, k)
    BY <2>1, FieldLaws
  <2> QED  BY <2>1, <2>2
<1>3. ASSUME NEW i \in 0 .. k - 1, i \in S
      PROVE  i + 1 \in S
  <2> DEFINE a == Pow(x, k - (i + 1))
             p == Pow(x, k)
             q == Pow(v, i)
  <2>1. k - (i + 1) \in Nat /\ (k - (i + 1)) + 1 = k - i /\ i \in Nat /\ i + 1 \in 0 .. k
    OBVIOUS
  <2>2. a \in Elements /\ Pow(x, k - i) = Mul(a, x)
    BY <2>1, PowLaws
  <2>3. p \in Elements /\ q \in Elements /\ Pow(v, i + 1) = Mul(q, v)
    BY <1>1, <2>1, PowLaws
  <2>4. Mul(a, x) = Mul(p, q)
    BY <1>3, <2>2
  <2> HIDE DEF a, p, q
  <2>5. Mul(Mul(a, x), v) = Mul(a, Mul(x, v)) /\ Mul(a, 1) = a
    BY <1>1, <2>2, FieldLaws
  <2>6. Mul(Mul(p, q), v) = Mul(p, Mul(q, v))
    BY <1>1, <2>3, FieldLaws
  <2>7. a = Mul(p, Mul(q, v))
    BY <1>1, <2>4, <2>5, <2>6
  <2> QED  BY <2>1, <2>3, <2>7 DEF a, p
<1>4. \A i \in 0 .. k : i \in S
  <2> HIDE DEF S
  <2> QED  BY <1>2, <1>3, UpTo
<1> QED  BY <1>4 DEF v

\* The n-th power of the k-th place is the k-th of the n-th.
LEMMA Crossed ==
    ASSUME NEW m \in Nat, NEW k \in Nat
    PROVE  Pow(Spot(m), k) = Pow(Spot(k), m)
<1>1. GAP \in Nat /\ Exp[1] \in Elements \ {0}
  BY RSAssumption, FieldSize, Spots
<1>2. GAP * m \in Nat /\ GAP * k \in Nat /\ (GAP * m) * k = (GAP * k) * m
  BY <1>1
<1>3. Pow(Spot(m), k) = Pow(Exp[1], (GAP * m) * k)
  BY <1>1, <1>2, PowPow DEF Spot
<1>4. Pow(Spot(k), m) = Pow(Exp[1], (GAP * k) * m)
  BY <1>1, <1>2, PowPow DEF Spot
<1> QED  BY <1>2, <1>3, <1>4

\* What the damage e weighs at its places.
Weights(e) == [m \in 0 .. LAST |-> Mul(e[m], Pow(Spot(m), FIRST_ROOT))]

\* The weights of errors are elements, and 0 only where there is no error.
LEMMA WeightsType ==
    ASSUME NEW e, Terms(e, LAST)
    PROVE  /\ Terms(Weights(e), LAST)
           /\ \A m \in 0 .. LAST : Weights(e)[m] = 0 <=> e[m] = 0
<1>0. FIRST_ROOT \in Nat /\ LAST \in Nat
  BY RSAssumption, FieldSize DEF LAST
<1>1. ASSUME NEW m \in 0 .. LAST
      PROVE  Weights(e)[m] \in Elements /\ (Weights(e)[m] = 0 <=> e[m] = 0)
  <2> DEFINE p == Pow(Spot(m), FIRST_ROOT)
             u == e[m]
  <2>1. p \in Elements \ {0}
    <3>1. Spot(m) \in Elements \ {0}
      BY <1>0, Spots
    <3> QED  BY <1>0, <3>1, PowLaws
  <2>2. u \in Elements /\ Weights(e)[m] = Mul(u, p)
    BY DEF Terms, Weights
  <2> HIDE DEF p, u
  <2>3. Mul(u, p) \in Elements /\ Mul(u, p) = Mul(p, u) /\ Mul(p, 0) = 0
    BY <2>1, <2>2, FieldLaws
  <2>4. Mul(p, u) = 0 => u = 0
    BY <2>1, <2>2, DivLaws
  <2> QED  BY <2>2, <2>3, <2>4 DEF u
<1> QED  BY <1>1 DEF Terms

\* The syndromes of a word of the code that was damaged are the power sums of the damage.
LEMMA GivenSum ==
    ASSUME NEW c \in Row(LAST), NEW e, Terms(e, LAST), NEW r \in Row(LAST),
           \A j \in 0 .. LAST : r[j] = Add(c[j], e[j]),
           NEW l \in 0 .. NROOTS - 1
    PROVE  /\ EvalTable(c, LAST, RootPowers[l]) \in Elements
           /\ EvalTable(r, LAST, RootPowers[l])
                = Add(EvalTable(c, LAST, RootPowers[l]), PowerSum(Weights(e), l))
<1> DEFINE x == Roots[l]
           s == l + FIRST_ROOT
           R == [j \in 0 .. LAST |-> Pow(x, j)]
           v == Value(c, LAST, R)
<1>0. LAST \in Nat /\ LAST \in 0 .. LAST /\ BLOCK - 1 = LAST /\ l \in Nat /\ FIRST_ROOT \in Nat /\ s \in Nat
  BY RSAssumption, FieldSize DEF LAST
<1>1. x \in Elements \ {0}
  BY RootsNonzero
<1>2. RootPowers[l] = PowerTable(x, LAST)
  BY <1>0 DEF RootPowers
<1>3. Terms(c, LAST) /\ Terms(r, LAST)
  BY DEF Terms, Row
<1>4. x = Spot(s)
  <2>1. x = Alpha(GAP * s)
    BY DEF Roots, Alpha
  <2> HIDE DEF x, s
  <2> QED  BY <1>0, <2>1, Spots
<1> HIDE DEF x, s
<1>5. EvalTable(r, LAST, RootPowers[l]) = Value(r, LAST, R) /\ EvalTable(c, LAST, RootPowers[l]) = v
  <2> HIDE DEF R
  <2>1. EvalTable(r, LAST, PowerTable(x, LAST)) = At(r, LAST, x) /\ EvalTable(c, LAST, PowerTable(x, LAST)) = At(c, LAST, x)
    <3>1. EvalTable(r, LAST, PowerTable(x, LAST)) = At(r, LAST, x)
      <4>1. Terms(r, LAST) /\ LAST \in Nat /\ LAST \in 0 .. LAST
        BY <1>0, <1>3
      <4> HIDE DEF LAST
      <4> QED  BY <1>1, <4>1, Evaluated
    <3>2. EvalTable(c, LAST, PowerTable(x, LAST)) = At(c, LAST, x)
      <4>1. Terms(c, LAST) /\ LAST \in Nat /\ LAST \in 0 .. LAST
        BY <1>0, <1>3
      <4> HIDE DEF LAST
      <4> QED  BY <1>1, <4>1, Evaluated
    <3> QED  BY <3>1, <3>2
  <2>2. At(r, LAST, x) = Value(r, LAST, R) /\ At(c, LAST, x) = v
    BY DEF At, R
  <2> QED  BY <1>2, <2>1, <2>2
<1>6. Terms(R, LAST) /\ \A j \in 0 .. LAST : R[j] = Pow(x, j)
  <2>1. PowersOf(R, x, LAST)
    BY <1>0, <1>1, PowRow
  <2>2. \A j \in 0 .. LAST : R[j] = Pow(x, j)
    OBVIOUS
  <2> HIDE DEF R
  <2> QED  BY <2>1, <2>2 DEF PowersOf
<1> HIDE DEF R
<1>7. Value(r, LAST, R) = Add(v, Value(e, LAST, R)) /\ Value(e, LAST, R) \in Elements
  <2>1. Value(r, LAST, R) = Add(Value(c, LAST, R), Value(e, LAST, R))
    BY <1>0, <1>3, <1>6, ValueAdd
  <2>2. Value(e, LAST, R) \in Elements
    BY <1>0, <1>6, ValueTerms
  <2> QED  BY <2>1, <2>2
<1>8. v \in Elements
  BY <1>0, <1>3, <1>6, ValueTerms
<1> DEFINE f == [j \in 0 .. LAST |-> Mul(e[j], R[j])]
           g == [m \in 0 .. LAST |-> Mul(Weights(e)[m], Pow(Spot(m), l))]
<1>9. ASSUME NEW m \in 0 .. LAST
      PROVE  f[m] = g[m]
  <2> DEFINE b == Spot(m)
             u == e[m]
             p == Pow(b, FIRST_ROOT)
             q == Pow(b, l)
  <2>1. m \in Nat /\ b \in Elements \ {0} /\ u \in Elements
    BY <1>0, Spots DEF Terms
  <2>2. p \in Elements /\ q \in Elements /\ Pow(b, s) = Mul(q, p)
    <3>1. s = l + FIRST_ROOT
      BY DEF s
    <3> HIDE DEF b
    <3>2. p \in Elements /\ q \in Elements
      BY <1>0, <2>1, PowLaws
    <3>3. Pow(b, l + FIRST_ROOT) = Mul(Pow(b, l), Pow(b, FIRST_ROOT))
      BY <1>0, <2>1, PowLaws
    <3> QED  BY <3>1, <3>2, <3>3
  <2>3. R[m] = Pow(b, s)
    BY <1>0, <1>4, <1>6, <2>1, Crossed
  <2>4. f[m] = Mul(u, Mul(q, p)) /\ g[m] = Mul(Mul(u, p), q)
    BY <2>2, <2>3 DEF Weights
  <2> HIDE DEF b, u, p, q
  <2>5. Mul(Mul(u, p), q) = Mul(u, Mul(p, q)) /\ Mul(p, q) = Mul(q, p)
    BY <2>1, <2>2, FieldLaws
  <2> QED  BY <2>4, <2>5
<1>10. f = g
  BY <1>9
<1>11. Value(e, LAST, R) = PowerSum(Weights(e), l)
  BY <1>10 DEF Value, PowerSum
<1> HIDE DEF v
<1> QED  BY <1>5, <1>7, <1>8, <1>11

\* The syndromes of a word of the code and errors are those of the errors.
LEMMA SyndromeSum ==
    ASSUME NEW c \in Row(LAST), NEW e, Terms(e, LAST), NEW r \in Row(LAST),
           \A j \in 0 .. LAST : r[j] = Add(c[j], e[j]),
           NEW l \in 0 .. NROOTS - 1, EvalTable(c, LAST, RootPowers[l]) = 0
    PROVE  EvalTable(r, LAST, RootPowers[l]) = PowerSum(Weights(e), l)
<1> DEFINE s == PowerSum(Weights(e), l)
<1>1. EvalTable(r, LAST, RootPowers[l]) = Add(EvalTable(c, LAST, RootPowers[l]), s)
  BY GivenSum
<1>2. s \in Elements
  <2>1. Terms(Weights(e), LAST) /\ l \in Nat
    BY WeightsType
  <2> QED  BY <2>1, PowerSumTerms
<1> HIDE DEF s
<1>3. Add(0, s) = s
  BY <1>2, AddFour
<1> QED  BY <1>1, <1>3 DEF s

----------------------------------------------------------------------------
(* Polynomials at the inverses of the places, and Massey's theorem. *)

\* The value of a sum, and that of a multiple s places up.
LEMMA AtAdd ==
    ASSUME NEW x \in Elements \ {0}, NEW n \in Nat, NEW c, NEW d, NEW e, Terms(c, n), Terms(d, n),
           \A j \in 0 .. n : e[j] = Add(c[j], d[j])
    PROVE  Terms(e, n) /\ At(e, n, x) = Add(At(c, n, x), At(d, n, x))
<1> DEFINE R == [j \in 0 .. n |-> Pow(x, j)]
<1>1. PowersOf(R, x, n)
  BY PowRow
<1> HIDE DEF R
<1>2. Terms(R, n)
  BY <1>1 DEF PowersOf
<1>3. Terms(e, n) /\ Value(e, n, R) = Add(Value(c, n, R), Value(d, n, R))
  BY <1>2, ValueAdd
<1> QED  BY <1>3 DEF At, R

\* The value of a polynomial that was shifted up and scaled.
LEMMA AtPlaced ==
    ASSUME NEW x \in Elements \ {0}, NEW m \in Nat, NEW n \in Nat, NEW s \in Nat, NEW y \in Elements,
           NEW c, Terms(c, n), NEW d, Placed(d, m, y, c, n, s)
    PROVE  Terms(d, m) /\ At(d, m, x) = Mul(Mul(y, Pow(x, s)), At(c, n, x))
<1> DEFINE R == [j \in 0 .. m |-> Pow(x, j)]
           Q == [j \in 0 .. n |-> Pow(x, j)]
<1>1. PowersOf(R, x, m)
  BY PowRow
<1>2. s \in 0 .. m /\ \A j \in 0 .. n : j \in 0 .. m
  BY DEF Placed
<1>3. R[s] = Pow(x, s) /\ \A j \in 0 .. n : R[j] = Q[j]
  BY <1>2
<1>4. Value(c, n, R) = Value(c, n, Q)
  <2>1. [j \in 0 .. n |-> Mul(c[j], R[j])] = [j \in 0 .. n |-> Mul(c[j], Q[j])]
    BY <1>3
  <2> HIDE DEF R, Q
  <2> QED  BY <2>1 DEF Value
<1>5. At(d, m, x) = Value(d, m, R) /\ At(c, n, x) = Value(c, n, Q)
  BY DEF At
<1> HIDE DEF R, Q
<1>6. Terms(d, m) /\ Value(d, m, R) = Mul(Mul(y, R[s]), Value(c, n, R))
  BY <1>1, ValuePlaced
<1> QED  BY <1>3, <1>4, <1>5, <1>6

\* The value of a polynomial is an element.
LEMMA AtType ==
    ASSUME NEW x \in Elements \ {0}, NEW n \in Nat, NEW c, Terms(c, n)
    PROVE  At(c, n, x) \in Elements
<1> DEFINE k == n
<1>1. k \in 0 .. n
  OBVIOUS
<1>2. Terms(c, k)
  OBVIOUS
<1> HIDE DEF k
<1>3. At(c, k, x) \in Elements
  BY <1>1, <1>2, Evaluated
<1> QED  BY <1>3 DEF k

\* A polynomial is worth its constant and what it is worth without, one place down.
LEMMA AtConstant ==
    ASSUME NEW x \in Elements \ {0}, NEW c, c[0] \in Elements
    PROVE  At(c, 0, x) = c[0]
<1> DEFINE f == [j \in 0 .. 0 |-> Mul(c[j], [i \in 0 .. 0 |-> Pow(x, i)][j])]
<1>1. At(c, 0, x) = XorSum(f, 0)
  BY DEF At, Value
<1>2. f[0] = c[0]
  <2>1. 0 \in Nat /\ f[0] = Mul(c[0], Pow(x, 0))
    OBVIOUS
  <2>2. Pow(x, 0) = 1 /\ Mul(c[0], 1) = c[0]
    BY <2>1, PowLaws, FieldLaws
  <2> HIDE DEF f
  <2> QED  BY <2>1, <2>2
<1> HIDE DEF f
<1>3. Terms(f, 0)
  BY <1>2 DEF Terms
<1>4. XorSum(f, 0) = f[0]
  BY <1>3, SumSteps
<1> QED  BY <1>1, <1>2, <1>4

\* Where the inverse of a place is, and the weights times a polynomial there.
Far(m) == Div(1, Spot(m))
Weighted(y, c, n) == [m \in 0 .. LAST |-> Mul(y[m], At(c, n, Far(m)))]

\* The inverse of a place.
LEMMA FarType == \A m \in Nat : Far(m) \in Elements \ {0} /\ Mul(Spot(m), Far(m)) = 1
<1> TAKE m \in Nat
<1>1. Spot(m) \in Elements \ {0}
  BY Spots
<1> QED  BY <1>1, DivLaws DEF Far

\* Weights times the values of a polynomial, which are 0 where either is.
LEMMA WeightedType ==
    ASSUME NEW y, Terms(y, LAST), NEW n \in Nat, NEW c, Terms(c, n)
    PROVE  /\ Terms(Weighted(y, c, n), LAST)
           /\ \A m \in 0 .. LAST :
                 Weighted(y, c, n)[m] = 0 <=> y[m] = 0 \/ At(c, n, Far(m)) = 0
<1>0. LAST \in Nat
  BY FieldSize DEF LAST
<1>1. ASSUME NEW m \in 0 .. LAST
      PROVE  /\ Weighted(y, c, n)[m] \in Elements
             /\ Weighted(y, c, n)[m] = 0 <=> y[m] = 0 \/ At(c, n, Far(m)) = 0
  <2> DEFINE u == y[m]
             v == At(c, n, Far(m))
  <2>1. Far(m) \in Elements \ {0}
    BY <1>0, FarType
  <2>2. u \in Elements /\ v \in Elements /\ Weighted(y, c, n)[m] = Mul(u, v)
    BY <2>1, AtType DEF Terms, Weighted
  <2> HIDE DEF u, v
  <2>3. Mul(u, v) \in Elements /\ Mul(u, 0) = 0 /\ Mul(0, v) = 0
    BY <2>2, FieldLaws
  <2>4. u # 0 /\ Mul(u, v) = 0 => v = 0
    BY <2>2, DivLaws
  <2> QED  BY <2>2, <2>3, <2>4 DEF u, v
<1> QED  BY <1>1 DEF Terms

\* The syndromes S are the power sums of the weights y.
SumsOf(S, y) == \A l \in 0 .. NROOTS - 1 : S[l] = PowerSum(y, l)

\* The product with the syndromes, coefficient by coefficient, is a power sum again, of the
\* weights times the polynomial.
LEMMA Convolution ==
    ASSUME NEW y, Terms(y, LAST), NEW S, SumsOf(S, y),
           NEW n \in Nat, NEW c, Terms(c, n), NEW k \in 0 .. NROOTS - 1, n <= k
    PROVE  LET g == [j \in 0 .. n |-> Mul(c[j], S[k - j])]
           IN  Terms(g, n) /\ XorSum(g, n) = PowerSum(Weighted(y, c, n), k)
<1> DEFINE q(j) == [m \in 0 .. LAST |-> Mul(y[m], Pow(Spot(m), k - j))]
           F == [j \in 0 .. n |-> [m \in 0 .. LAST |-> Mul(c[j], q(j)[m])]]
           g == [j \in 0 .. n |-> Mul(c[j], S[k - j])]
           w == Weighted(y, c, n)
           h == [m \in 0 .. LAST |-> Mul(w[m], Pow(Spot(m), k))]
           rows == [j \in 0 .. n |-> XorSum(F[j], LAST)]
           columns == [m \in 0 .. LAST |-> XorSum([j \in 0 .. n |-> F[j][m]], n)]
<1>0. LAST \in Nat /\ k \in Nat /\ NROOTS \in Nat
  BY FieldSize DEF LAST
<1>1. ASSUME NEW j \in 0 .. n
      PROVE  /\ k - j \in Nat /\ k - j \in 0 .. NROOTS - 1 /\ c[j] \in Elements
             /\ Terms(q(j), LAST) /\ XorSum(q(j), LAST) = S[k - j] /\ S[k - j] \in Elements
  <2>1. k - j \in Nat /\ k - j \in 0 .. NROOTS - 1 /\ c[j] \in Elements
    BY <1>0 DEF Terms
  <2>2. Terms(q(j), LAST) /\ PowerSum(y, k - j) \in Elements
    BY <2>1, PowerSumTerms
  <2>3. S[k - j] = PowerSum(y, k - j)
    BY <2>1 DEF SumsOf
  <2> QED  BY <2>1, <2>2, <2>3 DEF PowerSum
<1>2. ASSUME NEW j \in 0 .. n
      PROVE  /\ Terms(F[j], LAST) /\ XorSum(F[j], LAST) = g[j] /\ g[j] \in Elements
  <2> DEFINE p == q(j)
             d == c[j]
             f == F[j]
  <2>1. d \in Elements /\ Terms(p, LAST) /\ XorSum(p, LAST) = S[k - j] /\ g[j] = Mul(d, S[k - j])
        /\ S[k - j] \in Elements
    BY <1>1
  <2>2. \A m \in 0 .. LAST : f[m] = Mul(d, p[m])
    OBVIOUS
  <2> HIDE DEF p, d, f, g
  <2>3. Terms(f, LAST)
    <3>1. \A m \in 0 .. LAST : Mul(d, p[m]) \in Elements
      BY <2>1, FieldLaws DEF Terms
    <3> QED  BY <2>2, <3>1 DEF Terms
  <2>4. XorSum(f, LAST) = Mul(d, XorSum(p, LAST))
    BY <1>0, <2>1, <2>2, <2>3, SumScale
  <2>5. Mul(d, S[k - j]) \in Elements
    BY <2>1, FieldLaws
  <2> QED  BY <2>1, <2>3, <2>4, <2>5 DEF f
<1>3. Grid(F, n, LAST)
  <2> HIDE DEF F
  <2> QED  BY <1>2 DEF Grid, Terms
<1>4. /\ Terms(rows, n) /\ Terms(columns, LAST)
      /\ XorSum(rows, n) = XorSum(columns, LAST)
  <2> HIDE DEF F
  <2> QED  BY <1>0, <1>3, SumSwap
<1>5. rows = g
  <2>1. \A j \in 0 .. n : rows[j] = g[j]
    BY <1>2
  <2> QED  BY <2>1
<1>6. ASSUME NEW m \in 0 .. LAST
      PROVE  columns[m] = h[m]
  <2> DEFINE x == Far(m)
             b == Spot(m)
             u == y[m]
             p == Pow(b, k)
             z == Mul(u, p)
             R == [j \in 0 .. n |-> Pow(x, j)]
             f == [j \in 0 .. n |-> Mul(c[j], R[j])]
             a == [j \in 0 .. n |-> F[j][m]]
  <2>1. /\ b \in Elements \ {0} /\ u \in Elements /\ x \in Elements \ {0}
    BY <1>0, Spots, FarType DEF Terms
  <2>2. p \in Elements
    BY <1>0, <2>1, PowLaws
  <2>3. z \in Elements
    BY <2>1, <2>2, FieldLaws
  <2>4. ASSUME NEW j \in 0 .. n
        PROVE  a[j] = Mul(z, f[j]) /\ f[j] \in Elements /\ a[j] \in Elements
    <3> DEFINE t == Pow(x, j)
               d == c[j]
    <3>1. t \in Elements /\ d \in Elements
      <4>1. j \in Nat /\ d \in Elements
        BY DEF Terms
      <4> HIDE DEF x
      <4> QED  BY <2>1, <4>1, PowLaws
    <3>2. Pow(b, k - j) = Mul(p, t)
      <4>1. j \in 0 .. k
        OBVIOUS
      <4> QED  BY <1>0, <2>1, <4>1, PowInverse DEF Far
    <3>3. a[j] = Mul(d, Mul(u, Mul(p, t))) /\ f[j] = Mul(d, t)
      BY <3>2
    <3> HIDE DEF t, d, p, u, a, f
    <3>4. /\ Mul(u, Mul(p, t)) = Mul(Mul(u, p), t) /\ Mul(d, t) \in Elements
      BY <2>1, <2>2, <3>1, FieldLaws
    <3>5. Mul(d, Mul(z, t)) = Mul(Mul(d, z), t) /\ Mul(d, z) = Mul(z, d) /\ Mul(Mul(z, d), t) = Mul(z, Mul(d, t))
      <4> HIDE DEF z
      <4> QED  BY <2>3, <3>1, FieldLaws
    <3>6. a[j] = Mul(z, f[j])
      BY <3>3, <3>4, <3>5
    <3>7. Mul(z, f[j]) \in Elements
      <4> HIDE DEF z
      <4> QED  BY <2>3, <3>3, <3>4, FieldLaws
    <3> QED  BY <3>3, <3>4, <3>6, <3>7
  <2>5. At(c, n, x) = XorSum(f, n)
    BY DEF At, Value
  <2>6. columns[m] = XorSum(a, n)
    OBVIOUS
  <2>7. h[m] = Mul(Mul(u, At(c, n, x)), p)
    BY DEF Weighted
  <2> HIDE DEF f, a, columns, h, F
  <2>8. Terms(a, n) /\ Terms(f, n)
    BY <2>4 DEF Terms
  <2>9. XorSum(a, n) = Mul(z, XorSum(f, n))
    <3> HIDE DEF z
    <3> QED  BY <2>3, <2>4, <2>8, SumScale
  <2> DEFINE v == At(c, n, x)
  <2>10. v \in Elements
    <3> HIDE DEF x
    <3> QED  BY <2>1, AtType
  <2> HIDE DEF v, u, p
  <2>11. Mul(Mul(u, v), p) = Mul(u, Mul(v, p)) /\ Mul(v, p) = Mul(p, v) /\ Mul(u, Mul(p, v)) = Mul(Mul(u, p), v)
    BY <2>1, <2>2, <2>10, FieldLaws
  <2> QED  BY <2>5, <2>6, <2>7, <2>9, <2>11 DEF v
<1>7. columns = h
  <2> HIDE DEF F
  <2> QED  BY <1>6
<1>8. XorSum(h, LAST) = PowerSum(w, k)
  BY DEF PowerSum
<1> QED  BY <1>4, <1>5, <1>7, <1>8

\* c has no terms from a on; e is the sum of c and u.
OrderAt(c, a, n) == \A j \in a + 1 .. n : c[j] = 0
SumOf(e, c, u, n) == \A j \in 0 .. n : e[j] = Add(c[j], u[j])

\* A polynomial that is changed by a multiple of another one, some places up: what that does
\* to the power sums.
LEMMA PowerSumStep ==
    ASSUME NEW y, Terms(y, LAST), NEW n \in Nat, NEW a \in 0 .. n, NEW c, Terms(c, n),
           OrderAt(c, a, n),
           NEW p \in Nat, NEW q, Terms(q, p), NEW s \in Nat, NEW v \in Elements,
           NEW u, Placed(u, n, v, q, p, s),
           NEW d, SumOf(d, c, u, n),
           NEW k \in Nat, s <= k
    PROVE  /\ Terms(d, n)
           /\ PowerSum(Weighted(y, d, n), k) =
                Add(PowerSum(Weighted(y, c, a), k), Mul(v, PowerSum(Weighted(y, q, p), k - s)))
<1> DEFINE wd == Weighted(y, d, n)
           wc == Weighted(y, c, a)
           wq == Weighted(y, q, p)
           h == [m \in 0 .. LAST |-> Mul(wd[m], Pow(Spot(m), k))]
           f == [m \in 0 .. LAST |-> Mul(wc[m], Pow(Spot(m), k))]
           g == [m \in 0 .. LAST |-> Mul(wq[m], Pow(Spot(m), k - s))]
           vg == [m \in 0 .. LAST |-> Mul(v, g[m])]
<1>0. /\ LAST \in Nat /\ k - s \in Nat /\ a \in Nat /\ s \in 0 .. k /\ 0 \in Nat /\ 1 \in Elements /\ 0 \in Elements
      /\ s + p <= n
  BY FieldSize DEF LAST, Elements, Placed
<1>1. Terms(c, a)
  BY DEF Terms
<1>2. Placed(c, n, 1, c, a, 0)
  <2>1. \A j \in 0 .. a : c[0 + j] = Mul(1, c[j])
    <3> TAKE j \in 0 .. a
    <3>1. c[j] \in Elements /\ 0 + j = j
      BY <1>1 DEF Terms
    <3>2. Mul(1, c[j]) = Mul(c[j], 1) /\ Mul(c[j], 1) = c[j]
      BY <1>0, <3>1, FieldLaws
    <3> QED  BY <3>1, <3>2
  <2>2. 0 + a <= n /\ \A j \in 0 .. n : j < 0 \/ j > 0 + a => c[j] = 0
    BY DEF OrderAt
  <2> QED  BY <2>1, <2>2 DEF Placed
<1>3. ASSUME NEW x \in Elements \ {0}
      PROVE  /\ Terms(u, n) /\ Terms(d, n)
             /\ At(d, n, x) = Add(At(c, a, x), Mul(Mul(v, Pow(x, s)), At(q, p, x)))
  <2>1. Terms(u, n) /\ At(u, n, x) = Mul(Mul(v, Pow(x, s)), At(q, p, x))
    BY AtPlaced
  <2>2. At(c, n, x) = Mul(Mul(1, Pow(x, 0)), At(c, a, x))
    BY <1>0, <1>1, <1>2, AtPlaced
  <2>3. At(c, a, x) \in Elements
    BY <1>0, <1>1, AtType
  <2>4. Mul(Mul(1, Pow(x, 0)), At(c, a, x)) = At(c, a, x)
    <3> DEFINE t == At(c, a, x)
    <3>1. Pow(x, 0) = 1
      BY <1>0, PowLaws
    <3> HIDE DEF t
    <3>2. Mul(1, 1) = 1 /\ Mul(1, t) = Mul(t, 1) /\ Mul(t, 1) = t
      BY <1>0, <2>3, FieldLaws DEF t
    <3> QED  BY <3>1, <3>2 DEF t
  <2>5. Terms(d, n) /\ At(d, n, x) = Add(At(c, n, x), At(u, n, x))
    BY <2>1, AtAdd DEF SumOf
  <2> QED  BY <2>1, <2>2, <2>4, <2>5
<1>4. Terms(d, n)
  <2>1. Far(0) \in Elements \ {0}
    BY <1>0, FarType
  <2> QED  BY <1>3, <2>1
<1>5. Terms(wd, LAST) /\ Terms(wc, LAST) /\ Terms(wq, LAST)
  <2>1. Terms(wd, LAST)
    BY <1>4, WeightedType
  <2>2. Terms(wc, LAST)
    BY <1>0, <1>1, WeightedType
  <2>3. Terms(wq, LAST)
    BY WeightedType
  <2> QED  BY <2>1, <2>2, <2>3
<1>6. Terms(f, LAST) /\ Terms(g, LAST) /\ Terms(h, LAST)
  <2> HIDE DEF wd, wc, wq
  <2>1. Terms(f, LAST)
    BY <1>5, PowerSumTerms
  <2>2. Terms(g, LAST)
    BY <1>0, <1>5, PowerSumTerms
  <2>3. Terms(h, LAST)
    BY <1>5, PowerSumTerms
  <2> QED  BY <2>1, <2>2, <2>3
<1>7. \A m \in 0 .. LAST : vg[m] = Mul(v, g[m])
  OBVIOUS
<1>8. Terms(vg, LAST)
  <2>1. \A m \in 0 .. LAST : Mul(v, g[m]) \in Elements
    <3> HIDE DEF g
    <3> QED  BY <1>6, FieldLaws DEF Terms
  <2> HIDE DEF vg, g
  <2> QED  BY <1>7, <2>1 DEF Terms
<1>9. ASSUME NEW m \in 0 .. LAST
      PROVE  h[m] = Add(f[m], vg[m])
  <2> DEFINE x == Far(m)
             b == Spot(m)
             z == y[m]
             ac == At(c, a, x)
             aq == At(q, p, x)
             xs == Pow(x, s)
             bk == Pow(b, k)
             bs == Pow(b, k - s)
  <2>1. x \in Elements \ {0} /\ b \in Elements \ {0} /\ z \in Elements
    BY <1>0, FarType, Spots DEF Terms
  <2>2. ac \in Elements /\ aq \in Elements
    <3> HIDE DEF x
    <3>1. ac \in Elements
      BY <1>0, <1>1, <2>1, AtType
    <3>2. aq \in Elements
      BY <2>1, AtType
    <3> QED  BY <3>1, <3>2
  <2>3. xs \in Elements /\ bk \in Elements /\ bs \in Elements
    <3> HIDE DEF x, b
    <3>1. xs \in Elements
      BY <2>1, PowLaws
    <3>2. bk \in Elements /\ bs \in Elements
      BY <1>0, <2>1, PowLaws
    <3> QED  BY <3>1, <3>2
  <2>4. bs = Mul(bk, xs)
    BY <1>0, <2>1, PowInverse DEF Far
  <2>5. At(d, n, x) = Add(ac, Mul(Mul(v, xs), aq))
    BY <1>3, <2>1
  <2>6. /\ h[m] = Mul(Mul(z, At(d, n, x)), bk) /\ f[m] = Mul(Mul(z, ac), bk)
        /\ vg[m] = Mul(v, Mul(Mul(z, aq), bs))
    BY DEF Weighted
  <2> HIDE DEF x, b, z, ac, aq, xs, bk, bs, f, h, vg
  <2> DEFINE r == Mul(Mul(v, xs), aq)
  <2>7. Mul(v, xs) \in Elements /\ Mul(z, aq) \in Elements /\ Mul(z, ac) \in Elements /\ Mul(aq, xs) \in Elements
        /\ Mul(z, bk) \in Elements /\ Mul(bk, z) = Mul(z, bk) /\ Mul(bk, xs) \in Elements
    BY <2>1, <2>2, <2>3, FieldLaws
  <2>8. r \in Elements /\ r = Mul(v, Mul(xs, aq)) /\ Mul(xs, aq) \in Elements
    BY <2>2, <2>3, <2>7, FieldLaws
  <2>9. Mul(Mul(z, Add(ac, r)), bk) = Add(Mul(Mul(z, ac), bk), Mul(Mul(z, r), bk))
    <3> HIDE DEF r
    <3>1. Add(ac, r) \in Elements /\ Mul(z, r) \in Elements
      BY <2>1, <2>2, <2>8, AddGroup, FieldLaws
    <3>2. Mul(z, Add(ac, r)) = Mul(Add(ac, r), z) /\ Mul(z, ac) = Mul(ac, z) /\ Mul(z, r) = Mul(r, z)
      BY <2>1, <2>2, <2>8, <3>1, FieldLaws
    <3>3. Mul(Add(ac, r), z) = Add(Mul(ac, z), Mul(r, z))
      BY <2>1, <2>2, <2>8, FieldLaws
    <3>4. Mul(Add(Mul(z, ac), Mul(z, r)), bk) = Add(Mul(Mul(z, ac), bk), Mul(Mul(z, r), bk))
      BY <2>3, <2>7, <3>1, FieldLaws
    <3> QED  BY <3>2, <3>3, <3>4
  <2>10. Mul(Mul(z, r), bk) = Mul(v, Mul(Mul(z, aq), Mul(bk, xs)))
    <3> DEFINE e == Mul(xs, aq)
    <3>1. e \in Elements /\ r = Mul(v, e)
      BY <2>8
    <3>2. Mul(z, e) \in Elements /\ Mul(z, Mul(v, e)) = Mul(Mul(z, v), e) /\ Mul(z, v) = Mul(v, z)
          /\ Mul(Mul(v, z), e) = Mul(v, Mul(z, e))
      <4> HIDE DEF e
      <4> QED  BY <2>1, <3>1, FieldLaws
    <3>3. Mul(Mul(v, Mul(z, e)), bk) = Mul(v, Mul(Mul(z, e), bk))
      <4> HIDE DEF e
      <4> QED  BY <2>3, <3>2, FieldLaws
    <3>4. e = Mul(aq, xs) /\ Mul(z, Mul(aq, xs)) = Mul(Mul(z, aq), xs)
      BY <2>1, <2>2, <2>3, FieldLaws
    <3>5. Mul(Mul(Mul(z, aq), xs), bk) = Mul(Mul(z, aq), Mul(xs, bk)) /\ Mul(xs, bk) = Mul(bk, xs)
      BY <2>3, <2>7, FieldLaws
    <3> HIDE DEF e, r
    <3> QED  BY <3>1, <3>2, <3>3, <3>4, <3>5
  <2> HIDE DEF r
  <2> QED  BY <2>4, <2>5, <2>6, <2>9, <2>10 DEF r
<1> HIDE DEF f, g, h, vg, wd, wc, wq
<1>10. XorSum(h, LAST) = Add(XorSum(f, LAST), XorSum(vg, LAST))
  BY <1>0, <1>6, <1>8, <1>9, SumAdd
<1>11. XorSum(vg, LAST) = Mul(v, XorSum(g, LAST))
  BY <1>0, <1>6, <1>7, <1>8, SumScale
<1> QED  BY <1>4, <1>10, <1>11 DEF PowerSum, f, g, h, wd, wc, wq

\* A polynomial whose product with the syndromes is 0 in as many places as there are errors
\* has a root at every error, and the product is 0 from there on.
LEMMA Massey ==
    ASSUME NEW y, Terms(y, LAST), NEW n \in Nat, NEW c, Terms(c, n), NEW t \in Nat,
           t - n >= Cardinality(Support(y)),
           \A k \in n .. t - 1 : PowerSum(Weighted(y, c, n), k) = 0
    PROVE  /\ \A m \in Support(y) : At(c, n, Far(m)) = 0
           /\ \A k \in Nat : PowerSum(Weighted(y, c, n), k) = 0
<1> DEFINE w == Cardinality(Support(y))
           z == Weighted(y, c, n)
<1>0. w \in Nat /\ LAST \in Nat /\ 0 \in 0 .. LAST
  BY SupportFinite, FieldSize DEF LAST
<1>1. Terms(z, LAST) /\ \A m \in 0 .. LAST : z[m] = 0 <=> y[m] = 0 \/ At(c, n, Far(m)) = 0
  BY WeightedType
<1> HIDE DEF z
<1>2. Cardinality(Support(z)) <= w
  <2>1. Support(z) \subseteq Support(y)
    BY <1>1 DEF Support
  <2> QED  BY <2>1, SupportFinite, FS_Subset
<1>3. Vanish(z, n, w)
  <2> SUFFICES ASSUME NEW i \in 0 .. w - 1 PROVE PowerSum(z, n + i) = 0
    BY DEF Vanish
  <2>1. n + i \in n .. t - 1
    BY <1>0
  <2> QED  BY <2>1 DEF z
<1>4. \A m \in 0 .. LAST : z[m] = 0
  <2> HIDE DEF w
  <2> QED  BY <1>0, <1>1, <1>2, <1>3, Vandermonde
<1>5. \A m \in Support(y) : At(c, n, Far(m)) = 0
  BY <1>1, <1>4 DEF Support
<1>6. ASSUME NEW k \in Nat
      PROVE  PowerSum(z, k) = 0
  <2> DEFINE f == [m \in 0 .. LAST |-> Mul(z[m], Pow(Spot(m), k))]
  <2>1. Terms(f, LAST)
    BY <1>1, PowerSumTerms
  <2>2. \A m \in 0 .. LAST : f[m] = 0
    <3> TAKE m \in 0 .. LAST
    <3>1. Spot(m) \in Elements \ {0}
      BY <1>0, Spots
    <3>2. Pow(Spot(m), k) \in Elements
      BY <3>1, PowLaws
    <3> QED  BY <1>4, <3>2, FieldLaws
  <2> HIDE DEF f
  <2>3. XorSum(f, LAST) = f[0]
    BY <1>0, <2>1, <2>2, SumOne
  <2> QED  BY <1>0, <2>2, <2>3 DEF PowerSum, f
<1> QED  BY <1>5, <1>6 DEF z

----------------------------------------------------------------------------
(* Berlekamp-Massey. *)

\* What a turn that changes the locator makes of the fields.
LEMMA LengthenedFields ==
    ASSUME NEW r \in Decoder, NEW d, NEW t
    PROVE  LET q == Lengthened(r, t, d)
           IN  /\ q.received = r.received /\ q.lastDiscrepancy = d
               /\ \A j \in 0 .. NROOTS :
                     /\ j <= Reach(r) => /\ q.locator[j] = Add(r.locator[j], Shifted(r, d)[j])
                                         /\ q.last[j] = r.locator[j]
                     /\ ~(j <= Reach(r)) => q.locator[j] = r.locator[j]
<1> DEFINE shifted == Shifted(r, d)
           R == Reach(r)
           loc == [j \in 0 .. NROOTS |-> IF j <= R THEN Add(r.locator[j], shifted[j]) ELSE r.locator[j]]
           lst == [j \in 0 .. NROOTS |-> IF j <= R THEN r.locator[j] ELSE shifted[j]]
           n == t + 1 - r.numerrors
           p == [r EXCEPT !.locator = loc, !.last = lst, !.order = R, !.lastOrder = r.order,
                          !.lastDiscrepancy = d]
           q == Lengthened(r, t, d)
<1>1. p = Replaced(r, d)
  BY DEF Replaced
<1>2. q = [p EXCEPT !.numerrors = n, !.delay = 1]
  <2>1. p.numerrors = r.numerrors
    <3> HIDE DEF loc, lst, R
    <3> QED  BY DEF Decoder
  <2> HIDE DEF p
  <2> QED  BY <1>1, <2>1 DEF Lengthened
<1>3. \A j \in 0 .. NROOTS :
         /\ j <= R => loc[j] = Add(r.locator[j], shifted[j])
         /\ j <= R => lst[j] = r.locator[j]
         /\ ~(j <= R) => loc[j] = r.locator[j]
  <2> HIDE DEF R, shifted
  <2> QED  OBVIOUS
<1> HIDE DEF loc, lst, R, shifted, n
<1>4. q.received = r.received /\ q.lastDiscrepancy = d /\ q.locator = loc /\ q.last = lst
  <2>1. p.received = r.received /\ p.lastDiscrepancy = d /\ p.locator = loc /\ p.last = lst
    BY DEF Decoder
  <2>2. DOMAIN p = DOMAIN r
    OBVIOUS
  <2> HIDE DEF p, q
  <2> QED  BY <1>2, <2>1, <2>2 DEF Decoder
<1> HIDE DEF q
<1>5. \A j \in 0 .. NROOTS :
         /\ j <= R => q.locator[j] = Add(r.locator[j], shifted[j])
         /\ j <= R => q.last[j] = r.locator[j]
         /\ ~(j <= R) => q.locator[j] = r.locator[j]
  <2>1. SUFFICES ASSUME NEW j \in 0 .. NROOTS
                 PROVE  /\ j <= R => q.locator[j] = Add(r.locator[j], shifted[j])
                        /\ j <= R => q.last[j] = r.locator[j]
                        /\ ~(j <= R) => q.locator[j] = r.locator[j]
    OBVIOUS
  <2>2. q.locator[j] = loc[j] /\ q.last[j] = lst[j]
    BY <1>4
  <2>3. /\ j <= R => loc[j] = Add(r.locator[j], shifted[j])
        /\ j <= R => lst[j] = r.locator[j]
        /\ ~(j <= R) => loc[j] = r.locator[j]
    BY <1>3
  <2> QED  BY <2>2, <2>3
<1> QED  BY <1>4, <1>5 DEF q, R, shifted

\* What an adjustment leaves in the decoder.
LEMMA AdjustedFields ==
    ASSUME NEW r \in Decoder, NEW d
    PROVE  LET q == Adjusted(r, d)
           IN  /\ q.received = r.received /\ q.lastDiscrepancy = r.lastDiscrepancy /\ q.last = r.last
               /\ \A j \in 0 .. NROOTS :
                     q.locator[j] = IF j \in r.delay .. Reach(r)
                                    THEN Add(r.locator[j], Div(Mul(r.last[j - r.delay], d), r.lastDiscrepancy))
                                    ELSE r.locator[j]
<1> DEFINE R == Reach(r)
           loc == [j \in 0 .. NROOTS |-> IF j \in r.delay .. R
                         THEN Add(r.locator[j], Div(Mul(r.last[j - r.delay], d), r.lastDiscrepancy))
                         ELSE r.locator[j]]
           o == IF R > r.order THEN R ELSE r.order
           w == r.delay + 1
           q == Adjusted(r, d)
<1>1. q = [r EXCEPT !.locator = loc, !.order = o, !.delay = w]
  BY DEF Adjusted
<1>2. \A j \in 0 .. NROOTS :
         loc[j] = IF j \in r.delay .. R
                  THEN Add(r.locator[j], Div(Mul(r.last[j - r.delay], d), r.lastDiscrepancy))
                  ELSE r.locator[j]
  <2> HIDE DEF R
  <2> QED  OBVIOUS
<1> HIDE DEF loc, R, o, w, q
<1>3. q.received = r.received /\ q.lastDiscrepancy = r.lastDiscrepancy /\ q.last = r.last /\ q.locator = loc
  BY <1>1 DEF Decoder
<1> QED  BY <1>2, <1>3 DEF q, R

\* The power sums of the product of the weights with a polynomial: 0 from its order up to t,
\* and d there.
Annuls(y, c, n, t, d) ==
    \A k \in n .. t : PowerSum(Weighted(y, c, n), k) = IF k = t THEN d ELSE 0

(***************************************************************************)
(* What Berlekamp-Massey keeps in front of turn t, when the syndromes are  *)
(* the power sums of the weights y.  The locator explains the syndromes    *)
(* before t, the last one those before the turn it was given up in, where  *)
(* it missed by the last discrepancy; and the locator is no longer than    *)
(* there are errors.                                                       *)
(***************************************************************************)
Explains(r, y, t) ==
    /\ Terms(y, LAST) /\ SumsOf(r.syndromes, y)
    /\ r.order = r.numerrors /\ r.numerrors <= t /\ r.numerrors <= Cardinality(Support(y))
    /\ r.lastOrder + r.delay = t + 1 - r.numerrors
    /\ r.locator[0] = 1 /\ \A j \in r.order + 1 .. NROOTS : r.locator[j] = 0
    /\ r.lastDiscrepancy # 0
    /\ Annuls(y, r.locator, r.order, t - 1, 0)
    /\ Annuls(y, r.last, r.lastOrder, t - r.delay, r.lastDiscrepancy)

\* It does so for all weights that the syndromes may come from.
Fits(r, t) == \A y \in Row(LAST) : SumsOf(r.syndromes, y) => Explains(r, y, t)

\* In front of the first turn nothing is to be explained.
LEMMA ExplainsInit ==
    ASSUME NEW r \in Decoder, NEW y, Terms(y, LAST), SumsOf(r.syndromes, y)
    PROVE  Explains(LocatorInit(r), y, 0) /\ LocatorInit(r).received = r.received
<1> DEFINE one == [Zeros EXCEPT ![0] = 1]
           q == LocatorInit(r)
<1>1. q = [r EXCEPT !.locator = one, !.order = 0, !.last = one, !.lastOrder = 0,
                    !.lastDiscrepancy = 1, !.numerrors = 0, !.delay = 1]
  BY DEF LocatorInit
<1>2. one[0] = 1 /\ \A j \in 0 + 1 .. NROOTS : one[j] = 0
  BY FieldSize DEF Zeros
<1> HIDE DEF one, q
<1>3. /\ q.locator = one /\ q.order = 0 /\ q.last = one /\ q.lastOrder = 0 /\ q.lastDiscrepancy = 1
      /\ q.numerrors = 0 /\ q.delay = 1 /\ q.syndromes = r.syndromes /\ q.received = r.received
  BY <1>1 DEF Decoder
<1>4. Annuls(y, one, 0, 0 - 1, 0) /\ Annuls(y, one, 0, 0 - 1, 1)
  BY DEF Annuls
<1>5. Cardinality(Support(y)) \in Nat
  BY SupportFinite
<1> QED  BY <1>2, <1>3, <1>4, <1>5 DEF Explains, q

\* The discrepancy of a turn is what the locator misses the syndrome by.
LEMMA DiscrepancySum ==
    ASSUME NEW r \in Decoder, NEW y, NEW t \in 0 .. NROOTS - 1, Explains(r, y, t)
    PROVE  /\ Discrepancy(r, t) \in Elements
           /\ Discrepancy(r, t) = PowerSum(Weighted(y, r.locator, r.order), t)
           /\ Terms(r.locator, r.order)
<1> DEFINE n == r.numerrors
           c == r.locator
           S == r.syndromes
           f == [j \in 0 .. n |-> IF j = 0 THEN S[t] ELSE Mul(c[j], S[t - j])]
           g == [j \in 0 .. n |-> Mul(c[j], S[t - j])]
<1>1. /\ n \in Nat /\ n <= t /\ r.order = n /\ c[0] = 1 /\ SumsOf(S, y) /\ Terms(y, LAST)
      /\ NROOTS \in Nat
  BY FieldSize DEF Explains, Decoder
<1>2. S \in Row(NROOTS - 1) /\ c \in Row(NROOTS)
  BY DEF Decoder
<1>3. Terms(c, n)
  <2>1. \A j \in 0 .. n : j \in 0 .. NROOTS
    BY <1>1
  <2> HIDE DEF n, c
  <2> QED  BY <1>2, <2>1 DEF Terms, Row
<1>4. Discrepancy(r, t) = XorSum(f, n)
  BY DEF Discrepancy
<1>5. f = g
  <2>1. S[t] \in Elements /\ t - 0 = t
    <3> HIDE DEF S
    <3> QED  BY <1>1, <1>2 DEF Row
  <2>2. Mul(1, S[t]) = S[t]
    <3>1. 1 \in Elements
      BY FieldSize DEF Elements
    <3>2. Mul(1, S[t]) = Mul(S[t], 1) /\ Mul(S[t], 1) = S[t]
      BY <2>1, <3>1, FieldLaws
    <3> QED  BY <3>2
  <2> HIDE DEF S, c, n
  <2>3. \A j \in 0 .. n : f[j] = g[j]
    BY <1>1, <2>1, <2>2
  <2> QED  BY <2>3
<1> HIDE DEF f, n, c, S
<1>6. Terms(g, n) /\ XorSum(g, n) = PowerSum(Weighted(y, c, n), t)
  BY <1>1, <1>3, Convolution
<1> HIDE DEF g
<1>7. XorSum(g, n) \in Elements
  <2>1. n \in 0 .. n
    BY <1>1
  <2> QED  BY <1>1, <1>6, <2>1, SumSteps
<1> QED  BY <1>1, <1>3, <1>4, <1>5, <1>6, <1>7 DEF n, c

\* A turn that changes the locator adds a multiple of the last one to it: as much as
\* makes up for the discrepancy.
LEMMA TurnSum ==
    ASSUME NEW y, Terms(y, LAST), NEW t \in Nat, NEW n \in Nat, NEW a \in 0 .. n,
           NEW c, Terms(c, n), OrderAt(c, a, n),
           NEW p \in Nat, NEW s \in Nat, p + s <= n, NEW q, Terms(q, p),
           NEW x \in Elements, NEW z \in Elements \ {0},
           Annuls(y, c, a, t, x), Annuls(y, q, p, t - s, z),
           NEW u, Placed(u, n, Mul(x, Div(1, z)), q, p, s),
           NEW e, SumOf(e, c, u, n)
    PROVE  Terms(e, n) /\ Annuls(y, e, n, t, 0)
<1> DEFINE v == Mul(x, Div(1, z))
<1>1. v \in Elements /\ Mul(v, z) = x /\ 0 \in Elements
  <2>1. Div(1, z) \in Elements /\ Mul(z, Div(1, z)) = 1 /\ 0 \in Elements
    BY FieldSize, DivLaws DEF Elements
  <2>2. v \in Elements /\ Mul(v, z) = Mul(x, Mul(Div(1, z), z))
    BY <2>1, FieldLaws
  <2>3. Mul(Div(1, z), z) = 1 /\ Mul(x, 1) = x
    BY <2>1, FieldLaws
  <2> QED  BY <2>1, <2>2, <2>3
<1> HIDE DEF v
<1>2. Placed(u, n, v, q, p, s)
  BY DEF v
<1>3. ASSUME NEW k \in Nat, s <= k
      PROVE  /\ Terms(e, n)
             /\ PowerSum(Weighted(y, e, n), k) =
                  Add(PowerSum(Weighted(y, c, a), k), Mul(v, PowerSum(Weighted(y, q, p), k - s)))
  BY <1>1, <1>2, <1>3, PowerSumStep
<1>4. Terms(e, n)
  BY <1>3
<1>5. ASSUME NEW k \in n .. t
      PROVE  PowerSum(Weighted(y, e, n), k) = 0
  <2>1. k \in Nat /\ s <= k /\ k \in a .. t /\ k - s \in p .. t - s
    OBVIOUS
  <2>2. PowerSum(Weighted(y, c, a), k) = IF k = t THEN x ELSE 0
    BY <2>1 DEF Annuls
  <2>3. PowerSum(Weighted(y, q, p), k - s) = IF k = t THEN z ELSE 0
    <3>1. k - s = t - s <=> k = t
      BY <2>1
    <3> QED  BY <2>1, <3>1 DEF Annuls
  <2>4. PowerSum(Weighted(y, e, n), k) =
          Add(PowerSum(Weighted(y, c, a), k), Mul(v, PowerSum(Weighted(y, q, p), k - s)))
    BY <1>3, <2>1
  <2>5. Add(x, x) = 0 /\ Mul(v, 0) = 0 /\ Add(0, 0) = 0
    <3>1. Add(x, x) = 0
      BY AddGroup
    <3>2. Mul(v, 0) = 0
      BY <1>1, FieldLaws
    <3>3. Add(0, 0) = 0
      BY <1>1, AddGroup
    <3> QED  BY <3>1, <3>2, <3>3
  <2> QED  BY <1>1, <2>2, <2>3, <2>4, <2>5
<1> QED  BY <1>4, <1>5 DEF Annuls

\* What is added, as the loop puts it together.
LEMMA PlacedTap ==
    ASSUME NEW r \in Decoder, NEW d \in Elements, r.lastDiscrepancy # 0,
           NEW n \in Nat, Reach(r) <= n, r.lastOrder <= NROOTS,
           NEW u, \A j \in 0 .. n : u[j] = IF j \in r.delay .. Reach(r)
                                           THEN Div(Mul(r.last[j - r.delay], d), r.lastDiscrepancy)
                                           ELSE 0
    PROVE  /\ Terms(r.last, r.lastOrder)
           /\ Placed(u, n, Mul(d, Div(1, r.lastDiscrepancy)), r.last, r.lastOrder, r.delay)
<1> DEFINE z == r.lastDiscrepancy
           i == Div(1, z)
           s == r.delay
           p == r.lastOrder
           q == r.last
<1>1. z \in Elements \ {0} /\ s \in Nat /\ p \in Nat /\ q \in Row(NROOTS) /\ Reach(r) = p + s
      /\ NROOTS \in Nat
  BY FieldSize DEF Decoder, Reach
<1>2. i \in Elements
  BY <1>1, DivLaws
<1>3. Terms(q, p)
  <2>1. \A j \in 0 .. p : j \in 0 .. NROOTS
    BY <1>1
  <2> HIDE DEF q, p
  <2> QED  BY <1>1, <2>1 DEF Terms, Row
<1>4. ASSUME NEW k \in 0 .. p
      PROVE  u[s + k] = Mul(Mul(d, i), q[k])
  <2>1. s + k \in 0 .. n /\ s + k \in s .. p + s /\ (s + k) - s = k
    BY <1>1
  <2>2. u[s + k] = Div(Mul(q[k], d), z)
    BY <1>1, <2>1
  <2>3. q[k] \in Elements
    BY <1>3 DEF Terms
  <2> DEFINE b == q[k]
  <2> HIDE DEF b, z, i
  <2>4. Mul(b, d) \in Elements /\ Mul(d, i) \in Elements
    BY <1>2, <2>3, FieldLaws DEF b
  <2>5. Div(Mul(b, d), z) = Mul(Mul(b, d), i)
    BY <1>1, <2>4, DivLaws DEF i
  <2>6. Mul(Mul(b, d), i) = Mul(b, Mul(d, i)) /\ Mul(b, Mul(d, i)) = Mul(Mul(d, i), b)
    <3>1. b \in Elements /\ i \in Elements
      BY <1>2, <2>3 DEF b, i, z
    <3>2. Mul(Mul(b, d), i) = Mul(b, Mul(d, i))
      BY <3>1, FieldLaws
    <3>3. Mul(b, Mul(d, i)) = Mul(Mul(d, i), b)
      BY <2>4, <3>1, FieldLaws
    <3> QED  BY <3>2, <3>3
  <2> QED  BY <2>2, <2>5, <2>6 DEF b
<1>5. \A j \in 0 .. n : j < s \/ j > s + p => u[j] = 0
  <2> TAKE j \in 0 .. n
  <2>1. j < s \/ j > s + p => ~(j \in s .. p + s)
    BY <1>1
  <2> QED  BY <1>1, <2>1
<1> QED  BY <1>1, <1>3, <1>4, <1>5 DEF Placed

\* What a turn finds of the discrepancy and the locator, in one.
LEMMA TurnFacts ==
    ASSUME NEW r \in Decoder, NEW y, NEW t \in 0 .. NROOTS - 1, Explains(r, y, t)
    PROVE  LET d == Discrepancy(r, t)
           IN  /\ d \in Elements /\ t \in Nat /\ NROOTS \in Nat
               /\ r.order \in Nat /\ r.order <= t /\ r.numerrors = r.order
               /\ r.lastOrder \in Nat /\ r.delay \in Nat \ {0} /\ Reach(r) = r.lastOrder + r.delay
               /\ Reach(r) = t + 1 - r.order /\ r.lastDiscrepancy \in Elements \ {0}
               /\ Terms(y, LAST) /\ Terms(r.locator, NROOTS) /\ r.locator[0] = 1
               /\ \A j \in r.order + 1 .. NROOTS : r.locator[j] = 0
               /\ Annuls(y, r.locator, r.order, t, d)
               /\ Annuls(y, r.last, r.lastOrder, t - r.delay, r.lastDiscrepancy)
<1> DEFINE d == Discrepancy(r, t)
<1>1. d \in Elements /\ d = PowerSum(Weighted(y, r.locator, r.order), t)
  BY DiscrepancySum
<1> HIDE DEF d
<1>2. /\ t \in Nat /\ NROOTS \in Nat
      /\ r.order \in Nat /\ r.order <= t /\ r.numerrors = r.order
      /\ r.lastOrder \in Nat /\ r.delay \in Nat \ {0} /\ Reach(r) = r.lastOrder + r.delay
      /\ Reach(r) = t + 1 - r.order /\ r.lastDiscrepancy \in Elements \ {0}
  BY FieldSize DEF Explains, Decoder, Reach
<1>3. Terms(r.locator, NROOTS)
  BY DEF Decoder, Row, Terms
<1>4. Annuls(y, r.locator, r.order, t, d)
  <2>1. ASSUME NEW k \in r.order .. t
        PROVE  PowerSum(Weighted(y, r.locator, r.order), k) = IF k = t THEN d ELSE 0
    <3>1. k = t \/ k \in r.order .. t - 1
      BY <1>2
    <3>2. k \in r.order .. t - 1 => PowerSum(Weighted(y, r.locator, r.order), k) = 0 /\ k # t
      BY <1>2 DEF Explains, Annuls
    <3> QED  BY <1>1, <3>1, <3>2
  <2> QED  BY <2>1 DEF Annuls
<1> QED  BY <1>1, <1>2, <1>3, <1>4 DEF Explains, d

\* A turn that makes the locator longer.
LEMMA LengthenedExplains ==
    ASSUME NEW r \in Decoder, NEW y, NEW t \in 0 .. NROOTS - 1, Explains(r, y, t),
           Discrepancy(r, t) # 0, 2 * r.numerrors <= t
    PROVE  LET q == Lengthened(r, t, Discrepancy(r, t))
           IN  Explains(q, y, t + 1) /\ q.received = r.received
<1> DEFINE d == Discrepancy(r, t)
           q == Lengthened(r, t, d)
           n == Reach(r)
           s == r.delay
           u == [j \in 0 .. n |-> IF j \in s .. n
                                  THEN Div(Mul(r.last[j - s], d), r.lastDiscrepancy) ELSE 0]
           a == r.order
           p == r.lastOrder
           z == r.lastDiscrepancy
           c == r.locator
<1>1. /\ d \in Elements /\ t \in Nat /\ NROOTS \in Nat
      /\ a \in Nat /\ a <= t /\ r.numerrors = a
      /\ p \in Nat /\ s \in Nat \ {0} /\ n = p + s
      /\ n = t + 1 - a /\ z \in Elements \ {0}
      /\ Terms(y, LAST) /\ Terms(c, NROOTS) /\ c[0] = 1
      /\ \A j \in a + 1 .. NROOTS : c[j] = 0
      /\ Annuls(y, c, a, t, d)
      /\ Annuls(y, r.last, p, t - s, z)
  BY TurnFacts
<1>2. d # 0 /\ SumsOf(r.syndromes, y)
  BY DEF Explains
<1>3. n \in Nat /\ n <= NROOTS /\ p <= NROOTS /\ a \in 0 .. n /\ a < n /\ s \in 1 .. n
  BY <1>1
<1>4. Terms(r.last, p) /\ Placed(u, n, Mul(d, Div(1, z)), r.last, p, s)
  <2>1. \A j \in 0 .. n : u[j] = IF j \in s .. n
                                 THEN Div(Mul(r.last[j - s], d), r.lastDiscrepancy) ELSE 0
    <3> HIDE DEF n, s, d
    <3> QED  OBVIOUS
  <2>2. n <= n
    BY <1>3
  <2> HIDE DEF u, d
  <2> QED  BY <1>1, <1>3, <2>1, <2>2, PlacedTap
<1>5. /\ q.received = r.received /\ q.lastDiscrepancy = d
      /\ \A j \in 0 .. NROOTS : /\ j <= n => q.locator[j] = Add(c[j], Shifted(r, d)[j])
                                             /\ q.last[j] = c[j]
                                /\ ~(j <= n) => q.locator[j] = c[j]
  BY LengthenedFields
<1>6. \A j \in 0 .. n : Shifted(r, d)[j] = u[j]
  <2> TAKE j \in 0 .. n
  <2>1. j \in 0 .. NROOTS
    BY <1>1, <1>3
  <2>2. Shifted(r, d)[j] = CASE j < s -> 0
                             [] j \in s .. n -> Div(Mul(r.last[j - s], d), z)
                             [] OTHER -> r.last[j]
    <3> HIDE DEF d
    <3> QED  BY <2>1 DEF Shifted
  <2>3. u[j] = IF j \in s .. n THEN Div(Mul(r.last[j - s], d), z) ELSE 0
    OBVIOUS
  <2>4. j < s \/ j \in s .. n
    BY <1>3
  <2>5. j < s => ~(j \in s .. n)
    BY <1>3
  <2> HIDE DEF u, d, n, s, z
  <2> QED  BY <2>2, <2>3, <2>4, <2>5
<1>7. /\ q \in Decoder /\ q.order = n /\ q.lastOrder = a /\ q.delay = 1
      /\ q.numerrors = t + 1 - a /\ q.syndromes = r.syndromes
  <2>1. d \in Elements /\ t \in Nat /\ r.numerrors <= t /\ r.numerrors = a
    BY <1>1
  <2> HIDE DEF d
  <2> QED  BY <2>1, LengthenedType
<1> HIDE DEF q, u, d, n, s, a, p, z, c
<1>8. Terms(c, n) /\ OrderAt(c, a, n)
  <2>1. \A j \in 0 .. n : j \in 0 .. NROOTS
    BY <1>1, <1>3
  <2>2. Terms(c, n)
    BY <1>1, <2>1 DEF Terms
  <2>3. \A j \in a + 1 .. n : j \in a + 1 .. NROOTS
    BY <1>1, <1>3
  <2> QED  BY <1>1, <2>2, <2>3 DEF OrderAt
<1>9. SumOf(q.locator, c, u, n)
  <2>1. ASSUME NEW j \in 0 .. n
        PROVE  q.locator[j] = Add(c[j], u[j])
    <3>1. j \in 0 .. NROOTS /\ j <= n
      BY <1>1, <1>3
    <3> QED  BY <1>5, <1>6, <3>1
  <2> QED  BY <2>1 DEF SumOf
<1>10. Annuls(y, q.locator, n, t, 0)
  <2>1. p + s <= n /\ s \in Nat
    BY <1>1
  <2> QED  BY <1>1, <1>3, <1>4, <1>8, <1>9, <2>1, TurnSum
<1>11. Annuls(y, q.last, a, t, d)
  <2>1. ASSUME NEW j \in 0 .. a
        PROVE  q.last[j] = c[j]
    <3>1. j \in 0 .. NROOTS /\ j <= n
      BY <1>1, <1>3
    <3> QED  BY <1>5, <3>1
  <2>2. Weighted(y, q.last, a) = Weighted(y, c, a)
    <3>1. ASSUME NEW x
          PROVE  At(q.last, a, x) = At(c, a, x)
      <4> DEFINE R == [j \in 0 .. a |-> Pow(x, j)]
                 f == [j \in 0 .. a |-> Mul(q.last[j], R[j])]
                 g == [j \in 0 .. a |-> Mul(c[j], R[j])]
      <4> HIDE DEF R
      <4>1. f = g
        BY <2>1
      <4> HIDE DEF f, g
      <4> QED  BY <4>1 DEF At, Value, R, f, g
    <3> QED  BY <3>1 DEF Weighted
  <2> QED  BY <1>1, <2>2 DEF Annuls
<1>12. n <= Cardinality(Support(y))
  <2>1. Cardinality(Support(y)) \in Nat
    BY SupportFinite
  <2>2. CASE Cardinality(Support(y)) < n
    <3> DEFINE w == Cardinality(Support(y))
    <3> HIDE DEF w
    <3>1. t - a >= w /\ t \in a .. t
      BY <1>1, <1>3, <2>1, <2>2 DEF w
    <3>2. \A k \in a .. t - 1 : PowerSum(Weighted(y, c, a), k) = 0
      <4> TAKE k \in a .. t - 1
      <4>1. k \in a .. t /\ k # t
        BY <1>1
      <4> QED  BY <1>1, <4>1 DEF Annuls
    <3>3. Terms(c, a)
      <4>1. \A j \in 0 .. a : j \in 0 .. n
        BY <1>3
      <4> QED  BY <1>8, <4>1 DEF Terms
    <3>4. PowerSum(Weighted(y, c, a), t) = 0
      BY <1>1, <3>1, <3>2, <3>3, Massey DEF w
    <3>5. PowerSum(Weighted(y, c, a), t) = d
      BY <1>1, <3>1 DEF Annuls
    <3> QED  BY <1>2, <3>4, <3>5
  <2> QED  BY <1>3, <2>1, <2>2
<1>13. q.locator[0] = 1 /\ \A j \in n + 1 .. NROOTS : q.locator[j] = 0
  <2>1. q.locator[0] = 1
    <3>1. 0 \in 0 .. n /\ 0 < s /\ 1 \in Elements
      BY <1>3, FieldSize DEF Elements
    <3>2. u[0] = 0
      <4>1. ~(0 \in s .. n)
        BY <1>3
      <4> QED  BY <3>1, <4>1 DEF u
    <3>3. Add(1, 0) = 1
      BY <3>1, AddGroup
    <3> QED  BY <1>1, <1>9, <3>1, <3>2, <3>3 DEF SumOf
  <2>2. ASSUME NEW j \in n + 1 .. NROOTS
        PROVE  q.locator[j] = 0
    <3>1. j \in 0 .. NROOTS /\ ~(j <= n) /\ j \in a + 1 .. NROOTS
      BY <1>1, <1>3
    <3> QED  BY <1>1, <1>5, <3>1
  <2> QED  BY <2>1, <2>2
<1>14. Explains(q, y, t + 1)
  <2>1. q.order = q.numerrors /\ q.numerrors <= t + 1 /\ q.numerrors <= Cardinality(Support(y))
        /\ q.lastOrder + q.delay = (t + 1) + 1 - q.numerrors /\ q.lastDiscrepancy # 0
        /\ SumsOf(q.syndromes, y)
    BY <1>1, <1>2, <1>5, <1>7, <1>12
  <2>2. (t + 1) - 1 = t /\ (t + 1) - q.delay = t
    BY <1>1, <1>7
  <2> QED  BY <1>1, <1>5, <1>7, <1>10, <1>11, <1>13, <2>1, <2>2 DEF Explains
<1> QED  BY <1>5, <1>14 DEF q, d

\* A turn that corrects the locator and leaves its length.
LEMMA AdjustedExplains ==
    ASSUME NEW r \in Decoder, NEW y, NEW t \in 0 .. NROOTS - 1, Explains(r, y, t),
           Discrepancy(r, t) # 0, ~(2 * r.numerrors <= t)
    PROVE  LET q == Adjusted(r, Discrepancy(r, t))
           IN  Explains(q, y, t + 1) /\ q.received = r.received
<1> DEFINE d == Discrepancy(r, t)
           q == Adjusted(r, d)
           R == Reach(r)
           n == r.order
           s == r.delay
           u == [j \in 0 .. n |-> IF j \in s .. R
                                  THEN Div(Mul(r.last[j - s], d), r.lastDiscrepancy) ELSE 0]
           p == r.lastOrder
           z == r.lastDiscrepancy
           c == r.locator
<1>1. /\ d \in Elements /\ t \in Nat /\ NROOTS \in Nat
      /\ n \in Nat /\ n <= t /\ r.numerrors = n
      /\ p \in Nat /\ s \in Nat \ {0} /\ R = p + s
      /\ R = t + 1 - n /\ z \in Elements \ {0}
      /\ Terms(y, LAST) /\ Terms(c, NROOTS) /\ c[0] = 1
      /\ \A j \in n + 1 .. NROOTS : c[j] = 0
      /\ Annuls(y, c, n, t, d)
      /\ Annuls(y, r.last, p, t - s, z)
  BY TurnFacts
<1>2. SumsOf(r.syndromes, y) /\ n <= Cardinality(Support(y)) /\ z # 0
  BY <1>1 DEF Explains
<1>3. n <= NROOTS /\ p <= NROOTS /\ R <= n /\ n \in 0 .. n
  BY <1>1
<1>4. Terms(r.last, p) /\ Placed(u, n, Mul(d, Div(1, z)), r.last, p, s)
  <2>1. \A j \in 0 .. n : u[j] = IF j \in s .. R
                                 THEN Div(Mul(r.last[j - s], d), r.lastDiscrepancy) ELSE 0
    <3> HIDE DEF n, s, d, R
    <3> QED  OBVIOUS
  <2> HIDE DEF u, d
  <2> QED  BY <1>1, <1>3, <2>1, PlacedTap
<1>5. /\ q.received = r.received /\ q.lastDiscrepancy = z /\ q.last = r.last
      /\ \A j \in 0 .. NROOTS :
            q.locator[j] = IF j \in s .. R THEN Add(c[j], Div(Mul(r.last[j - s], d), z)) ELSE c[j]
  BY AdjustedFields
<1>6. /\ q \in Decoder
      /\ q.order = IF R > n THEN R ELSE n
      /\ q.lastOrder = p /\ q.delay = s + 1
      /\ q.numerrors = n /\ q.syndromes = r.syndromes
  <2> HIDE DEF d
  <2> QED  BY <1>1, AdjustedType
<1> HIDE DEF q, u, d, n, s, R, p, z, c
<1>7. Terms(c, n) /\ OrderAt(c, n, n)
  <2>1. \A j \in 0 .. n : j \in 0 .. NROOTS
    BY <1>1, <1>3
  <2>2. Terms(c, n)
    BY <1>1, <2>1 DEF Terms
  <2>3. \A j \in n + 1 .. n : FALSE
    BY <1>1
  <2> QED  BY <2>2, <2>3 DEF OrderAt
<1>8. SumOf(q.locator, c, u, n)
  <2>1. ASSUME NEW j \in 0 .. n
        PROVE  q.locator[j] = Add(c[j], u[j])
    <3>1. j \in 0 .. NROOTS
      BY <1>1, <1>3
    <3>2. q.locator[j] = IF j \in s .. R THEN Add(c[j], Div(Mul(r.last[j - s], d), z)) ELSE c[j]
      BY <1>5, <3>1
    <3>3. u[j] = IF j \in s .. R THEN Div(Mul(r.last[j - s], d), z) ELSE 0
      BY DEF u, z
    <3>4. Add(c[j], 0) = c[j]
      <4>1. c[j] \in Elements
        BY <1>7 DEF Terms
      <4> QED  BY <4>1, AddGroup
    <3> QED  BY <3>2, <3>3, <3>4
  <2> QED  BY <2>1 DEF SumOf
<1>9. Annuls(y, q.locator, n, t, 0)
  <2>1. p + s <= n /\ s \in Nat
    BY <1>1, <1>3
  <2> QED  BY <1>1, <1>3, <1>4, <1>7, <1>8, <2>1, TurnSum
<1>10. q.locator[0] = 1 /\ \A j \in n + 1 .. NROOTS : q.locator[j] = 0
  <2>1. q.locator[0] = 1
    <3>1. 0 \in 0 .. NROOTS /\ ~(0 \in s .. R)
      BY <1>1
    <3> QED  BY <1>1, <1>5, <3>1
  <2>2. ASSUME NEW j \in n + 1 .. NROOTS
        PROVE  q.locator[j] = 0
    <3>1. j \in 0 .. NROOTS /\ ~(j \in s .. R)
      BY <1>1, <1>3
    <3> QED  BY <1>1, <1>5, <3>1
  <2> QED  BY <2>1, <2>2
<1>11. Explains(q, y, t + 1)
  <2>1. q.order = n
    BY <1>1, <1>3, <1>6
  <2>2. q.order = q.numerrors /\ q.numerrors <= t + 1 /\ q.numerrors <= Cardinality(Support(y))
        /\ q.lastOrder + q.delay = (t + 1) + 1 - q.numerrors /\ q.lastDiscrepancy # 0
        /\ SumsOf(q.syndromes, y)
    BY <1>1, <1>2, <1>5, <1>6, <2>1
  <2>3. (t + 1) - 1 = t /\ (t + 1) - q.delay = t - s
    BY <1>1, <1>6
  <2> QED  BY <1>1, <1>5, <1>6, <1>9, <1>10, <2>1, <2>2, <2>3 DEF Explains
<1> QED  BY <1>5, <1>11 DEF q, d

\* Every turn keeps the locator one that explains the syndromes.
LEMMA TurnExplains ==
    ASSUME NEW r \in Decoder, NEW y, NEW t \in 0 .. NROOTS - 1, Explains(r, y, t)
    PROVE  LET q == LocatorTurn(r, t)
           IN  Explains(q, y, t + 1) /\ q.received = r.received
<1> DEFINE d == Discrepancy(r, t)
           q == LocatorTurn(r, t)
<1>1. CASE d = 0
  <2> DEFINE p == [r EXCEPT !.delay = @ + 1]
  <2>1. q = p
    BY <1>1 DEF LocatorTurn
  <2>2. /\ r.delay \in Nat /\ r.order \in Nat /\ r.lastOrder \in Nat /\ t \in Nat
        /\ Annuls(y, r.locator, r.order, t, d) /\ Annuls(y, r.last, r.lastOrder, t - r.delay, r.lastDiscrepancy)
    BY TurnFacts
  <2>3. /\ p.received = r.received /\ p.syndromes = r.syndromes /\ p.order = r.order
        /\ p.numerrors = r.numerrors /\ p.lastOrder = r.lastOrder /\ p.delay = r.delay + 1
        /\ p.locator = r.locator /\ p.last = r.last /\ p.lastDiscrepancy = r.lastDiscrepancy
    BY DEF Decoder
  <2> HIDE DEF p, d, q
  <2>4. (t + 1) - 1 = t /\ (t + 1) - p.delay = t - r.delay
    BY <2>2, <2>3
  <2>5. Annuls(y, p.locator, p.order, (t + 1) - 1, 0)
        /\ Annuls(y, p.last, p.lastOrder, (t + 1) - p.delay, p.lastDiscrepancy)
    BY <1>1, <2>2, <2>3, <2>4
  <2>6. /\ p.order = p.numerrors /\ p.numerrors <= t + 1 /\ p.numerrors <= Cardinality(Support(y))
        /\ p.lastOrder + p.delay = (t + 1) + 1 - p.numerrors /\ p.lastDiscrepancy # 0
        /\ SumsOf(p.syndromes, y) /\ Terms(y, LAST)
        /\ p.locator[0] = 1 /\ \A j \in p.order + 1 .. NROOTS : p.locator[j] = 0
    BY <2>2, <2>3 DEF Explains
  <2>7. Explains(p, y, t + 1)
    BY <2>5, <2>6 DEF Explains
  <2> QED  BY <2>1, <2>3, <2>7 DEF q
<1>2. CASE d # 0 /\ 2 * r.numerrors <= t
  <2>1. q = Lengthened(r, t, d)
    BY <1>2 DEF LocatorTurn
  <2> QED  BY <1>2, <2>1, LengthenedExplains
<1>3. CASE d # 0 /\ ~(2 * r.numerrors <= t)
  <2>1. q = Adjusted(r, d)
    BY <1>3 DEF LocatorTurn
  <2> QED  BY <1>3, <2>1, AdjustedExplains
<1> QED  BY <1>1, <1>2, <1>3

----------------------------------------------------------------------------
(* Roots of polynomials. *)

\* The value of a polynomial, coefficient by coefficient.
LEMMA AtStep ==
    ASSUME NEW x \in Elements \ {0}, NEW n \in Nat, NEW c, Terms(c, n + 1)
    PROVE  At(c, n + 1, x) = Add(At(c, n, x), Mul(c[n + 1], Pow(x, n + 1)))
<1> DEFINE m == n + 1
           R == [j \in 0 .. m |-> Pow(x, j)]
           Q == [j \in 0 .. n |-> Pow(x, j)]
           f == [j \in 0 .. m |-> Mul(c[j], R[j])]
           g == [j \in 0 .. n |-> Mul(c[j], Q[j])]
<1>1. m \in Nat /\ m \in 0 .. m /\ n \in 0 .. m /\ n \in 0 .. m - 1 /\ \A j \in 0 .. n : j \in 0 .. m
  OBVIOUS
<1>2. Terms(R, m)
  BY <1>1, PowRow DEF PowersOf
<1>3. Terms(f, m)
  <2>1. Terms(c, m)
    OBVIOUS
  <2> HIDE DEF R, m
  <2> QED  BY <1>1, <1>2, <2>1, ValueTerms
<1>4. At(c, m, x) = XorSum(f, m) /\ At(c, n, x) = XorSum(g, n)
  BY DEF At, Value
<1>5. f[m] = Mul(c[m], Pow(x, m))
  BY <1>1
<1>6. \A j \in 0 .. n : g[j] = f[j]
  <2>1. \A j \in 0 .. n : R[j] = Q[j]
    BY <1>1
  <2> HIDE DEF R, Q
  <2> QED  BY <1>1, <2>1
<1> HIDE DEF f, g, R, Q
<1>7. Terms(f, n)
  BY <1>1, <1>3 DEF Terms
<1>8. XorSum(g, n) = XorSum(f, n)
  BY <1>6, <1>7, SumSame
<1>9. XorSum(f, n + 1) = Add(XorSum(f, n), f[n + 1])
  BY <1>1, <1>3, SumSteps
<1> QED  BY <1>4, <1>5, <1>8, <1>9

\* Coefficients that are 0 can be left out.
LEMMA AtShort ==
    ASSUME NEW x \in Elements \ {0}, NEW n \in Nat, NEW a \in 0 .. n, NEW c, Terms(c, n),
           OrderAt(c, a, n)
    PROVE  Terms(c, a) /\ At(c, n, x) = At(c, a, x)
<1>1. a \in Nat /\ 0 \in Nat /\ 1 \in Elements
  BY FieldSize DEF Elements
<1>2. Terms(c, a)
  BY DEF Terms
<1>3. Placed(c, n, 1, c, a, 0)
  <2>1. \A j \in 0 .. a : c[0 + j] = Mul(1, c[j])
    <3> TAKE j \in 0 .. a
    <3>1. c[j] \in Elements /\ 0 + j = j
      BY <1>2 DEF Terms
    <3>2. Mul(1, c[j]) = Mul(c[j], 1) /\ Mul(c[j], 1) = c[j]
      BY <1>1, <3>1, FieldLaws
    <3> QED  BY <3>1, <3>2
  <2>2. 0 + a <= n /\ \A j \in 0 .. n : j < 0 \/ j > 0 + a => c[j] = 0
    BY DEF OrderAt
  <2> QED  BY <2>1, <2>2 DEF Placed
<1>4. At(c, n, x) = Mul(Mul(1, Pow(x, 0)), At(c, a, x))
  BY <1>1, <1>2, <1>3, AtPlaced
<1>5. Mul(Mul(1, Pow(x, 0)), At(c, a, x)) = At(c, a, x)
  <2> DEFINE t == At(c, a, x)
  <2>1. Pow(x, 0) = 1 /\ t \in Elements
    BY <1>1, <1>2, PowLaws, AtType
  <2> HIDE DEF t
  <2>2. Mul(1, 1) = 1 /\ Mul(1, t) = Mul(t, 1) /\ Mul(t, 1) = t
    BY <1>1, <2>1, FieldLaws
  <2> QED  BY <2>1, <2>2 DEF t
<1> QED  BY <1>2, <1>4, <1>5

(***************************************************************************)
(* A polynomial that is 0 at 1/b is a product of 1 + b x, and this is the  *)
(* other factor: what the polynomial is worth there up to each of its      *)
(* coefficients.                                                           *)
(***************************************************************************)
Quot(c, n, b) == [k \in 0 .. n |-> Mul(Pow(b, k), At(c, k, Div(1, b)))]

\* The coefficients of the other factor, one after the other.
LEMMA QuotientSteps ==
    ASSUME NEW b \in Elements \ {0}, NEW n \in Nat, NEW c, Terms(c, n)
    PROVE  LET q == Quot(c, n, b)
           IN  /\ Terms(q, n) /\ q[0] = c[0]
               /\ \A k \in 0 .. n : At(c, k, Div(1, b)) = 0 => q[k] = 0
               /\ \A k \in 0 .. n - 1 : c[k + 1] = Add(q[k + 1], Mul(b, q[k]))
<1> DEFINE x == Div(1, b)
           q == Quot(c, n, b)
<1>1. x \in Elements \ {0} /\ Mul(b, x) = 1 /\ 1 \in Elements /\ 0 \in Elements
  BY FieldSize, DivLaws DEF Elements
<1> HIDE DEF x
<1>2. ASSUME NEW k \in 0 .. n
      PROVE  /\ k \in Nat /\ Terms(c, k) /\ At(c, k, x) \in Elements
             /\ Pow(b, k) \in Elements /\ q[k] = Mul(Pow(b, k), At(c, k, x)) /\ q[k] \in Elements
             /\ At(c, k, x) = 0 => q[k] = 0
  <2>1. k \in Nat
    OBVIOUS
  <2>2. Terms(c, k)
    BY DEF Terms
  <2>3. At(c, k, x) \in Elements
    BY <1>1, <2>1, <2>2, AtType
  <2>4. Pow(b, k) \in Elements
    BY <2>1, PowLaws
  <2>5. q[k] = Mul(Pow(b, k), At(c, k, x))
    BY DEF Quot, x
  <2>6. Mul(Pow(b, k), At(c, k, x)) \in Elements /\ Mul(Pow(b, k), 0) = 0
    BY <1>1, <2>3, <2>4, FieldLaws
  <2> QED  BY <2>1, <2>2, <2>3, <2>4, <2>5, <2>6
<1> HIDE DEF q
<1>3. q[0] = c[0]
  <2>1. 0 \in 0 .. n /\ c[0] \in Elements
    BY DEF Terms
  <2>2. q[0] = Mul(Pow(b, 0), At(c, 0, x))
    BY <1>2, <2>1
  <2>3. Pow(b, 0) = 1
    BY PowLaws
  <2>4. At(c, 0, x) = c[0]
    BY <1>1, <2>1, AtConstant
  <2>5. Mul(1, c[0]) = Mul(c[0], 1) /\ Mul(c[0], 1) = c[0]
    BY <1>1, <2>1, FieldLaws
  <2> QED  BY <2>2, <2>3, <2>4, <2>5
<1>4. ASSUME NEW k \in 0 .. n - 1
      PROVE  c[k + 1] = Add(q[k + 1], Mul(b, q[k]))
  <2> DEFINE a == At(c, k, x)
             e == c[k + 1]
             p == Pow(b, k)
             w == Pow(x, k + 1)
             v == Pow(b, k + 1)
  <2>1. k \in 0 .. n /\ k + 1 \in 0 .. n /\ k \in Nat /\ k + 1 \in Nat
    OBVIOUS
  <2>2. a \in Elements /\ e \in Elements /\ p \in Elements /\ v \in Elements /\ q[k] = Mul(p, a)
        /\ q[k + 1] = Mul(v, At(c, k + 1, x)) /\ Terms(c, k + 1)
    BY <1>2, <2>1 DEF Terms
  <2>3. At(c, k + 1, x) = Add(a, Mul(e, w)) /\ w \in Elements
    <3>1. At(c, k + 1, x) = Add(a, Mul(e, w))
      BY <1>1, <2>1, <2>2, AtStep
    <3>2. w \in Elements
      BY <1>1, <2>1, PowLaws
    <3> QED  BY <3>1, <3>2
  <2>4. v = Mul(p, b)
    BY <2>1, PowLaws
  <2>5. Mul(v, w) = 1
    <3>1. (k + 1) - (k + 1) = 0 /\ k + 1 \in 0 .. k + 1
      BY <2>1
    <3>2. Pow(b, (k + 1) - (k + 1)) = Mul(Pow(b, k + 1), Pow(Div(1, b), k + 1))
      BY <2>1, <3>1, PowInverse
    <3>3. Pow(b, 0) = 1
      BY PowLaws
    <3> QED  BY <3>1, <3>2, <3>3 DEF x
  <2> HIDE DEF a, e, p, w, v
  <2>6. Mul(e, w) \in Elements /\ Mul(v, a) \in Elements /\ Mul(p, a) \in Elements /\ Mul(v, w) = Mul(w, v)
    BY <2>2, <2>3, FieldLaws
  <2>7. Mul(v, Add(a, Mul(e, w))) = Add(Mul(v, a), Mul(v, Mul(e, w)))
    <3> DEFINE h == Mul(e, w)
    <3>1. h \in Elements
      BY <2>6
    <3> HIDE DEF h
    <3>2. Mul(v, Add(a, h)) = Mul(Add(a, h), v) /\ Mul(Add(a, h), v) = Add(Mul(a, v), Mul(h, v))
          /\ Mul(a, v) = Mul(v, a) /\ Mul(h, v) = Mul(v, h)
      <4>1. Add(a, h) \in Elements
        BY <2>2, <3>1, AddGroup
      <4> QED  BY <2>2, <3>1, <4>1, FieldLaws
    <3> QED  BY <3>2 DEF h
  <2>8. Mul(v, Mul(e, w)) = e
    <3>1. Mul(v, Mul(e, w)) = Mul(Mul(e, w), v) /\ Mul(Mul(e, w), v) = Mul(e, Mul(w, v)) /\ Mul(e, 1) = e
      BY <1>1, <2>2, <2>3, <2>6, FieldLaws
    <3> QED  BY <2>5, <2>6, <3>1
  <2>9. Mul(v, a) = Mul(b, Mul(p, a))
    <3>1. Mul(p, b) = Mul(b, p) /\ Mul(Mul(b, p), a) = Mul(b, Mul(p, a))
      BY <2>2, FieldLaws
    <3> QED  BY <2>4, <3>1
  <2>10. q[k + 1] = Add(Mul(b, q[k]), e)
    BY <2>2, <2>3, <2>7, <2>8, <2>9
  <2>11. Add(Add(Mul(b, q[k]), e), Mul(b, q[k])) = e
    <3> DEFINE h == Mul(b, q[k])
    <3>1. h \in Elements
      BY <2>2, <2>6, FieldLaws
    <3> HIDE DEF h
    <3>2. Add(Add(h, e), h) = Add(Add(h, h), e) /\ Add(h, h) = 0 /\ Add(0, e) = e
      BY <2>2, <3>1, AddFour
    <3> QED  BY <3>2 DEF h
  <2> QED  BY <2>10, <2>11 DEF e
<1>5. Terms(q, n)
  BY <1>2 DEF Terms
<1> QED  BY <1>2, <1>3, <1>4, <1>5 DEF q, x

\* A polynomial is the product of its factor and the other one.
LEMMA QuotientValue ==
    ASSUME NEW b \in Elements \ {0}, NEW n \in Nat \ {0}, NEW c, Terms(c, n), At(c, n, Div(1, b)) = 0,
           NEW x \in Elements \ {0}
    PROVE  LET q == Quot(c, n, b)
           IN  /\ Terms(q, n - 1) /\ q[0] = c[0]
               /\ At(q, n - 1, x) \in Elements
               /\ At(c, n, x) = Mul(Add(1, Mul(b, x)), At(q, n - 1, x))
<1> DEFINE q == Quot(c, n, b)
           u == [j \in 0 .. n |-> IF j = 0 THEN 0 ELSE Mul(b, q[j - 1])]
           a == At(q, n - 1, x)
<1>1. /\ Terms(q, n) /\ q[0] = c[0] /\ q[n] = 0
      /\ \A k \in 0 .. n - 1 : c[k + 1] = Add(q[k + 1], Mul(b, q[k]))
  <2>1. n \in 0 .. n
    OBVIOUS
  <2> QED  BY <2>1, QuotientSteps
<1> HIDE DEF q
<1>2. n - 1 \in Nat /\ n - 1 \in 0 .. n /\ 1 \in Nat /\ 1 \in Elements /\ 0 \in Elements
  BY FieldSize DEF Elements
<1>3. OrderAt(q, n - 1, n)
  <2>1. \A j \in (n - 1) + 1 .. n : j = n
    OBVIOUS
  <2> QED  BY <1>1, <2>1 DEF OrderAt
<1>4. Terms(q, n - 1) /\ At(q, n, x) = a
  BY <1>1, <1>2, <1>3, AtShort
<1>5. Placed(u, n, b, q, n - 1, 1)
  <2>1. \A k \in 0 .. n - 1 : u[1 + k] = Mul(b, q[k])
    <3> TAKE k \in 0 .. n - 1
    <3>1. 1 + k \in 0 .. n /\ 1 + k # 0 /\ (1 + k) - 1 = k
      OBVIOUS
    <3> QED  BY <3>1
  <2>2. \A j \in 0 .. n : j < 1 \/ j > 1 + (n - 1) => u[j] = 0
    <3> TAKE j \in 0 .. n
    <3>1. j < 1 \/ j > 1 + (n - 1) => j = 0
      OBVIOUS
    <3> QED  BY <3>1
  <2>3. 1 + (n - 1) <= n
    OBVIOUS
  <2> HIDE DEF u
  <2> QED  BY <2>1, <2>2, <2>3 DEF Placed
<1>6. Terms(u, n) /\ At(u, n, x) = Mul(Mul(b, Pow(x, 1)), a)
  <2> HIDE DEF u
  <2> QED  BY <1>2, <1>4, <1>5, AtPlaced
<1>7. \A j \in 0 .. n : c[j] = Add(q[j], u[j])
  <2> TAKE j \in 0 .. n
  <2>1. CASE j = 0
    <3>1. u[0] = 0 /\ 0 \in 0 .. n
      OBVIOUS
    <3>2. Add(q[0], 0) = q[0]
      <4>1. q[0] \in Elements
        BY <1>1, <3>1 DEF Terms
      <4> QED  BY <4>1, AddGroup
    <3> HIDE DEF u
    <3> QED  BY <1>1, <2>1, <3>1, <3>2
  <2>2. CASE j # 0
    <3>1. j - 1 \in 0 .. n - 1 /\ (j - 1) + 1 = j
      BY <2>2
    <3>2. u[j] = Mul(b, q[j - 1])
      BY <2>2
    <3>3. c[(j - 1) + 1] = Add(q[(j - 1) + 1], Mul(b, q[j - 1]))
      BY <1>1, <3>1
    <3> HIDE DEF u
    <3> QED  BY <3>1, <3>2, <3>3
  <2> QED  BY <2>1, <2>2
<1>8. At(c, n, x) = Add(At(q, n, x), At(u, n, x))
  <2> HIDE DEF u
  <2> QED  BY <1>1, <1>6, <1>7, AtAdd
<1>9. a \in Elements
  BY <1>2, <1>4, AtType
<1> HIDE DEF a, u
<1>10. Pow(x, 1) = x /\ Mul(b, x) \in Elements
  BY <1>2, PowLaws, FieldLaws
<1>11. Mul(Add(1, Mul(b, x)), a) = Add(Mul(1, a), Mul(Mul(b, x), a))
  BY <1>2, <1>9, <1>10, FieldLaws
<1>12. Mul(1, a) = Mul(a, 1) /\ Mul(a, 1) = a
  BY <1>2, <1>9, FieldLaws
<1> QED  BY <1>1, <1>4, <1>6, <1>8, <1>9, <1>10, <1>11, <1>12 DEF q, a

\* A polynomial that is not 0 at 0 has no more roots than its order.
RootsOf(c, n) == {x \in Elements \ {0} : At(c, n, x) = 0}
Bounded(c, n) == Terms(c, n) /\ c[0] # 0 => Cardinality(RootsOf(c, n)) <= n

\* The roots are finitely many.
LEMMA RootsFinite ==
    ASSUME NEW c, NEW n
    PROVE  IsFiniteSet(RootsOf(c, n)) /\ Cardinality(RootsOf(c, n)) \in Nat
<1>1. IsFiniteSet(Elements)
  BY FieldSize, FS_Interval DEF Elements
<1>2. IsFiniteSet(RootsOf(c, n))
  BY <1>1, FS_Subset DEF RootsOf
<1> QED  BY <1>2, FS_CardinalityType

\* A polynomial has no more roots than its order.
LEMMA RootCount ==
    ASSUME NEW n \in Nat, NEW c
    PROVE  Bounded(c, n)
<1> DEFINE S == {k \in 0 .. n : \A d : Bounded(d, k)}
<1>1. 0 \in S
  <2> SUFFICES ASSUME NEW d, Terms(d, 0), d[0] # 0 PROVE Cardinality(RootsOf(d, 0)) <= 0
    BY DEF Bounded
  <2>1. d[0] \in Elements
    BY DEF Terms
  <2>2. RootsOf(d, 0) = {}
    <3>1. ASSUME NEW x \in Elements \ {0}
          PROVE  At(d, 0, x) # 0
      BY <2>1, AtConstant
    <3> QED  BY <3>1 DEF RootsOf
  <2> QED  BY <2>2, FS_EmptySet
<1>2. ASSUME NEW k \in 0 .. n - 1, k \in S
      PROVE  k + 1 \in S
  <2>1. k \in Nat /\ k + 1 \in 0 .. n /\ k + 1 \in Nat \ {0} /\ (k + 1) - 1 = k
    OBVIOUS
  <2> SUFFICES ASSUME NEW d, Terms(d, k + 1), d[0] # 0 PROVE Cardinality(RootsOf(d, k + 1)) <= k + 1
    BY <2>1 DEF Bounded
  <2> DEFINE T == RootsOf(d, k + 1)
  <2>2. IsFiniteSet(T) /\ Cardinality(T) \in Nat
    BY RootsFinite
  <2>3. CASE T = {}
    <3>1. Cardinality(T) = 0
      BY <2>3, FS_EmptySet
    <3> HIDE DEF T
    <3> QED  BY <2>1, <3>1 DEF T
  <2>4. CASE T # {}
    <3>1. PICK f \in Elements \ {0} : At(d, k + 1, f) = 0
      BY <2>4 DEF RootsOf
    <3> DEFINE b == Div(1, f)
               q == Quot(d, k + 1, b)
    <3>2. b \in Elements \ {0} /\ Mul(f, b) = 1 /\ 1 \in Elements
      BY FieldSize, DivLaws DEF Elements
    <3>3. Div(1, b) = f /\ Mul(b, f) = 1
      <4> DEFINE g == Div(1, b)
      <4>1. g \in Elements \ {0} /\ Mul(Mul(f, b), g) = f
        BY <3>2, DivLaws
      <4> HIDE DEF g, b
      <4>2. Mul(1, g) = Mul(g, 1) /\ Mul(g, 1) = g /\ Mul(b, f) = Mul(f, b)
        BY <3>2, <4>1, FieldLaws
      <4> QED  BY <3>2, <4>1, <4>2 DEF g
    <3> HIDE DEF b
    <3>4. ASSUME NEW x \in Elements \ {0}
          PROVE  /\ Terms(q, k) /\ q[0] = d[0]
                 /\ At(q, k, x) \in Elements
                 /\ At(d, k + 1, x) = Mul(Add(1, Mul(b, x)), At(q, k, x))
      <4>1. At(d, k + 1, Div(1, b)) = 0
        BY <3>1, <3>3
      <4> DEFINE w == k + 1
      <4>2. w \in Nat \ {0} /\ w - 1 = k /\ Terms(d, w) /\ At(d, w, Div(1, b)) = 0
        BY <2>1, <4>1
      <4>3. LET r == Quot(d, w, b)
            IN  /\ Terms(r, w - 1) /\ r[0] = d[0]
                /\ At(r, w - 1, x) \in Elements
                /\ At(d, w, x) = Mul(Add(1, Mul(b, x)), At(r, w - 1, x))
        <5> HIDE DEF w
        <5> QED  BY <3>2, <4>2, QuotientValue
      <4> QED  BY <4>2, <4>3
    <3> HIDE DEF q
    <3>5. Terms(q, k) /\ q[0] # 0
      BY <3>1, <3>4
    <3>6. Cardinality(RootsOf(q, k)) <= k
      BY <1>2, <3>5 DEF Bounded
    <3>7. T \ {f} \subseteq RootsOf(q, k)
      <4> SUFFICES ASSUME NEW x \in Elements \ {0}, At(d, k + 1, x) = 0, x # f
                   PROVE  At(q, k, x) = 0
        BY DEF RootsOf
      <4> DEFINE a == Add(1, Mul(b, x))
                 v == At(q, k, x)
      <4>1. Mul(b, x) \in Elements /\ v \in Elements /\ Mul(a, v) = 0
        <5>1. Mul(b, x) \in Elements
          BY <3>2, FieldLaws
        <5> QED  BY <3>4, <5>1
      <4>2. a \in Elements
        BY <3>2, <4>1, AddGroup
      <4>3. a # 0
        <5> SUFFICES ASSUME a = 0 PROVE FALSE
          OBVIOUS
        <5>1. Mul(b, x) = 1
          BY <3>2, <4>1, SameSum
        <5>2. Mul(x, b) = 1
          BY <3>2, <5>1, FieldLaws
        <5>3. Mul(Mul(x, b), Div(1, b)) = x /\ Mul(Mul(f, b), Div(1, b)) = f
          BY <3>2, DivLaws
        <5> QED  BY <3>2, <5>2, <5>3
      <4> HIDE DEF a, v
      <4>4. v = 0
        BY <4>1, <4>2, <4>3, DivLaws
      <4> QED  BY <4>4 DEF v
    <3>8. f \in T
      BY <3>1 DEF RootsOf
    <3> HIDE DEF T
    <3>9. Cardinality(T \ {f}) = Cardinality(T) - 1
      BY <2>2, <3>8, FS_RemoveElement
    <3>10. Cardinality(T \ {f}) <= Cardinality(RootsOf(q, k)) /\ Cardinality(RootsOf(q, k)) \in Nat
      <4>1. IsFiniteSet(RootsOf(q, k)) /\ Cardinality(RootsOf(q, k)) \in Nat
        BY RootsFinite
      <4> QED  BY <3>7, <4>1, FS_Subset
    <3>11. Cardinality(T) <= k + 1
      BY <2>1, <2>2, <3>6, <3>9, <3>10
    <3> QED  BY <3>11 DEF T
  <2> QED  BY <2>3, <2>4
<1> HIDE DEF S
<1>3. \A k \in 0 .. n : k \in S
  BY <1>1, <1>2, UpTo
<1>4. n \in S
  BY <1>3
<1> QED  BY <1>4 DEF S

\* An error has a root of its own.
LEMMA FarApart ==
    /\ \A m, k \in 0 .. LAST : Far(m) = Far(k) => m = k
    /\ \A m \in Nat : Div(1, Far(m)) = Spot(m)
    /\ \A m, k \in 0 .. LAST : m # k => Add(1, Mul(Spot(m), Far(k))) \in Elements \ {0}
<1>0. LAST \in Nat /\ 1 \in Elements
  BY FieldSize DEF LAST, Elements
<1>1. ASSUME NEW m \in Nat
      PROVE  Div(1, Far(m)) = Spot(m)
  <2> DEFINE b == Spot(m)
             f == Far(m)
             g == Div(1, f)
  <2>1. b \in Elements \ {0} /\ f \in Elements \ {0} /\ Mul(b, f) = 1
    BY Spots, FarType
  <2> HIDE DEF b, f
  <2>2. g \in Elements \ {0} /\ Mul(Mul(b, f), g) = b
    BY <2>1, DivLaws
  <2> HIDE DEF g
  <2>3. Mul(1, g) = Mul(g, 1) /\ Mul(g, 1) = g
    BY <1>0, <2>2, FieldLaws
  <2> QED  BY <2>1, <2>2, <2>3 DEF b, f, g
<1>2. \A m, k \in 0 .. LAST : Far(m) = Far(k) => m = k
  <2> SUFFICES ASSUME NEW m \in 0 .. LAST, NEW k \in 0 .. LAST, Far(m) = Far(k) PROVE m = k
    OBVIOUS
  <2>1. m \in Nat /\ k \in Nat
    BY <1>0
  <2>2. Spot(m) = Spot(k)
    BY <1>1, <2>1
  <2> QED  BY <2>2, Spots
<1>3. ASSUME NEW m \in 0 .. LAST, NEW k \in 0 .. LAST, m # k
      PROVE  Add(1, Mul(Spot(m), Far(k))) \in Elements \ {0}
  <2> DEFINE b == Spot(m)
             f == Far(k)
  <2>1. m \in Nat /\ k \in Nat
    BY <1>0
  <2>2. b \in Elements \ {0} /\ f \in Elements \ {0} /\ Mul(Spot(k), f) = 1 /\ Spot(k) \in Elements \ {0}
    BY <2>1, Spots, FarType
  <2>3. b # Spot(k)
    BY <1>3, Spots
  <2> HIDE DEF b, f
  <2>4. Mul(b, f) \in Elements /\ Add(1, Mul(b, f)) \in Elements
    <3>1. Mul(b, f) \in Elements
      BY <2>2, FieldLaws
    <3> QED  BY <1>0, <3>1, AddGroup
  <2>5. Mul(b, f) # 1
    <3>1. Mul(Mul(b, f), Div(1, f)) = b /\ Mul(Mul(Spot(k), f), Div(1, f)) = Spot(k)
      BY <2>2, DivLaws
    <3> QED  BY <2>2, <2>3, <3>1
  <2>6. Add(1, Mul(b, f)) # 0
    BY <1>0, <2>4, <2>5, SameSum
  <2> QED  BY <2>4, <2>6 DEF b, f
<1> QED  BY <1>1, <1>2, <1>3

\* Every element but 0 is the root of some place.
LEMMA FarOnto ==
    \A x \in Elements \ {0} : \E m \in 0 .. LAST : Far(m) = x
<1> DEFINE C == 0 .. LAST
           E == Elements \ {0}
           f == [m \in C |-> Far(m)]
<1>1. LAST \in Nat /\ FIELD \in Nat /\ FIELD >= 4 /\ LAST = FIELD - 2
  BY FieldSize DEF LAST
<1>2. E = 1 .. FIELD - 1
  BY <1>1 DEF Elements
<1>3. IsFiniteSet(C) /\ IsFiniteSet(E) /\ Cardinality(C) = FIELD - 1 /\ Cardinality(E) = FIELD - 1
  <2>1. IsFiniteSet(C) /\ Cardinality(C) = FIELD - 1
    <3>1. IsFiniteSet(0 .. LAST) /\ Cardinality(0 .. LAST) = IF 0 > LAST THEN 0 ELSE LAST - 0 + 1
      BY <1>1, FS_Interval
    <3> QED  BY <1>1, <3>1
  <2>2. IsFiniteSet(E) /\ Cardinality(E) = FIELD - 1
    <3>1. IsFiniteSet(1 .. FIELD - 1)
          /\ Cardinality(1 .. FIELD - 1) = IF 1 > FIELD - 1 THEN 0 ELSE (FIELD - 1) - 1 + 1
      BY <1>1, FS_Interval
    <3>2. Cardinality(1 .. FIELD - 1) = FIELD - 1
      BY <1>1, <3>1
    <3> HIDE DEF E
    <3> QED  BY <1>2, <3>1, <3>2
  <2> QED  BY <2>1, <2>2
<1>4. f \in [C -> E]
  <2>1. \A m \in C : Far(m) \in E
    BY <1>1, FarType
  <2> HIDE DEF E, C
  <2> QED  BY <2>1
<1>5. f \in Injection(C, E)
  <2>1. \A m, k \in C : f[m] = f[k] => m = k
    BY FarApart
  <2> HIDE DEF f, E, C
  <2> QED  BY <1>4, <2>1 DEF Injection, IsInjective
<1>6. f \in Surjection(C, E)
  <2> HIDE DEF f, E, C
  <2> QED  BY <1>3, <1>5, FS_Injection
<1>7. \A x \in E : \E m \in C : f[m] = x
  <2> HIDE DEF f, E, C
  <2> QED  BY <1>6 DEF Surjection
<1> QED  BY <1>7

----------------------------------------------------------------------------
(* The roots of the locator are the errors. *)

\* The roots there should be: one for every error.
Errata(y) == {Far(m) : m \in Support(y)}

\* There are as many roots to find as there are errors.
LEMMA ErrataCount ==
    ASSUME NEW y
    PROVE  /\ Errata(y) \subseteq Elements \ {0} /\ IsFiniteSet(Errata(y))
           /\ Cardinality(Errata(y)) = Cardinality(Support(y))
<1> DEFINE S == Support(y)
           T == Errata(y)
           f == [m \in S |-> Far(m)]
<1>1. IsFiniteSet(S)
  BY SupportFinite
<1>2. \A m \in S : m \in 0 .. LAST /\ m \in Nat
  BY FieldSize DEF Support, LAST
<1>3. T = {Far(m) : m \in S}
  BY DEF Errata
<1> HIDE DEF S, T
<1>4. f \in Surjection(S, T)
  BY <1>3 DEF Surjection
<1>5. f \in Injection(S, T)
  <2>1. f \in [S -> T]
    BY <1>3
  <2>2. \A m, k \in S : f[m] = f[k] => m = k
    BY <1>2, FarApart
  <2> QED  BY <2>1, <2>2 DEF Injection, IsInjective
<1> HIDE DEF f
<1>6. IsFiniteSet(T) /\ Cardinality(T) = Cardinality(S)
  BY <1>1, <1>4, <1>5, FS_Surjection
<1>7. T \subseteq Elements \ {0}
  BY <1>2, <1>3, FarType
<1> QED  BY <1>6, <1>7 DEF S, T

(***************************************************************************)
(* What the locator of a block with as many errors as can be corrected is  *)
(* in the end: its order is the number of the errors, and it has a root at *)
(* every one of them.                                                      *)
(***************************************************************************)
Solves(r, y) ==
    /\ Terms(y, LAST) /\ SumsOf(r.syndromes, y)
    /\ r.order = Cardinality(Support(y)) /\ r.order < NROOTS
    /\ r.locator[0] = 1 /\ OrderAt(r.locator, r.order, NROOTS)
    /\ \A m \in Support(y) : At(r.locator, r.order, Far(m)) = 0

\* The coefficients of the locator are elements.
LEMMA LocatorTerms ==
    ASSUME NEW r \in Decoder
    PROVE  Terms(r.locator, NROOTS) /\ \A n \in 0 .. NROOTS : Terms(r.locator, n)
<1>1. NROOTS \in Nat /\ r.locator \in Row(NROOTS)
  BY FieldSize DEF Decoder
<1> QED  BY <1>1 DEF Row, Terms

\* A locator that explains all syndromes is that of the errors, when they are few.
LEMMA ExplainsSolves ==
    ASSUME NEW r \in Decoder, NEW y, Explains(r, y, NROOTS), 2 * Cardinality(Support(y)) <= NROOTS
    PROVE  Solves(r, y)
<1> DEFINE w == Cardinality(Support(y))
           L == r.order
           c == r.locator
<1>1. /\ Terms(y, LAST) /\ SumsOf(r.syndromes, y) /\ L = r.numerrors
      /\ L <= w /\ c[0] = 1 /\ OrderAt(c, L, NROOTS)
      /\ Annuls(y, c, L, NROOTS - 1, 0)
  BY DEF Explains, OrderAt
<1>2. L \in Nat /\ w \in Nat /\ NROOTS \in Nat \ {0} /\ 2 * w <= NROOTS
  BY FieldSize, SupportFinite DEF Decoder
<1>3. L \in 0 .. NROOTS
  BY <1>1, <1>2
<1>4. Terms(c, L)
  BY <1>3, LocatorTerms
<1> HIDE DEF w, L, c
<1>5. \A m \in Support(y) : At(c, L, Far(m)) = 0
  <2>1. NROOTS - L >= w
    BY <1>1, <1>2
  <2>2. \A k \in L .. NROOTS - 1 : PowerSum(Weighted(y, c, L), k) = 0
    BY <1>1 DEF Annuls
  <2> QED  BY <1>1, <1>2, <1>4, <2>1, <2>2, Massey DEF w
<1>6. w <= L
  <2>1. Cardinality(RootsOf(c, L)) <= L
    <3>1. 1 # 0
      OBVIOUS
    <3> QED  BY <1>1, <1>2, <1>4, <3>1, RootCount DEF Bounded
  <2>2. Errata(y) \subseteq RootsOf(c, L)
    <3>1. \A m \in Support(y) : Far(m) \in Elements \ {0}
      BY ErrataCount DEF Errata
    <3> QED  BY <1>5, <3>1 DEF Errata, RootsOf
  <2>3. Cardinality(Errata(y)) <= Cardinality(RootsOf(c, L)) /\ Cardinality(RootsOf(c, L)) \in Nat
    BY <2>2, RootsFinite, FS_Subset
  <2>4. Cardinality(Errata(y)) = w
    BY ErrataCount DEF w
  <2> QED  BY <1>2, <2>1, <2>3, <2>4
<1>7. L = w /\ L < NROOTS
  BY <1>1, <1>2, <1>6
<1> QED  BY <1>1, <1>5, <1>7 DEF Solves, w, L, c

\* The search has the roots of the locator, when it does not read past its tables.
LEMMA FoundRoots ==
    ASSUME NEW r \in Decoder, r.locator[0] = 1, r.order < NROOTS
    PROVE  Found(r) = {RootsOf(r.locator, r.order)}
<1> DEFINE L == r.order
           c == r.locator
           P == {x \in Elements : Partial(r, x) = 0}
<1>1. L \in Nat /\ L < NROOTS /\ NROOTS \in Nat /\ c[0] = 1
  BY FieldSize DEF Decoder
<1>2. L \in 0 .. NROOTS /\ L \in 0 .. NROOTS - 1 /\ NROOTS - 1 \in Nat
  BY <1>1
<1>3. Terms(c, L)
  BY <1>2, LocatorTerms
<1>4. Found(r) = {P}
  BY <1>1 DEF Found
<1>5. ASSUME NEW x \in Elements
      PROVE  Partial(r, x) = EvalLogTable([i \in 0 .. L |-> Log[c[i]]], L, PowerTable(x, NROOTS - 1))
  <2>1. ElementPowers[x] = PowerTable(x, NROOTS - 1)
    BY DEF ElementPowers
  <2> QED  BY <1>1, <2>1 DEF Partial
<1>6. ASSUME NEW x \in Elements \ {0}
      PROVE  Partial(r, x) = At(c, L, x)
  <2> HIDE DEF L, c
  <2>1. EvalLogTable([i \in 0 .. L |-> Log[c[i]]], L, PowerTable(x, NROOTS - 1)) = At(c, L, x)
    BY <1>2, <1>3, Evaluated
  <2> QED  BY <1>5, <2>1
<1>7. Partial(r, 0) # 0
  <2> DEFINE T == PowerTable(0, NROOTS - 1)
             logs == [i \in 0 .. L |-> Log[c[i]]]
  <2>1. T[0] = 0
    <3>1. 0 \in 0 .. NROOTS - 1
      BY <1>2
    <3> QED  BY <3>1 DEF PowerTable
  <2>2. logs[0] = Log[1]
    BY <1>1
  <2>3. 1 \in Elements \ {0} /\ 0 \in Elements /\ Log[1] \in 1 .. FIELD - 1 /\ Exp[Log[1]] = 1
    <3>1. 1 \in Elements \ {0} /\ 0 \in Elements
      BY FieldSize DEF Elements
    <3> QED  BY <3>1, LogType
  <2>4. Partial(r, 0) = EvalLogTable(logs, L, T)
    BY <1>5, <2>3
  <2> HIDE DEF T, logs
  <2>5. EvalLogTable(logs, L, T) = Exp[Log[1]]
    <3>1. Log[1] # 0
      BY <2>3
    <3> QED  BY <2>1, <2>2, <3>1 DEF EvalLogTable
  <2> QED  BY <2>3, <2>4, <2>5
<1>8. P = RootsOf(c, L)
  <2> HIDE DEF L, c
  <2> QED  BY <1>6, <1>7 DEF RootsOf
<1> QED  BY <1>4, <1>8

\* The search finds these roots and no others.
LEMMA FoundErrata ==
    ASSUME NEW r \in Decoder, NEW y, Solves(r, y)
    PROVE  Found(r) = {Errata(y)} /\ Cardinality(Errata(y)) = r.order
<1> DEFINE L == r.order
           c == r.locator
<1>1. /\ L \in Nat /\ L < NROOTS /\ NROOTS \in Nat /\ c[0] = 1 /\ L = Cardinality(Support(y))
      /\ \A m \in Support(y) : At(c, L, Far(m)) = 0
  BY FieldSize DEF Solves, Decoder
<1>2. L \in 0 .. NROOTS /\ L \in 0 .. NROOTS - 1 /\ NROOTS - 1 \in Nat
  BY <1>1
<1>3. Terms(c, L)
  BY <1>2, LocatorTerms
<1>4. Found(r) = {RootsOf(c, L)}
  BY <1>1, FoundRoots
<1> HIDE DEF L, c
<1>9. Errata(y) \subseteq RootsOf(c, L)
  <2>1. \A m \in Support(y) : Far(m) \in Elements \ {0}
    BY ErrataCount DEF Errata
  <2> QED  BY <1>1, <2>1 DEF Errata, RootsOf
<1>10. RootsOf(c, L) = Errata(y)
  <2>1. IsFiniteSet(RootsOf(c, L)) /\ Cardinality(RootsOf(c, L)) \in Nat
    BY RootsFinite
  <2>2. Cardinality(RootsOf(c, L)) <= L
    <3>1. 1 # 0
      OBVIOUS
    <3> QED  BY <1>1, <1>3, <3>1, RootCount DEF Bounded
  <2>3. Cardinality(Errata(y)) = L
    BY <1>1, ErrataCount
  <2>4. Cardinality(Errata(y)) <= Cardinality(RootsOf(c, L))
        /\ (Cardinality(RootsOf(c, L)) = Cardinality(Errata(y)) => RootsOf(c, L) = Errata(y))
    BY <1>9, <2>1, FS_Subset
  <2> QED  BY <1>1, <2>1, <2>2, <2>3, <2>4
<1>11. Cardinality(Errata(y)) = L
  BY <1>1, ErrataCount
<1> QED  BY <1>4, <1>10, <1>11 DEF L

----------------------------------------------------------------------------
(* The values of the errors: Forney's formula. *)

\* The evaluator of Forney's formula.
Omega(r) == Product(r.locator, r.order, r.syndromes, NROOTS - 1, NROOTS - 1)

\* Its coefficients are power sums, of the weights times what the locator is worth up to there.
LEMMA OmegaSums ==
    ASSUME NEW r \in Decoder, NEW y, Solves(r, y), NEW k \in 0 .. NROOTS - 1
    PROVE  Omega(r)[k] = PowerSum(Weighted(y, r.locator, k), k)
<1> DEFINE c == r.locator
           S == r.syndromes
           L == r.order
           N == NROOTS - 1
           f == [i \in 0 .. k |-> IF i <= L /\ k - i <= N THEN Mul(c[i], S[k - i]) ELSE 0]
           g == [i \in 0 .. k |-> Mul(c[i], S[k - i])]
<1>1. /\ k \in Nat /\ N \in Nat /\ k <= N /\ L \in Nat /\ NROOTS \in Nat /\ Terms(y, LAST) /\ SumsOf(S, y)
      /\ OrderAt(c, L, NROOTS) /\ S \in Row(N)
  BY FieldSize DEF Solves, Decoder
<1>2. Terms(c, k)
  <2>1. k \in 0 .. NROOTS
    BY <1>1
  <2> QED  BY <2>1, LocatorTerms
<1>3. Omega(r)[k] = XorSum(f, k)
  <2> HIDE DEF c, S, L
  <2> QED  BY <1>1 DEF Omega, Product, c, S, L
<1> HIDE DEF c, S, L
<1>4. f = g
  <2>1. ASSUME NEW i \in 0 .. k
        PROVE  f[i] = g[i]
    <3>1. i \in Nat /\ k - i <= N /\ k - i \in 0 .. N /\ i \in 0 .. NROOTS
      BY <1>1
    <3>2. CASE i <= L
      <4>1. i <= L /\ k - i <= N
        BY <3>1, <3>2
      <4> HIDE DEF N
      <4> QED  BY <4>1
    <3>3. CASE ~(i <= L)
      <4>1. i \in L + 1 .. NROOTS
        BY <1>1, <3>1, <3>3
      <4>2. c[i] = 0 /\ S[k - i] \in Elements
        BY <1>1, <3>1, <4>1 DEF OrderAt, Row
      <4>3. Mul(0, S[k - i]) = 0
        BY <4>2, FieldLaws
      <4>4. f[i] = 0
        BY <3>3
      <4>5. g[i] = Mul(c[i], S[k - i])
        OBVIOUS
      <4> HIDE DEF f, g
      <4> QED  BY <4>2, <4>3, <4>4, <4>5
    <3> QED  BY <3>2, <3>3
  <2> HIDE DEF N
  <2> QED  BY <2>1
<1>5. XorSum(g, k) = PowerSum(Weighted(y, c, k), k)
  <2>1. k <= k
    BY <1>1
  <2> QED  BY <1>1, <1>2, <2>1, Convolution
<1> HIDE DEF f, g
<1> QED  BY <1>3, <1>4, <1>5 DEF c

\* The same product, otherwise grouped.
LEMMA Regroup ==
    ASSUME NEW w \in Elements, NEW p \in Elements, NEW a \in Elements, NEW z \in Elements
    PROVE  /\ Mul(w, Mul(Mul(p, a), z)) = Mul(z, Mul(Mul(w, a), p))
           /\ Mul(w, Mul(Mul(p, a), z)) \in Elements
<1> DEFINE pa == Mul(p, a)
           wa == Mul(w, a)
           g == Mul(wa, p)
<1>1. pa \in Elements /\ wa \in Elements /\ pa = Mul(a, p)
  BY FieldLaws
<1>2. g = Mul(w, pa)
  <2>1. Mul(Mul(w, a), p) = Mul(w, Mul(a, p))
    BY FieldLaws
  <2> QED  BY <1>1, <2>1
<1> HIDE DEF pa, wa
<1>3. g \in Elements
  BY <1>1, FieldLaws
<1> HIDE DEF g
<1>4. Mul(Mul(w, pa), z) = Mul(w, Mul(pa, z)) /\ Mul(g, z) = Mul(z, g) /\ Mul(z, g) \in Elements
  BY <1>1, <1>3, FieldLaws
<1> QED  BY <1>2, <1>4 DEF g, pa, wa

\* Its value is a sum over the errors.
Part(c, m) == Quot(c, NROOTS, Spot(m))

\* The value of the error evaluator: the errors, each times the rest of the locator.
LEMMA OmegaAt ==
    ASSUME NEW r \in Decoder, NEW y, Solves(r, y), NEW x \in Elements \ {0}
    PROVE  LET part == [m \in 0 .. LAST |-> Mul(y[m], At(Part(r.locator, m), NROOTS - 1, x))]
           IN  /\ Terms(Omega(r), NROOTS - 1) /\ Terms(part, LAST)
               /\ At(Omega(r), NROOTS - 1, x) = XorSum(part, LAST)
<1> DEFINE c == r.locator
           N == NROOTS - 1
           O == Omega(r)
           Q == [k \in 0 .. N |-> Pow(x, k)]
           q(m) == Part(c, m)
           F == [k \in 0 .. N |-> [m \in 0 .. LAST |-> Mul(y[m], Mul(q(m)[k], Q[k]))]]
           rows == [k \in 0 .. N |-> XorSum(F[k], LAST)]
           columns == [m \in 0 .. LAST |-> XorSum([k \in 0 .. N |-> F[k][m]], N)]
           part == [m \in 0 .. LAST |-> Mul(y[m], At(q(m), N, x))]
<1>1. N \in Nat /\ NROOTS \in Nat /\ Terms(y, LAST) /\ Terms(c, NROOTS) /\ LAST \in Nat
      /\ \A k \in 0 .. N : k \in 0 .. NROOTS
  BY FieldSize, LocatorTerms DEF Solves, LAST
<1>2. ASSUME NEW m \in 0 .. LAST
      PROVE  /\ Spot(m) \in Elements \ {0} /\ Far(m) \in Elements \ {0} /\ y[m] \in Elements
             /\ Terms(q(m), NROOTS)
  <2>1. m \in Nat
    BY <1>1
  <2>2. Spot(m) \in Elements \ {0} /\ Far(m) \in Elements \ {0}
    BY <2>1, Spots, FarType
  <2>3. Terms(q(m), NROOTS)
    <3> HIDE DEF c
    <3> QED  BY <1>1, <2>2, QuotientSteps DEF Part
  <2> QED  BY <1>1, <2>2, <2>3 DEF Terms
<1>3. ASSUME NEW k \in 0 .. N
      PROVE  Q[k] = Pow(x, k) /\ Q[k] \in Elements /\ k \in Nat
  BY <1>1, PowLaws
<1>4. ASSUME NEW k \in 0 .. N, NEW m \in 0 .. LAST
      PROVE  /\ q(m)[k] = Mul(Pow(Spot(m), k), At(c, k, Far(m)))
             /\ Pow(Spot(m), k) \in Elements /\ At(c, k, Far(m)) \in Elements
  <2>1. k \in 0 .. NROOTS /\ k \in Nat
    BY <1>1
  <2>2. q(m)[k] = Mul(Pow(Spot(m), k), At(c, k, Div(1, Spot(m))))
    BY <2>1 DEF Part, Quot
  <2>3. Pow(Spot(m), k) \in Elements
    BY <1>2, <2>1, PowLaws
  <2>4. At(c, k, Far(m)) \in Elements
    <3>1. Terms(c, k)
      BY <2>1, LocatorTerms
    <3> HIDE DEF c
    <3> QED  BY <1>2, <2>1, <3>1, AtType
  <2> QED  BY <2>2, <2>3, <2>4 DEF Far
<1> HIDE DEF N, Q, c, q
<1>5. Grid(F, N, LAST)
  <2>1. ASSUME NEW k \in 0 .. N, NEW m \in 0 .. LAST
        PROVE  F[k][m] \in Elements
    <3> DEFINE p == Pow(Spot(m), k)
               a == At(c, k, Far(m))
               w == y[m]
               z == Q[k]
    <3>1. F[k][m] = Mul(w, Mul(q(m)[k], z))
      OBVIOUS
    <3>2. q(m)[k] = Mul(p, a) /\ p \in Elements /\ a \in Elements /\ w \in Elements /\ z \in Elements
      BY <1>2, <1>3, <1>4
    <3> HIDE DEF F, p, a, w, z
    <3>3. Mul(w, Mul(Mul(p, a), z)) \in Elements
      BY <3>2, Regroup
    <3> QED  BY <3>1, <3>2, <3>3
  <2> HIDE DEF F
  <2> QED  BY <2>1 DEF Grid
<1>6. Terms(rows, N) /\ Terms(columns, LAST) /\ XorSum(rows, N) = XorSum(columns, LAST)
  <2> HIDE DEF F
  <2> QED  BY <1>1, <1>5, SumSwap
<1>7. ASSUME NEW k \in 0 .. N
      PROVE  O[k] \in Elements /\ rows[k] = Mul(O[k], Q[k])
  <2> DEFINE w == Weighted(y, c, k)
             h == [m \in 0 .. LAST |-> Mul(w[m], Pow(Spot(m), k))]
             F_k == F[k]
  <2>1. Terms(c, k)
    <3>1. k \in 0 .. NROOTS
      BY <1>1
    <3> QED  BY <3>1, LocatorTerms DEF c
  <2>2. Terms(w, LAST)
    BY <1>1, <1>3, <2>1, WeightedType
  <2>3. \A m \in 0 .. LAST : w[m] = Mul(y[m], At(c, k, Far(m)))
    BY DEF Weighted
  <2> HIDE DEF w
  <2>4. Terms(h, LAST) /\ PowerSum(w, k) \in Elements /\ PowerSum(w, k) = XorSum(h, LAST)
    BY <1>3, <2>2, PowerSumTerms DEF PowerSum
  <2>5. O[k] = PowerSum(w, k)
    BY OmegaSums DEF w, N, c
  <2>6. ASSUME NEW m \in 0 .. LAST
        PROVE  F_k[m] = Mul(Q[k], h[m]) /\ F_k[m] \in Elements
    <3> DEFINE p == Pow(Spot(m), k)
               a == At(c, k, Far(m))
               v == y[m]
               z == Q[k]
    <3>1. F_k[m] = Mul(v, Mul(q(m)[k], z)) /\ h[m] = Mul(w[m], p)
      OBVIOUS
    <3>2. w[m] = Mul(v, a)
      BY <2>3
    <3>3. q(m)[k] = Mul(p, a) /\ p \in Elements /\ a \in Elements /\ v \in Elements /\ z \in Elements
      BY <1>2, <1>3, <1>4
    <3> HIDE DEF F_k, h, p, a, v, z
    <3>4. /\ Mul(v, Mul(Mul(p, a), z)) = Mul(z, Mul(Mul(v, a), p))
          /\ Mul(v, Mul(Mul(p, a), z)) \in Elements
      BY <3>3, Regroup
    <3>5. F_k[m] = Mul(z, h[m]) /\ F_k[m] \in Elements
      BY <3>1, <3>2, <3>3, <3>4
    <3> QED  BY <3>5 DEF z
  <2>7. rows[k] = XorSum(F_k, LAST)
    OBVIOUS
  <2>8. Terms(F_k, LAST)
    BY <2>6 DEF Terms
  <2> HIDE DEF F_k, h, rows, O
  <2>9. XorSum(F_k, LAST) = Mul(Q[k], XorSum(h, LAST))
    <3>1. Q[k] \in Elements /\ \A m \in 0 .. LAST : F_k[m] = Mul(Q[k], h[m])
      BY <1>3, <2>6
    <3> QED  BY <1>1, <2>4, <2>8, <3>1, SumScale
  <2>10. Mul(Q[k], O[k]) = Mul(O[k], Q[k])
    BY <1>3, <2>4, <2>5, FieldLaws
  <2> QED  BY <2>4, <2>5, <2>7, <2>9, <2>10
<1>8. At(O, N, x) = XorSum(rows, N)
  <2> DEFINE z == [k \in 0 .. N |-> Mul(O[k], Q[k])]
  <2>1. At(O, N, x) = XorSum(z, N)
    BY DEF At, Value, Q
  <2>2. z = rows
    <3>1. \A k \in 0 .. N : z[k] = rows[k]
      <4> HIDE DEF rows
      <4> QED  BY <1>7
    <3>2. z = [k \in 0 .. N |-> z[k]] /\ rows = [k \in 0 .. N |-> rows[k]]
      OBVIOUS
    <3> HIDE DEF z, rows
    <3> QED  BY <3>1, <3>2
  <2> HIDE DEF z, rows
  <2> QED  BY <2>1, <2>2
<1>9. ASSUME NEW m \in 0 .. LAST
      PROVE  columns[m] = part[m]
  <2> DEFINE h == [k \in 0 .. N |-> Mul(q(m)[k], Q[k])]
             g == [k \in 0 .. N |-> F[k][m]]
  <2>1. At(q(m), N, x) = XorSum(h, N)
    BY DEF At, Value, Q
  <2>2. \A k \in 0 .. N : g[k] = Mul(y[m], h[k])
    OBVIOUS
  <2>3. Terms(g, N)
    <3> HIDE DEF F
    <3> QED  BY <1>5 DEF Grid, Terms
  <2>4. Terms(h, N)
    <3>1. Terms(q(m), N) /\ Terms(Q, N)
      BY <1>1, <1>2, <1>3 DEF Terms
    <3> QED  BY <1>1, <3>1, ValueTerms
  <2>5. columns[m] = XorSum(g, N) /\ part[m] = Mul(y[m], At(q(m), N, x))
    OBVIOUS
  <2> HIDE DEF g, h, columns, part
  <2>6. XorSum(g, N) = Mul(y[m], XorSum(h, N))
    BY <1>1, <1>2, <2>2, <2>3, <2>4, SumScale
  <2> QED  BY <2>1, <2>5, <2>6
<1>10. columns = part
  <2>1. columns = [m \in 0 .. LAST |-> columns[m]] /\ part = [m \in 0 .. LAST |-> part[m]]
    OBVIOUS
  <2> HIDE DEF columns, part
  <2> QED  BY <1>9, <2>1
<1>11. Terms(O, N)
  BY <1>7 DEF Terms
<1> HIDE DEF rows, columns, part, O
<1>12. Terms(O, N) /\ Terms(part, LAST) /\ At(O, N, x) = XorSum(part, LAST)
  BY <1>6, <1>8, <1>10, <1>11
<1> QED  BY <1>12 DEF part, O, N, q, c

\* At the root of an error, only that error counts.
LEMMA OmegaRoot ==
    ASSUME NEW r \in Decoder, NEW y, Solves(r, y), NEW m \in Support(y)
    PROVE  /\ Terms(Omega(r), NROOTS - 1)
           /\ At(Omega(r), NROOTS - 1, Far(m)) = Mul(y[m], At(Part(r.locator, m), NROOTS - 1, Far(m)))
<1> DEFINE c == r.locator
           N == NROOTS - 1
           L == r.order
           x == Far(m)
           part == [k \in 0 .. LAST |-> Mul(y[k], At(Part(c, k), N, x))]
<1>1. /\ m \in 0 .. LAST /\ m \in Nat /\ LAST \in Nat /\ NROOTS \in Nat \ {0} /\ N \in Nat
      /\ L \in Nat /\ L \in 0 .. NROOTS /\ Terms(c, NROOTS) /\ OrderAt(c, L, NROOTS)
      /\ \A k \in Support(y) : At(c, L, Far(k)) = 0
      /\ Terms(y, LAST)
  <2>1. NROOTS \in Nat \ {0} /\ LAST \in Nat /\ m \in 0 .. LAST
    BY FieldSize DEF Support, LAST
  <2>2. L \in Nat /\ L < NROOTS
    BY DEF Solves, Decoder
  <2>3. Terms(c, NROOTS)
    BY LocatorTerms
  <2>4. OrderAt(c, L, NROOTS) /\ Terms(y, LAST) /\ \A k \in Support(y) : At(c, L, Far(k)) = 0
    BY DEF Solves
  <2> HIDE DEF c, L
  <2> QED  BY <2>1, <2>2, <2>3, <2>4
<1>2. x \in Elements \ {0}
  BY <1>1, FarType
<1>3. Terms(Omega(r), N) /\ Terms(part, LAST) /\ At(Omega(r), N, x) = XorSum(part, LAST)
  <2> HIDE DEF x
  <2> QED  BY <1>2, OmegaAt
<1> HIDE DEF c, N, L
<1>4. ASSUME NEW k \in 0 .. LAST, k # m
      PROVE  part[k] = 0
  <2> DEFINE v == At(Part(c, k), N, x)
             b == Spot(k)
  <2>1. part[k] = Mul(y[k], v) /\ y[k] \in Elements /\ k \in Nat
    BY <1>1 DEF Terms
  <2>2. b \in Elements \ {0} /\ Far(k) \in Elements \ {0}
    BY <2>1, Spots, FarType
  <2>3. v \in Elements
    <3> DEFINE q == Part(c, k)
    <3>1. Terms(q, NROOTS)
      BY <1>1, <2>2, QuotientSteps DEF Part
    <3> HIDE DEF q, x
    <3>2. Terms(q, N)
      BY <1>1, <3>1 DEF Terms, N
    <3> QED  BY <1>1, <1>2, <3>2, AtType DEF q
  <2>4. CASE y[k] = 0
    <3> HIDE DEF v
    <3>1. Mul(0, v) = 0
      BY <2>3, FieldLaws
    <3> QED  BY <2>1, <2>4, <3>1
  <2>5. CASE y[k] # 0
    <3>1. k \in Support(y)
      BY <2>5 DEF Support
    <3>2. At(c, NROOTS, Far(k)) = 0
      <4>1. At(c, NROOTS, Far(k)) = At(c, L, Far(k))
        BY <1>1, <2>2, AtShort
      <4> QED  BY <1>1, <3>1, <4>1
    <3>3. At(c, NROOTS, x) = 0
      <4>1. At(c, NROOTS, x) = At(c, L, x)
        <5> HIDE DEF x
        <5> QED  BY <1>1, <1>2, AtShort
      <4> QED  BY <1>1, <4>1
    <3>4. At(c, NROOTS, x) = Mul(Add(1, Mul(b, x)), v)
      <4>1. At(c, NROOTS, Div(1, b)) = 0
        BY <3>2 DEF Far
      <4> HIDE DEF x, b
      <4> QED  BY <1>1, <1>2, <2>2, <4>1, QuotientValue DEF Part, N, b
    <3>5. Add(1, Mul(b, x)) \in Elements \ {0}
      BY <1>1, <1>4, FarApart
    <3> DEFINE a == Add(1, Mul(b, x))
    <3> HIDE DEF v, a
    <3>6. v = 0
      BY <2>3, <3>3, <3>4, <3>5, DivLaws DEF a
    <3>7. Mul(y[k], 0) = 0
      BY <2>1, FieldLaws
    <3> QED  BY <2>1, <3>6, <3>7
  <2> QED  BY <2>4, <2>5
<1>5. part[m] = Mul(y[m], At(Part(c, m), N, x))
  BY <1>1
<1> HIDE DEF part, x
<1>6. XorSum(part, LAST) = part[m]
  BY <1>1, <1>3, <1>4, SumOne
<1> QED  BY <1>3, <1>5, <1>6 DEF c, N, x

\* Two terms of a polynomial that is b times another and one that is the other itself.
LEMMA PairStep ==
    ASSUME NEW b \in Elements, NEW x \in Elements, Mul(b, x) = 1,
           NEW a \in Elements, NEW u \in Elements, NEW v \in Elements, NEW p \in Elements
    PROVE  Add(Mul(b, a), Mul(Add(v, Mul(b, u)), p)) =
             Mul(b, Add(Add(a, Mul(u, p)), Mul(v, Mul(p, x))))
<1> DEFINE up == Mul(u, p)
           vp == Mul(v, p)
           vpx == Mul(v, Mul(p, x))
           bu == Mul(b, u)
           ba == Mul(b, a)
           bup == Mul(b, up)
<1>1. up \in Elements /\ vp \in Elements /\ bu \in Elements /\ ba \in Elements /\ Mul(p, x) \in Elements
      /\ 1 \in Elements
  BY FieldLaws
<1>2. vpx \in Elements /\ vpx = Mul(vp, x)
  <2>1. Mul(v, Mul(p, x)) \in Elements
    BY <1>1, FieldLaws
  <2>2. Mul(Mul(v, p), x) = Mul(v, Mul(p, x))
    BY FieldLaws
  <2> QED  BY <2>1, <2>2
<1>3. Mul(b, vpx) = vp
  <2> HIDE DEF vp, vpx
  <2>1. Mul(b, Mul(vp, x)) = Mul(Mul(vp, x), b) /\ Mul(Mul(vp, x), b) = Mul(vp, Mul(x, b))
        /\ Mul(x, b) = Mul(b, x) /\ Mul(vp, 1) = vp
    <3>1. Mul(vp, x) \in Elements
      BY <1>1, FieldLaws
    <3> QED  BY <1>1, <3>1, FieldLaws
  <2> QED  BY <1>2, <2>1
<1>4. Mul(Add(v, bu), p) = Add(vp, bup) /\ bup \in Elements
  <2>1. Mul(Add(v, bu), p) = Add(Mul(v, p), Mul(bu, p))
    <3> HIDE DEF bu
    <3> QED  BY <1>1, FieldLaws
  <2>2. Mul(bu, p) = bup
    BY FieldLaws
  <2>3. bup \in Elements
    <3> HIDE DEF up
    <3> QED  BY <1>1, FieldLaws
  <2> HIDE DEF bu, bup
  <2> QED  BY <2>1, <2>2, <2>3
<1> HIDE DEF vp, vpx, bu
<1>5. Mul(b, Add(Add(a, up), vpx)) = Add(Add(ba, bup), vp)
  <2> HIDE DEF up
  <2> DEFINE s == Add(a, up)
             w == Add(s, vpx)
  <2>1. s \in Elements
    BY <1>1, AddGroup
  <2> HIDE DEF s
  <2>2. w \in Elements
    BY <1>2, <2>1, AddGroup
  <2> HIDE DEF w
  <2>3. Mul(b, w) = Mul(w, b) /\ Mul(vpx, b) = Mul(b, vpx) /\ Mul(s, b) = Mul(b, s)
    BY <1>2, <2>1, <2>2, FieldLaws
  <2>4. Mul(w, b) = Add(Mul(s, b), Mul(vpx, b))
    BY <1>2, <2>1, FieldLaws DEF w
  <2>5. Mul(s, b) = Add(Mul(a, b), Mul(up, b)) /\ Mul(a, b) = Mul(b, a) /\ Mul(up, b) = Mul(b, up)
    BY <1>1, FieldLaws DEF s
  <2> QED  BY <1>3, <2>3, <2>4, <2>5 DEF w, s
<1> HIDE DEF ba, bup, up
<1>6. Add(ba, Add(vp, bup)) = Add(Add(ba, bup), vp)
  <2>1. Add(vp, bup) = Add(bup, vp) /\ Add(ba, Add(bup, vp)) = Add(Add(ba, bup), vp)
    BY <1>1, <1>4, AddGroup
  <2> QED  BY <2>1
<1> QED  BY <1>4, <1>5, <1>6 DEF ba, up, vp, vpx, bu, bup

(***************************************************************************)
(* The formal derivative of (1 + b x) q at 1/b is b q: of the terms of     *)
(* odd order, each has one of q of its own order and one of the order      *)
(* below, and together they are all of q.                                  *)
(***************************************************************************)
Factor(c, q, b, n) ==
    Terms(c, n) /\ Terms(q, n) /\ q[0] = c[0] /\ \A k \in 0 .. n - 1 : c[k + 1] = Add(q[k + 1], Mul(b, q[k]))

DerivativeOf(D, c, n) == \A i \in 0 .. n - 1 : D[i] = Times(c[i + 1], i + 1)

\* The value of the derivative at the root of a factor.
LEMMA DerivativeAt ==
    ASSUME NEW b \in Elements \ {0}, NEW n \in Nat, NEW c, NEW q, Factor(c, q, b, n),
           NEW D, DerivativeOf(D, c, n), NEW l \in 0 .. n - 1
    PROVE  /\ Terms(D, l)
           /\ At(D, l, Div(1, b)) = Mul(b, At(q, IF l % 2 = 0 THEN l + 1 ELSE l, Div(1, b)))
<1> DEFINE x == Div(1, b)
           up(i) == IF i % 2 = 0 THEN i + 1 ELSE i
           S == {i \in 0 .. n - 1 : At(D, i, x) = Mul(b, At(q, up(i), x))}
<1>1. x \in Elements \ {0} /\ Mul(b, x) = 1 /\ 0 \in Elements /\ 1 \in Elements
  BY FieldSize, DivLaws DEF Elements
<1> HIDE DEF x
<1>2. Terms(c, n) /\ Terms(q, n) /\ q[0] = c[0]
      /\ \A k \in 0 .. n - 1 : c[k + 1] = Add(q[k + 1], Mul(b, q[k]))
  BY DEF Factor
<1>3. ASSUME NEW i \in 0 .. n - 1
      PROVE  /\ i \in Nat /\ D[i] \in Elements /\ c[i + 1] \in Elements
             /\ q[i] \in Elements /\ q[i + 1] \in Elements /\ c[i + 1] = Add(q[i + 1], Mul(b, q[i]))
             /\ i % 2 = 0 => D[i] = c[i + 1]
             /\ i % 2 # 0 => D[i] = 0
  <2>1. i \in Nat /\ i \in 0 .. n /\ i + 1 \in 0 .. n
    OBVIOUS
  <2>2. c[i + 1] \in Elements /\ q[i] \in Elements /\ q[i + 1] \in Elements
        /\ c[i + 1] = Add(q[i + 1], Mul(b, q[i]))
    BY <1>2, <2>1 DEF Terms
  <2>3. (i % 2 = 0 => (i + 1) % 2 = 1) /\ (i % 2 # 0 => (i + 1) % 2 # 1)
    BY <2>1
  <2>4. D[i] = IF (i + 1) % 2 = 1 THEN c[i + 1] ELSE 0
    BY DEF Times, DerivativeOf
  <2> QED  BY <1>1, <2>1, <2>2, <2>3, <2>4
<1>4. \A i \in 0 .. n - 1 : Terms(D, i)
  BY <1>3 DEF Terms
<1>5. \A i \in 0 .. n : Terms(q, i) /\ At(q, i, x) \in Elements
  <2> TAKE i \in 0 .. n
  <2>1. i \in Nat /\ Terms(q, i)
    BY <1>2 DEF Terms
  <2> QED  BY <1>1, <2>1, AtType
<1>6. ASSUME NEW i \in 0 .. n - 1
      PROVE  At(q, i + 1, x) = Add(At(q, i, x), Mul(q[i + 1], Pow(x, i + 1)))
  <2>1. i \in Nat /\ i + 1 \in 0 .. n
    OBVIOUS
  <2>2. Terms(q, i + 1)
    BY <1>5, <2>1
  <2> QED  BY <1>1, <2>1, <2>2, AtStep
<1>7. n >= 1 => 0 \in S
  <2> SUFFICES ASSUME n >= 1 PROVE At(D, 0, x) = Mul(b, At(q, 1, x))
    <3>1. up(0) = 1
      OBVIOUS
    <3> HIDE DEF up
    <3> QED  BY <3>1
  <2>1. 0 \in 0 .. n - 1 /\ 0 % 2 = 0 /\ 0 + 1 = 1
    OBVIOUS
  <2> DEFINE u == q[0]
             v == q[1]
  <2>2. D[0] = Add(v, Mul(b, u)) /\ u \in Elements /\ v \in Elements /\ D[0] \in Elements
    BY <1>3, <2>1
  <2>3. At(D, 0, x) = D[0]
    BY <1>1, <2>2, AtConstant
  <2>4. At(q, 0, x) = u
    BY <1>1, <2>2, AtConstant
  <2>5. At(q, 1, x) = Add(u, Mul(v, x))
    <3>1. At(q, 1, x) = Add(At(q, 0, x), Mul(q[1], Pow(x, 1)))
      BY <1>6, <2>1
    <3>2. Pow(x, 1) = x
      BY <1>1, <2>1, PowLaws
    <3> QED  BY <2>4, <3>1, <3>2
  <2> HIDE DEF u, v
  <2>6. Add(Mul(b, 0), Mul(Add(v, Mul(b, u)), 1)) =
           Mul(b, Add(Add(0, Mul(u, 1)), Mul(v, Mul(1, x))))
    BY <1>1, <2>2, PairStep
  <2>7. Mul(1, x) = x /\ Mul(u, 1) = u /\ Mul(b, 0) = 0
    <3>1. Mul(1, x) = Mul(x, 1)
      BY <1>1, FieldLaws
    <3>2. Mul(x, 1) = x /\ Mul(u, 1) = u /\ Mul(b, 0) = 0
      BY <1>1, <2>2, FieldLaws
    <3> QED  BY <3>1, <3>2
  <2>8. Add(0, u) = u
    BY <1>1, <2>2, AddFour
  <2> DEFINE w == Add(v, Mul(b, u))
  <2>9. w \in Elements
    BY <2>2
  <2> HIDE DEF w
  <2>10. Mul(w, 1) = w /\ Add(0, w) = w
    <3>1. Mul(w, 1) = w
      BY <1>1, <2>9, FieldLaws
    <3>2. Add(0, w) = w
      BY <1>1, <2>9, AddFour
    <3> QED  BY <3>1, <3>2
  <2> QED  BY <2>2, <2>3, <2>5, <2>6, <2>7, <2>8, <2>10 DEF w
<1>8. ASSUME NEW i \in 0 .. (n - 1) - 1, i \in S
      PROVE  i + 1 \in S
  <2>1. i \in Nat /\ i \in 0 .. n - 1 /\ i + 1 \in 0 .. n - 1 /\ i + 1 \in Nat /\ (i + 1) + 1 \in 0 .. n
    OBVIOUS
  <2> DEFINE p == Pow(x, i + 1)
             j == i + 1
  <2>2. At(D, j, x) = Add(At(D, i, x), Mul(D[j], p))
    <3>1. Terms(D, i + 1)
      BY <1>4, <2>1
    <3> QED  BY <1>1, <2>1, <3>1, AtStep
  <2>3. p \in Elements
    BY <1>1, <2>1, PowLaws
  <2>4. CASE i % 2 = 0
    <3>1. j % 2 # 0 /\ up(i) = j /\ up(j) = j
      BY <2>1, <2>4
    <3>2. D[j] = 0
      BY <1>3, <2>1, <3>1
    <3>3. Mul(0, p) = 0
      BY <2>3, FieldLaws
    <3>4. At(D, i, x) = Mul(b, At(q, j, x))
      BY <1>8, <3>1
    <3>5. Mul(b, At(q, j, x)) \in Elements
      <4> DEFINE a == At(q, j, x)
      <4>1. a \in Elements
        BY <1>5, <2>1
      <4> HIDE DEF a
      <4> QED  BY <4>1, FieldLaws DEF a
    <3> DEFINE w == Mul(b, At(q, j, x))
    <3> HIDE DEF w, j, up, p
    <3>6. Add(w, 0) = w
      BY <3>5, AddGroup DEF w
    <3>7. At(D, j, x) = Mul(b, At(q, up(j), x))
      BY <2>2, <3>1, <3>2, <3>3, <3>4, <3>6 DEF w
    <3> QED  BY <2>1, <3>7 DEF j
  <2>5. CASE i % 2 # 0
    <3>1. j % 2 = 0 /\ up(i) = i /\ up(j) = j + 1
      BY <2>1, <2>5
    <3> DEFINE u == q[j]
               v == q[j + 1]
               a == At(q, i, x)
    <3>2. D[j] = Add(v, Mul(b, u)) /\ u \in Elements /\ v \in Elements
      BY <1>3, <2>1, <3>1
    <3>3. a \in Elements /\ i \in 0 .. n
      BY <1>5, <2>1
    <3>4. At(D, i, x) = Mul(b, a)
      BY <1>8, <3>1
    <3>5. At(q, j, x) = Add(a, Mul(u, p))
      BY <1>6, <2>1
    <3>6. At(q, j + 1, x) = Add(At(q, j, x), Mul(v, Pow(x, j + 1)))
      BY <1>6, <2>1
    <3>7. Pow(x, j + 1) = Mul(p, x)
      BY <1>1, <2>1, PowLaws
    <3> HIDE DEF j, up, p, u, v, a
    <3>8. Add(Mul(b, a), Mul(Add(v, Mul(b, u)), p)) = Mul(b, Add(Add(a, Mul(u, p)), Mul(v, Mul(p, x))))
      BY <1>1, <2>3, <3>2, <3>3, PairStep
    <3>9. At(D, j, x) = Mul(b, At(q, up(j), x))
      BY <2>2, <3>1, <3>2, <3>4, <3>5, <3>6, <3>7, <3>8
    <3> QED  BY <2>1, <3>9 DEF j
  <2> QED  BY <2>4, <2>5
<1> HIDE DEF S
<1>9. n - 1 \in Nat /\ n >= 1
  OBVIOUS
<1>10. \A i \in 0 .. n - 1 : i \in S
  BY <1>7, <1>8, <1>9, UpTo
<1>11. l \in S
  BY <1>10
<1> QED  BY <1>4, <1>11 DEF S, x

\* What is left of the locator when the factor of one error is taken away: of one order less,
\* and not 0 at the root of that error.
LEMMA OwnFactor ==
    ASSUME NEW r \in Decoder, NEW y, Solves(r, y), NEW m \in Support(y)
    PROVE  LET c == r.locator
               q == Part(c, m)
               v == At(q, NROOTS - 1, Far(m))
           IN  /\ r.order \in 1 .. NROOTS - 1 /\ Terms(c, r.order)
               /\ Factor(c, q, Spot(m), r.order)
               /\ v \in Elements \ {0}
               /\ At(q, r.order, Far(m)) = v /\ At(q, r.order - 1, Far(m)) = v
<1> DEFINE c == r.locator
           N == NROOTS - 1
           L == r.order
           b == Spot(m)
           x == Far(m)
           q == Part(c, m)
<1>1. /\ m \in 0 .. LAST /\ m \in Nat /\ NROOTS \in Nat \ {0} /\ N \in Nat
      /\ L \in Nat /\ L < NROOTS /\ L = Cardinality(Support(y)) /\ c[0] = 1
      /\ Terms(c, NROOTS) /\ OrderAt(c, L, NROOTS)
      /\ \A k \in Support(y) : At(c, L, Far(k)) = 0
  <2>1. NROOTS \in Nat \ {0} /\ m \in 0 .. LAST /\ m \in Nat
    BY FieldSize DEF Support, LAST
  <2>2. L \in Nat /\ L < NROOTS /\ L = Cardinality(Support(y)) /\ c[0] = 1
    BY DEF Solves, Decoder
  <2>3. Terms(c, NROOTS)
    BY LocatorTerms
  <2>4. OrderAt(c, L, NROOTS) /\ \A k \in Support(y) : At(c, L, Far(k)) = 0
    BY DEF Solves
  <2> HIDE DEF c, L
  <2> QED  BY <2>1, <2>2, <2>3, <2>4
<1>2. IsFiniteSet(Support(y)) /\ IsFiniteSet(Errata(y)) /\ Cardinality(Errata(y)) = L
  BY <1>1, SupportFinite, ErrataCount
<1>3. L >= 1
  <2> SUFFICES ASSUME L = 0 PROVE FALSE
    BY <1>1
  <2>1. Support(y) = {}
    BY <1>1, <1>2, FS_EmptySet
  <2> QED  BY <2>1
<1>4. b \in Elements \ {0} /\ x \in Elements \ {0} /\ Div(1, b) = x
  BY <1>1, Spots, FarType DEF Far
<1>5. L \in 0 .. NROOTS /\ L - 1 \in Nat /\ L - 1 \in 0 .. L /\ L - 1 \in 0 .. N /\ L \in 0 .. N /\ L \in 1 .. N
  BY <1>1, <1>3
<1>6. Terms(c, L)
  BY <1>5, LocatorTerms
<1>7. q = Quot(c, NROOTS, b)
  BY DEF Part
<1> HIDE DEF c, N, L, b, x, q
<1>8. At(c, L, x) = 0
  BY <1>1 DEF x
<1>9. /\ Terms(q, NROOTS) /\ q[0] = c[0]
      /\ \A k \in 0 .. NROOTS : At(c, k, x) = 0 => q[k] = 0
      /\ \A k \in 0 .. NROOTS - 1 : c[k + 1] = Add(q[k + 1], Mul(b, q[k]))
  BY <1>1, <1>4, <1>7, QuotientSteps
<1>10. ASSUME NEW k \in L .. NROOTS
       PROVE  q[k] = 0
  <2>1. k \in Nat /\ k \in 0 .. NROOTS /\ L \in 0 .. k
    BY <1>1
  <2>2. Terms(c, k)
    BY <1>1, <2>1 DEF Terms
  <2>3. OrderAt(c, L, k)
    BY <1>1, <2>1 DEF OrderAt
  <2>4. At(c, k, x) = At(c, L, x)
    BY <1>4, <2>1, <2>2, <2>3, AtShort
  <2> QED  BY <1>8, <1>9, <2>1, <2>4
<1>11. Factor(c, q, b, L)
  <2>1. \A k \in 0 .. L : k \in 0 .. NROOTS
    BY <1>1
  <2>2. Terms(q, L)
    BY <1>9, <2>1 DEF Terms
  <2>3. \A k \in 0 .. L - 1 : c[k + 1] = Add(q[k + 1], Mul(b, q[k]))
    <3> TAKE k \in 0 .. L - 1
    <3>1. k \in 0 .. NROOTS - 1
      BY <1>1
    <3> QED  BY <1>9, <3>1
  <2> QED  BY <1>6, <1>9, <2>2, <2>3 DEF Factor
<1>12. ASSUME NEW z \in Elements \ {0}
       PROVE  At(q, N, z) = At(q, L - 1, z) /\ At(q, L, z) = At(q, L - 1, z) /\ At(q, L - 1, z) \in Elements
              /\ Terms(q, L - 1) /\ At(c, L, z) = Mul(Add(1, Mul(b, z)), At(q, L - 1, z))
  <2>1. Terms(q, N) /\ Terms(q, L) /\ Terms(q, L - 1)
    <3>1. (\A k \in 0 .. N : k \in 0 .. NROOTS) /\ (\A k \in 0 .. L : k \in 0 .. NROOTS)
          /\ (\A k \in 0 .. L - 1 : k \in 0 .. NROOTS)
      BY <1>1 DEF N
    <3> QED  BY <1>9, <3>1 DEF Terms
  <2>2. OrderAt(q, L - 1, N) /\ OrderAt(q, L - 1, L)
    <3>1. (\A k \in (L - 1) + 1 .. N : k \in L .. NROOTS) /\ (\A k \in (L - 1) + 1 .. L : k \in L .. NROOTS)
      BY <1>1 DEF N
    <3> QED  BY <1>10, <3>1 DEF OrderAt
  <2>3. At(q, N, z) = At(q, L - 1, z)
    BY <1>1, <1>5, <2>1, <2>2, AtShort
  <2>4. At(q, L, z) = At(q, L - 1, z)
    BY <1>1, <1>5, <2>1, <2>2, AtShort
  <2>5. At(q, L - 1, z) \in Elements
    BY <1>5, <2>1, AtType
  <2>6. At(c, NROOTS, z) = Mul(Add(1, Mul(b, z)), At(q, N, z))
    <3>1. At(c, NROOTS, Div(1, b)) = 0
      <4>1. At(c, NROOTS, x) = At(c, L, x)
        BY <1>1, <1>4, <1>5, AtShort
      <4> QED  BY <1>4, <1>8, <4>1
    <3> QED  BY <1>1, <1>4, <1>7, <3>1, QuotientValue DEF N
  <2>7. At(c, NROOTS, z) = At(c, L, z)
    BY <1>1, <1>5, AtShort
  <2> QED  BY <2>1, <2>3, <2>4, <2>5, <2>6, <2>7
<1>13. At(q, L - 1, x) # 0
  <2> SUFFICES ASSUME At(q, L - 1, x) = 0 PROVE FALSE
    OBVIOUS
  <2>1. Errata(y) \subseteq RootsOf(q, L - 1)
    <3> SUFFICES ASSUME NEW k \in Support(y) PROVE Far(k) \in RootsOf(q, L - 1)
      BY DEF Errata
    <3>1. k \in 0 .. LAST /\ k \in Nat /\ Far(k) \in Elements \ {0}
      <4>1. k \in 0 .. LAST /\ k \in Nat
        BY FieldSize DEF Support, LAST
      <4> QED  BY <4>1, FarType
    <3>2. CASE k = m
      BY <3>1, <3>2 DEF RootsOf, x
    <3>3. CASE k # m
      <4> DEFINE z == Far(k)
                 a == Add(1, Mul(b, z))
                 v == At(q, L - 1, z)
      <4>1. a \in Elements \ {0}
        BY <1>1, <3>1, <3>3, FarApart DEF b
      <4>2. At(c, L, z) = 0
        BY <1>1
      <4>3. z \in Elements \ {0}
        BY <3>1
      <4> HIDE DEF z
      <4>4. v \in Elements /\ Mul(a, v) = 0
        BY <1>12, <4>2, <4>3
      <4> HIDE DEF a, v
      <4>5. v = 0
        BY <4>1, <4>4, DivLaws
      <4> QED  BY <4>3, <4>5 DEF RootsOf, v, z
    <3> QED  BY <3>2, <3>3
  <2>2. Cardinality(RootsOf(q, L - 1)) <= L - 1
    <3>1. Terms(q, L - 1) /\ q[0] # 0
      BY <1>1, <1>4, <1>9, <1>12
    <3> QED  BY <1>5, <3>1, RootCount DEF Bounded
  <2>3. Cardinality(Errata(y)) <= Cardinality(RootsOf(q, L - 1)) /\ Cardinality(RootsOf(q, L - 1)) \in Nat
    BY <2>1, RootsFinite, FS_Subset
  <2> QED  BY <1>1, <1>2, <2>2, <2>3
<1>14. At(q, N, x) \in Elements \ {0} /\ At(q, L, x) = At(q, N, x) /\ At(q, L - 1, x) = At(q, N, x)
  BY <1>4, <1>12, <1>13
<1> QED  BY <1>5, <1>6, <1>11, <1>14 DEF c, N, L, b, x, q

\* Forney's formula finds the error.
LEMMA Forney ==
    ASSUME NEW r \in Decoder, NEW e, Terms(e, LAST), Solves(r, Weights(e)), NEW m \in Support(Weights(e))
    PROVE  LET x == Far(m)
               D == Derivative(r.locator, r.order)
           IN  /\ Terms(D, r.order - 1) /\ Terms(Omega(r), NROOTS - 1)
               /\ Mul(Pow(x, FIRST_ROOT - 1),
                      Div(At(Omega(r), NROOTS - 1, x), At(D, r.order - 1, x))) = e[m]
<1> DEFINE x == Far(m)
           b == Spot(m)
           c == r.locator
           L == r.order
           N == NROOTS - 1
           D == Derivative(c, L)
           q == Part(c, m)
           v == At(q, N, x)
           y == Weights(e)
           F == FIRST_ROOT - 1
<1>1. /\ L \in 1 .. N /\ Terms(c, L) /\ Factor(c, q, b, L) /\ v \in Elements \ {0}
      /\ At(q, L, x) = v /\ At(q, L - 1, x) = v
  BY OwnFactor
<1>2. Terms(Omega(r), N) /\ At(Omega(r), N, x) = Mul(y[m], v)
  <2> HIDE DEF y
  <2> QED  BY OmegaRoot DEF y
<1>3. /\ m \in 0 .. LAST /\ m \in Nat /\ b \in Elements \ {0} /\ x \in Elements \ {0}
      /\ Div(1, b) = x /\ Mul(b, x) = 1 /\ F \in Nat /\ FIRST_ROOT = F + 1 /\ e[m] \in Elements
  <2>1. m \in 0 .. LAST /\ m \in Nat
    BY FieldSize DEF Support, LAST
  <2>2. FIRST_ROOT \in Nat /\ FIRST_ROOT >= 1
    BY RSAssumption, FieldSize
  <2> QED  BY <2>1, <2>2, Spots, FarType DEF Far, Terms
<1>4. DerivativeOf(D, c, L)
  <2>1. \A i \in 0 .. L - 1 : D[i] = Times(c[i + 1], i + 1)
    BY DEF Derivative
  <2> HIDE DEF D
  <2> QED  BY <2>1 DEF DerivativeOf
<1>5. L \in Nat /\ L - 1 \in 0 .. L - 1 /\ (L - 1) + 1 = L
  BY <1>1
<1> HIDE DEF x, b, c, L, N, D, q, v, y, F
<1>6. Terms(D, L - 1) /\ At(D, L - 1, x) = Mul(b, v)
  <2>1. /\ Terms(D, L - 1)
        /\ At(D, L - 1, Div(1, b)) =
             Mul(b, At(q, IF (L - 1) % 2 = 0 THEN (L - 1) + 1 ELSE L - 1, Div(1, b)))
    BY <1>1, <1>3, <1>4, <1>5, DerivativeAt
  <2>2. At(q, IF (L - 1) % 2 = 0 THEN (L - 1) + 1 ELSE L - 1, x) = v
    BY <1>1, <1>5
  <2> QED  BY <1>3, <2>1, <2>2
<1> DEFINE w == Pow(b, F)
           a == e[m]
<1>7. y[m] = Mul(a, Mul(w, b)) /\ w \in Elements
  <2>1. y[m] = Mul(a, Pow(b, F + 1))
    BY <1>3 DEF y, Weights, b
  <2>2. Pow(b, F + 1) = Mul(Pow(b, F), b) /\ Pow(b, F) \in Elements
    BY <1>3, PowLaws
  <2> QED  BY <2>1, <2>2
<1>8. Mul(w, Pow(x, F)) = 1 /\ Pow(x, F) \in Elements
  <2>1. F - F = 0 /\ F \in 0 .. F
    BY <1>3
  <2>2. Pow(b, F - F) = Mul(Pow(b, F), Pow(Div(1, b), F))
    BY <1>3, <2>1, PowInverse
  <2>3. Pow(b, 0) = 1 /\ Pow(x, F) \in Elements
    BY <1>3, PowLaws
  <2> QED  BY <1>3, <2>1, <2>2, <2>3
<1>9. a \in Elements
  BY <1>3
<1> HIDE DEF w, a
<1> DEFINE bv == Mul(b, v)
           aw == Mul(a, w)
           u == Pow(x, F)
<1>10. bv \in Elements \ {0} /\ aw \in Elements /\ 0 \in Elements /\ 1 \in Elements
  <2>1. 0 \in Elements /\ 1 \in Elements
    BY FieldSize DEF Elements
  <2>2. bv \in Elements /\ aw \in Elements
    BY <1>1, <1>3, <1>7, <1>9, FieldLaws
  <2>3. bv # 0
    BY <1>1, <1>3, DivLaws
  <2> QED  BY <2>1, <2>2, <2>3
<1>11. Mul(y[m], v) = Mul(aw, bv)
  <2>1. Mul(w, b) \in Elements /\ Mul(a, Mul(w, b)) = Mul(Mul(a, w), b)
    BY <1>3, <1>7, <1>9, FieldLaws
  <2>2. Mul(Mul(aw, b), v) = Mul(aw, Mul(b, v))
    <3> HIDE DEF aw
    <3> QED  BY <1>1, <1>3, <1>10, FieldLaws
  <2> QED  BY <1>7, <2>1, <2>2
<1> HIDE DEF bv, aw
<1>12. Div(Mul(aw, bv), bv) = aw
  <2> DEFINE z == Mul(aw, bv)
  <2>1. z \in Elements
    BY <1>10, FieldLaws
  <2>2. Mul(z, Div(1, bv)) = aw
    BY <1>10, DivLaws
  <2> HIDE DEF z
  <2>3. Div(z, bv) = Mul(z, Div(1, bv))
    BY <1>10, <2>1, DivLaws
  <2> QED  BY <2>2, <2>3 DEF z
<1>13. Mul(u, aw) = a
  <2>1. u \in Elements
    BY <1>8
  <2> HIDE DEF u
  <2>2. Mul(u, aw) = Mul(aw, u) /\ Mul(a, 1) = a
    BY <1>9, <1>10, <2>1, FieldLaws
  <2>3. Mul(Mul(a, w), u) = Mul(a, Mul(w, u))
    BY <1>7, <1>9, <2>1, FieldLaws
  <2> QED  BY <1>8, <2>2, <2>3 DEF aw, u
<1>14. Mul(Pow(x, F), Div(At(Omega(r), N, x), At(D, L - 1, x))) = a
  BY <1>2, <1>6, <1>11, <1>12, <1>13 DEF bv, u
<1> QED  BY <1>2, <1>6, <1>14 DEF x, c, L, N, D, F, a

----------------------------------------------------------------------------
(* The roots, the values and the repair of the decoder. *)

\* The decoder has the roots of the errors y, each of them once.
Rooted(r, y) ==
    /\ \A i \in 0 .. r.order - 1 : r.roots[i] \in Errata(y)
    /\ \A i, j \in 0 .. r.order - 1 : r.roots[i] = r.roots[j] => i = j
    /\ \A x \in Errata(y) : \E i \in 0 .. r.order - 1 : r.roots[i] = x

\* The roots that the decoder notes are those of the errors.
LEMMA FactorizeRooted ==
    ASSUME NEW r \in Decoder, NEW y, Solves(r, y)
    PROVE  LET q == Factorize(r, Errata(y))
           IN  q \in Decoder /\ Solves(q, y) /\ Rooted(q, y) /\ q.received = r.received
<1> DEFINE X == Errata(y)
           q == Factorize(r, X)
           n == r.order
           f == [i \in 0 .. n - 1 |-> Nth(X, i)]
<1>1. X \in SUBSET Elements /\ IsFiniteSet(X) /\ Cardinality(X) = n /\ n \in Nat /\ n < NROOTS
      /\ NROOTS \in Nat
  <2>1. n = Cardinality(Support(y)) /\ n < NROOTS /\ n \in Nat
    BY DEF Solves, Decoder
  <2> QED  BY <2>1, ErrataCount, FieldSize
<1>2. /\ q \in Decoder /\ q.order = n /\ q.received = r.received
      /\ q.locator = r.locator /\ q.syndromes = r.syndromes
      /\ \A i \in 0 .. 2 * NROOTS - 1 : i < Cardinality(X) => q.roots[i] = Nth(X, i)
  <2> HIDE DEF X
  <2> QED  BY <1>1, FactorizeType
<1>3. Solves(q, y)
  BY <1>2 DEF Solves
<1> HIDE DEF X, q, n
<1>4. ASSUME NEW i \in 0 .. n - 1
      PROVE  q.roots[i] = Nth(X, i) /\ Nth(X, i) \in X /\ Cardinality({z \in X : z < Nth(X, i)}) = i
  <2>1. i \in Nat /\ i < Cardinality(X) /\ i \in 0 .. 2 * NROOTS - 1
    BY <1>1
  <2> QED  BY <1>1, <1>2, <2>1, NthType
<1>5. \A i, j \in 0 .. n - 1 : Nth(X, i) = Nth(X, j) => i = j
  <2> TAKE i, j \in 0 .. n - 1
  <2> HAVE Nth(X, i) = Nth(X, j)
  <2>1. Cardinality({z \in X : z < Nth(X, i)}) = i /\ Cardinality({z \in X : z < Nth(X, j)}) = j
    BY <1>4
  <2> QED  BY <2>1
<1>6. f \in Surjection(0 .. n - 1, X)
  <2>1. f \in [0 .. n - 1 -> X]
    BY <1>4
  <2>2. f \in Injection(0 .. n - 1, X)
    <3>1. \A i, j \in 0 .. n - 1 : f[i] = f[j] => i = j
      BY <1>5
    <3> HIDE DEF f
    <3> QED  BY <2>1, <3>1 DEF Injection, IsInjective
  <2>3. Cardinality(0 .. n - 1) = n
    <3>1. 0 \in Int /\ n - 1 \in Int
      BY <1>1
    <3>2. Cardinality(0 .. n - 1) = IF 0 > n - 1 THEN 0 ELSE (n - 1) - 0 + 1
      BY <3>1, FS_Interval
    <3> QED  BY <1>1, <3>2
  <2> HIDE DEF f
  <2> QED  BY <1>1, <2>2, <2>3, FS_Injection
<1>7. \A x \in X : \E i \in 0 .. n - 1 : f[i] = x
  <2> HIDE DEF f
  <2> QED  BY <1>6 DEF Surjection
<1>8. \A x \in X : \E i \in 0 .. n - 1 : q.roots[i] = x
  <2> TAKE x \in X
  <2>1. PICK i \in 0 .. n - 1 : f[i] = x
    BY <1>7
  <2>2. f[i] = Nth(X, i)
    OBVIOUS
  <2> QED  BY <1>4, <2>1, <2>2
<1>9. Rooted(q, y)
  <2>1. \A i \in 0 .. n - 1 : q.roots[i] \in X
    BY <1>4
  <2>2. \A i, j \in 0 .. n - 1 : q.roots[i] = q.roots[j] => i = j
    <3> TAKE i, j \in 0 .. n - 1
    <3>1. q.roots[i] = Nth(X, i)
      BY <1>4
    <3>2. q.roots[j] = Nth(X, j)
      BY <1>4
    <3> QED  BY <1>5, <3>1, <3>2
  <2>3. q.order = n
    BY <1>2
  <2> QED  BY <1>8, <2>1, <2>2, <2>3 DEF Rooted, X
<1> QED  BY <1>2, <1>3, <1>9 DEF X, q

\* The root of an error tells where it is.
LEMMA LocationOfFar ==
    ASSUME NEW m \in 0 .. LAST
    PROVE  LocationOf(Far(m)) = m
<1> DEFINE S == Powers(Far(m))
           least == CHOOSE j \in S : \A k \in S : j <= k
<1>1. m \in Nat /\ LAST \in Nat /\ LAST + 1 = FIELD - 1 /\ FIELD \in Nat /\ 0 \in 0 .. LAST
  BY FieldSize DEF LAST
<1>2. Div(1, Far(m)) = Spot(m)
  BY <1>1, FarApart
<1>3. S = {j \in Elements : Spot(Log[j]) = Spot(m)}
  BY <1>2, Spots DEF Powers
<1>4. LocationOf(Far(m)) = Log[least]
  BY DEF LocationOf
<1>5. /\ 0 \in Elements /\ Log[0] = 0
      /\ \A j \in Elements \ {0} : Log[j] \in 1 .. FIELD - 1
  BY LogType, FieldSize DEF Elements
<1>6. \A j \in Elements : j \in Nat
  BY <1>1 DEF Elements
<1> HIDE DEF S
<1>7. CASE m = 0
  <2>1. 0 \in S
    BY <1>3, <1>5, <1>7
  <2>2. \A k \in S : k \in Nat
    BY <1>3, <1>6
  <2>3. least \in S /\ \A k \in S : least <= k
    BY <2>1, <2>2
  <2> HIDE DEF least
  <2>4. least = 0
    BY <2>1, <2>2, <2>3
  <2> QED  BY <1>4, <1>5, <1>7, <2>4
<1>8. CASE m # 0
  <2>1. m \in 1 .. FIELD - 1
    BY <1>1, <1>8
  <2>2. ASSUME NEW j \in S
        PROVE  Log[j] = m
    <3>1. j \in Elements /\ Spot(Log[j]) = Spot(m)
      BY <1>3
    <3>2. j # 0
      <4> SUFFICES ASSUME j = 0 PROVE FALSE
        OBVIOUS
      <4>1. Spot(0) = Spot(m)
        BY <1>5, <3>1
      <4> QED  BY <1>1, <1>8, <4>1, Spots
    <3>3. Log[j] \in 1 .. FIELD - 1
      BY <1>5, <3>1, <3>2
    <3> QED  BY <2>1, <3>1, <3>3, Spots
  <2>3. \E j \in S : TRUE
    <3>1. Spot(m) \in 1 .. FIELD - 1
      BY <1>1, Spots, FieldSize DEF Elements
    <3>2. PICK j \in 1 .. FIELD - 1 : Pow(j, GAP) = Spot(m)
      BY <3>1, GapAssumption
    <3>3. j \in Elements /\ Pow(j, GAP) = Spot(Log[j])
      BY <1>1, <3>2, Spots DEF Elements
    <3> QED  BY <1>3, <3>2, <3>3
  <2>4. S \in SUBSET Nat /\ S # {}
    BY <1>3, <1>6, <2>3
  <2>5. \E j \in S : \A k \in S : j <= k
    BY <2>4, LeastNat
  <2>6. least \in S
    BY <2>5
  <2> HIDE DEF least
  <2> QED  BY <1>4, <2>2, <2>6
<1> QED  BY <1>7, <1>8

\* What the decoder reads of a polynomial is what it is worth.
LEMMA ElementTable ==
    ASSUME NEW x \in Elements \ {0}, NEW k \in 0 .. NROOTS - 1, NEW c, Terms(c, k)
    PROVE  EvalTable(c, k, ElementPowers[x]) = At(c, k, x)
<1>1. NROOTS - 1 \in Nat
  BY FieldSize
<1>2. ElementPowers[x] = PowerTable(x, NROOTS - 1)
  BY DEF ElementPowers
<1>3. EvalTable(c, k, PowerTable(x, NROOTS - 1)) = At(c, k, x)
  BY <1>1, Evaluated
<1> QED  BY <1>2, <1>3

\* The decoder knows where the errors e are, each of them once, and what they are.
Mended(r, e) ==
    /\ \A i \in 0 .. r.order - 1 : r.locations[i] \in 0 .. LAST /\ r.vals[i] = e[r.locations[i]]
    /\ \A i, j \in 0 .. r.order - 1 : r.locations[i] = r.locations[j] => i = j
    /\ \A m \in 0 .. LAST : e[m] # 0 => \E i \in 0 .. r.order - 1 : r.locations[i] = m

\* The values that the decoder computes are the errors, at their places.
LEMMA ValuesMended ==
    ASSUME NEW r \in Decoder, NEW e, Terms(e, LAST), r.order \in 1 .. NROOTS,
           Solves(r, Weights(e)), Rooted(r, Weights(e))
    PROVE  LET q == Values(Locations(r))
           IN  Mended(q, e) /\ q.received = r.received
<1> DEFINE y == Weights(e)
           p == Locations(r)
           q == Values(p)
           n == r.order
           D == Derivative(p.locator, p.order)
<1>1. /\ p \in Decoder /\ p.order = n /\ p.received = r.received
      /\ p.locator = r.locator /\ p.syndromes = r.syndromes /\ p.roots = r.roots
      /\ \A i \in 0 .. NROOTS - 1 : i < n /\ r.roots[i] # 0 => p.locations[i] = LocationOf(r.roots[i])
  BY LocationsType
<1>2. Solves(p, y)
  BY <1>1 DEF Solves
<1>3. n \in Nat /\ n <= NROOTS /\ NROOTS \in Nat /\ n \in 1 .. NROOTS /\ n - 1 \in 0 .. NROOTS - 1
      /\ NROOTS - 1 \in 0 .. NROOTS - 1 /\ NROOTS - 1 \in Nat
  BY FieldSize
<1> HIDE DEF p
<1>4. /\ q.order = n /\ q.received = r.received /\ q.locations = p.locations
      /\ \A i \in 0 .. NROOTS - 1 : i < n /\ p.roots[i] # 0 =>
            q.vals[i] = Mul(Pow(p.roots[i], FIRST_ROOT - 1),
                            Div(EvalTable(Omega(p), NROOTS - 1, ElementPowers[p.roots[i]]),
                                EvalTable(D, n - 1, ElementPowers[p.roots[i]])))
  BY <1>1, <1>3, ValuesType DEF Omega
<1> HIDE DEF q
<1>5. ASSUME NEW i \in 0 .. n - 1, NEW m \in Support(y), r.roots[i] = Far(m)
      PROVE  q.locations[i] = m /\ q.vals[i] = e[m]
  <2> DEFINE x == Far(m)
  <2>1. m \in 0 .. LAST /\ LAST \in Nat /\ m \in Nat
    BY FieldSize DEF Support, LAST
  <2>2. x \in Elements \ {0} /\ x \in Elements
    BY <2>1, FarType
  <2>3. i \in 0 .. NROOTS - 1 /\ i < n /\ p.roots[i] = x /\ x # 0
    BY <1>1, <1>3, <1>5, <2>2
  <2>4. q.locations[i] = m
    <3>1. LocationOf(x) = m
      BY <2>1, LocationOfFar
    <3>2. q.locations[i] = LocationOf(x)
      BY <1>1, <1>4, <1>5, <2>3
    <3> QED  BY <3>1, <3>2
  <2>5. /\ Terms(D, n - 1) /\ Terms(Omega(p), NROOTS - 1)
        /\ Mul(Pow(x, FIRST_ROOT - 1),
               Div(At(Omega(p), NROOTS - 1, x), At(D, n - 1, x))) = e[m]
    BY <1>1, <1>2, Forney
  <2> HIDE DEF x, D, y
  <2>7. EvalTable(Omega(p), NROOTS - 1, ElementPowers[x]) = At(Omega(p), NROOTS - 1, x)
    BY <1>3, <2>2, <2>5, ElementTable
  <2>8. EvalTable(D, n - 1, ElementPowers[x]) = At(D, n - 1, x)
    BY <1>3, <2>2, <2>5, ElementTable
  <2> QED  BY <1>4, <2>3, <2>4, <2>5, <2>7, <2>8
<1>6. ASSUME NEW i \in 0 .. n - 1
      PROVE  \E m \in Support(y) : r.roots[i] = Far(m)
  BY DEF Rooted, Errata
<1>7. ASSUME NEW i \in 0 .. n - 1
      PROVE  q.locations[i] \in 0 .. LAST /\ q.vals[i] = e[q.locations[i]]
             /\ r.roots[i] = Far(q.locations[i])
  <2>1. PICK m \in Support(y) : r.roots[i] = Far(m)
    BY <1>6
  <2>2. q.locations[i] = m /\ q.vals[i] = e[m]
    BY <1>5, <2>1
  <2>3. m \in 0 .. LAST
    BY DEF Support
  <2> QED  BY <2>1, <2>2, <2>3
<1>8. ASSUME NEW i \in 0 .. n - 1, NEW j \in 0 .. n - 1, q.locations[i] = q.locations[j]
      PROVE  i = j
  <2>1. r.roots[i] = Far(q.locations[i])
    BY <1>7
  <2>2. r.roots[j] = Far(q.locations[j])
    BY <1>7
  <2>3. r.roots[i] = r.roots[j]
    BY <1>8, <2>1, <2>2
  <2> QED  BY <2>3 DEF Rooted
<1>9. ASSUME NEW m \in 0 .. LAST, e[m] # 0
      PROVE  \E i \in 0 .. n - 1 : q.locations[i] = m
  <2>1. m \in Support(y)
    <3>1. y[m] # 0
      BY <1>9, WeightsType
    <3> HIDE DEF y
    <3> QED  BY <3>1 DEF Support
  <2>2. Far(m) \in Errata(y)
    BY <2>1 DEF Errata
  <2>3. PICK i \in 0 .. n - 1 : r.roots[i] = Far(m)
    BY <2>2 DEF Rooted
  <2>4. q.locations[i] = m
    BY <1>5, <2>1, <2>3
  <2> QED  BY <2>4
<1>10. Mended(q, e)
  <2>1. \A i \in 0 .. n - 1 : q.locations[i] \in 0 .. LAST /\ q.vals[i] = e[q.locations[i]]
    BY <1>7
  <2>2. \A i, j \in 0 .. n - 1 : q.locations[i] = q.locations[j] => i = j
    BY <1>8
  <2>3. \A m \in 0 .. LAST : e[m] # 0 => \E i \in 0 .. n - 1 : q.locations[i] = m
    BY <1>9
  <2>4. q.order = n
    BY <1>4
  <2> HIDE DEF n
  <2> QED  BY <2>1, <2>2, <2>3, <2>4 DEF Mended
<1> QED  BY <1>4, <1>10 DEF p, q

\* Then the repair takes them away.
LEMMA RepairMends ==
    ASSUME NEW r \in Decoder, r.order \in 1 .. NROOTS, NEW e, Mended(r, e),
           Terms(e, LAST), NEW c, Terms(c, LAST),
           \A k \in 0 .. LAST : r.received[k] = Add(c[k], e[k])
    PROVE  \A k \in 0 .. LAST : Repair(r).received[k] = c[k]
<1> DEFINE n == r.order
           at == r.locations
           done(i) == {at[j] : j \in 0 .. i - 1}
<1>1. PICK g : /\ g[0] = r.received /\ Repair(r).received = g[n]
               /\ \A k \in 1 .. n : /\ g[k - 1] \in Row(BLOCK - 1)
                                    /\ g[k] = [g[k - 1] EXCEPT ![at[k - 1]] = Add(@, r.vals[k - 1])]
  BY RepairType
<1>2. n \in Nat /\ n >= 1
  BY FieldSize
<1>3. /\ \A i \in 0 .. n - 1 : at[i] \in 0 .. LAST /\ r.vals[i] = e[at[i]]
      /\ \A i, j \in 0 .. n - 1 : at[i] = at[j] => i = j
      /\ \A m \in 0 .. LAST : e[m] # 0 => \E i \in 0 .. n - 1 : at[i] = m
  BY DEF Mended
<1> DEFINE Here(i) == \A k \in 0 .. LAST : g[i][k] = IF k \in done(i) THEN c[k] ELSE Add(c[k], e[k])
           S == {i \in 0 .. n : Here(i)}
<1> HIDE DEF n, at
<1>4. 0 \in S
  <2>1. done(0) = {}
    OBVIOUS
  <2> HIDE DEF done
  <2>2. Here(0)
    BY <1>1, <2>1
  <2> QED  BY <1>2, <2>2
<1>5. ASSUME NEW i \in 0 .. n - 1, i \in S
      PROVE  i + 1 \in S
  <2> DEFINE l == at[i]
  <2>1. i + 1 \in 1 .. n /\ (i + 1) - 1 = i /\ i + 1 \in 0 .. n
    BY <1>2
  <2>2. g[i] \in Row(BLOCK - 1) /\ g[i + 1] = [g[i] EXCEPT ![l] = Add(@, r.vals[i])]
    BY <1>1, <2>1
  <2>3. l \in 0 .. LAST /\ r.vals[i] = e[l]
    BY <1>3
  <2>4. l \notin done(i)
    <3> SUFFICES ASSUME NEW j \in 0 .. i - 1, at[j] = at[i] PROVE FALSE
      OBVIOUS
    <3>1. j \in 0 .. n - 1 /\ j # i
      BY <1>2
    <3> QED  BY <1>3, <3>1
  <2>5. done(i + 1) = done(i) \cup {l}
    <3>1. 0 .. (i + 1) - 1 = (0 .. i - 1) \cup {i}
      BY <1>2
    <3> QED  BY <3>1
  <2>6. \A k \in 0 .. LAST : g[i][k] = IF k \in done(i) THEN c[k] ELSE Add(c[k], e[k])
    BY <1>5
  <2> HIDE DEF done
  <2>7. ASSUME NEW k \in 0 .. LAST
        PROVE  g[i + 1][k] = IF k \in done(i + 1) THEN c[k] ELSE Add(c[k], e[k])
    <3>0. g[i] \in [0 .. LAST -> Elements]
      BY <2>2 DEF Row, LAST
    <3>1. CASE k = l
      <4>1. g[i + 1][k] = Add(g[i][k], e[k])
        BY <2>2, <2>3, <3>0, <3>1
      <4>2. g[i][k] = Add(c[k], e[k])
        BY <2>4, <2>6, <3>1
      <4>3. c[k] \in Elements /\ e[k] \in Elements
        BY DEF Terms
      <4>4. Add(Add(c[k], e[k]), e[k]) = c[k]
        BY <4>3, AddGroup
      <4> QED  BY <2>5, <3>1, <4>1, <4>2, <4>4
    <3>2. CASE k # l
      <4>1. g[i + 1][k] = g[i][k]
        BY <2>2, <2>3, <3>0, <3>2
      <4> QED  BY <2>5, <2>6, <3>2, <4>1
    <3> QED  BY <3>1, <3>2
  <2>8. Here(i + 1)
    BY <2>7
  <2> QED  BY <2>1, <2>8
<1>6. Here(n)
  <2> HIDE DEF S
  <2>1. \A i \in 0 .. n - 1 : i \in S => i + 1 \in S
    BY <1>5
  <2>2. n \in S
    BY <1>2, <1>4, <2>1, UpTo
  <2> QED  BY <2>2 DEF S
<1>7. ASSUME NEW k \in 0 .. LAST
      PROVE  g[n][k] = c[k]
  <2>1. CASE k \in done(n)
    BY <1>6, <2>1
  <2>2. CASE k \notin done(n)
    <3>1. e[k] = 0
      BY <1>3, <2>2
    <3>2. c[k] \in Elements
      BY DEF Terms
    <3>3. Add(c[k], 0) = c[k]
      BY <3>2, AddGroup
    <3> QED  BY <1>6, <2>2, <3>1, <3>3
  <2> QED  BY <2>1, <2>2
<1> QED  BY <1>1, <1>7

----------------------------------------------------------------------------
(* Errors that explain given syndromes. *)

\* There are finitely many functions between finite sets: each is made of a set of pairs.
LEMMA FiniteFunctions ==
    ASSUME NEW S, NEW T, IsFiniteSet(S), IsFiniteSet(T)
    PROVE  IsFiniteSet([S -> T])
<1> DEFINE U == SUBSET (S \X T)
           Graph(f) == {<<i, f[i]>> : i \in S}
           R == {Graph(f) : f \in [S -> T]}
           g == [f \in [S -> T] |-> Graph(f)]
<1>1. IsFiniteSet(U)
  BY FS_Product, FS_SUBSET
<1>2. R \subseteq U
  OBVIOUS
<1>3. IsFiniteSet(R)
  BY <1>1, <1>2, FS_Subset
<1>4. g \in [[S -> T] -> R]
  OBVIOUS
<1>5. ASSUME NEW f \in [S -> T], NEW h \in [S -> T], Graph(f) = Graph(h)
      PROVE  f = h
  <2>1. ASSUME NEW i \in S
        PROVE  f[i] = h[i]
    <3>1. <<i, f[i]>> \in Graph(h)
      BY <1>5
    <3>2. PICK j \in S : <<i, f[i]>> = <<j, h[j]>>
      BY <3>1
    <3> QED  BY <3>2
  <2> QED  BY <2>1
<1>6. g \in Injection([S -> T], R)
  <2> DEFINE F == [S -> T]
  <2>1. \A f, h \in F : g[f] = g[h] => f = h
    <3>1. \A f \in F : g[f] = Graph(f)
      OBVIOUS
    <3> HIDE DEF g, Graph
    <3> QED  BY <1>5, <3>1
  <2>2. g \in [F -> R]
    BY <1>4
  <2> HIDE DEF g, F, R
  <2>3. g \in Injection(F, R)
    BY <2>1, <2>2 DEF Injection, IsInjective
  <2> QED  BY <2>3 DEF F
<1> HIDE DEF g, R
<1> QED  BY <1>3, <1>6, FS_Injection

\* An injection of a finite set into itself leaves nothing out.
LEMMA OntoItself ==
    ASSUME NEW S, IsFiniteSet(S), NEW f \in [S -> S], \A x, y \in S : f[x] = f[y] => x = y
    PROVE  \A z \in S : \E x \in S : f[x] = z
<1>1. f \in Injection(S, S)
  BY DEF Injection, IsInjective
<1>2. f \in Surjection(S, S)
  BY <1>1, FS_Injection
<1> QED  BY <1>2 DEF Surjection

\* Errors at the places of P.
Placing(P, w, h) == [m \in 0 .. LAST |-> IF m \in P THEN w[CHOOSE i \in DOMAIN w : h[i] = m] ELSE 0]

\* Weights put at the places of a set are a row of weights at these places.
LEMMA PlacingType ==
    ASSUME NEW n \in Nat, NEW P \in SUBSET (0 .. LAST), NEW h \in Bijection(1 .. n, P),
           NEW w \in [1 .. n -> Elements]
    PROVE  /\ Placing(P, w, h) \in Row(LAST) /\ Terms(Placing(P, w, h), LAST)
           /\ Support(Placing(P, w, h)) \subseteq P
           /\ \A i \in 1 .. n : Placing(P, w, h)[h[i]] = w[i]
<1> DEFINE y == Placing(P, w, h)
           at(m) == CHOOSE i \in 1 .. n : h[i] = m
<1>1. /\ \A i \in 1 .. n : h[i] \in P
      /\ \A m \in P : \E i \in 1 .. n : h[i] = m
      /\ \A i, j \in 1 .. n : h[i] = h[j] => i = j
  BY DEF Bijection, Injection, Surjection, IsInjective
<1>2. \A m \in P : at(m) \in 1 .. n /\ h[at(m)] = m
  BY <1>1
<1>3. \A i \in 1 .. n : at(h[i]) = i
  <2> TAKE i \in 1 .. n
  <2>1. at(h[i]) \in 1 .. n /\ h[at(h[i])] = h[i]
    BY <1>1, <1>2
  <2> HIDE DEF at
  <2> QED  BY <1>1, <2>1
<1>4. y = [m \in 0 .. LAST |-> IF m \in P THEN w[at(m)] ELSE 0]
  BY DEF Placing
<1> HIDE DEF at, y
<1>5. 0 \in Elements
  BY FieldSize DEF Elements
<1>6. y \in [0 .. LAST -> Elements]
  BY <1>2, <1>4, <1>5
<1>7. \A i \in 1 .. n : y[h[i]] = w[i]
  BY <1>1, <1>3, <1>4
<1>8. Support(y) \subseteq P
  BY <1>4 DEF Support
<1>9. Terms(y, LAST)
  BY <1>6 DEF Terms
<1> QED  BY <1>6, <1>7, <1>8, <1>9 DEF y, Row

\* Power sums add up.
LEMMA PowerSumAdd ==
    ASSUME NEW y, Terms(y, LAST), NEW u, Terms(u, LAST), NEW z,
           \A m \in 0 .. LAST : z[m] = Add(y[m], u[m]), NEW i \in Nat
    PROVE  Terms(z, LAST) /\ PowerSum(z, i) = Add(PowerSum(y, i), PowerSum(u, i))
<1> DEFINE R == [m \in 0 .. LAST |-> Pow(Spot(m), i)]
<1>1. LAST \in Nat /\ \A m \in 0 .. LAST : m \in Nat
  BY FieldSize DEF LAST
<1>2. Terms(R, LAST)
  <2>1. ASSUME NEW m \in 0 .. LAST
        PROVE  Pow(Spot(m), i) \in Elements
    <3>1. Spot(m) \in Elements \ {0}
      BY <1>1, Spots
    <3> QED  BY <3>1, PowLaws
  <2> QED  BY <2>1 DEF Terms
<1>3. \A w : PowerSum(w, i) = Value(w, LAST, R)
  <2> TAKE w
  <2>1. [m \in 0 .. LAST |-> Mul(w[m], Pow(Spot(m), i))] = [m \in 0 .. LAST |-> Mul(w[m], R[m])]
    OBVIOUS
  <2> HIDE DEF R
  <2> QED  BY <2>1 DEF PowerSum, Value
<1> HIDE DEF R
<1>4. Terms(z, LAST) /\ Value(z, LAST, R) = Add(Value(y, LAST, R), Value(u, LAST, R))
  BY <1>1, <1>2, ValueAdd
<1> QED  BY <1>3, <1>4

\* As many syndromes as there are places are explained by errors at these places, whatever
\* the syndromes are: the map from the errors to the syndromes is an injection of a finite
\* set into one of its size.
LEMMA Solvable ==
    ASSUME NEW n \in Nat, NEW P \in SUBSET (0 .. LAST), Cardinality(P) = n,
           NEW S, \A l \in 0 .. n - 1 : S[l] \in Elements
    PROVE  \E y \in Row(LAST) : /\ Terms(y, LAST) /\ Support(y) \subseteq P
                                /\ \A l \in 0 .. n - 1 : PowerSum(y, l) = S[l]
<1> DEFINE W == [1 .. n -> Elements]
           C == 0 .. LAST
<1>1. LAST \in Nat /\ IsFiniteSet(P)
  <2>1. LAST \in Nat
    BY FieldSize DEF LAST
  <2>2. IsFiniteSet(0 .. LAST)
    BY <2>1, FS_Interval
  <2> QED  BY <2>1, <2>2, FS_Subset
<1>2. PICK h : h \in Bijection(1 .. n, P)
  <2>1. ExistsBijection(1 .. n, P)
    BY <1>1, FS_CardinalityType
  <2> QED  BY <2>1 DEF ExistsBijection
<1> DEFINE y(w) == Placing(P, w, h)
           F(w) == [i \in 1 .. n |-> PowerSum(y(w), i - 1)]
           f == [w \in W |-> F(w)]
<1>3. ASSUME NEW w \in W
      PROVE  /\ y(w) \in Row(LAST) /\ Terms(y(w), LAST) /\ Support(y(w)) \subseteq P
             /\ \A i \in 1 .. n : y(w)[h[i]] = w[i]
  BY <1>2, PlacingType
<1> HIDE DEF y
<1>4. f \in [W -> W]
  <2>1. ASSUME NEW w \in W, NEW i \in 1 .. n
        PROVE  PowerSum(y(w), i - 1) \in Elements
    <3>1. Terms(y(w), LAST) /\ i - 1 \in Nat
      BY <1>3
    <3> QED  BY <3>1, PowerSumTerms
  <2>2. \A w \in W : F(w) \in W
    BY <2>1
  <2> HIDE DEF F, W
  <2> QED  BY <2>2
<1>5. ASSUME NEW w \in W, NEW v \in W, F(w) = F(v)
      PROVE  w = v
  <2> DEFINE a == y(w)
             b == y(v)
             z == [m \in 0 .. LAST |-> Add(a[m], b[m])]
  <2>1. Terms(a, LAST) /\ Support(a) \subseteq P /\ \A i \in 1 .. n : a[h[i]] = w[i]
    BY <1>3
  <2>2. Terms(b, LAST) /\ Support(b) \subseteq P /\ \A i \in 1 .. n : b[h[i]] = v[i]
    BY <1>3
  <2>3. ASSUME NEW l \in 0 .. n - 1
        PROVE  PowerSum(a, l) = PowerSum(b, l)
    <3>1. l + 1 \in 1 .. n /\ (l + 1) - 1 = l
      OBVIOUS
    <3>2. F(w)[l + 1] = PowerSum(a, l) /\ F(v)[l + 1] = PowerSum(b, l)
      BY <3>1
    <3> QED  BY <1>5, <3>2
  <2> HIDE DEF a, b, F
  <2>4. \A m \in 0 .. LAST : z[m] = Add(a[m], b[m])
    OBVIOUS
  <2> HIDE DEF z
  <2>5. Terms(z, LAST) /\ \A l \in Nat : PowerSum(z, l) = Add(PowerSum(a, l), PowerSum(b, l))
    <3>1. 0 \in Nat
      OBVIOUS
    <3> QED  BY <2>1, <2>2, <2>4, <3>1, PowerSumAdd
  <2>6. Vanish(z, 0, n)
    <3>1. ASSUME NEW l \in 0 .. n - 1
          PROVE  PowerSum(z, 0 + l) = 0
      <4>1. l \in Nat /\ 0 + l = l
        OBVIOUS
      <4>2. PowerSum(a, l) \in Elements /\ PowerSum(a, l) = PowerSum(b, l)
        BY <2>1, <2>3, <4>1, PowerSumTerms
      <4>3. PowerSum(z, l) = Add(PowerSum(a, l), PowerSum(a, l))
        BY <2>5, <4>1, <4>2
      <4> DEFINE s == PowerSum(a, l)
      <4> HIDE DEF s
      <4>4. Add(s, s) = 0
        BY <4>2, AddFour DEF s
      <4> QED  BY <4>1, <4>3, <4>4 DEF s
    <3> QED  BY <3>1 DEF Vanish
  <2>7. Cardinality(Support(z)) <= n
    <3>1. Support(z) \subseteq P
      <4>1. ASSUME NEW m \in 0 .. LAST, m \notin P
            PROVE  z[m] = 0
        <5>1. a[m] = 0 /\ b[m] = 0
          BY <2>1, <2>2, <4>1 DEF Support
        <5>2. 0 \in Elements
          BY FieldSize DEF Elements
        <5> QED  BY <2>4, <5>1, <5>2, AddFour
      <4> QED  BY <4>1 DEF Support
    <3> QED  BY <1>1, <3>1, FS_Subset
  <2>8. \A m \in 0 .. LAST : z[m] = 0
    <3>1. 0 \in Nat
      OBVIOUS
    <3> QED  BY <2>5, <2>6, <2>7, <3>1, Vandermonde
  <2>9. ASSUME NEW i \in 1 .. n
        PROVE  w[i] = v[i]
    <3>1. h[i] \in 0 .. LAST
      BY <1>2 DEF Bijection, Injection
    <3>2. a[h[i]] \in Elements /\ b[h[i]] \in Elements /\ Add(a[h[i]], b[h[i]]) = 0
      BY <2>1, <2>2, <2>4, <2>8, <3>1 DEF Terms
    <3>3. a[h[i]] = b[h[i]]
      BY <3>2, SameSum
    <3> QED  BY <2>1, <2>2, <3>3
  <2> QED  BY <2>9
<1>6. IsFiniteSet(W)
  <2>1. IsFiniteSet(1 .. n)
    BY FS_Interval
  <2>2. IsFiniteSet(Elements)
    BY FieldSize, FS_Interval DEF Elements
  <2> QED  BY <2>1, <2>2, FiniteFunctions
<1> DEFINE t == [i \in 1 .. n |-> S[i - 1]]
<1>7. t \in W
  <2>1. \A i \in 1 .. n : i - 1 \in 0 .. n - 1
    OBVIOUS
  <2> QED  BY <2>1
<1>8. \A x \in W : f[x] = F(x)
  OBVIOUS
<1>9. PICK w \in W : F(w) = t
  <2> HIDE DEF W, F, f, t
  <2>1. \A u, v \in W : f[u] = f[v] => u = v
    BY <1>5, <1>8
  <2>2. \A u \in W : \E w \in W : f[w] = u
    BY <1>4, <1>6, <2>1, OntoItself
  <2> QED  BY <1>7, <1>8, <2>2
<1>10. \A l \in 0 .. n - 1 : PowerSum(y(w), l) = S[l]
  <2> TAKE l \in 0 .. n - 1
  <2>1. l + 1 \in 1 .. n /\ (l + 1) - 1 = l
    OBVIOUS
  <2>2. F(w)[l + 1] = PowerSum(y(w), l) /\ t[l + 1] = S[l]
    BY <2>1
  <2> QED  BY <1>9, <2>2
<1> QED  BY <1>3, <1>10

\* Two sums that are the same, of terms that are the same but for the first.
LEMMA SumFirst ==
    ASSUME NEW n \in Nat, NEW f, Terms(f, n), NEW g, Terms(g, n),
           \A i \in 1 .. n : f[i] = g[i], XorSum(f, n) = XorSum(g, n)
    PROVE  f[0] = g[0]
<1> DEFINE h == [i \in 0 .. n |-> Add(f[i], g[i])]
<1>1. \A i \in 0 .. n : f[i] \in Elements /\ g[i] \in Elements
  BY DEF Terms
<1>2. \A i \in 0 .. n : Add(f[i], g[i]) \in Elements /\ (i # 0 => Add(f[i], g[i]) = 0)
  <2> TAKE i \in 0 .. n
  <2>1. Add(f[i], g[i]) \in Elements
    BY <1>1, AddBits
  <2>2. i # 0 => f[i] = g[i]
    OBVIOUS
  <2>3. Add(f[i], f[i]) = 0
    BY <1>1, AddFour
  <2> QED  BY <2>1, <2>2, <2>3
<1>3. Terms(h, n) /\ (\A i \in 0 .. n : h[i] = Add(f[i], g[i])) /\ \A i \in 0 .. n : i # 0 => h[i] = 0
  BY <1>2 DEF Terms
<1> HIDE DEF h
<1>4. XorSum(h, n) = Add(XorSum(f, n), XorSum(g, n))
  BY <1>3, SumAdd
<1>5. XorSum(f, n) \in Elements
  <2>1. n \in 0 .. n
    OBVIOUS
  <2> QED  BY <2>1, SumSteps
<1> DEFINE s == XorSum(f, n)
<1>6. XorSum(h, n) = 0
  <2>1. s \in Elements /\ XorSum(h, n) = Add(s, s)
    BY <1>4, <1>5
  <2> HIDE DEF s
  <2> QED  BY <2>1, AddFour
<1>7. XorSum(h, n) = h[0]
  <2>1. 0 \in 0 .. n
    OBVIOUS
  <2> QED  BY <1>3, <2>1, SumOne
<1>8. 0 \in 0 .. n
  OBVIOUS
<1> QED  BY <1>1, <1>3, <1>6, <1>7, <1>8, SameSum

\* Errors whose polynomial is 0 at every place have no power sums.
LEMMA SumsVanish ==
    ASSUME NEW y, Terms(y, LAST), NEW n \in Nat, NEW c, Terms(c, n),
           \A m \in Support(y) : At(c, n, Far(m)) = 0, NEW k \in Nat
    PROVE  PowerSum(Weighted(y, c, n), k) = 0
<1> DEFINE z == Weighted(y, c, n)
           f == [m \in 0 .. LAST |-> Mul(z[m], Pow(Spot(m), k))]
<1>1. LAST \in Nat /\ 0 \in 0 .. LAST /\ \A m \in 0 .. LAST : m \in Nat
  BY FieldSize DEF LAST
<1>2. Terms(z, LAST) /\ \A m \in 0 .. LAST : z[m] = 0
  <2>1. /\ Terms(z, LAST)
        /\ \A m \in 0 .. LAST : z[m] = 0 <=> y[m] = 0 \/ At(c, n, Far(m)) = 0
    BY WeightedType
  <2>2. \A m \in 0 .. LAST : y[m] = 0 \/ At(c, n, Far(m)) = 0
    BY DEF Support
  <2> QED  BY <2>1, <2>2
<1> HIDE DEF z
<1>3. \A m \in 0 .. LAST : f[m] = 0
  <2> TAKE m \in 0 .. LAST
  <2>1. f[m] = Mul(0, Pow(Spot(m), k))
    BY <1>2
  <2> QED  BY <2>1 DEF Mul
<1>4. Terms(f, LAST) /\ PowerSum(z, k) = XorSum(f, LAST)
  <2>1. Terms(f, LAST)
    BY <1>2, PowerSumTerms
  <2> QED  BY <2>1 DEF PowerSum
<1> HIDE DEF f
<1>5. XorSum(f, LAST) = f[0]
  BY <1>1, <1>3, <1>4, SumOne
<1> QED  BY <1>1, <1>3, <1>4, <1>5 DEF z

\* The recurrence that a locator stands for: each syndrome follows from those before it.
Recurs(c, n, S) == \A k \in n .. NROOTS - 1 : XorSum([j \in 0 .. n |-> Mul(c[j], S[k - j])], n) = 0

\* A locator that explains the syndromes makes a recurrence of them.
LEMMA ExplainsRecurs ==
    ASSUME NEW r \in Decoder, NEW y, Explains(r, y, NROOTS)
    PROVE  Recurs(r.locator, r.order, r.syndromes)
<1> DEFINE c == r.locator
           n == r.order
           S == r.syndromes
<1>1. /\ Terms(y, LAST) /\ SumsOf(S, y) /\ n \in Nat /\ n <= NROOTS /\ NROOTS \in Nat
      /\ Annuls(y, c, n, NROOTS - 1, 0)
  BY FieldSize DEF Explains, Decoder
<1>2. Terms(c, n)
  <2>1. n \in 0 .. NROOTS
    BY <1>1
  <2> QED  BY <2>1, LocatorTerms
<1> HIDE DEF c, n, S
<1>3. ASSUME NEW k \in n .. NROOTS - 1
      PROVE  XorSum([j \in 0 .. n |-> Mul(c[j], S[k - j])], n) = 0
  <2>1. k \in 0 .. NROOTS - 1 /\ n <= k
    BY <1>1
  <2>2. XorSum([j \in 0 .. n |-> Mul(c[j], S[k - j])], n) = PowerSum(Weighted(y, c, n), k)
    BY <1>1, <1>2, <2>1, Convolution
  <2>3. PowerSum(Weighted(y, c, n), k) = 0
    BY <1>1 DEF Annuls
  <2> QED  BY <2>2, <2>3
<1> QED  BY <1>3 DEF Recurs, c, n, S

\* Errors at the roots of the locator that explain the first syndromes explain them all.
LEMMA Continued ==
    ASSUME NEW y, Terms(y, LAST), NEW n \in Nat, NEW c, Terms(c, n), c[0] = 1,
           \A m \in Support(y) : At(c, n, Far(m)) = 0,
           NEW S, Terms(S, NROOTS - 1), Recurs(c, n, S),
           \A l \in 0 .. n - 1 : l < NROOTS => PowerSum(y, l) = S[l]
    PROVE  SumsOf(S, y)
<1> DEFINE T == [l \in 0 .. NROOTS - 1 |-> PowerSum(y, l)]
           D == {k \in 0 .. NROOTS : \A l \in 0 .. k - 1 : S[l] = T[l]}
<1>1. NROOTS \in Nat
  BY FieldSize
<1>2. SumsOf(T, y) /\ \A l \in 0 .. NROOTS - 1 : T[l] = PowerSum(y, l) /\ T[l] \in Elements
  <2>1. \A l \in 0 .. NROOTS - 1 : PowerSum(y, l) \in Elements
    <3> TAKE l \in 0 .. NROOTS - 1
    <3>1. l \in Nat
      OBVIOUS
    <3> QED  BY <3>1, PowerSumTerms
  <2> QED  BY <2>1 DEF SumsOf
<1> HIDE DEF T
<1>3. 0 \in D
  BY <1>1
<1>4. ASSUME NEW k \in 0 .. NROOTS - 1, k \in D
      PROVE  k + 1 \in D
  <2>1. \A l \in 0 .. k - 1 : S[l] = T[l]
    BY <1>4
  <2>2. S[k] = T[k]
    <3>1. CASE k < n
      <4>1. k \in 0 .. n - 1 /\ k < NROOTS
        BY <1>1, <3>1
      <4>2. PowerSum(y, k) = S[k]
        BY <4>1
      <4> QED  BY <1>2, <4>2
    <3>2. CASE ~(k < n)
      <4> DEFINE f == [j \in 0 .. n |-> Mul(c[j], S[k - j])]
                 g == [j \in 0 .. n |-> Mul(c[j], T[k - j])]
      <4>1. n <= k /\ k \in n .. NROOTS - 1 /\ k \in Nat
        BY <3>2
      <4>2. ASSUME NEW j \in 0 .. n
            PROVE  k - j \in 0 .. NROOTS - 1 /\ (j # 0 => k - j \in 0 .. k - 1)
                   /\ c[j] \in Elements /\ S[k - j] \in Elements
        <5>1. k - j \in 0 .. NROOTS - 1 /\ (j # 0 => k - j \in 0 .. k - 1)
          BY <1>1, <4>1
        <5> QED  BY <5>1 DEF Terms
      <4>3. Terms(f, n)
        <5>1. \A j \in 0 .. n : Mul(c[j], S[k - j]) \in Elements
          BY <4>2, FieldOps
        <5> QED  BY <5>1 DEF Terms
      <4>4. Terms(g, n) /\ XorSum(g, n) = PowerSum(Weighted(y, c, n), k)
        BY <1>2, <4>1, Convolution
      <4>5. XorSum(g, n) = 0
        BY <4>1, <4>4, SumsVanish
      <4>6. XorSum(f, n) = 0
        BY <4>1 DEF Recurs
      <4>7. \A j \in 1 .. n : f[j] = g[j]
        <5> TAKE j \in 1 .. n
        <5>1. S[k - j] = T[k - j]
          BY <2>1, <4>2
        <5> QED  BY <5>1
      <4>8. f[0] = Mul(c[0], S[k]) /\ g[0] = Mul(c[0], T[k])
        <5>1. 0 \in 0 .. n /\ k - 0 = k
          BY <4>1
        <5> QED  BY <5>1
      <4> HIDE DEF f, g
      <4>9. f[0] = g[0]
        BY <4>3, <4>4, <4>5, <4>6, <4>7, SumFirst
      <4>10. S[k] \in Elements /\ T[k] \in Elements
        BY <1>2 DEF Terms
      <4>11. Mul(1, S[k]) = S[k] /\ Mul(1, T[k]) = T[k]
        <5>1. \A x \in Elements : Mul(1, x) = x
          <6> TAKE x \in Elements
          <6>1. 1 \in Elements
            BY FieldSize DEF Elements
          <6>2. Mul(1, x) = Mul(x, 1) /\ Mul(x, 1) = x
            BY <6>1, FieldLaws
          <6> QED  BY <6>2
        <5> QED  BY <4>10, <5>1
      <4> QED  BY <4>8, <4>9, <4>11
    <3> QED  BY <3>1, <3>2
  <2>3. \A l \in 0 .. k : S[l] = T[l]
    <3> TAKE l \in 0 .. k
    <3>1. l = k \/ l \in 0 .. k - 1
      OBVIOUS
    <3> QED  BY <2>1, <2>2, <3>1
  <2>4. k + 1 \in 0 .. NROOTS /\ (k + 1) - 1 = k
    BY <1>1
  <2> QED  BY <2>3, <2>4
<1>5. NROOTS \in D
  <2> HIDE DEF D
  <2>1. \A k \in 0 .. NROOTS - 1 : k \in D => k + 1 \in D
    BY <1>4
  <2>2. \A k \in 0 .. NROOTS : k \in D
    BY <1>1, <1>3, <2>1, UpTo
  <2> QED  BY <1>1, <2>2
<1> QED  BY <1>2, <1>5 DEF SumsOf

(***************************************************************************)
(* A locator with as many roots as its order stands for errors that        *)
(* explain the syndromes, whatever the channel did: its roots are places,  *)
(* errors there explain the first syndromes, and the recurrence makes them *)
(* explain the others.  Since no fewer errors do, each of the places has   *)
(* one.                                                                    *)
(***************************************************************************)
LEMMA Credible ==
    ASSUME NEW r \in Decoder, Fits(r, NROOTS), NEW u \in Row(LAST), SumsOf(r.syndromes, u),
           r.order < NROOTS, NEW found \in Found(r), Cardinality(found) = r.order
    PROVE  \E y \in Row(LAST) : Solves(r, y) /\ Errata(y) = found
<1> DEFINE L == r.order
           c == r.locator
           P == {m \in 0 .. LAST : Far(m) \in found}
<1>0. LAST \in Nat
  BY FieldSize DEF LAST
<1>1. Explains(r, u, NROOTS)
  BY DEF Fits
<1>2. /\ L \in Nat /\ L < NROOTS /\ NROOTS \in Nat /\ c[0] = 1 /\ OrderAt(c, L, NROOTS)
      /\ Recurs(c, L, r.syndromes)
  <2>1. Recurs(c, L, r.syndromes)
    BY <1>1, ExplainsRecurs
  <2> QED  BY <1>1, <2>1, FieldSize DEF Explains, OrderAt, Decoder
<1>3. found = RootsOf(c, L)
  BY <1>2, FoundRoots
<1>4. Terms(c, L) /\ Terms(r.syndromes, NROOTS - 1)
  <2>1. L \in 0 .. NROOTS
    BY <1>2
  <2>2. Terms(r.syndromes, NROOTS - 1)
    BY DEF Decoder, Row, Terms
  <2> QED  BY <2>1, <2>2, LocatorTerms
<1>5. P \in SUBSET (0 .. LAST) /\ Cardinality(P) = L /\ \A m \in P : At(c, L, Far(m)) = 0
  <2>1. \A m \in P : Far(m) \in found /\ At(c, L, Far(m)) = 0
    BY <1>3 DEF RootsOf
  <2> DEFINE f == [m \in P |-> Far(m)]
  <2>2. IsFiniteSet(P)
    <3>1. IsFiniteSet(0 .. LAST)
      BY <1>0, FS_Interval
    <3> QED  BY <3>1, FS_Subset
  <2>3. f \in [P -> found]
    OBVIOUS
  <2>4. f \in Injection(P, found)
    <3>1. \A m, k \in P : f[m] = f[k] => m = k
      BY FarApart
    <3> HIDE DEF f, P
    <3> QED  BY <2>3, <3>1 DEF Injection, IsInjective
  <2>5. f \in Surjection(P, found)
    <3>1. ASSUME NEW x \in found
          PROVE  \E m \in P : f[m] = x
      <4>1. x \in Elements \ {0}
        BY <1>3 DEF RootsOf
      <4>2. PICK m \in 0 .. LAST : Far(m) = x
        BY <4>1, FarOnto
      <4> QED  BY <4>2
    <3> HIDE DEF f, P
    <3> QED  BY <2>3, <3>1 DEF Surjection
  <2>6. Cardinality(P) = Cardinality(found)
    <3> HIDE DEF f, P
    <3> QED  BY <2>2, <2>4, <2>5, FS_Surjection
  <2> QED  BY <2>1, <2>6
<1>6. PICK y \in Row(LAST) : /\ Terms(y, LAST) /\ Support(y) \subseteq P
                             /\ \A l \in 0 .. L - 1 : PowerSum(y, l) = r.syndromes[l]
  <2>1. \A l \in 0 .. L - 1 : r.syndromes[l] \in Elements
    <3> TAKE l \in 0 .. L - 1
    <3>1. l \in 0 .. NROOTS - 1
      BY <1>2
    <3> QED  BY <1>4, <3>1 DEF Terms
  <2> HIDE DEF P, L
  <2> QED  BY <1>2, <1>5, <2>1, Solvable
<1>7. SumsOf(r.syndromes, y)
  <2>1. \A m \in Support(y) : At(c, L, Far(m)) = 0
    BY <1>5, <1>6
  <2>2. \A l \in 0 .. L - 1 : l < NROOTS => PowerSum(y, l) = r.syndromes[l]
    BY <1>6
  <2> HIDE DEF P, L, c
  <2> QED  BY <1>2, <1>4, <1>6, <2>1, <2>2, Continued
<1>8. Support(y) = P /\ L = Cardinality(Support(y))
  <2>1. L <= Cardinality(Support(y))
    <3>1. Explains(r, y, NROOTS)
      BY <1>7 DEF Fits
    <3> QED  BY <3>1 DEF Explains
  <2>2. IsFiniteSet(P)
    <3>1. IsFiniteSet(0 .. LAST)
      BY <1>0, FS_Interval
    <3> QED  BY <3>1, FS_Subset
  <2>3. Cardinality(Support(y)) \in Nat /\ Cardinality(Support(y)) <= L
        /\ (Cardinality(Support(y)) = L => Support(y) = P)
    <3> HIDE DEF P, L
    <3>1. /\ Cardinality(Support(y)) <= Cardinality(P)
          /\ Cardinality(P) = Cardinality(Support(y)) => Support(y) = P
      BY <1>6, <2>2, FS_Subset
    <3> QED  BY <1>5, <3>1, SupportFinite
  <2> QED  BY <1>2, <2>1, <2>3
<1>9. Solves(r, y)
  BY <1>2, <1>5, <1>6, <1>7, <1>8 DEF Solves
<1>10. Errata(y) = found
  <2>1. \A m \in P : Far(m) \in found
    OBVIOUS
  <2>2. \A x \in found : \E m \in P : Far(m) = x
    <3> TAKE x \in found
    <3>1. x \in Elements \ {0}
      BY <1>3 DEF RootsOf
    <3>2. PICK m \in 0 .. LAST : Far(m) = x
      BY <3>1, FarOnto
    <3> QED  BY <3>2
  <2> HIDE DEF P
  <2> QED  BY <1>8, <2>1, <2>2 DEF Errata
<1> QED  BY <1>9, <1>10

----------------------------------------------------------------------------
(* What is repaired at such errors is a word of the code. *)

\* Every row of weights is that of some errors.
LEMMA Unweighted ==
    ASSUME NEW y \in Row(LAST)
    PROVE  \E e \in Row(LAST) : Terms(e, LAST) /\ Weights(e) = y
<1> DEFINE p(m) == Pow(Spot(m), FIRST_ROOT)
           e == [m \in 0 .. LAST |-> Mul(y[m], Div(1, p(m)))]
<1>1. FIRST_ROOT \in Nat /\ y \in [0 .. LAST -> Elements]
  BY RSAssumption, FieldSize DEF Row
<1>2. ASSUME NEW m \in 0 .. LAST
      PROVE  Mul(y[m], Div(1, p(m))) \in Elements /\ Mul(Mul(y[m], Div(1, p(m))), p(m)) = y[m]
  <2> DEFINE u == y[m]
             q == p(m)
             d == Div(1, q)
  <2>1. u \in Elements /\ q \in Elements \ {0}
    <3>1. m \in Nat
      BY FieldSize DEF LAST
    <3>2. Spot(m) \in Elements \ {0}
      BY <3>1, Spots
    <3> QED  BY <1>1, <3>2, PowLaws
  <2> HIDE DEF u, q
  <2>2. d \in Elements /\ Mul(q, d) = 1
    BY <2>1, DivLaws
  <2> HIDE DEF d
  <2>3. Mul(Mul(u, d), q) = Mul(u, Mul(d, q)) /\ Mul(d, q) = Mul(q, d) /\ Mul(u, 1) = u
        /\ Mul(u, d) \in Elements
    BY <2>1, <2>2, FieldLaws
  <2> QED  BY <2>2, <2>3 DEF u, d, q
<1> HIDE DEF p
<1>3. e \in [0 .. LAST -> Elements]
  BY <1>2
<1>4. Weights(e) = y
  <2>1. \A m \in 0 .. LAST : Mul(e[m], p(m)) = y[m]
    BY <1>2
  <2>2. Weights(e) = [m \in 0 .. LAST |-> Mul(e[m], p(m))]
    BY DEF Weights, p
  <2> HIDE DEF e
  <2>3. [m \in 0 .. LAST |-> Mul(e[m], p(m))] = y
    BY <1>1, <2>1
  <2> QED  BY <2>2, <2>3
<1>5. Terms(e, LAST) /\ e \in Row(LAST)
  BY <1>3 DEF Terms, Row
<1> QED  BY <1>4, <1>5

\* The syndromes are those of what was received.
Matches(r) ==
    \A l \in 0 .. NROOTS - 1 : r.syndromes[l] = EvalTable(r.received, BLOCK - 1, RootPowers[l])

\* What is repaired at errors that explain the syndromes has none.
LEMMA RepairWord ==
    ASSUME NEW r \in Decoder, r.order \in 1 .. NROOTS, NEW e \in Row(LAST), Mended(r, e),
           SumsOf(r.syndromes, Weights(e)), Matches(r)
    PROVE  IsWord(Repair(r).received)
<1> DEFINE g == r.received
           c == [k \in 0 .. LAST |-> Add(g[k], e[k])]
           w == Repair(r).received
<1>1. g \in Row(LAST) /\ w \in Row(LAST) /\ r.syndromes \in Row(NROOTS - 1) /\ LAST = BLOCK - 1
  BY RepairType DEF Decoder, LAST
<1>2. Terms(g, LAST) /\ Terms(e, LAST)
  BY <1>1 DEF Row, Terms
<1> HIDE DEF g, w
<1>3. ASSUME NEW k \in 0 .. LAST
      PROVE  Add(g[k], e[k]) \in Elements /\ g[k] = Add(Add(g[k], e[k]), e[k])
  BY <1>2, AddGroup DEF Terms
<1>4. c \in Row(LAST) /\ Terms(c, LAST) /\ \A k \in 0 .. LAST : c[k] = Add(g[k], e[k])
  BY <1>3 DEF Terms, Row
<1>5. \A k \in 0 .. LAST : r.received[k] = Add(c[k], e[k])
  BY <1>3, <1>4 DEF g
<1> HIDE DEF c
<1>6. \A k \in 0 .. LAST : w[k] = c[k]
  BY <1>2, <1>4, <1>5, RepairMends DEF w
<1>7. w = c
  <2> DEFINE S == 0 .. LAST
  <2>1. w \in [S -> Elements] /\ c \in [S -> Elements] /\ \A k \in S : w[k] = c[k]
    BY <1>1, <1>4, <1>6 DEF Row
  <2> HIDE DEF S
  <2> QED  BY <2>1
<1>8. ASSUME NEW l \in 0 .. NROOTS - 1
      PROVE  EvalTable(c, LAST, RootPowers[l]) = 0
  <2> DEFINE s == r.syndromes[l]
  <2>1. EvalTable(c, LAST, RootPowers[l])
          = Add(EvalTable(g, LAST, RootPowers[l]), PowerSum(Weights(e), l))
    BY <1>1, <1>2, <1>4, GivenSum
  <2>2. EvalTable(g, LAST, RootPowers[l]) = s
    BY <1>1 DEF Matches, g
  <2>3. PowerSum(Weights(e), l) = s
    BY DEF SumsOf
  <2>4. s \in Elements
    BY <1>1 DEF Row
  <2> HIDE DEF s
  <2>5. Add(s, s) = 0
    BY <2>4, AddFour
  <2> QED  BY <2>1, <2>2, <2>3, <2>5
<1> QED  BY <1>1, <1>7, <1>8 DEF IsWord, w

----------------------------------------------------------------------------
(* Blocks, frames and the air. *)

\* Every place on the air is one symbol of one block.
LEMMA Cells ==
    /\ COUNT \in Nat \ {0} /\ SIZE \in Nat \ {0}
    /\ \A j \in 0 .. SIZE - 1 : j % COUNT \in 0 .. COUNT - 1 /\ j \div COUNT \in 0 .. BLOCK - 1
    /\ \A b \in 0 .. COUNT - 1, k \in 1 .. BLOCK :
          LET j == b + (k - 1) * COUNT
          IN  j \in 0 .. SIZE - 1 /\ j % COUNT = b /\ j \div COUNT = k - 1
<1> DEFINE c == COUNT
           n == BLOCK
<1>1. c \in Nat \ {0} /\ n \in Nat \ {0} /\ SIZE = c * n
  BY FrameCodecAssumption, FieldSize DEF SIZE
<1>2. SIZE \in Nat \ {0}
  <2> HIDE DEF c, n
  <2> QED  BY <1>1
<1>3. ASSUME NEW j \in 0 .. SIZE - 1
      PROVE  j % c \in 0 .. c - 1 /\ j \div c \in 0 .. n - 1
  <2> DEFINE q == j \div c
  <2>1. j \in Nat /\ j < SIZE
    BY <1>2
  <2> HIDE DEF c, n
  <2>2. q \in Nat /\ j % c \in 0 .. c - 1 /\ j = c * q + (j % c)
    BY <1>1, <2>1, Division
  <2> HIDE DEF q
  <2>3. ~(n <= q)
    <3> SUFFICES ASSUME n <= q PROVE FALSE
      OBVIOUS
    <3>1. PICK e \in Nat : q = n + e
      <4>1. q - n \in Nat /\ q = n + (q - n)
        BY <1>1, <2>2
      <4> QED  BY <4>1
    <3>2. c * q = c * n + c * e /\ c * e \in Nat /\ c * n \in Nat
      BY <1>1, <3>1
    <3> DEFINE x == c * q
               y == c * n
               z == c * e
    <3>3. x = y + z /\ z \in Nat /\ y \in Nat /\ j = x + (j % c) /\ SIZE = y
      BY <1>1, <2>2, <3>2
    <3> HIDE DEF x, y, z
    <3> QED  BY <2>1, <2>2, <3>3
  <2>4. q \in 0 .. n - 1
    BY <1>1, <2>2, <2>3
  <2> QED  BY <2>2, <2>4 DEF q
<1>4. ASSUME NEW b \in 0 .. c - 1, NEW k \in 1 .. n
      PROVE  LET j == b + (k - 1) * c IN j \in 0 .. SIZE - 1 /\ j % c = b /\ j \div c = k - 1
  <2> DEFINE q == k - 1
             e == n - k
             x == c * q
             y == c * e
             j == x + b
  <2> HIDE DEF c, n
  <2>1. q \in Nat /\ e \in Nat /\ n = q + e + 1 /\ b \in Nat
    BY <1>1
  <2>2. SIZE = c * q + c * e + c
    <3> HIDE DEF q, e
    <3>1. c * (q + e + 1) = c * q + c * e + c
      BY <1>1, <2>1
    <3> QED  BY <1>1, <2>1, <3>1
  <2>3. x \in Nat /\ y \in Nat /\ SIZE = x + y + c
    <3>1. SIZE = x + y + c
      BY <2>2
    <3> HIDE DEF q, e
    <3> QED  BY <1>1, <2>1, <3>1
  <2>4. j = c * q + b
    OBVIOUS
  <2>5. b + q * c = j
    <3> HIDE DEF q
    <3>1. q * c = c * q
      BY <1>1, <2>1
    <3>2. c * q \in Nat
      BY <1>1, <2>1
    <3> QED  BY <2>1, <3>1, <3>2
  <2>6. j \in 0 .. SIZE - 1 /\ j \in Nat
    <3> HIDE DEF x, y
    <3> QED  BY <1>1, <2>1, <2>3
  <2> HIDE DEF j, q
  <2>7. j % c = b /\ j \div c = q
    BY <1>1, <2>1, <2>4, <2>6, Quotient
  <2> QED  BY <2>5, <2>6, <2>7 DEF q
<1> QED  BY <1>1, <1>2, <1>3, <1>4

\* The symbols of a frame on their places, before they are scrambled.
Sent(frame) == Interleaved([b \in 1 .. COUNT |-> Encode(frame[b])])

LEMMA SentType ==
    ASSUME NEW frame \in Frames
    PROVE  /\ \A b \in 1 .. COUNT : frame[b] \in [1 .. MESSAGE -> Elements]
           /\ Sent(frame) \in [0 .. SIZE - 1 -> Elements]
           /\ \A b \in 0 .. COUNT - 1, k \in 1 .. BLOCK :
                 Sent(frame)[b + (k - 1) * COUNT] = Encode(frame[b + 1])[k]
<1> DEFINE code == [b \in 1 .. COUNT |-> Encode(frame[b])]
           s == Sent(frame)
<1>1. \A b \in 1 .. COUNT : frame[b] \in [1 .. MESSAGE -> Elements]
  BY FrameCodecAssumption
<1>2. code \in [1 .. COUNT -> [1 .. BLOCK -> Elements]]
  BY <1>1, EncodeType
<1>3. s = [j \in 0 .. SIZE - 1 |-> code[(j % COUNT) + 1][(j \div COUNT) + 1]]
  BY DEF Sent, Interleaved
<1>4. \A b \in 1 .. COUNT : code[b] = Encode(frame[b])
  OBVIOUS
<1> HIDE DEF code, s
<1>5. s \in [0 .. SIZE - 1 -> Elements]
  <2>1. ASSUME NEW j \in 0 .. SIZE - 1
        PROVE  code[(j % COUNT) + 1][(j \div COUNT) + 1] \in Elements
    <3> DEFINE b == j % COUNT
               k == j \div COUNT
    <3>1. b \in 0 .. COUNT - 1 /\ k \in 0 .. BLOCK - 1 /\ COUNT \in Nat /\ BLOCK \in Nat
      BY Cells, FieldSize
    <3> HIDE DEF b, k
    <3>2. b + 1 \in 1 .. COUNT /\ k + 1 \in 1 .. BLOCK
      BY <3>1
    <3>3. code[b + 1][k + 1] \in Elements
      BY <1>2, <3>2
    <3> QED  BY <3>3 DEF b, k
  <2> QED  BY <1>3, <2>1
<1>6. ASSUME NEW b \in 0 .. COUNT - 1, NEW k \in 1 .. BLOCK
      PROVE  s[b + (k - 1) * COUNT] = Encode(frame[b + 1])[k]
  <2> DEFINE j == b + (k - 1) * COUNT
  <2>1. j \in 0 .. SIZE - 1 /\ j % COUNT = b /\ j \div COUNT = k - 1
    BY Cells
  <2> HIDE DEF j
  <2>2. s[j] = code[b + 1][(k - 1) + 1]
    BY <1>3, <2>1
  <2>3. b + 1 \in 1 .. COUNT /\ (k - 1) + 1 = k
    BY Cells, FieldSize
  <2> QED  BY <1>4, <2>2, <2>3 DEF j
<1> QED  BY <1>1, <1>5, <1>6 DEF s

LEMMA ScrambleType ==
    ASSUME NEW symbols \in [0 .. SIZE - 1 -> Elements]
    PROVE  Scramble(symbols) \in [0 .. SIZE - 1 -> Elements]
<1>1. ASSUME NEW j \in 0 .. SIZE - 1
      PROVE  Add(symbols[j], SCRAMBLER[j]) \in Elements
  BY FrameCodecAssumption, AddBits
<1> QED  BY <1>1 DEF Scramble

----------------------------------------------------------------------------
(***************************************************************************)
(* The inductive invariant.  What the bounds of the buffers rest on is     *)
(* what the cursors of Berlekamp-Massey are to each other: Progress.  It   *)
(* holds from the first turn on, since a decoder that has seen a block     *)
(* before begins as a new one does, and a block gets there only with a     *)
(* syndrome that is not 0, so that the locator has an order when its       *)
(* roots are looked for.                                                   *)
(***************************************************************************)
Decoding == {"block", "locator", "roots", "values", "repair"}

Types ==
    /\ pc \in Decoding \cup {"receive", "air", "delivered", "dropped", "overrun"}
    /\ frameNo \in 0 .. Len(Hits) /\ block \in 0 .. COUNT /\ turn \in 0 .. NROOTS
    /\ in \in [0 .. SIZE - 1 -> Elements] /\ damage \in [0 .. SIZE - 1 -> Elements]
    /\ rs \in Decoder

Cursors ==
    /\ pc \in Decoding => block < COUNT
    /\ pc = "locator" => turn < NROOTS /\ ~AllZero(rs) /\ (turn > 0 => Progress(rs, turn))
    /\ pc = "roots" => ~AllZero(rs) /\ Progress(rs, NROOTS)
    /\ pc \in {"values", "repair"} => rs.order \in 1 .. NROOTS

\* The messages of the blocks that are done, and of all of them when a frame is delivered.
Delivery ==
    /\ pc # "receive" => data \in Frames /\ frameNo # 0
    /\ pc = "air" => block = 0 /\ out = <<>>
    /\ pc \in Decoding \cup {"delivered"} => out \in [1 .. block -> [1 .. MESSAGE -> Elements]]
    /\ pc = "delivered" => block = COUNT

\* What the decoder is given differs from what was sent where the channel struck it.
Symbols ==
    /\ pc = "air" => \A j \in 0 .. SIZE - 1 : in[j] = Add(Scramble(Sent(data))[j], damage[j])
    /\ pc \in Decoding => \A j \in 0 .. SIZE - 1 : in[j] = Add(Sent(data)[j], damage[j])

CodecInv == Types /\ Cursors /\ Delivery /\ Symbols

\* With the cursors where Progress has them and a syndrome that is not 0, the locator has
\* an order.
LEMMA OrderOfLocator ==
    ASSUME NEW r \in Decoder, Progress(r, NROOTS), ~AllZero(r)
    PROVE  r.order \in 1 .. NROOTS
<1>1. r.order \in Nat /\ r.numerrors \in Nat /\ NROOTS \in Nat
  BY FieldSize DEF Decoder
<1>2. r.order <= r.numerrors /\ r.numerrors <= NROOTS
  BY DEF Progress
<1>3. ~(\A j \in 0 .. NROOTS - 1 : r.syndromes[j] = 0)
  BY DEF AllZero
<1>4. r.order >= 1
  BY <1>3 DEF Progress
<1> QED  BY <1>1, <1>2, <1>4

LEMMA SilenceType == Silence \in [0 .. SIZE - 1 -> Elements]
BY FieldSize DEF Silence, Elements

LEMMA InitInv == Init => CodecInv
<1> SUFFICES ASSUME Init PROVE CodecInv
  OBVIOUS
<1> USE DEF Init
<1>1. Types
  <2>1. 0 \in 0 .. Len(Hits) /\ 0 \in 0 .. COUNT /\ 0 \in 0 .. NROOTS
    BY FrameCodecAssumption, FieldSize
  <2>2. rs \in Decoder
    BY NewDecoderType
  <2> QED  BY <2>1, <2>2, SilenceType DEF Types
<1>2. Cursors /\ Delivery /\ Symbols
  BY DEF Cursors, Delivery, Symbols, Decoding
<1> QED  BY <1>1, <1>2 DEF CodecInv

LEMMA SendInv ==
    ASSUME CodecInv, Send
    PROVE  CodecInv'
<1>1. /\ pc' = "air" /\ frameNo' = frameNo + 1 /\ data' \in Frames /\ damage' = Silence
      /\ in' = encode(data') /\ block' = 0 /\ out' = <<>> /\ turn' = turn /\ rs' = rs
      /\ frameNo < Len(Hits)
  BY DEF Send
<1> DEFINE s == Sent(data')
<1>2. s \in [0 .. SIZE - 1 -> Elements] /\ in' = Scramble(s)
  BY <1>1, SentType DEF encode, Sent
<1>3. in' \in [0 .. SIZE - 1 -> Elements]
  <2> HIDE DEF s
  <2> QED  BY <1>2, ScrambleType
<1>4. Types'
  <2>1. frameNo' \in 0 .. Len(Hits) /\ block' \in 0 .. COUNT
    BY <1>1, FrameCodecAssumption DEF CodecInv, Types
  <2> QED  BY <1>1, <1>3, <2>1, SilenceType DEF CodecInv, Types
<1>5. Cursors' /\ Delivery'
  <2>1. frameNo' # 0
    BY <1>1, FrameCodecAssumption DEF CodecInv, Types
  <2> QED  BY <1>1, <2>1 DEF Cursors, Delivery, Decoding
<1>6. Symbols'
  <2>1. \A j \in 0 .. SIZE - 1 : in'[j] = Add(Scramble(s)[j], damage'[j])
    <3> TAKE j \in 0 .. SIZE - 1
    <3> DEFINE x == in'[j]
    <3>1. x \in Elements /\ damage'[j] = 0 /\ x = Scramble(s)[j]
      BY <1>1, <1>2, <1>3 DEF Silence
    <3> HIDE DEF x, s
    <3>2. Add(x, 0) = x
      BY <3>1, AddGroup
    <3> QED  BY <3>1, <3>2 DEF x
  <2> QED  BY <1>1, <2>1 DEF Symbols, Decoding
<1> QED  BY <1>4, <1>5, <1>6 DEF CodecInv

LEMMA HitInv ==
    ASSUME CodecInv, Hit
    PROVE  CodecInv'
<1>1. pc = "air" /\ UNCHANGED <<pc, frameNo, data, block, turn, rs, out>>
  BY DEF Hit
<1>2. PICK j \in Hits[frameNo].at, v \in Hits[frameNo].by :
          /\ \A k \in {i \in 0 .. SIZE - 1 : damage[i] # 0} : k < j
          /\ damage' = [damage EXCEPT ![j] = v]
          /\ in' = [in EXCEPT ![j] = Add(@, v)]
  BY DEF Hit
<1>3. /\ in \in [0 .. SIZE - 1 -> Elements] /\ damage \in [0 .. SIZE - 1 -> Elements]
      /\ frameNo \in 0 .. Len(Hits)
  BY DEF CodecInv, Types
<1>4. j \in 0 .. SIZE - 1 /\ v \in Elements
  <2>1. frameNo \in DOMAIN Hits
    <3>1. frameNo # 0
      BY <1>1 DEF CodecInv, Delivery
    <3> QED  BY <1>3, <3>1, FrameCodecAssumption
  <2> QED  BY <1>2, <2>1, FrameCodecAssumption
<1>5. damage[j] = 0
  <2>1. ~(j < j)
    BY <1>4, Cells
  <2> QED  BY <1>2, <1>4, <2>1
<1>6. Add(in[j], v) \in Elements
  BY <1>3, <1>4, AddBits
<1>7. Types'
  <2>1. in' \in [0 .. SIZE - 1 -> Elements] /\ damage' \in [0 .. SIZE - 1 -> Elements]
    BY <1>2, <1>3, <1>4, <1>6
  <2> QED  BY <1>1, <2>1 DEF CodecInv, Types
<1>8. Cursors' /\ Delivery'
  BY <1>1 DEF CodecInv, Cursors, Delivery, Decoding
<1>9. Symbols'
  <2> DEFINE s == Scramble(Sent(data))
  <2>1. s \in [0 .. SIZE - 1 -> Elements] /\ data \in Frames
    BY <1>1, SentType, ScrambleType DEF CodecInv, Delivery
  <2>2. \A i \in 0 .. SIZE - 1 : in[i] = Add(s[i], damage[i])
    BY <1>1 DEF CodecInv, Symbols
  <2> HIDE DEF s
  <2>3. in[j] = s[j] /\ s[j] \in Elements
    <3>1. s[j] \in Elements /\ in[j] = Add(s[j], 0)
      BY <1>4, <1>5, <2>1, <2>2
    <3> QED  BY <3>1, AddGroup
  <2>4. \A i \in 0 .. SIZE - 1 : in'[i] = Add(s[i], damage'[i])
    <3> TAKE i \in 0 .. SIZE - 1
    <3>1. CASE i = j
      BY <1>2, <1>3, <1>4, <2>3, <3>1
    <3>2. CASE i # j
      BY <1>2, <1>3, <1>4, <2>2, <3>2
    <3> QED  BY <3>1, <3>2
  <2> QED  BY <1>1, <2>4 DEF Symbols, Decoding, s
<1> QED  BY <1>7, <1>8, <1>9 DEF CodecInv

LEMMA ReceiveInv ==
    ASSUME CodecInv, Receive
    PROVE  CodecInv'
<1>1. /\ pc = "air" /\ pc' = "block" /\ in' = Scramble(in)
      /\ UNCHANGED <<frameNo, data, damage, block, turn, rs, out>>
  BY DEF Receive, channel
<1>2. in \in [0 .. SIZE - 1 -> Elements] /\ damage \in [0 .. SIZE - 1 -> Elements]
  BY DEF CodecInv, Types
<1>3. Types'
  <2>1. in' \in [0 .. SIZE - 1 -> Elements]
    BY <1>1, <1>2, ScrambleType
  <2> QED  BY <1>1, <2>1 DEF CodecInv, Types, Decoding
<1>4. data \in Frames /\ frameNo # 0 /\ block = 0 /\ out = <<>>
  BY <1>1 DEF CodecInv, Delivery
<1>5. Cursors'
  BY <1>1, <1>4, Cells DEF Cursors, Decoding
<1>6. Delivery'
  <2>1. <<>> \in [1 .. 0 -> [1 .. MESSAGE -> Elements]]
    BY SMT
  <2> QED  BY <1>1, <1>4, <2>1 DEF Delivery, Decoding
<1>7. Symbols'
  <2> DEFINE s == Sent(data)
             w == Scramble(s)
  <2>1. s \in [0 .. SIZE - 1 -> Elements]
    BY <1>4, SentType
  <2>2. \A j \in 0 .. SIZE - 1 : in[j] = Add(w[j], damage[j])
    BY <1>1 DEF CodecInv, Symbols
  <2>3. \A j \in 0 .. SIZE - 1 : w[j] = Add(s[j], SCRAMBLER[j])
    BY DEF Scramble
  <2>4. \A j \in 0 .. SIZE - 1 : in'[j] = Add(in[j], SCRAMBLER[j])
    BY <1>1 DEF Scramble
  <2> HIDE DEF s, w
  <2>5. \A j \in 0 .. SIZE - 1 : in'[j] = Add(s[j], damage[j])
    <3> TAKE j \in 0 .. SIZE - 1
    <3> DEFINE x == s[j]
               c == SCRAMBLER[j]
               d == damage[j]
    <3>1. x \in Elements /\ c \in Elements /\ d \in Elements
      BY <1>2, <2>1, FrameCodecAssumption
    <3>2. in'[j] = Add(Add(Add(x, c), d), c)
      BY <2>2, <2>3, <2>4
    <3> HIDE DEF x, c, d
    <3>3. Add(Add(x, c), d) = Add(Add(x, d), c)
      <4>1. Add(Add(x, c), d) = Add(x, Add(c, d))
        BY <3>1, AddGroup
      <4>2. Add(Add(x, d), c) = Add(x, Add(d, c))
        BY <3>1, AddGroup
      <4>3. Add(c, d) = Add(d, c)
        BY <3>1, AddGroup
      <4> QED  BY <4>1, <4>2, <4>3
    <3>4. Add(x, d) \in Elements
      BY <3>1, AddGroup
    <3>5. Add(Add(Add(x, d), c), c) = Add(x, d)
      BY <3>1, <3>4, AddGroup
    <3> QED  BY <3>2, <3>3, <3>5 DEF x, d
  <2> QED  BY <1>1, <2>5 DEF Symbols, Decoding, s
<1> QED  BY <1>3, <1>5, <1>6, <1>7 DEF CodecInv

\* The decoder is given a block of symbols, its own: what was encoded, and the damage that
\* was done to it.
LEMMA DeinterleaveType ==
    ASSUME CodecInv, pc \in Decoding, NEW b \in 0 .. COUNT - 1
    PROVE  /\ Deinterleave(b) \in [1 .. BLOCK -> Elements]
           /\ \A k \in 1 .. BLOCK :
                 /\ damage[b + (k - 1) * COUNT] \in Elements
                 /\ Deinterleave(b)[k] = Add(Encode(data[b + 1])[k], damage[b + (k - 1) * COUNT])
<1>1. data \in Frames
  BY DEF CodecInv, Delivery, Decoding
<1>2. in \in [0 .. SIZE - 1 -> Elements] /\ damage \in [0 .. SIZE - 1 -> Elements]
  BY DEF CodecInv, Types
<1>3. ASSUME NEW k \in 1 .. BLOCK
      PROVE  LET j == b + (k - 1) * COUNT
             IN  /\ in[j] \in Elements /\ damage[j] \in Elements
                 /\ in[j] = Add(Encode(data[b + 1])[k], damage[j])
  <2> DEFINE j == b + (k - 1) * COUNT
             s == Sent(data)
  <2>1. j \in 0 .. SIZE - 1 /\ s[j] = Encode(data[b + 1])[k]
    BY <1>1, Cells, SentType
  <2>2. \A i \in 0 .. SIZE - 1 : in[i] = Add(s[i], damage[i])
    BY DEF CodecInv, Symbols
  <2> HIDE DEF j, s
  <2> QED  BY <1>2, <2>1, <2>2 DEF j
<1> QED  BY <1>3 DEF Deinterleave

\* What stays as it is while a block is decoded.
LEMMA WithinBlock ==
    ASSUME CodecInv, pc \in Decoding, pc' \in Decoding \cup {"dropped", "overrun"},
           UNCHANGED <<channel, in, block, out>>, turn' \in 0 .. NROOTS, rs' \in Decoder
    PROVE  Types' /\ Delivery' /\ Symbols' /\ block' < COUNT
<1>1. Types'
  BY DEF CodecInv, Types, channel
<1>2. Delivery'
  BY DEF CodecInv, Delivery, Decoding, channel
<1>3. Symbols'
  BY DEF CodecInv, Symbols, Decoding, channel
<1>4. block' < COUNT
  BY DEF CodecInv, Cursors
<1> QED  BY <1>1, <1>2, <1>3, <1>4

\* A block is done.
LEMMA WrittenInv ==
    ASSUME CodecInv, pc \in Decoding, rs' \in Decoder, Written(rs'),
           UNCHANGED <<channel, in, turn>>
    PROVE  CodecInv'
<1>1. /\ out' = Append(out, MessageOf(rs')) /\ block' = block + 1
      /\ pc' = IF block + 1 = COUNT THEN "delivered" ELSE "block"
  BY DEF Written
<1>2. block \in Nat /\ block < COUNT /\ COUNT \in Nat
  BY Cells DEF CodecInv, Types, Cursors
<1>3. Types'
  <2>1. block' \in 0 .. COUNT
    BY <1>1, <1>2
  <2> QED  BY <1>1, <2>1 DEF CodecInv, Types, Decoding, channel
<1>4. Cursors'
  <2>1. pc' = "block" => block' < COUNT
    BY <1>1, <1>2
  <2> QED  BY <1>1, <2>1 DEF Cursors, Decoding
<1>5. Delivery'
  <2> DEFINE M == [1 .. MESSAGE -> Elements]
             m == MessageOf(rs')
  <2>1. m \in M
    BY MessageType
  <2>2. out \in [1 .. block -> M] /\ data \in Frames /\ frameNo # 0
    BY DEF CodecInv, Delivery, Decoding
  <2> HIDE DEF M, m
  <2>3. out \in Seq(M) /\ Len(out) = block
    BY <1>2, <2>2, FunctionIsSeq
  <2> DEFINE w == Append(out, m)
  <2>4. w \in Seq(M) /\ Len(w) = block + 1
    BY <2>1, <2>3
  <2> HIDE DEF w
  <2>5. w \in [1 .. block + 1 -> M]
    BY <2>4
  <2>6. out' \in [1 .. block' -> M]
    BY <1>1, <2>5 DEF w, m
  <2>7. pc' = "delivered" => block' = COUNT
    BY <1>1
  <2> QED  BY <1>1, <2>2, <2>6, <2>7 DEF Delivery, Decoding, channel, M
<1>6. Symbols'
  BY <1>1 DEF CodecInv, Symbols, Decoding, channel
<1> QED  BY <1>3, <1>4, <1>5, <1>6 DEF CodecInv

LEMMA BeginBlockInv ==
    ASSUME CodecInv, BeginBlock
    PROVE  CodecInv'
<1>1. /\ pc = "block" /\ rs' = Syndromes(rs, Deinterleave(block)) /\ ~AllZero(rs')
      /\ pc' = "locator" /\ turn' = 0 /\ UNCHANGED <<channel, in, block, out>>
  BY DEF BeginBlock
<1>2. pc \in Decoding /\ pc' \in Decoding
  BY <1>1 DEF Decoding
<1>3. block \in 0 .. COUNT - 1
  BY <1>2, Cells DEF CodecInv, Types, Cursors
<1>4. rs' \in Decoder
  <2>1. Deinterleave(block) \in [1 .. BLOCK -> Elements]
    BY <1>2, <1>3, DeinterleaveType
  <2> QED  BY <1>1, <2>1, SyndromesType DEF CodecInv, Types
<1>5. turn' \in 0 .. NROOTS /\ turn' < NROOTS
  BY <1>1, FieldSize
<1>6. Types' /\ Delivery' /\ Symbols' /\ block' < COUNT
  BY <1>1, <1>2, <1>4, <1>5, WithinBlock
<1>7. Cursors'
  BY <1>1, <1>5, <1>6 DEF Cursors, AllZero
<1> QED  BY <1>6, <1>7 DEF CodecInv

LEMMA CleanBlockInv ==
    ASSUME CodecInv, CleanBlock
    PROVE  CodecInv'
<1>1. /\ pc = "block" /\ rs' = Syndromes(rs, Deinterleave(block))
      /\ Written(rs') /\ UNCHANGED <<channel, in, turn>>
  BY DEF CleanBlock
<1>2. pc \in Decoding
  BY <1>1 DEF Decoding
<1>3. block \in 0 .. COUNT - 1
  BY <1>2, Cells DEF CodecInv, Types, Cursors
<1>4. rs' \in Decoder
  <2>1. Deinterleave(block) \in [1 .. BLOCK -> Elements]
    BY <1>2, <1>3, DeinterleaveType
  <2> QED  BY <1>1, <2>1, SyndromesType DEF CodecInv, Types
<1> QED  BY <1>1, <1>2, <1>4, WrittenInv

LEMMA FindLocatorInv ==
    ASSUME CodecInv, FindLocator
    PROVE  CodecInv'
<1> DEFINE r == IF turn = 0 THEN LocatorInit(rs) ELSE rs
<1>1. /\ pc = "locator" /\ rs' = LocatorTurn(r, turn) /\ turn' = turn + 1
      /\ pc' = IF turn + 1 = NROOTS THEN "roots" ELSE pc
      /\ UNCHANGED <<channel, in, block, out>>
  BY DEF FindLocator
<1>2. pc \in Decoding /\ pc' \in Decoding
  BY <1>1 DEF Decoding
<1>3. turn \in 0 .. NROOTS - 1 /\ ~AllZero(rs) /\ rs \in Decoder /\ NROOTS \in Nat
  BY <1>1, FieldSize DEF CodecInv, Types, Cursors
<1>4. r \in Decoder /\ Progress(r, turn) /\ r.syndromes = rs.syndromes
  <2>1. CASE turn = 0
    BY <1>3, <2>1, LocatorInitType
  <2>2. CASE turn # 0
    BY <1>1, <1>3, <2>2 DEF CodecInv, Cursors
  <2> QED  BY <2>1, <2>2
<1> HIDE DEF r
<1>5. rs' \in Decoder /\ Progress(rs', turn + 1) /\ rs'.syndromes = rs.syndromes
  BY <1>1, <1>3, <1>4, LocatorTurnType
<1>6. ~AllZero(rs')
  BY <1>3, <1>5 DEF AllZero
<1>7. turn' \in 0 .. NROOTS /\ (turn + 1 # NROOTS => turn' < NROOTS) /\ turn' > 0
  BY <1>1, <1>3
<1>8. Types' /\ Delivery' /\ Symbols' /\ block' < COUNT
  BY <1>1, <1>2, <1>5, <1>7, WithinBlock
<1>9. Cursors'
  <2>1. CASE turn + 1 = NROOTS
    <3>1. pc' = "roots" /\ Progress(rs', NROOTS)
      BY <1>1, <1>5, <2>1
    <3> QED  BY <1>6, <1>8, <3>1 DEF Cursors, Progress, AllZero
  <2>2. CASE turn + 1 # NROOTS
    <3>1. pc' = "locator" /\ turn' < NROOTS /\ Progress(rs', turn')
      BY <1>1, <1>5, <1>7, <2>2
    <3> QED  BY <1>6, <1>8, <3>1 DEF Cursors, Progress, AllZero
  <2> QED  BY <2>1, <2>2
<1> QED  BY <1>8, <1>9 DEF CodecInv

\* The roots found are elements of the field.
LEMMA FoundType ==
    ASSUME NEW r, NEW found \in Found(r)
    PROVE  found \in SUBSET Elements /\ Cardinality(found) \in Nat
<1>1. found \subseteq Elements
  <2>1. \A S \in Found(r) : S \subseteq Elements
    BY DEF Found
  <2> QED  BY <2>1
<1>2. IsFiniteSet(Elements)
  BY FieldSize, FS_Interval DEF Elements
<1> QED  BY <1>1, <1>2, FS_Subset, FS_CardinalityType

\* The search, whether or not there is room for what it finds.
LEMMA SearchSteps ==
    ASSUME FindRoots \/ OverrunRoots
    PROVE  /\ pc = "roots" /\ UNCHANGED <<channel, in, block, turn, out>>
           /\ \E found \in Found(rs) :
                 /\ rs' = Factorize(rs, found)
                 /\ \/ /\ Cardinality(found) <= 2 * NROOTS
                       /\ pc' = IF Cardinality(found) = rs.order THEN "values" ELSE "dropped"
                    \/ Cardinality(found) > 2 * NROOTS /\ pc' = "overrun"
<1>1. CASE FindRoots
  BY <1>1 DEF FindRoots, Decodable
<1>2. CASE OverrunRoots
  BY <1>2 DEF OverrunRoots
<1> QED  BY <1>1, <1>2

LEMMA FindRootsInv ==
    ASSUME CodecInv, FindRoots \/ OverrunRoots
    PROVE  CodecInv'
<1>1. pc = "roots" /\ UNCHANGED <<channel, in, block, turn, out>>
  BY SearchSteps
<1>2. PICK found \in Found(rs) : rs' = Factorize(rs, found) /\ pc' \in {"values", "dropped", "overrun"}
  BY SearchSteps
<1>3. pc \in Decoding /\ pc' \in Decoding \cup {"dropped", "overrun"}
  BY <1>1, <1>2 DEF Decoding
<1>4. rs \in Decoder /\ turn \in 0 .. NROOTS
  BY DEF CodecInv, Types
<1>5. found \in SUBSET Elements
  BY FoundType
<1>6. rs.order \in 1 .. NROOTS
  BY <1>1, <1>4, OrderOfLocator DEF CodecInv, Cursors
<1>7. rs' \in Decoder /\ rs'.order = rs.order
  BY <1>2, <1>4, <1>5, FactorizeType
<1>8. turn' \in 0 .. NROOTS
  BY <1>1, <1>4
<1>9. Types' /\ Delivery' /\ Symbols' /\ block' < COUNT
  BY <1>1, <1>3, <1>7, <1>8, WithinBlock
<1>10. Cursors'
  BY <1>2, <1>6, <1>7, <1>9 DEF Cursors, Decoding
<1> QED  BY <1>9, <1>10 DEF CodecInv

LEMMA FindValuesInv ==
    ASSUME CodecInv, FindValues
    PROVE  CodecInv'
<1>1. /\ pc = "values" /\ pc' = "repair" /\ rs' = Values(Locations(rs))
      /\ UNCHANGED <<channel, in, block, turn, out>>
  BY DEF FindValues
<1>2. pc \in Decoding /\ pc' \in Decoding
  BY <1>1 DEF Decoding
<1>3. rs \in Decoder /\ turn \in 0 .. NROOTS /\ rs.order \in 1 .. NROOTS
  BY <1>1 DEF CodecInv, Types, Cursors
<1> DEFINE q == Locations(rs)
<1>4. q \in Decoder /\ q.order \in 1 .. NROOTS /\ rs' = Values(q)
  BY <1>1, <1>3, LocationsType
<1> HIDE DEF q
<1>5. rs' \in Decoder /\ rs'.order \in 1 .. NROOTS
  BY <1>4, ValuesType
<1>6. turn' \in 0 .. NROOTS
  BY <1>1, <1>3
<1>7. Types' /\ Delivery' /\ Symbols' /\ block' < COUNT
  BY <1>1, <1>2, <1>5, <1>6, WithinBlock
<1>8. Cursors'
  BY <1>1, <1>5, <1>7 DEF Cursors, Decoding
<1> QED  BY <1>7, <1>8 DEF CodecInv

LEMMA RepairBlockInv ==
    ASSUME CodecInv, RepairBlock
    PROVE  CodecInv'
<1>1. /\ pc = "repair" /\ rs' = Repair(rs) /\ Written(rs')
      /\ UNCHANGED <<channel, in, turn>>
  BY DEF RepairBlock
<1>2. pc \in Decoding
  BY <1>1 DEF Decoding
<1>3. rs \in Decoder /\ rs.order \in 1 .. NROOTS
  BY <1>1 DEF CodecInv, Types, Cursors
<1>4. rs' \in Decoder
  BY <1>1, <1>3, RepairType
<1> QED  BY <1>1, <1>2, <1>4, WrittenInv

LEMMA StutterInv ==
    ASSUME CodecInv, UNCHANGED vars
    PROVE  CodecInv'
<1>1. /\ pc' = pc /\ frameNo' = frameNo /\ data' = data /\ damage' = damage /\ in' = in
      /\ block' = block /\ turn' = turn /\ rs' = rs /\ out' = out
  BY DEF vars, channel
<1>2. Types'
  BY <1>1 DEF CodecInv, Types
<1>3. Cursors'
  BY <1>1 DEF CodecInv, Cursors, AllZero, Progress
<1>4. Delivery'
  <2>1. Delivery
    BY DEF CodecInv
  <2> QED  BY <1>1, <2>1 DEF Delivery, Decoding
<1>5. Symbols'
  BY <1>1 DEF CodecInv, Symbols
<1> QED  BY <1>2, <1>3, <1>4, <1>5 DEF CodecInv

\* The invariant is inductive.
THEOREM CodecInvariance == Spec => []CodecInv
<1>1. ASSUME CodecInv, [Next]_vars
      PROVE  CodecInv'
  <2>1. CASE Send
    BY <1>1, <2>1, SendInv
  <2>2. CASE Hit
    BY <1>1, <2>2, HitInv
  <2>3. CASE Receive
    BY <1>1, <2>3, ReceiveInv
  <2>4. CASE BeginBlock
    BY <1>1, <2>4, BeginBlockInv
  <2>5. CASE CleanBlock
    BY <1>1, <2>5, CleanBlockInv
  <2>6. CASE FindLocator
    BY <1>1, <2>6, FindLocatorInv
  <2>7. CASE FindRoots \/ OverrunRoots
    BY <1>1, <2>7, FindRootsInv
  <2>8. CASE FindValues
    BY <1>1, <2>8, FindValuesInv
  <2>9. CASE RepairBlock
    BY <1>1, <2>9, RepairBlockInv
  <2>10. CASE Finished \/ UNCHANGED vars
    BY <1>1, <2>10, StutterInv DEF Finished
  <2> QED  BY <1>1, <2>1, <2>2, <2>3, <2>4, <2>5, <2>6, <2>7, <2>8, <2>9, <2>10 DEF Next
<1> QED  BY <1>1, InitInv, PTL DEF Spec

(***************************************************************************)
(* Scrambling and interleaving are undone: the block that the decoder      *)
(* works on is the one that was encoded, but for the damage that the       *)
(* channel did to its own symbols (rs_codec.cpp:17-40, 66-90).             *)
(***************************************************************************)
Transparent ==
    pc \in Decoding =>
        \A b \in 0 .. COUNT - 1, k \in 1 .. BLOCK :
            Deinterleave(b)[k] = Add(Encode(data[b + 1])[k], damage[b + (k - 1) * COUNT])

\* So it is, for every scrambling sequence and any number of blocks.
THEOREM CodecTransparent == Spec => []Transparent
<1>1. CodecInv => Transparent
  BY DeinterleaveType DEF Transparent
<1> QED  BY <1>1, CodecInvariance, PTL

(***************************************************************************)
(* A block that was not struck, and that is written as it came, is         *)
(* delivered as it was sent, whatever happened to its neighbours in the    *)
(* interleaving (rs_codec.cpp:66-90, decode.c:335-342).                    *)
(***************************************************************************)
Undisturbed == CleanBlock /\ StruckIn(block) = {} => out' = Append(out, data[block + 1])

\* So it is in every step.
THEOREM CodecUndisturbed == Spec => [][Undisturbed]_vars
<1>1. ASSUME CodecInv, CleanBlock, StruckIn(block) = {}
      PROVE  out' = Append(out, data[block + 1])
  <2> DEFINE given == Deinterleave(block)
             code == Encode(data[block + 1])
             msg == data[block + 1]
  <2>1. pc \in Decoding /\ rs' = Syndromes(rs, given) /\ out' = Append(out, MessageOf(rs'))
    BY <1>1 DEF CleanBlock, Written, Decoding
  <2>2. block \in 0 .. COUNT - 1 /\ block + 1 \in 1 .. COUNT
    BY <1>1, <2>1, Cells DEF CodecInv, Types, Cursors
  <2>3. msg \in [1 .. MESSAGE -> Elements]
    <3>1. data \in Frames
      BY <1>1, <2>1 DEF CodecInv, Delivery, Decoding
    <3> QED  BY <2>2, <3>1, SentType
  <2>4. code \in [1 .. BLOCK -> Elements] /\ \A i \in 1 .. MESSAGE : code[i] = msg[i]
    BY <2>3, EncodeType
  <2>5. given \in [1 .. BLOCK -> Elements] /\ \A k \in 1 .. BLOCK : given[k] = code[k]
    <3>1. \A k \in 1 .. BLOCK : damage[block + (k - 1) * COUNT] = 0
      BY <1>1 DEF StruckIn
    <3>2. \A k \in 1 .. BLOCK : given[k] = Add(code[k], 0)
      BY <1>1, <2>1, <2>2, <3>1, DeinterleaveType
    <3>3. given \in [1 .. BLOCK -> Elements]
      BY <1>1, <2>1, <2>2, DeinterleaveType
    <3> HIDE DEF given, code
    <3>4. \A k \in 1 .. BLOCK : Add(code[k], 0) = code[k]
      BY <2>4, AddGroup
    <3> QED  BY <3>2, <3>3, <3>4
  <2> HIDE DEF given, code, msg
  <2>6. \A i \in 1 .. BLOCK : rs'.received[BLOCK - i] = given[i]
    BY <1>1, <2>1, <2>5, SyndromesType DEF CodecInv, Types
  <2>7. \A i \in 1 .. MESSAGE : i \in 1 .. BLOCK
    BY FieldSize
  <2>8. \A i \in 1 .. MESSAGE : rs'.received[BLOCK - i] = msg[i]
    BY <2>4, <2>5, <2>6, <2>7
  <2>9. MessageOf(rs') = msg
    BY <2>3, <2>8 DEF MessageOf
  <2> QED  BY <2>1, <2>9 DEF msg
<1>2. ASSUME CodecInv, [Next]_vars
      PROVE  [Undisturbed]_vars
  BY <1>1, <1>2 DEF Undisturbed
<1> QED  BY <1>2, CodecInvariance, PTL DEF Spec

\* A frame that is delivered has all its messages.
THEOREM CodecWholeFrame ==
    Spec => [](pc = "delivered" => out \in [1 .. COUNT -> [1 .. MESSAGE -> Elements]])
<1>1. CodecInv => (pc = "delivered" => out \in [1 .. COUNT -> [1 .. MESSAGE -> Elements]])
  BY DEF CodecInv, Delivery
<1> QED  BY <1>1, CodecInvariance, PTL

----------------------------------------------------------------------------
(* What was sent and what was received, block by block. *)

\* A block as it was sent, and what the channel did to it, as polynomials: the first symbol
\* of a block is the coefficient of the highest order.
Word(b) == Reversed(Encode(data[b + 1]))
Noise(b) == [m \in 0 .. LAST |-> damage[b + (LAST - m) * COUNT]]
Errors(b) == Weights(Noise(b))

\* As many errors as can be corrected.
Light(b) == Cardinality(StruckIn(b)) <= Radius

\* The noise of a block is a row of elements.
LEMMA NoiseType ==
    ASSUME CodecInv, NEW b \in 0 .. COUNT - 1
    PROVE  /\ Terms(Noise(b), LAST) /\ Errors(b) \in Row(LAST) /\ Terms(Errors(b), LAST)
           /\ \A k \in 1 .. BLOCK : Noise(b)[BLOCK - k] = damage[b + (k - 1) * COUNT]
<1>1. LAST \in Nat /\ BLOCK \in Nat /\ LAST = BLOCK - 1
  BY FieldSize DEF LAST
<1>2. ASSUME NEW m \in 0 .. LAST
      PROVE  damage[b + (LAST - m) * COUNT] \in Elements
  <2>1. BLOCK - m \in 1 .. BLOCK /\ (BLOCK - m) - 1 = LAST - m
    BY <1>1
  <2>2. b + ((BLOCK - m) - 1) * COUNT \in 0 .. SIZE - 1
    BY <2>1, Cells
  <2> QED  BY <2>1, <2>2 DEF CodecInv, Types
<1>3. Terms(Noise(b), LAST)
  BY <1>2 DEF Noise, Terms
<1>4. Terms(Errors(b), LAST)
  BY <1>3, WeightsType DEF Errors
<1>5. Errors(b) \in Row(LAST)
  BY <1>4 DEF Errors, Weights, Terms, Row
<1>6. ASSUME NEW k \in 1 .. BLOCK
      PROVE  Noise(b)[BLOCK - k] = damage[b + (k - 1) * COUNT]
  <2>1. BLOCK - k \in 0 .. LAST /\ LAST - (BLOCK - k) = k - 1
    BY <1>1
  <2> QED  BY <2>1 DEF Noise
<1> QED  BY <1>3, <1>4, <1>5, <1>6

\* Every symbol that was struck has its error.
LEMMA NoiseCount ==
    ASSUME CodecInv, NEW b \in 0 .. COUNT - 1
    PROVE  /\ Cardinality(StruckIn(b)) \in Nat
           /\ Cardinality(Support(Errors(b))) = Cardinality(StruckIn(b))
<1> DEFINE S == StruckIn(b)
           T == Support(Errors(b))
           f == [k \in S |-> BLOCK - k]
<1>1. LAST \in Nat /\ BLOCK \in Nat /\ LAST = BLOCK - 1
  BY FieldSize DEF LAST
<1>2. IsFiniteSet(S)
  <2>1. IsFiniteSet(1 .. BLOCK)
    BY <1>1, FS_Interval
  <2>2. S \subseteq 1 .. BLOCK
    BY DEF StruckIn
  <2> QED  BY <2>1, <2>2, FS_Subset
<1>3. \A k \in S : k \in 1 .. BLOCK
  BY DEF StruckIn
<1>4. ASSUME NEW k \in 1 .. BLOCK
      PROVE  k \in S <=> BLOCK - k \in T
  <2>1. BLOCK - k \in 0 .. LAST
    BY <1>1
  <2>2. Terms(Noise(b), LAST) /\ Noise(b)[BLOCK - k] = damage[b + (k - 1) * COUNT]
    BY NoiseType
  <2>3. Errors(b)[BLOCK - k] = 0 <=> Noise(b)[BLOCK - k] = 0
    BY <2>1, <2>2, WeightsType DEF Errors
  <2> QED  BY <2>1, <2>2, <2>3 DEF StruckIn, Support
<1>5. \A m \in T : m \in 0 .. LAST
  BY DEF Support
<1> HIDE DEF S, T
<1>6. f \in [S -> T]
  BY <1>3, <1>4
<1>7. f \in Injection(S, T)
  <2>1. \A k, l \in S : f[k] = f[l] => k = l
    BY <1>1, <1>3
  <2> HIDE DEF f
  <2> QED  BY <1>6, <2>1 DEF Injection, IsInjective
<1>8. f \in Surjection(S, T)
  <2>1. ASSUME NEW m \in T
        PROVE  \E k \in S : f[k] = m
    <3>1. BLOCK - m \in 1 .. BLOCK /\ BLOCK - (BLOCK - m) = m
      BY <1>1, <1>5
    <3>2. BLOCK - m \in S
      BY <1>4, <3>1
    <3> QED  BY <3>1, <3>2
  <2> HIDE DEF f
  <2> QED  BY <1>6, <2>1 DEF Surjection
<1> HIDE DEF f
<1>9. Cardinality(T) = Cardinality(S)
  BY <1>2, <1>7, <1>8, FS_Surjection
<1>10. Cardinality(S) \in Nat
  BY <1>2, FS_CardinalityType
<1> QED  BY <1>9, <1>10 DEF S, T

\* A block that can be corrected has no more errors than half the syndromes.
LEMMA LightErrors ==
    ASSUME CodecInv, NEW b \in 0 .. COUNT - 1
    PROVE  Light(b) <=> 2 * Cardinality(Support(Errors(b))) <= NROOTS
<1> DEFINE n == Cardinality(StruckIn(b))
<1>1. n \in Nat /\ Cardinality(Support(Errors(b))) = n /\ NROOTS \in Nat
  BY NoiseCount, FieldSize
<1>2. Light(b) <=> n <= NROOTS \div 2
  BY DEF Light, Radius
<1> HIDE DEF n
<1>3. n <= NROOTS \div 2 <=> 2 * n <= NROOTS
  BY <1>1
<1> QED  BY <1>1, <1>2, <1>3

\* What was sent as a block is a row of elements that has the message.
LEMMA WordType ==
    ASSUME CodecInv, pc \in Decoding, NEW b \in 0 .. COUNT - 1
    PROVE  /\ Word(b) \in Row(LAST) /\ Terms(Word(b), LAST)
           /\ \A i \in 1 .. MESSAGE : Word(b)[BLOCK - i] = data[b + 1][i]
           /\ data[b + 1] \in [1 .. MESSAGE -> Elements]
           /\ \A l \in 0 .. NROOTS - 1 : EvalTable(Word(b), LAST, RootPowers[l]) = 0
<1> DEFINE code == Encode(data[b + 1])
<1>1. LAST \in Nat /\ BLOCK \in Nat /\ LAST = BLOCK - 1 /\ MESSAGE <= BLOCK /\ MESSAGE \in Nat
  BY FieldSize DEF LAST
<1>2. data[b + 1] \in [1 .. MESSAGE -> Elements]
  <2>1. data \in Frames /\ b + 1 \in 1 .. COUNT
    BY Cells DEF CodecInv, Delivery, Decoding
  <2> QED  BY <2>1, SentType
<1>3. code \in [1 .. BLOCK -> Elements] /\ \A i \in 1 .. MESSAGE : code[i] = data[b + 1][i]
  BY <1>2, EncodeType
<1>4. \A l \in 0 .. NROOTS - 1 : EvalTable(Word(b), LAST, RootPowers[l]) = 0
  BY <1>1, <1>2, EncodeWord DEF Word
<1> HIDE DEF code
<1>5. Word(b) = [i \in 0 .. BLOCK - 1 |-> code[BLOCK - i]]
  BY DEF Word, Reversed, code
<1>6. \A i \in 0 .. BLOCK - 1 : BLOCK - i \in 1 .. BLOCK
  BY <1>1
<1>7. Word(b) \in Row(LAST)
  BY <1>1, <1>3, <1>5, <1>6 DEF Row
<1>8. Terms(Word(b), LAST)
  BY <1>7 DEF Row, Terms
<1>9. \A i \in 1 .. MESSAGE : Word(b)[BLOCK - i] = data[b + 1][i]
  <2> TAKE i \in 1 .. MESSAGE
  <2>1. BLOCK - i \in 0 .. BLOCK - 1 /\ BLOCK - (BLOCK - i) = i
    BY <1>1
  <2> QED  BY <1>3, <1>5, <2>1
<1> QED  BY <1>2, <1>4, <1>7, <1>8, <1>9

\* What the decoder is given is the word and the errors, and its syndromes are sums of
\* powers of the errors alone.
LEMMA GivenWord ==
    ASSUME CodecInv, pc \in Decoding, NEW b \in 0 .. COUNT - 1
    PROVE  LET q == Syndromes(rs, Deinterleave(b))
           IN  /\ q \in Decoder
               /\ \A k \in 0 .. LAST : q.received[k] = Add(Word(b)[k], Noise(b)[k])
               /\ SumsOf(q.syndromes, Errors(b))
<1> DEFINE given == Deinterleave(b)
           w == Reversed(given)
           q == Syndromes(rs, given)
<1>1. LAST \in Nat /\ BLOCK \in Nat /\ LAST = BLOCK - 1
  BY FieldSize DEF LAST
<1>2. given \in [1 .. BLOCK -> Elements]
      /\ \A k \in 1 .. BLOCK : given[k] = Add(Encode(data[b + 1])[k], damage[b + (k - 1) * COUNT])
  BY DeinterleaveType
<1> HIDE DEF given
<1>3. rs \in Decoder
  BY DEF CodecInv, Types
<1>4. q \in Decoder
  BY <1>2, <1>3, SyndromesType
<1>5. q.received = w /\ q.syndromes = [l \in 0 .. NROOTS - 1 |-> EvalTable(w, LAST, RootPowers[l])]
  BY <1>3 DEF Syndromes, Decoder, LAST
<1>6. w \in Row(LAST)
  BY <1>4, <1>5 DEF Decoder, LAST
<1>7. ASSUME NEW k \in 0 .. LAST
      PROVE  w[k] = Add(Word(b)[k], Noise(b)[k])
  <2>1. BLOCK - k \in 1 .. BLOCK /\ BLOCK - (BLOCK - k) = k /\ k \in 0 .. BLOCK - 1
        /\ (BLOCK - k) - 1 = LAST - k
    BY <1>1
  <2>2. w[k] = given[BLOCK - k]
    BY <2>1 DEF Reversed
  <2>3. Word(b)[k] = Encode(data[b + 1])[BLOCK - k]
    BY <2>1 DEF Reversed, Word
  <2>4. Noise(b)[k] = damage[b + ((BLOCK - k) - 1) * COUNT]
    BY <2>1 DEF Noise
  <2> QED  BY <1>2, <2>1, <2>2, <2>3, <2>4
<1> HIDE DEF w
<1>8. Terms(Noise(b), LAST)
  BY NoiseType
<1>9. Word(b) \in Row(LAST) /\ \A l \in 0 .. NROOTS - 1 : EvalTable(Word(b), LAST, RootPowers[l]) = 0
  BY WordType
<1>10. \A l \in 0 .. NROOTS - 1 : EvalTable(w, LAST, RootPowers[l]) = PowerSum(Errors(b), l)
  <2> TAKE l \in 0 .. NROOTS - 1
  <2>1. EvalTable(Word(b), LAST, RootPowers[l]) = 0
    BY <1>9
  <2>2. \A k \in 0 .. LAST : w[k] = Add(Word(b)[k], Noise(b)[k])
    BY <1>7
  <2>3. EvalTable(w, LAST, RootPowers[l]) = PowerSum(Weights(Noise(b)), l)
    BY <1>6, <1>8, <1>9, <2>1, <2>2, SyndromeSum
  <2> QED  BY <2>3 DEF Errors
<1>11. SumsOf(q.syndromes, Errors(b))
  BY <1>5, <1>10 DEF SumsOf
<1>12. \A k \in 0 .. LAST : q.received[k] = Add(Word(b)[k], Noise(b)[k])
  BY <1>5, <1>7
<1> QED  BY <1>4, <1>11, <1>12 DEF q, given

\* The message of a decoder that has the word again is the one that was sent.
LEMMA WordMessage ==
    ASSUME CodecInv, pc \in Decoding, NEW b \in 0 .. COUNT - 1, NEW r \in Decoder,
           \A k \in 0 .. LAST : r.received[k] = Word(b)[k]
    PROVE  MessageOf(r) = data[b + 1]
<1>1. LAST \in Nat /\ BLOCK \in Nat /\ LAST = BLOCK - 1 /\ MESSAGE <= BLOCK /\ MESSAGE \in Nat
  BY FieldSize DEF LAST
<1> DEFINE msg == data[b + 1]
<1>2. msg \in [1 .. MESSAGE -> Elements] /\ \A i \in 1 .. MESSAGE : Word(b)[BLOCK - i] = msg[i]
  BY WordType
<1>3. \A i \in 1 .. MESSAGE : BLOCK - i \in 0 .. LAST
  BY <1>1
<1>4. \A i \in 1 .. MESSAGE : r.received[BLOCK - i] = msg[i]
  BY <1>2, <1>3
<1> HIDE DEF msg
<1>5. MessageOf(r) = msg
  BY <1>2, <1>4 DEF MessageOf
<1> QED  BY <1>5 DEF msg

----------------------------------------------------------------------------
(***************************************************************************)
(* The inductive invariant of the correction.  Berlekamp-Massey keeps a    *)
(* locator that explains the syndromes seen so far, whatever errors they   *)
(* come from; the errors of the block are among these, and where they are  *)
(* no more than can be corrected nothing else is.                          *)
(***************************************************************************)
Received ==
    pc \in Decoding \ {"block"} =>
        \A k \in 0 .. LAST : rs.received[k] = Add(Word(block)[k], Noise(block)[k])

Locator ==
    /\ pc \in {"locator", "roots"} => SumsOf(rs.syndromes, Errors(block))
    /\ pc = "locator" /\ turn > 0 => Fits(rs, turn)
    /\ pc = "roots" => Fits(rs, NROOTS)

Located ==
    /\ pc = "values" /\ Light(block) => Solves(rs, Errors(block)) /\ Rooted(rs, Errors(block))
    /\ pc = "repair" /\ Light(block) => Mended(rs, Noise(block))

Restored ==
    /\ pc \in Decoding \cup {"delivered"} =>
          \A b \in 0 .. block - 1 : Light(b) => out[b + 1] = data[b + 1]
    /\ pc \in {"dropped", "overrun"} => \E b \in 0 .. COUNT - 1 : ~Light(b)

RepairInv == Received /\ Locator /\ Located /\ Restored

\* What a step leaves alone that belongs to the channel.
LEMMA SameChannel ==
    ASSUME UNCHANGED channel
    PROVE  \A b : Light(b)' = Light(b) /\ Noise(b)' = Noise(b) /\ Word(b)' = Word(b)
                  /\ Errors(b)' = Errors(b)
<1>1. data' = data /\ damage' = damage
  BY DEF channel
<1>2. \A b : Light(b)' = Light(b)
  BY <1>1 DEF Light, StruckIn
<1>3. \A b : Noise(b)' = Noise(b)
  BY <1>1 DEF Noise
<1>4. \A b : Word(b)' = Word(b)
  BY <1>1 DEF Word
<1>5. \A b : Errors(b)' = Errors(b)
  BY <1>1 DEF Errors, Noise
<1> QED  BY <1>2, <1>3, <1>4, <1>5

\* A block that is written as it was sent is one more block that was restored.
LEMMA WrittenRestored ==
    ASSUME CodecInv, RepairInv, pc \in Decoding, rs' \in Decoder, Written(rs'),
           UNCHANGED channel, Light(block) => MessageOf(rs') = data[block + 1]
    PROVE  RepairInv'
<1>1. /\ out' = Append(out, MessageOf(rs')) /\ block' = block + 1
      /\ pc' = IF block + 1 = COUNT THEN "delivered" ELSE "block"
  BY DEF Written
<1>2. block \in Nat /\ block < COUNT /\ COUNT \in Nat
  BY Cells DEF CodecInv, Types, Cursors
<1> DEFINE M == [1 .. MESSAGE -> Elements]
           m == MessageOf(rs')
<1>3. m \in M /\ out \in Seq(M) /\ Len(out) = block
  <2>1. m \in M
    BY MessageType
  <2>2. out \in [1 .. block -> M]
    BY DEF CodecInv, Delivery, Decoding
  <2> HIDE DEF M, m
  <2> QED  BY <1>2, <2>1, <2>2, FunctionIsSeq
<1>4. \A b : Light(b)' = Light(b)
  BY SameChannel
<1>5. \A b \in 0 .. block - 1 : Light(b) => out[b + 1] = data[b + 1]
  BY DEF RepairInv, Restored
<1>6. data' = data
  BY DEF channel
<1> HIDE DEF M, m
<1>7. ASSUME NEW b \in 0 .. block, Light(b)
      PROVE  Append(out, m)[b + 1] = data[b + 1]
  <2>1. CASE b = block
    <3>1. Append(out, m)[block + 1] = m
      BY <1>3
    <3> QED  BY <1>7, <2>1, <3>1 DEF m
  <2>2. CASE b # block
    <3>1. b \in 0 .. block - 1 /\ b + 1 \in 1 .. Len(out)
      BY <1>2, <1>3, <2>2
    <3>2. Append(out, m)[b + 1] = out[b + 1]
      BY <1>3, <3>1
    <3> QED  BY <1>5, <1>7, <3>1, <3>2
  <2> QED  BY <2>1, <2>2
<1>8. \A b \in 0 .. block' - 1 : Light(b)' => out'[b + 1] = data'[b + 1]
  <2>1. block' - 1 = block
    BY <1>1, <1>2
  <2> QED  BY <1>1, <1>4, <1>6, <1>7, <2>1 DEF m
<1>9. Restored'
  BY <1>1, <1>8 DEF Restored
<1>10. Received' /\ Locator' /\ Located'
  <2>1. pc' = "delivered" \/ pc' = "block"
    BY <1>1
  <2> QED  BY <2>1 DEF Received, Locator, Located, Decoding
<1> QED  BY <1>9, <1>10 DEF RepairInv

\* What was restored stays so while the next block is decoded.
LEMMA StillRestored ==
    ASSUME RepairInv, pc \in Decoding, pc' \in Decoding, UNCHANGED <<channel, block, out>>
    PROVE  Restored'
<1>1. block' = block /\ out' = out /\ data' = data
  BY DEF channel
<1>2. \A b : Light(b)' = Light(b)
  BY SameChannel
<1>3. \A b \in 0 .. block - 1 : Light(b) => out[b + 1] = data[b + 1]
  BY DEF RepairInv, Restored
<1>4. \A b \in 0 .. block' - 1 : Light(b)' => out'[b + 1] = data'[b + 1]
  BY <1>1, <1>2, <1>3
<1>5. pc' \notin {"dropped", "overrun"}
  BY DEF Decoding
<1> QED  BY <1>4, <1>5 DEF Restored

\* The syndromes of a block are those of its noise.
LEMMA BeginBlockRepair ==
    ASSUME CodecInv, RepairInv, BeginBlock
    PROVE  RepairInv'
<1>1. /\ pc = "block" /\ rs' = Syndromes(rs, Deinterleave(block))
      /\ pc' = "locator" /\ turn' = 0 /\ UNCHANGED <<channel, in, block, out>>
  BY DEF BeginBlock
<1>2. pc \in Decoding /\ pc' \in Decoding /\ block \in 0 .. COUNT - 1
  BY <1>1, Cells DEF CodecInv, Types, Cursors, Decoding
<1>3. /\ \A k \in 0 .. LAST : rs'.received[k] = Add(Word(block)[k], Noise(block)[k])
      /\ SumsOf(rs'.syndromes, Errors(block))
  BY <1>1, <1>2, GivenWord
<1>4. Word(block)' = Word(block) /\ Noise(block)' = Noise(block) /\ Errors(block)' = Errors(block)
  BY <1>1, SameChannel
<1>5. Restored'
  BY <1>1, <1>2, StillRestored
<1>6. Received'
  BY <1>3, <1>4 DEF Received
<1>7. Locator' /\ Located'
  BY <1>1, <1>3, <1>4 DEF Locator, Located
<1> QED  BY <1>5, <1>6, <1>7 DEF RepairInv

\* A block without a syndrome and with as many errors as can be corrected has none.
LEMMA CleanBlockRepair ==
    ASSUME CodecInv, RepairInv, CleanBlock
    PROVE  RepairInv'
<1>1. /\ pc = "block" /\ rs' = Syndromes(rs, Deinterleave(block)) /\ AllZero(rs')
      /\ Written(rs') /\ UNCHANGED <<channel, in, turn>>
  BY DEF CleanBlock
<1>2. pc \in Decoding /\ block \in 0 .. COUNT - 1
  BY <1>1, Cells DEF CodecInv, Types, Cursors, Decoding
<1>3. /\ rs' \in Decoder
      /\ \A k \in 0 .. LAST : rs'.received[k] = Add(Word(block)[k], Noise(block)[k])
      /\ SumsOf(rs'.syndromes, Errors(block))
  BY <1>1, <1>2, GivenWord
<1>4. ASSUME Light(block)
      PROVE  MessageOf(rs') = data[block + 1]
  <2>1. Terms(Errors(block), LAST) /\ Terms(Noise(block), LAST)
    BY <1>2, NoiseType
  <2>2. Cardinality(Support(Errors(block))) <= NROOTS
    <3>1. 2 * Cardinality(Support(Errors(block))) <= NROOTS
      BY <1>2, <1>4, LightErrors
    <3>2. Cardinality(Support(Errors(block))) \in Nat
      BY SupportFinite
    <3> QED  BY <3>1, <3>2, FieldSize
  <2>3. Vanish(Errors(block), 0, NROOTS)
    <3>1. \A i \in 0 .. NROOTS - 1 : PowerSum(Errors(block), i) = 0
      BY <1>1, <1>3 DEF AllZero, SumsOf
    <3>2. \A i \in 0 .. NROOTS - 1 : 0 + i = i
      BY FieldSize
    <3> QED  BY <3>1, <3>2 DEF Vanish
  <2>4. \A m \in 0 .. LAST : Errors(block)[m] = 0
    <3>1. NROOTS \in Nat /\ 0 \in Nat
      BY FieldSize
    <3> QED  BY <2>1, <2>2, <2>3, <3>1, Vandermonde
  <2>5. \A m \in 0 .. LAST : Noise(block)[m] = 0
    BY <2>1, <2>4, WeightsType DEF Errors
  <2>6. Terms(Word(block), LAST)
    BY <1>2, WordType
  <2>7. \A k \in 0 .. LAST : rs'.received[k] = Word(block)[k]
    <3> TAKE k \in 0 .. LAST
    <3> DEFINE x == Word(block)[k]
    <3>1. rs'.received[k] = Add(x, 0) /\ x \in Elements
      BY <1>3, <2>5, <2>6 DEF Terms
    <3> HIDE DEF x
    <3>2. Add(x, 0) = x
      BY <3>1, AddGroup
    <3> QED  BY <3>1, <3>2 DEF x
  <2> QED  BY <1>2, <1>3, <2>7, WordMessage
<1> QED  BY <1>1, <1>2, <1>3, <1>4, WrittenRestored

\* Every turn keeps what the locator explains.
LEMMA FindLocatorRepair ==
    ASSUME CodecInv, RepairInv, FindLocator
    PROVE  RepairInv'
<1> DEFINE r == IF turn = 0 THEN LocatorInit(rs) ELSE rs
<1>1. /\ pc = "locator" /\ rs' = LocatorTurn(r, turn) /\ turn' = turn + 1
      /\ pc' = IF turn + 1 = NROOTS THEN "roots" ELSE pc
      /\ UNCHANGED <<channel, in, block, out>>
  BY DEF FindLocator
<1>2. /\ pc \in Decoding /\ pc' \in {"locator", "roots"} /\ pc' \in Decoding
      /\ turn \in 0 .. NROOTS - 1 /\ rs \in Decoder
  BY <1>1, FieldSize DEF CodecInv, Types, Cursors, Decoding
<1>3. r \in Decoder /\ Progress(r, turn) /\ r.syndromes = rs.syndromes
  <2>1. CASE turn = 0
    BY <1>2, <2>1, LocatorInitType
  <2>2. CASE turn # 0
    BY <1>1, <1>2, <2>2 DEF CodecInv, Cursors
  <2> QED  BY <2>1, <2>2
<1>4. r.received = rs.received /\ Fits(r, turn)
  <2>1. CASE turn = 0
    <3>1. r = LocatorInit(rs)
      BY <2>1
    <3> HIDE DEF r
    <3>2. ASSUME NEW y \in Row(LAST), SumsOf(r.syndromes, y)
          PROVE  Explains(r, y, 0)
      <4>1. Terms(y, LAST)
        BY DEF Row, Terms
      <4>2. SumsOf(rs.syndromes, y)
        BY <1>3, <3>2
      <4> QED  BY <1>2, <3>1, <4>1, <4>2, ExplainsInit
    <3>3. r.received = rs.received
      BY <1>2, <3>1 DEF LocatorInit, Decoder
    <3> QED  BY <2>1, <3>2, <3>3 DEF Fits
  <2>2. CASE turn # 0
    BY <1>1, <1>2, <2>2 DEF RepairInv, Locator
  <2> QED  BY <2>1, <2>2
<1> HIDE DEF r
<1>5. rs'.syndromes = rs.syndromes
  BY <1>1, <1>2, <1>3, LocatorTurnType
<1>6. SumsOf(rs.syndromes, Errors(block)) /\ Errors(block) \in Row(LAST)
  <2>1. block \in 0 .. COUNT - 1
    BY <1>1, Cells DEF CodecInv, Types, Cursors, Decoding
  <2> QED  BY <1>1, <2>1, NoiseType DEF RepairInv, Locator
<1>7. Fits(rs', turn + 1)
  <2> SUFFICES ASSUME NEW y \in Row(LAST), SumsOf(rs'.syndromes, y)
               PROVE  Explains(rs', y, turn + 1)
    BY DEF Fits
  <2>1. Explains(r, y, turn)
    BY <1>3, <1>4, <1>5 DEF Fits
  <2> QED  BY <1>1, <1>2, <1>3, <2>1, TurnExplains
<1>8. rs'.received = rs.received
  <2>1. Explains(r, Errors(block), turn)
    BY <1>3, <1>4, <1>6 DEF Fits
  <2> QED  BY <1>1, <1>2, <1>3, <1>4, <2>1, TurnExplains
<1>9. Word(block)' = Word(block) /\ Noise(block)' = Noise(block) /\ Errors(block)' = Errors(block)
  BY <1>1, SameChannel
<1>10. Received'
  <2>1. \A k \in 0 .. LAST : rs.received[k] = Add(Word(block)[k], Noise(block)[k])
    BY <1>1 DEF RepairInv, Received, Decoding
  <2> QED  BY <1>8, <1>9, <2>1 DEF Received
<1>11. Locator'
  <2>1. CASE turn + 1 = NROOTS
    <3>1. pc' = "roots" /\ Fits(rs', NROOTS)
      BY <1>1, <1>7, <2>1
    <3> QED  BY <1>5, <1>6, <1>9, <3>1 DEF Locator, Fits
  <2>2. CASE turn + 1 # NROOTS
    <3>1. pc' = "locator" /\ Fits(rs', turn')
      BY <1>1, <1>7, <2>2
    <3> QED  BY <1>5, <1>6, <1>9, <3>1 DEF Locator, Fits
  <2> QED  BY <2>1, <2>2
<1>12. Located'
  BY <1>2 DEF Located
<1>13. Restored'
  BY <1>1, <1>2, StillRestored
<1> QED  BY <1>10, <1>11, <1>12, <1>13 DEF RepairInv

\* The search finds the roots of the errors and nothing else, and does not give up.
LEMMA FindRootsRepair ==
    ASSUME CodecInv, RepairInv, FindRoots \/ OverrunRoots
    PROVE  RepairInv'
<1>1. pc = "roots" /\ UNCHANGED <<channel, in, block, turn, out>>
  BY SearchSteps
<1>2. PICK found \in Found(rs) :
          /\ rs' = Factorize(rs, found)
          /\ pc' \in {"values", "dropped", "overrun"}
          /\ Cardinality(found) <= 2 * NROOTS /\ Cardinality(found) = rs.order => pc' = "values"
  <2>1. PICK found \in Found(rs) :
            /\ rs' = Factorize(rs, found)
            /\ \/ /\ Cardinality(found) <= 2 * NROOTS
                  /\ pc' = IF Cardinality(found) = rs.order THEN "values" ELSE "dropped"
               \/ Cardinality(found) > 2 * NROOTS /\ pc' = "overrun"
    BY SearchSteps
  <2>2. Cardinality(found) \in Nat /\ NROOTS \in Nat
    BY FoundType, FieldSize
  <2> QED  BY <2>1, <2>2
<1>3. pc \in Decoding /\ rs \in Decoder /\ block \in 0 .. COUNT - 1
  BY <1>1, Cells DEF CodecInv, Types, Cursors, Decoding
<1>4. Word(block)' = Word(block) /\ Noise(block)' = Noise(block) /\ Errors(block)' = Errors(block)
      /\ \A b : Light(b)' = Light(b)
  BY <1>1, SameChannel
<1>5. ASSUME Light(block)
      PROVE  pc' = "values" /\ Solves(rs', Errors(block)) /\ Rooted(rs', Errors(block))
  <2>1. Explains(rs, Errors(block), NROOTS)
    <3>1. Errors(block) \in Row(LAST)
      BY <1>3, NoiseType
    <3>2. SumsOf(rs.syndromes, Errors(block)) /\ Fits(rs, NROOTS)
      BY <1>1 DEF RepairInv, Locator
    <3> QED  BY <3>1, <3>2 DEF Fits
  <2>2. 2 * Cardinality(Support(Errors(block))) <= NROOTS
    BY <1>3, <1>5, LightErrors
  <2>3. Solves(rs, Errors(block))
    BY <1>3, <2>1, <2>2, ExplainsSolves
  <2>4. Found(rs) = {Errata(Errors(block))} /\ Cardinality(Errata(Errors(block))) = rs.order
    BY <1>3, <2>3, FoundErrata
  <2>5. found = Errata(Errors(block))
    BY <2>4
  <2>6. Cardinality(found) <= 2 * NROOTS
    <3>1. rs.order \in 1 .. NROOTS /\ NROOTS \in Nat
      BY <1>1, <1>3, FieldSize, OrderOfLocator DEF CodecInv, Cursors
    <3> QED  BY <2>4, <2>5, <3>1
  <2> QED  BY <1>2, <1>3, <2>3, <2>4, <2>5, <2>6, FactorizeRooted
<1>6. rs'.received = rs.received
  <2>1. found \in SUBSET Elements
    BY FoundType
  <2> QED  BY <1>2, <1>3, <2>1, FactorizeType
<1>7. Received'
  <2>1. \A k \in 0 .. LAST : rs.received[k] = Add(Word(block)[k], Noise(block)[k])
    BY <1>1 DEF RepairInv, Received, Decoding
  <2>2. block' = block
    BY <1>1
  <2> QED  BY <1>4, <1>6, <2>1, <2>2 DEF Received
<1>8. Locator'
  BY <1>2 DEF Locator
<1>9. Located'
  <2>1. pc' # "repair" /\ block' = block /\ Light(block)' = Light(block)
    BY <1>1, <1>2, <1>4
  <2> QED  BY <1>4, <1>5, <2>1 DEF Located
<1>10. Restored'
  <2>1. CASE pc' = "values"
    BY <1>1, <1>3, <2>1, StillRestored DEF Decoding
  <2>2. CASE pc' \in {"dropped", "overrun"}
    <3>1. ~Light(block)
      BY <1>5, <2>2
    <3>2. ~Light(block)' /\ pc' \notin Decoding \cup {"delivered"}
      BY <1>1, <1>4, <2>2, <3>1 DEF Decoding
    <3>3. \E b \in 0 .. COUNT - 1 : ~Light(b)'
      BY <1>3, <1>4, <3>1
    <3> QED  BY <3>2, <3>3 DEF Restored
  <2> QED  BY <1>2, <2>1, <2>2
<1> QED  BY <1>7, <1>8, <1>9, <1>10 DEF RepairInv

\* The values are the errors of the block, when they are few.
LEMMA FindValuesRepair ==
    ASSUME CodecInv, RepairInv, FindValues
    PROVE  RepairInv'
<1>1. /\ pc = "values" /\ pc' = "repair" /\ rs' = Values(Locations(rs))
      /\ UNCHANGED <<channel, in, block, out>>
  BY DEF FindValues
<1>2. /\ pc \in Decoding /\ pc' \in Decoding /\ rs \in Decoder /\ rs.order \in 1 .. NROOTS
      /\ block \in 0 .. COUNT - 1
  BY <1>1, Cells DEF CodecInv, Types, Cursors, Decoding
<1>3. /\ Word(block)' = Word(block) /\ Noise(block)' = Noise(block) /\ Light(block)' = Light(block)
      /\ block' = block
  BY <1>1, SameChannel
<1>4. rs'.received = rs.received
  <2> DEFINE q == Locations(rs)
  <2>1. q \in Decoder /\ q.order \in 1 .. NROOTS /\ q.received = rs.received
    BY <1>2, LocationsType
  <2>2. rs' = Values(q)
    BY <1>1
  <2> HIDE DEF q
  <2> QED  BY <2>1, <2>2, ValuesType
<1>5. ASSUME Light(block)
      PROVE  Mended(rs', Noise(block))
  <2>1. Solves(rs, Weights(Noise(block))) /\ Rooted(rs, Weights(Noise(block)))
    BY <1>1, <1>5 DEF RepairInv, Located, Errors
  <2>2. Terms(Noise(block), LAST)
    BY <1>2, NoiseType
  <2> QED  BY <1>1, <1>2, <2>1, <2>2, ValuesMended
<1>6. Received'
  <2>1. \A k \in 0 .. LAST : rs.received[k] = Add(Word(block)[k], Noise(block)[k])
    BY <1>1 DEF RepairInv, Received, Decoding
  <2> QED  BY <1>3, <1>4, <2>1 DEF Received
<1>7. Locator' /\ Located'
  BY <1>1, <1>3, <1>5 DEF Locator, Located
<1>8. Restored'
  BY <1>1, <1>2, StillRestored
<1> QED  BY <1>6, <1>7, <1>8 DEF RepairInv

\* A block with few errors is restored.
LEMMA RepairBlockRepair ==
    ASSUME CodecInv, RepairInv, RepairBlock
    PROVE  RepairInv'
<1>1. /\ pc = "repair" /\ rs' = Repair(rs) /\ Written(rs')
      /\ UNCHANGED <<channel, in, turn>>
  BY DEF RepairBlock
<1>2. /\ pc \in Decoding /\ rs \in Decoder /\ rs.order \in 1 .. NROOTS
      /\ block \in 0 .. COUNT - 1
  BY <1>1, Cells DEF CodecInv, Types, Cursors, Decoding
<1>3. rs' \in Decoder
  BY <1>1, <1>2, RepairType
<1>4. ASSUME Light(block)
      PROVE  MessageOf(rs') = data[block + 1]
  <2>1. Mended(rs, Noise(block))
    BY <1>1, <1>4 DEF RepairInv, Located
  <2>2. Terms(Noise(block), LAST) /\ Terms(Word(block), LAST)
    BY <1>2, NoiseType, WordType
  <2>3. \A k \in 0 .. LAST : rs.received[k] = Add(Word(block)[k], Noise(block)[k])
    BY <1>1 DEF RepairInv, Received, Decoding
  <2>4. \A k \in 0 .. LAST : rs'.received[k] = Word(block)[k]
    BY <1>1, <1>2, <2>1, <2>2, <2>3, RepairMends
  <2> QED  BY <1>2, <1>3, <2>4, WordMessage
<1> QED  BY <1>1, <1>2, <1>3, <1>4, WrittenRestored

\* Before a frame is decoded there is nothing to say.
LEMMA OutsideRepair ==
    ASSUME pc' \in {"receive", "air"} \/ (pc' = "block" /\ block' = 0)
    PROVE  RepairInv'
<1>1. Received' /\ Locator' /\ Located'
  BY DEF Received, Locator, Located, Decoding
<1>2. Restored'
  BY DEF Restored, Decoding
<1> QED  BY <1>1, <1>2 DEF RepairInv

\* A step that changes nothing.
LEMMA StutterRepair ==
    ASSUME RepairInv, UNCHANGED vars
    PROVE  RepairInv'
<1>1. /\ pc' = pc /\ block' = block /\ turn' = turn /\ rs' = rs /\ out' = out
      /\ data' = data /\ UNCHANGED channel
  BY DEF vars, channel
<1>2. \A b : Light(b)' = Light(b) /\ Noise(b)' = Noise(b) /\ Word(b)' = Word(b)
              /\ Errors(b)' = Errors(b)
  BY <1>1, SameChannel
<1>3. /\ Light(block)' = Light(block) /\ Noise(block)' = Noise(block)
      /\ Word(block)' = Word(block) /\ Errors(block)' = Errors(block)
  BY <1>1, <1>2
<1>4. Received' /\ Locator' /\ Located'
  BY <1>1, <1>3 DEF RepairInv, Received, Locator, Located, Fits
<1>5. Restored'
  BY <1>1, <1>2 DEF RepairInv, Restored
<1> QED  BY <1>4, <1>5 DEF RepairInv

\* The two invariants together are inductive.
THEOREM CodecRepairs == Spec => []RepairInv
<1>1. Init => RepairInv
  <2> SUFFICES ASSUME Init PROVE RepairInv
    OBVIOUS
  <2> QED  BY DEF Init, RepairInv, Received, Locator, Located, Restored, Decoding
<1>2. ASSUME CodecInv, RepairInv, [Next]_vars
      PROVE  RepairInv'
  <2>1. CASE Send \/ Hit
    <3>1. pc' = "air"
      BY <2>1 DEF Send, Hit
    <3> QED  BY <3>1, OutsideRepair
  <2>2. CASE Receive
    <3>1. pc' = "block" /\ block' = 0
      BY <1>2, <2>2 DEF Receive, CodecInv, Delivery
    <3> QED  BY <3>1, OutsideRepair
  <2>3. CASE BeginBlock
    BY <1>2, <2>3, BeginBlockRepair
  <2>4. CASE CleanBlock
    BY <1>2, <2>4, CleanBlockRepair
  <2>5. CASE FindLocator
    BY <1>2, <2>5, FindLocatorRepair
  <2>6. CASE FindRoots \/ OverrunRoots
    BY <1>2, <2>6, FindRootsRepair
  <2>7. CASE FindValues
    BY <1>2, <2>7, FindValuesRepair
  <2>8. CASE RepairBlock
    BY <1>2, <2>8, RepairBlockRepair
  <2>9. CASE Finished \/ UNCHANGED vars
    BY <1>2, <2>9, StutterRepair DEF Finished
  <2> QED  BY <1>2, <2>1, <2>2, <2>3, <2>4, <2>5, <2>6, <2>7, <2>8, <2>9 DEF Next
<1> QED  BY <1>1, <1>2, CodecInvariance, PTL DEF Spec

\* A frame with no more wrong symbols in a block than half the symbols of parity is
\* delivered as it was sent, in every field, with every generator and in any number of
\* blocks, whatever an earlier frame left in the decoder.
THEOREM CodecCorrected == Spec => []Corrected
<1>1. CodecInv /\ RepairInv => Corrected
  <2> SUFFICES ASSUME CodecInv, RepairInv PROVE Corrected
    OBVIOUS
  <2>1. \A b \in 0 .. COUNT - 1 : Light(b) <=> ~(Cardinality(StruckIn(b)) > Radius)
    <3> TAKE b \in 0 .. COUNT - 1
    <3>1. Cardinality(StruckIn(b)) \in Nat
      BY NoiseCount
    <3>2. Radius \in Int
      BY FieldSize DEF Radius
    <3> QED  BY <3>1, <3>2 DEF Light
  <2>2. pc \in {"dropped", "overrun"} => \E b \in 0 .. COUNT - 1 : Cardinality(StruckIn(b)) > Radius
    BY <2>1 DEF RepairInv, Restored
  <2>3. ASSUME pc = "delivered", \A b \in 0 .. COUNT - 1 : Light(b)
        PROVE  out = data
    <3>1. block = COUNT /\ COUNT \in Nat
      BY <2>3, Cells DEF CodecInv, Delivery
    <3>2. out \in [1 .. COUNT -> [1 .. MESSAGE -> Elements]]
      BY <2>3, <3>1 DEF CodecInv, Delivery
    <3>3. data \in [1 .. COUNT -> [1 .. MESSAGE -> Elements]]
      BY <2>3, FrameCodecAssumption DEF CodecInv, Delivery
    <3>4. \A b \in 0 .. COUNT - 1 : out[b + 1] = data[b + 1]
      BY <2>3, <3>1 DEF RepairInv, Restored
    <3>5. \A i \in 1 .. COUNT : out[i] = data[i]
      <4> TAKE i \in 1 .. COUNT
      <4>1. i - 1 \in 0 .. COUNT - 1 /\ (i - 1) + 1 = i
        BY <3>1
      <4>2. out[(i - 1) + 1] = data[(i - 1) + 1]
        BY <3>4, <4>1
      <4> QED  BY <4>1, <4>2
    <3> DEFINE S == 1 .. COUNT
               M == [1 .. MESSAGE -> Elements]
    <3>6. out \in [S -> M] /\ data \in [S -> M] /\ \A i \in S : out[i] = data[i]
      BY <3>2, <3>3, <3>5
    <3> HIDE DEF S, M
    <3> QED  BY <3>6
  <2> QED  BY <2>2, <2>3 DEF Corrected, Light
<1> QED  BY <1>1, CodecInvariance, CodecRepairs, PTL

----------------------------------------------------------------------------
(***************************************************************************)
(* The inductive invariant of the repair, for a block that was struck too  *)
(* often as well as for one that was not.  It rests on RepairInv: there    *)
(* are errors that explain the syndromes, those of the channel, and so     *)
(* what Berlekamp-Massey says of any such errors is not said of nothing.   *)
(***************************************************************************)
WordInv ==
    /\ pc \in Decoding \ {"block"} => Matches(rs)
    /\ pc = "values" /\ rs.order < NROOTS =>
          \E y \in Row(LAST) : Solves(rs, y) /\ Rooted(rs, y)
    /\ pc = "repair" /\ rs.order < NROOTS =>
          \E e \in Row(LAST) : Mended(rs, e) /\ SumsOf(rs.syndromes, Weights(e))

\* The syndromes are those of what was received.
LEMMA BeginBlockWord ==
    ASSUME CodecInv, BeginBlock
    PROVE  WordInv'
<1>1. pc = "block" /\ rs' = Syndromes(rs, Deinterleave(block)) /\ pc' = "locator"
  BY DEF BeginBlock
<1>2. pc \in Decoding /\ block \in 0 .. COUNT - 1 /\ rs \in Decoder
  BY <1>1, Cells DEF CodecInv, Types, Cursors, Decoding
<1>3. Matches(rs')
  <2>1. Deinterleave(block) \in [1 .. BLOCK -> Elements]
    BY <1>2, DeinterleaveType
  <2> QED  BY <1>1, <1>2, <2>1, SyndromesType DEF Matches
<1> QED  BY <1>1, <1>3 DEF WordInv, Matches

\* A turn leaves the syndromes.
LEMMA FindLocatorWord ==
    ASSUME CodecInv, RepairInv, WordInv, FindLocator
    PROVE  WordInv'
<1> DEFINE r == IF turn = 0 THEN LocatorInit(rs) ELSE rs
<1>1. /\ pc = "locator" /\ rs' = LocatorTurn(r, turn) /\ turn' = turn + 1
      /\ pc' \in {"locator", "roots"}
  BY DEF FindLocator
<1>2. turn \in 0 .. NROOTS - 1 /\ rs \in Decoder
  BY <1>1, FieldSize DEF CodecInv, Types, Cursors, Decoding
<1>3. r \in Decoder /\ Progress(r, turn) /\ r.syndromes = rs.syndromes
  <2>1. CASE turn = 0
    BY <1>2, <2>1, LocatorInitType
  <2>2. CASE turn # 0
    BY <1>1, <1>2, <2>2 DEF CodecInv, Cursors
  <2> QED  BY <2>1, <2>2
<1>4. SumsOf(rs.syndromes, Errors(block)) /\ Errors(block) \in Row(LAST)
  <2>1. block \in 0 .. COUNT - 1
    BY <1>1, Cells DEF CodecInv, Types, Cursors, Decoding
  <2> QED  BY <1>1, <2>1, NoiseType DEF RepairInv, Locator
<1>5. r.received = rs.received /\ Explains(r, Errors(block), turn)
  <2>1. CASE turn = 0
    <3>1. r = LocatorInit(rs) /\ Terms(Errors(block), LAST)
      BY <1>4, <2>1 DEF Row, Terms
    <3> HIDE DEF r
    <3> QED  BY <1>2, <1>4, <2>1, <3>1, ExplainsInit
  <2>2. CASE turn # 0
    BY <1>1, <1>2, <1>4, <2>2 DEF RepairInv, Locator, Fits
  <2> QED  BY <2>1, <2>2
<1> HIDE DEF r
<1>6. rs'.syndromes = rs.syndromes
  BY <1>1, <1>2, <1>3, LocatorTurnType
<1>7. rs'.received = rs.received
  BY <1>1, <1>2, <1>3, <1>5, TurnExplains
<1>8. Matches(rs)
  BY <1>1 DEF WordInv, Decoding
<1>9. Matches(rs')
  BY <1>6, <1>7, <1>8 DEF Matches
<1> QED  BY <1>1, <1>9 DEF WordInv, Matches

\* Roots that are found stand for errors that explain the syndromes.
LEMMA FindRootsWord ==
    ASSUME CodecInv, RepairInv, WordInv, FindRoots \/ OverrunRoots
    PROVE  WordInv'
<1>1. pc = "roots"
  BY SearchSteps
<1>2. PICK found \in Found(rs) :
          /\ rs' = Factorize(rs, found)
          /\ pc' \in {"values", "dropped", "overrun"}
          /\ pc' = "values" => Cardinality(found) = rs.order
  BY SearchSteps
<1>3. pc \in Decoding /\ rs \in Decoder /\ block \in 0 .. COUNT - 1
  BY <1>1, Cells DEF CodecInv, Types, Cursors, Decoding
<1>4. rs'.received = rs.received /\ rs'.syndromes = rs.syndromes /\ rs'.order = rs.order
  <2>1. found \in SUBSET Elements
    BY FoundType
  <2> QED  BY <1>2, <1>3, <2>1, FactorizeType
<1>5. Matches(rs')
  <2>1. Matches(rs)
    BY <1>1 DEF WordInv, Decoding
  <2> QED  BY <1>4, <2>1 DEF Matches
<1>6. ASSUME pc' = "values", rs.order < NROOTS
      PROVE  \E y \in Row(LAST) : Solves(rs', y) /\ Rooted(rs', y)
  <2>1. Fits(rs, NROOTS) /\ SumsOf(rs.syndromes, Errors(block))
    BY <1>1 DEF RepairInv, Locator
  <2>2. Errors(block) \in Row(LAST)
    BY <1>3, NoiseType
  <2>3. Cardinality(found) = rs.order
    BY <1>2, <1>6
  <2>4. PICK y \in Row(LAST) : Solves(rs, y) /\ Errata(y) = found
    BY <1>3, <1>6, <2>1, <2>2, <2>3, Credible
  <2>5. rs' = Factorize(rs, Errata(y))
    BY <1>2, <2>4
  <2> QED  BY <1>3, <2>4, <2>5, FactorizeRooted
<1>7. pc' \in {"values", "dropped", "overrun"}
  BY <1>2
<1> QED  BY <1>4, <1>5, <1>6, <1>7 DEF WordInv, Matches

\* The values are these errors.
LEMMA FindValuesWord ==
    ASSUME CodecInv, WordInv, FindValues
    PROVE  WordInv'
<1>1. pc = "values" /\ pc' = "repair" /\ rs' = Values(Locations(rs))
  BY DEF FindValues
<1>2. rs \in Decoder /\ rs.order \in 1 .. NROOTS
  BY <1>1 DEF CodecInv, Types, Cursors
<1>3. rs'.received = rs.received /\ rs'.syndromes = rs.syndromes /\ rs'.order = rs.order
  <2> DEFINE q == Locations(rs)
  <2>1. q \in Decoder /\ q.order = rs.order /\ q.received = rs.received /\ q.syndromes = rs.syndromes
    BY <1>2, LocationsType
  <2>2. rs' = Values(q)
    BY <1>1
  <2> HIDE DEF q
  <2>3. q.order \in 1 .. NROOTS
    BY <1>2, <2>1
  <2> QED  BY <2>1, <2>2, <2>3, ValuesType
<1>4. Matches(rs')
  <2>1. Matches(rs)
    BY <1>1 DEF WordInv, Decoding
  <2> QED  BY <1>3, <2>1 DEF Matches
<1>5. ASSUME rs.order < NROOTS
      PROVE  \E e \in Row(LAST) : Mended(rs', e) /\ SumsOf(rs'.syndromes, Weights(e))
  <2>1. PICK y \in Row(LAST) : Solves(rs, y) /\ Rooted(rs, y)
    BY <1>1, <1>5 DEF WordInv
  <2>2. PICK e \in Row(LAST) : Terms(e, LAST) /\ Weights(e) = y
    BY Unweighted
  <2>3. Mended(rs', e)
    BY <1>1, <1>2, <2>1, <2>2, ValuesMended
  <2>4. SumsOf(rs'.syndromes, Weights(e))
    BY <1>3, <2>1, <2>2 DEF Solves
  <2> QED  BY <2>3, <2>4
<1> QED  BY <1>1, <1>3, <1>4, <1>5 DEF WordInv, Matches

\* Outside a block there is nothing to keep.
LEMMA WrittenWord ==
    ASSUME pc' \notin Decoding \ {"block"}
    PROVE  WordInv'
BY DEF WordInv, Decoding

\* A step that changes nothing.
LEMMA StutterWord ==
    ASSUME WordInv, UNCHANGED vars
    PROVE  WordInv'
<1>1. pc' = pc /\ rs' = rs
  BY DEF vars
<1> QED  BY <1>1 DEF WordInv, Matches

\* The three invariants together are inductive.
THEOREM CodecWordInvariance == Spec => []WordInv
<1>1. Init => WordInv
  BY DEF Init, WordInv, Decoding
<1>2. ASSUME CodecInv, RepairInv, WordInv, [Next]_vars
      PROVE  WordInv'
  <2>1. CASE Send \/ Hit \/ Receive
    <3>1. pc' = "air" \/ pc' = "block"
      BY <2>1 DEF Send, Hit, Receive
    <3> QED  BY <3>1, WrittenWord DEF Decoding
  <2>2. CASE BeginBlock
    BY <1>2, <2>2, BeginBlockWord
  <2>3. CASE CleanBlock \/ RepairBlock
    <3>1. pc' = "delivered" \/ pc' = "block"
      BY <2>3 DEF CleanBlock, RepairBlock, Written
    <3> QED  BY <3>1, WrittenWord DEF Decoding
  <2>4. CASE FindLocator
    BY <1>2, <2>4, FindLocatorWord
  <2>5. CASE FindRoots \/ OverrunRoots
    BY <1>2, <2>5, FindRootsWord
  <2>6. CASE FindValues
    BY <1>2, <2>6, FindValuesWord
  <2>7. CASE Finished \/ UNCHANGED vars
    BY <1>2, <2>7, StutterWord DEF Finished
  <2> QED  BY <1>2, <2>1, <2>2, <2>3, <2>4, <2>5, <2>6, <2>7 DEF Next
<1> QED  BY <1>1, <1>2, CodecInvariance, CodecRepairs, PTL DEF Spec

\* What the decoder repairs is a word of the code, however many symbols of the block are
\* wrong: it may take the block for another one, but where its locator is short enough for
\* its tables, what it leaves has no syndrome but 0 (decode.c:365-378).
THEOREM CodecRepairedIsWord == Spec => RepairedIsWord
<1>1. ASSUME CodecInv, WordInv, RepairBlock, rs.order < NROOTS
      PROVE  IsWord(rs'.received)
  <2>1. pc = "repair" /\ rs' = Repair(rs)
    BY <1>1 DEF RepairBlock
  <2>2. rs \in Decoder /\ rs.order \in 1 .. NROOTS
    BY <1>1, <2>1 DEF CodecInv, Types, Cursors
  <2>3. PICK e \in Row(LAST) : Mended(rs, e) /\ SumsOf(rs.syndromes, Weights(e))
    BY <1>1, <2>1 DEF WordInv
  <2>4. Matches(rs)
    BY <1>1, <2>1 DEF WordInv, Decoding
  <2> QED  BY <2>1, <2>2, <2>3, <2>4, RepairWord
<1>2. CodecInv /\ WordInv => [RepairBlock /\ rs.order < NROOTS => IsWord(rs'.received)]_vars
  BY <1>1
<1> QED  BY <1>2, CodecInvariance, CodecWordInvariance, PTL DEF RepairedIsWord

----------------------------------------------------------------------------
(***************************************************************************)
(* The roots that the search wrote.  A locator begins with 1, and has no   *)
(* more roots than its order as long as the search evaluates it with all   *)
(* of its powers: it is only one of order NROOTS that it does not.         *)
(***************************************************************************)
Fitting ==
    pc \in {"values", "repair", "dropped", "overrun"} =>
        \/ rs.numroots <= rs.order
        \/ rs.order = NROOTS /\ (rs.numroots <= 2 * NROOTS \/ pc = "overrun")

\* The search counts what it writes.
LEMMA FindRootsFitting ==
    ASSUME CodecInv, RepairInv, FindRoots \/ OverrunRoots
    PROVE  Fitting'
<1>1. pc = "roots"
  BY SearchSteps
<1>2. PICK found \in Found(rs) :
          /\ rs' = Factorize(rs, found)
          /\ \/ Cardinality(found) <= 2 * NROOTS
             \/ pc' = "overrun"
  BY SearchSteps
<1>3. rs \in Decoder /\ block \in 0 .. COUNT - 1 /\ rs.order \in 1 .. NROOTS
  BY <1>1, Cells, OrderOfLocator DEF CodecInv, Types, Cursors, Decoding
<1>4. rs'.numroots = Cardinality(found) /\ rs'.order = rs.order
  <2>1. rs'.order = rs.order
    BY <1>2, <1>3, FoundType, FactorizeType
  <2>2. rs'.numroots = Cardinality(found)
    BY <1>2, <1>3 DEF Factorize, Decoder
  <2> QED  BY <2>1, <2>2
<1>5. CASE rs.order = NROOTS
  BY <1>2, <1>4, <1>5 DEF Fitting
<1>6. CASE rs.order < NROOTS
  <2> DEFINE L == rs.order
             c == rs.locator
  <2>1. L \in 0 .. NROOTS /\ L \in Nat
    BY <1>3, FieldSize
  <2>2. Terms(c, L)
    BY <1>3, <2>1, LocatorTerms
  <2>3. c[0] = 1
    <3>1. Errors(block) \in Row(LAST)
      BY <1>3, NoiseType
    <3>2. SumsOf(rs.syndromes, Errors(block)) /\ Fits(rs, NROOTS)
      BY <1>1 DEF RepairInv, Locator
    <3> QED  BY <3>1, <3>2 DEF Fits, Explains
  <2>4. found = RootsOf(c, L)
    BY <1>2, <1>3, <1>6, <2>3, FoundRoots
  <2> HIDE DEF L, c
  <2>5. Cardinality(found) <= L
    <3>1. 1 # 0
      OBVIOUS
    <3> QED  BY <2>1, <2>2, <2>3, <2>4, <3>1, RootCount DEF Bounded
  <2> QED  BY <1>4, <2>5 DEF Fitting, L
<1> QED  BY <1>3, <1>5, <1>6, FieldSize

\* The values are computed for the roots that were found.
LEMMA FindValuesFitting ==
    ASSUME CodecInv, Fitting, FindValues
    PROVE  Fitting'
<1>1. pc = "values" /\ pc' = "repair" /\ rs' = Values(Locations(rs)) /\ rs \in Decoder
  BY DEF FindValues, CodecInv, Types
<1> DEFINE q == Locations(rs)
<1>2. q.numroots = rs.numroots /\ q.order = rs.order /\ q \in Decoder
  <2>1. q.numroots = rs.numroots
    BY <1>1 DEF Locations, Decoder
  <2> QED  BY <1>1, <2>1, LocationsType DEF CodecInv, Cursors
<1>3. rs' = Values(q)
  BY <1>1
<1> HIDE DEF q
<1>4. rs'.numroots = rs.numroots /\ rs'.order = rs.order
  BY <1>2, <1>3 DEF Values, Decoder
<1> QED  BY <1>1, <1>4 DEF Fitting

\* In every state.
LEMMA CodecFits == Spec => []Fitting
<1>1. Init => Fitting
  BY DEF Init, Fitting
<1>2. ASSUME CodecInv, RepairInv, Fitting, [Next]_vars
      PROVE  Fitting'
  <2>1. CASE Send \/ Hit \/ Receive \/ BeginBlock \/ CleanBlock \/ FindLocator \/ RepairBlock
    <3>1. pc' \in {"air", "block", "locator", "roots", "delivered"}
      BY <2>1 DEF Send, Hit, Receive, BeginBlock, CleanBlock, FindLocator, RepairBlock, Written
    <3> QED  BY <3>1 DEF Fitting
  <2>2. CASE FindRoots \/ OverrunRoots
    BY <1>2, <2>2, FindRootsFitting
  <2>3. CASE FindValues
    BY <1>2, <2>3, FindValuesFitting
  <2>4. CASE Finished \/ UNCHANGED vars
    BY <1>2, <2>4 DEF Finished, vars, Fitting
  <2> QED  BY <1>2, <2>1, <2>2, <2>3, <2>4 DEF Next
<1> QED  BY <1>1, <1>2, CodecInvariance, CodecRepairs, PTL DEF Spec

\* Whatever the channel does to the symbols and whatever an earlier block left behind:
\* Berlekamp-Massey, whose loop does not look at the size of its locators, comes to NROOTS
\* at most (decode.c:71); an error is located in the block (decode.c:203-206); and the search
\* writes no more roots than the order of the locator (decode.c:136-138), unless that is
\* NROOTS, the one order for which nothing bounds them.
THEOREM CodecInBounds == Spec => []InBounds
<1>1. CodecInv /\ Fitting => InBounds
  <2> SUFFICES ASSUME CodecInv, Fitting PROVE InBounds
    OBVIOUS
  <2>1. rs.received \in Row(BLOCK - 1) /\ rs.locator \in Row(NROOTS) /\ rs.last \in Row(NROOTS)
        /\ rs.locations \in [0 .. NROOTS - 1 -> 0 .. BLOCK - 1]
        /\ rs.lastOrder \in Nat /\ rs.delay \in Nat /\ rs.numerrors \in Nat
    BY DEF CodecInv, Types, Decoder
  <2>2. pc = "locator" /\ turn > 0 => Reach(rs) <= NROOTS
    <3> SUFFICES ASSUME pc = "locator", turn > 0 PROVE Reach(rs) <= NROOTS
      OBVIOUS
    <3>1. turn \in Nat /\ turn < NROOTS /\ NROOTS \in Nat /\ Progress(rs, turn)
      BY FieldSize DEF CodecInv, Types, Cursors
    <3>2. rs.lastOrder + rs.delay <= turn + 1 - rs.numerrors
      BY <3>1 DEF Progress
    <3> QED  BY <2>1, <3>1, <3>2 DEF Reach
  <2>3. pc \in {"roots", "values"} => rs.order \in 1 .. NROOTS
    BY OrderOfLocator DEF CodecInv, Types, Cursors
  <2> QED  BY <2>1, <2>2, <2>3 DEF InBounds, CodecInv, Types, Decoding, Row, Fitting
<1> QED  BY <1>1, CodecInvariance, CodecFits, PTL
=============================================================================
