------------------------------ MODULE Induction ------------------------------
(***************************************************************************)
(* Induction over the natural numbers in a form without an operator as a   *)
(* parameter, so that the proofs of the other modules can cite it: a set   *)
(* of numbers has a least element, and a set that has 0 and the successor  *)
(* of each of its elements has them all.  From this, that functions        *)
(* defined by recursion exist; and some facts about division.              *)
(***************************************************************************)
EXTENDS Integers, Sequences, FiniteSetTheorems, TLAPS

\* The smallest of the sets 0 .. n, n \in T, is that of T's least element.
LEMMA LeastNat ==
    ASSUME NEW T \in SUBSET Nat, T # {}
    PROVE  \E n \in T : \A m \in T : n <= m
<1> DEFINE U == {0 .. n : n \in T}
<1>1. U \subseteq FiniteSubsetsOf(Nat)
  <2>1. \A n \in Nat : IsFiniteSet(0 .. n)
    <3> TAKE n \in Nat
    <3> QED  BY FS_Interval
  <2> QED  BY <2>1 DEF FiniteSubsetsOf
<1>2. U # {}
  OBVIOUS
<1>3. PICK x \in U : \A y \in U : ~(<<y, x>> \in StrictSubsetOrdering(Nat))
  <2> HIDE DEF U
  <2> QED  BY <1>1, <1>2, WFMin, FS_StrictSubsetOrderingWellFounded
<1>4. PICK n \in T : x = 0 .. n
  BY <1>3
<1>5. \A m \in T : n <= m
  <2> SUFFICES ASSUME NEW m \in T, m < n PROVE FALSE
    OBVIOUS
  <2> DEFINE s == <<0 .. m, 0 .. n>>
  <2>1. 0 .. m \in SUBSET Nat /\ 0 .. n \in SUBSET Nat /\ 0 .. m \subseteq 0 .. n
    OBVIOUS
  <2>2. n \in 0 .. n /\ n \notin 0 .. m
    OBVIOUS
  <2>3. s \in (SUBSET Nat) \X (SUBSET Nat) /\ s[1] = 0 .. m /\ s[2] = 0 .. n
    BY <2>1
  <2> HIDE DEF s
  <2>4. s[1] \subseteq s[2] /\ s[1] # s[2]
    BY <2>1, <2>2, <2>3
  <2>5. s \in StrictSubsetOrdering(Nat)
    BY <2>3, <2>4 DEF StrictSubsetOrdering
  <2> QED  BY <1>3, <1>4, <2>5 DEF s
<1> QED  BY <1>5

\* Induction from 0 up to, and not beyond, a bound.
LEMMA UpTo ==
    ASSUME NEW S, NEW n \in Nat, 0 \in S, \A i \in 0 .. n - 1 : i \in S => i + 1 \in S
    PROVE  \A i \in 0 .. n : i \in S
<1> SUFFICES ASSUME (0 .. n) \ S # {}
             PROVE  FALSE
  OBVIOUS
<1>1. PICK i \in (0 .. n) \ S : \A m \in (0 .. n) \ S : i <= m
  <2>1. (0 .. n) \ S \in SUBSET Nat
    OBVIOUS
  <2> QED  BY <2>1, LeastNat
<1>2. i # 0
  OBVIOUS
<1>3. i - 1 \in 0 .. n - 1 /\ i - 1 \in S
  BY <1>1, <1>2
<1>4. (i - 1) + 1 = i
  OBVIOUS
<1> QED  BY <1>1, <1>3, <1>4

\* f begins with v and goes on by Step.
Unrolls(f, n, v, Step) == f[0] = v /\ \A k \in 1 .. n : f[k] = Step[k][f[k - 1]]

\* A recursive function over an interval exists: the equations it is defined by have a
\* solution, and one of the type that its steps preserve.
LEMMA Recursion ==
    ASSUME NEW n \in Nat, NEW V, NEW v \in V, NEW Step \in [1 .. n -> [V -> V]]
    PROVE  \E f \in [0 .. n -> V] : Unrolls(f, n, v, Step)
<1> DEFINE Def(m, f) == f[0] = v /\ \A k \in 1 .. m : f[k] = Step[k][f[k - 1]]
           S == {m \in 0 .. n : \E f \in [0 .. m -> V] : Def(m, f)}
<1>1. 0 \in S
  <2> DEFINE f == [k \in 0 .. 0 |-> v]
  <2>1. f \in [0 .. 0 -> V] /\ Def(0, f)
    OBVIOUS
  <2>2. 0 \in 0 .. n
    OBVIOUS
  <2> HIDE DEF f, Def
  <2> QED  BY <2>1, <2>2
<1>2. ASSUME NEW m \in 0 .. n - 1, m \in S
      PROVE  m + 1 \in S
  <2>1. PICK f \in [0 .. m -> V] : Def(m, f)
    BY <1>2
  <2> DEFINE g == [k \in 0 .. m + 1 |-> IF k = m + 1 THEN Step[m + 1][f[m]] ELSE f[k]]
  <2>2. g \in [0 .. m + 1 -> V]
    OBVIOUS
  <2>3. Def(m + 1, g)
    BY <2>1
  <2>4. m + 1 \in 0 .. n
    OBVIOUS
  <2> HIDE DEF g, Def
  <2> QED  BY <2>2, <2>3, <2>4
<1>3. n \in S
  <2>1. n \in 0 .. n
    OBVIOUS
  <2> HIDE DEF S
  <2> QED  BY <1>1, <1>2, <2>1, UpTo
<1> QED  BY <1>3 DEF Unrolls

\* g is a function on 0 .. n.
IsTable(g, n) == g = [k \in 0 .. n |-> g[k]]

\* Whatever obeys the equations has the type.
LEMMA Unrolled ==
    ASSUME NEW n \in Nat, NEW V, NEW v \in V, NEW Step \in [1 .. n -> [V -> V]],
           NEW g, IsTable(g, n), g[0] = v,
           \A k \in 1 .. n : g[k - 1] \in V => g[k] = Step[k][g[k - 1]]
    PROVE  g \in [0 .. n -> V] /\ Unrolls(g, n, v, Step)
<1> DEFINE S == {k \in 0 .. n : g[k] \in V}
<1>1. 0 \in S
  OBVIOUS
<1>2. ASSUME NEW k \in 0 .. n - 1, k \in S
      PROVE  k + 1 \in S
  <2>1. k + 1 \in 1 .. n /\ (k + 1) - 1 = k /\ k + 1 \in 0 .. n
    OBVIOUS
  <2>2. g[k + 1] = Step[k + 1][g[k]]
    BY <1>2, <2>1
  <2> QED  BY <1>2, <2>1, <2>2
<1>3. \A k \in 0 .. n : k \in S
  <2> HIDE DEF S
  <2> QED  BY <1>1, <1>2, UpTo
<1>4. g \in [0 .. n -> V]
  <2>1. \A k \in 0 .. n : g[k] \in V
    BY <1>3
  <2> QED  BY <2>1 DEF IsTable
<1>5. \A k \in 1 .. n : g[k - 1] \in V
  <2> TAKE k \in 1 .. n
  <2>1. k - 1 \in 0 .. n
    OBVIOUS
  <2> QED  BY <1>4, <2>1
<1> QED  BY <1>4, <1>5 DEF Unrolls

----------------------------------------------------------------------------
(* Division, and sequences as functions. *)

\* What dividing means.
LEMMA Division ==
    ASSUME NEW x \in Nat, NEW m \in Nat \ {0}
    PROVE  /\ x \div m \in Nat /\ x % m \in 0 .. m - 1
           /\ x = m * (x \div m) + (x % m)
OBVIOUS

\* Quotient and rest are unique.
LEMMA Quotient ==
    ASSUME NEW x \in Nat, NEW m \in Nat \ {0}, NEW q \in Nat, NEW r \in 0 .. m - 1,
           x = m * q + r
    PROVE  x \div m = q /\ x % m = r
<1> DEFINE d == x \div m
<1>1. d \in Nat /\ x % m \in 0 .. m - 1 /\ x = m * d + (x % m)
  BY Division
<1> HIDE DEF d
<1>2. m * d + (x % m) = m * q + r
  BY <1>1
<1>3. ~(d < q)
  <2> SUFFICES ASSUME d < q PROVE FALSE
    OBVIOUS
  <2>1. PICK e \in Nat : q = d + 1 + e
    <3>1. q - d - 1 \in Nat /\ q = d + 1 + (q - d - 1)
      BY <1>1
    <3> QED  BY <3>1
  <2>2. m * q = m * d + m + m * e /\ m * e \in Nat /\ m * d \in Nat
    BY <2>1, <1>1
  <2> QED  BY <2>2, <1>1, <1>2
<1>4. ~(q < d)
  <2> SUFFICES ASSUME q < d PROVE FALSE
    OBVIOUS
  <2>1. PICK e \in Nat : d = q + 1 + e
    <3>1. d - q - 1 \in Nat /\ d = q + 1 + (d - q - 1)
      BY <1>1
    <3> QED  BY <3>1
  <2>2. m * d = m * q + m + m * e /\ m * e \in Nat /\ m * q \in Nat
    BY <2>1, <1>1
  <2> QED  BY <2>2, <1>1, <1>2
<1>5. d = q
  BY <1>1, <1>3, <1>4
<1> QED  BY <1>1, <1>2, <1>5 DEF d

\* Shifting by one and then by k is shifting by k + 1.
LEMMA DivTwice ==
    ASSUME NEW x \in Nat, NEW m \in Nat \ {0}
    PROVE  (x \div 2) \div m = x \div (2 * m)
<1> DEFINE a == x \div 2
           q == a \div m
           r == a % m
<1>1. a \in Nat /\ x % 2 \in 0 .. 1 /\ x = 2 * a + (x % 2)
  OBVIOUS
<1>2. q \in Nat /\ r \in 0 .. m - 1 /\ a = m * q + r
  BY <1>1, Division
<1> HIDE DEF a, q, r
<1>3. x = (2 * m) * q + (2 * r + (x % 2))
  BY <1>1, <1>2
<1>4. 2 * m \in Nat \ {0} /\ 2 * r + (x % 2) \in 0 .. 2 * m - 1
  BY <1>1, <1>2
<1>5. x \div (2 * m) = q
  BY <1>2, <1>3, <1>4, Quotient
<1> QED  BY <1>5 DEF q, a

\* The rest of a division, of negative numbers too.
LEMMA RestType ==
    ASSUME NEW x \in Int, NEW m \in Nat \ {0}
    PROVE  x % m \in 0 .. m - 1
OBVIOUS

\* A function on 1 .. n is a sequence of length n.
LEMMA FunctionIsSeq ==
    ASSUME NEW n \in Nat, NEW S, NEW f \in [1 .. n -> S]
    PROVE  f \in Seq(S) /\ Len(f) = n
OBVIOUS
=============================================================================
