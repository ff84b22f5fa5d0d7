---------------------------- MODULE CounterLemmas ----------------------------
(***************************************************************************)
(* What the arithmetic of Counters computes, for every width; and what the *)
(* folds of the community modules come to.                                 *)
(***************************************************************************)
EXTENDS Counters, FiniteSetTheorems, TLAPS

\* Quotient and remainder of integers and of naturals.
LEMMA DivMod ==
    ASSUME NEW n \in Int, NEW m \in Nat \ {0}
    PROVE  /\ n \div m \in Int
           /\ n % m \in 0..(m - 1)
           /\ n = m * (n \div m) + (n % m)
  OBVIOUS

\* Division keeps the order.
LEMMA DivMonotone ==
    ASSUME NEW a \in Int, NEW b \in Int, NEW m \in Nat \ {0}, a <= b
    PROVE  a \div m <= b \div m
<1> DEFINE q == a \div m  p == b \div m
<1>1. /\ q \in Int /\ p \in Int
      /\ m * q <= a /\ b < m * p + m
      /\ m * q \in Int /\ m * p \in Int
  BY DivMod
<1> HIDE DEF q, p
<1>2. ASSUME q >= p + 1 PROVE FALSE
  <2>1. m * q >= m * (p + 1) /\ m * (p + 1) = m * p + m
    BY <1>1, <1>2
  <2> QED BY <1>1, <2>1
<1> QED BY <1>1, <1>2 DEF q, p

\* The same of naturals, whose quotient is a natural.
LEMMA DivModNat ==
    ASSUME NEW n \in Nat, NEW m \in Nat \ {0}
    PROVE  /\ n \div m \in Nat
           /\ n % m \in 0..(m - 1)
           /\ n = m * (n \div m) + (n % m)
  OBVIOUS

\* A quotient and a remainder in range are those of the division.
LEMMA DivUnique ==
    ASSUME NEW n \in Int, NEW m \in Nat \ {0}, NEW q \in Int, NEW r \in 0..(m - 1),
           n = m * q + r
    PROVE  q = n \div m /\ r = n % m
<1> DEFINE p == n \div m   s == n % m
<1>1. p \in Int /\ s \in 0..(m - 1) /\ n = m * p + s
  BY DivMod
<1> HIDE DEF p, s
<1>2. CASE q < p
  <2>1. m * (q + 1) <= m * p
    BY <1>1, <1>2
  <2>2. m * (q + 1) = m * q + m
    OBVIOUS
  <2> QED BY <1>1, <2>1, <2>2
<1>3. CASE p < q
  <2>1. m * (p + 1) <= m * q
    BY <1>1, <1>3
  <2>2. m * (p + 1) = m * p + m
    BY <1>1
  <2> QED BY <1>1, <2>1, <2>2
<1>4. q = p
  BY <1>1, <1>2, <1>3
<1>5. r = s
  BY <1>1, <1>4
<1> QED BY <1>4, <1>5 DEF p, s

\* A set of naturals that is not empty has a least element: the prover's stand-in
\* for induction.
LEMMA Least ==
    ASSUME NEW S \in SUBSET Nat, S # {} PROVE \E i \in S : \A j \in S : i <= j
<1>1. PICK i \in S : \A j \in S : ~(<<j, i>> \in OpToRel(<, Nat))
  BY WFMin, NatLessThanWellFounded
<1>2. \A j \in S : ~(j < i)
  BY <1>1 DEF OpToRel
<1> QED BY <1>2

\* Dividing twice by m is dividing by m * m.
LEMMA DivTwice ==
    ASSUME NEW n \in Nat, NEW m \in Nat \ {0}
    PROVE  (n \div m) \div m = n \div (m * m)
<1> DEFINE q1 == n \div m   r1 == n % m
           q2 == q1 \div m  r2 == q1 % m
<1>1. q1 \in Nat /\ r1 \in 0..(m - 1) /\ n = m * q1 + r1
  BY DivModNat
<1>2. q2 \in Nat /\ r2 \in 0..(m - 1) /\ q1 = m * q2 + r2
  BY <1>1, DivModNat
<1> HIDE DEF q1, q2, r1, r2
<1>3. m * q1 = m * (m * q2) + m * r2
  BY <1>1, <1>2
<1>4. m * (m * q2) = (m * m) * q2
  BY <1>2
<1>5. m * m \in Nat \ {0}
  OBVIOUS
<1>6. m * r2 <= m * (m - 1) /\ m * r2 >= 0
  BY <1>2
<1>7. m * (m - 1) = m * m - m
  OBVIOUS
<1> DEFINE s == m * r2  mm == m * m
<1>8. s \in Nat
  BY <1>2
<1> HIDE DEF s, mm
<1>9. s + r1 \in 0..(mm - 1)
  BY <1>1, <1>5, <1>6, <1>7, <1>8 DEF s, mm
<1>10. n = mm * q2 + (s + r1)
  BY <1>1, <1>2, <1>3, <1>4, <1>8 DEF s, mm
<1>11. q2 = n \div mm
  BY <1>2, <1>5, <1>9, <1>10, DivUnique DEF mm
<1> QED BY <1>11 DEF q1, q2, mm

\* The three parts of a change of n bytes are parts of it: the KiB that it
\* adds to a total, and the bytes that are left over.
LEMMA ChangeParts ==
    ASSUME NEW n \in Nat
    PROVE  /\ MBPart(n) \in Nat
           /\ KBPart(n) \in 0..(K - 1)
           /\ BytePart(n) \in 0..(K - 1)
           /\ n = K * InKB(MBPart(n), KBPart(n)) + BytePart(n)
<1> USE CountersAssumption
<1>1. n \div K \in Nat /\ n % K \in 0..(K - 1) /\ n = K * (n \div K) + (n % K)
  BY DivModNat
<1>2. /\ (n \div K) \div K \in Nat
      /\ (n \div K) % K \in 0..(K - 1)
      /\ n \div K = K * ((n \div K) \div K) + ((n \div K) % K)
  BY <1>1, DivModNat
<1>3. (n \div K) \div K = n \div (K * K)
  BY DivTwice
<1>4. K * ((n \div K) \div K) = ((n \div K) \div K) * K
  BY <1>2
<1> QED BY <1>1, <1>2, <1>3, <1>4 DEF MBPart, KBPart, BytePart, InKB

\* addtraffic adds what it is given and leaves less than a MiB in the KiB part.
LEMMA AddTraffic ==
    ASSUME NEW t \in [mb : Nat, kb : 0..(K - 1)],
           NEW srcmb \in Nat, NEW srckb \in 0..(K - 1)
    PROVE  /\ addtraffic(t, srcmb, srckb) \in [mb : Nat, kb : 0..(K - 1)]
           /\ InKB(addtraffic(t, srcmb, srckb).mb, addtraffic(t, srcmb, srckb).kb)
                = InKB(t.mb, t.kb) + InKB(srcmb, srckb)
<1> USE CountersAssumption
<1> DEFINE kb == t.kb + srckb   c == kb \div K   r == kb % K
<1>1. kb \in Nat /\ t.mb \in Nat /\ t.kb \in 0..(K - 1)
  OBVIOUS
<1>2. c \in Nat /\ r \in 0..(K - 1) /\ kb = K * c + r
  BY <1>1, DivModNat
<1> HIDE DEF c, r
<1>3. K * c = c * K
  BY <1>2
<1>4. kb - c * K = r
  BY <1>1, <1>2, <1>3
<1>5. (t.mb + srcmb + c) * K = t.mb * K + srcmb * K + c * K
  BY <1>1, <1>2
<1>6. (t.mb + srcmb) * K = t.mb * K + srcmb * K
  BY <1>1
<1>7. CASE kb >= K
  <2>1. addtraffic(t, srcmb, srckb) = [mb |-> t.mb + srcmb + c, kb |-> r]
    BY <1>4, <1>7 DEF addtraffic, c
  <2> DEFINE x == t.mb * K  y == srcmb * K  z == c * K
  <2>2. x \in Nat /\ y \in Nat /\ z \in Nat
    BY <1>1, <1>2
  <2>3. (t.mb + srcmb + c) * K = x + y + z /\ t.kb + srckb = z + r
    BY <1>2, <1>3, <1>5
  <2> HIDE DEF x, y, z
  <2>4. (t.mb + srcmb + c) * K + r = (x + t.kb) + (y + srckb)
    BY <1>1, <1>2, <2>2, <2>3
  <2> QED BY <1>1, <1>2, <2>1, <2>4 DEF InKB, x, y
<1>8. CASE ~(kb >= K)
  <2>1. addtraffic(t, srcmb, srckb) = [mb |-> t.mb + srcmb, kb |-> kb]
    BY <1>8 DEF addtraffic
  <2> QED BY <1>1, <1>6, <1>8, <2>1 DEF InKB
<1> QED BY <1>7, <1>8

\* Crediting a change of n bytes to a total: all bytes but the last few that
\* do not fill a KiB are in the total afterwards.
LEMMA CreditTotal ==
    ASSUME NEW t \in [mb : Nat, kb : 0..(K - 1)], NEW n \in Nat,
           NEW u, u = addtraffic(t, MBPart(n), KBPart(n))
    PROVE  /\ u \in [mb : Nat, kb : 0..(K - 1)]
           /\ BytePart(n) \in 0..(K - 1)
           /\ K * InKB(u.mb, u.kb) + BytePart(n) = K * InKB(t.mb, t.kb) + n
<1> DEFINE old == InKB(t.mb, t.kb)
           add == InKB(MBPart(n), KBPart(n))
           new == InKB(u.mb, u.kb)
<1>1. /\ MBPart(n) \in Nat /\ KBPart(n) \in 0..(K - 1) /\ BytePart(n) \in 0..(K - 1)
      /\ n = K * add + BytePart(n)
  BY ChangeParts
<1>2. u \in [mb : Nat, kb : 0..(K - 1)] /\ new = old + add
  BY <1>1, AddTraffic
<1>3. old \in Int /\ add \in Int
  <2>1. t.mb * K \in Int /\ MBPart(n) * K \in Int
    BY <1>1, CountersAssumption
  <2> QED BY <2>1, <1>1, CountersAssumption DEF InKB
<1> HIDE DEF old, add, new
<1>4. K * new = K * old + K * add /\ K * old \in Int /\ K * add \in Int
  BY <1>2, <1>3, CountersAssumption
<1>5. BytePart(n) \in Int
  BY <1>1, CountersAssumption
<1>6. K * new + BytePart(n) = K * old + n
  BY <1>1, <1>4, <1>5
<1> QED BY <1>1, <1>2, <1>6 DEF old, new

\* The change between two readings is a natural number below 2^64.
LEMMA CounterCalcType ==
    ASSUME NEW a \in Word64, NEW b \in Word64
    PROVE  countercalc(a, b) \in Word64
  BY CountersAssumption DEF countercalc, Word64

\* Assigning to an unsigned variable keeps what fits ...
LEMMA U64Fits ==
    ASSUME NEW n \in Word64
    PROVE  U64(n) = n
<1> DEFINE m == FP64 + 1
<1>1. m \in Nat \ {0} /\ n \in 0..(m - 1)
  BY CountersAssumption DEF Word64
<1> HIDE DEF m
<1>2. n = m * 0 + n /\ n \in Int
  BY <1>1
<1>3. n = n % m
  BY <1>1, <1>2, DivUnique
<1> QED BY <1>3 DEF U64, m

\* ... and turns a negative difference into a very large number.
LEMMA U64Wraps ==
    ASSUME NEW a \in Word64, NEW b \in Word64, a < b
    PROVE  U64(a - b) = FP64 + 1 - (b - a)
<1> DEFINE m == FP64 + 1  n == a - b
<1>1. m \in Nat \ {0} /\ n \in Int /\ m + n \in 0..(m - 1)
  BY CountersAssumption DEF Word64
<1> HIDE DEF m, n
<1>2. n = m * (-1) + (m + n)
  BY <1>1
<1>3. m + n = n % m
  BY <1>1, <1>2, DivUnique
<1>4. U64(a - b) = m + n
  BY <1>3 DEF U64, m, n
<1> QED BY <1>4, CountersAssumption DEF m, n, Word64

-----------------------------------------------------------------------------
(***************************************************************************)
(* Folds.  They are recursive functions of finite sets, which take one     *)
(* element after another; that there is such a function is shown for the   *)
(* sets of at most n elements, for the least n for which it fails.         *)
(***************************************************************************)

\* A property that a finite set has if those with an element less have it.
LEMMA SmallSets ==
    ASSUME NEW S, IsFiniteSet(S), NEW Bad \in SUBSET (SUBSET S), Bad # {}
    PROVE  \E s \in Bad : \A x \in s : s \ {x} \notin Bad
<1> DEFINE N == {Cardinality(s) : s \in Bad}
<1>1. \A s \in SUBSET S : IsFiniteSet(s) /\ Cardinality(s) \in Nat
  BY FS_Subset, FS_CardinalityType
<1>2. N \in SUBSET Nat /\ N # {}
  BY <1>1
<1>3. PICK n \in N : \A m \in N : n <= m
  BY <1>2, Least
<1>4. PICK s \in Bad : Cardinality(s) = n
  BY <1>3
<1>5. ASSUME NEW x \in s, s \ {x} \in Bad PROVE FALSE
  <2>1. Cardinality(s \ {x}) = Cardinality(s) - 1
    BY <1>1, FS_RemoveElement
  <2>2. n <= Cardinality(s \ {x})
    BY <1>3, <1>5
  <2> QED BY <1>1, <1>4, <2>1, <2>2
<1> QED BY <1>4, <1>5

\* pick chooses an element of each set.
Picks(pick, S) == \A s \in SUBSET S : s # {} => pick[s] \in s

\* g is what taking the elements that pick chooses by op makes of zero.
Takes(g, op, zero, pick, S) ==
    \A s \in SUBSET S :
        g[s] = IF s = {} THEN zero ELSE op[<<pick[s], g[s \ {pick[s]}]>>]

\* It exists, and has its values where op has them.
LEMMA TakingExists ==
    ASSUME NEW S, IsFiniteSet(S), NEW V, NEW zero \in V, NEW op \in [S \X V -> V],
           NEW pick, Picks(pick, S)
    PROVE  \E g \in [SUBSET S -> V] : Takes(g, op, zero, pick, S)
<1> DEFINE Part(n) == {s \in SUBSET S : Cardinality(s) <= n}
           Step(g, s) == IF s = {} THEN zero ELSE op[<<pick[s], g[s \ {pick[s]}]>>]
           Partial(n, g) == g \in [Part(n) -> V] /\ \A s \in Part(n) : g[s] = Step(g, s)
           bad == {n \in Nat : ~\E g : Partial(n, g)}
<1>1. \A s \in SUBSET S : IsFiniteSet(s) /\ Cardinality(s) \in Nat
  BY FS_Subset, FS_CardinalityType
<1>2. ASSUME NEW n \in Nat, n \in bad, \A m \in bad : n <= m PROVE FALSE
  <2>1. CASE n = 0
    <3> DEFINE g == [s \in Part(0) |-> zero]
    <3>1. \A s \in Part(0) : s = {}
      <4> SUFFICES ASSUME NEW s \in Part(0) PROVE s = {}
        OBVIOUS
      <4>1. Cardinality(s) = 0 /\ IsFiniteSet(s)
        BY <1>1
      <4> QED BY <4>1, FS_EmptySet
    <3>2. Partial(0, g)
      BY <3>1
    <3> QED BY <1>2, <2>1, <3>2
  <2>2. CASE n # 0
    <3>1. n - 1 \in Nat /\ n - 1 \notin bad
      <4>1. n - 1 \in Nat /\ ~(n <= n - 1)
        BY <2>2
      <4> HIDE DEF bad
      <4> QED BY <1>2, <4>1
    <3>2. PICK g : Partial(n - 1, g)
      BY <3>1
    <3> DEFINE h == [s \in Part(n) |-> Step(g, s)]
    <3>3. ASSUME NEW s \in Part(n), s # {}
          PROVE  pick[s] \in S /\ s \ {pick[s]} \in Part(n - 1) /\ s \ {pick[s]} \in Part(n)
      <4>1. pick[s] \in s
        BY <3>3 DEF Picks
      <4>2. Cardinality(s \ {pick[s]}) = Cardinality(s) - 1
        BY <1>1, <4>1, FS_RemoveElement
      <4> QED BY <1>1, <3>1, <4>1, <4>2
    <3>4. ASSUME NEW s \in Part(n) PROVE Step(g, s) \in V
      <4>1. CASE s = {}
        BY <4>1
      <4>2. CASE s # {}
        <5>1. pick[s] \in S /\ g[s \ {pick[s]}] \in V
          BY <3>2, <3>3, <4>2
        <5> QED BY <4>2, <5>1
      <4> QED BY <4>1, <4>2
    <3>5. h \in [Part(n) -> V]
      BY <3>4
    <3>6. \A s \in Part(n - 1) : s \in Part(n) /\ h[s] = g[s]
      <4> SUFFICES ASSUME NEW s \in Part(n - 1) PROVE s \in Part(n) /\ h[s] = g[s]
        OBVIOUS
      <4>1. s \in Part(n)
        BY <1>1, <3>1
      <4> QED BY <3>2, <4>1
    <3>7. ASSUME NEW s \in Part(n) PROVE h[s] = Step(h, s)
      <4>1. CASE s = {}
        BY <4>1
      <4>2. CASE s # {}
        <5>1. h[s \ {pick[s]}] = g[s \ {pick[s]}]
          BY <3>3, <3>6, <4>2
        <5> QED BY <4>2, <5>1
      <4> QED BY <4>1, <4>2
    <3>8. Partial(n, h)
      BY <3>5, <3>7
    <3> QED BY <1>2, <3>8
  <2> QED BY <2>1, <2>2
<1>3. bad = {}
  <2>1. bad \in SUBSET Nat
    OBVIOUS
  <2> HIDE DEF bad
  <2> QED BY <1>2, <2>1, Least
<1>4. PICK g : Partial(Cardinality(S), g)
  BY <1>1, <1>3
<1>5. Part(Cardinality(S)) = SUBSET S
  BY FS_Subset
<1> QED BY <1>4, <1>5 DEF Takes
=============================================================================
